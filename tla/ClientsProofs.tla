----------------------------- MODULE ClientsProofs ----------------------------
(* Theorems about what agents ask of the daemon and what is shown to them, for  *)
(* any number of servers, pools, sessions, commits, resources, manifests,       *)
(* worktrees and files: the review tools, the event inbox, the gate with the    *)
(* classifier, the wiring of a worktree, the view, the MCP servers with the      *)
(* integrator commands.                                                         *)
EXTENDS IntegratorRun, ReviewTools, EventInbox, SingularGate, WatchView, Wiring,
        FiniteSetTheorems, WellFoundedInduction, TLAPS

-----------------------------------------------------------------------------
(* Induction.                                                                   *)

\* A set of naturals that has members has a least one.
LEMMA LeastOf ==
  ASSUME NEW S \in SUBSET Nat, S # {}
  PROVE  \E m \in S : \A n \in S : m <= n
<1> DEFINE Less == OpToRel(<, Nat)
<1>1. IsWellFoundedOn(Less, Nat)
  BY NatLessThanWellFounded
<1>2. PICK m \in S : \A n \in S : ~(<<n, m>> \in Less)
  <2> HIDE DEF Less
  <2>. QED BY <1>1, WFMin
<1>3. \A n \in S : n < m => <<n, m>> \in Less
  BY DEF OpToRel
<1>4. \A n \in S : ~(n < m)
  <2> HIDE DEF Less
  <2>. QED BY <1>2, <1>3
<1> HIDE DEF Less
<1>5. \A n \in S : m <= n
  BY <1>4
<1>. QED BY <1>5

\* What holds for zero and is kept by every step holds for every natural.
LEMMA ByInduction ==
  ASSUME NEW S, 0 \in S, \A n \in Nat : n \in S => n + 1 \in S
  PROVE  \A n \in Nat : n \in S
<1> SUFFICES ASSUME Nat \ S # {} PROVE FALSE
  OBVIOUS
<1>1. PICK m \in Nat \ S : \A n \in Nat \ S : m <= n
  BY LeastOf
<1>2. m # 0 /\ m - 1 \in Nat /\ m - 1 \in S /\ (m - 1) + 1 = m
  BY <1>1
<1>. QED BY <1>2

-----------------------------------------------------------------------------
(* The review tools: what they report as approved is on the trunk.             *)

\* The trunk has nothing the branch does not have, and nobody asks for more than there is.
Behind == trunk <= tip /\ row.rev <= tip

\* What an approve call is about to record is on the trunk.
MergedFirst == \A i \in Reviewers : approving[i].at # "none" => approving[i].merged <= trunk

\* A claim is somebody's, and a claimer that has merged did so after it claimed, and so no
\* less than was asked for.
ClaimedThenMerged ==
  row.state = "claimed" =>
    /\ row.claimer \in Reviewers
    /\ approving[row.claimer].at # "none" => approving[row.claimer].merged >= row.rev

ToolsInv == ApprovedIsMerged /\ Behind /\ MergedFirst /\ ClaimedThenMerged

LEMMA ToolsInitially == ToolsInit => ToolsInv
  BY ToolsAssumption
  DEF ToolsInit, ToolsInv, ApprovedIsMerged, ToolsTypeOK, Behind, MergedFirst,
      ClaimedThenMerged, Revs, NoCall, NoRequest

LEMMA BuilderStep ==
  ASSUME ToolsInv, BuilderCommits \/ RequestIntegration \/ CancelRequest
  PROVE  ToolsInv'
<1> USE ToolsAssumption DEF ToolsInv, ApprovedIsMerged, ToolsTypeOK, Behind, MergedFirst,
                            ClaimedThenMerged, Revs
<1>1. CASE BuilderCommits
  BY <1>1 DEF BuilderCommits
<1>2. CASE RequestIntegration
  <2>1. row' = [state |-> "requested", rev |-> tip, claimer |-> NoReviewer, merged |-> 0,
                by |-> NoReviewer]
    BY <1>2 DEF RequestIntegration, NoRequest
  <2>2. 0 \in Revs
    OBVIOUS
  <2>3. QED BY <1>2, <2>1, <2>2 DEF RequestIntegration
<1>3. CASE CancelRequest
  <2>1. /\ row' \in [state : {"withdrawn"}, rev : Revs, claimer : Reviewers \cup {NoReviewer},
                      merged : Revs, by : Reviewers \cup {NoReviewer}]
        /\ row'.rev = row.rev /\ UNCHANGED <<tip, trunk, approving, alive>>
    <3>1. row' = [row EXCEPT !.state = "withdrawn"]
      BY <1>3 DEF CancelRequest
    <3>2. /\ row.rev \in Revs /\ row.merged \in Revs
          /\ {row.by, row.claimer} \subseteq Reviewers \cup {NoReviewer}
      OBVIOUS
    <3>3. row' = [state |-> "withdrawn", rev |-> row.rev, claimer |-> row.claimer,
                  merged |-> row.merged, by |-> row.by]
      BY <3>1
    <3>4. QED BY <1>3, <3>2, <3>3 DEF CancelRequest
  <2>2. QED BY <2>1
<1>4. QED BY <1>1, <1>2, <1>3

LEMMA ClaimStep ==
  ASSUME ToolsInv, NEW i \in Reviewers, ClaimRequest(i) \/ RejectRequest(i)
  PROVE  ToolsInv'
<1> USE ToolsAssumption DEF Ready, NoCall, ToolsInv, ApprovedIsMerged, ToolsTypeOK, Behind,
                            MergedFirst, ClaimedThenMerged, Revs
<1>1. CASE ClaimRequest(i)
  <2>1. /\ row' \in [state : {"claimed"}, rev : Revs, claimer : {i},
                      merged : Revs, by : Reviewers \cup {NoReviewer}]
        /\ row'.rev = row.rev /\ UNCHANGED <<tip, trunk, approving, alive>>
        /\ approving[i].at = "none"
    <3>1. row' = [row EXCEPT !.state = "claimed", !.claimer = i]
      BY <1>1 DEF ClaimRequest
    <3>2. row.rev \in Revs /\ row.merged \in Revs /\ row.by \in Reviewers \cup {NoReviewer}
      OBVIOUS
    <3>3. row' = [state |-> "claimed", rev |-> row.rev, claimer |-> i, merged |-> row.merged,
                  by |-> row.by]
      BY <3>1
    <3>4. QED BY <1>1, <3>2, <3>3 DEF ClaimRequest
  <2>2. QED BY <2>1
<1>2. CASE RejectRequest(i)
  BY <1>2 DEF RejectRequest
<1>3. QED BY <1>1, <1>2

\* The trunk gets the whole branch, which is all that anybody asked for.
LEMMA MergeStep ==
  ASSUME ToolsInv, NEW i \in Reviewers, ApproveMerges(i)
  PROVE  ToolsInv'
<1> USE ToolsAssumption DEF ApproveMerges, Ready, NoCall, ToolsInv, Revs
<1>1. ApprovedIsMerged'
  BY DEF ApprovedIsMerged, ToolsTypeOK, Behind
<1>2. Behind' /\ MergedFirst'
  BY DEF ApprovedIsMerged, ToolsTypeOK, Behind, MergedFirst
<1>3. ClaimedThenMerged'
  BY DEF ApprovedIsMerged, ToolsTypeOK, Behind, ClaimedThenMerged
<1>4. QED BY <1>1, <1>2, <1>3

\* The verdict is recorded, refused or lost, and the call ends or is made again.
LEMMA VerdictStep ==
  ASSUME ToolsInv, NEW i \in Reviewers, ApproveRecords(i)
  PROVE  ToolsInv'
<1> USE ToolsAssumption DEF ToolsInv
<1>1. row' = row \/ (row.state = "claimed" /\ row' = Approved(i))
  BY DEF ApproveRecords, StoreApproves
<1>2. /\ approving' \in [Reviewers -> [at : {"none", "merged", "again"}, merged : Revs]]
      /\ \A j \in Reviewers : approving'[j].at # "none" =>
           approving[j].at # "none" /\ approving'[j].merged = approving[j].merged
      /\ approving[i].at # "none"
      /\ UNCHANGED <<tip, trunk, alive>>
  BY DEF ApproveRecords, NoCall, ApprovedIsMerged, ToolsTypeOK, Revs
<1>3. CASE row' = row
  BY <1>2, <1>3
  DEF ApprovedIsMerged, ToolsTypeOK, Behind, MergedFirst, ClaimedThenMerged, Revs
<1>4. CASE row.state = "claimed" /\ row' = Approved(i)
  <2>1. ToolsTypeOK'
    BY <1>2, <1>4 DEF Approved, ApprovedIsMerged, ToolsTypeOK
  <2>2. row'.merged <= trunk /\ (row'.claimer \in Reviewers \ {i} \/ row'.merged >= row'.rev)
    BY <1>2, <1>4 DEF Approved, ApprovedIsMerged, ToolsTypeOK, MergedFirst, ClaimedThenMerged
  <2>3. ApprovedIsMerged'
    BY <1>2, <1>4, <2>1, <2>2 DEF Approved, ApprovedIsMerged, ToolsTypeOK
  <2>4. Behind' /\ MergedFirst' /\ ClaimedThenMerged'
    BY <1>2, <1>4
    DEF Approved, ApprovedIsMerged, ToolsTypeOK, Behind, MergedFirst, ClaimedThenMerged, Revs
  <2>5. QED BY <2>3, <2>4
<1>5. QED BY <1>1, <1>3, <1>4

LEMMA ScanStep ==
  ASSUME ToolsInv, RequeueStaleClaim \/ \E i \in Reviewers : SessionDies(i)
  PROVE  ToolsInv'
<1> USE ToolsAssumption DEF NoCall, ToolsInv, ApprovedIsMerged, ToolsTypeOK, Behind,
                            MergedFirst, ClaimedThenMerged, Revs
<1>1. CASE RequeueStaleClaim
  BY <1>1 DEF RequeueStaleClaim
<1>2. ASSUME NEW i \in Reviewers, SessionDies(i)
      PROVE  ToolsInv'
  BY <1>2 DEF SessionDies
<1>3. QED BY <1>1, <1>2

LEMMA ToolsStep ==
  ASSUME ToolsInv, [ToolsNext]_toolsVars
  PROVE  ToolsInv'
<1>1. CASE UNCHANGED toolsVars
  BY <1>1 DEF toolsVars, ToolsInv, ApprovedIsMerged, ToolsTypeOK, Behind, MergedFirst,
              ClaimedThenMerged
<1>2. QED
  BY <1>1, BuilderStep, ClaimStep, MergeStep, VerdictStep, ScanStep DEF ToolsNext

\* What is recorded as approved is on the trunk, and is all that was asked for unless the
\* verdict was late (toolIntegrationApprove, store.approve).
THEOREM ApprovalsAreMerged == ToolsInit /\ [][ToolsNext]_toolsVars => []ApprovedIsMerged
<1>1. ToolsInv => ApprovedIsMerged
  BY DEF ToolsInv
<1>2. QED BY ToolsInitially, ToolsStep, <1>1, PTL

-----------------------------------------------------------------------------
(* The event inbox.                                                             *)

\* How many of the places P are not after place i.
UpTo(P, i) == {j \in P : j <= i}

LEMMA PlacesCount ==
  ASSUME NEW N \in Nat, NEW P \in SUBSET (1..N)
  PROVE  /\ IsFiniteSet(P) /\ Cardinality(P) \in Nat
         /\ \A i : /\ IsFiniteSet(UpTo(P, i)) /\ Cardinality(UpTo(P, i)) \in Nat
                   /\ Cardinality(UpTo(P, i)) <= Cardinality(P)
<1>1. IsFiniteSet(P)
  <2>1. P \subseteq 1..N /\ IsFiniteSet(1..N)
    BY FS_Interval
  <2>. QED BY <2>1, FS_Subset
<1>2. ASSUME NEW i
      PROVE  /\ IsFiniteSet(UpTo(P, i)) /\ Cardinality(UpTo(P, i)) \in Nat
             /\ Cardinality(UpTo(P, i)) <= Cardinality(P)
  BY <1>1, FS_Subset, FS_CardinalityType DEF UpTo
<1>. QED BY <1>1, <1>2, FS_CardinalityType

LEMMA CountReached ==
  ASSUME NEW N \in Nat, NEW P \in SUBSET (1..N), NEW n \in 1..Cardinality(P)
  PROVE  \E i \in P : Cardinality(UpTo(P, i)) = n
<1> DEFINE C(i) == Cardinality(UpTo(P, i))
           D == {k \in 0..N : n <= C(k)}
<1>0. Cardinality(P) \in Nat /\ \A i : C(i) \in Nat
  BY PlacesCount
<1>a. \A i \in P : i \in Nat /\ 1 <= i /\ i <= N
  OBVIOUS
<1>1. UpTo(P, N) = P /\ UpTo(P, 0) = {}
  <2>1. \A j \in P : j <= N /\ ~(j <= 0)
    BY <1>a
  <2>. QED BY <2>1, Zenon DEF UpTo
<1>2. N \in D
  BY <1>0, <1>1
<1>3. PICK m \in D : \A k \in D : m <= k
  <2>1. D \in SUBSET Nat
    OBVIOUS
  <2> HIDE DEF D
  <2>. QED BY <2>1, <1>2, LeastOf
<1>4. m # 0
  BY <1>0, <1>1, <1>3, FS_EmptySet
<1>5. m - 1 \in 0..N /\ m \in Nat /\ m \in 1..N
  BY <1>4
<1>6. C(m - 1) < n
  <2>1. m - 1 \notin D
    BY <1>3, <1>5
  <2>2. C(m - 1) \in Nat
    BY <1>0
  <2>. QED BY <2>1, <2>2, <1>5, <1>0
<1>7. m \in P
  <2> SUFFICES ASSUME m \notin P PROVE FALSE
    OBVIOUS
  <2>0. \A j \in P : (j <= m) <=> (j <= m - 1)
    BY <1>a, <1>5
  <2>1. UpTo(P, m) = UpTo(P, m - 1)
    BY <2>0, Zenon DEF UpTo
  <2>2. n <= C(m) /\ C(m) \in Nat
    BY <1>0, <1>3
  <2>. QED BY <2>1, <2>2, <1>6
<1>8. UpTo(P, m) = UpTo(P, m - 1) \cup {m} /\ m \notin UpTo(P, m - 1)
  <2>1. \A j \in P : (j <= m) <=> (j <= m - 1 \/ j = m)
    BY <1>a, <1>5
  <2>2. m <= m /\ ~(m <= m - 1)
    BY <1>5
  <2>3. \A j : j \in UpTo(P, m) <=> j \in UpTo(P, m - 1) \cup {m}
    BY <2>1, <2>2, <1>7, Zenon DEF UpTo
  <2>4. m \notin UpTo(P, m - 1)
    BY <2>2, Zenon DEF UpTo
  <2>. QED BY <2>3, <2>4, Zenon
<1>9. C(m) = C(m - 1) + 1
  BY <1>8, PlacesCount, FS_AddElement
<1>10. n <= C(m) /\ C(m) \in Nat /\ C(m - 1) \in Nat
  BY <1>0, <1>3
<1>11. C(m) = n
  <2> HIDE DEF C
  <2>. QED BY <1>6, <1>9, <1>10
<1>. QED BY <1>7, <1>11

\* The member of P that is its n-th.
Nth(P, n) == CHOOSE i \in P : Cardinality(UpTo(P, i)) = n

LEMMA PickedIs ==
  ASSUME NEW s, NEW P
  PROVE  Picked(s, P) = [n \in 1..Cardinality(P) |-> s[Nth(P, n)]]
BY DEF Picked, Nth, UpTo

LEMMA NthIs ==
  ASSUME NEW N \in Nat, NEW P \in SUBSET (1..N), NEW n \in 1..Cardinality(P)
  PROVE  Nth(P, n) \in P /\ Cardinality(UpTo(P, Nth(P, n))) = n
BY CountReached DEF Nth

LEMMA PickedInSeq ==
  ASSUME NEW T, NEW s \in Seq(T), NEW P \in SUBSET (1..Len(s))
  PROVE  Picked(s, P) \in Seq(T) /\ Len(Picked(s, P)) = Cardinality(P)
<1>1. Cardinality(P) \in Nat /\ Len(s) \in Nat
  <2>1. Len(s) \in Nat
    OBVIOUS
  <2>. QED BY <2>1, PlacesCount
<1>2. ASSUME NEW n \in 1..Cardinality(P) PROVE s[Nth(P, n)] \in T
  <2>1. Nth(P, n) \in 1..Len(s)
    BY <1>1, NthIs
  <2>. QED BY <2>1
<1>3. Picked(s, P) \in [1..Cardinality(P) -> T]
  BY <1>2, PickedIs
<1>. QED BY <1>1, <1>3

\* Nothing is picked of what is put behind, unless its place is picked too.
LEMMA PickedBefore ==
  ASSUME NEW T, NEW s \in Seq(T), NEW x \in T, NEW P \in SUBSET (1..Len(s))
  PROVE  Picked(Append(s, x), P) = Picked(s, P)
<1>1. Len(s) \in Nat
  OBVIOUS
<1>2. ASSUME NEW n \in 1..Cardinality(P) PROVE Append(s, x)[Nth(P, n)] = s[Nth(P, n)]
  <2>1. Nth(P, n) \in 1..Len(s)
    BY <1>1, NthIs
  <2>. QED BY <2>1
<1>. QED BY <1>2, PickedIs, Zenon

LEMMA PickedBehind ==
  ASSUME NEW T, NEW s \in Seq(T), NEW x \in T, NEW P \in SUBSET (1..Len(s))
  PROVE  Picked(Append(s, x), P \cup {Len(s) + 1}) = Append(Picked(s, P), x)
<1> DEFINE N == Len(s) + 1
           Q == P \cup {N}
           c == Cardinality(P)
<1>0. Len(s) \in Nat /\ \A i \in P : i \in Nat /\ 1 <= i /\ i <= Len(s)
  OBVIOUS
<1>1. N \in Nat /\ N \notin P /\ Q \in SUBSET (1..N) /\ P \in SUBSET (1..N)
  <2>1. N \in Nat /\ N \in 1..N /\ N \notin P /\ \A i \in P : i \in 1..N
    BY <1>0
  <2> HIDE DEF N
  <2>. QED BY <2>1
<1>2. c \in Nat /\ Cardinality(Q) = c + 1
  <2> HIDE DEF N
  <2>. QED BY <1>1, PlacesCount, FS_AddElement
<1>3. \A i \in P : UpTo(Q, i) = UpTo(P, i)
  <2>1. \A i \in P : ~(N <= i)
    BY <1>0
  <2> HIDE DEF N
  <2>2. \A i \in P : \A j : j \in UpTo(Q, i) <=> j \in UpTo(P, i)
    BY <2>1 DEF UpTo
  <2>. QED BY <2>2
<1>4. UpTo(Q, N) = Q
  <2>1. N <= N /\ \A j \in P : j <= N
    BY <1>0
  <2> HIDE DEF N
  <2>2. \A j : j \in UpTo(Q, N) <=> j \in Q
    BY <2>1 DEF UpTo
  <2>. QED BY <2>2
<1>5. ASSUME NEW n \in 1..c PROVE Nth(Q, n) = Nth(P, n)
  <2>1. n \in Nat /\ n # c + 1
    BY <1>2
  <2>2. \A i \in Q : Cardinality(UpTo(Q, i)) = n => i \in P
    BY <2>1, <1>2, <1>4
  <2>3. \A i : (i \in Q /\ Cardinality(UpTo(Q, i)) = n) <=> (i \in P /\ Cardinality(UpTo(P, i)) = n)
    BY <2>2, <1>3
  <2> HIDE DEF Q
  <2>. QED BY <2>3, Zenon DEF Nth
<1>6. Nth(Q, c + 1) = N
  <2> HIDE DEF N, c
  <2>1. c + 1 \in 1..Cardinality(Q)
    BY <1>2
  <2>2. Nth(Q, c + 1) \in Q /\ Cardinality(UpTo(Q, Nth(Q, c + 1))) = c + 1
    <3> HIDE DEF Q
    <3>. QED BY <2>1, <1>1, NthIs
  <2>3. \A i \in P : Cardinality(UpTo(Q, i)) \in Nat /\ Cardinality(UpTo(Q, i)) <= c
    <3>1. \A i \in P : Cardinality(UpTo(P, i)) \in Nat /\ Cardinality(UpTo(P, i)) <= Cardinality(P)
      BY <1>1, PlacesCount
    <3>2. \A i \in P : Cardinality(UpTo(Q, i)) = Cardinality(UpTo(P, i))
      BY <1>3, Zenon
    <3> HIDE DEF Q
    <3>. QED BY <3>1, <3>2, Zenon DEF c
  <2>4. \A m \in Nat : m <= c => m # c + 1
    BY <1>2
  <2>5. \A i \in P : Cardinality(UpTo(Q, i)) # c + 1
    BY <2>3, <2>4, Zenon
  <2>. QED BY <2>2, <2>5, Zenon
<1>7. ASSUME NEW n \in 1..c PROVE Append(s, x)[Nth(Q, n)] = s[Nth(P, n)]
  <2>1. Nth(P, n) \in 1..Len(s)
    BY <1>0, NthIs
  <2>2. Append(s, x)[Nth(P, n)] = s[Nth(P, n)]
    BY <2>1
  <2>. QED BY <2>2, <1>5
<1>8. Append(s, x)[Nth(Q, c + 1)] = x
  BY <1>6
<1>9. Picked(s, P) \in Seq(T) /\ Len(Picked(s, P)) = c
  BY PickedInSeq
<1> HIDE DEF c, Q
<1>10. Append(Picked(s, P), x) = [n \in 1..(c + 1) |-> IF n = c + 1 THEN x ELSE s[Nth(P, n)]]
  <2>1. Picked(s, P) = [n \in 1..c |-> s[Nth(P, n)]]
    BY PickedIs DEF c
  <2> DEFINE p == Picked(s, P)
  <2>2. \A n \in 1..c : p[n] = s[Nth(P, n)]
    BY <2>1
  <2>3. p \in Seq(T) /\ Len(p) = c
    BY <1>9
  <2> HIDE DEF N, p
  <2>4. Append(p, x) = [n \in 1..(c + 1) |-> IF n = c + 1 THEN x ELSE p[n]]
    <3> DEFINE q == Append(p, x)
    <3>1. q \in Seq(T) /\ Len(q) = c + 1 /\ \A n \in 1..(c + 1) : q[n] = IF n = c + 1 THEN x ELSE p[n]
      BY <2>3, <1>2
    <3> HIDE DEF q
    <3>2. q = [n \in 1..Len(q) |-> q[n]]
      BY <3>1
    <3>3. q = [n \in 1..(c + 1) |-> IF n = c + 1 THEN x ELSE p[n]]
      BY <3>1, <3>2, Zenon
    <3>. QED BY <3>3 DEF q
  <2>5. \A n \in 1..(c + 1) : n # c + 1 => n \in 1..c
    BY <1>2
  <2>6. Append(p, x) = [n \in 1..(c + 1) |-> IF n = c + 1 THEN x ELSE s[Nth(P, n)]]
    BY <2>2, <2>4, <2>5, Zenon
  <2>. QED BY <2>6 DEF p
<1>11. Picked(Append(s, x), Q) = [n \in 1..(c + 1) |-> Append(s, x)[Nth(Q, n)]]
  BY <1>2, PickedIs
<1>12. \A n \in 1..(c + 1) : Append(s, x)[Nth(Q, n)] = IF n = c + 1 THEN x ELSE s[Nth(P, n)]
  <2>1. \A n \in 1..(c + 1) : n = c + 1 \/ n \in 1..c
    BY <1>2
  <2>2. \A n \in 1..c : n # c + 1
    BY <1>2
  <2>. QED BY <2>1, <2>2, <1>7, <1>8
<1>. QED BY <1>10, <1>11, <1>12, Zenon DEF Q

\* Where s does not repeat what stands before.
Fresh(s) == {i \in DOMAIN s : i = 1 \/ s[i] # s[i - 1]}

LEMMA RepeatsGoOn ==
  ASSUME NEW T, NEW s \in Seq(T), NEW x \in T
  PROVE  RepeatsLeftOut(Append(s, x)) =
           IF s # <<>> /\ x = s[Len(s)] THEN RepeatsLeftOut(s) ELSE Append(RepeatsLeftOut(s), x)
<1> DEFINE N == Len(s) + 1
           t == Append(s, x)
           repeats == s # <<>> /\ x = s[Len(s)]
<1>1. Len(s) \in Nat /\ DOMAIN s = 1..Len(s) /\ (s # <<>> <=> N # 1)
  OBVIOUS
<1>2. t \in Seq(T) /\ DOMAIN t = 1..N /\ t[N] = x /\ \A i \in 1..Len(s) : t[i] = s[i]
  OBVIOUS
<1>3. \A i \in 1..Len(s) : i # 1 => i - 1 \in 1..Len(s)
  BY <1>1
<1>4. N # 1 => N - 1 \in 1..Len(s) /\ N - 1 = Len(s)
  BY <1>1
<1>5. \A i : i \in 1..N <=> (i \in 1..Len(s) \/ i = N)
  BY <1>1
<1>6. N \notin 1..Len(s)
  BY <1>1
<1>7. \A i \in 1..Len(s) : i \in Fresh(t) <=> i \in Fresh(s)
  <2> SUFFICES ASSUME NEW i \in 1..Len(s) PROVE i \in Fresh(t) <=> i \in Fresh(s)
    OBVIOUS
  <2>1. i \in DOMAIN t /\ i \in DOMAIN s
    BY <1>1, <1>2, <1>5, Zenon
  <2>2. t[i] = s[i] /\ (i # 1 => t[i - 1] = s[i - 1])
    BY <1>2, <1>3, Zenon
  <2>. QED BY <2>1, <2>2, Zenon DEF Fresh
<1>8. N \in Fresh(t) <=> ~repeats
  <2>1. N \in DOMAIN t
    BY <1>2, <1>5, Zenon
  <2>2. N # 1 => t[N - 1] = s[Len(s)]
    BY <1>2, <1>4, Zenon
  <2>. QED BY <2>1, <2>2, <1>1, <1>2, Zenon DEF Fresh
<1>9. \A i : i \in Fresh(t) => i \in 1..Len(s) \/ i = N
  BY <1>2, <1>5, Zenon DEF Fresh
<1>10. Fresh(s) \in SUBSET (1..Len(s))
  BY <1>1 DEF Fresh
<1>11. Fresh(t) = IF repeats THEN Fresh(s) ELSE Fresh(s) \cup {N}
  <2> HIDE DEF N, t, repeats
  <2>1. \A i : i \in Fresh(s) => i \in 1..Len(s)
    BY <1>10
  <2>2. \A i : i \in Fresh(t) <=> (i \in Fresh(s) \/ (i = N /\ ~repeats))
    BY <1>7, <1>8, <1>9, <1>6, <2>1, Zenon
  <2>3. CASE repeats
    BY <2>2, <2>3, Zenon
  <2>4. CASE ~repeats
    <3>1. \A i : i \in Fresh(t) <=> i \in Fresh(s) \cup {N}
      BY <2>2, <2>4, Zenon
    <3>2. Fresh(t) = Fresh(s) \cup {N}
      BY <3>1, Zenon
    <3>. QED BY <3>2, <2>4, Zenon
  <2>. QED BY <2>3, <2>4, Zenon
<1>12. RepeatsLeftOut(t) = Picked(t, Fresh(t)) /\ RepeatsLeftOut(s) = Picked(s, Fresh(s))
  BY Zenon DEF RepeatsLeftOut, Fresh
<1>13. /\ Picked(t, Fresh(s)) = Picked(s, Fresh(s))
       /\ Picked(t, Fresh(s) \cup {N}) = Append(Picked(s, Fresh(s)), x)
  BY <1>10, PickedBefore, PickedBehind
<1> HIDE DEF N, repeats
<1>14. CASE repeats
  BY <1>11, <1>12, <1>13, <1>14, Zenon DEF repeats
<1>15. CASE ~repeats
  BY <1>11, <1>12, <1>13, <1>15, Zenon DEF repeats
<1>. QED BY <1>14, <1>15

\* A line that says something.
Lines == [line : EventKinds, count : Nat \ {0}]

LEMMA NudgeLinesAre ==
  ASSUME NEW events \in Seq(EventKinds)
  PROVE  NudgeLines(events) \in Seq(Lines)
<1> DEFINE Places(kinds) == {i \in DOMAIN events : events[i] \in kinds}
           own == Picked(events, Places({"verdict", "claimed"}))
           requested == Cardinality(Places({"requested", "requeued"}))
           mine == [i \in 1..Len(own) |-> RenderNudge(own[i])]
           theirs == IF requested > 0 THEN <<[line |-> "requested", count |-> requested]>> ELSE <<>>
<1>1. \A kinds : Places(kinds) \in SUBSET (1..Len(events))
  OBVIOUS
<1>2. own \in Seq(EventKinds)
  <2> HIDE DEF Places
  <2>. QED BY <1>1, PickedInSeq
<1>3. requested \in Nat
  <2>1. Len(events) \in Nat
    OBVIOUS
  <2> HIDE DEF Places
  <2>. QED BY <1>1, <2>1, PlacesCount
<1>4. mine \in Seq(Lines)
  <2> HIDE DEF own
  <2>. QED BY <1>2 DEF Lines, RenderNudge
<1>5. theirs \in Seq(Lines)
  <2> DEFINE l == [line |-> "requested", count |-> requested]
  <2> HIDE DEF requested
  <2>1. requested > 0 => l \in Lines
    BY <1>3 DEF Lines, EventKinds
  <2> HIDE DEF l
  <2>2. requested > 0 => <<l>> \in Seq(Lines)
    BY <2>1
  <2>3. <<>> \in Seq(Lines)
    OBVIOUS
  <2>. QED BY <2>2, <2>3, Zenon DEF l
<1>6. NudgeLines(events) = mine \o theirs
  BY Zenon DEF NudgeLines
<1> HIDE DEF mine, theirs
<1>. QED BY <1>4, <1>5, <1>6

-----------------------------------------------------------------------------

InboxTypeOK ==
  /\ log \in Seq(EventKinds) /\ polled \in Seq(Lines) /\ inbox \in Seq(Lines)
  /\ heard \in Seq(Lines) /\ lines \in Seq(Lines)

\* last is the line that was put in last, also when it was a repeat.
LastKept == last = IF lines = <<>> THEN NoLine ELSE lines[Len(lines)]

\* TypeOK, LastKept and the property together are inductive.
InboxInv == InboxTypeOK /\ LastKept /\ ToldOnceInOrder

LEMMA InboxStarts == InboxInit => InboxInv
<1> SUFFICES ASSUME InboxInit PROVE InboxInv
  OBVIOUS
<1> USE DEF InboxInit
<1>1. InboxTypeOK /\ LastKept
  BY DEF InboxTypeOK, LastKept
<1>2. RepeatsLeftOut(lines) = <<>>
  <2>1. Fresh(lines) = {}
    BY DEF Fresh
  <2>2. Cardinality({}) = 0
    BY FS_EmptySet
  <2>3. RepeatsLeftOut(lines) = Picked(lines, {})
    BY <2>1, Zenon DEF RepeatsLeftOut, Fresh
  <2>4. Picked(lines, {}) = <<>>
    BY <2>2 DEF Picked
  <2>. QED BY <2>3, <2>4, Zenon
<1>3. ToldOnceInOrder
  BY <1>2, InboxAssumption DEF ToldOnceInOrder
<1>. QED BY <1>1, <1>3 DEF InboxInv

LEMMA InboxSteps == InboxInv /\ [InboxNext]_inboxVars => InboxInv'
<1> SUFFICES ASSUME InboxInv, [InboxNext]_inboxVars PROVE InboxInv'
  OBVIOUS
<1> USE DEF InboxInv
<1>1. CASE EventHappens
  <2>1. InboxTypeOK' /\ LastKept'
    BY <1>1 DEF EventHappens, InboxTypeOK, LastKept
  <2>2. cursor' \in 0..Len(log') /\ Len(log') <= MaxEvents
    <3>1. Len(log) \in Nat /\ Len(log') = Len(log) + 1
      BY <1>1 DEF EventHappens, InboxTypeOK
    <3>. QED BY <3>1, <1>1, InboxAssumption DEF EventHappens, ToldOnceInOrder
  <2>3. (heard \o inbox = RepeatsLeftOut(lines))'
    <3>1. heard' = heard /\ inbox' = inbox /\ lines' = lines
      BY <1>1 DEF EventHappens
    <3>. QED BY <3>1 DEF ToldOnceInOrder
  <2>. QED BY <2>1, <2>2, <2>3 DEF ToldOnceInOrder
<1>2. CASE PollEvents
  <2> DEFINE upto == IF cursor + PollMax < Len(log) THEN cursor + PollMax ELSE Len(log)
             events == SubSeq(log, cursor + 1, upto)
  <2>1. polled' \in {NudgeLines(events), <<>>} /\ cursor' = upto /\ UNCHANGED <<log, inbox, last, heard, lines>>
    BY <1>2 DEF PollEvents
  <2>2. upto \in 0..Len(log)
    BY InboxAssumption DEF ToldOnceInOrder, InboxTypeOK
  <2>3. events \in Seq(EventKinds)
    <3>1. \A i \in (cursor + 1)..upto : i \in 1..Len(log)
      BY <2>2 DEF ToldOnceInOrder
    <3> HIDE DEF upto
    <3>. QED BY <3>1, <2>2 DEF InboxTypeOK, ToldOnceInOrder
  <2>4. polled' \in Seq(Lines)
    <3>1. <<>> \in Seq(Lines)
      OBVIOUS
    <3> HIDE DEF events
    <3>. QED BY <2>1, <2>3, <3>1, NudgeLinesAre
  <2> HIDE DEF upto, events
  <2>5. InboxTypeOK'
    BY <2>1, <2>4 DEF InboxTypeOK
  <2>6. LastKept'
    BY <2>1 DEF LastKept
  <2>7. ToldOnceInOrder'
    BY <2>1, <2>2 DEF ToldOnceInOrder
  <2>. QED BY <2>5, <2>6, <2>7
<1>3. CASE EnqueueNudge
  <2> DEFINE x == Head(polled)
  <2>1. x \in Lines /\ Tail(polled) \in Seq(Lines)
    BY <1>3 DEF EnqueueNudge, InboxTypeOK
  <2>2. /\ lines' = Append(lines, x) /\ polled' = Tail(polled) /\ UNCHANGED <<log, cursor, heard>>
        /\ IF x = last THEN UNCHANGED <<inbox, last>> ELSE inbox' = Append(inbox, x) /\ last' = x
    BY <1>3 DEF EnqueueNudge
  <2>3. NoLine \notin Lines
    BY DEF NoLine, Lines
  <2> HIDE DEF x
  <2>4. last' = x
    BY <2>2
  <2>5. InboxTypeOK'
    <3>1. Append(inbox, x) \in Seq(Lines) /\ Append(lines, x) \in Seq(Lines)
      BY <2>1 DEF InboxTypeOK
    <3>2. inbox' \in Seq(Lines)
      BY <2>2, <3>1 DEF InboxTypeOK
    <3>. QED BY <2>1, <2>2, <3>1, <3>2 DEF InboxTypeOK
  <2>6. LastKept'
    <3>0. lines \in Seq(Lines)
      BY DEF InboxTypeOK
    <3>1. Append(lines, x) # <<>> /\ Append(lines, x)[Len(Append(lines, x))] = x
      BY <2>1, <3>0
    <3>2. lines' # <<>> /\ lines'[Len(lines')] = x
      BY <2>2, <3>1
    <3>. QED BY <3>2, <2>4 DEF LastKept
  <2>7. (x = last) <=> (lines # <<>> /\ x = lines[Len(lines)])
    BY <2>1, <2>3 DEF LastKept
  <2>8. RepeatsLeftOut(lines') = IF x = last THEN RepeatsLeftOut(lines) ELSE Append(RepeatsLeftOut(lines), x)
    <3>1. lines \in Seq(Lines)
      BY DEF InboxTypeOK
    <3>. QED BY <3>1, <2>1, <2>2, <2>7, RepeatsGoOn, Zenon
  <2>9. (heard \o inbox)' = IF x = last THEN heard \o inbox ELSE Append(heard \o inbox, x)
    <3>1. heard \o Append(inbox, x) = Append(heard \o inbox, x)
      BY <2>1 DEF InboxTypeOK
    <3>. QED BY <3>1, <2>2
  <2>10. (heard \o inbox)' = RepeatsLeftOut(lines')
    BY <2>8, <2>9, Zenon DEF ToldOnceInOrder
  <2>. QED BY <2>2, <2>5, <2>6, <2>10 DEF ToldOnceInOrder
<1>4. CASE DrainNudges
  <2>1. InboxTypeOK'
    <3>1. heard \o inbox \in Seq(Lines) /\ <<>> \in Seq(Lines)
      BY DEF InboxTypeOK
    <3>. QED BY <3>1, <1>4 DEF DrainNudges, InboxTypeOK
  <2>2. LastKept'
    BY <1>4 DEF DrainNudges, LastKept
  <2>3. (heard \o inbox)' = heard \o inbox
    <3>1. heard \o inbox \in Seq(Lines)
      BY DEF InboxTypeOK
    <3> DEFINE h == heard \o inbox
    <3>2. heard' = h /\ inbox' = <<>>
      BY <1>4 DEF DrainNudges
    <3> HIDE DEF h
    <3>3. h \in Seq(Lines)
      BY <3>1 DEF h
    <3>4. h \o <<>> = h
      BY <3>3
    <3>. QED BY <3>2, <3>4 DEF h
  <2>4. UNCHANGED <<log, cursor, lines>>
    BY <1>4 DEF DrainNudges
  <2>. QED BY <2>1, <2>2, <2>3, <2>4 DEF ToldOnceInOrder
<1>5. CASE UNCHANGED inboxVars
  BY <1>5 DEF inboxVars, InboxTypeOK, LastKept, ToldOnceInOrder
<1>. QED BY <1>1, <1>2, <1>3, <1>4, <1>5 DEF InboxNext

\* The agent is told every line once and in the order of the events, whatever comes between
\* the polls and its tool calls, for any numbers of events (enqueueIntegrationNudge,
\* drainIntegrationNudges).
THEOREM ToldInOrder == InboxInit /\ [][InboxNext]_inboxVars => []ToldOnceInOrder
<1>1. InboxInv => ToldOnceInOrder
  BY DEF InboxInv
<1>. QED BY InboxStarts, InboxSteps, <1>1, PTL

-----------------------------------------------------------------------------
(* The gate: grants of singular resources are exclusive.                       *)

\* The rows of grants and what sessions were told of them.
GrantRows ==
  /\ grants \in [Named -> [holder : Agents \cup {NotAgent}, left : 0..GrantTtl]]
  /\ refetching \in [Agents -> Named \cup {Nothing}]
  /\ told \in [Agents -> [Named -> 0..GrantTtl]]

\* Whatever the daemon runs on and the manifest says, who may count on a grant has it.
GateInv == GrantRows /\ GrantsExclusive

LEMMA GateInitially == GateInit => GateInv
  BY GateAssumption DEF GateInit, GateInv, GrantRows, GrantsExclusive, Ungranted

LEMMA GrantStep ==
  ASSUME GateInv, NEW s \in Agents, NEW r \in Named, Request(s, r)
  PROVE  GateInv'
<1> USE GateAssumption DEF GateInv, GrantRows
<1>1. CASE /\ grants[r].left = 0
           /\ grants' = [grants EXCEPT ![r] = [holder |-> s, left |-> GrantTtl]]
           /\ told' = [told EXCEPT ![s][r] = GrantTtl]
           /\ UNCHANGED refetching
  <2>1. GrantRows'
    BY <1>1
  <2>2. ASSUME NEW t \in Agents PROVE told[t][r] = 0
    <3>1. told[t][r] \in 0..GrantTtl
      OBVIOUS
    <3>2. ~(told[t][r] > 0)
      BY <1>1, <3>1 DEF GrantsExclusive
    <3>3. QED BY <3>1, <3>2
  <2>3. GrantsExclusive'
    BY <1>1, <2>2 DEF GrantsExclusive
  <2>4. QED BY <2>1, <2>3
<1>2. CASE /\ refetching' = [refetching EXCEPT ![s] = r]
           /\ UNCHANGED <<grants, told>>
  BY <1>2 DEF GrantsExclusive
<1>3. QED BY <1>1, <1>2 DEF Request

\* A row that its holder renews, and tells of.
LEMMA RenewedRow ==
  ASSUME GateInv, NEW s \in Agents, NEW r \in Named,
         grants[r].holder = s, grants[r].left > 0,
         grants' = [grants EXCEPT ![r].left = GrantTtl],
         told' = [told EXCEPT ![s][r] = GrantTtl],
         refetching' \in [Agents -> Named \cup {Nothing}]
  PROVE  GateInv'
<1> USE GateAssumption DEF GateInv, GrantRows
<1>1. GrantRows'
  <2>1. [grants[r] EXCEPT !.left = GrantTtl] \in [holder : Agents \cup {NotAgent}, left : 0..GrantTtl]
    <3>1. grants[r] \in [holder : Agents \cup {NotAgent}, left : 0..GrantTtl]
      OBVIOUS
    <3>2. QED BY <3>1
  <2>2. [told[s] EXCEPT ![r] = GrantTtl] \in [Named -> 0..GrantTtl]
    OBVIOUS
  <2>3. grants' \in [Named -> [holder : Agents \cup {NotAgent}, left : 0..GrantTtl]]
    BY <2>1
  <2>4. told' \in [Agents -> [Named -> 0..GrantTtl]]
    BY <2>2
  <2>5. QED BY <2>3, <2>4
<1>2. \A t \in Agents \ {s} : told[t][r] = 0
  <2>1. TAKE t \in Agents \ {s}
  <2>2. told[t][r] \in 0..GrantTtl
    OBVIOUS
  <2>3. ~(told[t][r] > 0)
    BY DEF GrantsExclusive
  <2>4. QED BY <2>2, <2>3
<1>3. GrantsExclusive'
  BY <1>2 DEF GrantsExclusive
<1>4. QED BY <1>1, <1>3

LEMMA RequestRenewsStep ==
  ASSUME GateInv, NEW s \in Agents, RequestRenews(s)
  PROVE  GateInv'
<1>1. refetching[s] \in Named /\ refetching' \in [Agents -> Named \cup {Nothing}]
  BY DEF RequestRenews, GateInv, GrantRows
<1>2. CASE grants[refetching[s]].holder = s /\ grants[refetching[s]].left > 0
  BY <1>1, <1>2, RenewedRow DEF RequestRenews
<1>3. CASE ~(grants[refetching[s]].holder = s /\ grants[refetching[s]].left > 0)
  BY <1>1, <1>3 DEF RequestRenews, GateInv, GrantRows, GrantsExclusive
<1>4. QED BY <1>2, <1>3

LEMMA ReleaseStep ==
  ASSUME GateInv, NEW s \in Agents, NEW r \in Named, ReleaseSupervised(s, r)
  PROVE  GateInv'
  BY GateAssumption
  DEF ReleaseSupervised, GateInv, GrantRows, GrantsExclusive, Ungranted

LEMMA AgedTime ==
  ASSUME NEW n \in 0..GrantTtl
  PROVE  (IF n = 0 THEN 0 ELSE n - 1) \in 0..GrantTtl
  BY GateAssumption

LEMMA AgeStep ==
  ASSUME GateInv, GrantsAge
  PROVE  GateInv'
<1> USE GateAssumption DEF GrantsAge, GateInv, GrantRows
<1>1. \A r \in Named :
        /\ grants'[r].holder = grants[r].holder
        /\ grants'[r].left = IF grants[r].left = 0 THEN 0 ELSE grants[r].left - 1
  OBVIOUS
<1>2. GrantRows'
  <2>1. ASSUME NEW r \in Named
        PROVE  grants'[r] \in [holder : Agents \cup {NotAgent}, left : 0..GrantTtl]
    <3>1. grants[r] \in [holder : Agents \cup {NotAgent}, left : 0..GrantTtl]
      OBVIOUS
    <3>2. grants'[r] = [grants[r] EXCEPT !.left = IF grants[r].left = 0 THEN 0
                                                  ELSE grants[r].left - 1]
      OBVIOUS
    <3>3. (IF grants[r].left = 0 THEN 0 ELSE grants[r].left - 1) \in 0..GrantTtl
      BY <3>1, AgedTime
    <3>4. QED BY <3>1, <3>2, <3>3
  <2>2. ASSUME NEW s \in Agents, NEW r \in Named PROVE told'[s][r] \in 0..GrantTtl
    <3>1. told[s][r] \in 0..GrantTtl
      OBVIOUS
    <3>2. told'[s][r] = IF told[s][r] = 0 THEN 0 ELSE told[s][r] - 1
      OBVIOUS
    <3>3. QED BY <3>1, <3>2, AgedTime
  <2>3. QED BY <2>1, <2>2
<1>3. ASSUME NEW s \in Agents, NEW r \in Named, told'[s][r] > 0
      PROVE  grants'[r].holder = s /\ grants'[r].left >= told'[s][r]
  <2>1. told[s][r] \in 0..GrantTtl /\ grants[r].left \in 0..GrantTtl
    OBVIOUS
  <2>2. told[s][r] > 0 /\ told'[s][r] = told[s][r] - 1
    BY <1>3, <2>1
  <2>3. QED BY <1>1, <2>1, <2>2 DEF GrantsExclusive
<1>4. QED BY <1>2, <1>3 DEF GrantsExclusive

LEMMA GateStep ==
  ASSUME GateInv, [GateNext]_gateVars
  PROVE  GateInv'
<1>1. CASE UNCHANGED <<grants, refetching, told>>
  BY <1>1 DEF GateInv, GrantRows, GrantsExclusive
<1>2. CASE DaemonEnds
  BY <1>2 DEF DaemonEnds, GateInv, GrantRows, GrantsExclusive
<1>3. CASE GrantsAge
  BY <1>3, AgeStep
<1>4. ASSUME NEW s \in Agents, NEW r \in Named,
             Request(s, r) \/ RenewGrant(s, r) \/ ReleaseSupervised(s, r)
      PROVE  GateInv'
  <2>1. CASE RenewGrant(s, r)
    BY <2>1, RenewedRow DEF RenewGrant, GateInv, GrantRows
  <2>2. QED BY <1>4, <2>1, GrantStep, ReleaseStep
<1>5. CASE \E s \in Agents : RequestRenews(s)
  BY <1>5, RequestRenewsStep
<1>6. QED
  BY <1>1, <1>2, <1>3, <1>4, <1>5
  DEF GateNext, EditManifest, LoadManifest, ClassifyRoute, ProvisionResources, gateVars

\* At no time do two sessions count on a supervised grant of one resource, through renewals,
\* expiries, restarts of the daemon and edits of the manifest (Gate.Request, Renew).
THEOREM OneGrantee == GateInit /\ [][GateNext]_gateVars => []GrantsExclusive
<1>1. GateInv => GrantsExclusive
  BY DEF GateInv
<1>2. QED BY GateInitially, GateStep, <1>1, PTL

-----------------------------------------------------------------------------
(* The classifier: its search finds what a pattern matches.                     *)

\* Segment i of the pattern takes the path from b down to a.
Takes(pat, name, i, a, b) ==
  IF pat[i] = Deep THEN a <= b ELSE b = a + 1 /\ name[b] \in pat[i]

\* The pattern after its i-th segment matches the path after its a-th.
Rest(pat, name, i, a) ==
  \E cut \in [i..Len(pat) -> 0..Len(name)] :
    /\ cut[i] = a /\ cut[Len(pat)] = Len(name)
    /\ \A k \in (i + 1)..Len(pat) : Takes(pat, name, k, cut[k - 1], cut[k])

LEMMA RestEnds ==
  ASSUME NEW pat, NEW name, Len(pat) \in Nat, Len(name) \in Nat, NEW a \in 0..Len(name)
  PROVE  Rest(pat, name, Len(pat), a) <=> a = Len(name)
<1> DEFINE P == Len(pat)
<1>1. (P + 1)..P = {}
  OBVIOUS
<1>2. ASSUME a = Len(name) PROVE Rest(pat, name, P, a)
  <2> DEFINE cut == [k \in P..P |-> a]
  <2>1. cut \in [P..P -> 0..Len(name)] /\ cut[P] = a
    OBVIOUS
  <2> HIDE DEF cut
  <2>. QED BY <1>1, <1>2, <2>1 DEF Rest
<1>3. ASSUME Rest(pat, name, P, a) PROVE a = Len(name)
  BY <1>3 DEF Rest
<1>. QED BY <1>2, <1>3

LEMMA RestGoesOn ==
  ASSUME NEW pat, NEW name, Len(pat) \in Nat, Len(name) \in Nat,
         NEW i \in 0..(Len(pat) - 1), NEW a \in 0..Len(name)
  PROVE  Rest(pat, name, i, a) <=>
           \E b \in 0..Len(name) : Takes(pat, name, i + 1, a, b) /\ Rest(pat, name, i + 1, b)
<1> DEFINE P == Len(pat)
           N == Len(name)
<1>0. i \in Nat /\ i < P /\ i + 1 \in 0..P
  OBVIOUS
<1>1. ASSUME Rest(pat, name, i, a)
      PROVE  \E b \in 0..N : Takes(pat, name, i + 1, a, b) /\ Rest(pat, name, i + 1, b)
  <2>1. PICK cut \in [i..P -> 0..N] :
          /\ cut[i] = a /\ cut[P] = N
          /\ \A k \in (i + 1)..P : Takes(pat, name, k, cut[k - 1], cut[k])
    BY <1>1 DEF Rest
  <2> DEFINE b == cut[i + 1]
             less == [k \in (i + 1)..P |-> cut[k]]
  <2>2. b \in 0..N /\ Takes(pat, name, i + 1, a, b)
    <3>1. i + 1 \in (i + 1)..P /\ i + 1 \in i..P /\ (i + 1) - 1 = i
      BY <1>0
    <3>. QED BY <2>1, <3>1
  <2>3. less \in [(i + 1)..P -> 0..N] /\ less[i + 1] = b /\ less[P] = N
    BY <1>0, <2>1
  <2>4. ASSUME NEW k \in (i + 2)..P PROVE Takes(pat, name, k, less[k - 1], less[k])
    <3>1. k \in (i + 1)..P /\ k - 1 \in (i + 1)..P
      BY <1>0
    <3>2. less[k] = cut[k] /\ less[k - 1] = cut[k - 1]
      BY <3>1
    <3>. QED BY <2>1, <3>1, <3>2
  <2>5. (i + 1) + 1 = i + 2
    BY <1>0
  <2> HIDE DEF less, b
  <2>6. Rest(pat, name, i + 1, b)
    BY <2>3, <2>4, <2>5 DEF Rest
  <2>. QED BY <2>2, <2>6
<1>2. ASSUME NEW b \in 0..N, Takes(pat, name, i + 1, a, b), Rest(pat, name, i + 1, b)
      PROVE  Rest(pat, name, i, a)
  <2>1. PICK cut \in [(i + 1)..P -> 0..N] :
          /\ cut[i + 1] = b /\ cut[P] = N
          /\ \A k \in ((i + 1) + 1)..P : Takes(pat, name, k, cut[k - 1], cut[k])
    BY <1>2 DEF Rest
  <2> DEFINE more == [k \in i..P |-> IF k = i THEN a ELSE cut[k]]
  <2>2. more \in [i..P -> 0..N] /\ more[i] = a /\ more[P] = N
    <3>1. \A k \in i..P : k # i => k \in (i + 1)..P
      BY <1>0
    <3>2. i \in i..P /\ P \in i..P /\ P # i
      BY <1>0
    <3>. QED BY <2>1, <3>1, <3>2
  <2>3. ASSUME NEW k \in (i + 1)..P PROVE Takes(pat, name, k, more[k - 1], more[k])
    <3>1. k \in i..P /\ k # i /\ k - 1 \in i..P
      BY <1>0
    <3>2. more[k] = cut[k]
      BY <3>1
    <3>3. CASE k = i + 1
      <4>1. k - 1 = i /\ more[k - 1] = a
        BY <1>0, <3>1, <3>3
      <4>. QED BY <1>2, <2>1, <3>2, <3>3, <4>1
    <3>4. CASE k # i + 1
      <4>1. k \in ((i + 1) + 1)..P /\ k - 1 # i
        BY <1>0, <3>4
      <4>2. more[k - 1] = cut[k - 1]
        BY <3>1, <4>1
      <4>. QED BY <2>1, <3>2, <4>1, <4>2
    <3>. QED BY <3>3, <3>4
  <2> HIDE DEF more
  <2>. QED BY <2>2, <2>3 DEF Rest
<1>. QED BY <1>1, <1>2

\* Rest follows the recursion of the search.
LEMMA RestIs ==
  ASSUME NEW pat, NEW name, Len(pat) \in Nat, Len(name) \in Nat,
         NEW i \in 1..(Len(pat) + 1), NEW j \in 1..(Len(name) + 1)
  PROVE  Rest(pat, name, i - 1, j - 1) <=>
           IF i > Len(pat) THEN j > Len(name)
           ELSE IF pat[i] = Deep
                THEN i = Len(pat) \/ \E k \in j..(Len(name) + 1) : Rest(pat, name, i, k - 1)
                ELSE j <= Len(name) /\ name[j] \in pat[i] /\ Rest(pat, name, i, j)
<1> DEFINE P == Len(pat)
           N == Len(name)
<1>0. i \in Nat /\ j \in Nat /\ j - 1 \in 0..N /\ (j - 1) + 1 = j /\ (i - 1) + 1 = i
  OBVIOUS
<1>1. CASE i > P
  <2>1. i - 1 = P /\ (j - 1 = N <=> j > N)
    BY <1>1
  <2>. QED BY <1>0, <1>1, <2>1, RestEnds
<1>2. CASE i <= P
  <2>0. ~(i > P) /\ i - 1 \in 0..(P - 1) /\ i \in 1..P
    BY <1>2
  <2>1. Rest(pat, name, i - 1, j - 1) <=>
          \E b \in 0..N : Takes(pat, name, i, j - 1, b) /\ Rest(pat, name, i, b)
    BY <1>0, <2>0, RestGoesOn
  <2>2. CASE pat[i] = Deep
    <3>1. Rest(pat, name, i - 1, j - 1) <=> \E b \in 0..N : j - 1 <= b /\ Rest(pat, name, i, b)
      BY <2>1, <2>2 DEF Takes
    <3>2. ASSUME NEW b \in 0..N, j - 1 <= b, Rest(pat, name, i, b)
          PROVE  \E k \in j..(N + 1) : Rest(pat, name, i, k - 1)
      <4>1. b + 1 \in j..(N + 1) /\ (b + 1) - 1 = b
        BY <1>0, <3>2
      <4>. QED BY <3>2, <4>1
    <3>3. ASSUME NEW k \in j..(N + 1), Rest(pat, name, i, k - 1)
          PROVE  \E b \in 0..N : j - 1 <= b /\ Rest(pat, name, i, b)
      <4>1. k - 1 \in 0..N /\ j - 1 <= k - 1
        BY <1>0
      <4>. QED BY <3>3, <4>1
    <3>4. ASSUME i = P PROVE \E b \in 0..N : j - 1 <= b /\ Rest(pat, name, i, b)
      <4>1. N \in 0..N /\ j - 1 <= N
        BY <1>0
      <4>2. Rest(pat, name, i, N)
        BY <3>4, <4>1, RestEnds
      <4>. QED BY <4>1, <4>2
    <3>. QED BY <2>0, <2>2, <3>1, <3>2, <3>3, <3>4
  <2>3. CASE pat[i] # Deep
    <3>1. \A b \in 0..N : Takes(pat, name, i, j - 1, b) <=> b = j /\ name[j] \in pat[i]
      BY <1>0, <2>3 DEF Takes
    <3>2. j <= N <=> j \in 0..N
      BY <1>0
    <3>. QED BY <2>0, <2>1, <2>3, <3>1, <3>2
  <2>. QED BY <2>2, <2>3
<1>. QED BY <1>0, <1>1, <1>2

LEMMA SearchFinds ==
  ASSUME NEW pat, NEW name, Len(pat) \in Nat, Len(name) \in Nat
  PROVE  MatchSegs(pat, name) <=> Matched(pat, name)
<1> DEFINE P == Len(pat)
           N == Len(name)
           A == 1..(P + 1)
           B == 1..(N + 1)
           Body(m, i, j) ==
             IF i > P THEN j > N
             ELSE IF pat[i] = Deep
                  THEN i = P \/ \E k \in j..(N + 1) : m[i + 1][k]
                  ELSE j <= N /\ name[j] \in pat[i] /\ m[i + 1][j + 1]
           g == [i \in A |-> [j \in B |-> Rest(pat, name, i - 1, j - 1)]]
           h == CHOOSE m : m = [i \in A |-> [j \in B |-> Body(m, i, j)]]
<1>1. g = [i \in A |-> [j \in B |-> Body(g, i, j)]]
  <2>1. ASSUME NEW i \in A, NEW j \in B
        PROVE  Rest(pat, name, i - 1, j - 1) <=> Body(g, i, j)
    <3>1. i \in Nat /\ (i <= P => i + 1 \in A /\ (i + 1) - 1 = i)
      OBVIOUS
    <3>2. i <= P => \A k \in B : g[i + 1][k] = Rest(pat, name, i, k - 1)
      BY <3>1
    <3>3. j \in Nat /\ (j <= N => j + 1 \in B /\ (j + 1) - 1 = j) /\ \A k \in j..(N + 1) : k \in B
      OBVIOUS
    <3>4. ~(i > P) <=> i <= P
      BY <3>1
    <3>5. j <= N /\ i <= P => g[i + 1][j + 1] = Rest(pat, name, i, j)
      BY <3>2, <3>3
    <3> HIDE DEF g
    <3>. QED BY <3>2, <3>3, <3>4, <3>5, RestIs
  <2>2. ASSUME NEW i \in A, NEW j \in B
        PROVE  Rest(pat, name, i - 1, j - 1) = Body(g, i, j)
    <3>1. Rest(pat, name, i - 1, j - 1) \in BOOLEAN
      BY DEF Rest
    <3>2. Body(g, i, j) \in BOOLEAN
      <4>0. (j > N) \in BOOLEAN
        OBVIOUS
      <4> HIDE DEF g, A, B, P, N
      <4>1. CASE i > P
        BY <4>0, <4>1, Zenon
      <4>2. CASE ~(i > P) /\ pat[i] = Deep
        BY <4>2, Zenon
      <4>3. CASE ~(i > P) /\ pat[i] # Deep
        BY <4>3, Zenon
      <4>. QED BY <4>1, <4>2, <4>3, Zenon
    <3>. QED BY <2>1, <3>1, <3>2
  <2>. QED BY <2>2
<1>2. h = [i \in A |-> [j \in B |-> Body(h, i, j)]]
  <2>1. \E m : m = [i \in A |-> [j \in B |-> Body(m, i, j)]]
    <3> HIDE DEF g
    <3>. QED BY <1>1
  <2>. QED BY <2>1, Zenon
<1>3. MatchSegs(pat, name) = h[1][1]
  BY Zenon DEF MatchSegs
<1> HIDE DEF h
<1>4. \A i \in A, j \in B : h[i][j] <=> Body(h, i, j)
  <2>. HIDE DEF Body
  <2> DEFINE r == [i \in A |-> [j \in B |-> Body(h, i, j)]]
  <2>0. \A i \in A, j \in B : r[i][j] = Body(h, i, j)
    BY Zenon
  <2>a. h = r
    BY <1>2
  <2> HIDE DEF r
  <2>1. \A i \in A, j \in B : h[i][j] = Body(h, i, j)
    BY <2>0, <2>a, Zenon
  <2>. QED BY <2>1, Zenon
<1> DEFINE S == {d \in Nat : d <= P => \A j \in B : h[P + 1 - d][j] <=> Rest(pat, name, P - d, j - 1)}
<1>5. ASSUME NEW d \in Nat, d <= P,
             d > 0 => \A j \in B : h[P + 2 - d][j] <=> Rest(pat, name, P + 1 - d, j - 1),
             NEW j \in B
      PROVE  h[P + 1 - d][j] <=> Rest(pat, name, P - d, j - 1)
  <2> DEFINE i == P + 1 - d
  <2>1. i \in A /\ i \in Nat /\ i - 1 = P - d /\ (d > 0 <=> i <= P) /\ (~(i > P) <=> i <= P)
    BY <1>5
  <2>2. P + 2 - d = i + 1
    BY <1>5
  <2>3. j \in Nat /\ (j <= N => j + 1 \in B /\ (j + 1) - 1 = j) /\ \A k \in j..(N + 1) : k \in B
    OBVIOUS
  <2>4. i <= P => \A k \in B : h[i + 1][k] <=> Rest(pat, name, i, k - 1)
    BY <1>5, <2>1, <2>2
  <2>5. j <= N /\ i <= P => (h[i + 1][j + 1] <=> Rest(pat, name, i, j))
    BY <2>3, <2>4
  <2>6. h[i][j] <=> Body(h, i, j)
    BY <1>4, <2>1
  <2>7. Rest(pat, name, i - 1, j - 1) <=> Body(h, i, j)
    <3> HIDE DEF i
    <3>. QED BY <2>1, <2>3, <2>4, <2>5, RestIs
  <2> HIDE DEF Body
  <2>. QED BY <2>1, <2>6, <2>7
<1>6. 0 \in S
  BY <1>5
<1>7. ASSUME NEW d \in Nat, d \in S PROVE d + 1 \in S
  <2>1. d + 1 \in Nat /\ P + 2 - (d + 1) = P + 1 - d /\ P + 1 - (d + 1) = P - d /\ d + 1 > 0
    OBVIOUS
  <2>2. d + 1 <= P => d <= P
    OBVIOUS
  <2>3. d + 1 <= P => \A j \in B : h[P + 2 - (d + 1)][j] <=> Rest(pat, name, P + 1 - (d + 1), j - 1)
    BY <1>7, <2>1, <2>2
  <2>. QED BY <1>5, <2>1, <2>3
<1>8. P \in S
  <2> HIDE DEF S
  <2>. QED BY <1>6, <1>7, ByInduction
<1>9. h[1][1] <=> Rest(pat, name, 0, 0)
  <2>1. P + 1 - P = 1 /\ P - P = 0 /\ 1 \in B /\ 1 - 1 = 0 /\ P <= P
    OBVIOUS
  <2>2. h[P + 1 - P][1] <=> Rest(pat, name, P - P, 1 - 1)
    BY <1>8, <2>1
  <2>. QED BY <2>1, <2>2
<1>10. Rest(pat, name, 0, 0) <=> Matched(pat, name)
  <2>1. 0 + 1 = 1
    OBVIOUS
  <2>. QED BY <2>1, Zenon DEF Rest, Matched, Takes
<1>. QED BY <1>3, <1>9, <1>10

-----------------------------------------------------------------------------
(* What is answered of a resource.                                             *)

LEMMA StrictestOf ==
  ASSUME NEW S \in SUBSET Kinds, S # {}
  PROVE  Max(S) = IF Singular \in S THEN Singular
                  ELSE IF Convergent \in S THEN Convergent ELSE Forkable
<1> USE DEF Kinds, Singular, Convergent, Forkable
<1> DEFINE top == IF Singular \in S THEN Singular
                  ELSE IF Convergent \in S THEN Convergent ELSE Forkable
<1>0. \A y \in S : y = 0 \/ y = 1 \/ y = 2
  OBVIOUS
<1>a. \E y : y \in S
  OBVIOUS
<1>1. top \in S /\ \A y \in S : top >= y
  <2>1. CASE 2 \in S
    BY <1>0, <2>1
  <2>2. CASE 2 \notin S /\ 1 \in S
    BY <1>0, <2>2
  <2>3. CASE 2 \notin S /\ 1 \notin S
    <3>1. 0 \in S /\ \A y \in S : y = 0
      BY <1>0, <1>a, <2>3
    <3>2. top = 0
      BY <2>3
    <3> HIDE DEF top
    <3>. QED BY <3>1, <3>2
  <2>. QED BY <2>1, <2>2, <2>3
<1>2. \A x \in S : (\A y \in S : x >= y) => x = top
  BY <1>1
<1> HIDE DEF top
<1>3. Max(S) = top
  BY <1>1, <1>2 DEF Max
<1>. QED BY <1>3 DEF top

\* The paths' patterns of a manifest are sequences.
PathsSegmented(m) == \A k \in Kinds : \A g \in m.paths[k] : Segmented(g)

LEMMA LoadedPaths ==
  ASSUME NEW f \in ManifestFiles, f # MalformedFile
  PROVE  PathsSegmented(ManifestFromRaw(IF f = AbsentFile THEN DefaultManifest ELSE f))
<1> DEFINE raw == IF f = AbsentFile THEN DefaultManifest ELSE f
<1>1. "paths" \in DOMAIN raw /\ PathsSegmented(raw)
  <2>1. CASE f = AbsentFile
    BY <2>1 DEF DefaultManifest, PathsSegmented
  <2>2. CASE f # AbsentFile
    <3>1. f \in Manifests
      BY <2>2 DEF ManifestFiles
    <3>2. \A k \in Kinds : k \in 0..2
      BY DEF Kinds, Forkable, Convergent, Singular
    <3>. QED BY <2>2, <3>1, <3>2, GateAssumption DEF PathsSegmented
  <2>. QED BY <2>1, <2>2
<1> HIDE DEF raw
<1>2. ManifestFromRaw(raw).paths = raw.paths
  BY <1>1 DEF ManifestFromRaw
<1>3. PathsSegmented(ManifestFromRaw(raw))
  BY <1>1, <1>2, Zenon DEF PathsSegmented
<1>. QED BY <1>3 DEF raw

LEMMA MatchedAny ==
  ASSUME NEW m, PathsSegmented(m), NEW k \in Kinds, NEW name, Segmented(name)
  PROVE  MatchAny(m.paths[k], name) <=> \E g \in m.paths[k] : Matched(g, name)
<1>1. \A g : Segmented(g) => Len(g) \in Nat
  BY DEF Segmented
<1>2. \A g \in m.paths[k] : MatchSegs(g, name) <=> Matched(g, name)
  BY <1>1, SearchFinds DEF PathsSegmented
<1>. QED BY <1>2 DEF MatchAny

LEMMA ClassifiesUpward ==
  ASSUME NEW m, PathsSegmented(m), NEW ref, ref.domain = "path" => Segmented(ref.name)
  PROVE  Classify(m, ref) = StrictestKind(m, ref)
<1> DEFINE D == {k \in Kinds : Declared(m, ref, k)}
<1>0. StrictestKind(m, ref) = IF D # {} THEN Max(D)
                              ELSE IF ref.domain = "path" THEN Forkable ELSE Singular
  BY DEF StrictestKind
<1>1. Forkable \in Kinds /\ Convergent \in Kinds /\ Singular \in Kinds
  BY DEF Kinds
<1>2. D # {} => Max(D) = IF Singular \in D THEN Singular
                         ELSE IF Convergent \in D THEN Convergent ELSE Forkable
  <2>1. D \in SUBSET Kinds
    OBVIOUS
  <2> HIDE DEF D
  <2>. QED BY <2>1, StrictestOf
<1>3. CASE ref.domain = "path"
  <2>1. \A k \in Kinds : k \in D <=> MatchAny(m.paths[k], ref.name)
    BY <1>3, MatchedAny DEF Declared
  <2>2. \A k \in D : k \in Kinds
    OBVIOUS
  <2>3. Classify(m, ref) = IF MatchAny(m.paths[Singular], ref.name) THEN Singular
                           ELSE IF MatchAny(m.paths[Convergent], ref.name) THEN Convergent
                           ELSE Forkable
    BY <1>3 DEF Classify
  <2> HIDE DEF D
  <2>4. CASE D # {}
    BY <2>4, <1>0, <1>1, <1>2, <2>1, <2>3
  <2>5. CASE D = {}
    BY <2>5, <1>0, <1>1, <1>3, <2>1, <2>3
  <2>. QED BY <2>4, <2>5
<1>4. CASE ref.domain = "external"
  <2>1. D = {k \in Kinds : ref.name \in m.resources[k]}
    BY <1>4 DEF Declared
  <2> HIDE DEF D
  <2>2. Classify(m, ref) = IF D = {} THEN Singular ELSE Max(D)
    BY <1>4, <2>1 DEF Classify
  <2>. QED BY <1>0, <1>4, <2>2
<1>5. CASE ref.domain = "trunk"
  <2>1. \A k \in Kinds : k \in D <=> k = Convergent
    BY <1>5 DEF Declared
  <2>2. Convergent \in D /\ Singular \notin D
    BY <2>1, <1>1 DEF Convergent, Singular
  <2>3. Classify(m, ref) = Convergent
    BY <1>5 DEF Classify
  <2> HIDE DEF D
  <2>. QED BY <1>0, <1>2, <2>2, <2>3
<1>6. CASE ref.domain \notin {"path", "external", "trunk"}
  <2>1. D = {}
    BY <1>6 DEF Declared
  <2>2. Classify(m, ref) = Singular
    BY <1>6 DEF Classify
  <2> HIDE DEF D
  <2>. QED BY <1>0, <1>6, <2>1, <2>2
<1>. QED BY <1>3, <1>4, <1>5, <1>6

LEMMA KeysDescribed ==
  /\ DescribeLeaseKey(TrunkLeaseKey) = <<"trunk", {}>>
  /\ \A path : DescribeLeaseKey(<<"convergent", path>>) = <<"path", {path}>>
  /\ \A name : DescribeLeaseKey(ConvergentExternalKey(name)) = <<"external", {name}>>
<1>1. DescribeLeaseKey(TrunkLeaseKey) = <<"trunk", {}>>
  BY DEF TrunkLeaseKey, DescribeLeaseKey, PathFromConvergentKey, ExternalFromConvergentKey
<1>2. ASSUME NEW path PROVE DescribeLeaseKey(<<"convergent", path>>) = <<"path", {path}>>
  <2> DEFINE key == <<"convergent", path>>
  <2>1. Len(key) = 2 /\ key[1] = "convergent" /\ key[2] = path
    OBVIOUS
  <2> HIDE DEF key
  <2>2. PathFromConvergentKey(key) = {path} /\ ExternalFromConvergentKey(key) = {}
    BY <2>1 DEF PathFromConvergentKey, ExternalFromConvergentKey
  <2>a. key # TrunkLeaseKey /\ {path} # {}
    BY <2>1 DEF TrunkLeaseKey
  <2>3. DescribeLeaseKey(key) = <<"path", {path}>>
    BY <2>2, <2>a, Zenon DEF DescribeLeaseKey
  <2>. QED BY <2>3 DEF key
<1>3. ASSUME NEW name PROVE DescribeLeaseKey(ConvergentExternalKey(name)) = <<"external", {name}>>
  <2> DEFINE key == ConvergentExternalKey(name)
  <2>1. Len(key) = 3 /\ key[3] = name
    BY DEF ConvergentExternalKey
  <2> HIDE DEF key
  <2>2. PathFromConvergentKey(key) = {} /\ ExternalFromConvergentKey(key) = {name}
    BY <2>1 DEF PathFromConvergentKey, ExternalFromConvergentKey
  <2>a. key # TrunkLeaseKey /\ {name} # {}
    BY <2>1 DEF TrunkLeaseKey
  <2>3. DescribeLeaseKey(key) = <<"external", {name}>>
    BY <2>2, <2>a, Zenon DEF DescribeLeaseKey
  <2>. QED BY <2>3 DEF key
<1>. QED BY <1>1, <1>2, <1>3

LEMMA RoutesRight ==
  ASSUME NEW m, PathsSegmented(m), NEW ref \in Refs
  PROVE  LET a == RouteHandler(m, ref)
         IN a # NoAnswer /\ "ref" \in DOMAIN a /\ RightRoute(m, a)
<1> DEFINE a == RouteHandler(m, ref)
<1>1. /\ DOMAIN a = {"ref", "kind", "key"} /\ a.ref = ref /\ a.kind = Classify(m, ref)
      /\ a.key = IF Classify(m, ref) # Convergent THEN NoLeaseKey
                 ELSE CASE ref.domain = "trunk" -> TrunkLeaseKey
                        [] ref.domain = "path" -> ConvergentPathKey(ref.name)
                        [] OTHER -> ConvergentExternalKey(ref.name)
  BY DEF RouteHandler
<1>2. a # NoAnswer
  BY <1>1 DEF NoAnswer
<1> HIDE DEF a
<1>3. ref.domain \in {"path", "external", "trunk", "unknown"}
      /\ (ref.domain = "path" => Segmented(ref.name))
  BY GateAssumption DEF Refs
<1>4. a.kind = StrictestKind(m, a.ref)
  BY <1>1, <1>3, ClassifiesUpward
<1>5. ASSUME a.kind = Convergent, ~(ref.domain = "path" /\ ref.name \in DOMAIN Spelled)
      PROVE  DescribeLeaseKey(a.key) =
               <<ref.domain, IF ref.domain = "trunk" THEN {} ELSE {ref.name}>>
  <2>1. CASE ref.domain = "trunk"
    <3>1. a.key = TrunkLeaseKey
      BY <1>1, <1>5, <2>1
    <3>. QED BY <2>1, <3>1, KeysDescribed
  <2>2. CASE ref.domain = "path"
    <3>1. a.key = <<"convergent", ref.name>>
      BY <1>1, <1>5, <2>2 DEF ConvergentPathKey
    <3>. QED BY <2>2, <3>1, KeysDescribed
  <2>3. CASE ref.domain = "external"
    <3>1. a.key = ConvergentExternalKey(ref.name)
      BY <1>1, <1>5, <2>3
    <3>. QED BY <2>3, <3>1, KeysDescribed
  <2>4. CASE ref.domain = "unknown"
    <3>1. Classify(m, ref) = Singular /\ Singular # Convergent
      BY <2>4 DEF Classify, Singular, Convergent
    <3>. QED BY <1>1, <1>5, <3>1
  <2>. QED BY <1>3, <2>1, <2>2, <2>3, <2>4
<1>6. RightRoute(m, a)
  BY <1>1, <1>4, <1>5 DEF RightRoute
<1>. QED BY <1>1, <1>2, <1>6 DEF a

LEMMA ResourcesRight ==
  ASSUME NEW m, PathsSegmented(m), NEW reqs \in Requests
  PROVE  LET a == RouteResources(m, reqs)
         IN a # NoAnswer /\ "ref" \notin DOMAIN a /\ RightResources(m, a)
<1> DEFINE a == RouteResources(m, reqs)
           I == Isolated(m, reqs)
           Name(i) == ResourceEnvName(reqs[i])
           Ref(i) == ResourceRef(reqs[i])
<1>1. /\ DOMAIN a = {"ok", "env", "deferred"} /\ a.ok = ValidEnvNames(m, reqs)
      /\ a.env = {<<Name(i), Ref(i)>> : i \in I}
      /\ a.deferred = {Ref(i) : i \in DOMAIN reqs \ I}
  BY DEF RouteResources
<1>2. a # NoAnswer /\ "ref" \notin DOMAIN a
  BY <1>1 DEF NoAnswer
<1>3. \A i \in DOMAIN reqs : Classify(m, Ref(i)) = StrictestKind(m, Ref(i))
  <2> SUFFICES ASSUME NEW i \in DOMAIN reqs
               PROVE  Classify(m, Ref(i)) = StrictestKind(m, Ref(i))
    OBVIOUS
  <2>1. Ref(i).domain = "path" => Segmented(Ref(i).name)
    BY GateAssumption DEF ResourceRef
  <2> HIDE DEF Ref
  <2>. QED BY <2>1, ClassifiesUpward
<1>4. \A i \in DOMAIN reqs : i \in I <=> StrictestKind(m, Ref(i)) = Forkable
  BY <1>3 DEF Isolated
<1>5. I \subseteq DOMAIN reqs
  BY DEF Isolated
<1>6. ValidEnvNames(m, reqs) => \A i, j \in I : i # j => Name(i) # Name(j)
  BY DEF ValidEnvNames
<1> HIDE DEF a, I, Name, Ref
<1>7. \A e \in a.env : StrictestKind(m, e[2]) = Forkable
  BY <1>1, <1>4, <1>5
<1>8. \A ref \in a.deferred : StrictestKind(m, ref) # Forkable
  BY <1>1, <1>4
<1>9. a.ok => \A e, f \in a.env : e[1] = f[1] => e = f
  BY <1>1, <1>6
<1>10. RightResources(m, a)
  BY <1>7, <1>8, <1>9 DEF RightResources
<1>. QED BY <1>2, <1>10 DEF a

\* An answer is one of the policy that is loaded.
AnswerInv ==
  /\ file \in ManifestFiles
  /\ policy # NoPolicy => PathsSegmented(policy)
  /\ policy = NoPolicy => answer = NoAnswer
  /\ ClassifiedUpward

LEMMA AnswerStarts == GateInit => AnswerInv
  BY DEF GateInit, AnswerInv, ClassifiedUpward

LEMMA AnswerSteps == AnswerInv /\ [GateNext]_gateVars => AnswerInv'
<1> SUFFICES ASSUME AnswerInv, [GateNext]_gateVars PROVE AnswerInv'
  OBVIOUS
<1>1. CASE UNCHANGED <<file, policy, answer>>
  BY <1>1 DEF AnswerInv, ClassifiedUpward
<1>2. ASSUME NEW f \in ManifestFiles, EditManifest(f) PROVE AnswerInv'
  BY <1>2 DEF EditManifest, AnswerInv, ClassifiedUpward
<1>3. CASE LoadManifest
  <2>1. PathsSegmented(policy')
    BY <1>3, LoadedPaths DEF LoadManifest, AnswerInv
  <2>2. answer' = NoAnswer /\ file' = file
    BY <1>3 DEF LoadManifest, AnswerInv
  <2>. QED BY <2>1, <2>2 DEF AnswerInv, ClassifiedUpward
<1>4. CASE DaemonEnds
  BY <1>4 DEF DaemonEnds, AnswerInv, ClassifiedUpward
<1>5. ASSUME NEW ref \in Refs, ClassifyRoute(ref) PROVE AnswerInv'
  <2>1. policy # NoPolicy /\ answer' = RouteHandler(policy, ref) /\ UNCHANGED <<file, policy>>
    BY <1>5 DEF ClassifyRoute
  <2>2. answer' # NoAnswer /\ "ref" \in DOMAIN answer' /\ RightRoute(policy', answer')
    BY <2>1, RoutesRight DEF AnswerInv
  <2>. QED BY <2>1, <2>2 DEF AnswerInv, ClassifiedUpward
<1>6. ASSUME NEW reqs \in Requests, ProvisionResources(reqs) PROVE AnswerInv'
  <2>1. policy # NoPolicy /\ answer' = RouteResources(policy, reqs) /\ UNCHANGED <<file, policy>>
    BY <1>6 DEF ProvisionResources
  <2>2. answer' # NoAnswer /\ "ref" \notin DOMAIN answer' /\ RightResources(policy', answer')
    BY <2>1, ResourcesRight DEF AnswerInv
  <2>. QED BY <2>1, <2>2 DEF AnswerInv, ClassifiedUpward
<1>7. ASSUME NEW s \in Agents, NEW r \in Named,
             Request(s, r) \/ RenewGrant(s, r) \/ ReleaseSupervised(s, r) \/ RequestRenews(s)
      PROVE  UNCHANGED <<file, policy, answer>>
  BY <1>7 DEF Request, RenewGrant, ReleaseSupervised, RequestRenews
<1>8. ASSUME NEW s \in Agents, RequestRenews(s) PROVE UNCHANGED <<file, policy, answer>>
  BY <1>8 DEF RequestRenews
<1>9. GrantsAge \/ UNCHANGED gateVars => UNCHANGED <<file, policy, answer>>
  BY DEF GrantsAge, gateVars
<1>. QED BY <1>1, <1>2, <1>3, <1>4, <1>5, <1>6, <1>7, <1>8, <1>9 DEF GateNext

\* What is answered of a resource is the strictest kind declared of it, for any manifests,
\* paths, patterns and requests: the search of the glob finds every way to match, and no
\* answer outlives the policy it came from (Classify, Route, RouteResources).
THEOREM AnswersAreStrict == GateInit /\ [][GateNext]_gateVars => []ClassifiedUpward
<1>1. AnswerInv => ClassifiedUpward
  BY DEF AnswerInv
<1>. QED BY AnswerStarts, AnswerSteps, <1>1, PTL

-----------------------------------------------------------------------------
(* The wiring: nothing generated is put under version control.                 *)

\* What is generated is in a file that git ignores and does not track, that it tracked when
\* it was excluded, that it did not answer for, that was not written, or that the wiring is
\* just about to exclude.
Hidden(d, f) == f \in exclude /\ <<d, f>> \notin tracked
Covered ==
  \A d \in Dirs, f \in WiredFiles : disk[d][f] \in Generated =>
    Hidden(d, f) \/ <<d, f>> \in gaveUp \cup known \/ InHand(d, f)

\* What is counted as the user's was there before the wiring, and a guide never was.
OwnersFiles ==
  \A d \in Dirs : /\ original[d]["guide"] = "absent"
                  /\ \A f \in WiredFiles : original[d][f] \notin Generated

OnlyGivenUp == added \subseteq gaveUp \cup known
Spares ==
  \A d \in Dirs, f \in WiredFiles :
    original[d][f] # "absent" /\ <<d, f>> \notin gaveUp \cup removed =>
      disk[d][f] \in {original[d][f], "both"}

WiringInv == WiringTypeOK /\ Covered /\ OwnersFiles /\ OnlyGivenUp /\ Spares

LEMMA WiringInitially == WiringInit => WiringInv
  <1> SUFFICES ASSUME WiringInit PROVE WiringInv
    OBVIOUS
  <1> USE DEF WiringInit, WiredFiles, Contents, Generated
  <1>0. disk \in [Dirs -> [WiredFiles -> {"absent", "theirs", "corrupt"}]]
    OBVIOUS
  <1>1. WiringTypeOK
    <2>1. wire \in [Dirs -> [at : {"idle", "look", "resolve", "append", "wired"},
                             file : WiredFiles]]
      BY DEF Unwired
    <2>2. disk \in [Dirs -> [WiredFiles -> Contents]]
      BY <1>0
    <2>3. tracked \subseteq Dirs \X WiredFiles
      BY WiringAssumption
    <2> QED BY <2>1, <2>2, <2>3 DEF WiringTypeOK
  <1>2. \A d \in Dirs, f \in WiredFiles : disk[d][f] \in {"absent", "theirs", "corrupt"}
    BY <1>0
  <1>3. Covered
    BY <1>2 DEF Covered
  <1>4. OwnersFiles
    BY <1>2 DEF OwnersFiles
  <1>5. OnlyGivenUp /\ Spares
    BY <1>2 DEF OnlyGivenUp, Spares
  <1> QED BY <1>1, <1>3, <1>4, <1>5 DEF WiringInv

LEMMA WireStepTyped ==
  ASSUME WiringTypeOK, NEW d \in Dirs
  PROVE  /\ wire[d].file \in WiredFiles /\ \A f \in WiredFiles : disk[d][f] \in Contents
         /\ \A f \in WiredFiles : NextFile(d, f).file \in WiredFiles
                                  /\ NextFile(d, f).at \in {"look", "wired"}
         /\ \A f \in WiredFiles :
              NextFile(d, f) \in [at : {"idle", "look", "resolve", "append", "wired"},
                                  file : WiredFiles]
  BY DEF WiringTypeOK, WiredFiles, NextFile

LEMMA BeginWiringStep ==
  ASSUME WiringInv, NEW d \in Dirs, WireBoundary(d) \/ WireIntegrator(d)
  PROVE  WiringInv'
  <1>1. /\ wire[d].at \in {"idle", "wired"}
        /\ UNCHANGED <<disk, tracked, exclude, original, gaveUp, known, removed, added>>
        /\ \E w \in [at : {"look", "wired"}, file : WiredFiles] :
             wire' = [wire EXCEPT ![d] = w]
    BY DEF WireBoundary, WireIntegrator, BeginWiring, GoTo, NextFile, WiredFiles, historyVars
  <1>2. WiringTypeOK'
    BY <1>1 DEF WiringInv, WiringTypeOK
  <1>3. \A e \in Dirs, f \in WiredFiles : InHand(e, f) => InHand(e, f)'
    BY <1>1 DEF WiringInv, WiringTypeOK, InHand
  <1> QED BY <1>1, <1>2, <1>3
        DEF WiringInv, Covered, Hidden, OwnersFiles, OnlyGivenUp, Spares

LEMMA LookAndWriteStep ==
  ASSUME WiringInv, NEW d \in Dirs, LookAndWrite(d)
  PROVE  WiringInv'
  <1> DEFINE f == wire[d].file
  <1>1. /\ f \in WiredFiles /\ wire[d].at = "look"
        /\ UNCHANGED <<tracked, exclude, original, known, removed, added>>
    BY WireStepTyped DEF LookAndWrite, WiringInv
  <1>2. ASSUME GoTo(d, NextFile(d, f)), disk' = disk, gaveUp \subseteq gaveUp',
               gaveUp' \subseteq gaveUp \cup {<<d, f>>}
        PROVE  WiringInv'
    <2>1. WiringTypeOK'
      BY <1>1, <1>2, WireStepTyped DEF WiringInv, WiringTypeOK, GoTo
    <2>2. \A e \in Dirs, g \in WiredFiles : InHand(e, g) => InHand(e, g)'
      BY <1>1, <1>2 DEF WiringInv, WiringTypeOK, InHand, GoTo
    <2> QED BY <1>1, <1>2, <2>1, <2>2
          DEF WiringInv, Covered, Hidden, OwnersFiles, OnlyGivenUp, Spares
  <1>3. ASSUME GoTo(d, NextFile(d, f)), Put(d, f, "corrupt"), gaveUp' = gaveUp \cup {<<d, f>>}
        PROVE  WiringInv'
    <2>1. WiringTypeOK'
      BY <1>1, <1>3, WireStepTyped DEF WiringInv, WiringTypeOK, GoTo, Put, Contents
    <2>2. \A e \in Dirs, g \in WiredFiles : InHand(e, g) => InHand(e, g)'
      BY <1>1, <1>3 DEF WiringInv, WiringTypeOK, InHand, GoTo
    <2>3. \A e \in Dirs, g \in WiredFiles :
            \/ e = d /\ g = f /\ <<e, g>> \in gaveUp'
            \/ disk'[e][g] = disk[e][g]
      BY <1>1, <1>3 DEF WiringInv, WiringTypeOK, Put
    <2>4. Covered'
      BY <1>1, <1>3, <2>2, <2>3 DEF WiringInv, Covered, Hidden
    <2>5. Spares'
      BY <1>1, <1>3, <2>3 DEF WiringInv, Spares
    <2> QED BY <1>1, <1>3, <2>1, <2>4, <2>5 DEF WiringInv, OwnersFiles, OnlyGivenUp
  <1>4. ASSUME ~Spared(d, f), Put(d, f, Merged(d, f)),
               GoTo(d, [at |-> "resolve", file |-> f]), gaveUp' = gaveUp
        PROVE  WiringInv'
    <2>0. Merged(d, f) \in Generated
      BY DEF Merged, Generated
    <2>1. WiringTypeOK'
      BY <1>1, <1>4, <2>0 DEF WiringInv, WiringTypeOK, GoTo, Put, Contents, Generated
    <2>2. \A e \in Dirs, g \in WiredFiles :
            \/ e = d /\ g = f /\ InHand(e, g)' /\ disk'[e][g] = Merged(d, f)
            \/ disk'[e][g] = disk[e][g] /\ (InHand(e, g) => InHand(e, g)')
      BY <1>1, <1>4 DEF WiringInv, WiringTypeOK, Put, GoTo, InHand
    <2>3. Covered'
      BY <1>1, <1>4, <2>2 DEF WiringInv, Covered, Hidden
    <2>4. original[d][f] # "absent" /\ <<d, f>> \notin gaveUp \cup removed => Merged(d, f) = "both"
      <3> SUFFICES ASSUME original[d][f] # "absent", <<d, f>> \notin gaveUp \cup removed
                   PROVE  Merged(d, f) = "both"
        OBVIOUS
      <3>1. /\ original[d][f] \in {"theirs", "corrupt"} /\ f # "guide"
            /\ disk[d][f] \in {original[d][f], "both"}
        BY <1>1 DEF WiringInv, WiringTypeOK, OwnersFiles, Spares, Contents, Generated
      <3> QED BY <1>1, <1>4, <3>1 DEF Merged, Spared, WiredFiles
    <2>5. Spares'
      BY <1>1, <1>4, <2>2, <2>4 DEF WiringInv, Spares
    <2> QED BY <1>1, <1>4, <2>1, <2>3, <2>5 DEF WiringInv, OwnersFiles, OnlyGivenUp
  <1> QED BY <1>1, <1>2, <1>3, <1>4 DEF LookAndWrite, Put

LEMMA ExcludeStep ==
  ASSUME WiringInv, NEW d \in Dirs, ResolveExclude(d) \/ AddExclude(d) \/ GuardExclude(d)
  PROVE  WiringInv'
  <1> DEFINE f == wire[d].file
  <1>1. f \in WiredFiles
    BY WireStepTyped DEF WiringInv
  <1>2. CASE ResolveExclude(d)
    <2>1. /\ UNCHANGED <<disk, tracked, exclude, original, known, removed, added>>
          /\ \/ GoTo(d, [at |-> "append", file |-> f]) /\ UNCHANGED gaveUp
             \/ gaveUp' = gaveUp \cup {<<d, f>>} /\ GoTo(d, NextFile(d, f))
      BY <1>2 DEF ResolveExclude
    <2>2. PICK w \in [at : {"look", "append", "wired"}, file : WiredFiles] :
            /\ wire' = [wire EXCEPT ![d] = w]
            /\ \/ w.at = "append" /\ w.file = f /\ UNCHANGED gaveUp
               \/ gaveUp' = gaveUp \cup {<<d, f>>}
      <3>1. CASE GoTo(d, [at |-> "append", file |-> f]) /\ UNCHANGED gaveUp
        <4> DEFINE w == [at |-> "append", file |-> f]
        <4>1. w \in [at : {"look", "append", "wired"}, file : WiredFiles]
          BY <1>1
        <4>2. w.at = "append" /\ w.file = f /\ wire' = [wire EXCEPT ![d] = w]
          BY <3>1 DEF GoTo
        <4> HIDE DEF w
        <4> QED BY <3>1, <4>1, <4>2
      <3>2. CASE gaveUp' = gaveUp \cup {<<d, f>>} /\ GoTo(d, NextFile(d, f))
        <4>1. NextFile(d, f) \in [at : {"look", "append", "wired"}, file : WiredFiles]
          BY <1>1 DEF NextFile, WiredFiles
        <4> QED BY <3>2, <4>1 DEF GoTo
      <3> QED BY <2>1, <3>1, <3>2
    <2>3. WiringTypeOK'
      BY <1>1, <2>1, <2>2 DEF WiringInv, WiringTypeOK
    <2>4. \A e \in Dirs, g \in WiredFiles :
            InHand(e, g) => InHand(e, g)' \/ <<e, g>> \in gaveUp'
      BY <1>1, <2>2 DEF WiringInv, WiringTypeOK, InHand
    <2>5. gaveUp \subseteq gaveUp'
      BY <2>2
    <2> QED BY <2>1, <2>3, <2>4, <2>5
          DEF WiringInv, Covered, Hidden, OwnersFiles, OnlyGivenUp, Spares
  <1>3. CASE AddExclude(d)
    <2>1. WiringTypeOK'
      BY <1>1, <1>3, WireStepTyped DEF WiringInv, WiringTypeOK, GoTo, AddExclude
    <2>2. \A e \in Dirs, g \in WiredFiles : InHand(e, g) =>
            InHand(e, g)' \/ Hidden(e, g)' \/ <<e, g>> \in known'
      BY <1>1, <1>3 DEF WiringInv, WiringTypeOK, InHand, GoTo, AddExclude, Hidden
    <2>3. /\ exclude \subseteq exclude' /\ known \subseteq known'
          /\ UNCHANGED <<disk, tracked, original, gaveUp, removed, added>>
      BY <1>3 DEF AddExclude
    <2> QED BY <2>1, <2>2, <2>3 DEF WiringInv, Covered, Hidden, OwnersFiles, OnlyGivenUp, Spares
  <1>4. CASE GuardExclude(d)
    <2>1. WiringTypeOK'
      BY <1>1, <1>4, WireStepTyped
      DEF WiringInv, WiringTypeOK, GoTo, GuardExclude, Put, Contents
    <2>2. UNCHANGED <<tracked, exclude, original, gaveUp, known, added>>
      BY <1>4 DEF GuardExclude
    <2>3. \A e \in Dirs, g \in WiredFiles :
            \/ e = d /\ g = f /\ disk'[e][g] = "absent" /\ <<e, g>> \in removed'
            \/ /\ disk'[e][g] = disk[e][g] /\ (<<e, g>> \in removed => <<e, g>> \in removed')
               /\ InHand(e, g) => InHand(e, g)'
      BY <1>1, <1>4 DEF WiringInv, WiringTypeOK, InHand, GoTo, GuardExclude, Put
    <2>4. Covered' /\ Spares'
      BY <2>2, <2>3 DEF WiringInv, Covered, Hidden, Spares, Generated
    <2>5. OwnersFiles'
      BY <2>2 DEF WiringInv, OwnersFiles
    <2> QED BY <2>1, <2>2, <2>4, <2>5 DEF WiringInv, OnlyGivenUp
  <1> QED BY <1>2, <1>3, <1>4

LEMMA WiringCommitStep ==
  ASSUME WiringInv, NEW d \in Dirs, Commit(d)
  PROVE  WiringInv'
  <1>1. /\ tracked' = {df \in tracked : df[1] # d} \cup {<<d, f>> : f \in Addable(d)}
        /\ UNCHANGED <<disk, exclude, wire, original, gaveUp, known, removed>>
    BY DEF Commit
  <1>2. tracked' \subseteq Dirs \X WiredFiles
    <2>1. tracked \subseteq Dirs \X WiredFiles
      BY DEF WiringInv, WiringTypeOK
    <2>2. Addable(d) \subseteq WiredFiles
      BY DEF Addable
    <2>3. \A f \in Addable(d) : <<d, f>> \in Dirs \X WiredFiles
      BY <2>2
    <2> QED BY <1>1, <2>1, <2>3
  <1>3. \A e \in Dirs, g \in WiredFiles : Hidden(e, g) => Hidden(e, g)'
    BY <1>1 DEF Addable, Hidden
  <1>4. Covered'
    BY <1>1, <1>3 DEF WiringInv, Covered, InHand
  <1>5. \A f \in Addable(d) : disk[d][f] \in Generated /\ ~InHand(d, f) =>
          <<d, f>> \in gaveUp \cup known
    BY DEF WiringInv, Covered, Hidden, Addable
  <1>6. added' \subseteq gaveUp \cup known /\ added' \subseteq Dirs \X WiredFiles
    <2>1. added' = added \cup {<<d, f>> : f \in {g \in Addable(d) :
                                  disk[d][g] \in Generated /\ ~InHand(d, g)}}
      BY DEF Commit
    <2>2. Addable(d) \subseteq WiredFiles
      BY DEF Addable
    <2> QED BY <1>5, <2>1, <2>2 DEF WiringInv, WiringTypeOK, OnlyGivenUp
  <1> QED BY <1>1, <1>2, <1>4, <1>6
        DEF WiringInv, WiringTypeOK, OwnersFiles, OnlyGivenUp, Spares

\* Whatever fails on the way and whoever commits when, what is generated is in no commit but
\* in a file that git tracked when it was excluded, that git did not answer for or that could
\* not be written; and a file of the user keeps what was in it but for a failed write, or its
\* removal where it could not be excluded (WiringInv: whatever is generated is hidden from
\* git, is exempt, or is about to be excluded).
THEOREM GeneratedFilesStayOut == WiringInit /\ [][WiringNext]_wiringVars => []WiringSafe
  <1>1. WiringInv /\ [WiringNext]_wiringVars => WiringInv'
    <2> SUFFICES ASSUME WiringInv, [WiringNext]_wiringVars PROVE WiringInv'
      OBVIOUS
    <2>1. CASE WiringNext
      BY <2>1, BeginWiringStep, LookAndWriteStep, ExcludeStep, WiringCommitStep
      DEF WiringNext
    <2>2. CASE UNCHANGED wiringVars
      BY <2>2 DEF wiringVars, historyVars, WiringInv, WiringTypeOK, Covered, Hidden, InHand,
                  OwnersFiles, OnlyGivenUp, Spares
    <2> QED BY <2>1, <2>2
  <1>2. WiringInv => WiringSafe
    BY DEF WiringInv, WiringSafe, OnlyGivenUp, Spares
  <1> QED BY <1>1, <1>2, WiringInitially, PTL

-----------------------------------------------------------------------------
(* The view: its regions fit the terminal.                                     *)

\* What a window shows: no more rows than it has, its last lines when it is scrolled to
\* the end, and each line at some offset.
LEMMA WindowKeepsToItsRows ==
  ASSUME NEW total \in Nat \ {0}, NEW rows \in Nat, NEW o \in 0..MaxScrollOffset(total, rows),
         rows # 1 \/ total = 1
  PROVE  /\ Cardinality(WindowedRegion(total, rows, o).lines) \in Nat
         /\ WindowedRegion(total, rows, o).markers \in Nat
         /\ Cardinality(WindowedRegion(total, rows, o).lines)
              + WindowedRegion(total, rows, o).markers <= rows
  <1> DEFINE w == WindowedRegion(total, rows, o)
             top == IF o > 0 THEN 1 ELSE 0
             bottom == IF o + Larger(0, rows - top) < total THEN 1 ELSE 0
             visible == Larger(0, rows - top - bottom)
             bound == Smaller(total, o + visible)
  <1>0. MaxScrollOffset(total, rows) \in Nat /\ o \in Nat
        /\ Larger(0, Smaller(o, MaxScrollOffset(total, rows))) = o
    BY DEF MaxScrollOffset, Larger, Smaller
  <1>1. CASE rows = 0
    <2>1. w = [lines |-> {}, markers |-> 0]
      BY <1>1 DEF WindowedRegion
    <2> QED BY <1>1, <2>1, FS_EmptySet
  <1>2. CASE rows > 0 /\ total <= rows
    <2>1. w = [lines |-> 1..total, markers |-> 0]
      BY <1>2 DEF WindowedRegion
    <2>2. Cardinality(1..total) = total
      BY FS_Interval
    <2> QED BY <1>2, <2>1, <2>2
  <1>3. CASE rows > 0 /\ total > rows
    <2>1. w = [lines |-> (o + 1)..bound, markers |-> top + bottom]
      BY <1>0, <1>3 DEF WindowedRegion
    <2>2. /\ bound \in Nat /\ visible \in Nat /\ bound <= o + visible
          /\ visible + top + bottom = rows /\ top + bottom \in Nat
      BY <1>0, <1>3 DEF Larger, Smaller, MaxScrollOffset
    <2> HIDE DEF w, top, bottom, visible, bound
    <2>3. Cardinality((o + 1)..bound) = IF o + 1 > bound THEN 0 ELSE bound - (o + 1) + 1
      <3>1. o + 1 \in Int /\ bound \in Int
        BY <1>0, <2>2
      <3> QED BY <3>1, FS_Interval
    <2>4. Cardinality((o + 1)..bound) \in Nat /\ Cardinality((o + 1)..bound) <= visible
      BY <1>0, <2>2, <2>3
    <2>5. Cardinality(w.lines) + w.markers <= rows
      BY <2>1, <2>2, <2>4 DEF top, bottom
    <2>6. Cardinality(w.lines) \in Nat /\ w.markers \in Nat
      BY <2>1, <2>2, <2>4
    <2> QED BY <2>5, <2>6 DEF w
  <1> QED BY <1>1, <1>2, <1>3

LEMMA WindowAtTheEnd ==
  ASSUME NEW total \in Nat \ {0}, NEW rows \in Nat, rows >= 2
  PROVE  /\ MaxScrollOffset(total, rows) \in Nat
         /\ \A line \in 1..total :
              line > MaxScrollOffset(total, rows) + 1 \/ line = total =>
                line \in WindowedRegion(total, rows, MaxScrollOffset(total, rows)).lines
  BY DEF MaxScrollOffset, WindowedRegion, Larger, Smaller

LEMMA WindowShowsItsFirst ==
  ASSUME NEW total \in Nat \ {0}, NEW rows \in Nat, rows >= 3,
         NEW o \in 0..MaxScrollOffset(total, rows)
  PROVE  o + 1 \in WindowedRegion(total, rows, o).lines
  BY DEF MaxScrollOffset, WindowedRegion, Larger, Smaller

\* The budgets leave room for the strip, the titles and the footer.
IsSnapshot(v) ==
  /\ {v.reviews, v.leases, v.audit, v.present} \subseteq BOOLEAN
  /\ {v.requested, v.claimed, Len(v.log)} \subseteq Nat

LEMMA LinesCounted ==
  ASSUME NEW v, IsSnapshot(v)
  PROVE  /\ StatusStripLines(v) \in Nat
         /\ \A p \in Panels : LinesOf(v)[p] \in Nat \ {0}
         /\ ReviewQueueLines(v) \in Nat \ {0} /\ FeedLines(v) \in Nat \ {0}
  <1>1. StatusStripLines(v) \in Nat
    BY DEF StatusStripLines
  <1>2. ReviewQueueLines(v) \in Nat \ {0}
    BY DEF ReviewQueueLines, IsSnapshot, Larger
  <1>3. DedupeAuditEntries(v.log) \in Nat
    <2> DEFINE changes == {i \in 2..Len(v.log) : v.log[i] # v.log[i - 1]}
    <2>1. IsFiniteSet(2..Len(v.log))
      BY FS_Interval DEF IsSnapshot
    <2>2. Cardinality(changes) \in Nat
      BY <2>1, FS_Subset, FS_CardinalityType
    <2> QED BY <2>2 DEF DedupeAuditEntries
  <1>4. FeedLines(v) \in Nat \ {0}
    BY <1>3 DEF FeedLines, Larger
  <1> QED BY <1>1, <1>2, <1>4 DEF LinesOf, Panels

LEMMA BudgetsFit ==
  ASSUME NEW v, IsSnapshot(v), NEW h \in Nat
  PROVE  /\ \A p \in Panels : LayoutBudget(v, h)[p] \in Nat
         /\ h >= StatusStripLines(v) + 4 =>
              StatusStripLines(v) + LayoutBudget(v, h)["queue"] + LayoutBudget(v, h)["feed"] + 3
                <= h
  <1> DEFINE strip == StatusStripLines(v)
             queue == ReviewQueueLines(v)
             content == QueueContentBudget(queue, 0)
             available == Larger(0, h - strip - 1)
             queueHeight == Larger(0, Smaller(1 + content, available - 1))
             feedHeight == Larger(0, available - queueHeight)
             feed == Larger(0, feedHeight - 1)
             inQueue == QueueContentBudget(queue, Larger(0, queueHeight - 1))
  <1>1. strip \in Nat /\ queue \in Nat \ {0} /\ FeedLines(v) \in Nat
    BY LinesCounted
  <1>2. LayoutBudget(v, h) = IF h = 0 THEN [queue |-> content, feed |-> FeedLines(v)]
                             ELSE [queue |-> inQueue, feed |-> feed]
    BY DEF LayoutBudget
  <1> HIDE DEF strip, queue
  <1>3. content \in Nat \ {0}
    BY <1>1 DEF QueueContentBudget
  <1> HIDE DEF content
  <1>4. available \in Nat /\ queueHeight \in Nat /\ feedHeight \in Nat
        /\ (h >= strip + 4 =>
              /\ available = h - strip - 1 /\ queueHeight >= 2
              /\ feedHeight >= 1 /\ feedHeight + queueHeight = available)
    BY <1>1, <1>3 DEF Larger, Smaller
  <1> HIDE DEF available, queueHeight, feedHeight
  <1>5. feed \in Nat /\ (feedHeight >= 1 => feed = feedHeight - 1)
    BY <1>4 DEF Larger
  <1>6. inQueue \in Nat /\ (queueHeight >= 2 => inQueue <= queueHeight - 1)
    BY <1>1, <1>4 DEF QueueContentBudget, Larger, Smaller
  <1> HIDE DEF feed, inQueue
  <1> QED BY <1>1, <1>2, <1>3, <1>4, <1>5, <1>6 DEF Panels, strip

\* Whatever happened last, the offsets are clamped for what is shown.
Clamped ==
  /\ IsSnapshot(view) /\ height \in Nat /\ focus \in {"feed", "queue", "strip"}
  /\ offsets \in [Panels -> Nat] /\ userScrolled \subseteq Panels
  /\ \A p \in Panels : offsets[p] <= MaxScrollOffset(LinesOf(view)[p], Budget[p])
  /\ "feed" \notin userScrolled =>
       offsets["feed"] = MaxScrollOffset(LinesOf(view)["feed"], Budget["feed"])

LEMMA ClampsOffsets ==
  ASSUME NEW v, IsSnapshot(v), NEW h \in Nat, NEW off \in [Panels -> Int], NEW scrolled
  PROVE  LET o == ClampOffsets(v, h, off, scrolled)
         IN  /\ o \in [Panels -> Nat]
             /\ \A p \in Panels : o[p] <= MaxScrollOffset(LinesOf(v)[p], LayoutBudget(v, h)[p])
             /\ "feed" \notin scrolled =>
                  o["feed"] = MaxScrollOffset(LinesOf(v)["feed"], LayoutBudget(v, h)["feed"])
  <1> DEFINE o == ClampOffsets(v, h, off, scrolled)
             max(p) == MaxScrollOffset(LinesOf(v)[p], LayoutBudget(v, h)[p])
  <1>1. \A p \in Panels : max(p) \in Nat
    BY LinesCounted, BudgetsFit DEF MaxScrollOffset, Larger
  <1>2. /\ DOMAIN o = Panels
        /\ \A p \in Panels : o[p] = IF p = "feed" /\ "feed" \notin scrolled THEN max(p)
                                    ELSE Larger(0, Smaller(off[p], max(p)))
        /\ o = [p \in Panels |-> o[p]]
    BY DEF ClampOffsets
  <1> HIDE DEF o, max
  <1>3. \A p \in Panels : o[p] \in Nat /\ o[p] <= max(p)
    BY <1>1, <1>2 DEF Larger, Smaller
  <1>4. "feed" \notin scrolled => o["feed"] = max("feed")
    BY <1>2 DEF Panels
  <1>5. o \in [Panels -> Nat]
    BY <1>2, <1>3
  <1> QED BY <1>3, <1>4, <1>5 DEF o, max

LEMMA ViewInitially == ViewInit => Clamped
  <1> SUFFICES ASSUME ViewInit PROVE Clamped
    OBVIOUS
  <1>1. IsSnapshot(view) /\ view = NoSnapshot /\ height = 0
    BY DEF ViewInit, NoSnapshot, IsSnapshot
  <1>2. \A p \in Panels : LinesOf(view)[p] = 1 /\ Budget[p] = 1
    BY <1>1 DEF NoSnapshot, LinesOf, FeedLines, ReviewQueueLines, Budget, LayoutBudget, Panels,
                QueueContentBudget
  <1>3. \A p \in Panels : MaxScrollOffset(LinesOf(view)[p], Budget[p]) = 0
    BY <1>2 DEF MaxScrollOffset
  <1> QED BY <1>1, <1>3 DEF ViewInit, Clamped, Panels

LEMMA ViewStep == Clamped /\ [ViewNext]_viewVars => Clamped'
  <1> SUFFICES ASSUME Clamped, [ViewNext]_viewVars PROVE Clamped'
    OBVIOUS
  <1>0. offsets \in [Panels -> Int]
    BY DEF Clamped
  <1>1. ASSUME NEW off \in [Panels -> Int], IsSnapshot(view'), height' \in Nat,
               focus' \in {"feed", "queue", "strip"}, userScrolled' \subseteq Panels,
               offsets' = ClampOffsets(view', height', off, userScrolled')
        PROVE  Clamped'
    BY <1>1, ClampsOffsets DEF Clamped, Budget
  <1>2. CASE WindowSizeMsg
    BY <1>0, <1>1, <1>2, ViewAssumption DEF WindowSizeMsg, Clamped
  <1>3. CASE ShowSnapshot
    BY <1>0, <1>1, <1>3, SnapshotsAssumption DEF ShowSnapshot, Clamped, IsSnapshot
  <1>4. CASE FocusKey
    BY <1>4 DEF FocusKey, Clamped, Budget
  <1>5. CASE \E delta \in {-1, 1} : ScrollFocused(delta)
    <2>1. PICK delta \in {-1, 1} : ScrollFocused(delta)
      BY <1>5
    <2>2. focus \in Panels
      BY <2>1 DEF ScrollFocused, Clamped, Panels
    <2>3. [offsets EXCEPT ![focus] = @ + delta] \in [Panels -> Int]
      BY <1>0, <2>2
    <2> QED BY <1>1, <2>1, <2>2, <2>3 DEF ScrollFocused, Clamped
  <1>6. CASE UNCHANGED viewVars
    BY <1>6 DEF viewVars, Clamped, Budget
  <1> QED BY <1>2, <1>3, <1>4, <1>5, <1>6 DEF ViewNext

LEMMA ClampedFits == Clamped => ViewFits
  <1> SUFFICES ASSUME Clamped PROVE ViewFits
    OBVIOUS
  <1>1. /\ IsSnapshot(view) /\ height \in Nat
        /\ \A p \in Panels : /\ LinesOf(view)[p] \in Nat \ {0} /\ Budget[p] \in Nat
                             /\ offsets[p] \in 0..MaxScrollOffset(LinesOf(view)[p], Budget[p])
    <2>1. \A p \in Panels : LinesOf(view)[p] \in Nat \ {0} /\ Budget[p] \in Nat
      BY LinesCounted, BudgetsFit DEF Clamped, Budget
    <2>2. \A p \in Panels : MaxScrollOffset(LinesOf(view)[p], Budget[p]) \in Nat
      BY <2>1 DEF MaxScrollOffset, Larger
    <2> QED BY <2>1, <2>2 DEF Clamped
  <1>2. \A p \in Panels : Budget[p] # 1 \/ LinesOf(view)[p] = 1 =>
          RowsOf(p) \in Nat /\ RowsOf(p) <= Budget[p]
    BY <1>1, WindowKeepsToItsRows DEF RowsOf, Shown
  <1>3. Budget["feed"] >= 2 /\ "feed" \notin userScrolled =>
          FeedLines(view) \in Shown("feed").lines
    BY <1>1, WindowAtTheEnd DEF Shown, LinesOf, Panels, Clamped
  <1>4. ASSUME NEW p \in Panels, Budget[p] >= 3
        PROVE  /\ Shown(p).lines # {}
               /\ \A line \in 1..LinesOf(view)[p] :
                    \E o \in 0..MaxScrollOffset(LinesOf(view)[p], Budget[p]) :
                      line \in WindowedRegion(LinesOf(view)[p], Budget[p], o).lines
    <2> DEFINE total == LinesOf(view)[p]
               rows == Budget[p]
               max == MaxScrollOffset(total, rows)
    <2>1. total \in Nat \ {0} /\ rows \in Nat /\ rows >= 3 /\ offsets[p] \in 0..max
      BY <1>1, <1>4
    <2> HIDE DEF total, rows
    <2>2. max \in Nat /\ max < total
      BY <2>1 DEF MaxScrollOffset, Larger
    <2> HIDE DEF max
    <2>3. offsets[p] + 1 \in WindowedRegion(total, rows, offsets[p]).lines
      BY <2>1, WindowShowsItsFirst DEF max
    <2>4. ASSUME NEW line \in 1..total
          PROVE  \E o \in 0..max : line \in WindowedRegion(total, rows, o).lines
      <3>1. CASE line <= max + 1
        <4>1. line - 1 \in 0..max /\ (line - 1) + 1 = line
          BY <2>2, <3>1
        <4> QED BY <2>1, <4>1, WindowShowsItsFirst DEF max
      <3>2. CASE line > max + 1
        <4>1. line \in WindowedRegion(total, rows, max).lines
          BY <2>1, <3>2, WindowAtTheEnd DEF max
        <4> QED BY <2>2, <4>1
      <3> QED BY <2>2, <3>1, <3>2
    <2> QED BY <2>3, <2>4 DEF total, rows, max, Shown
  <1>5. height >= StatusStripLines(view) + 4
        /\ (\A p \in Panels : Budget[p] # 1 \/ LinesOf(view)[p] = 1) => ~FooterCut
    <2> SUFFICES ASSUME height >= StatusStripLines(view) + 4,
                        \A p \in Panels : Budget[p] # 1 \/ LinesOf(view)[p] = 1
                 PROVE  ScreenLines <= height
      BY <1>1, <1>2, LinesCounted DEF FooterCut, ScreenLines, Panels
    <2>1. StatusStripLines(view) + Budget["queue"] + Budget["feed"] + 3 <= height
      BY <1>1, BudgetsFit DEF Budget
    <2> QED BY <1>1, <1>2, <2>1, LinesCounted DEF ScreenLines, Panels
  <1>6. \A p \in Panels : Budget[p] >= 2 => RowsOf(p) <= Budget[p]
    BY <1>2
  <1> QED BY <1>3, <1>4, <1>5, <1>6 DEF ViewFits

\* Whatever the sizes of the terminal, the snapshots and the keys, in whatever order they
\* come: regions keep to their rows, the newest decision stays in view until the feed is
\* scrolled, every line can be scrolled to, and the footer is not cut off.
THEOREM ScreensFit == ViewInit /\ [][ViewNext]_viewVars => []ViewFits
  BY ViewInitially, ViewStep, ClampedFits, PTL

-----------------------------------------------------------------------------
(* The servers.                                                                 *)

\* What is left of a lease, of a server whose renewal is at work on it and of another.
SlotMargin(p) == IF p \in due THEN TTL - 1 ELSE TTL
ClaimMargin(p, k) == IF p \in due \/ k \in pass[p] THEN TTL - 1 ELSE TTL

Unbroken(p) == p \notin severed
Granted(p, k) == call[p].op = "claim" /\ call[p].at = "granted" /\ call[p].path = k
Releasing(p, k) == call[p].op = "release" /\ call[p].at = "try" /\ call[p].path = k
Kept(p, k, n) == lease[k].who = p /\ lease[k].as = link[p] /\ lease[k].left >= n

\* Rows that are held have time left.
RowsLive == \A k \in Keys : lease[k].who # Nobody => lease[k].left > 0

\* Who was never cut off is connected, or has not called yet.
LinkOK(p) ==
  /\ link[p] \in Connected => up
  /\ Unbroken(p) => link[p] \in Connected \cup {"none"}

\* What a server does in each part of its life.
LifeOK(p) ==
  /\ p \in due => phase[p] \in {"serving", "ending"}
  /\ phase[p] # "serving" => call[p] = Idle
  /\ phase[p] = "unborn" => link[p] = "none"

IntegratorOK(p) ==
  /\ call[p] \in {Idle, Review} /\ slot[p] \in FirstSlot..LastSlot
  /\ pres[p] = "loop" => phase[p] \in {"serving", "ending"}
  /\ pres[p] # "off" => phase[p] \in {"serving", "ending", "gone"}
  /\ phase[p] = "gone" => pres[p] = "done"

BuilderOK(p) ==
  /\ phase[p] \notin {"joining", "granted", "refused"}
  /\ call[p] # Review
  /\ pass[p] # {} => phase[p] \in {"serving", "ending"}
  /\ p \in stale => ~Unbroken(p)
  /\ link[p] = "none" => claimed[p] = {} /\ pass[p] = {} /\ ~InFlight(p)
  /\ \A k \in Keys : Releasing(p, k) => k \notin claimed[p]

\* A server holds what it counts on, with enough time left to renew it in the next tick.
SlotKept(p) ==
  Unbroken(p) /\ p \notin cancelled /\ phase[p] \in {"granted", "serving"}
    => link[p] \in Connected /\ Kept(p, slot[p], SlotMargin(p))

ClaimsKept(p) ==
  Unbroken(p) /\ p \notin cancelled /\ phase[p] = "serving"
    => /\ \A k \in claimed[p] : Kept(p, k, ClaimMargin(p, k))
       /\ \A k \in Keys : Granted(p, k) => Kept(p, k, TTL)
       /\ claimed[p] # {} => link[p] \in Connected

\* Whatever a server holds it still knows of, but for what it forgot.
SlotKnown(p) ==
  phase[p] # "killed" =>
    \A k \in Keys : lease[k].who = p /\ <<p, k>> \notin forgotten =>
      /\ k = slot[p] /\ phase[p] \in {"granted", "serving", "ending", "gone"}
      /\ Unbroken(p) => /\ phase[p] # "gone" /\ pres[p] \notin {"released", "done"}
                        /\ link[p] \in Connected /\ lease[k].as = link[p]

ClaimsKnown(p) ==
  phase[p] # "killed" /\ Unbroken(p) =>
    \A k \in Keys : lease[k].who = p /\ <<p, k>> \notin forgotten =>
      /\ phase[p] \in {"serving", "ending"}
      /\ link[p] \in Connected /\ lease[k].as = link[p]
      /\ k \in claimed[p] \/ Granted(p, k) \/ Releasing(p, k)

ServerOK(p) ==
  /\ LinkOK(p) /\ LifeOK(p)
  /\ p \in Integrators => IntegratorOK(p) /\ SlotKept(p) /\ SlotKnown(p)
  /\ p \in Builders => BuilderOK(p) /\ ClaimsKept(p) /\ ClaimsKnown(p)

\* The commands: what they signal and watch are integrators.
CommandsOK ==
  /\ \A w \in Wrappers :
       /\ wrap[w] = "running" => child[w] \in Integrators
       /\ wrap[w] \notin {"crashed", "parked", "done"} => crashes[w] < Rapid
  /\ stop.at \in {"signal", "wait"} => stop.pid \in Integrators

ServersOK == ServerTypeOK /\ RowsLive /\ \A p \in Servers : ServerOK(p)
ServersInv == ServersOK /\ RunTypeOK /\ CommandsOK

\* What a step of another server, or of none, leaves to a server.
Aside(q) ==
  /\ link'[q] = link[q] /\ phase'[q] = phase[q] /\ call'[q] = call[q]
  /\ q \in cancelled' <=> q \in cancelled
  /\ q \in due' <=> q \in due
  /\ q \in severed' <=> q \in severed
  /\ q \in stale' <=> q \in stale
  /\ q \in Builders => claimed'[q] = claimed[q] /\ pass'[q] = pass[q]
  /\ q \in Integrators => slot'[q] = slot[q] /\ pres'[q] = pres[q]
  /\ \A k \in Keys : /\ lease'[k] = lease[k] \/ (lease[k].who # q /\ lease'[k].who # q)
                     /\ <<q, k>> \in forgotten' <=> <<q, k>> \in forgotten

LEMMA KeysOf ==
  /\ Slots \subseteq Keys /\ Paths \subseteq Keys /\ Slots \subseteq Nat /\ 0 \in Slots
  /\ Builders \subseteq Servers /\ Integrators \subseteq Servers
  /\ \A p \in Servers : p \in Builders <=> p \notin Integrators
  /\ Nobody \notin Servers /\ Rival \notin Servers /\ Nobody # Rival
  /\ TTL \in Nat /\ TTL > 1
  BY RolesAssumption, BoundsAssumption DEF Slots, Keys, Servers

LEMMA SlotsRange ==
  ASSUME size \in Pools
  PROVE  /\ FirstSlot \in Nat /\ LastSlot \in Nat /\ FirstSlot <= LastSlot
         /\ FirstSlot..LastSlot \subseteq Slots
<1>1. size \in 1..99
  BY BoundsAssumption
<1>2. 1..size \subseteq UNION {1..n : n \in Pools}
  OBVIOUS
<1>. QED BY <1>1, <1>2 DEF FirstSlot, LastSlot, Slots

LEMMA AsideStays ==
  ASSUME ServerTypeOK, NEW q \in Servers, ServerOK(q), Aside(q), up' = up, size' = size
  PROVE  ServerOK(q)'
<1>1. LinkOK(q)' /\ LifeOK(q)'
  BY DEF ServerOK, LinkOK, LifeOK, Aside, Unbroken
<1>2. ASSUME q \in Integrators PROVE IntegratorOK(q)'
  BY <1>2 DEF ServerOK, IntegratorOK, Aside, FirstSlot, LastSlot
<1>3. ASSUME q \in Integrators PROVE SlotKept(q)'
  <2>1. slot[q] \in Keys
    BY <1>3, KeysOf DEF ServerTypeOK
  <2>. QED BY <1>3, <2>1 DEF ServerOK, SlotKept, Aside, Unbroken, Kept, SlotMargin
<1>4. ASSUME q \in Integrators PROVE SlotKnown(q)'
  BY <1>4 DEF ServerOK, SlotKnown, Aside, Unbroken
<1>5. ASSUME q \in Builders PROVE BuilderOK(q)'
  BY <1>5 DEF ServerOK, BuilderOK, Aside, Unbroken, InFlight, Releasing
<1>6. ASSUME q \in Builders PROVE ClaimsKept(q)'
  <2>1. claimed[q] \subseteq Keys
    BY <1>6, KeysOf DEF ServerTypeOK
  <2>. QED BY <1>6, <2>1 DEF ServerOK, ClaimsKept, Aside, Unbroken, Kept, ClaimMargin, Granted
<1>7. ASSUME q \in Builders PROVE ClaimsKnown(q)'
  BY <1>7 DEF ServerOK, ClaimsKnown, Aside, Unbroken, Granted, Releasing
<1>. QED BY <1>1, <1>2, <1>3, <1>4, <1>5, <1>6, <1>7 DEF ServerOK

\* One server's step: it need only be shown of that server.
LEMMA OneSteps ==
  ASSUME ServersOK, NEW p \in Servers, ServerOK(p)', up' = up, size' = size,
         \A q \in Servers : q # p => Aside(q)
  PROVE  \A q \in Servers : ServerOK(q)'
BY AsideStays DEF ServersOK

Calls == ToolCall \cup {Idle, Review}

LEMMA CallForms ==
  ASSUME NEW c \in Calls
  PROVE  /\ c.op \in {"idle", "review", "claim", "release"}
         /\ c.op = "idle" <=> c = Idle
         /\ c.op = "review" <=> c = Review
         /\ c.op \in {"claim", "release"} => c.path \in Paths /\ c.again \in BOOLEAN
         /\ c.op = "claim" => c.at \in {"try", "granted", "denied"}
         /\ c.op = "release" => c.at \in {"untrack", "try"}
BY DEF Calls, ToolCall, Idle, Review

LEMMA CallMoves ==
  ASSUME NEW c \in Calls, NEW a,
         \/ c.op = "claim" /\ a \in {"try", "granted", "denied"}
         \/ c.op = "release" /\ a \in {"untrack", "try"}
  PROVE  /\ [c EXCEPT !.at = a] \in Calls
         /\ [c EXCEPT !.at = a].op = c.op /\ [c EXCEPT !.at = a].path = c.path
         /\ [c EXCEPT !.at = a].at = a
         /\ [c EXCEPT !.again = TRUE, !.at = a] \in Calls
         /\ [c EXCEPT !.again = TRUE, !.at = a].op = c.op
         /\ [c EXCEPT !.again = TRUE, !.at = a].path = c.path
         /\ [c EXCEPT !.again = TRUE, !.at = a].at = a
<1> DEFINE C == [op : {"claim"}, path : Paths, at : {"try", "granted", "denied"},
                 again : BOOLEAN]
           R == [op : {"release"}, path : Paths, at : {"untrack", "try"}, again : BOOLEAN]
<1>1. ToolCall = C \cup R
  BY DEF ToolCall
<1>2. Idle.op = "idle" /\ Review.op = "review"
  BY DEF Idle, Review
<1>3. CASE c \in C /\ a \in {"try", "granted", "denied"}
  BY <1>3, <1>1 DEF Calls
<1>4. CASE c \in R /\ a \in {"untrack", "try"}
  BY <1>4, <1>1 DEF Calls
<1>. QED BY <1>1, <1>2, <1>3, <1>4 DEF Calls

Rows == [who : Servers \cup {Nobody, Rival}, as : Connected \cup {"lost"}, left : 0..TTL]

LEMMA RowForms ==
  ASSUME NEW r \in Rows
  PROVE  /\ r.who \in Servers \cup {Nobody, Rival} /\ r.as \in Connected \cup {"lost"}
         /\ r.left \in 0..TTL
         /\ Aged(r) \in Rows
         /\ Aged(r).who \in {r.who, Nobody}
         /\ r.left > 1 => Aged(r) = [r EXCEPT !.left = @ - 1] /\ Aged(r).who = r.who
                          /\ Aged(r).as = r.as /\ Aged(r).left = r.left - 1
         /\ Aged(r).who # Nobody => r.left > 1
         /\ \A p : /\ Orphaned(r, p) \in Rows /\ Orphaned(r, p).who = r.who
                   /\ Orphaned(r, p).left = r.left
                   /\ r.who # p => Orphaned(r, p) = r
<1>1. r.who \in Servers \cup {Nobody, Rival} /\ r.as \in Connected \cup {"lost"} /\ r.left \in 0..TTL
  BY DEF Rows
<1>2. Free \in Rows /\ Free.who = Nobody
  BY KeysOf DEF Free, Rows
<1>3. ASSUME r.left > 1
      PROVE  /\ [r EXCEPT !.left = @ - 1] \in Rows /\ [r EXCEPT !.left = @ - 1].who = r.who
             /\ [r EXCEPT !.left = @ - 1].as = r.as
             /\ [r EXCEPT !.left = @ - 1].left = r.left - 1
  BY <1>3, <1>1, KeysOf DEF Rows
<1>4. r.left > 1 => Aged(r) = [r EXCEPT !.left = @ - 1]
  BY <1>1, KeysOf DEF Aged
<1>5. ~(r.left > 1) => Aged(r) = Free
  BY <1>1, KeysOf DEF Aged
<1>6. [r EXCEPT !.as = "lost"] \in Rows /\ [r EXCEPT !.as = "lost"].who = r.who
      /\ [r EXCEPT !.as = "lost"].left = r.left
  BY DEF Rows
<1>7. \A p : /\ Orphaned(r, p) \in Rows /\ Orphaned(r, p).who = r.who
             /\ Orphaned(r, p).left = r.left
             /\ r.who # p => Orphaned(r, p) = r
  BY <1>6 DEF Orphaned
<1>8. CASE r.left > 1
  BY <1>8, <1>1, <1>3, <1>4, <1>7
<1>9. CASE ~(r.left > 1)
  BY <1>9, <1>1, <1>2, <1>5, <1>7
<1>. QED BY <1>8, <1>9

LEMMA NewRows ==
  ASSUME NEW p \in Servers, NEW as \in Connected
  PROVE  /\ Held(p, as) \in Rows /\ Held(p, as).who = p /\ Held(p, as).as = as
         /\ Held(p, as).left = TTL
         /\ Free \in Rows /\ Free.who = Nobody /\ Free.left = 0
<1>1. TTL \in 0..TTL /\ 0 \in 0..TTL
  BY KeysOf
<1>2. Held(p, as) \in Rows
  BY <1>1 DEF Held, Rows
<1>3. Free \in Rows
  BY <1>1 DEF Free, Rows
<1>. QED BY <1>2, <1>3 DEF Held, Free

-----------------------------------------------------------------------------
(* Starting and joining.                                                        *)

LEMMA ServerStarts ==
  ASSUME ServersOK, NEW p \in Servers, Start(p)
  PROVE  ServersOK'
<1>1. ServerTypeOK'
  BY KeysOf DEF ServersOK, ServerTypeOK, Start, Identities, Connected, daemonVars, renewVars,
                presenceVars
<1>2. RowsLive'
  BY DEF ServersOK, RowsLive, Start
<1>3. \A q \in Servers : q # p => Aside(q)
  BY DEF ServersOK, ServerTypeOK, Start, Aside, renewVars, presenceVars
<1>4. ServerOK(p)'
  <2>1. phase[p] = "unborn" /\ phase'[p] \in {"joining", "serving"}
        /\ (p \in Builders => phase'[p] = "serving") /\ (p \in Integrators => phase'[p] = "joining")
    BY KeysOf DEF ServersOK, ServerTypeOK, Start
  <2>2. link'[p] = link[p] \/ (up /\ link'[p] \in Connected)
    BY DEF ServersOK, ServerTypeOK, Start, Identities, Connected
  <2>3. call[p] = Idle
    BY <2>1 DEF ServersOK, ServerOK, LifeOK
  <2>4. ServerOK(p)
    BY DEF ServersOK
  <2>5. UNCHANGED <<up, breaks, lease, call, claimed, due, pass, stale, size, slot, pres, severed, forgotten, cancelled>>
    BY DEF Start, daemonVars, renewVars, presenceVars
  <2>6. (LinkOK(p) /\ LifeOK(p))'
    BY <2>1, <2>2, <2>3, <2>4, <2>5 DEF ServerOK, LinkOK, LifeOK, Unbroken
  <2>7. ASSUME p \in Integrators PROVE (IntegratorOK(p) /\ SlotKept(p) /\ SlotKnown(p))'
    BY <2>1, <2>4, <2>5, <2>7 DEF ServerOK, IntegratorOK, SlotKept, SlotKnown, FirstSlot, LastSlot
  <2>8. ASSUME p \in Builders PROVE (BuilderOK(p) /\ ClaimsKept(p) /\ ClaimsKnown(p))'
    <3>1. claimed[p] = {} /\ pass[p] = {}
      BY <2>1, <2>4, <2>8 DEF ServerOK, LifeOK, BuilderOK
    <3>2. ~InFlight(p)' /\ \A k : ~Granted(p, k)' /\ ~Releasing(p, k)'
      BY <2>3, <2>5 DEF InFlight, Granted, Releasing, Idle
    <3>3. call[p] # Review
      BY <2>3 DEF Idle, Review
    <3>. QED BY <2>1, <2>4, <2>5, <2>8, <3>1, <3>2, <3>3
             DEF ServerOK, BuilderOK, ClaimsKept, ClaimsKnown, Unbroken
  <2>. QED BY <2>6, <2>7, <2>8 DEF ServerOK
<1>. QED BY <1>1, <1>2, <1>3, <1>4, OneSteps DEF ServersOK, Start, daemonVars, presenceVars

LEMMA Typed ==
  ASSUME ServersOK
  PROVE  /\ lease \in [Keys -> Rows] /\ call \in [Servers -> Calls]
         /\ \A p \in Integrators : slot[p] \in Slots /\ slot[p] \in Keys
         /\ \A p \in Servers : ServerOK(p)
         /\ \A k \in Keys : lease[k].left = 0 => lease[k].who = Nobody
<1>1. lease \in [Keys -> Rows] /\ call \in [Servers -> Calls]
  BY DEF ServersOK, ServerTypeOK, Rows, Calls
<1>2. \A k \in Keys : lease[k].left = 0 => lease[k].who = Nobody
  BY DEF ServersOK, RowsLive
<1>. QED BY <1>1, <1>2, KeysOf DEF ServersOK, ServerTypeOK

\* Without an answer the integrator serves on the first slot.
LEMMA JoinsUnverified ==
  ASSUME ServersOK, NEW p \in Integrators, JoinUnverified(p)
  PROVE  ServersOK'
<1>0. p \in Servers /\ p \notin Builders /\ FirstSlot \in Slots /\ slot[p] \in Slots
      /\ FirstSlot \in FirstSlot..LastSlot
  BY KeysOf, SlotsRange DEF ServersOK, ServerTypeOK
<1>1. ServerTypeOK'
  <2>1. <<p, slot[p]>> \in Servers \X Keys
    BY <1>0, KeysOf
  <2>2. forgotten' \subseteq Servers \X Keys
    BY <2>1 DEF ServersOK, ServerTypeOK, JoinUnverified, Advisory
  <2>3. /\ phase' = [phase EXCEPT ![p] = "serving"] /\ slot' = [slot EXCEPT ![p] = FirstSlot]
        /\ pres' = [pres EXCEPT ![p] = "loop"] /\ severed' = severed \cup {p}
        /\ link' = link \/ link' = [link EXCEPT ![p] = "dropped"]
        /\ UNCHANGED <<daemonVars, lease, cancelled, eof, call, claimed, due, renewVars, size,
                 pidfile, wrote>>
    BY DEF JoinUnverified, Advisory
  <2>. QED BY <1>0, <2>2, <2>3 DEF ServersOK, ServerTypeOK, daemonVars, renewVars
<1>2. RowsLive'
  BY DEF ServersOK, RowsLive, JoinUnverified
<1>3. \A q \in Servers : q # p => Aside(q)
  BY <1>0 DEF ServersOK, ServerTypeOK, JoinUnverified, Advisory, Aside, renewVars
<1>4. ServerOK(p)'
  <2>1. /\ phase[p] \in {"joining", "granted"} /\ phase'[p] = "serving"
        /\ slot'[p] = FirstSlot /\ pres'[p] = "loop" /\ p \in severed'
        /\ link'[p] \in {"none", "dropped"}
        /\ UNCHANGED <<up, lease, call, due, size>>
    <3>1. phase[p] \in {"joining", "granted"} /\ UNCHANGED <<up, lease, call, due, size>>
      BY DEF JoinUnverified, daemonVars
    <3>2. phase'[p] = "serving" /\ slot'[p] = FirstSlot /\ pres'[p] = "loop" /\ p \in severed'
      BY <1>0 DEF ServersOK, ServerTypeOK, JoinUnverified, Advisory
    <3>3. link'[p] \in {"none", "dropped"}
      BY <1>0 DEF ServersOK, ServerTypeOK, JoinUnverified
    <3>. QED BY <3>1, <3>2, <3>3
  <2>2. \A k \in Keys : <<p, k>> \notin forgotten' /\ lease[k].who = p
          => <<p, k>> \notin forgotten /\ (k = slot[p] => k = FirstSlot)
    BY DEF JoinUnverified, Advisory
  <2>3. ServerOK(p)
    BY <1>0 DEF ServersOK
  <2>4. call[p] = Idle
    BY <2>1, <2>3 DEF ServerOK, LifeOK
  <2>5. (LinkOK(p) /\ LifeOK(p))'
    BY <2>1, <2>3, <2>4 DEF ServerOK, LinkOK, LifeOK, Unbroken, Connected
  <2>6. (IntegratorOK(p) /\ SlotKept(p))'
    BY <1>0, <2>1, <2>3, <2>4 DEF ServerOK, IntegratorOK, SlotKept, Unbroken, FirstSlot, LastSlot
  <2>7. SlotKnown(p)'
    BY <2>1, <2>2, <2>3 DEF ServerOK, SlotKnown, Unbroken
  <2>. QED BY <1>0, <2>5, <2>6, <2>7 DEF ServerOK
<1>. QED BY <1>0, <1>1, <1>2, <1>3, <1>4, OneSteps DEF ServersOK, JoinUnverified, daemonVars

LEMMA JoinRedialsStep ==
  ASSUME ServersOK, NEW p \in Integrators, JoinRedials(p)
  PROVE  ServersOK'
<1>0. p \in Servers /\ p \notin Builders
  BY KeysOf
<1>1. PICK as \in Connected : link' = [link EXCEPT ![p] = as]
  BY DEF JoinRedials, Redial, Identities, Connected
<1>2. /\ phase[p] = "joining" /\ up /\ link[p] = "none"
      /\ UNCHANGED <<daemonVars, lease, lifeVars, call, claimed, due, pass, stale, drop,
                     presenceVars, severed, forgotten>>
  BY <1>0 DEF JoinRedials, Redial
<1>3. ServerTypeOK'
  BY <1>0, <1>1, <1>2 DEF ServersOK, ServerTypeOK, daemonVars, lifeVars, presenceVars
<1>4. RowsLive'
  BY <1>2 DEF ServersOK, RowsLive
<1>5. \A q \in Servers : q # p => Aside(q)
  BY <1>0, <1>1, <1>2 DEF ServersOK, ServerTypeOK, Aside, lifeVars, presenceVars
<1>6. ServerOK(p)'
  <2>1. link'[p] \in Connected
    BY <1>0, <1>1 DEF ServersOK, ServerTypeOK
  <2>2. UNCHANGED <<up, lease, phase, cancelled, call, due, size, slot, pres, severed, forgotten>>
    BY <1>2 DEF daemonVars, lifeVars, presenceVars
  <2>3. ServerOK(p)
    BY <1>0 DEF ServersOK
  <2>4. (LinkOK(p) /\ LifeOK(p) /\ IntegratorOK(p) /\ SlotKept(p) /\ SlotKnown(p))'
    BY <1>2, <2>1, <2>2, <2>3 DEF ServerOK, LinkOK, LifeOK, IntegratorOK, SlotKept, SlotKnown,
       Unbroken, FirstSlot, LastSlot
  <2>. QED BY <1>0, <2>4 DEF ServerOK
<1>. QED BY <1>0, <1>2, <1>3, <1>4, <1>5, <1>6, OneSteps DEF ServersOK, daemonVars, presenceVars

LEMMA JoinsSlot ==
  ASSUME ServersOK, NEW p \in Integrators, JoinSlot(p)
  PROVE  ServersOK'
<1>0. p \in Servers /\ p \notin Builders /\ slot[p] \in Keys /\ lease \in [Keys -> Rows]
      /\ lease[slot[p]].who = Nobody
  BY KeysOf, Typed DEF JoinSlot, Grantable
<1>1. /\ phase[p] = "joining" /\ link[p] \in Connected
      /\ lease' = [lease EXCEPT ![slot[p]] = Held(p, link[p])]
      /\ phase' = [phase EXCEPT ![p] = "granted"]
      /\ UNCHANGED <<daemonVars, link, cancelled, eof, call, claimed, due, renewVars,
                     presenceVars, severed, forgotten>>
  BY DEF JoinSlot, AfterGrant
<1>2. lease' \in [Keys -> Rows] /\ \A k \in Keys : lease'[k] = IF k = slot[p] THEN Held(p, link[p]) ELSE lease[k]
  BY <1>0, <1>1, NewRows
<1>3. ServerTypeOK'
  BY <1>0, <1>1, <1>2 DEF ServersOK, ServerTypeOK, Rows, daemonVars, renewVars, presenceVars
<1>4. RowsLive'
  BY <1>0, <1>1, <1>2, NewRows, KeysOf DEF ServersOK, RowsLive
<1>5. \A q \in Servers : q # p => Aside(q)
  <2>1. lease'[slot[p]].who = p
    BY <1>0, <1>1, <1>2, NewRows
  <2>. QED BY <1>0, <1>1, <1>2, <2>1, KeysOf DEF ServersOK, ServerTypeOK, Aside, renewVars, presenceVars
<1>6. ServerOK(p)'
  <2>1. UNCHANGED <<up, link, cancelled, call, due, size, slot, pres, severed, forgotten>>
        /\ phase'[p] = "granted"
    BY <1>0, <1>1 DEF daemonVars, presenceVars, ServersOK, ServerTypeOK
  <2>2. ServerOK(p)
    BY <1>0 DEF ServersOK
  <2>3. (LinkOK(p) /\ LifeOK(p) /\ IntegratorOK(p))'
    BY <1>0, <1>1, <2>1, <2>2 DEF ServerOK, LinkOK, LifeOK, IntegratorOK,
       Unbroken, FirstSlot, LastSlot
  <2>4. SlotKept(p)'
    BY <1>0, <1>1, <1>2, <2>1, <2>2, NewRows, KeysOf DEF ServerOK, LifeOK, SlotKept, Kept, SlotMargin
  <2>5. SlotKnown(p)'
    BY <1>0, <1>1, <1>2, <2>1, <2>2, NewRows DEF ServerOK, SlotKnown, Unbroken, IntegratorOK
  <2>. QED BY <1>0, <2>3, <2>4, <2>5 DEF ServerOK
<1>. QED BY <1>0, <1>1, <1>3, <1>4, <1>5, <1>6, OneSteps DEF ServersOK, daemonVars, presenceVars

LEMMA SlotIsTaken ==
  ASSUME ServersOK, NEW p \in Integrators, SlotTaken(p)
  PROVE  ServersOK'
<1>0. /\ p \in Servers /\ p \notin Builders /\ slot[p] \in FirstSlot..LastSlot /\ size \in Pools
      /\ FirstSlot \in Nat /\ LastSlot \in Nat /\ FirstSlot..LastSlot \subseteq Slots
  BY KeysOf, SlotsRange DEF ServersOK, ServerTypeOK, ServerOK, IntegratorOK
<1>1. /\ phase[p] = "joining"
      /\ \/ /\ phase' = [phase EXCEPT ![p] = "refused"] /\ link' = [link EXCEPT ![p] = "none"]
            /\ UNCHANGED slot
         \/ /\ slot[p] < LastSlot
            /\ slot' = [slot EXCEPT ![p] = slot[p] + 1] /\ UNCHANGED <<phase, link>>
      /\ UNCHANGED <<daemonVars, lease, cancelled, eof, call, claimed, due, renewVars, size, pres,
                     pidfile, wrote, severed, forgotten>>
  BY DEF SlotTaken, Refuse
<1>2. slot[p] < LastSlot => slot[p] + 1 \in FirstSlot..LastSlot /\ slot[p] + 1 \in Slots
  BY <1>0
<1>3. ServerTypeOK'
  BY <1>0, <1>1, <1>2 DEF ServersOK, ServerTypeOK, daemonVars, renewVars
<1>4. RowsLive'
  BY <1>1 DEF ServersOK, RowsLive
<1>5. \A q \in Servers : q # p => Aside(q)
  BY <1>0, <1>1 DEF ServersOK, ServerTypeOK, Aside, renewVars
<1>6. ServerOK(p)'
  <2>1. /\ UNCHANGED <<up, lease, cancelled, call, due, size, pres, severed, forgotten>>
        /\ phase'[p] \in {"joining", "refused"} /\ slot'[p] \in FirstSlot..LastSlot
        /\ link'[p] \in {link[p], "none"}
    BY <1>0, <1>1, <1>2 DEF daemonVars, ServersOK, ServerTypeOK
  <2>2. ServerOK(p)
    BY <1>0 DEF ServersOK
  <2>3. (LinkOK(p) /\ LifeOK(p) /\ IntegratorOK(p))'
    BY <1>0, <1>1, <2>1, <2>2 DEF ServerOK, LinkOK, LifeOK, IntegratorOK,
       Unbroken, FirstSlot, LastSlot, Connected
  <2>4. SlotKept(p)'
    BY <2>1 DEF SlotKept
  <2>5. SlotKnown(p)'
    BY <1>0, <1>1, <2>1, <2>2 DEF ServerOK, SlotKnown
  <2>. QED BY <1>0, <2>3, <2>4, <2>5 DEF ServerOK
<1>. QED BY <1>0, <1>1, <1>3, <1>4, <1>5, <1>6, OneSteps DEF ServersOK, daemonVars

LEMMA PidfileIsWritten ==
  ASSUME ServersOK, NEW p \in Integrators, WritePidfile(p)
  PROVE  ServersOK'
<1>0. p \in Servers /\ p \notin Builders /\ slot[p] \in Slots
  BY KeysOf, Typed
<1>1. /\ phase[p] = "granted"
      /\ pidfile' = [pidfile EXCEPT ![slot[p]] = p]
      /\ wrote' = [wrote EXCEPT ![p] = slot[p]]
      /\ phase' = [phase EXCEPT ![p] = "serving"]
      /\ pres' = [pres EXCEPT ![p] = "loop"]
      /\ UNCHANGED <<daemonVars, lease, link, cancelled, eof, call, claimed, due, renewVars, size,
                     slot, severed, forgotten>>
  BY DEF WritePidfile
<1>3. ServerTypeOK'
  BY <1>0, <1>1 DEF ServersOK, ServerTypeOK, daemonVars, renewVars
<1>4. RowsLive'
  BY <1>1 DEF ServersOK, RowsLive
<1>5. \A q \in Servers : q # p => Aside(q)
  BY <1>0, <1>1 DEF ServersOK, ServerTypeOK, Aside, renewVars
<1>6. ServerOK(p)'
  <2>1. /\ UNCHANGED <<up, link, lease, cancelled, call, due, size, slot, severed, forgotten>>
        /\ phase'[p] = "serving" /\ pres'[p] = "loop"
    BY <1>0, <1>1 DEF daemonVars, ServersOK, ServerTypeOK
  <2>2. ServerOK(p)
    BY <1>0 DEF ServersOK
  <2>3. (LinkOK(p) /\ LifeOK(p) /\ IntegratorOK(p))'
    BY <1>0, <1>1, <2>1, <2>2 DEF ServerOK, LinkOK, LifeOK, IntegratorOK,
       Unbroken, FirstSlot, LastSlot
  <2>4. SlotKept(p)'
    BY <1>0, <1>1, <2>1, <2>2 DEF ServerOK, SlotKept, Kept, SlotMargin, Unbroken
  <2>5. SlotKnown(p)'
    BY <1>0, <1>1, <2>1, <2>2 DEF ServerOK, SlotKnown, Unbroken
  <2>. QED BY <1>0, <2>3, <2>4, <2>5 DEF ServerOK
<1>. QED BY <1>0, <1>1, <1>3, <1>4, <1>5, <1>6, OneSteps DEF ServersOK, daemonVars

-----------------------------------------------------------------------------
(* The presence.                                                                *)

LEMMA PresenceIsKept ==
  ASSUME ServersOK, NEW p \in Integrators, PresenceTick(p)
  PROVE  ServersOK'
<1>0. p \in Servers /\ p \notin Builders /\ slot[p] \in Keys /\ lease \in [Keys -> Rows]
      /\ ServerOK(p)
  BY KeysOf, Typed
<1>1. /\ pres[p] = "loop" /\ p \notin cancelled /\ due' = due \ {p}
      /\ UNCHANGED <<daemonVars, lifeVars, call, claimed, renewVars, presenceVars, forgotten>>
  BY DEF PresenceTick
<1>2. phase[p] \in {"serving", "ending"}
  BY <1>0, <1>1 DEF ServerOK, IntegratorOK
<1>3. CASE ~up
  <2>1. UNCHANGED <<lease, severed>> /\ link' = [link EXCEPT ![p] = IF link[p] = "none" THEN "none" ELSE "dropped"]
    BY <1>3 DEF PresenceTick
  <2>3. ServerTypeOK'
    BY <1>0, <1>1, <2>1 DEF ServersOK, ServerTypeOK, daemonVars, lifeVars, renewVars, presenceVars
  <2>4. RowsLive'
    BY <2>1 DEF ServersOK, RowsLive
  <2>5. \A q \in Servers : q # p => Aside(q)
    BY <1>0, <1>1, <2>1 DEF ServersOK, ServerTypeOK, Aside, lifeVars, renewVars, presenceVars
  <2>6. ServerOK(p)'
    <3>1. UNCHANGED <<up, lease, phase, cancelled, call, slot, size, pres, severed, forgotten>>
          /\ p \notin due' /\ link'[p] = IF link[p] = "none" THEN "none" ELSE "dropped"
      BY <1>0, <1>1, <2>1 DEF daemonVars, lifeVars, presenceVars, ServersOK, ServerTypeOK
    <3>2. link[p] \notin Connected
      BY <1>0, <1>3 DEF ServerOK, LinkOK
    <3>3. (LinkOK(p) /\ LifeOK(p) /\ IntegratorOK(p))'
      BY <1>0, <1>2, <1>3, <3>1, <3>2 DEF ServerOK, LinkOK, LifeOK, IntegratorOK,
         Unbroken, FirstSlot, LastSlot, Connected
    <3>4. SlotKept(p)'
      BY <1>0, <3>1, <3>2 DEF ServerOK, SlotKept, Unbroken
    <3>5. SlotKnown(p)'
      BY <1>0, <3>1, <3>2 DEF ServerOK, SlotKnown, Unbroken
    <3>. QED BY <1>0, <3>3, <3>4, <3>5 DEF ServerOK
  <2>. QED BY <1>0, <1>1, <2>3, <2>4, <2>5, <2>6, OneSteps DEF ServersOK, daemonVars, presenceVars
<1>4. ASSUME up, NEW as \in Connected, link' = [link EXCEPT ![p] = as],
             Holds(p, slot[p], as) \/ Grantable(slot[p]),
             lease' = AfterGrant(p, slot[p], as), severed' = severed \ {p}
      PROVE  ServersOK'
  <2>1. lease' \in [Keys -> Rows]
        /\ \A k \in Keys : lease'[k] = IF k = slot[p] THEN Held(p, as) ELSE lease[k]
    BY <1>0, <1>4, NewRows DEF AfterGrant
  <2>2. lease[slot[p]].who \in {p, Nobody}
    BY <1>0, <1>4, Typed DEF Holds, Grantable
  <2>2a. Held(p, as).who = p /\ Held(p, as).as = as /\ Held(p, as).left = TTL /\ TTL > 1 /\ TTL \in Nat
        /\ p # Nobody
    BY <1>0, <1>4, NewRows, KeysOf
  <2>3. ServerTypeOK'
    BY <1>0, <1>1, <1>4, <2>1 DEF ServersOK, ServerTypeOK, Rows, daemonVars, lifeVars, renewVars, presenceVars
  <2>4. RowsLive'
    <3> SUFFICES ASSUME NEW k \in Keys, lease'[k].who # Nobody PROVE lease'[k].left > 0
      BY DEF RowsLive
    <3>1. CASE k = slot[p]
      <4>1. lease'[k].left = TTL
        BY <3>1, <2>1, <2>2a
      <4>. QED BY <4>1, KeysOf
    <3>2. CASE k # slot[p]
      BY <3>2, <2>1 DEF ServersOK, RowsLive
    <3>. QED BY <3>1, <3>2
  <2>5. \A q \in Servers : q # p => Aside(q)
    <3> SUFFICES ASSUME NEW q \in Servers, q # p PROVE Aside(q)
      OBVIOUS
    <3>1. \A k \in Keys : lease'[k] = lease[k] \/ (lease[k].who # q /\ lease'[k].who # q)
      BY <1>0, <2>1, <2>2, <2>2a, KeysOf
    <3>. QED BY <1>0, <1>1, <1>4, <3>1 DEF ServersOK, ServerTypeOK, Aside, lifeVars, renewVars, presenceVars
  <2>6. ServerOK(p)'
    <3>1. UNCHANGED <<up, phase, cancelled, call, slot, size, pres, forgotten>>
          /\ p \notin due' /\ link'[p] = as
      BY <1>0, <1>1, <1>4 DEF daemonVars, lifeVars, presenceVars, ServersOK, ServerTypeOK
    <3>2. lease'[slot[p]].who = p /\ lease'[slot[p]].as = as /\ lease'[slot[p]].left = TTL
          /\ \A k \in Keys : k # slot[p] => lease'[k] = lease[k]
      BY <1>0, <2>1, <2>2a
    <3>3. (LinkOK(p) /\ LifeOK(p) /\ IntegratorOK(p))'
      BY <1>0, <1>2, <1>4, <3>1 DEF ServerOK, LinkOK, LifeOK, IntegratorOK,
         Unbroken, FirstSlot, LastSlot
    <3>4. SlotKept(p)'
      <4>1. SlotMargin(p)' = TTL
        BY <3>1 DEF SlotMargin
      <4>2. Kept(p, slot[p], TTL)'
        BY <3>1, <3>2, <2>2a DEF Kept
      <4>. QED BY <1>4, <3>1, <4>1, <4>2 DEF SlotKept
    <3>5. SlotKnown(p)'
      BY <1>0, <1>1, <1>2, <1>4, <3>1, <3>2 DEF ServerOK, SlotKnown
    <3>. QED BY <1>0, <3>3, <3>4, <3>5 DEF ServerOK
  <2>. QED BY <1>0, <1>1, <2>3, <2>4, <2>5, <2>6, OneSteps DEF ServersOK, daemonVars, presenceVars
<1>6. ASSUME up, NEW as \in Connected, link' = [link EXCEPT ![p] = as],
             link[p] \in Connected => as = link[p],
             ~Holds(p, slot[p], as), UNCHANGED <<lease, severed>>
      PROVE  ServersOK'
  <2>3. ServerTypeOK'
    BY <1>0, <1>1, <1>6 DEF ServersOK, ServerTypeOK, daemonVars, lifeVars, renewVars, presenceVars
  <2>4. RowsLive'
    BY <1>6 DEF ServersOK, RowsLive
  <2>5. \A q \in Servers : q # p => Aside(q)
    BY <1>0, <1>1, <1>6 DEF ServersOK, ServerTypeOK, Aside, lifeVars, renewVars, presenceVars
  <2>6. ServerOK(p)'
    <3>1. UNCHANGED <<up, phase, cancelled, call, slot, size, pres, forgotten>>
          /\ p \notin due' /\ link'[p] = as
      BY <1>0, <1>1, <1>6 DEF daemonVars, lifeVars, presenceVars, ServersOK, ServerTypeOK
    <3>2. lease[slot[p]].left \in Nat /\ TTL \in Nat /\ TTL > 1
      BY <1>0, KeysOf, RowForms
    <3>3. (LinkOK(p) /\ LifeOK(p) /\ IntegratorOK(p))'
      BY <1>0, <1>2, <1>6, <3>1 DEF ServerOK, LinkOK, LifeOK, IntegratorOK,
         Unbroken, FirstSlot, LastSlot
    <3>4. SlotKept(p)'
      <4>1. SlotMargin(p) \in Nat /\ SlotMargin(p) # 0
        BY <3>2 DEF SlotMargin
      <4>2. lease[slot[p]].who = p /\ lease[slot[p]].as = as => lease[slot[p]].left = 0
        BY <1>6, <3>2 DEF Holds
      <4>3. ~(link[p] \in Connected /\ Kept(p, slot[p], SlotMargin(p)))
        <5> SUFFICES ASSUME link[p] \in Connected, Kept(p, slot[p], SlotMargin(p)) PROVE FALSE
          OBVIOUS
        <5>1. link[p] = as
          BY <1>6
        <5>2. lease[slot[p]].left = 0 /\ lease[slot[p]].left >= SlotMargin(p)
          BY <5>1, <4>2 DEF Kept
        <5>. QED BY <5>2, <4>1
      <4>4. severed' = severed
        BY <1>6
      <4>. QED BY <1>0, <3>1, <4>3, <4>4 DEF ServerOK, SlotKept, Unbroken
    <3>5. SlotKnown(p)'
      BY <1>0, <1>6, <3>1 DEF ServerOK, SlotKnown, Unbroken
    <3>. QED BY <1>0, <3>3, <3>4, <3>5 DEF ServerOK
  <2>. QED BY <1>0, <1>1, <2>3, <2>4, <2>5, <2>6, OneSteps DEF ServersOK, daemonVars, presenceVars
<1>5. CASE up
  <2>1. PICK as \in (IF link[p] = "none" THEN Identities(p) ELSE {As(p)}) :
            /\ link' = [link EXCEPT ![p] = as]
            /\ IF Holds(p, slot[p], as) \/ Grantable(slot[p])
               THEN lease' = AfterGrant(p, slot[p], as) /\ severed' = severed \ {p}
               ELSE UNCHANGED <<lease, severed>>
    BY <1>5 DEF PresenceTick
  <2>2. as \in Connected /\ (link[p] \in Connected => as = link[p])
    BY <2>1 DEF Identities, As, Connected
  <2>3. CASE Holds(p, slot[p], as) \/ Grantable(slot[p])
    BY <1>4, <1>5, <2>1, <2>2, <2>3
  <2>4. CASE ~(Holds(p, slot[p], as) \/ Grantable(slot[p]))
    BY <1>6, <1>5, <2>1, <2>2, <2>4
  <2>. QED BY <2>3, <2>4
<1>. QED BY <1>3, <1>5

LEMMA RowReleased ==
  ASSUME ServersOK, NEW p \in Servers, NEW k \in Keys, NEW as, lease' = AfterRelease(p, k, as)
  PROVE  /\ lease' \in [Keys -> Rows] /\ RowsLive'
         /\ \A j \in Keys : j # k => lease'[j] = lease[j]
         /\ lease'[k] = lease[k] \/ (lease[k].who = p /\ lease'[k].who = Nobody)
         /\ lease[k].who = p /\ lease[k].as = as => lease'[k].who = Nobody
<1>1. lease \in [Keys -> Rows] /\ Free \in Rows /\ Free.who = Nobody /\ p # Nobody
  BY Typed, KeysOf, RowForms DEF Free, Rows, Connected
<1>2. CASE Holds(p, k, as)
  <2>1. lease' = [lease EXCEPT ![k] = Free] /\ lease[k].who = p
    BY <1>2 DEF AfterRelease, Holds
  <2>2. lease' \in [Keys -> Rows] /\ lease'[k].who = Nobody /\ \A j \in Keys : j # k => lease'[j] = lease[j]
    BY <1>1, <2>1
  <2>3. RowsLive'
    BY <2>2 DEF RowsLive, ServersOK
  <2>. QED BY <1>1, <2>1, <2>2, <2>3
<1>3. CASE ~Holds(p, k, as)
  <2>1. lease' = lease
    BY <1>3 DEF AfterRelease
  <2>2. ~(lease[k].who = p /\ lease[k].as = as)
    BY <1>1, <1>3 DEF Holds, ServersOK, RowsLive
  <2>3. RowsLive'
    BY <2>1 DEF RowsLive, ServersOK
  <2>. QED BY <1>1, <2>1, <2>2, <2>3
<1>. QED BY <1>2, <1>3

LEMMA RowGranted ==
  ASSUME ServersOK, NEW p \in Servers, NEW k \in Keys, NEW as \in Connected,
         lease' = AfterGrant(p, k, as)
  PROVE  /\ lease' \in [Keys -> Rows] /\ RowsLive'
         /\ \A j \in Keys : j # k => lease'[j] = lease[j]
         /\ lease'[k].who = p /\ lease'[k].as = as /\ lease'[k].left = TTL
<1>1. lease \in [Keys -> Rows] /\ lease' = [lease EXCEPT ![k] = Held(p, as)]
  BY Typed DEF AfterGrant
<1>2. Held(p, as) \in Rows /\ Held(p, as).who = p /\ Held(p, as).as = as
      /\ Held(p, as).left = TTL
  BY NewRows
<1>3. lease' \in [Keys -> Rows] /\ lease'[k] = Held(p, as)
      /\ \A j \in Keys : j # k => lease'[j] = lease[j]
  BY <1>1, <1>2
<1>4. lease'[k].left = TTL
  BY <1>2, <1>3
<1>5. RowsLive'
  <2> SUFFICES ASSUME NEW j \in Keys, lease'[j].who # Nobody PROVE lease'[j].left > 0
    BY DEF RowsLive
  <2>1. CASE j = k
    BY <2>1, <1>4, KeysOf
  <2>2. CASE j # k
    BY <2>2, <1>3 DEF ServersOK, RowsLive
  <2>. QED BY <2>1, <2>2
<1>. QED BY <1>2, <1>3, <1>5

LEMMA RowRenewed ==
  ASSUME ServersOK, NEW k \in Keys, lease' = [lease EXCEPT ![k].left = TTL]
  PROVE  /\ lease' \in [Keys -> Rows] /\ RowsLive'
         /\ \A j \in Keys : j # k => lease'[j] = lease[j]
         /\ lease'[k].who = lease[k].who /\ lease'[k].as = lease[k].as /\ lease'[k].left = TTL
<1>1. lease \in [Keys -> Rows]
  BY Typed
<1>2. TTL \in 0..TTL /\ TTL > 0
  BY KeysOf
<1>3. [lease[k] EXCEPT !.left = TTL] \in Rows /\ [lease[k] EXCEPT !.left = TTL].who = lease[k].who
      /\ [lease[k] EXCEPT !.left = TTL].as = lease[k].as /\ [lease[k] EXCEPT !.left = TTL].left = TTL
  BY <1>1, <1>2 DEF Rows
<1>4. lease' \in [Keys -> Rows] /\ lease'[k] = [lease[k] EXCEPT !.left = TTL]
      /\ \A j \in Keys : j # k => lease'[j] = lease[j]
  BY <1>1, <1>3
<1>5. lease'[k].left = TTL
  BY <1>3, <1>4
<1>6. RowsLive'
  <2> SUFFICES ASSUME NEW j \in Keys, lease'[j].who # Nobody PROVE lease'[j].left > 0
    BY DEF RowsLive
  <2>1. CASE j = k
    BY <2>1, <1>2, <1>5
  <2>2. CASE j # k
    BY <2>2, <1>4 DEF ServersOK, RowsLive
  <2>. QED BY <2>1, <2>2
<1>. QED BY <1>3, <1>4, <1>6

LEMMA SlotIsReleased ==
  ASSUME ServersOK, NEW p \in Integrators, ReleaseSlot(p)
  PROVE  ServersOK'
<1>0. p \in Servers /\ p \notin Builders /\ slot[p] \in Keys /\ lease \in [Keys -> Rows]
      /\ ServerOK(p)
  BY KeysOf, Typed
<1>1. /\ pres[p] = "loop" /\ p \in cancelled /\ pres' = [pres EXCEPT ![p] = "released"]
      /\ UNCHANGED <<daemonVars, lifeVars, call, claimed, due, renewVars, size, slot, pidfile, wrote,
                     severed, forgotten>>
  BY DEF ReleaseSlot
<1>2. phase[p] \in {"serving", "ending"}
  BY <1>0, <1>1 DEF ServerOK, IntegratorOK
<1>3. ASSUME NEW l \in Connected \cup {"none", "dropped"}, link' = [link EXCEPT ![p] = l],
             l \in Connected => up,
             Unbroken(p) => l \in Connected \cup {"none"},
             lease' \in [Keys -> Rows], RowsLive',
             \A j \in Keys : lease'[j] = lease[j] \/ (lease[j].who = p /\ lease'[j].who = Nobody),
             Unbroken(p) /\ link[p] \in Connected /\ lease[slot[p]].who = p
               /\ lease[slot[p]].as = link[p] => lease'[slot[p]].who = Nobody
      PROVE  ServersOK'
  <2>3. ServerTypeOK'
    BY <1>0, <1>1, <1>3 DEF ServersOK, ServerTypeOK, Rows, daemonVars, lifeVars, renewVars
  <2>5. \A q \in Servers : q # p => Aside(q)
    <3> SUFFICES ASSUME NEW q \in Servers, q # p PROVE Aside(q)
      OBVIOUS
    <3>1. \A k \in Keys : lease'[k] = lease[k] \/ (lease[k].who # q /\ lease'[k].who # q)
      BY <1>3, KeysOf
    <3>. QED BY <1>0, <1>1, <1>3, <3>1 DEF ServersOK, ServerTypeOK, Aside, lifeVars, renewVars
  <2>6. ServerOK(p)'
    <3>1. UNCHANGED <<up, phase, cancelled, call, slot, size, due, severed, forgotten>>
          /\ link'[p] = l /\ pres'[p] = "released"
      BY <1>0, <1>1, <1>3 DEF daemonVars, lifeVars, ServersOK, ServerTypeOK
    <3>3. (LinkOK(p) /\ LifeOK(p) /\ IntegratorOK(p))'
      BY <1>0, <1>2, <1>3, <3>1 DEF ServerOK, LinkOK, LifeOK, IntegratorOK,
         Unbroken, FirstSlot, LastSlot
    <3>4. SlotKept(p)'
      BY <1>1, <3>1 DEF SlotKept
    <3>5. SlotKnown(p)'
      <4> SUFFICES ASSUME NEW k \in Keys, lease'[k].who = p, <<p, k>> \notin forgotten
                   PROVE  k = slot[p] /\ ~Unbroken(p)
        BY <1>2, <3>1 DEF SlotKnown, Unbroken
      <4>1. lease'[k] = lease[k] /\ lease[k].who = p
        BY <1>0, <1>3, KeysOf
      <4>2. k = slot[p] /\ (Unbroken(p) => link[p] \in Connected /\ lease[k].as = link[p])
        BY <1>0, <1>2, <4>1 DEF ServerOK, SlotKnown
      <4>. QED BY <1>0, <1>3, <4>1, <4>2, KeysOf
    <3>. QED BY <1>0, <3>3, <3>4, <3>5 DEF ServerOK
  <2>. QED BY <1>0, <1>1, <1>3, <2>3, <2>5, <2>6, OneSteps DEF ServersOK, daemonVars
<1>4. CASE link[p] = "none" /\ up
  <2>1. PICK as \in Connected : link' = [link EXCEPT ![p] = as] /\ lease' = AfterRelease(p, slot[p], as)
    BY <1>4 DEF ReleaseSlot, Reaches, Identities, Connected, As
  <2>. QED BY <1>0, <1>3, <1>4, <2>1, RowReleased DEF Connected
<1>5. CASE Reaches(p)
  <2>1. link' = [link EXCEPT ![p] = As(p)] /\ lease' = AfterRelease(p, slot[p], As(p))
    BY <1>5 DEF ReleaseSlot, Reaches, Use, Connected
  <2>2. As(p) \in Connected /\ up /\ (link[p] \in Connected => As(p) = link[p])
    <3>1. As(p) \in Connected /\ (link[p] \in Connected => As(p) = link[p])
      BY DEF As, Connected
    <3>2. up
      BY <1>0, <1>5 DEF Reaches, ServerOK, LinkOK
    <3>. QED BY <3>1, <3>2
  <2>3. /\ lease' \in [Keys -> Rows] /\ RowsLive'
        /\ \A j \in Keys : lease'[j] = lease[j] \/ (lease[j].who = p /\ lease'[j].who = Nobody)
        /\ lease[slot[p]].who = p /\ lease[slot[p]].as = As(p) => lease'[slot[p]].who = Nobody
    BY <1>0, <2>1, RowReleased
  <2>4. As(p) \in Connected \cup {"none"}
    BY <2>2
  <2>. QED BY <1>3, <2>1, <2>2, <2>3, <2>4
<1>6. CASE ~Reaches(p) /\ ~(link[p] = "none" /\ up)
  <2>1. lease' = lease /\ link' = [link EXCEPT ![p] = IF link[p] = "none" THEN "none" ELSE "dropped"]
    BY <1>6 DEF ReleaseSlot
  <2>2. link[p] \notin Connected
    BY <1>6 DEF Reaches
  <2>3. Unbroken(p) => link[p] = "none"
    BY <1>0, <2>2 DEF ServerOK, LinkOK
  <2>4. RowsLive'
    BY <2>1 DEF ServersOK, RowsLive
  <2>. QED BY <1>0, <1>3, <2>1, <2>2, <2>3, <2>4 DEF Connected
<1>. QED BY <1>4, <1>5, <1>6

LEMMA PidfileIsRemoved ==
  ASSUME ServersOK, NEW p \in Integrators, RemovePidfile(p)
  PROVE  ServersOK'
<1>0. p \in Servers /\ p \notin Builders /\ ServerOK(p)
  BY KeysOf, Typed
<1>1. /\ pres[p] = "released"
      /\ pres' = [pres EXCEPT ![p] = "done"]
      /\ pidfile' = pidfile \/ \E s : pidfile' = [pidfile EXCEPT ![s] = Nobody]
      /\ wrote' = [wrote EXCEPT ![p] = Nobody]
      /\ UNCHANGED <<daemonVars, lease, link, lifeVars, call, claimed, due, renewVars, size,
                     slot, severed, forgotten>>
  BY DEF RemovePidfile
<1>2. pidfile' \in [Slots -> Integrators \cup {Nobody}]
  BY <1>1 DEF ServersOK, ServerTypeOK
<1>3. ServerTypeOK'
  BY <1>0, <1>1, <1>2 DEF ServersOK, ServerTypeOK, daemonVars, lifeVars, renewVars
<1>4. RowsLive'
  BY <1>1 DEF ServersOK, RowsLive
<1>5. \A q \in Servers : q # p => Aside(q)
  BY <1>0, <1>1 DEF ServersOK, ServerTypeOK, Aside, lifeVars, renewVars
<1>6. ServerOK(p)'
  <2>1. /\ UNCHANGED <<up, link, lease, phase, cancelled, call, due, size, slot, severed, forgotten>>
        /\ pres'[p] = "done"
    BY <1>0, <1>1 DEF daemonVars, lifeVars, ServersOK, ServerTypeOK
  <2>3. (LinkOK(p) /\ LifeOK(p) /\ IntegratorOK(p))'
    BY <1>0, <1>1, <2>1 DEF ServerOK, LinkOK, LifeOK, IntegratorOK,
       Unbroken, FirstSlot, LastSlot
  <2>4. SlotKept(p)'
    BY <1>0, <1>1, <2>1 DEF ServerOK, SlotKept, Kept, SlotMargin, Unbroken
  <2>5. SlotKnown(p)'
    BY <1>0, <1>1, <2>1 DEF ServerOK, SlotKnown, Unbroken
  <2>. QED BY <1>0, <2>3, <2>4, <2>5 DEF ServerOK
<1>. QED BY <1>0, <1>1, <1>3, <1>4, <1>5, <1>6, OneSteps DEF ServersOK, daemonVars

-----------------------------------------------------------------------------
(* Tool calls.                                                                  *)

\* Calls at which nothing hangs.
Plain(c) == c \in {Idle, Review} \/ (c.op = "claim" /\ c.at = "try")
            \/ (c.op = "release" /\ c.at = "untrack")

LEMMA PlainCall ==
  ASSUME NEW p, Plain(call[p])
  PROVE  ~InFlight(p) /\ \A k : ~Granted(p, k) /\ ~Releasing(p, k)
BY DEF Plain, InFlight, Granted, Releasing, Idle, Review

LEMMA PlainCallThen ==
  ASSUME NEW p, Plain(call'[p])
  PROVE  ~InFlight(p)' /\ \A k : ~Granted(p, k)' /\ ~Releasing(p, k)'
BY DEF Plain, InFlight, Granted, Releasing, Idle, Review

LEMMA CallOnly ==
  ASSUME ServersOK, NEW p \in Servers, NEW c \in Calls, call' = [call EXCEPT ![p] = c], Plain(c),
         phase[p] = "serving", Plain(call[p]) \/ link[p] = "none",
         p \in Integrators => c \in {Idle, Review}, p \in Builders => c # Review,
         UNCHANGED <<daemonVars, lease, link, lifeVars, claimed, due, renewVars, presenceVars,
                     severed, forgotten>>
  PROVE  ServersOK'
<1>1. call \in [Servers -> Calls] /\ call' \in [Servers -> Calls] /\ ServerOK(p) /\ call'[p] = c
  BY Typed
<1>2. ServerTypeOK'
  BY <1>1 DEF ServersOK, ServerTypeOK, Calls, daemonVars, lifeVars, renewVars, presenceVars
<1>3. RowsLive'
  BY DEF ServersOK, RowsLive
<1>4. \A q \in Servers : q # p => Aside(q)
  BY <1>1 DEF Aside, lifeVars, renewVars, presenceVars
<1>5. ServerOK(p)'
  <2>1. UNCHANGED <<up, lease, link, phase, cancelled, claimed, due, pass, stale, slot, pres, size,
                    severed, forgotten>>
    BY DEF daemonVars, lifeVars, renewVars, presenceVars
  <2>2. (LinkOK(p) /\ LifeOK(p))'
    BY <1>1, <2>1 DEF ServerOK, LinkOK, LifeOK, Unbroken
  <2>3. ASSUME p \in Integrators PROVE (IntegratorOK(p) /\ SlotKept(p) /\ SlotKnown(p))'
    BY <1>1, <2>1, <2>3 DEF ServerOK, IntegratorOK, SlotKept, SlotKnown, Unbroken, Kept, SlotMargin,
       FirstSlot, LastSlot
  <2>4. ASSUME p \in Builders PROVE (BuilderOK(p) /\ ClaimsKept(p) /\ ClaimsKnown(p))'
    <3>1. ~InFlight(p)' /\ \A k : ~Granted(p, k)' /\ ~Releasing(p, k)'
      BY <1>1, PlainCallThen
    <3>2. BuilderOK(p)'
      BY <1>1, <2>1, <2>4, <3>1 DEF ServerOK, BuilderOK, Unbroken
    <3>3. ClaimsKept(p)'
      BY <1>1, <2>1, <2>4, <3>1 DEF ServerOK, ClaimsKept, Unbroken, Kept, ClaimMargin
    <3>4. ClaimsKnown(p)'
      <4>1. link[p] # "none" => \A k : ~Granted(p, k) /\ ~Releasing(p, k)
        BY PlainCall
      <4>2. "none" \notin Connected
        BY DEF Connected
      <4>. QED BY <1>1, <2>1, <2>4, <3>1, <4>1, <4>2 DEF ServerOK, ClaimsKnown, Unbroken
    <3>. QED BY <3>2, <3>3, <3>4
  <2>. QED BY <2>2, <2>3, <2>4 DEF ServerOK
<1>. QED BY <1>2, <1>3, <1>4, <1>5, OneSteps DEF ServersOK, daemonVars, presenceVars

LEMMA CallBegins ==
  ASSUME ServersOK, NEW p \in Servers, Begin(p)
  PROVE  ServersOK'
<1>1. /\ phase[p] = "serving" /\ Plain(call[p])
      /\ UNCHANGED <<daemonVars, lease, link, lifeVars, claimed, due, renewVars, presenceVars,
                     severed, forgotten>>
  BY DEF Begin, Plain
<1>2. CASE p \in Integrators
  <2>1. call' = [call EXCEPT ![p] = Review] /\ Review \in Calls /\ Plain(Review)
    BY <1>2 DEF Begin, Calls, Plain
  <2>. QED BY <1>1, <1>2, <2>1, CallOnly, KeysOf
<1>3. CASE p \in Builders
  <2>1. PICK f \in Paths :
          \/ call' = [call EXCEPT ![p] = [op |-> "claim", path |-> f, at |-> "try", again |-> FALSE]]
          \/ call' = [call EXCEPT ![p] = [op |-> "release", path |-> f, at |-> "untrack",
                                          again |-> FALSE]]
    BY <1>3, KeysOf DEF Begin
  <2> DEFINE c == [op |-> "claim", path |-> f, at |-> "try", again |-> FALSE]
             r == [op |-> "release", path |-> f, at |-> "untrack", again |-> FALSE]
  <2>2. c \in ToolCall /\ r \in ToolCall
    BY DEF ToolCall
  <2>3. c # Review /\ r # Review /\ Plain(c) /\ Plain(r)
    BY DEF Plain, Review
  <2>4. c \in Calls /\ r \in Calls
    BY <2>2 DEF Calls
  <2> HIDE DEF c, r
  <2>. QED BY <1>1, <1>3, <2>1, <2>3, <2>4, CallOnly, KeysOf DEF c, r
<1>. QED BY <1>2, <1>3, KeysOf

LEMMA ReviewEnds ==
  ASSUME ServersOK, NEW p \in Servers, EndReview(p)
  PROVE  ServersOK'
<1>1. call[p] = Review /\ Review # Idle /\ ServerOK(p)
  BY Typed DEF EndReview, Review, Idle
<1>2. phase[p] = "serving" /\ Plain(call[p]) /\ Plain(Idle) /\ Idle \in Calls /\ Idle # Review
  BY <1>1 DEF ServerOK, LifeOK, Plain, Calls
<1>3. call' = [call EXCEPT ![p] = Idle]
      /\ UNCHANGED <<daemonVars, lease, link, lifeVars, claimed, due, renewVars, presenceVars,
                     severed, forgotten>>
  BY DEF EndReview
<1>. QED BY <1>2, <1>3, CallOnly

LEMMA TryingBuilds ==
  ASSUME ServersOK, NEW p \in Servers, call[p] # Idle, call[p] # Review
  PROVE  /\ p \in Builders /\ p \notin Integrators /\ ServerOK(p) /\ phase[p] = "serving"
         /\ call[p].op \in {"claim", "release"}
<1>1. ServerOK(p) /\ call[p] \in Calls
  BY Typed
<1>. QED BY <1>1, KeysOf, CallForms DEF ServerOK, LifeOK, IntegratorOK

\* A builder that dials again, its calls and claims as they are.
LEMMA BuilderDials ==
  ASSUME ServersOK, NEW p \in Builders, NEW c \in Calls, call' = [call EXCEPT ![p] = c], c # Review,
         Plain(c) \/ call' = call, phase[p] = "serving",
         NEW l \in Connected \cup {"dropped"}, link' = [link EXCEPT ![p] = l],
         l \in Connected => up,
         ~Unbroken(p) \/ (link[p] = "none" /\ l \in Connected),
         stale' \in {stale, stale \cup {p}}, link[p] = "none" => stale' = stale,
         UNCHANGED <<daemonVars, lease, lifeVars, claimed, due, pass, drop, presenceVars,
                     severed, forgotten>>
  PROVE  ServersOK'
<1>1. /\ call \in [Servers -> Calls] /\ call' \in [Servers -> Calls] /\ p \in Servers /\ ServerOK(p)
      /\ call'[p] = c /\ p \notin Integrators
  BY Typed, KeysOf
<1>2. ServerTypeOK'
  BY <1>1 DEF ServersOK, ServerTypeOK, Calls, daemonVars, lifeVars, presenceVars
<1>3. RowsLive'
  BY DEF ServersOK, RowsLive
<1>4. \A q \in Servers : q # p => Aside(q)
  BY <1>1 DEF ServersOK, ServerTypeOK, Aside, lifeVars, presenceVars
<1>5. ServerOK(p)'
  <2>1. /\ UNCHANGED <<up, lease, phase, cancelled, claimed, due, pass, size, severed, forgotten>>
        /\ link'[p] = l /\ l # "none"
    BY <1>1 DEF daemonVars, lifeVars, presenceVars, ServersOK, ServerTypeOK, Connected
  <2>2. (LinkOK(p) /\ LifeOK(p))'
    BY <1>1, <2>1 DEF ServerOK, LinkOK, LifeOK, Unbroken
  <2>3. \A k \in Keys : Releasing(p, k)' => Releasing(p, k) /\ call' = call
    BY <1>1, PlainCallThen DEF Releasing
  <2>4. link[p] = "none" => claimed[p] = {} /\ ~InFlight(p)
    BY <1>1 DEF ServerOK, BuilderOK
  <2>5. BuilderOK(p)'
    BY <1>1, <2>1, <2>3 DEF ServerOK, BuilderOK, Unbroken
  <2>6. CASE ~Unbroken(p)
    BY <1>1, <2>1, <2>2, <2>5, <2>6 DEF ServerOK, ClaimsKept, ClaimsKnown, Unbroken
  <2>7. CASE link[p] = "none"
    <3>1. \A k : ~Granted(p, k)'
      BY <1>1, <2>4, <2>7, PlainCallThen DEF InFlight, Granted
    <3>2. link[p] \notin Connected
      BY <2>7 DEF Connected
    <3>3. ClaimsKept(p)'
      BY <2>1, <2>4, <2>7, <3>1 DEF ClaimsKept
    <3>4. ClaimsKnown(p)'
      BY <1>1, <2>1, <3>2 DEF ServerOK, ClaimsKnown, Unbroken
    <3>. QED BY <1>1, <2>2, <2>5, <3>3, <3>4 DEF ServerOK
  <2>. QED BY <2>6, <2>7
<1>. QED BY <1>1, <1>2, <1>3, <1>4, <1>5, OneSteps DEF ServersOK, daemonVars, presenceVars

LEMMA FirstCallDials ==
  ASSUME ServersOK, NEW p \in Servers, FirstBackend(p)
  PROVE  ServersOK'
<1>1. Trying(p) /\ link[p] = "none"
      /\ UNCHANGED <<daemonVars, lease, lifeVars, claimed, due, pass, drop, presenceVars, severed,
                     forgotten>>
  BY DEF FirstBackend
<1>2. call[p] # Idle /\ call[p] # Review
  BY <1>1 DEF Trying, Idle, Review
<1>3. p \in Builders /\ p \notin Integrators /\ ServerOK(p) /\ phase[p] = "serving" /\ call[p] \in Calls
  BY <1>2, TryingBuilds, Typed
<1>4. CASE Redial(p) /\ UNCHANGED call
  <2>1. PICK as \in Connected : link' = [link EXCEPT ![p] = as]
    BY <1>4 DEF Redial, Identities, Connected
  <2>2. pass[p] = {}
    BY <1>1, <1>3 DEF ServerOK, BuilderOK
  <2>3. stale' = stale /\ up
    BY <1>4, <2>2 DEF Redial
  <2>4. call' = [call EXCEPT ![p] = call[p]]
    BY <1>4, Typed
  <2>. QED BY <1>1, <1>2, <1>3, <1>4, <2>1, <2>3, <2>4, BuilderDials
<1>5. CASE call' = [call EXCEPT ![p] = Idle] /\ UNCHANGED <<link, stale>>
  <2>1. Idle \in Calls /\ Plain(Idle) /\ Idle # Review
    BY DEF Calls, Plain, Idle, Review
  <2>2. UNCHANGED renewVars
    BY <1>1, <1>5 DEF renewVars
  <2>. QED BY <1>1, <1>3, <1>5, <2>1, <2>2, CallOnly
<1>. QED BY <1>4, <1>5 DEF FirstBackend

LEMMA CallIsRetried ==
  ASSUME ServersOK, NEW p \in Servers, Retry(p)
  PROVE  ServersOK'
<1>1. UNCHANGED <<daemonVars, lease, lifeVars, claimed, due, pass, drop, presenceVars, severed,
                  forgotten>>
      /\ call[p] # Idle /\ call[p] # Review
  BY DEF Retry, Trying, InFlight, Idle, Review
<1>3. /\ p \in Builders /\ p \notin Integrators /\ ServerOK(p) /\ phase[p] = "serving"
      /\ call[p] \in Calls /\ call[p].op \in {"claim", "release"}
  BY <1>1, TryingBuilds, Typed
<1>4. link[p] # "none" /\ link[p] \notin Connected
  BY <1>3 DEF Retry, Reaches, ServerOK, BuilderOK
<1>5. ~Unbroken(p)
  BY <1>3, <1>4 DEF ServerOK, LinkOK
<1>6. CASE Redial(p) /\ call' = [call EXCEPT ![p].again = TRUE,
                                ![p].at = IF call[p].op = "claim" THEN "try" ELSE "untrack"]
  <2> DEFINE a == IF call[p].op = "claim" THEN "try" ELSE "untrack"
             c == [call[p] EXCEPT !.again = TRUE, !.at = a]
  <2>1. PICK as \in Connected : link' = [link EXCEPT ![p] = as]
    BY <1>6 DEF Redial, Identities, Connected
  <2>2. stale' \in {stale, stale \cup {p}} /\ up
    BY <1>6 DEF Redial
  <2>3. c \in Calls /\ c.op = call[p].op /\ c.at = a
    <3>1. \/ call[p].op = "claim" /\ a \in {"try", "granted", "denied"}
          \/ call[p].op = "release" /\ a \in {"untrack", "try"}
      BY <1>3
    <3>2. call[p] \in Calls
      BY <1>3
    <3> HIDE DEF a
    <3>. QED BY <3>1, <3>2, CallMoves
  <2>4. Plain(c) /\ c # Review
    BY <1>3, <2>3 DEF Plain, Review
  <2>5. call' = [call EXCEPT ![p] = c]
    BY <1>6, Typed
  <2> HIDE DEF c
  <2>. QED BY <1>1, <1>3, <1>4, <1>5, <2>1, <2>2, <2>3, <2>4, <2>5, BuilderDials
<1>7. CASE link' = [link EXCEPT ![p] = "dropped"] /\ call' = [call EXCEPT ![p] = Idle]
           /\ UNCHANGED stale
  <2>1. Idle \in Calls /\ Plain(Idle) /\ Idle # Review
    BY DEF Calls, Plain, Idle, Review
  <2>2. "dropped" \notin Connected
    BY DEF Connected
  <2>. QED BY <1>1, <1>3, <1>5, <1>7, <2>1, <2>2, BuilderDials
<1>. QED BY <1>6, <1>7 DEF Retry

LEMMA PathIsClaimed ==
  ASSUME ServersOK, NEW p \in Servers, Claim(p)
  PROVE  ServersOK'
<1>1. /\ call[p].op = "claim" /\ call[p].at = "try" /\ Reaches(p) /\ link' = [link EXCEPT ![p] = As(p)]
      /\ UNCHANGED <<daemonVars, lifeVars, claimed, due, renewVars, presenceVars, severed>>
  BY DEF Claim, Use
<1>2. call[p] # Idle /\ call[p] # Review
  BY <1>1 DEF Idle, Review
<1>3. /\ p \in Builders /\ p \notin Integrators /\ ServerOK(p) /\ phase[p] = "serving"
      /\ call[p] \in Calls /\ call \in [Servers -> Calls] /\ lease \in [Keys -> Rows]
      /\ call[p].path \in Paths /\ call[p].path \in Keys
  BY <1>1, <1>2, TryingBuilds, Typed, CallForms, KeysOf
<1>4. As(p) \in Connected /\ (link[p] \in Connected => As(p) = link[p])
  BY DEF As, Connected
<1>5. Unbroken(p) => As(p) = link[p] /\ link[p] \in Connected
  BY <1>1, <1>3, <1>4 DEF Reaches, ServerOK, LinkOK, Connected
<1>6. up
  BY <1>1, <1>3 DEF Reaches, ServerOK, LinkOK
<1>7. Plain(call[p])
  BY <1>1 DEF Plain
<1> DEFINE f == call[p].path
<1>8. ASSUME NEW a \in {"granted", "denied"}, call' = [call EXCEPT ![p].at = a],
             lease' \in [Keys -> Rows], RowsLive', forgotten' \subseteq Servers \X Keys,
             lease[f].who # p => a = "denied" \/ lease[f].who = Nobody,
             a = "denied" => lease' = lease /\ forgotten' = forgotten,
             a = "granted" => lease[f].who = Nobody /\ lease'[f].who = p /\ lease'[f].as = As(p)
                              /\ lease'[f].left = TTL,
             \A k \in Keys : k # f => lease'[k] = lease[k],
             \A q \in Servers, k \in Keys : (q # p \/ k # f) => (<<q, k>> \in forgotten' <=> <<q, k>> \in forgotten)
      PROVE  ServersOK'
  <2>1. call' \in [Servers -> Calls] /\ call'[p].op = "claim" /\ call'[p].at = a /\ call'[p].path = f
        /\ \A q \in Servers : q # p => call'[q] = call[q]
    <3>1. call' = [call EXCEPT ![p] = [call[p] EXCEPT !.at = a]]
      BY <1>3, <1>8
    <3>2. [call[p] EXCEPT !.at = a] \in Calls /\ [call[p] EXCEPT !.at = a].op = "claim"
          /\ [call[p] EXCEPT !.at = a].at = a /\ [call[p] EXCEPT !.at = a].path = f
      BY <1>1, <1>3, CallMoves
    <3>. QED BY <3>1, <3>2, <1>3
  <2>2. ServerTypeOK'
    BY <1>1, <1>3, <1>4, <1>8, <2>1 DEF ServersOK, ServerTypeOK, Calls, Rows, daemonVars, lifeVars, renewVars, presenceVars
  <2>3. \A q \in Servers : q # p => Aside(q)
    <3> SUFFICES ASSUME NEW q \in Servers, q # p PROVE Aside(q)
      OBVIOUS
    <3>1. \A k \in Keys : lease'[k] = lease[k] \/ (lease[k].who # q /\ lease'[k].who # q)
      BY <1>3, <1>8, KeysOf
    <3>2. \A k \in Keys : <<q, k>> \in forgotten' <=> <<q, k>> \in forgotten
      BY <1>8
    <3>3. link'[q] = link[q] /\ call'[q] = call[q]
      BY <1>1, <1>3, <2>1 DEF ServersOK, ServerTypeOK
    <3>. QED BY <1>1, <3>1, <3>2, <3>3 DEF Aside, lifeVars, renewVars, presenceVars
  <2>4. ServerOK(p)'
    <3>1. /\ UNCHANGED <<up, phase, cancelled, claimed, due, pass, stale, size, severed>>
          /\ link'[p] = As(p) /\ As(p) # "none"
      BY <1>1, <1>3, <1>4 DEF daemonVars, lifeVars, presenceVars, renewVars, ServersOK, ServerTypeOK, Connected
    <3>2. (LinkOK(p) /\ LifeOK(p))'
      BY <1>3, <1>4, <1>6, <3>1 DEF ServerOK, LinkOK, LifeOK, Unbroken
    <3>3. \A k : ~Releasing(p, k)'
      BY <2>1 DEF Releasing
    <3>4. BuilderOK(p)'
      BY <1>3, <2>1, <3>1, <3>3 DEF ServerOK, BuilderOK, Unbroken, Review
    <3>5. \A k : Granted(p, k)' <=> a = "granted" /\ k = f
      BY <2>1 DEF Granted
    <3>6. ClaimsKept(p)'
      <4> SUFFICES ASSUME Unbroken(p), p \notin cancelled
                   PROVE  /\ \A k \in claimed[p] : Kept(p, k, ClaimMargin(p, k))'
                          /\ \A k \in Keys : Granted(p, k)' => Kept(p, k, TTL)'
                          /\ claimed[p] # {} => As(p) \in Connected
        BY <3>1 DEF ClaimsKept, Unbroken
      <4>1. ASSUME a = "granted" PROVE lease'[f].who = p /\ lease'[f].as = link'[p] /\ lease'[f].left >= TTL
        BY <1>8, <3>1, <4>1, KeysOf
      <4>2. ASSUME NEW k \in claimed[p] PROVE Kept(p, k, ClaimMargin(p, k))'
        <5>1. k \in Keys /\ Kept(p, k, ClaimMargin(p, k)) /\ ClaimMargin(p, k)' = ClaimMargin(p, k)
          BY <1>3, <3>1, KeysOf DEF ServerOK, ClaimsKept, Unbroken, ServersOK, ServerTypeOK, ClaimMargin
        <5>2. lease'[k] = lease[k]
          BY <1>8, <5>1, KeysOf DEF Kept
        <5>. QED BY <1>5, <3>1, <5>1, <5>2 DEF Kept
      <4>3. ASSUME NEW k \in Keys, Granted(p, k)' PROVE Kept(p, k, TTL)'
        <5>1. a = "granted" /\ k = f
          BY <3>5, <4>3
        <5>. QED BY <5>1, <4>1 DEF Kept
      <4>. QED BY <1>4, <4>2, <4>3
    <3>7. ClaimsKnown(p)'
      <4> SUFFICES ASSUME Unbroken(p), NEW k \in Keys, lease'[k].who = p, <<p, k>> \notin forgotten'
                   PROVE  /\ phase[p] \in {"serving", "ending"}
                          /\ As(p) \in Connected /\ lease'[k].as = As(p)
                          /\ k \in claimed[p] \/ Granted(p, k)'
        BY <3>1 DEF ClaimsKnown, Unbroken
      <4>1. CASE k = f /\ a = "granted"
        BY <1>3, <1>4, <1>8, <3>5, <4>1
      <4>2. CASE ~(k = f /\ a = "granted")
        <5>1. lease'[k] = lease[k] /\ <<p, k>> \notin forgotten
          BY <1>8, <4>2
        <5>2. ~Granted(p, k) /\ ~Releasing(p, k)
          BY <1>7, PlainCall
        <5>. QED BY <1>3, <1>5, <5>1, <5>2 DEF ServerOK, ClaimsKnown, Unbroken
      <4>. QED BY <4>1, <4>2
    <3>. QED BY <1>3, <3>2, <3>4, <3>6, <3>7 DEF ServerOK
  <2>. QED BY <1>1, <1>8, <2>2, <2>3, <2>4, OneSteps DEF ServersOK, daemonVars, presenceVars
<1>9. CASE Grantable(f)
  <2>1. lease' = AfterGrant(p, f, As(p)) /\ call' = [call EXCEPT ![p].at = "granted"]
        /\ forgotten' = forgotten \ {<<p, f>>}
    BY <1>9 DEF Claim
  <2>2. lease[f].who = Nobody /\ p # Nobody
    BY <1>3, <1>9, Typed, KeysOf DEF Grantable
  <2>3. /\ lease' \in [Keys -> Rows] /\ RowsLive'
        /\ \A j \in Keys : j # f => lease'[j] = lease[j]
        /\ lease'[f].who = p /\ lease'[f].as = As(p) /\ lease'[f].left = TTL
    BY <1>3, <1>4, <2>1, RowGranted
  <2>4. forgotten' \subseteq Servers \X Keys
    BY <2>1 DEF ServersOK, ServerTypeOK
  <2>5. \A q \in Servers, k \in Keys : (q # p \/ k # f) => (<<q, k>> \in forgotten' <=> <<q, k>> \in forgotten)
    BY <2>1
  <2>. QED BY <1>8, <2>1, <2>2, <2>3, <2>4, <2>5
<1>10. CASE ~Grantable(f)
  <2>1. call' = [call EXCEPT ![p].at = "denied"] /\ UNCHANGED <<lease, forgotten>>
    BY <1>10 DEF Claim
  <2>2. RowsLive' /\ forgotten' \subseteq Servers \X Keys
    BY <2>1 DEF ServersOK, RowsLive, ServerTypeOK
  <2>. QED BY <1>3, <1>8, <2>1, <2>2
<1>. QED BY <1>9, <1>10

LEMMA ClaimIsAnswered ==
  ASSUME ServersOK, NEW p \in Servers, Answer(p)
  PROVE  ServersOK'
<1>1. /\ InFlight(p) /\ link[p] \in Connected /\ call' = [call EXCEPT ![p] = Idle]
      /\ claimed' = IF call[p].at = "granted" THEN [claimed EXCEPT ![p] = claimed[p] \cup {call[p].path}]
                                              ELSE claimed
      /\ UNCHANGED <<daemonVars, lease, link, lifeVars, due, renewVars, presenceVars, severed,
                     forgotten>>
  BY DEF Answer
<1>2. call[p] # Idle /\ call[p] # Review /\ call[p].op = "claim"
  BY <1>1 DEF InFlight, Idle, Review
<1>3. /\ p \in Builders /\ p \notin Integrators /\ ServerOK(p) /\ phase[p] = "serving"
      /\ call[p] \in Calls /\ call \in [Servers -> Calls] /\ lease \in [Keys -> Rows]
      /\ call[p].path \in Paths /\ call[p].path \in Keys
  BY <1>2, TryingBuilds, Typed, CallForms, KeysOf
<1>4. Idle \in Calls /\ Plain(Idle) /\ Idle # Review
  BY DEF Calls, Plain, Idle, Review
<1>5. claimed' \in [Builders -> SUBSET Paths] /\ call' \in [Servers -> Calls] /\ call'[p] = Idle
  BY <1>1, <1>3, <1>4 DEF ServersOK, ServerTypeOK
<1>6. ServerTypeOK'
  BY <1>1, <1>5 DEF ServersOK, ServerTypeOK, Calls, daemonVars, lifeVars, renewVars, presenceVars
<1>7. RowsLive'
  BY <1>1 DEF ServersOK, RowsLive
<1>8. \A q \in Servers : q # p => Aside(q)
  BY <1>1, <1>3 DEF ServersOK, ServerTypeOK, Aside, lifeVars, renewVars, presenceVars
<1>9. ServerOK(p)'
  <2>1. UNCHANGED <<up, link, lease, phase, cancelled, due, pass, stale, size, severed, forgotten>>
    BY <1>1 DEF daemonVars, lifeVars, presenceVars, renewVars
  <2>2. (LinkOK(p) /\ LifeOK(p))'
    BY <1>3, <1>5, <2>1 DEF ServerOK, LinkOK, LifeOK, Unbroken
  <2>3. ~InFlight(p)' /\ \A k : ~Granted(p, k)' /\ ~Releasing(p, k)'
    BY <1>4, <1>5, PlainCallThen
  <2>4. link[p] # "none"
    BY <1>1 DEF Connected
  <2>5. BuilderOK(p)'
    BY <1>3, <1>4, <1>5, <2>1, <2>3, <2>4 DEF ServerOK, BuilderOK, Unbroken
  <2>6. \A k : k \in claimed'[p] <=> k \in claimed[p] \/ Granted(p, k)
    BY <1>1, <1>2, <1>3 DEF Granted, ServersOK, ServerTypeOK
  <2>7. ClaimsKept(p)'
    <3> SUFFICES ASSUME Unbroken(p), p \notin cancelled, NEW k \in claimed'[p]
                 PROVE  Kept(p, k, ClaimMargin(p, k))'
      BY <1>1, <2>1, <2>3 DEF ClaimsKept, Unbroken
    <3>1. k \in Keys
      BY <1>3, <1>5, KeysOf
    <3>2. CASE k \in claimed[p]
      BY <1>3, <2>1, <3>2 DEF ServerOK, ClaimsKept, Unbroken, Kept, ClaimMargin
    <3>3. CASE Granted(p, k)
      <4>1. Kept(p, k, TTL)
        BY <1>3, <3>1, <3>3 DEF ServerOK, ClaimsKept, Unbroken
      <4>2. lease[k].left >= TTL /\ lease[k].left \in Nat /\ TTL \in Nat
        BY <1>3, <3>1, <4>1, RowForms, KeysOf DEF Kept
      <4>3. lease[k].left >= TTL - 1
        BY <4>2
      <4>. QED BY <2>1, <4>1, <4>2, <4>3 DEF Kept, ClaimMargin
    <3>. QED BY <2>6, <3>2, <3>3
  <2>8. ClaimsKnown(p)'
    <3>1. \A k : ~Releasing(p, k)
      BY <1>2 DEF Releasing
    <3>. QED BY <1>3, <2>1, <2>3, <2>6, <3>1 DEF ServerOK, ClaimsKnown, Unbroken
  <2>. QED BY <1>3, <2>2, <2>5, <2>7, <2>8 DEF ServerOK
<1>. QED BY <1>1, <1>6, <1>7, <1>8, <1>9, OneSteps DEF ServersOK, daemonVars, presenceVars

LEMMA RenewingStops ==
  ASSUME ServersOK, NEW p \in Servers, StopRenewing(p)
  PROVE  ServersOK'
<1>1. /\ call[p].op = "release" /\ call[p].at = "untrack" /\ Reaches(p) /\ link' = [link EXCEPT ![p] = As(p)]
      /\ claimed' = [claimed EXCEPT ![p] = claimed[p] \ {call[p].path}]
      /\ call' = [call EXCEPT ![p].at = "try"]
      /\ UNCHANGED <<daemonVars, lease, lifeVars, due, renewVars, presenceVars, severed, forgotten>>
  BY DEF StopRenewing, Use
<1>2. call[p] # Idle /\ call[p] # Review /\ Plain(call[p])
  BY <1>1 DEF Idle, Review, Plain
<1>3. /\ p \in Builders /\ p \notin Integrators /\ ServerOK(p) /\ phase[p] = "serving"
      /\ call[p] \in Calls /\ call \in [Servers -> Calls] /\ lease \in [Keys -> Rows]
      /\ call[p].path \in Paths /\ call[p].path \in Keys
  BY <1>1, <1>2, TryingBuilds, Typed, CallForms, KeysOf
<1>4. As(p) \in Connected /\ (link[p] \in Connected => As(p) = link[p]) /\ As(p) # "none"
  BY DEF As, Connected
<1>5. Unbroken(p) => As(p) = link[p] /\ link[p] \in Connected
  BY <1>1, <1>3, <1>4 DEF Reaches, ServerOK, LinkOK, Connected
<1>6. up
  BY <1>1, <1>3 DEF Reaches, ServerOK, LinkOK
<1> DEFINE f == call[p].path
<1>7. call' \in [Servers -> Calls] /\ call'[p].op = "release" /\ call'[p].at = "try" /\ call'[p].path = f
      /\ \A q \in Servers : q # p => call'[q] = call[q]
  <2>1. call[p] \in Calls /\ call[p].op = "release"
    BY <1>1, <1>3
  <2>2. call' = [call EXCEPT ![p] = [call[p] EXCEPT !.at = "try"]]
    BY <1>1, <1>3
  <2>3. [call[p] EXCEPT !.at = "try"] \in Calls /\ [call[p] EXCEPT !.at = "try"].op = "release"
        /\ [call[p] EXCEPT !.at = "try"].at = "try" /\ [call[p] EXCEPT !.at = "try"].path = f
    BY <2>1, CallMoves
  <2>. QED BY <1>3, <2>2, <2>3
<1>8. ServerTypeOK'
  BY <1>1, <1>3, <1>4, <1>7 DEF ServersOK, ServerTypeOK, Calls, daemonVars, lifeVars, renewVars, presenceVars
<1>9. RowsLive'
  BY <1>1 DEF ServersOK, RowsLive
<1>10. \A q \in Servers : q # p => Aside(q)
  BY <1>1, <1>3, <1>7 DEF ServersOK, ServerTypeOK, Aside, lifeVars, renewVars, presenceVars
<1>11. ServerOK(p)'
  <2>1. /\ UNCHANGED <<up, lease, phase, cancelled, due, pass, stale, size, severed, forgotten>>
        /\ link'[p] = As(p) /\ \A k : k \in claimed'[p] <=> k \in claimed[p] /\ k # f
    BY <1>1, <1>3 DEF daemonVars, lifeVars, presenceVars, renewVars, ServersOK, ServerTypeOK
  <2>2. (LinkOK(p) /\ LifeOK(p))'
    BY <1>3, <1>4, <1>6, <2>1 DEF ServerOK, LinkOK, LifeOK, Unbroken
  <2>3. \A k : (Releasing(p, k)' <=> k = f) /\ ~Granted(p, k)'
    BY <1>7 DEF Releasing, Granted
  <2>4. BuilderOK(p)'
    BY <1>3, <1>4, <1>7, <2>1, <2>3 DEF ServerOK, BuilderOK, Unbroken, Review
  <2>5. ClaimsKept(p)'
    BY <1>3, <1>4, <1>5, <2>1, <2>3 DEF ServerOK, ClaimsKept, Unbroken, Kept, ClaimMargin
  <2>6. \A k : ~Granted(p, k) /\ ~Releasing(p, k)
    BY <1>2, PlainCall
  <2>7. ClaimsKnown(p)'
    BY <1>3, <1>5, <2>1, <2>3, <2>6 DEF ServerOK, ClaimsKnown, Unbroken
  <2>. QED BY <1>3, <2>2, <2>4, <2>5, <2>7 DEF ServerOK
<1>. QED BY <1>1, <1>8, <1>9, <1>10, <1>11, OneSteps DEF ServersOK, daemonVars, presenceVars

LEMMA PathIsReleased ==
  ASSUME ServersOK, NEW p \in Servers, Release(p)
  PROVE  ServersOK'
<1>1. /\ call[p].op = "release" /\ call[p].at = "try" /\ Reaches(p) /\ link' = [link EXCEPT ![p] = As(p)]
      /\ lease' = AfterRelease(p, call[p].path, As(p))
      /\ call' = [call EXCEPT ![p] = Idle]
      /\ UNCHANGED <<daemonVars, lifeVars, claimed, due, renewVars, presenceVars, severed,
                     forgotten>>
  BY DEF Release, Use
<1>2. call[p] # Idle /\ call[p] # Review
  BY <1>1 DEF Idle, Review
<1>3. /\ p \in Builders /\ p \notin Integrators /\ ServerOK(p) /\ phase[p] = "serving"
      /\ call[p] \in Calls /\ call \in [Servers -> Calls] /\ lease \in [Keys -> Rows]
      /\ call[p].path \in Paths /\ call[p].path \in Keys
  BY <1>1, <1>2, TryingBuilds, Typed, CallForms, KeysOf
<1>4. As(p) \in Connected /\ (link[p] \in Connected => As(p) = link[p]) /\ As(p) # "none"
  BY DEF As, Connected
<1>5. Unbroken(p) => As(p) = link[p] /\ link[p] \in Connected
  BY <1>1, <1>3, <1>4 DEF Reaches, ServerOK, LinkOK, Connected
<1>6. up
  BY <1>1, <1>3 DEF Reaches, ServerOK, LinkOK
<1> DEFINE f == call[p].path
<1>7. Idle \in Calls /\ Plain(Idle) /\ Idle # Review
  BY DEF Calls, Plain, Idle, Review
<1>8. call' \in [Servers -> Calls] /\ call'[p] = Idle /\ \A q \in Servers : q # p => call'[q] = call[q]
  BY <1>1, <1>3, <1>7
<1>9. /\ lease' \in [Keys -> Rows] /\ RowsLive'
      /\ \A j \in Keys : j # f => lease'[j] = lease[j]
      /\ lease'[f] = lease[f] \/ (lease[f].who = p /\ lease'[f].who = Nobody)
      /\ lease[f].who = p /\ lease[f].as = As(p) => lease'[f].who = Nobody
  BY <1>1, <1>3, RowReleased
<1>10. ServerTypeOK'
  BY <1>1, <1>3, <1>4, <1>8, <1>9 DEF ServersOK, ServerTypeOK, Calls, Rows, daemonVars, lifeVars, renewVars, presenceVars
<1>11. \A q \in Servers : q # p => Aside(q)
  <2> SUFFICES ASSUME NEW q \in Servers, q # p PROVE Aside(q)
    OBVIOUS
  <2>1. \A k \in Keys : lease'[k] = lease[k] \/ (lease[k].who # q /\ lease'[k].who # q)
    BY <1>3, <1>9, KeysOf
  <2>. QED BY <1>1, <1>3, <1>8, <2>1 DEF ServersOK, ServerTypeOK, Aside, lifeVars, renewVars, presenceVars
<1>12. ServerOK(p)'
  <2>1. /\ UNCHANGED <<up, phase, cancelled, claimed, due, pass, stale, size, severed, forgotten>>
        /\ link'[p] = As(p)
    BY <1>1, <1>3 DEF daemonVars, lifeVars, presenceVars, renewVars, ServersOK, ServerTypeOK
  <2>2. (LinkOK(p) /\ LifeOK(p))'
    BY <1>3, <1>4, <1>6, <1>8, <2>1 DEF ServerOK, LinkOK, LifeOK, Unbroken
  <2>3. \A k : ~Releasing(p, k)' /\ ~Granted(p, k)'
    BY <1>7, <1>8, PlainCallThen
  <2>4. BuilderOK(p)'
    BY <1>3, <1>4, <1>7, <1>8, <2>1, <2>3 DEF ServerOK, BuilderOK, Unbroken
  <2>5. f \notin claimed[p]
    BY <1>1, <1>3 DEF ServerOK, BuilderOK, Releasing
  <2>6. ClaimsKept(p)'
    <3>1. \A k \in claimed[p] : lease'[k] = lease[k]
      BY <1>3, <1>9, <2>5, KeysOf DEF ServersOK, ServerTypeOK
    <3>. QED BY <1>3, <1>4, <1>5, <2>1, <2>3, <3>1 DEF ServerOK, ClaimsKept, Unbroken, Kept, ClaimMargin
  <2>7. \A k : ~Granted(p, k) /\ (Releasing(p, k) => k = f)
    BY <1>1 DEF Releasing, Granted
  <2>8. ClaimsKnown(p)'
    <3> SUFFICES ASSUME Unbroken(p), NEW k \in Keys, lease'[k].who = p, <<p, k>> \notin forgotten
                 PROVE  /\ phase[p] \in {"serving", "ending"}
                        /\ As(p) \in Connected /\ lease'[k].as = As(p) /\ k \in claimed[p]
      BY <2>1 DEF ClaimsKnown, Unbroken
    <3>1. lease'[k] = lease[k]
      BY <1>3, <1>9, KeysOf
    <3>2. lease[k].as = link[p] /\ (k \in claimed[p] \/ Releasing(p, k))
      BY <1>3, <2>7, <3>1 DEF ServerOK, ClaimsKnown
    <3>3. k # f
      BY <1>3, <1>5, <1>9, <3>1, <3>2, KeysOf
    <3>. QED BY <1>3, <1>4, <1>5, <2>7, <3>1, <3>2, <3>3
  <2>. QED BY <1>3, <2>2, <2>4, <2>6, <2>8 DEF ServerOK
<1>. QED BY <1>1, <1>9, <1>10, <1>11, <1>12, OneSteps DEF ServersOK, daemonVars, presenceVars

-----------------------------------------------------------------------------
(* The renewal.                                                                 *)

LEMMA RenewalBegins ==
  ASSUME ServersOK, NEW p \in Builders, RenewBegin(p)
  PROVE  ServersOK'
<1>1. /\ p \in due /\ p \notin cancelled /\ phase[p] = "serving" /\ due' = due \ {p}
      /\ pass' = [pass EXCEPT ![p] = IF link[p] = "none" THEN {} ELSE claimed[p]]
      /\ stale' = stale \ {p}
      /\ UNCHANGED <<daemonVars, lease, link, lifeVars, call, claimed, drop, presenceVars, severed,
                     forgotten>>
  BY DEF RenewBegin
<1>2. p \in Servers /\ p \notin Integrators /\ ServerOK(p) /\ lease \in [Keys -> Rows]
  BY Typed, KeysOf
<1>3. ServerTypeOK'
  BY <1>1 DEF ServersOK, ServerTypeOK, daemonVars, lifeVars, presenceVars
<1>4. RowsLive'
  BY <1>1 DEF ServersOK, RowsLive
<1>5. \A q \in Servers : q # p => Aside(q)
  BY <1>1, <1>2 DEF ServersOK, ServerTypeOK, Aside, lifeVars, presenceVars
<1>6. ServerOK(p)'
  <2>1. /\ UNCHANGED <<up, link, lease, phase, cancelled, claimed, call, size, severed, forgotten>>
        /\ p \notin due' /\ p \notin stale'
        /\ pass'[p] = IF link[p] = "none" THEN {} ELSE claimed[p]
    BY <1>1 DEF daemonVars, lifeVars, presenceVars, ServersOK, ServerTypeOK
  <2>2. (LinkOK(p) /\ LifeOK(p))'
    BY <1>2, <2>1 DEF ServerOK, LinkOK, LifeOK, Unbroken
  <2>3. BuilderOK(p)'
    BY <1>1, <1>2, <2>1 DEF ServerOK, BuilderOK, Unbroken, InFlight, Releasing
  <2>4. ClaimsKept(p)'
    <3> SUFFICES ASSUME Unbroken(p)
                 PROVE  /\ \A k \in claimed[p] : Kept(p, k, ClaimMargin(p, k))'
                        /\ \A k \in Keys : Granted(p, k) => Kept(p, k, TTL)
                        /\ claimed[p] # {} => link[p] \in Connected
      BY <2>1 DEF ClaimsKept, Unbroken, Granted, Kept
    <3>1. /\ \A k \in claimed[p] : Kept(p, k, ClaimMargin(p, k))
          /\ \A k \in Keys : Granted(p, k) => Kept(p, k, TTL)
          /\ claimed[p] # {} => link[p] \in Connected
      BY <1>1, <1>2 DEF ServerOK, ClaimsKept
    <3>2. ASSUME NEW k \in claimed[p] PROVE Kept(p, k, ClaimMargin(p, k))'
      <4>1. link[p] # "none" /\ ClaimMargin(p, k)' = TTL - 1
        BY <3>1, <2>1 DEF ClaimMargin, Connected
      <4>2. ClaimMargin(p, k) = TTL - 1
        BY <1>1 DEF ClaimMargin
      <4>. QED BY <2>1, <3>1, <4>1, <4>2 DEF Kept
    <3>. QED BY <3>1, <3>2
  <2>5. ClaimsKnown(p)'
    BY <1>2, <2>1 DEF ServerOK, ClaimsKnown, Unbroken, Granted, Releasing
  <2>. QED BY <1>2, <2>2, <2>3, <2>4, <2>5 DEF ServerOK
<1>. QED BY <1>1, <1>2, <1>3, <1>4, <1>5, <1>6, OneSteps DEF ServersOK, daemonVars, presenceVars

LEMMA ClaimIsRenewed ==
  ASSUME ServersOK, NEW p \in Builders, RenewOne(p)
  PROVE  ServersOK'
<1>0. /\ p \in Servers /\ p \notin Integrators /\ ServerOK(p) /\ lease \in [Keys -> Rows]
      /\ pass[p] \subseteq Paths /\ Paths \subseteq Keys
  BY Typed, KeysOf DEF ServersOK, ServerTypeOK
<1>1. UNCHANGED <<daemonVars, lifeVars, call, claimed, due, stale, presenceVars, severed,
                  forgotten>>
  BY DEF RenewOne
<1>2. ASSUME NEW f \in pass[p], NEW l \in Connected \cup {"broken", "dropped"},
             link' = [link EXCEPT ![p] = l], l \in Connected => up, Unbroken(p) => l = link[p],
             lease' \in [Keys -> Rows], RowsLive', pass' \in [Builders -> SUBSET Paths],
             \A q \in Builders : q # p => pass'[q] = pass[q],
             drop' \in [Builders -> Paths \cup {Nobody}],
             \A k \in Keys : k # f => lease'[k] = lease[k],
             \/ pass' = pass /\ lease' = lease
             \/ /\ pass'[p] = pass[p] \ {f} /\ lease[f].who = p
                /\ lease'[f].who = p /\ lease'[f].as = lease[f].as /\ lease'[f].left = TTL
      PROVE  ServersOK'
  <2>1. ServerTypeOK'
    BY <1>0, <1>1, <1>2 DEF ServersOK, ServerTypeOK, Rows, daemonVars, lifeVars, presenceVars
  <2>2. \A q \in Servers : q # p => Aside(q)
    <3> SUFFICES ASSUME NEW q \in Servers, q # p PROVE Aside(q)
      OBVIOUS
    <3>1. \A k \in Keys : lease'[k] = lease[k] \/ (lease[k].who # q /\ lease'[k].who # q)
      BY <1>2
    <3>. QED BY <1>0, <1>1, <1>2, <3>1 DEF ServersOK, ServerTypeOK, Aside, lifeVars, presenceVars
  <2>3. ServerOK(p)'
    <3>1. /\ UNCHANGED <<up, phase, cancelled, claimed, due, call, stale, size, severed, forgotten>>
          /\ link'[p] = l /\ l # "none" /\ pass'[p] \subseteq pass[p] /\ link[p] # "none"
          /\ \A k \in Keys : lease'[k].who = lease[k].who /\ lease'[k].as = lease[k].as
      BY <1>0, <1>1, <1>2 DEF daemonVars, lifeVars, presenceVars, ServersOK, ServerTypeOK, Connected,
         ServerOK, BuilderOK
    <3>2. (LinkOK(p) /\ LifeOK(p))'
      <4>1. LinkOK(p)'
        BY <1>0, <1>2, <3>1 DEF ServerOK, LinkOK, Unbroken
      <4>2. LifeOK(p)'
        <5>1. phase[p] # "unborn"
          BY <1>0, <3>1 DEF ServerOK, LifeOK
        <5>. QED BY <1>0, <3>1, <5>1 DEF ServerOK, LifeOK
      <4>. QED BY <4>1, <4>2
    <3>3. BuilderOK(p)'
      BY <1>0, <3>1 DEF ServerOK, BuilderOK, Unbroken, InFlight, Releasing
    <3>4. ClaimsKept(p)'
      <4> SUFFICES ASSUME Unbroken(p), p \notin cancelled, phase[p] = "serving"
                   PROVE  /\ \A k \in claimed[p] : Kept(p, k, ClaimMargin(p, k))'
                          /\ \A k \in Keys : Granted(p, k) => Kept(p, k, TTL)'
                          /\ claimed[p] # {} => link'[p] \in Connected
        BY <3>1 DEF ClaimsKept, Unbroken, Granted
      <4>1. /\ \A k \in claimed[p] : Kept(p, k, ClaimMargin(p, k))
            /\ \A k \in Keys : Granted(p, k) => Kept(p, k, TTL)
            /\ claimed[p] # {} => link[p] \in Connected
            /\ link'[p] = link[p] /\ claimed[p] \subseteq Keys /\ f \in Keys
        BY <1>0, <1>2, <3>1, KeysOf DEF ServerOK, ClaimsKept, ServersOK, ServerTypeOK
      <4>2. CASE pass' = pass /\ lease' = lease
        BY <3>1, <4>1, <4>2 DEF Kept, ClaimMargin
      <4>3. CASE pass'[p] = pass[p] \ {f} /\ lease'[f].left = TTL
        <5>1. \A k \in Keys : k # f => lease'[k] = lease[k] /\ ClaimMargin(p, k)' = ClaimMargin(p, k)
          BY <1>2, <3>1, <4>3 DEF ClaimMargin
        <5>2. TTL >= TTL /\ TTL >= TTL - 1 /\ lease'[f].left >= TTL /\ lease'[f].left >= TTL - 1
          BY <4>3, KeysOf
        <5>3. lease'[f].left >= ClaimMargin(p, f)'
          BY <5>2 DEF ClaimMargin
        <5>4. ASSUME NEW k \in claimed[p] PROVE Kept(p, k, ClaimMargin(p, k))'
          <6>1. CASE k = f
            BY <6>1, <3>1, <4>1, <5>3 DEF Kept
          <6>2. CASE k # f
            BY <6>2, <3>1, <4>1, <5>1 DEF Kept
          <6>. QED BY <6>1, <6>2
        <5>5. ASSUME NEW k \in Keys, Granted(p, k) PROVE Kept(p, k, TTL)'
          <6>1. CASE k = f
            BY <6>1, <3>1, <4>1, <5>2, <5>5 DEF Kept
          <6>2. CASE k # f
            BY <6>2, <3>1, <4>1, <5>1, <5>5 DEF Kept
          <6>. QED BY <6>1, <6>2
        <5>. QED BY <4>1, <5>4, <5>5
      <4>. QED BY <1>2, <4>2, <4>3
    <3>5. ClaimsKnown(p)'
      BY <1>0, <1>2, <3>1 DEF ServerOK, ClaimsKnown, Unbroken, Granted, Releasing
    <3>. QED BY <1>0, <3>2, <3>3, <3>4, <3>5 DEF ServerOK
  <2>. QED BY <1>0, <1>1, <1>2, <2>1, <2>2, <2>3, OneSteps DEF ServersOK, daemonVars, presenceVars
<1>3. ASSUME NEW f \in pass[p], NEW as \in Connected, Renewed(p, f, as),
             link' = [link EXCEPT ![p] = as], up, Unbroken(p) => as = link[p]
      PROVE  ServersOK'
  <2>1. CASE Holds(p, f, as)
    <3>1. lease' = [lease EXCEPT ![f].left = TTL] /\ pass' = [pass EXCEPT ![p] = pass[p] \ {f}]
          /\ drop' = drop
      BY <1>3, <2>1 DEF Renewed
    <3>2. /\ lease' \in [Keys -> Rows] /\ RowsLive'
          /\ \A j \in Keys : j # f => lease'[j] = lease[j]
          /\ lease'[f].who = lease[f].who /\ lease'[f].as = lease[f].as /\ lease'[f].left = TTL
      BY <1>0, <3>1, RowRenewed
    <3>3. lease[f].who = p
      BY <2>1 DEF Holds
    <3>4. /\ pass' \in [Builders -> SUBSET Paths] /\ drop' \in [Builders -> Paths \cup {Nobody}]
          /\ pass'[p] = pass[p] \ {f} /\ \A q \in Builders : q # p => pass'[q] = pass[q]
      BY <3>1 DEF ServersOK, ServerTypeOK
    <3>. QED BY <1>2, <1>3, <3>2, <3>3, <3>4
  <2>2. CASE ~Holds(p, f, as)
    <3>1. drop' = [drop EXCEPT ![p] = f] /\ lease' = lease /\ pass' = pass
      BY <1>3, <2>2 DEF Renewed
    <3>2. RowsLive'
      BY <3>1 DEF ServersOK, RowsLive
    <3>3. pass' \in [Builders -> SUBSET Paths] /\ drop' \in [Builders -> Paths \cup {Nobody}]
      BY <1>0, <3>1 DEF ServersOK, ServerTypeOK
    <3>. QED BY <1>0, <1>2, <1>3, <3>1, <3>2, <3>3
  <2>. QED BY <2>1, <2>2
<1>4. ASSUME NEW f \in pass[p], NEW l \in Connected \cup {"broken", "dropped"},
             link' = [link EXCEPT ![p] = l], l \in Connected => up, Unbroken(p) => l = link[p],
             drop' = [drop EXCEPT ![p] = f], UNCHANGED <<lease, pass>>
      PROVE  ServersOK'
  <2>1. RowsLive'
    BY <1>4 DEF ServersOK, RowsLive
  <2>2. pass' \in [Builders -> SUBSET Paths] /\ drop' \in [Builders -> Paths \cup {Nobody}]
    BY <1>0, <1>4 DEF ServersOK, ServerTypeOK
  <2>. QED BY <1>0, <1>2, <1>4, <2>1, <2>2
<1>5. PICK f \in pass[p] :
       \/ Reaches(p) /\ Use(p) /\ Renewed(p, f, As(p))
       \/ /\ ~Reaches(p) /\ up
          /\ \E as \in Identities(p) : link' = [link EXCEPT ![p] = as] /\ Renewed(p, f, as)
       \/ /\ ~Reaches(p)
          /\ link' = [link EXCEPT ![p] = "dropped"]
          /\ drop' = [drop EXCEPT ![p] = f] /\ UNCHANGED <<lease, pass>>
       \/ /\ p \in stale
          /\ drop' = [drop EXCEPT ![p] = f] /\ UNCHANGED <<lease, link, pass>>
  BY DEF RenewOne
<1>6. link[p] # "none" /\ link[p] \in Connected \cup {"broken", "dropped"}
      /\ (link[p] \in Connected => up) /\ (Unbroken(p) => link[p] \in Connected)
  <2>1. link[p] # "none"
    BY <1>0, <1>5 DEF ServerOK, BuilderOK
  <2>2. link[p] \in Connected \cup {"none", "broken", "dropped"}
    BY <1>0 DEF ServersOK, ServerTypeOK
  <2>3. (link[p] \in Connected => up) /\ (Unbroken(p) => link[p] \in Connected \cup {"none"})
    BY <1>0 DEF ServerOK, LinkOK
  <2>. QED BY <2>1, <2>2, <2>3
<1>7. CASE Reaches(p) /\ Use(p) /\ Renewed(p, f, As(p))
  <2>1. As(p) \in Connected /\ (Unbroken(p) => As(p) = link[p])
    BY <1>6 DEF As, Connected
  <2>2. up
    BY <1>6, <1>7 DEF Reaches
  <2>. QED BY <1>3, <1>7, <2>1, <2>2 DEF Use
<1>8. CASE /\ ~Reaches(p) /\ up
           /\ \E as \in Identities(p) : link' = [link EXCEPT ![p] = as] /\ Renewed(p, f, as)
  <2>1. PICK as \in Identities(p) : link' = [link EXCEPT ![p] = as] /\ Renewed(p, f, as)
    BY <1>8
  <2>2. as \in Connected
    BY DEF Identities, Connected
  <2>3. ~Unbroken(p)
    BY <1>6, <1>8 DEF Reaches
  <2>. QED BY <1>3, <1>8, <2>1, <2>2, <2>3
<1>9. CASE /\ ~Reaches(p)
           /\ link' = [link EXCEPT ![p] = "dropped"]
           /\ drop' = [drop EXCEPT ![p] = f] /\ UNCHANGED <<lease, pass>>
  <2>1. ~Unbroken(p)
    BY <1>6, <1>9 DEF Reaches
  <2>2. "dropped" \notin Connected
    BY DEF Connected
  <2>. QED BY <1>4, <1>9, <2>1, <2>2
<1>10. CASE /\ p \in stale
            /\ drop' = [drop EXCEPT ![p] = f] /\ UNCHANGED <<lease, link, pass>>
  <2>1. link' = [link EXCEPT ![p] = link[p]]
    BY <1>0, <1>10 DEF ServersOK, ServerTypeOK
  <2>. QED BY <1>4, <1>6, <1>10, <2>1
<1>. QED BY <1>5, <1>7, <1>8, <1>9, <1>10

LEMMA ClaimIsUntracked ==
  ASSUME ServersOK, NEW p \in Builders, Untrack(p)
  PROVE  ServersOK'
<1>0. /\ p \in Servers /\ p \notin Integrators /\ ServerOK(p) /\ drop[p] \in Paths /\ drop[p] \in Keys
  BY Typed, KeysOf DEF ServersOK, ServerTypeOK, Untrack
<1>1. /\ claimed' = [claimed EXCEPT ![p] = claimed[p] \ {drop[p]}]
      /\ pass' = [pass EXCEPT ![p] = pass[p] \ {drop[p]}]
      /\ drop' = [drop EXCEPT ![p] = Nobody]
      /\ forgotten' = IF drop[p] \in claimed[p] /\ lease[drop[p]].who = p
                      THEN forgotten \cup {<<p, drop[p]>>} ELSE forgotten
      /\ UNCHANGED <<daemonVars, lease, link, lifeVars, call, due, stale, presenceVars, severed>>
  BY DEF Untrack
<1>2. ServerTypeOK'
  <2>1. <<p, drop[p]>> \in Servers \X Keys
    BY <1>0
  <2>2. forgotten' \subseteq Servers \X Keys
    BY <1>1, <2>1 DEF ServersOK, ServerTypeOK
  <2>. QED BY <1>0, <1>1, <2>2 DEF ServersOK, ServerTypeOK, daemonVars, lifeVars, presenceVars
<1>3. RowsLive'
  BY <1>1 DEF ServersOK, RowsLive
<1>4. \A q \in Servers : q # p => Aside(q)
  BY <1>0, <1>1 DEF ServersOK, ServerTypeOK, Aside, lifeVars, presenceVars
<1>5. ServerOK(p)'
  <2>1. /\ UNCHANGED <<up, link, lease, phase, cancelled, due, call, stale, size, severed>>
        /\ claimed'[p] = claimed[p] \ {drop[p]} /\ pass'[p] = pass[p] \ {drop[p]}
    BY <1>1 DEF daemonVars, lifeVars, presenceVars, ServersOK, ServerTypeOK
  <2>2. (LinkOK(p) /\ LifeOK(p))'
    BY <1>0, <2>1 DEF ServerOK, LinkOK, LifeOK, Unbroken
  <2>3. BuilderOK(p)'
    BY <1>0, <2>1 DEF ServerOK, BuilderOK, Unbroken, InFlight, Releasing
  <2>4. ClaimsKept(p)'
    <3>1. \A k \in claimed'[p] : k \in claimed[p] /\ (k \in pass'[p] <=> k \in pass[p])
      BY <2>1
    <3>. QED BY <1>0, <2>1, <3>1 DEF ServerOK, ClaimsKept, Unbroken, Kept, ClaimMargin, Granted
  <2>5. ClaimsKnown(p)'
    <3> SUFFICES ASSUME phase[p] # "killed", Unbroken(p), NEW k \in Keys, lease[k].who = p, <<p, k>> \notin forgotten'
                 PROVE  /\ phase[p] \in {"serving", "ending"}
                        /\ link[p] \in Connected /\ lease[k].as = link[p]
                        /\ k \in claimed'[p] \/ Granted(p, k) \/ Releasing(p, k)
      BY <2>1 DEF ClaimsKnown, Unbroken, Granted, Releasing
    <3>1. <<p, k>> \notin forgotten /\ ~(k = drop[p] /\ k \in claimed[p])
      BY <1>1
    <3>. QED BY <1>0, <2>1, <3>1 DEF ServerOK, ClaimsKnown
  <2>. QED BY <1>0, <2>2, <2>3, <2>4, <2>5 DEF ServerOK
<1>. QED BY <1>0, <1>1, <1>2, <1>3, <1>4, <1>5, OneSteps DEF ServersOK, daemonVars, presenceVars

-----------------------------------------------------------------------------
(* The end of a server.                                                         *)

LEMMA ServerLeaves ==
  ASSUME ServersOK, NEW p \in Servers, Leave(p)
  PROVE  ServersOK'
<1>1. /\ phase[p] = "serving" /\ call[p] = Idle
      /\ phase' = [phase EXCEPT ![p] = "ending"] /\ cancelled' = cancelled \cup {p}
      /\ UNCHANGED <<daemonVars, lease, link, eof, call, claimed, due, renewVars, presenceVars,
                     severed, forgotten>>
  BY DEF Leave
<1>2. ServerOK(p)
  BY Typed
<1>3. ServerTypeOK'
  BY <1>1 DEF ServersOK, ServerTypeOK, daemonVars, renewVars, presenceVars
<1>4. RowsLive'
  BY <1>1 DEF ServersOK, RowsLive
<1>5. \A q \in Servers : q # p => Aside(q)
  BY <1>1 DEF ServersOK, ServerTypeOK, Aside, renewVars, presenceVars
<1>6. ServerOK(p)'
  <2>1. /\ UNCHANGED <<up, link, lease, call, claimed, due, pass, stale, slot, pres, size, severed,
                       forgotten>>
        /\ phase'[p] = "ending" /\ p \in cancelled'
    BY <1>1 DEF daemonVars, renewVars, presenceVars, ServersOK, ServerTypeOK
  <2>2. (LinkOK(p) /\ LifeOK(p))'
    BY <1>1, <1>2, <2>1 DEF ServerOK, LinkOK, LifeOK, Unbroken
  <2>3. ASSUME p \in Integrators PROVE (IntegratorOK(p) /\ SlotKept(p) /\ SlotKnown(p))'
    BY <1>1, <1>2, <2>1, <2>3 DEF ServerOK, IntegratorOK, SlotKept, SlotKnown, Unbroken,
       FirstSlot, LastSlot
  <2>4. ASSUME p \in Builders PROVE (BuilderOK(p) /\ ClaimsKept(p) /\ ClaimsKnown(p))'
    BY <1>1, <1>2, <2>1, <2>4 DEF ServerOK, BuilderOK, ClaimsKept, ClaimsKnown, Unbroken,
       InFlight, Granted, Releasing
  <2>. QED BY <2>2, <2>3, <2>4 DEF ServerOK
<1>. QED BY <1>1, <1>3, <1>4, <1>5, <1>6, OneSteps DEF ServersOK, daemonVars, presenceVars

LEMMA ClaimsAreReleased ==
  ASSUME ServersOK, NEW p \in Servers, lease' = Released(p)
  PROVE  /\ lease' \in [Keys -> Rows] /\ RowsLive'
         /\ \A k \in Keys : lease'[k] = lease[k] \/ (lease[k].who = p /\ lease'[k].who = Nobody)
         /\ p \in Builders /\ link[p] \in Connected =>
              \A k \in claimed[p] \cap Keys : lease[k].who = p /\ lease[k].as = link[p]
                => lease'[k].who = Nobody
<1>1. lease \in [Keys -> Rows] /\ Free \in Rows /\ Free.who = Nobody
  BY Typed, KeysOf, RowForms DEF Free, Rows, Connected
<1>2. CASE p \in Builders /\ Reaches(p)
  <2>1. lease' = [k \in Keys |-> IF k \in claimed[p] /\ Holds(p, k, As(p)) THEN Free ELSE lease[k]]
    BY <1>2 DEF Released
  <2>2. lease' \in [Keys -> Rows]
    BY <1>1, <2>1
  <2>3. \A k \in Keys : lease'[k] = lease[k] \/ (lease[k].who = p /\ lease'[k].who = Nobody)
    BY <1>1, <2>1 DEF Holds
  <2>4. RowsLive'
    <3> SUFFICES ASSUME NEW k \in Keys, lease'[k].who # Nobody PROVE lease'[k].left > 0
      BY DEF RowsLive
    <3>. QED BY <2>3 DEF ServersOK, RowsLive
  <2>5. ASSUME link[p] \in Connected, NEW k \in claimed[p] \cap Keys, lease[k].who = p,
               lease[k].as = link[p]
        PROVE  lease'[k].who = Nobody
    <3>1. lease[k].left > 0
      BY <2>5, KeysOf DEF ServersOK, RowsLive
    <3>2. Holds(p, k, As(p))
      BY <2>5, <3>1 DEF Holds, As
    <3>. QED BY <1>1, <2>1, <2>5, <3>2
  <2>. QED BY <2>2, <2>3, <2>4, <2>5
<1>3. CASE ~(p \in Builders /\ Reaches(p))
  <2>1. lease' = lease
    BY <1>3 DEF Released
  <2>2. RowsLive'
    BY <2>1 DEF ServersOK, RowsLive
  <2>. QED BY <1>1, <1>3, <2>1, <2>2 DEF Reaches
<1>. QED BY <1>2, <1>3

LEMMA ServerShutsDown ==
  ASSUME ServersOK, NEW p \in Servers, Shutdown(p)
  PROVE  ServersOK'
<1>1. /\ phase[p] = "ending" /\ GoroutinesDone(p) /\ lease' = Released(p)
      /\ claimed' = IF p \in Builders THEN [claimed EXCEPT ![p] = {}] ELSE claimed
      /\ phase' = [phase EXCEPT ![p] = "gone"] /\ link' = [link EXCEPT ![p] = "none"]
      /\ due' = due \ {p} /\ cancelled' = cancelled \ {p} /\ eof' = eof \ {p}
      /\ UNCHANGED <<daemonVars, call, renewVars, presenceVars, severed, forgotten>>
  BY DEF Shutdown
<1>2. ServerOK(p) /\ lease \in [Keys -> Rows] /\ "none" \notin Connected
  BY Typed DEF Connected
<1>3. /\ lease' \in [Keys -> Rows] /\ RowsLive'
      /\ \A k \in Keys : lease'[k] = lease[k] \/ (lease[k].who = p /\ lease'[k].who = Nobody)
      /\ p \in Builders /\ link[p] \in Connected =>
           \A k \in claimed[p] \cap Keys : lease[k].who = p /\ lease[k].as = link[p]
             => lease'[k].who = Nobody
  BY <1>1, ClaimsAreReleased
<1>4. ServerTypeOK'
  BY <1>1, <1>3 DEF ServersOK, ServerTypeOK, Rows, daemonVars, renewVars, presenceVars
<1>5. \A q \in Servers : q # p => Aside(q)
  <2> SUFFICES ASSUME NEW q \in Servers, q # p PROVE Aside(q)
    OBVIOUS
  <2>1. \A k \in Keys : lease'[k] = lease[k] \/ (lease[k].who # q /\ lease'[k].who # q)
    BY <1>3, KeysOf
  <2>2. link'[q] = link[q] /\ phase'[q] = phase[q] /\ (q \in Builders => claimed'[q] = claimed[q])
    BY <1>1 DEF ServersOK, ServerTypeOK
  <2>. QED BY <1>1, <2>1, <2>2 DEF Aside, renewVars, presenceVars
<1>6. ServerOK(p)'
  <2>1. /\ UNCHANGED <<up, call, pass, stale, slot, pres, size, severed, forgotten>>
        /\ phase'[p] = "gone" /\ p \notin due' /\ link'[p] = "none"
        /\ p \in Builders => claimed'[p] = {}
    BY <1>1 DEF daemonVars, renewVars, presenceVars, ServersOK, ServerTypeOK
  <2>2. call[p] = Idle
    BY <1>1, <1>2 DEF ServerOK, LifeOK
  <2>3. (LinkOK(p) /\ LifeOK(p))'
    BY <1>2, <2>1, <2>2 DEF ServerOK, LinkOK, LifeOK, Unbroken
  <2>4. ASSUME p \in Integrators PROVE (IntegratorOK(p) /\ SlotKept(p) /\ SlotKnown(p))'
    <3>1. pres[p] = "done"
      BY <1>1, <2>4, KeysOf DEF GoroutinesDone
    <3>2. (IntegratorOK(p) /\ SlotKept(p))'
      BY <1>1, <1>2, <2>1, <2>4, <3>1 DEF ServerOK, IntegratorOK, SlotKept, FirstSlot, LastSlot
    <3>3. SlotKnown(p)'
      <4> SUFFICES ASSUME NEW k \in Keys, lease'[k].who = p, <<p, k>> \notin forgotten
                   PROVE  k = slot[p] /\ ~Unbroken(p)
        BY <2>1 DEF SlotKnown, Unbroken
      <4>1. lease[k].who = p
        BY <1>3, KeysOf
      <4>. QED BY <1>1, <1>2, <2>4, <3>1, <4>1 DEF ServerOK, SlotKnown
    <3>. QED BY <3>2, <3>3
  <2>5. ASSUME p \in Builders PROVE (BuilderOK(p) /\ ClaimsKept(p) /\ ClaimsKnown(p))'
    <3>1. pass[p] = {}
      BY <1>1, <2>5 DEF GoroutinesDone
    <3>2. Plain(call[p]) /\ Plain(call'[p])
      BY <2>1, <2>2 DEF Plain
    <3>3. ~InFlight(p)' /\ \A k : ~Granted(p, k)' /\ ~Releasing(p, k)' /\ ~Granted(p, k) /\ ~Releasing(p, k)
      BY <3>2, PlainCall, PlainCallThen
    <3>4. (BuilderOK(p) /\ ClaimsKept(p))'
      BY <1>2, <2>1, <2>5, <3>1, <3>3 DEF ServerOK, BuilderOK, ClaimsKept, Unbroken
    <3>5. ClaimsKnown(p)'
      <4> SUFFICES ASSUME Unbroken(p), NEW k \in Keys, lease'[k].who = p, <<p, k>> \notin forgotten
                   PROVE  FALSE
        BY <2>1 DEF ClaimsKnown, Unbroken
      <4>1. lease[k].who = p
        BY <1>3, KeysOf
      <4>2. link[p] \in Connected /\ lease[k].as = link[p] /\ k \in claimed[p]
        BY <1>1, <1>2, <2>5, <3>3, <4>1 DEF ServerOK, ClaimsKnown
      <4>. QED BY <1>3, <2>5, <4>1, <4>2, KeysOf
    <3>. QED BY <3>4, <3>5
  <2>. QED BY <2>3, <2>4, <2>5 DEF ServerOK
<1>. QED BY <1>1, <1>3, <1>4, <1>5, <1>6, OneSteps DEF ServersOK, daemonVars, presenceVars

LEMMA ServerIsKilled ==
  ASSUME ServersOK, NEW p \in Servers, Kill(p)
  PROVE  ServersOK'
<1>1. /\ phase' = [phase EXCEPT ![p] = "killed"] /\ link' = [link EXCEPT ![p] = "none"]
      /\ call' = [call EXCEPT ![p] = Idle] /\ due' = due \ {p}
      /\ IF p \in Builders
         THEN /\ claimed' = [claimed EXCEPT ![p] = {}] /\ pass' = [pass EXCEPT ![p] = {}]
              /\ drop' = [drop EXCEPT ![p] = Nobody] /\ UNCHANGED pres
         ELSE pres' = [pres EXCEPT ![p] = "off"] /\ UNCHANGED <<claimed, pass, drop>>
      /\ stale' = stale \ {p} /\ severed' = severed \ {p}
      /\ cancelled' = cancelled \ {p} /\ eof' = eof \ {p}
      /\ UNCHANGED <<daemonVars, lease, size, slot, pidfile, wrote, forgotten>>
  BY DEF Kill
<1>2. ServerOK(p) /\ call \in [Servers -> Calls] /\ Idle \in Calls /\ Plain(Idle) /\ Idle # Review
      /\ "none" \notin Connected
  BY Typed DEF Calls, Plain, Connected, Idle, Review
<1>3. call' \in [Servers -> Calls] /\ call'[p] = Idle /\ \A q \in Servers : q # p => call'[q] = call[q]
  BY <1>1, <1>2
<1>4. ServerTypeOK'
  <2>1. claimed' \in [Builders -> SUBSET Paths] /\ pass' \in [Builders -> SUBSET Paths]
        /\ drop' \in [Builders -> Paths \cup {Nobody}]
        /\ pres' \in [Integrators -> {"off", "loop", "released", "done"}]
    BY <1>1 DEF ServersOK, ServerTypeOK
  <2>. QED BY <1>1, <1>3, <2>1 DEF ServersOK, ServerTypeOK, Calls, daemonVars
<1>5. RowsLive'
  BY <1>1 DEF ServersOK, RowsLive
<1>6. \A q \in Servers : q # p => Aside(q)
  <2> SUFFICES ASSUME NEW q \in Servers, q # p PROVE Aside(q)
    OBVIOUS
  <2>1. link'[q] = link[q] /\ phase'[q] = phase[q]
    BY <1>1 DEF ServersOK, ServerTypeOK
  <2>2. q \in Builders => claimed'[q] = claimed[q] /\ pass'[q] = pass[q]
    BY <1>1 DEF ServersOK, ServerTypeOK
  <2>3. q \in Integrators => slot'[q] = slot[q] /\ pres'[q] = pres[q]
    BY <1>1 DEF ServersOK, ServerTypeOK
  <2>. QED BY <1>1, <1>3, <2>1, <2>2, <2>3 DEF Aside
<1>7. ServerOK(p)'
  <2>1. /\ phase'[p] = "killed" /\ p \notin due' /\ link'[p] = "none" /\ p \notin stale'
        /\ p \in Builders => claimed'[p] = {} /\ pass'[p] = {}
        /\ p \in Integrators => pres'[p] = "off" /\ slot'[p] = slot[p] /\ size' = size
    BY <1>1, KeysOf DEF ServersOK, ServerTypeOK
  <2>2. (LinkOK(p) /\ LifeOK(p))'
    BY <1>2, <1>3, <2>1 DEF LinkOK, LifeOK
  <2>3. ~InFlight(p)' /\ \A k : ~Granted(p, k)' /\ ~Releasing(p, k)'
    BY <1>2, <1>3, PlainCallThen
  <2>4. ASSUME p \in Integrators PROVE (IntegratorOK(p) /\ SlotKept(p) /\ SlotKnown(p))'
    BY <1>2, <1>3, <2>1, <2>4 DEF ServerOK, IntegratorOK, SlotKept, SlotKnown, FirstSlot, LastSlot
  <2>5. ASSUME p \in Builders PROVE (BuilderOK(p) /\ ClaimsKept(p) /\ ClaimsKnown(p))'
    BY <1>2, <1>3, <2>1, <2>3, <2>5 DEF BuilderOK, ClaimsKept, ClaimsKnown
  <2>. QED BY <2>2, <2>4, <2>5 DEF ServerOK
<1>. QED BY <1>1, <1>4, <1>5, <1>6, <1>7, OneSteps DEF ServersOK, daemonVars

\* Hosts that end, signals and pidfiles that go: what a server holds does not depend on them.
LEMMA HintsOnly ==
  ASSUME ServersOK, eof' \subseteq Servers, cancelled' \subseteq Servers, cancelled \subseteq cancelled',
         pidfile' \in [Slots -> Integrators \cup {Nobody}],
         UNCHANGED <<daemonVars, lease, link, phase, call, claimed, due, renewVars, size, slot,
                     pres, wrote, severed, forgotten>>
  PROVE  ServersOK'
<1>1. ServerTypeOK'
  BY DEF ServersOK, ServerTypeOK, daemonVars, renewVars
<1>2. RowsLive'
  BY DEF ServersOK, RowsLive
<1>3. ASSUME NEW q \in Servers PROVE ServerOK(q)'
  <2>1. /\ UNCHANGED <<up, lease, link, phase, call, claimed, due, pass, stale, size, slot,
                     pres, severed, forgotten>>
        /\ q \notin cancelled' => q \notin cancelled
    BY DEF daemonVars, renewVars
  <2>2. ServerOK(q)
    BY Typed
  <2>3. (LinkOK(q) /\ LifeOK(q))'
    BY <2>1, <2>2 DEF ServerOK, LinkOK, LifeOK, Unbroken
  <2>4. ASSUME q \in Integrators PROVE (IntegratorOK(q) /\ SlotKept(q) /\ SlotKnown(q))'
    BY <2>1, <2>2, <2>4 DEF ServerOK, IntegratorOK, SlotKept, SlotKnown, Unbroken, Kept, SlotMargin,
       FirstSlot, LastSlot
  <2>5. ASSUME q \in Builders PROVE (BuilderOK(q) /\ ClaimsKept(q) /\ ClaimsKnown(q))'
    BY <2>1, <2>2, <2>5 DEF ServerOK, BuilderOK, ClaimsKept, ClaimsKnown, Unbroken, Kept, ClaimMargin,
       InFlight, Granted, Releasing
  <2>. QED BY <2>3, <2>4, <2>5 DEF ServerOK
<1>. QED BY <1>1, <1>2, <1>3 DEF ServersOK

LEMMA HostIsGone ==
  ASSUME ServersOK, NEW p \in Servers, HostEnds(p)
  PROVE  ServersOK'
<1>1. eof' = eof \cup {p}
      /\ UNCHANGED <<daemonVars, lease, link, phase, cancelled, call, claimed, due, renewVars,
                     presenceVars, severed, forgotten>>
  BY DEF HostEnds
<1>. QED BY <1>1, HintsOnly DEF ServersOK, ServerTypeOK, presenceVars

-----------------------------------------------------------------------------
(* The daemon, the other sessions and time.                                     *)

LEMMA ConnectionBreaks ==
  ASSUME ServersOK, NEW p \in Servers, Sever(p)
  PROVE  ServersOK'
<1>1. /\ link[p] \in Connected /\ breaks < MaxBreaks /\ breaks' = breaks + 1
      /\ link' = [link EXCEPT ![p] = "broken"]
      /\ lease' = [k \in Keys |-> Orphaned(lease[k], p)]
      /\ severed' = severed \cup {p}
      /\ UNCHANGED <<up, lifeVars, call, claimed, due, renewVars, presenceVars, forgotten>>
  BY DEF Sever
<1>2. ServerOK(p) /\ lease \in [Keys -> Rows]
  BY Typed
<1>3. lease' \in [Keys -> Rows]
      /\ \A k \in Keys : /\ lease'[k].who = lease[k].who /\ lease'[k].left = lease[k].left
                         /\ lease[k].who # p => lease'[k] = lease[k]
  BY <1>1, <1>2, RowForms
<1>4. breaks' \in 0..MaxBreaks
  BY <1>1, BoundsAssumption DEF ServersOK, ServerTypeOK
<1>5. ServerTypeOK'
  BY <1>1, <1>3, <1>4 DEF ServersOK, ServerTypeOK, Rows, lifeVars, renewVars, presenceVars
<1>6. RowsLive'
  BY <1>3 DEF ServersOK, RowsLive
<1>7. \A q \in Servers : q # p => Aside(q)
  <2> SUFFICES ASSUME NEW q \in Servers, q # p PROVE Aside(q)
    OBVIOUS
  <2>1. \A k \in Keys : lease'[k] = lease[k] \/ (lease[k].who # q /\ lease'[k].who # q)
    BY <1>3
  <2>. QED BY <1>1, <2>1 DEF ServersOK, ServerTypeOK, Aside, lifeVars, renewVars, presenceVars
<1>8. ServerOK(p)'
  <2>1. /\ UNCHANGED <<up, phase, cancelled, call, claimed, due, pass, stale, size, slot, pres, forgotten>>
        /\ link'[p] = "broken" /\ p \in severed'
    BY <1>1 DEF lifeVars, renewVars, presenceVars, ServersOK, ServerTypeOK
  <2>2. LinkOK(p)'
    BY <2>1 DEF LinkOK, Unbroken, Connected
  <2>3. LifeOK(p)'
    <3>1. phase[p] # "unborn"
      BY <1>1, <1>2 DEF ServerOK, LifeOK, Connected
    <3>. QED BY <1>2, <2>1, <3>1 DEF ServerOK, LifeOK
  <2>4. ASSUME p \in Integrators PROVE (IntegratorOK(p) /\ SlotKept(p) /\ SlotKnown(p))'
    BY <1>2, <1>3, <2>1, <2>4 DEF ServerOK, IntegratorOK, SlotKept, SlotKnown, Unbroken,
       FirstSlot, LastSlot
  <2>5. ASSUME p \in Builders PROVE (BuilderOK(p) /\ ClaimsKept(p) /\ ClaimsKnown(p))'
    BY <1>2, <2>1, <2>5 DEF ServerOK, BuilderOK, ClaimsKept, ClaimsKnown, Unbroken,
       InFlight, Releasing
  <2>. QED BY <2>2, <2>3, <2>4, <2>5 DEF ServerOK
<1>. QED BY <1>1, <1>5, <1>6, <1>7, <1>8, OneSteps DEF ServersOK, presenceVars

LEMMA DaemonGoes ==
  ASSUME ServersOK, Outage
  PROVE  ServersOK'
<1>1. /\ breaks < MaxBreaks /\ up' = FALSE /\ breaks' = breaks + 1
      /\ lease' = [k \in Keys |-> Orphaned(lease[k], lease[k].who)]
      /\ link' = [p \in Servers |-> IF link[p] \in Connected THEN "broken" ELSE link[p]]
      /\ severed' = severed \cup {p \in Servers : link[p] \in Connected}
      /\ UNCHANGED <<lifeVars, call, claimed, due, renewVars, presenceVars, forgotten>>
  BY DEF Outage
<1>2. lease \in [Keys -> Rows] /\ "none" \notin Connected /\ "broken" \notin Connected
  BY Typed DEF Connected
<1>3. lease' \in [Keys -> Rows]
      /\ \A k \in Keys : lease'[k].who = lease[k].who /\ lease'[k].left = lease[k].left
  BY <1>1, <1>2, RowForms
<1>4. breaks' \in 0..MaxBreaks
  BY <1>1, BoundsAssumption DEF ServersOK, ServerTypeOK
<1>5. ServerTypeOK'
  BY <1>1, <1>3, <1>4 DEF ServersOK, ServerTypeOK, Rows, lifeVars, renewVars, presenceVars
<1>6. RowsLive'
  BY <1>3 DEF ServersOK, RowsLive
<1>7. ASSUME NEW q \in Servers PROVE ServerOK(q)'
  <2>1. /\ UNCHANGED <<phase, cancelled, call, claimed, due, pass, stale, size, slot, pres, forgotten>>
        /\ link'[q] = (IF link[q] \in Connected THEN "broken" ELSE link[q])
        /\ q \in severed' <=> q \in severed \/ link[q] \in Connected
    BY <1>1 DEF lifeVars, renewVars, presenceVars
  <2>2. ServerOK(q)
    BY Typed
  <2>3. link'[q] \notin Connected /\ (link'[q] = "none" <=> link[q] = "none")
        /\ (Unbroken(q)' => Unbroken(q) /\ link[q] = "none")
    BY <1>2, <2>1, <2>2 DEF ServerOK, LinkOK, Unbroken
  <2>4. (LinkOK(q) /\ LifeOK(q))'
    BY <2>1, <2>2, <2>3 DEF ServerOK, LinkOK, LifeOK
  <2>5. ASSUME q \in Integrators PROVE (IntegratorOK(q) /\ SlotKept(q) /\ SlotKnown(q))'
    BY <1>2, <1>3, <2>1, <2>2, <2>3, <2>5 DEF ServerOK, IntegratorOK, SlotKept, SlotKnown,
       FirstSlot, LastSlot
  <2>6. ASSUME q \in Builders PROVE (BuilderOK(q) /\ ClaimsKept(q) /\ ClaimsKnown(q))'
    <3>1. BuilderOK(q)'
      BY <2>1, <2>2, <2>3, <2>6 DEF ServerOK, BuilderOK, Unbroken, InFlight, Releasing
    <3>2. Unbroken(q)' => claimed[q] = {} /\ \A k : ~Granted(q, k)'
      BY <2>1, <2>2, <2>3, <2>6 DEF ServerOK, BuilderOK, InFlight, Granted
    <3>3. ClaimsKept(q)'
      BY <2>1, <3>2 DEF ClaimsKept
    <3>4. ClaimsKnown(q)'
      BY <1>2, <1>3, <2>1, <2>2, <2>3, <2>6 DEF ServerOK, ClaimsKnown
    <3>. QED BY <3>1, <3>3, <3>4
  <2>. QED BY <2>4, <2>5, <2>6 DEF ServerOK
<1>. QED BY <1>5, <1>6, <1>7 DEF ServersOK

LEMMA DaemonReturns ==
  ASSUME ServersOK, Return
  PROVE  ServersOK'
<1>1. /\ ~up /\ up' = TRUE
      /\ UNCHANGED <<breaks, lease, link, lifeVars, call, claimed, due, renewVars, presenceVars,
                     severed, forgotten>>
  BY DEF Return
<1>2. ServerTypeOK'
  BY <1>1 DEF ServersOK, ServerTypeOK, lifeVars, renewVars, presenceVars
<1>3. RowsLive'
  BY <1>1 DEF ServersOK, RowsLive
<1>4. ASSUME NEW q \in Servers PROVE ServerOK(q)'
  <2>1. /\ UNCHANGED <<phase, lease, link, cancelled, call, claimed, due, pass, stale, size, slot,
                       pres, severed, forgotten>> /\ up'
    BY <1>1 DEF lifeVars, renewVars, presenceVars
  <2>2. ServerOK(q)
    BY Typed
  <2>4. (LinkOK(q) /\ LifeOK(q))'
    BY <2>1, <2>2 DEF ServerOK, LinkOK, LifeOK, Unbroken
  <2>5. ASSUME q \in Integrators PROVE (IntegratorOK(q) /\ SlotKept(q) /\ SlotKnown(q))'
    BY <2>1, <2>2, <2>5 DEF ServerOK, IntegratorOK, SlotKept, SlotKnown, Unbroken, Kept, SlotMargin,
       FirstSlot, LastSlot
  <2>6. ASSUME q \in Builders PROVE (BuilderOK(q) /\ ClaimsKept(q) /\ ClaimsKnown(q))'
    BY <2>1, <2>2, <2>6 DEF ServerOK, BuilderOK, ClaimsKept, ClaimsKnown, Unbroken, Kept, ClaimMargin,
       InFlight, Granted, Releasing
  <2>. QED BY <2>4, <2>5, <2>6 DEF ServerOK
<1>. QED BY <1>2, <1>3, <1>4 DEF ServersOK

LEMMA OthersCompete ==
  ASSUME ServersOK, Compete
  PROVE  ServersOK'
<1>1. UNCHANGED <<daemonVars, link, lifeVars, call, claimed, due, renewVars, presenceVars,
                  severed, forgotten>>
  BY DEF Compete
<1>2. lease \in [Keys -> Rows] /\ Paths \subseteq Keys /\ Nobody \notin Servers /\ Rival \notin Servers
  BY Typed, KeysOf
<1> DEFINE theirs == [who |-> Rival, as |-> "lost", left |-> TTL]
<1>3. /\ theirs \in Rows /\ theirs.who = Rival /\ theirs.left > 0
      /\ Free \in Rows /\ Free.who = Nobody
  <2>1. TTL \in 0..TTL /\ TTL > 0 /\ 0 \in 0..TTL
    BY KeysOf
  <2>. QED BY <2>1 DEF Rows, Free
<1>4. PICK f \in Paths :
        \/ lease[f].left = 0 /\ lease' = [lease EXCEPT ![f] = theirs]
        \/ lease[f].who = Rival /\ lease' = [lease EXCEPT ![f] = Free]
  BY DEF Compete
<1>5. lease[f].who \notin Servers
  BY <1>2, <1>4, Typed
<1> HIDE DEF theirs
<1>6. lease' \in [Keys -> Rows] /\ \A k \in Keys : k # f => lease'[k] = lease[k]
  BY <1>2, <1>3, <1>4
<1>7. lease'[f] = theirs \/ lease'[f] = Free
  BY <1>2, <1>4
<1>8. lease'[f].who \notin Servers
  BY <1>2, <1>3, <1>7
<1>9. RowsLive'
  <2> SUFFICES ASSUME NEW k \in Keys, lease'[k].who # Nobody PROVE lease'[k].left > 0
    BY DEF RowsLive
  <2>1. CASE k = f
    BY <2>1, <1>3, <1>7
  <2>2. CASE k # f
    BY <2>2, <1>6 DEF ServersOK, RowsLive
  <2>. QED BY <2>1, <2>2
<1>10. ServerTypeOK'
  BY <1>1, <1>6 DEF ServersOK, ServerTypeOK, Rows, daemonVars, lifeVars, renewVars, presenceVars
<1>11. ASSUME NEW q \in Servers PROVE ServerOK(q)'
  <2>1. \A k \in Keys : lease'[k] = lease[k] \/ (lease[k].who # q /\ lease'[k].who # q)
    BY <1>5, <1>6, <1>8
  <2>2. Aside(q)
    BY <1>1, <2>1 DEF Aside, lifeVars, renewVars, presenceVars
  <2>. QED BY <1>1, <2>2, AsideStays DEF ServersOK, daemonVars, presenceVars
<1>. QED BY <1>9, <1>10, <1>11 DEF ServersOK

LEMMA TimePasses ==
  ASSUME ServersOK, Tick
  PROVE  ServersOK'
<1>1. /\ due \subseteq cancelled
      /\ \A p \in Servers : phase[p] # "granted" /\ ~InFlight(p)
      /\ \A p \in Builders : pass[p] = {}
      /\ lease' = [k \in Keys |-> Aged(lease[k])]
      /\ due' = {p \in Servers : phase[p] = "serving" /\ p \notin cancelled}
      /\ UNCHANGED <<daemonVars, link, lifeVars, call, claimed, renewVars, presenceVars, severed,
                     forgotten>>
  BY DEF Tick
<1>2. lease \in [Keys -> Rows] /\ TTL \in Nat /\ TTL > 1 /\ Nobody \notin Servers
  BY Typed, KeysOf
<1>3. lease' \in [Keys -> Rows] /\ \A k \in Keys : lease'[k] = Aged(lease[k])
  BY <1>1, <1>2, RowForms
<1>4. ASSUME NEW k \in Keys, lease'[k].who # Nobody
      PROVE  lease[k].left > 1 /\ lease'[k].who = lease[k].who /\ lease'[k].as = lease[k].as
             /\ lease'[k].left = lease[k].left - 1
  BY <1>2, <1>3, <1>4, RowForms
<1>5. ASSUME NEW k \in Keys, lease[k].left >= TTL
      PROVE  lease'[k].who = lease[k].who /\ lease'[k].as = lease[k].as /\ lease'[k].left >= TTL - 1
  <2>1. lease[k].left \in Nat
    BY <1>2, RowForms
  <2>2. lease[k].left > 1
    BY <1>2, <1>5, <2>1
  <2>3. lease'[k].who = lease[k].who /\ lease'[k].as = lease[k].as /\ lease'[k].left = lease[k].left - 1
    BY <1>2, <1>3, <2>2, RowForms
  <2>. QED BY <1>2, <1>5, <2>1, <2>3
<1>6. ServerTypeOK'
  <2>1. due' \subseteq Servers
    BY <1>1
  <2>. QED BY <1>1, <1>3, <2>1 DEF ServersOK, ServerTypeOK, Rows, daemonVars, lifeVars, renewVars, presenceVars
<1>7. RowsLive'
  <2> SUFFICES ASSUME NEW k \in Keys, lease'[k].who # Nobody PROVE lease'[k].left > 0
    BY DEF RowsLive
  <2>1. lease[k].left \in Nat /\ lease[k].left > 1 /\ lease'[k].left = lease[k].left - 1
    BY <1>2, <1>4, RowForms
  <2>. QED BY <2>1
<1>8. ASSUME NEW q \in Servers PROVE ServerOK(q)'
  <2>1. /\ UNCHANGED <<up, phase, link, cancelled, call, claimed, pass, stale, size, slot, pres,
                       severed, forgotten>>
        /\ q \in due' <=> phase[q] = "serving" /\ q \notin cancelled
    BY <1>1 DEF daemonVars, lifeVars, renewVars, presenceVars
  <2>2. ServerOK(q)
    BY Typed
  <2>3. (LinkOK(q) /\ LifeOK(q))'
    BY <2>1, <2>2 DEF ServerOK, LinkOK, LifeOK, Unbroken
  <2>4. ASSUME q \in Integrators PROVE (IntegratorOK(q) /\ SlotKept(q) /\ SlotKnown(q))'
    <3>1. IntegratorOK(q)'
      BY <2>1, <2>2, <2>4 DEF ServerOK, IntegratorOK, FirstSlot, LastSlot
    <3>2. SlotKept(q)'
      <4> SUFFICES ASSUME Unbroken(q), q \notin cancelled, phase[q] \in {"granted", "serving"}
                   PROVE  link[q] \in Connected /\ Kept(q, slot[q], SlotMargin(q))'
        BY <2>1 DEF SlotKept, Unbroken
      <4>1. phase[q] = "serving" /\ q \in due' /\ q \notin due /\ slot[q] \in Keys
        BY <1>1, <2>1, <2>4, Typed
      <4>2. link[q] \in Connected /\ Kept(q, slot[q], TTL)
        BY <2>2, <2>4, <4>1 DEF ServerOK, SlotKept, SlotMargin
      <4>3. SlotMargin(q)' = TTL - 1
        BY <4>1 DEF SlotMargin
      <4>4. lease'[slot[q]].who = q /\ lease'[slot[q]].as = link[q] /\ lease'[slot[q]].left >= TTL - 1
        BY <1>5, <4>1, <4>2 DEF Kept
      <4>. QED BY <2>1, <4>2, <4>3, <4>4 DEF Kept
    <3>3. SlotKnown(q)'
      <4>1. \A k \in Keys : lease'[k].who = q => lease[k].who = q /\ lease'[k].as = lease[k].as
        BY <1>2, <1>4
      <4>. QED BY <2>1, <2>2, <2>4, <4>1 DEF ServerOK, SlotKnown, Unbroken
    <3>. QED BY <3>1, <3>2, <3>3
  <2>5. ASSUME q \in Builders PROVE (BuilderOK(q) /\ ClaimsKept(q) /\ ClaimsKnown(q))'
    <3>1. BuilderOK(q)'
      BY <2>1, <2>2, <2>5 DEF ServerOK, BuilderOK, Unbroken, InFlight, Releasing
    <3>2. ClaimsKept(q)'
      <4> SUFFICES ASSUME Unbroken(q), q \notin cancelled, phase[q] = "serving"
                   PROVE  /\ \A k \in claimed[q] : Kept(q, k, ClaimMargin(q, k))'
                          /\ \A k \in Keys : ~Granted(q, k)
                          /\ claimed[q] # {} => link[q] \in Connected
        BY <2>1 DEF ClaimsKept, Unbroken, Granted
      <4>1. q \in due' /\ q \notin due /\ pass[q] = {} /\ ~InFlight(q) /\ claimed[q] \subseteq Keys
        BY <1>1, <2>1, <2>5, KeysOf DEF ServersOK, ServerTypeOK
      <4>2. /\ \A k \in claimed[q] : Kept(q, k, TTL)
            /\ claimed[q] # {} => link[q] \in Connected
        BY <2>2, <2>5, <4>1 DEF ServerOK, ClaimsKept, ClaimMargin
      <4>3. \A k \in Keys : ~Granted(q, k)
        BY <4>1 DEF InFlight, Granted
      <4>4. ASSUME NEW k \in claimed[q] PROVE Kept(q, k, ClaimMargin(q, k))'
        <5>1. ClaimMargin(q, k)' = TTL - 1
          BY <4>1 DEF ClaimMargin
        <5>2. lease'[k].who = q /\ lease'[k].as = link[q] /\ lease'[k].left >= TTL - 1
          BY <1>5, <4>1, <4>2 DEF Kept
        <5>. QED BY <2>1, <5>1, <5>2 DEF Kept
      <4>. QED BY <4>2, <4>3, <4>4
    <3>3. ClaimsKnown(q)'
      <4>1. \A k \in Keys : lease'[k].who = q => lease[k].who = q /\ lease'[k].as = lease[k].as
        BY <1>2, <1>4
      <4>. QED BY <2>1, <2>2, <2>5, <4>1 DEF ServerOK, ClaimsKnown, Unbroken, Granted, Releasing
    <3>. QED BY <3>1, <3>2, <3>3
  <2>. QED BY <2>3, <2>4, <2>5 DEF ServerOK
<1>. QED BY <1>6, <1>7, <1>8 DEF ServersOK

-----------------------------------------------------------------------------
(* The commands, and all together.                                              *)

LEMMA ServersInitially == Init => ServersInv
<1> SUFFICES ASSUME Init PROVE ServersInv
  OBVIOUS
<1> USE DEF Init, ServerInit
<1>1. /\ FirstSlot \in Slots /\ FirstSlot \in FirstSlot..LastSlot /\ TTL \in Nat /\ 0 \in 0..TTL
      /\ 0 \in 0..MaxBreaks /\ 0 \in Slots /\ Rapid > 0 /\ 0 \in 0..Rapid
  BY SlotsRange, KeysOf, BoundsAssumption, RapidAssumption
<1>2. Free \in Rows /\ Free.who = Nobody
  BY <1>1 DEF Free, Rows
<1>3. Idle \in Calls /\ Plain(Idle) /\ Idle # Review
  BY DEF Calls, Plain, Idle, Review
<1>4. ServerTypeOK
  <2>1. lease \in [Keys -> Rows] /\ call \in [Servers -> Calls]
    BY <1>2, <1>3
  <2>. QED BY <1>1, <2>1 DEF ServerTypeOK, Rows, Calls
<1>5. RowsLive
  BY <1>2 DEF RowsLive
<1>6. ASSUME NEW q \in Servers PROVE ServerOK(q)
  <2>1. /\ link[q] = "none" /\ phase[q] = "unborn" /\ q \notin due /\ call[q] = Idle
        /\ \A k \in Keys : lease[k].who # q
    BY <1>2, KeysOf
  <2>2. ~InFlight(q) /\ \A k : ~Granted(q, k) /\ ~Releasing(q, k)
    BY <1>3, <2>1, PlainCall
  <2>3. LinkOK(q) /\ LifeOK(q)
    BY <2>1 DEF LinkOK, LifeOK, Connected
  <2>4. ASSUME q \in Integrators PROVE IntegratorOK(q) /\ SlotKept(q) /\ SlotKnown(q)
    BY <1>1, <2>1, <2>4 DEF IntegratorOK, SlotKept, SlotKnown
  <2>5. ASSUME q \in Builders PROVE BuilderOK(q) /\ ClaimsKept(q) /\ ClaimsKnown(q)
    BY <1>3, <2>1, <2>2, <2>5 DEF BuilderOK, ClaimsKept, ClaimsKnown
  <2>. QED BY <2>3, <2>4, <2>5 DEF ServerOK
<1>7. RunTypeOK /\ CommandsOK
  <2>1. Off.at = "off" /\ Off \in [at : {"off", "read", "sweep", "signal", "wait"}, slot : Slots,
               pid : Integrators \cup {Nobody}]
    BY <1>1 DEF Off
  <2>2. stop = Off
    OBVIOUS
  <2>3. RunTypeOK
    BY <1>1, <1>4, <2>1, <2>2 DEF RunTypeOK
  <2>4. CommandsOK
    BY <1>1, <2>1, <2>2 DEF CommandsOK
  <2>. QED BY <2>3, <2>4
<1>. QED BY <1>4, <1>5, <1>6, <1>7 DEF ServersInv, ServersOK

LEMMA ServersStep ==
  ASSUME ServersOK, ServerNext
  PROVE  ServersOK'
<1>1. ASSUME NEW p \in Servers, Start(p) \/ Begin(p) \/ ToolStep(p) \/ HostEnds(p) \/ Kill(p) \/ Sever(p)
      PROVE  ServersOK'
  <2>1. CASE ToolStep(p)
    BY <2>1, FirstCallDials, CallIsRetried, PathIsClaimed, ClaimIsAnswered, RenewingStops,
       PathIsReleased, ReviewEnds, ServerLeaves, ServerShutsDown DEF ToolStep
  <2>. QED BY <1>1, <2>1, ServerStarts, CallBegins, HostIsGone, ServerIsKilled, ConnectionBreaks
<1>2. ASSUME NEW p \in Builders, Renewal(p)
      PROVE  ServersOK'
  BY <1>2, RenewalBegins, ClaimIsRenewed, ClaimIsUntracked DEF Renewal
<1>3. ASSUME NEW p \in Integrators, Join(p) \/ Presence(p)
      PROVE  ServersOK'
  <2>1. CASE Join(p)
    BY <2>1, JoinsUnverified, JoinRedialsStep, JoinsSlot, SlotIsTaken, PidfileIsWritten DEF Join
  <2>2. CASE Presence(p)
    BY <2>2, PresenceIsKept, SlotIsReleased, PidfileIsRemoved DEF Presence
  <2>. QED BY <1>3, <2>1, <2>2
<1>. QED BY <1>1, <1>2, <1>3, DaemonGoes, DaemonReturns, OthersCompete, TimePasses DEF ServerNext

LEMMA ServersUnchanged ==
  ASSUME ServersOK, UNCHANGED serverVars
  PROVE  ServersOK'
BY HintsOnly DEF serverVars, ServersOK, ServerTypeOK, presenceVars, lifeVars

\* What the commands remember.
RunVars == <<wrap, child, crashes, stop>>
RunTypes ==
  /\ wrap \in [Wrappers -> {"idle", "running", "crashed", "parked", "retry", "backoff",
                            "opening", "opened", "done"}]
  /\ child \in [Wrappers -> Integrators \cup {Nobody}]
  /\ crashes \in [Wrappers -> 0..Rapid]
  /\ stop \in [at : {"off", "read", "sweep", "signal", "wait"}, slot : Slots,
               pid : Integrators \cup {Nobody}]

LEMMA WrapperOnly ==
  ASSUME RunTypes, CommandsOK, NEW w \in Wrappers, UNCHANGED stop,
         NEW s \in {"idle", "running", "crashed", "parked", "retry", "backoff", "opening",
                    "opened", "done"}, wrap' = [wrap EXCEPT ![w] = s],
         NEW c \in Integrators \cup {Nobody}, child' = [child EXCEPT ![w] = c],
         NEW n \in 0..Rapid, crashes' = [crashes EXCEPT ![w] = n],
         s = "running" => c \in Integrators,
         s \notin {"crashed", "parked", "done"} => n < Rapid
  PROVE  RunTypes' /\ CommandsOK'
<1>1. RunTypes'
  BY DEF RunTypes
<1>2. CommandsOK'
  BY DEF RunTypes, CommandsOK
<1>. QED BY <1>1, <1>2

LEMMA StopOnly ==
  ASSUME RunTypes, CommandsOK, UNCHANGED <<wrap, child, crashes>>,
         NEW a \in {"off", "read", "sweep", "signal", "wait"}, NEW s \in Slots,
         NEW q \in Integrators \cup {Nobody}, stop' = [at |-> a, slot |-> s, pid |-> q],
         a \in {"signal", "wait"} => q \in Integrators
  PROVE  RunTypes' /\ CommandsOK'
BY DEF RunTypes, CommandsOK

LEMMA AgentsEnd ==
  ASSUME ServersOK, NEW w \in Wrappers, AgentEnds(w), wrap[w] = "running" => child[w] \in Integrators,
         UNCHANGED <<daemonVars, lease, link, phase, cancelled, call, claimed, due, renewVars,
                     presenceVars, severed, forgotten>>
  PROVE  ServersOK'
<1>1. child[w] \in Servers /\ eof \subseteq Servers /\ cancelled \subseteq Servers
      /\ pidfile \in [Slots -> Integrators \cup {Nobody}]
  BY KeysOf DEF AgentEnds, ServersOK, ServerTypeOK
<1>2. eof' \subseteq Servers
  BY <1>1 DEF AgentEnds
<1>. QED BY <1>1, <1>2, HintsOnly DEF presenceVars

LEMMA WrapperSteps ==
  ASSUME ServersInv, NEW w \in Wrappers,
         \/ StartInspects(w) \/ PromptInspects(w) \/ StartIntegrator(w) \/ RunOnce(w)
         \/ AgentStops(w) \/ AgentCrashes(w) \/ Enter(w) \/ WrapperStep(w)
  PROVE  ServersOK' /\ RunTypes' /\ CommandsOK'
<1>1. ServersOK /\ RunTypes /\ CommandsOK /\ UNCHANGED stop
  BY DEF ServersInv, RunTypeOK, RunTypes, StartInspects, PromptInspects, StartIntegrator, RunOnce,
         AgentStops, AgentCrashes, Enter, WrapperStep, Park, Inspect
<1>2. /\ wrap \in [Wrappers -> {"idle", "running", "crashed", "parked", "retry", "backoff",
                                "opening", "opened", "done"}]
      /\ child \in [Wrappers -> Integrators \cup {Nobody}] /\ crashes \in [Wrappers -> 0..Rapid]
      /\ Rapid \in Nat /\ Rapid > 0 /\ crashes[w] \in Nat /\ crashes[w] <= Rapid
      /\ wrap[w] = "running" => child[w] \in Integrators
      /\ wrap[w] \notin {"crashed", "parked", "done"} => crashes[w] < Rapid
  BY <1>1, RapidAssumption DEF RunTypes, CommandsOK
<1>3. wrap = [wrap EXCEPT ![w] = wrap[w]] /\ child = [child EXCEPT ![w] = child[w]]
      /\ crashes = [crashes EXCEPT ![w] = crashes[w]]
      /\ child[w] \in Integrators \cup {Nobody} /\ crashes[w] \in 0..Rapid
  BY <1>2
<1>4. CASE StartInspects(w) \/ PromptInspects(w)
  <2>1. wrap' = [wrap EXCEPT ![w] = "opening"] /\ crashes[w] < Rapid
        /\ UNCHANGED <<serverVars, child, crashes>>
    BY <1>2, <1>4 DEF StartInspects, PromptInspects
  <2>2. RunTypes' /\ CommandsOK'
    BY <1>1, <1>3, <2>1, WrapperOnly
  <2>. QED BY <1>1, <2>1, <2>2, ServersUnchanged
<1>5. CASE StartIntegrator(w)
  <2>1. PICK s \in {"opened", "idle"} : wrap' = [wrap EXCEPT ![w] = s]
    BY <1>5 DEF StartIntegrator, OpenIntegratorTerminal
  <2>2. crashes[w] < Rapid /\ UNCHANGED <<serverVars, child, crashes>>
    BY <1>2, <1>5 DEF StartIntegrator
  <2>3. RunTypes' /\ CommandsOK'
    BY <1>1, <1>3, <2>1, <2>2, WrapperOnly
  <2>. QED BY <1>1, <2>2, <2>3, ServersUnchanged
<1>6. CASE RunOnce(w)
  <2>1. PICK p \in Integrators : Start(p) /\ child' = [child EXCEPT ![w] = p]
    BY <1>6 DEF RunOnce
  <2>2. wrap' = [wrap EXCEPT ![w] = "running"] /\ crashes[w] < Rapid /\ UNCHANGED crashes
    BY <1>2, <1>6 DEF RunOnce
  <2>3. RunTypes' /\ CommandsOK'
    BY <1>1, <1>3, <2>1, <2>2, WrapperOnly
  <2>. QED BY <1>1, <2>1, <2>3, KeysOf, ServerStarts
<1>7. CASE AgentStops(w)
  <2>1. wrap' = [wrap EXCEPT ![w] = "done"] /\ UNCHANGED <<child, crashes>>
    BY <1>7 DEF AgentStops
  <2>2. RunTypes' /\ CommandsOK'
    BY <1>1, <1>3, <2>1, WrapperOnly
  <2>3. ServersOK'
    BY <1>1, <1>2, <1>7, AgentsEnd DEF AgentStops
  <2>. QED BY <2>2, <2>3
<1>8. CASE AgentCrashes(w)
  <2>1. PICK n \in 1..(crashes[w] + 1) : crashes' = [crashes EXCEPT ![w] = n]
    BY <1>8 DEF AgentCrashes
  <2>2. wrap' = [wrap EXCEPT ![w] = "crashed"] /\ crashes[w] < Rapid /\ UNCHANGED child
    BY <1>2, <1>8 DEF AgentCrashes, AgentEnds
  <2>3. n \in 0..Rapid
    BY <1>2, <2>1, <2>2
  <2>4. RunTypes' /\ CommandsOK'
    BY <1>1, <1>3, <2>1, <2>2, <2>3, WrapperOnly
  <2>5. ServersOK'
    BY <1>1, <1>2, <1>8, AgentsEnd DEF AgentCrashes
  <2>. QED BY <2>4, <2>5
<1>9. CASE Enter(w)
  <2>1. UNCHANGED <<serverVars, child>>
    BY <1>9 DEF Enter
  <2>2. CASE wrap' = [wrap EXCEPT ![w] = "retry"] /\ crashes' = [crashes EXCEPT ![w] = 0]
    <3>1. 0 \in 0..Rapid /\ 0 < Rapid
      BY <1>2
    <3>. QED BY <1>1, <1>3, <2>1, <2>2, <3>1, WrapperOnly, ServersUnchanged
  <2>3. CASE wrap' = [wrap EXCEPT ![w] = "done"] /\ UNCHANGED crashes
    BY <1>1, <1>3, <2>1, <2>3, WrapperOnly, ServersUnchanged
  <2>. QED BY <1>9, <2>2, <2>3 DEF Enter
<1>10. CASE WrapperStep(w)
  <2>1. UNCHANGED <<serverVars, child, crashes>>
    BY <1>10 DEF WrapperStep, Park, Inspect
  <2>2. \E s \in {"parked", "done", "backoff"} :
          wrap' = [wrap EXCEPT ![w] = s] /\ (s = "backoff" => crashes[w] < Rapid)
    <3>1. CASE Park(w)
      BY <3>1 DEF Park
    <3>2. CASE Inspect(w)
      <4>1. crashes[w] < Rapid
        BY <1>2, <3>2 DEF Inspect
      <4>. QED BY <3>2, <4>1 DEF Inspect
    <3>. QED BY <1>10, <3>1, <3>2 DEF WrapperStep
  <2>3. PICK s \in {"parked", "done", "backoff"} :
          wrap' = [wrap EXCEPT ![w] = s] /\ (s = "backoff" => crashes[w] < Rapid)
    BY <2>2
  <2>4. RunTypes' /\ CommandsOK'
    BY <1>1, <1>3, <2>1, <2>3, WrapperOnly
  <2>. QED BY <1>1, <2>1, <2>4, ServersUnchanged
<1>. QED BY <1>4, <1>5, <1>6, <1>7, <1>8, <1>9, <1>10

LEMMA StopSteps ==
  ASSUME ServersInv, StopBegins \/ StopReads \/ StopSweeps \/ StopSignals \/ StopWaits
  PROVE  ServersOK' /\ RunTypes' /\ CommandsOK'
<1>1. ServersOK /\ RunTypes /\ CommandsOK /\ UNCHANGED <<wrap, child, crashes>>
  BY DEF ServersInv, RunTypeOK, RunTypes, StopBegins, StopReads, StopSweeps, StopSignals, StopWaits
<1>2. /\ stop = [at |-> stop.at, slot |-> stop.slot, pid |-> stop.pid]
      /\ stop.slot \in Slots /\ stop.pid \in Integrators \cup {Nobody}
      /\ stop.at \in {"signal", "wait"} => stop.pid \in Integrators
  BY <1>1 DEF RunTypes, CommandsOK
<1>3. /\ eof \subseteq Servers /\ cancelled \subseteq Servers /\ 0 \in Slots
      /\ pidfile \in [Slots -> Integrators \cup {Nobody}]
  BY <1>1, KeysOf DEF ServersOK, ServerTypeOK
<1>4. CASE StopBegins
  <2>1. PICK s \in Slots : stop' = [at |-> "read", slot |-> s, pid |-> Nobody]
    BY <1>4 DEF StopBegins, Off
  <2>2. RunTypes' /\ CommandsOK'
    BY <1>1, <2>1, StopOnly
  <2>. QED BY <1>1, <1>4, <2>2, ServersUnchanged DEF StopBegins
<1>5. CASE StopReads
  <2>1. CASE Signallable(stop.slot)
    <3>1. stop' = [at |-> "signal", slot |-> stop.slot, pid |-> pidfile[stop.slot]]
          /\ pidfile[stop.slot] \in Integrators
      BY <1>2, <1>3, <1>5, <2>1 DEF StopReads, Signallable
    <3>2. RunTypes' /\ CommandsOK'
      BY <1>1, <1>2, <3>1, StopOnly
    <3>. QED BY <1>1, <1>5, <3>2, ServersUnchanged DEF StopReads
  <2>2. CASE ~Signallable(stop.slot)
    <3>1. stop' = [at |-> "sweep", slot |-> stop.slot, pid |-> stop.pid]
      BY <1>2, <1>5, <2>2 DEF StopReads
    <3>2. RunTypes' /\ CommandsOK'
      BY <1>1, <1>2, <3>1, StopOnly
    <3>. QED BY <1>1, <1>5, <3>2, ServersUnchanged DEF StopReads
  <2>. QED BY <2>1, <2>2
<1>6. CASE StopSweeps
  <2>1. stop' = [at |-> "off", slot |-> 0, pid |-> Nobody]
        /\ pidfile' = [pidfile EXCEPT ![stop.slot] = Nobody]
        /\ UNCHANGED <<daemonVars, lease, link, phase, cancelled, eof, call, claimed, due, renewVars,
                       size, slot, pres, wrote, severed, forgotten>>
    BY <1>6 DEF StopSweeps, Off, lifeVars
  <2>2. RunTypes' /\ CommandsOK'
    BY <1>1, <1>3, <2>1, StopOnly
  <2>3. pidfile' \in [Slots -> Integrators \cup {Nobody}]
    BY <1>3, <2>1
  <2>. QED BY <1>1, <1>3, <2>1, <2>2, <2>3, HintsOnly
<1>7. CASE StopSignals
  <2>1. stop' = [at |-> "wait", slot |-> stop.slot, pid |-> stop.pid] /\ stop.pid \in Integrators
        /\ UNCHANGED <<daemonVars, lease, link, phase, eof, call, claimed, due, renewVars,
                       pidfile, size, slot, pres, wrote, severed, forgotten>>
    BY <1>2, <1>7 DEF StopSignals, presenceVars
  <2>2. RunTypes' /\ CommandsOK'
    BY <1>1, <1>2, <2>1, StopOnly
  <2>3. cancelled' \subseteq Servers /\ cancelled \subseteq cancelled'
    BY <1>3, <1>7, <2>1, KeysOf DEF StopSignals, Signal
  <2>. QED BY <1>1, <1>3, <2>1, <2>2, <2>3, HintsOnly
<1>8. CASE StopWaits
  <2>1. stop.pid \in Integrators /\ stop.pid \in Servers
    BY <1>2, <1>8, KeysOf DEF StopWaits
  <2>2. \/ stop' = [at |-> "sweep", slot |-> stop.slot, pid |-> stop.pid]
        \/ stop' = [at |-> "off", slot |-> 0, pid |-> Nobody]
    BY <1>2, <1>8 DEF StopWaits, Off
  <2>3. RunTypes' /\ CommandsOK'
    BY <1>1, <1>2, <1>3, <2>2, StopOnly
  <2>4. UNCHANGED serverVars \/ Kill(stop.pid)
    BY <1>8 DEF StopWaits
  <2>. QED BY <1>1, <2>1, <2>3, <2>4, ServersUnchanged, ServerIsKilled
<1>. QED BY <1>4, <1>5, <1>6, <1>7, <1>8

LEMMA RunStep == ServersInv /\ [Next]_vars => ServersInv'
<1> SUFFICES ASSUME ServersInv, [Next]_vars PROVE ServersInv'
  OBVIOUS
<1>1. ServersOK /\ RunTypes /\ CommandsOK
  BY DEF ServersInv, RunTypeOK, RunTypes
<1>2. ServersOK' /\ RunTypes' /\ CommandsOK'
  <2>1. CASE UNCHANGED <<wrap, child, crashes, stop>> /\ (ServerNext \/ UNCHANGED serverVars)
    <3>1. RunTypes' /\ CommandsOK'
      BY <1>1, <2>1 DEF RunTypes, CommandsOK
    <3>. QED BY <1>1, <2>1, <3>1, ServersStep, ServersUnchanged
  <2>2. CASE \E w \in Wrappers :
               \/ StartInspects(w) \/ PromptInspects(w) \/ StartIntegrator(w) \/ RunOnce(w)
               \/ AgentStops(w) \/ AgentCrashes(w) \/ Enter(w) \/ WrapperStep(w)
    BY <2>2, WrapperSteps
  <2>3. CASE StopBegins \/ StopReads \/ StopSweeps \/ StopSignals \/ StopWaits
    BY <2>3, StopSteps
  <2>. QED BY <2>1, <2>2, <2>3 DEF Next, vars
<1>. QED BY <1>2 DEF ServersInv, ServersOK, RunTypeOK, RunTypes

\* What they hold, they hold in the identity of their connection.
LEMMA HeldWhileLinked == ServersInv => KeptWhileLinked
<1> SUFFICES ASSUME ServersInv, NEW p \in Servers, phase[p] = "serving", p \notin severed \cup cancelled
             PROVE  IF p \in Integrators THEN Mine(p, slot[p]) ELSE \A f \in claimed[p] : Mine(p, f)
  BY DEF KeptWhileLinked
<1>1. ServersOK /\ ServerOK(p) /\ Unbroken(p) /\ TTL \in Nat /\ TTL > 1
  BY Typed, KeysOf DEF ServersInv, Unbroken
<1>2. ASSUME NEW k \in Keys, NEW n \in {TTL - 1, TTL}, Kept(p, k, n), link[p] \in Connected
      PROVE  Mine(p, k)
  <2>1. lease[k].left \in Nat /\ lease[k].left >= n
    BY <1>1, <1>2, Typed, RowForms DEF Kept
  <2>2. lease[k].left > 0
    BY <1>1, <2>1
  <2>. QED BY <1>2, <2>2 DEF Kept, Mine, Holds
<1>3. CASE p \in Integrators
  <2>1. link[p] \in Connected /\ Kept(p, slot[p], SlotMargin(p)) /\ slot[p] \in Keys
    BY <1>1, <1>3, Typed DEF ServerOK, SlotKept
  <2>. QED BY <1>2, <1>3, <2>1 DEF SlotMargin
<1>4. CASE p \notin Integrators
  <2>1. SUFFICES ASSUME NEW f \in claimed[p] PROVE Mine(p, f)
    BY <1>4
  <2>2. p \in Builders /\ f \in Keys
    BY <1>1, <1>4, KeysOf DEF ServersOK, ServerTypeOK
  <2>3. link[p] \in Connected /\ Kept(p, f, ClaimMargin(p, f))
    BY <1>1, <2>2 DEF ServerOK, ClaimsKept
  <2>. QED BY <1>2, <2>2, <2>3 DEF ClaimMargin
<1>. QED BY <1>3, <1>4

\* No two of the servers that hold a slot hold the same.
LEMMA SlotsForServers == ServersInv => AtMostPoolServe
<1> SUFFICES ASSUME ServersInv PROVE AtMostPoolServe
  OBVIOUS
<1> DEFINE S == {p \in Integrators : phase[p] = "serving" /\ p \notin severed \cup cancelled}
           T == FirstSlot..LastSlot
           f == [p \in S |-> slot[p]]
<1>1. ServersOK /\ size \in 1..99 /\ FirstSlot \in Nat /\ LastSlot \in Nat
  BY SlotsRange, BoundsAssumption DEF ServersInv, ServersOK, ServerTypeOK
<1>2. ASSUME NEW p \in S PROVE slot[p] \in T /\ lease[slot[p]].who = p
  BY <1>1, Typed, KeysOf DEF ServerOK, IntegratorOK, SlotKept, Kept, Unbroken
<1>3. f \in Injection(S, T)
  <2>1. f \in [S -> T]
    BY <1>2
  <2>2. \A x, y \in S : f[x] = f[y] => x = y
    BY <1>2
  <2>. QED BY <2>1, <2>2 DEF Injection, IsInjective
<1>4. IsFiniteSet(T) /\ Cardinality(T) = size
  <2>1. FirstSlot \in Int /\ LastSlot \in Int /\ FirstSlot <= LastSlot /\ LastSlot - FirstSlot + 1 = size
    BY <1>1 DEF FirstSlot, LastSlot
  <2>2. IsFiniteSet(T) /\ Cardinality(T) = IF FirstSlot > LastSlot THEN 0 ELSE LastSlot - FirstSlot + 1
    BY <2>1, FS_Interval
  <2>. QED BY <2>1, <2>2
<1>5. Cardinality(S) <= Cardinality(T)
  <2> HIDE DEF S, T, f
  <2>. QED BY <1>3, <1>4, FS_Injection
<1>. QED BY <1>4, <1>5 DEF AtMostPoolServe

LEMMA ExitsFree == ServersInv => CleanExitFrees
<1> SUFFICES ASSUME ServersInv, NEW p \in Servers, NEW k \in Keys, phase[p] = "gone",
                    p \notin severed, lease[k].who = p
             PROVE  <<p, k>> \in forgotten
  BY DEF CleanExitFrees
<1>1. ServerOK(p) /\ Unbroken(p) /\ (p \in Integrators \/ p \in Builders)
  BY Typed, KeysOf DEF ServersInv, Unbroken
<1>. QED BY <1>1 DEF ServerOK, SlotKnown, ClaimsKnown

\* The renewal and presence goroutines against the time to live: while its connection has not
\* broken, a builder holds every path it tracks and an integrator its slot, whatever the other
\* servers, the wrappers and `integrator stop` do (renewAll, presenceRenewLoop).
THEOREM ServersKeepTheirOwn == Spec => []KeptWhileLinked
<1>1. Init => ServersInv
  BY ServersInitially
<1>2. ServersInv /\ [Next]_vars => ServersInv'
  BY RunStep
<1>3. ServersInv => KeptWhileLinked
  BY HeldWhileLinked
<1>. QED BY <1>1, <1>2, <1>3, PTL DEF Spec

\* The integrator pool over the leases: no more integrators serve than there are slots, and a
\* server that ends in order leaves no lease it still knew of (acquireIntegratorPresence,
\* shutdown, runIntegratorStop).
THEOREM SlotsForFew == Spec => []IntegratorInv
<1>1. Init => ServersInv
  BY ServersInitially
<1>2. ServersInv /\ [Next]_vars => ServersInv'
  BY RunStep
<1>3. ServersInv => IntegratorInv
  BY SlotsForServers, ExitsFree DEF ServersInv, IntegratorInv
<1>. QED BY <1>1, <1>2, <1>3, PTL DEF Spec
==============================================================================
