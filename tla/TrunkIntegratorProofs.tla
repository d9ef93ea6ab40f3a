------------------------ MODULE TrunkIntegratorProofs ------------------------
(* Theorems about the integrator, for every set of integrations, sessions and *)
(* goroutines, whatever conflicts and however often branches move.            *)
EXTENDS TrunkIntegrator, SequenceTheorems, TLAPS

LEMMA CallFields ==
  ASSUME TypeOK, NEW p \in Procs, calls[p].pc # "idle"
  PROVE  /\ calls[p] \in Call /\ calls[p] # Idle
         /\ calls[p].id \in Ids /\ calls[p].base \in Nat
         /\ calls[p].merge \in Commit \cup {NoCommit}
         /\ calls[p].from \in InFlight /\ calls[p].to \in Terminal
         /\ calls[p].leased \in BOOLEAN
BY DEF TypeOK, Call, Idle

\* No merge commit is the missing one.
LEMMA NoCommitIsNone == NoCommit \notin Commit
BY NoneAssumption DEF NoCommit, Commit

LEMMA RowFields ==
  ASSUME TypeOK, NEW i \in Ids, rows[i] # NoRow
  PROVE  /\ rows[i] \in Row
         /\ rows[i].state \in States /\ rows[i].holder \in Sessions
         /\ rows[i].base \in Nat /\ rows[i].merge \in Commit \cup {NoCommit}
BY DEF TypeOK, Row

LEMMA TrunkCommits ==
  ASSUME TypeOK, NEW n \in 1 .. Len(trunk)
  PROVE  trunk[n] \in Commit /\ trunk[n].id \in Ids
<1>1. trunk[n] \in Commit
  <2>1. trunk \in Seq(Commit)
    BY DEF TypeOK
  <2> HIDE DEF Commit
  <2> QED
    BY <2>1
<1> QED
  BY <1>1 DEF Commit

\* A goroutine that moves on in its call, or returns, and touches neither rows
\* nor trunk.
LEMMA CallStep ==
  ASSUME IntegratorInv, UNCHANGED <<rows, trunk>>,
         branch' \in [Ids -> 0 .. MaxVersion], lease' \in Sessions \cup {None},
         NEW p \in Procs, NEW x \in Call \cup {Idle}, x # Idle => Follows(x),
         calls' = [calls EXCEPT ![p] = x]
  PROVE  IntegratorInv'
<1>1. TypeOK'
  BY DEF IntegratorInv, TypeOK
<1>2. TrunkOfRows' /\ RowsBuilt' /\ PromotedIsLanded'
  BY DEF IntegratorInv, TrunkOfRows, RowsBuilt, PromotedIsLanded, Clean, Landed, Built
<1>3. ASSUME NEW q \in Procs, calls'[q] # Idle PROVE Follows(calls[q])'
  <2>1. CASE q = p
    <3>1. calls'[q] = x
      BY <2>1 DEF IntegratorInv, TypeOK
    <3> QED
      BY <3>1, <1>3 DEF Follows, Built, Clean, Landed
  <2>2. CASE q # p
    <3>1. calls'[q] = calls[q]
      BY <2>2 DEF IntegratorInv, TypeOK
    <3> QED
      BY <3>1, <1>3 DEF IntegratorInv, CallsFollowRows, Follows, Built, Clean, Landed
  <2> QED
    BY <2>1, <2>2
<1> QED
  BY <1>1, <1>2, <1>3 DEF IntegratorInv, CallsFollowRows

\* Going to another point, with the same call, keeps a call in line with its row.
LEMMA GoToStep ==
  ASSUME IntegratorInv, UNCHANGED <<rows, trunk, branch>>,
         lease' \in Sessions \cup {None},
         NEW p \in Procs, NEW point \in {"fresh", "advance", "release"},
         point = "release" \/ calls[p].pc \in {"landed", "fresh"},
         calls[p].pc \notin {"idle", "setValidating"}, GoTo(p, point)
  PROVE  IntegratorInv'
<1> DEFINE x == [calls[p] EXCEPT !.pc = point]
<1>1. calls[p] \in Call /\ calls[p] # Idle /\ Follows(calls[p])
  BY CallFields DEF IntegratorInv, CallsFollowRows
<1>2. x \in Call
  BY <1>1 DEF Call, Points
<1>3. Follows(x)
  BY <1>1 DEF Follows, Call
<1>4. calls' = [calls EXCEPT ![p] = x]
  BY DEF GoTo
<1>5. branch' \in [Ids -> 0 .. MaxVersion]
  BY DEF IntegratorInv, TypeOK
<1> HIDE DEF x
<1> QED
  BY <1>2, <1>3, <1>4, <1>5, CallStep

LEMMA ReturnStep ==
  ASSUME IntegratorInv, UNCHANGED <<rows, trunk, branch>>,
         lease' \in Sessions \cup {None}, NEW p \in Procs, Return(p)
  PROVE  IntegratorInv'
<1>1. branch' \in [Ids -> 0 .. MaxVersion]
  BY DEF IntegratorInv, TypeOK
<1> QED
  BY <1>1, CallStep DEF Return

LEMMA FinishStep ==
  ASSUME IntegratorInv, UNCHANGED <<rows, trunk, branch, lease>>,
         NEW p \in Procs, calls[p].pc # "idle", Finish(p)
  PROVE  IntegratorInv'
<1>1. lease' \in Sessions \cup {None}
  BY DEF IntegratorInv, TypeOK
<1>2. CASE ~calls[p].leased
  BY <1>1, <1>2, ReturnStep DEF Finish
<1>3. CASE calls[p].leased
  <2>1. Follows(calls[p])
    BY CallFields DEF IntegratorInv, CallsFollowRows
  <2>2. calls[p].pc \notin {"idle", "setValidating"}
    BY <2>1, <1>3 DEF Follows
  <2> QED
    BY <1>1, <1>3, <2>2, GoToStep DEF Finish
<1> QED
  BY <1>2, <1>3

\* A call that is about to write its transition.
LEMMA MarksStep ==
  ASSUME IntegratorInv, UNCHANGED <<rows, trunk, branch, lease>>,
         NEW p \in Procs, NEW from \in InFlight, NEW to \in Terminal,
         calls[p].pc \notin {"idle", "setValidating"},
         to = "promoted" => Landed(calls[p].merge), Marks(p, from, to)
  PROVE  IntegratorInv'
<1> DEFINE x == [calls[p] EXCEPT !.pc = "mark", !.from = from, !.to = to]
<1>1. calls[p] \in Call /\ calls[p] # Idle /\ Follows(calls[p])
  BY CallFields DEF IntegratorInv, CallsFollowRows
<1>2. x \in Call
  BY <1>1 DEF Call, Points
<1>3. Follows(x)
  BY <1>1 DEF Follows, Call
<1>4. calls' = [calls EXCEPT ![p] = x]
  BY DEF Marks
<1>5. branch' \in [Ids -> 0 .. MaxVersion] /\ lease' \in Sessions \cup {None}
  BY DEF IntegratorInv, TypeOK
<1> HIDE DEF x
<1> QED
  BY <1>2, <1>3, <1>4, <1>5, CallStep

-----------------------------------------------------------------------------
(* The steps that leave rows and trunk alone *)

LEMMA BeginPreserves ==
  ASSUME IntegratorInv, NEW p \in Procs, NEW i \in Ids,
         NEW point \in {"tip", "reconcile", "abortLanded"}, Begin(p, i, point)
  PROVE  IntegratorInv'
<1> DEFINE x == [pc |-> point, id |-> i, base |-> rows[i].base, merge |-> rows[i].merge,
                 from |-> rows[i].state, to |-> "aborted", leased |-> FALSE]
<1>1. rows[i] # NoRow
  BY DEF Begin, InFlight, NoRow
<1>2. x \in Call
  BY <1>1, RowFields DEF IntegratorInv, Begin, Call, Points, Terminal
<1>3. Follows(x)
  BY <1>1 DEF Follows
<1>4. calls' = [calls EXCEPT ![p] = x] /\ UNCHANGED <<rows, trunk>>
  BY DEF Begin
<1>5. branch' \in [Ids -> 0 .. MaxVersion] /\ lease' \in Sessions \cup {None}
  BY DEF IntegratorInv, TypeOK, Begin
<1> HIDE DEF x
<1> QED
  BY <1>2, <1>3, <1>4, <1>5, CallStep

LEMMA GoToAcquireCall ==
  ASSUME IntegratorInv, NEW p \in Procs, calls[p].pc # "idle", GoToAcquire(p)
  PROVE  \E x \in Call :
           /\ calls' = [calls EXCEPT ![p] = x]
           /\ x.id = calls[p].id /\ x.pc = "acquire" /\ x.merge = NoCommit
<1> DEFINE x == [pc |-> "acquire", id |-> calls[p].id, base |-> 0, merge |-> NoCommit,
                 from |-> "validating", to |-> "aborted", leased |-> FALSE]
<1>1. x \in Call
  BY CallFields DEF IntegratorInv, Call, Points, InFlight, Terminal
<1>2. calls' = [calls EXCEPT ![p] = x]
  BY DEF GoToAcquire
<1> QED
  BY <1>1, <1>2

LEMMA ReconcilePreserves ==
  ASSUME IntegratorInv, NEW p \in Procs, Reconcile(p)
  PROVE  IntegratorInv'
<1>1. calls[p].pc = "reconcile" /\ UNCHANGED <<rows, trunk, branch, lease>>
  BY DEF Reconcile, At
<1>2. CASE Landed(calls[p].merge) /\ Marks(p, "validating", "promoted")
  BY <1>1, <1>2, MarksStep DEF InFlight, Terminal
<1>3. CASE GoToAcquire(p)
  <2>1. PICK x \in Call : /\ calls' = [calls EXCEPT ![p] = x]
                          /\ x.id = calls[p].id /\ x.pc = "acquire" /\ x.merge = NoCommit
    BY <1>1, <1>3, GoToAcquireCall
  <2>2. Follows(x)
    BY <1>1, <2>1, CallFields DEF IntegratorInv, CallsFollowRows, Follows
  <2>3. branch' \in [Ids -> 0 .. MaxVersion] /\ lease' \in Sessions \cup {None}
    BY <1>1 DEF IntegratorInv, TypeOK
  <2> QED
    BY <1>1, <2>1, <2>2, <2>3, CallStep
<1> QED
  BY <1>2, <1>3 DEF Reconcile

LEMMA ReadTipPreserves ==
  ASSUME IntegratorInv, NEW p \in Procs, ReadTip(p)
  PROVE  IntegratorInv'
<1> DEFINE x == [calls[p] EXCEPT !.pc = "gate", !.base = Tip]
<1>1. calls[p] \in Call /\ Follows(calls[p]) /\ calls[p].pc = "tip"
  BY CallFields DEF IntegratorInv, CallsFollowRows, ReadTip, At
<1>2. Tip \in Nat
  BY DEF IntegratorInv, TypeOK, Tip
<1>3. x \in Call
  BY <1>1, <1>2 DEF Call, Points
<1>4. Follows(x)
  BY <1>1, <1>2 DEF Follows, Call, Tip
<1>5. calls' = [calls EXCEPT ![p] = x] /\ UNCHANGED <<rows, trunk>>
  BY DEF ReadTip
<1>6. branch' \in [Ids -> 0 .. MaxVersion] /\ lease' \in Sessions \cup {None}
  BY DEF IntegratorInv, TypeOK, ReadTip
<1> HIDE DEF x
<1> QED
  BY <1>3, <1>4, <1>5, <1>6, CallStep

LEMMA GatePreserves ==
  ASSUME IntegratorInv, NEW p \in Procs, Gate(p)
  PROVE  IntegratorInv'
<1> DEFINE i == calls[p].id
           base == calls[p].base
           merge == [id |-> i, version |-> branch[i], base |-> base]
           x == [calls[p] EXCEPT !.pc = "setValidating", !.merge = merge]
<1>1. /\ calls[p] \in Call /\ Follows(calls[p]) /\ calls[p].pc = "gate"
      /\ i \in Ids /\ base \in Nat
  BY CallFields DEF IntegratorInv, CallsFollowRows, Gate, At
<1>2. UNCHANGED <<rows, trunk, branch, lease>>
  BY DEF Gate
<1>3. CASE branch[i] # 0 /\ Clean(i, base) /\ calls' = [calls EXCEPT ![p] = x]
  <2>1. branch[i] \in 1 .. MaxVersion
    BY <1>1, <1>3, MaxVersionAssumption DEF IntegratorInv, TypeOK
  <2>2. merge \in Commit
    BY <1>1, <2>1 DEF Commit
  <2>3. x \in Call
    BY <1>1, <2>2 DEF Call, Points
  <2>4. Built(i, merge, base)
    BY <1>1, <1>3 DEF Follows, Built
  <2>5. x.pc = "setValidating" /\ x.id = i /\ x.base = base /\ x.merge = merge
        /\ x.leased = calls[p].leased
    BY <1>1 DEF Call
  <2>6. Follows(x)
    BY <1>1, <2>4, <2>5 DEF Follows
  <2>7. calls' = [calls EXCEPT ![p] = x]
    BY <1>3
  <2>8. branch' \in [Ids -> 0 .. MaxVersion] /\ lease' \in Sessions \cup {None}
    BY <1>2 DEF IntegratorInv, TypeOK
  <2> HIDE DEF x
  <2> QED
    BY <1>2, <2>3, <2>6, <2>7, <2>8, CallStep
<1>4. CASE Marks(p, "received", "aborted")
  BY <1>1, <1>2, <1>4, MarksStep DEF InFlight, Terminal
<1> QED
  BY <1>3, <1>4 DEF Gate

LEMMA AcquirePreserves ==
  ASSUME IntegratorInv, NEW p \in Workers, Acquire(p)
  PROVE  IntegratorInv'
<1> DEFINE x == [calls[p] EXCEPT !.pc = "reload", !.leased = TRUE]
<1> p \in Procs
  BY DEF Procs
<1>1. calls[p] \in Call /\ Follows(calls[p]) /\ calls[p].pc = "acquire"
  BY CallFields DEF IntegratorInv, CallsFollowRows, Acquire, At
<1>2. lease' \in Sessions \cup {None} /\ branch' \in [Ids -> 0 .. MaxVersion]
  BY SessionOfAssumption DEF IntegratorInv, TypeOK, Acquire
<1>3. UNCHANGED <<rows, trunk, branch>>
  BY DEF Acquire
<1>4. CASE Return(p)
  BY <1>2, <1>3, <1>4, ReturnStep
<1>5. CASE ~Return(p)
  <2>1. calls' = [calls EXCEPT ![p] = x]
    BY <1>5 DEF Acquire
  <2>2. x \in Call
    BY <1>1 DEF Call, Points
  <2>3. Follows(x)
    BY <1>1 DEF Follows, Call
  <2> HIDE DEF x
  <2> QED
    BY <1>2, <1>3, <2>1, <2>2, <2>3, CallStep
<1> QED
  BY <1>4, <1>5

LEMMA ReloadPreserves ==
  ASSUME IntegratorInv, NEW p \in Procs, Reload(p)
  PROVE  IntegratorInv'
<1> DEFINE row == rows[calls[p].id]
           x == [calls[p] EXCEPT !.pc = "landed", !.base = row.base, !.merge = row.merge]
<1>1. /\ calls[p] \in Call /\ Follows(calls[p]) /\ calls[p].pc = "reload"
      /\ calls[p].id \in Ids
  BY CallFields DEF IntegratorInv, CallsFollowRows, Reload, At
<1>2. row.base \in Nat /\ row.merge \in Commit \cup {NoCommit}
  BY <1>1, RowFields DEF IntegratorInv, Follows
<1>3. x \in Call
  BY <1>1, <1>2 DEF Call, Points
<1>4. Follows(x)
  BY <1>1 DEF Follows, Call
<1>5. calls' = [calls EXCEPT ![p] = x] /\ UNCHANGED <<rows, trunk>>
  BY DEF Reload, RowOf
<1>6. branch' \in [Ids -> 0 .. MaxVersion] /\ lease' \in Sessions \cup {None}
  BY DEF IntegratorInv, TypeOK, Reload
<1> HIDE DEF x
<1> QED
  BY <1>3, <1>4, <1>5, <1>6, CallStep

LEMMA ChecksPreserve ==
  ASSUME IntegratorInv, NEW p \in Procs,
         CheckLanded(p) \/ CheckFresh(p) \/ AbortLanded(p) \/ MarkFails(p) \/ StepFails(p)
  PROVE  IntegratorInv'
<1>1. lease' \in Sessions \cup {None} /\ UNCHANGED <<rows, trunk, branch, lease>>
  BY DEF IntegratorInv, TypeOK, CheckLanded, CheckFresh, AbortLanded, MarkFails, StepFails
<1>2. CASE CheckLanded(p)
  BY <1>1, <1>2, MarksStep, GoToStep DEF CheckLanded, At, InFlight, Terminal
<1>3. CASE CheckFresh(p)
  BY <1>1, <1>3, MarksStep, GoToStep DEF CheckFresh, At, InFlight, Terminal
<1>4. CASE AbortLanded(p)
  <2>1. PICK from : from = calls[p].from
    OBVIOUS
  <2>2. PICK to : to = IF Landed(calls[p].merge) THEN "promoted" ELSE "aborted"
    OBVIOUS
  <2>3. from \in InFlight /\ calls[p].pc = "abortLanded"
    BY <1>4, <2>1, CallFields DEF AbortLanded, At, IntegratorInv
  <2>4. Marks(p, from, to)
    BY <1>4, <2>1, <2>2 DEF AbortLanded, Marks
  <2> QED
    BY <1>1, <2>2, <2>3, <2>4, MarksStep DEF Terminal
<1>5. CASE MarkFails(p)
  BY <1>1, <1>5, FinishStep DEF MarkFails, At
<1>6. CASE StepFails(p)
  <2>1. calls[p].pc # "idle"
    <3>1. calls[p] \in Call
      BY <1>6 DEF StepFails, IntegratorInv, TypeOK
    <3> QED
      BY <3>1 DEF Call, Points
  <2>2. Return(p) \/ Finish(p)
    BY <1>6 DEF StepFails
  <2> QED
    BY <1>1, <2>1, <2>2, ReturnStep, FinishStep
<1> QED
  BY <1>2, <1>3, <1>4, <1>5, <1>6

-----------------------------------------------------------------------------
(* The steps that write rows or trunk *)

\* A merge commit on trunk stays on trunk when one is appended.
LEMMA TrunkAppend ==
  ASSUME trunk \in Seq(Commit), NEW m \in Commit, trunk' = Append(trunk, m)
  PROVE  /\ trunk' \in Seq(Commit) /\ Len(trunk') = Len(trunk) + 1
         /\ trunk'[Len(trunk) + 1] = m
         /\ \A n \in 1 .. Len(trunk) : trunk'[n] = trunk[n]
OBVIOUS

LEMMA LandedIsCommit ==
  ASSUME TypeOK, NEW merge, Landed(merge)
  PROVE  merge \in Commit /\ merge # NoCommit
BY NoCommitIsNone DEF TypeOK, Landed

LEMMA SubmitPreserves ==
  ASSUME IntegratorInv, NEW w \in Workers, NEW i \in Ids, Submit(w, i)
  PROVE  IntegratorInv'
<1>1. PICK base \in 0 .. Tip :
        rows' = [rows EXCEPT ![i] = [state |-> "received", holder |-> SessionOf[w],
                                     base |-> base, merge |-> NoCommit]]
  BY DEF Submit
<1> DEFINE row == [state |-> "received", holder |-> SessionOf[w],
                   base |-> base, merge |-> NoCommit]
<1>2. rows[i] = NoRow /\ UNCHANGED <<trunk, branch, lease, calls>>
  BY DEF Submit
<1>3. row \in Row /\ row # NoRow /\ row.state = "received" /\ row.merge = NoCommit
  BY SessionOfAssumption DEF Row, States, InFlight, NoRow
<1>4. /\ rows' \in [Ids -> Row \cup {NoRow}] /\ rows'[i] = row
      /\ \A j \in Ids : j # i => rows'[j] = rows[j]
  BY <1>1, <1>3 DEF IntegratorInv, TypeOK
<1> HIDE DEF row
<1>5. TypeOK'
  BY <1>2, <1>4 DEF IntegratorInv, TypeOK
<1>6. TrunkOfRows'
  <2>1. \A n \in 1 .. Len(trunk) : trunk[n].id \in Ids
    BY TrunkCommits DEF IntegratorInv
  <2> QED
    BY <1>2, <1>4, <2>1 DEF IntegratorInv, TrunkOfRows, Clean
<1>7. RowsBuilt'
  BY <1>2, <1>3, <1>4 DEF IntegratorInv, RowsBuilt, Built, Clean
<1>8. CallsFollowRows'
  <2>1. ASSUME NEW q \in Procs, calls[q] # Idle PROVE Follows(calls[q])'
    <3>1. Follows(calls[q]) /\ calls[q].id \in Ids
      BY <2>1 DEF IntegratorInv, CallsFollowRows, TypeOK, Call
    <3>2. calls[q].id # i
      BY <1>2, <3>1 DEF Follows
    <3> QED
      BY <1>2, <1>4, <3>1, <3>2 DEF Follows, Built, Clean, Landed
  <2> QED
    BY <1>2, <2>1 DEF CallsFollowRows
<1>9. PromotedIsLanded'
  BY <1>2, <1>3, <1>4 DEF IntegratorInv, PromotedIsLanded, Landed
<1> QED
  BY <1>5, <1>6, <1>7, <1>8, <1>9 DEF IntegratorInv

LEMMA SetValidatingPreserves ==
  ASSUME IntegratorInv, NEW p \in Procs, SetValidating(p)
  PROVE  IntegratorInv'
<1>1. /\ calls[p] \in Call /\ Follows(calls[p]) /\ calls[p].pc = "setValidating"
      /\ calls[p].base \in Nat /\ calls[p].merge \in Commit \cup {NoCommit}
  BY CallFields DEF IntegratorInv, CallsFollowRows, SetValidating, At
<1>2. PICK x \in Call : /\ calls' = [calls EXCEPT ![p] = x]
                        /\ x.id = calls[p].id /\ x.pc = "acquire" /\ x.merge = NoCommit
  BY <1>1, GoToAcquireCall DEF SetValidating
<1>3. UNCHANGED <<trunk, branch, lease>>
  BY DEF SetValidating
<1>4. PICK i \in Ids : i = calls[p].id
  BY <1>1 DEF Call
<1>5. CASE rows[i].state # "received"
  <2>1. rows' = rows
    BY <1>4, <1>5 DEF SetValidating, RowOf
  <2>2. Follows(x)
    BY <1>1, <1>2 DEF Follows
  <2>3. branch' \in [Ids -> 0 .. MaxVersion] /\ lease' \in Sessions \cup {None}
    BY <1>3 DEF IntegratorInv, TypeOK
  <2> QED
    BY <1>2, <1>3, <2>1, <2>2, <2>3, CallStep
<1>6. CASE rows[i].state = "received"
  <2> DEFINE row == [rows[i] EXCEPT !.state = "validating", !.base = calls[p].base,
                                    !.merge = calls[p].merge]
  <2>1. rows' = [rows EXCEPT ![i] = row]
    BY <1>4, <1>6 DEF SetValidating, RowOf
  <2>2. rows[i] # NoRow /\ rows[i] \in Row /\ rows[i].merge = NoCommit
    BY <1>1, <1>4, <1>6, RowFields DEF IntegratorInv, Follows, RowsBuilt
  <2>3. Built(i, calls[p].merge, calls[p].base)
    BY <1>1, <1>4 DEF Follows
  <2>4. calls[p].merge # NoCommit
    BY <2>3, NoneAssumption DEF Built, NoCommit
  <2>5. /\ row \in Row /\ row # NoRow /\ row.state = "validating"
        /\ row.base = calls[p].base /\ row.merge = calls[p].merge
    BY <1>1, <2>2 DEF Row, States, InFlight, NoRow
  <2>6. /\ rows' \in [Ids -> Row \cup {NoRow}] /\ rows'[i] = row
        /\ \A j \in Ids : j # i => rows'[j] = rows[j]
    BY <2>1, <2>5 DEF IntegratorInv, TypeOK
  <2> HIDE DEF row
  <2>7. TypeOK'
    BY <1>2, <1>3, <2>6 DEF IntegratorInv, TypeOK
  <2>8. TrunkOfRows'
    <3>1. \A n \in 1 .. Len(trunk) : trunk[n] \in Commit /\ trunk[n].id \in Ids
      BY TrunkCommits DEF IntegratorInv
    <3>2. \A n \in 1 .. Len(trunk) : trunk[n].id # i
      BY <2>2, <3>1, NoCommitIsNone DEF IntegratorInv, TrunkOfRows
    <3> QED
      BY <1>3, <2>6, <3>1, <3>2 DEF IntegratorInv, TrunkOfRows, Clean
  <2>9. RowsBuilt'
    BY <1>3, <2>3, <2>4, <2>5, <2>6 DEF IntegratorInv, RowsBuilt, Built, Clean
  <2>10. CallsFollowRows'
    <3>1. ASSUME NEW q \in Procs, calls'[q] # Idle PROVE Follows(calls[q])'
      <4>1. CASE q = p
        <5>1. calls'[q] = x
          BY <1>2, <4>1 DEF IntegratorInv, TypeOK
        <5> QED
          BY <1>2, <1>4, <2>5, <2>6, <5>1 DEF Follows
      <4>2. CASE q # p
        <5>1. calls'[q] = calls[q]
          BY <1>2, <4>2 DEF IntegratorInv, TypeOK
        <5>2. calls[q] \in Call /\ Follows(calls[q]) /\ calls[q].id \in Ids
          BY <3>1, <5>1 DEF IntegratorInv, CallsFollowRows, TypeOK, Call
        <5>3. CASE calls[q].id = i
          BY <1>3, <2>2, <2>5, <2>6, <5>1, <5>2, <5>3 DEF Follows, Built, Clean, Landed
        <5>4. CASE calls[q].id # i
          BY <1>3, <2>6, <5>1, <5>2, <5>4 DEF Follows, Built, Clean, Landed
        <5> QED
          BY <5>3, <5>4
      <4> QED
        BY <4>1, <4>2
    <3> QED
      BY <3>1 DEF CallsFollowRows
  <2>11. PromotedIsLanded'
    BY <1>3, <2>5, <2>6 DEF IntegratorInv, PromotedIsLanded, Landed
  <2> QED
    BY <2>7, <2>8, <2>9, <2>10, <2>11 DEF IntegratorInv
<1> QED
  BY <1>5, <1>6

\* The compare-and-swap succeeds: the row's merge commit, validated on the tip,
\* becomes the tip.
LEMMA AdvancePreserves ==
  ASSUME IntegratorInv, NEW p \in Procs, Advance(p)
  PROVE  IntegratorInv'
<1>1. /\ calls[p] \in Call /\ Follows(calls[p]) /\ calls[p].pc = "advance"
      /\ calls[p].merge \in Commit \cup {NoCommit}
  BY CallFields DEF IntegratorInv, CallsFollowRows, Advance, At
<1>2. UNCHANGED <<rows, branch, lease>>
  BY DEF Advance
<1>3. CASE GoTo(p, "release") /\ UNCHANGED trunk
  <2>1. lease' \in Sessions \cup {None}
    BY <1>2 DEF IntegratorInv, TypeOK
  <2> QED
    BY <1>1, <1>2, <1>3, <2>1, GoToStep
<1>4. CASE /\ calls[p].merge # NoCommit
           /\ AdvanceTrunk(calls[p].merge, calls[p].base)
           /\ Marks(p, "validating", "promoted")
  <2>1. PICK m \in Commit : m = calls[p].merge
    BY <1>1, <1>4
  <2>2. PICK i \in Ids : i = calls[p].id
    BY <1>1 DEF Call
  <2>3. /\ rows[i] # NoRow /\ m = rows[i].merge /\ m # NoCommit
        /\ calls[p].base = rows[i].base
    BY <1>1, <1>4, <2>1, <2>2 DEF Follows
  <2>4. Built(i, m, rows[i].base)
    BY <2>3 DEF IntegratorInv, RowsBuilt
  <2>5. trunk \in Seq(Commit) /\ m.base = Len(trunk) /\ m.id = i /\ Clean(i, Len(trunk))
    BY <1>4, <2>3, <2>4 DEF IntegratorInv, TypeOK, AdvanceTrunk, Tip, Built
  <2>6. trunk' = Append(trunk, m)
    <3>1. SubSeq(trunk, 1, Len(trunk)) = trunk
      BY <2>5, SubSeqFull
    <3> QED
      BY <1>4, <2>1, <2>5, <3>1 DEF AdvanceTrunk
  <2>7. /\ trunk' \in Seq(Commit) /\ Len(trunk') = Len(trunk) + 1
        /\ trunk'[Len(trunk) + 1] = m
        /\ \A n \in 1 .. Len(trunk) : trunk'[n] = trunk[n]
    BY <2>5, <2>6, TrunkAppend
  <2>8. Len(trunk) \in Nat
    BY <2>5
  <2>10. Landed(m)'
    BY <2>7, <2>8 DEF Landed
  <2> DEFINE x == [calls[p] EXCEPT !.pc = "mark", !.from = "validating", !.to = "promoted"]
  <2>11. /\ x \in Call /\ x.pc = "mark" /\ x.merge = m /\ x.id = i
         /\ calls' = [calls EXCEPT ![p] = x]
    BY <1>1, <1>4, <2>1, <2>2 DEF Call, Points, InFlight, Terminal, Marks
  <2> HIDE DEF x
  <2>12. TypeOK'
    BY <1>2, <2>7, <2>11 DEF IntegratorInv, TypeOK
  <2>13. TrunkOfRows'
    <3>1. ASSUME NEW n \in 1 .. Len(trunk')
          PROVE  /\ trunk'[n].base = n - 1 /\ Clean(trunk[n].id, n - 1)'
                 /\ rows'[trunk'[n].id] # NoRow /\ rows'[trunk'[n].id].merge = trunk'[n]
      <4>1. CASE n = Len(trunk) + 1
        <5>1. trunk'[n] = m /\ n - 1 = Len(trunk)
          BY <2>7, <2>8, <4>1
        <5>2. Clean(i, Len(trunk)) => \A k \in 1 .. Len(trunk) : <<i, trunk'[k].id>> \notin Conflicts
          BY <2>7, <2>8 DEF Clean
        <5>3. Clean(trunk[n].id, n - 1)'
          BY <2>5, <2>8, <5>1, <5>2 DEF Clean
        <5> QED
          BY <1>2, <2>3, <2>5, <5>1, <5>3
      <4>2. CASE n # Len(trunk) + 1
        <5>1. n \in 1 .. Len(trunk) /\ trunk'[n] = trunk[n] /\ n - 1 \in Nat /\ n - 1 <= Len(trunk)
          BY <2>7, <2>8, <4>2
        <5>2. /\ trunk[n].base = n - 1 /\ Clean(trunk[n].id, n - 1)
              /\ rows[trunk[n].id] # NoRow /\ rows[trunk[n].id].merge = trunk[n]
          BY <5>1 DEF IntegratorInv, TrunkOfRows
        <5>3. Clean(trunk[n].id, n - 1)'
          BY <2>7, <2>8, <5>1, <5>2 DEF Clean
        <5> QED
          BY <1>2, <5>1, <5>2, <5>3
      <4> QED
        BY <4>1, <4>2
    <3> QED
      BY <3>1 DEF TrunkOfRows
  <2>14. RowsBuilt'
    <3>1. ASSUME NEW j \in Ids, rows[j] # NoRow, rows[j].merge # NoCommit
          PROVE  Built(j, rows[j].merge, rows[j].base)'
      <4>1. Built(j, rows[j].merge, rows[j].base) /\ rows[j].base \in Nat
        BY <3>1, RowFields DEF IntegratorInv, RowsBuilt
      <4>2. Clean(j, rows[j].base)'
        BY <1>2, <2>7, <2>8, <4>1 DEF Built, Clean
      <4> QED
        BY <1>2, <2>7, <2>8, <4>1, <4>2 DEF Built
    <3> QED
      BY <1>2, <3>1 DEF IntegratorInv, RowsBuilt
  <2>15. CallsFollowRows'
    <3>1. ASSUME NEW q \in Procs, calls'[q] # Idle PROVE Follows(calls[q])'
      <4>1. CASE q = p
        <5>1. calls'[q] = x
          BY <2>11, <4>1 DEF IntegratorInv, TypeOK
        <5> QED
          BY <1>2, <2>3, <2>10, <2>11, <5>1 DEF Follows, Landed
      <4>2. CASE q # p
        <5>1. calls'[q] = calls[q]
          BY <2>11, <4>2 DEF IntegratorInv, TypeOK
        <5>2. PICK y \in Call : y = calls[q]
          BY <3>1, <5>1 DEF IntegratorInv, TypeOK
        <5>3. Follows(y) /\ y.base \in Nat
          BY <3>1, <5>1, <5>2 DEF IntegratorInv, CallsFollowRows, Call
        <5>4. Landed(y.merge) => Landed(y.merge)'
          BY <2>7, <2>8 DEF Landed
        <5>5. Built(y.id, y.merge, y.base) => Built(y.id, y.merge, y.base)'
          BY <2>7, <2>8, <5>3 DEF Built, Clean
        <5>6. Follows(y)'
          BY <1>2, <2>7, <2>8, <5>3, <5>4, <5>5 DEF Follows
        <5> QED
          BY <5>1, <5>2, <5>6 DEF Follows, Built, Clean, Landed
      <4> QED
        BY <4>1, <4>2
    <3> QED
      BY <3>1 DEF CallsFollowRows
  <2>16. PromotedIsLanded'
    <3>1. ASSUME NEW j \in Ids, rows[j].state = "promoted" PROVE Landed(rows[j].merge)'
      <4>1. Landed(rows[j].merge)
        BY <3>1 DEF IntegratorInv, PromotedIsLanded
      <4> QED
        BY <1>2, <2>7, <2>8, <4>1 DEF Landed
    <3> QED
      BY <1>2, <3>1 DEF PromotedIsLanded
  <2> QED
    BY <2>12, <2>13, <2>14, <2>15, <2>16 DEF IntegratorInv
<1> QED
  BY <1>3, <1>4 DEF Advance

LEMMA MarkPreserves ==
  ASSUME IntegratorInv, NEW p \in Procs, Mark(p)
  PROVE  IntegratorInv'
<1>1. /\ calls[p] \in Call /\ Follows(calls[p]) /\ calls[p].pc = "mark"
      /\ calls[p].from \in InFlight /\ calls[p].to \in Terminal
  BY CallFields DEF IntegratorInv, CallsFollowRows, Mark, At
<1>2. UNCHANGED <<trunk, branch, lease>> /\ Finish(p)
  BY DEF Mark
<1>3. PICK i \in Ids : i = calls[p].id
  BY <1>1 DEF Call
<1>4. CASE rows[i].state # calls[p].from
  <2>1. rows' = rows
    BY <1>3, <1>4 DEF Mark, RowOf
  <2> QED
    BY <1>1, <1>2, <2>1, FinishStep
<1>5. CASE rows[i].state = calls[p].from
  <2> DEFINE row == [rows[i] EXCEPT !.state = calls[p].to]
  <2>1. rows' = [rows EXCEPT ![i] = row]
    BY <1>3, <1>5 DEF Mark, RowOf
  <2>2. rows[i] # NoRow /\ rows[i] \in Row
    BY <1>1, <1>3, RowFields DEF IntegratorInv, Follows
  <2>3. /\ row \in Row /\ row # NoRow /\ row.state = calls[p].to
        /\ row.base = rows[i].base /\ row.merge = rows[i].merge
    BY <1>1, <2>2 DEF Row, States, Terminal, NoRow
  <2>4. /\ rows' \in [Ids -> Row \cup {NoRow}] /\ rows'[i] = row
        /\ \A j \in Ids : j # i => rows'[j] = rows[j]
    BY <2>1, <2>3 DEF IntegratorInv, TypeOK
  <2> HIDE DEF row
  <2>5. calls[p].to = "promoted" => Landed(rows[i].merge) /\ rows[i].merge # NoCommit
    <3>1. calls[p].to = "promoted" => Landed(calls[p].merge)
      BY <1>1 DEF Follows
    <3>2. Landed(calls[p].merge) => calls[p].merge # NoCommit
      BY LandedIsCommit DEF IntegratorInv
    <3> QED
      BY <1>1, <1>3, <3>1, <3>2 DEF Follows
  <2>6. PICK x \in Call \cup {Idle} :
          /\ calls' = [calls EXCEPT ![p] = x]
          /\ x = Idle \/ (x.pc = "release" /\ x.id = i /\ x.merge = calls[p].merge)
    <3>1. CASE calls[p].leased
      <4>1. [calls[p] EXCEPT !.pc = "release"] \in Call
        BY <1>1 DEF Call, Points
      <4>2. calls' = [calls EXCEPT ![p] = [calls[p] EXCEPT !.pc = "release"]]
        BY <1>2, <3>1 DEF Finish, GoTo
      <4> QED
        BY <1>1, <1>3, <4>1, <4>2 DEF Call
    <3>2. CASE ~calls[p].leased
      BY <1>2, <3>2 DEF Finish, Return
    <3> QED
      BY <3>1, <3>2
  <2>7. TypeOK'
    BY <1>2, <2>4, <2>6 DEF IntegratorInv, TypeOK
  <2>8. TrunkOfRows'
    <3>1. \A n \in 1 .. Len(trunk) : trunk[n].id \in Ids
      BY TrunkCommits DEF IntegratorInv
    <3> QED
      BY <1>2, <2>2, <2>3, <2>4, <3>1 DEF IntegratorInv, TrunkOfRows, Clean
  <2>9. RowsBuilt'
    <3>1. ASSUME NEW j \in Ids, rows'[j] # NoRow
          PROVE  /\ rows'[j].state \in {"validating", "promoted"} => rows'[j].merge # NoCommit
                 /\ rows'[j].state = "received" => rows'[j].merge = NoCommit
                 /\ rows'[j].merge # NoCommit => Built(j, rows[j].merge, rows[j].base)'
      <4>1. CASE j = i
        BY <1>1, <1>2, <2>2, <2>3, <2>4, <2>5, <4>1
           DEF IntegratorInv, RowsBuilt, Built, Clean, Terminal
      <4>2. CASE j # i
        BY <1>2, <2>4, <3>1, <4>2 DEF IntegratorInv, RowsBuilt, Built, Clean
      <4> QED
        BY <4>1, <4>2
    <3> QED
      BY <3>1 DEF RowsBuilt
  <2>10. CallsFollowRows'
    <3>1. ASSUME NEW q \in Procs, calls'[q] # Idle PROVE Follows(calls[q])'
      <4>1. CASE q = p
        <5>1. calls'[q] = x
          BY <2>6, <4>1 DEF IntegratorInv, TypeOK
        <5> QED
          BY <1>1, <1>3, <2>3, <2>4, <2>6, <3>1, <5>1 DEF Follows
      <4>2. CASE q # p
        <5>1. calls'[q] = calls[q]
          BY <2>6, <4>2 DEF IntegratorInv, TypeOK
        <5>2. calls[q] \in Call /\ Follows(calls[q]) /\ calls[q].id \in Ids
          BY <3>1, <5>1 DEF IntegratorInv, CallsFollowRows, TypeOK, Call
        <5>3. CASE calls[q].id = i
          BY <1>2, <2>3, <2>4, <5>1, <5>2, <5>3 DEF Follows, Built, Clean, Landed
        <5>4. CASE calls[q].id # i
          BY <1>2, <2>4, <5>1, <5>2, <5>4 DEF Follows, Built, Clean, Landed
        <5> QED
          BY <5>3, <5>4
      <4> QED
        BY <4>1, <4>2
    <3> QED
      BY <3>1 DEF CallsFollowRows
  <2>11. PromotedIsLanded'
    BY <1>2, <2>3, <2>4, <2>5 DEF IntegratorInv, PromotedIsLanded, Landed
  <2> QED
    BY <2>7, <2>8, <2>9, <2>10, <2>11 DEF IntegratorInv
<1> QED
  BY <1>4, <1>5

-----------------------------------------------------------------------------
(* The theorems *)

LEMMA EnvironmentPreserves ==
  ASSUME IntegratorInv,
         (\E i \in Ids : MoveBranch(i)) \/ LeaseExpires \/ Crash \/ UNCHANGED vars
  PROVE  IntegratorInv'
<1>1. UNCHANGED <<rows, trunk>>
  BY DEF MoveBranch, LeaseExpires, Crash, vars
<1>2. TypeOK'
  BY MaxVersionAssumption DEF IntegratorInv, TypeOK, MoveBranch, LeaseExpires, Crash, vars
<1>3. TrunkOfRows' /\ RowsBuilt' /\ PromotedIsLanded'
  BY <1>1 DEF IntegratorInv, TrunkOfRows, RowsBuilt, PromotedIsLanded, Clean, Landed, Built
<1>4. ASSUME NEW q \in Procs, calls'[q] # Idle PROVE Follows(calls[q])'
  <2>1. calls'[q] = calls[q]
    BY <1>4 DEF MoveBranch, LeaseExpires, Crash, vars
  <2> QED
    BY <1>1, <1>4, <2>1 DEF IntegratorInv, CallsFollowRows, Follows, Built, Clean, Landed
<1> QED
  BY <1>2, <1>3, <1>4 DEF IntegratorInv, CallsFollowRows

LEMMA InvInit == Init => IntegratorInv
<1> SUFFICES ASSUME Init PROVE IntegratorInv
  OBVIOUS
<1>1. \A i \in Ids : rows[i] = NoRow
  BY DEF Init
<1>2. trunk = <<>> /\ Len(trunk) = 0
  BY DEF Init
<1>3. \A p \in Procs : calls[p] = Idle
  BY DEF Init
<1>4. TypeOK
  BY MaxVersionAssumption DEF Init, TypeOK
<1>5. TrunkOfRows
  BY <1>2 DEF TrunkOfRows
<1>6. RowsBuilt /\ PromotedIsLanded
  BY <1>1 DEF RowsBuilt, PromotedIsLanded, NoRow
<1> QED
  BY <1>3, <1>4, <1>5, <1>6 DEF IntegratorInv, CallsFollowRows

LEMMA InvInductive == IntegratorInv /\ [Next]_vars => IntegratorInv'
<1> SUFFICES ASSUME IntegratorInv, [Next]_vars PROVE IntegratorInv'
  OBVIOUS
<1>1. ASSUME NEW w \in Workers, NEW i \in Ids,
             Submit(w, i) \/ BeginPromote(w, i) \/ BeginAbortAs(w, i)
      PROVE  IntegratorInv'
  <2>1. CASE Submit(w, i)
    BY <2>1, SubmitPreserves
  <2>2. CASE BeginPromote(w, i)
    <3>1. PICK point \in {"tip", "reconcile", "abortLanded"} :
            point = IF rows[i].state = "received" THEN "tip" ELSE "reconcile"
      OBVIOUS
    <3>2. Begin(w, i, point)
      BY <2>2, <3>1 DEF BeginPromote, Begin
    <3> QED
      BY <3>2, BeginPreserves DEF Procs
  <2>3. CASE BeginAbortAs(w, i)
    BY <2>3, BeginPreserves DEF BeginAbortAs, Procs
  <2> QED
    BY <1>1, <2>1, <2>2, <2>3
<1>2. ASSUME NEW i \in Ids, BeginScanAbort(i) PROVE IntegratorInv'
  BY <1>2, BeginPreserves DEF BeginScanAbort, Procs
<1>3. ASSUME NEW w \in Workers, PromoteStep(w) PROVE IntegratorInv'
  <2>1. w \in Procs
    BY DEF Procs
  <2>2. CASE Release(w)
    <3>1. lease' \in Sessions \cup {None}
      BY <2>2 DEF Release, IntegratorInv, TypeOK
    <3> QED
      BY <2>1, <2>2, <3>1, ReturnStep DEF Release
  <2> QED
    BY <1>3, <2>1, <2>2, ReconcilePreserves, ReadTipPreserves, GatePreserves,
       SetValidatingPreserves, AcquirePreserves, ReloadPreserves, ChecksPreserve,
       AdvancePreserves DEF PromoteStep
<1>4. ASSUME NEW p \in Procs, AbortStep(p) \/ StepFails(p) PROVE IntegratorInv'
  BY <1>4, ChecksPreserve, MarkPreserves DEF AbortStep
<1> QED
  BY <1>1, <1>2, <1>3, <1>4, EnvironmentPreserves DEF Next

\* The inductive invariant holds of every execution: rows, trunk and the calls in
\* flight stay in line, however calls interleave, fail, crash or lose their lease.
THEOREM IntegratorInvariant == Spec => []IntegratorInv
<1>1. Init => IntegratorInv
  BY InvInit
<1>2. IntegratorInv /\ [Next]_vars => IntegratorInv'
  BY InvInductive
<1> QED
  BY <1>1, <1>2, PTL DEF Spec

\* No execution records a promote that did not land.
THEOREM PromotedLands == Spec => []PromotedIsLanded
<1>1. IntegratorInv => PromotedIsLanded
  BY DEF IntegratorInv
<1> QED
  BY <1>1, IntegratorInvariant, PTL

\* Every commit of trunk was validated on exactly the trunk below it.
THEOREM NothingMergesSilently == Spec => []ValidatedOnThisTrunk
<1>1. IntegratorInv => ValidatedOnThisTrunk
  BY DEF IntegratorInv, TrunkOfRows, ValidatedOnThisTrunk
<1> QED
  BY <1>1, IntegratorInvariant, PTL

\* No integration lands twice: a commit of trunk is its row's one merge commit,
\* and it knows its place.
THEOREM AtMostOnce == Spec => []LandedOnce
<1>1. IntegratorInv => LandedOnce
  <2> SUFFICES ASSUME IntegratorInv, NEW m \in 1 .. Len(trunk), NEW n \in 1 .. Len(trunk),
                      trunk[m].id = trunk[n].id
               PROVE  m = n
    BY DEF LandedOnce
  <2>1. trunk[m] = trunk[n]
    BY DEF IntegratorInv, TrunkOfRows
  <2>2. trunk[m].base = m - 1 /\ trunk[n].base = n - 1
    BY DEF IntegratorInv, TrunkOfRows
  <2>3. Len(trunk) \in Nat
    BY DEF IntegratorInv, TypeOK
  <2> QED
    BY <2>1, <2>2, <2>3
<1> QED
  BY <1>1, IntegratorInvariant, PTL

LEMMA GrowsStep ==
  ASSUME IntegratorInv, [Next]_vars
  PROVE  Grows \/ UNCHANGED vars
<1>1. trunk \in Seq(Commit) /\ Len(trunk) \in Nat
  BY DEF IntegratorInv, TypeOK
<1>2. ASSUME UNCHANGED <<rows, trunk>> PROVE Grows
  BY <1>1, <1>2 DEF Grows
<1>3. ASSUME NEW p \in Procs, Advance(p) PROVE Grows
  <2>1. CASE UNCHANGED trunk
    BY <1>2, <1>3, <2>1 DEF Advance
  <2>2. CASE calls[p].merge # NoCommit /\ AdvanceTrunk(calls[p].merge, calls[p].base)
    <3>1. /\ calls[p] \in Call /\ Follows(calls[p]) /\ calls[p].pc = "advance"
          /\ calls[p].merge \in Commit /\ calls[p].id \in Ids
      BY <1>3, <2>2, CallFields DEF IntegratorInv, CallsFollowRows, Advance, At
    <3>2. calls[p].merge.base = rows[calls[p].id].base
      BY <2>2, <3>1 DEF IntegratorInv, RowsBuilt, Built, Follows
    <3>3. calls[p].merge.base = Len(trunk)
      BY <2>2, <3>1, <3>2 DEF Follows, AdvanceTrunk, Tip
    <3>4. SubSeq(trunk, 1, Len(trunk)) = trunk
      BY <1>1, SubSeqFull
    <3>5. PICK m \in Commit : trunk' = Append(trunk, m)
      BY <2>2, <3>1, <3>3, <3>4 DEF AdvanceTrunk
    <3>6. rows' = rows
      BY <1>3 DEF Advance
    <3> QED
      BY <1>1, <3>5, <3>6, TrunkAppend DEF Grows
  <2> QED
    BY <1>3, <2>1, <2>2 DEF Advance
<1>4. ASSUME NEW w \in Workers, NEW i \in Ids, Submit(w, i) PROVE Grows
  <2>1. rows[i] = NoRow /\ trunk' = trunk /\ \A j \in Ids \ {i} : rows'[j] = rows[j]
    BY <1>4 DEF Submit, IntegratorInv, TypeOK
  <2> QED
    BY <1>1, <2>1 DEF Grows, NoRow, Terminal
<1>5. ASSUME NEW p \in Procs, SetValidating(p) PROVE Grows
  <2>1. trunk' = trunk /\ \A j \in Ids : rows[j].state # "received" => rows'[j] = rows[j]
    BY <1>5 DEF SetValidating, RowOf, IntegratorInv, TypeOK
  <2> QED
    BY <1>1, <2>1 DEF Grows, Terminal
<1>6. ASSUME NEW p \in Procs, Mark(p) PROVE Grows
  <2>1. calls[p].from \in InFlight
    BY <1>6, CallFields DEF Mark, At, IntegratorInv
  <2>2. trunk' = trunk /\ \A j \in Ids : rows[j].state # calls[p].from => rows'[j] = rows[j]
    BY <1>6 DEF Mark, RowOf, IntegratorInv, TypeOK
  <2> QED
    BY <1>1, <2>1, <2>2 DEF Grows, Terminal, InFlight
<1>7. Workers \subseteq Procs
  BY DEF Procs
<1>8. CASE Next
  <2>1. \/ UNCHANGED <<rows, trunk>>
        \/ \E w \in Workers, i \in Ids : Submit(w, i)
        \/ \E p \in Procs : SetValidating(p) \/ Advance(p) \/ Mark(p)
    BY <1>7, <1>8 DEF Next, BeginPromote, BeginAbortAs, BeginScanAbort, Begin, MoveBranch,
       PromoteStep, AbortStep, StepFails, Reconcile, ReadTip, Gate, Acquire, Reload,
       CheckLanded, CheckFresh, Release, AbortLanded, MarkFails, LeaseExpires, Crash
  <2> QED
    BY <1>2, <1>3, <1>4, <1>5, <1>6, <2>1
<1> QED
  BY <1>8

\* Trunk never loses or rewrites a commit, and a verdict is never revised.
THEOREM TrunkOnlyGrows == Spec => TrunkGrows
<1>1. IntegratorInv /\ [Next]_vars => [Grows]_vars
  BY GrowsStep
<1> QED
  BY <1>1, IntegratorInvariant, PTL DEF Spec, TrunkGrows

-----------------------------------------------------------------------------
(* The serial trunk                                                            *)

LandedIds == [n \in 1 .. Len(trunk) |-> trunk[n].id]
VerdictOf == [i \in Ids |-> IF rows[i].state \in Terminal THEN rows[i].state ELSE "open"]

LEMMA SerialStarts == Init => Serial!Init
<1> SUFFICES ASSUME Init PROVE Serial!Init
  OBVIOUS
<1>1. \A i \in Ids : rows[i].state \notin Terminal
  BY DEF Init, NoRow, Terminal
<1>2. trunk = <<>>
  BY DEF Init
<1> QED
  BY <1>1, <1>2 DEF Serial!Init

\* What is landed is on the serial trunk, under its integration's id.
LEMMA LandedIsOn ==
  ASSUME IntegratorInv, NEW i \in Ids, rows[i] # NoRow, Landed(rows[i].merge)
  PROVE  Serial!On(i)
<1>1. PICK n \in 1 .. Len(trunk) : trunk[n] = rows[i].merge
  BY DEF Landed
<1>2. rows[i].merge # NoCommit
  BY LandedIsCommit DEF IntegratorInv
<1>3. trunk[n].id = i
  BY <1>1, <1>2 DEF IntegratorInv, RowsBuilt, Built
<1>4. n \in 1 .. Len(LandedIds) /\ LandedIds[n] = i
  <2>1. Len(trunk) \in Nat
    BY DEF IntegratorInv, TypeOK
  <2>2. Len(LandedIds) = Len(trunk)
    BY <2>1 DEF LandedIds
  <2> QED
    BY <1>3, <2>1, <2>2 DEF LandedIds
<1> QED
  BY <1>4 DEF Serial!On, LandedIds

\* The update-ref of a promote lands its integration.
LEMMA AdvanceLands ==
  ASSUME IntegratorInv, NEW p \in Procs, Advance(p)
  PROVE  UNCHANGED <<rows, trunk>> \/ (\E i \in Ids : Serial!Land(i))
<1>1. CASE UNCHANGED trunk
  BY <1>1 DEF Advance
<1>2. CASE calls[p].merge # NoCommit /\ AdvanceTrunk(calls[p].merge, calls[p].base)
  <2> DEFINE m == calls[p].merge
  <2>0. /\ calls[p] \in Call /\ Follows(calls[p]) /\ calls[p].pc = "advance"
        /\ m \in Commit /\ calls[p].id \in Ids
    BY <1>2, CallFields DEF IntegratorInv, CallsFollowRows, Advance, At
  <2> PICK i \in Ids : i = calls[p].id
    BY <2>0
  <2>1. /\ calls[p] \in Call /\ Follows(calls[p]) /\ calls[p].pc = "advance"
        /\ m \in Commit /\ i \in Ids /\ i = calls[p].id
    BY <2>0
  <2>2. Built(i, m, rows[i].base) /\ rows[i].merge = m
    BY <1>2, <2>1 DEF IntegratorInv, RowsBuilt, Follows
  <2>3. m.base = Len(trunk) /\ m.id = i /\ Clean(i, Len(trunk))
    BY <1>2, <2>1, <2>2 DEF Follows, AdvanceTrunk, Tip, Built
  <2>4. trunk \in Seq(Commit) /\ Len(trunk) \in Nat
    BY DEF IntegratorInv, TypeOK
  <2>5. trunk' = Append(trunk, m)
    <3>1. SubSeq(trunk, 1, Len(trunk)) = trunk
      BY <2>4, SubSeqFull
    <3> QED
      BY <1>2, <2>3, <3>1 DEF AdvanceTrunk
  <2>6. \A n \in 1 .. Len(trunk) : trunk[n].id # i /\ <<i, trunk[n].id>> \notin Conflicts
    <3>1. ASSUME NEW n \in 1 .. Len(trunk) PROVE trunk[n].id # i
      <4>1. trunk[n].base = n - 1 /\ rows[trunk[n].id].merge = trunk[n]
        BY DEF IntegratorInv, TrunkOfRows
      <4>2. n - 1 # Len(trunk)
        BY <2>4
      <4> QED
        BY <2>2, <2>3, <4>1, <4>2
    <3>2. ASSUME NEW n \in 1 .. Len(trunk) PROVE <<i, trunk[n].id>> \notin Conflicts
      <4>1. n <= Len(trunk)
        BY <2>4
      <4> QED
        BY <2>3, <4>1 DEF Clean
    <3> QED
      BY <3>1, <3>2
  <2> DEFINE ids == LandedIds
  <2>7. Len(ids) = Len(trunk) /\ \A n \in 1 .. Len(trunk) : ids[n] = trunk[n].id
    BY <2>4 DEF LandedIds
  <2>8. LandedIds' = Append(ids, i)
    <3>1. Len(trunk') = Len(trunk) + 1
      BY <2>1, <2>4, <2>5
    <3>2. \A n \in 1 .. (Len(trunk) + 1) :
            trunk'[n].id = IF n = Len(trunk) + 1 THEN i ELSE trunk[n].id
      BY <2>1, <2>3, <2>4, <2>5
    <3>3. LandedIds' = [n \in 1 .. (Len(trunk) + 1) |->
                          IF n = Len(trunk) + 1 THEN i ELSE trunk[n].id]
      BY <3>1, <3>2 DEF LandedIds
    <3>4. Append(ids, i) = [n \in 1 .. (Len(trunk) + 1) |->
                              IF n = Len(trunk) + 1 THEN i ELSE trunk[n].id]
      <4>1. ids \in Seq(Ids)
        <5>1. \A n \in 1 .. Len(trunk) : trunk[n].id \in Ids
          BY TrunkCommits DEF IntegratorInv
        <5> QED
          BY <2>4, <5>1 DEF LandedIds
      <4> DEFINE more == Append(ids, i)
      <4> HIDE DEF ids
      <4>2. /\ more \in Seq(Ids) /\ Len(more) = Len(trunk) + 1
            /\ \A n \in 1 .. (Len(trunk) + 1) :
                 more[n] = IF n = Len(trunk) + 1 THEN i ELSE trunk[n].id
        BY <2>1, <2>4, <2>7, <4>1
      <4> HIDE DEF more
      <4>3. more = [n \in 1 .. Len(more) |-> more[n]]
        BY <4>2
      <4>4. more = [n \in 1 .. (Len(trunk) + 1) |->
                      IF n = Len(trunk) + 1 THEN i ELSE trunk[n].id]
        BY <4>2, <4>3, Zenon
      <4> QED
        BY <4>4 DEF more
    <3> QED
      BY <3>3, <3>4
  <2>9. VerdictOf' = VerdictOf
    BY DEF Advance, VerdictOf
  <2>10. Serial!Land(i)
    <3>1. ~Serial!On(i) /\ \A n \in 1 .. Len(ids) : <<i, ids[n]>> \notin Conflicts
      BY <2>6, <2>7 DEF Serial!On, LandedIds
    <3> QED
      BY <2>8, <2>9, <3>1 DEF Serial!Land, LandedIds, VerdictOf
  <2> QED
    BY <2>10
<1> QED
  BY <1>1, <1>2 DEF Advance

\* The statement that writes a verdict decides, where the row is still in flight.
LEMMA MarkDecides ==
  ASSUME IntegratorInv, NEW p \in Procs, Mark(p)
  PROVE  \/ UNCHANGED <<rows, trunk>>
         \/ \E i \in Ids : \E v \in Serial!Verdicts : Serial!Decide(i, v)
<1>0. /\ calls[p] \in Call /\ Follows(calls[p]) /\ calls[p].pc = "mark"
      /\ calls[p].from \in InFlight /\ calls[p].to \in Terminal /\ calls[p].id \in Ids
  BY CallFields DEF IntegratorInv, CallsFollowRows, Mark, At
<1> PICK i \in Ids, v \in Terminal : i = calls[p].id /\ v = calls[p].to
  BY <1>0
<1>1. /\ calls[p] \in Call /\ Follows(calls[p]) /\ calls[p].pc = "mark"
      /\ calls[p].from \in InFlight /\ calls[p].to = v /\ calls[p].id = i
  BY <1>0
<1>2. trunk' = trunk
  BY DEF Mark
<1>3. CASE rows[i].state # calls[p].from
  BY <1>2, <1>3 DEF Mark, RowOf
<1>4. CASE rows[i].state = calls[p].from
  <2>1. rows' = [rows EXCEPT ![i].state = v]
    BY <1>4 DEF Mark, RowOf
  <2>2. rows[i] # NoRow /\ rows[i] \in Row /\ rows \in [Ids -> Row \cup {NoRow}]
    BY <1>1, RowFields DEF IntegratorInv, TypeOK, Follows
  <2>3. rows'[i].state = v /\ \A j \in Ids : j # i => rows'[j] = rows[j]
    BY <1>1, <2>1, <2>2 DEF Row
  <2>4. VerdictOf' = [VerdictOf EXCEPT ![i] = v]
    BY <1>1, <2>3 DEF VerdictOf
  <2>5. VerdictOf[i] = "open"
    BY <1>1, <1>4 DEF VerdictOf, InFlight, Terminal
  <2>6. v = "promoted" => Serial!On(i)
    <3> SUFFICES ASSUME v = "promoted" PROVE Serial!On(i)
      OBVIOUS
    <3>1. Landed(calls[p].merge)
      BY <1>1 DEF Follows
    <3>2. calls[p].merge # NoCommit
      BY <3>1, LandedIsCommit DEF IntegratorInv
    <3>3. Landed(rows[i].merge)
      BY <1>1, <3>1, <3>2 DEF Follows
    <3> QED
      BY <1>1, <2>2, <3>3, LandedIsOn
  <2>7. Serial!Decide(i, v)
    BY <1>2, <2>4, <2>5, <2>6 DEF Serial!Decide, VerdictOf
  <2>8. v \in Serial!Verdicts
    BY DEF Serial!Verdicts, Terminal
  <2> QED
    BY <2>7, <2>8
<1> QED
  BY <1>3, <1>4

LEMMA SerialStep ==
  ASSUME IntegratorInv, [Next]_vars
  PROVE  [Serial!Next]_(Serial!vars)
<1>1. ASSUME UNCHANGED <<rows, trunk>> PROVE UNCHANGED Serial!vars
  BY <1>1 DEF Serial!vars
<1>2. ASSUME NEW p \in Procs, Advance(p) PROVE [Serial!Next]_(Serial!vars)
  BY <1>1, <1>2, AdvanceLands DEF Serial!Next
<1>3. ASSUME NEW p \in Procs, Mark(p) PROVE [Serial!Next]_(Serial!vars)
  BY <1>1, <1>3, MarkDecides DEF Serial!Next
<1>4. ASSUME trunk' = trunk, VerdictOf' = VerdictOf PROVE UNCHANGED Serial!vars
  BY <1>4 DEF VerdictOf, Serial!vars
<1>5. ASSUME NEW w \in Workers, NEW i \in Ids, Submit(w, i) PROVE UNCHANGED Serial!vars
  <2>1. trunk' = trunk /\ rows[i] = NoRow
    BY <1>5 DEF Submit
  <2>2. rows'[i].state = "received" /\ \A j \in Ids : j # i => rows'[j] = rows[j]
    BY <1>5 DEF Submit, IntegratorInv, TypeOK
  <2>3. VerdictOf' = VerdictOf
    BY <2>1, <2>2 DEF VerdictOf, NoRow, Terminal
  <2> QED
    BY <1>4, <2>1, <2>3
<1>6. ASSUME NEW p \in Procs, SetValidating(p) PROVE UNCHANGED Serial!vars
  <2>1. trunk' = trunk
    BY <1>6 DEF SetValidating
  <2>2. calls[p].id \in Ids
    BY <1>6, CallFields DEF SetValidating, At, IntegratorInv
  <2>3. CASE rows[calls[p].id].state = "received"
    <3>1. /\ rows'[calls[p].id].state = "validating"
          /\ \A j \in Ids : j # calls[p].id => rows'[j] = rows[j]
      <4>1. rows[calls[p].id] \in Row
        BY <2>2, <2>3 DEF IntegratorInv, TypeOK, NoRow
      <4> QED
        BY <1>6, <2>2, <2>3, <4>1 DEF SetValidating, RowOf, IntegratorInv, TypeOK, Row
    <3>2. VerdictOf' = VerdictOf
      BY <2>3, <3>1 DEF VerdictOf, Terminal
    <3> QED
      BY <1>4, <2>1, <3>2
  <2>4. CASE rows[calls[p].id].state # "received"
    BY <1>1, <1>6, <2>1, <2>4 DEF SetValidating, RowOf
  <2> QED
    BY <2>3, <2>4
<1>7. CASE UNCHANGED vars
  BY <1>1, <1>7 DEF vars
<1>8. CASE Next
  <2>1. \/ UNCHANGED <<rows, trunk>>
        \/ \E w \in Workers, i \in Ids : Submit(w, i)
        \/ \E p \in Procs : SetValidating(p) \/ Advance(p) \/ Mark(p)
    BY <1>8 DEF Procs, Next, BeginPromote, BeginAbortAs, BeginScanAbort, Begin, MoveBranch,
       PromoteStep, AbortStep, StepFails, Reconcile, ReadTip, Gate, Acquire, Reload,
       CheckLanded, CheckFresh, Release, AbortLanded, MarkFails, LeaseExpires, Crash
  <2> QED
    BY <1>1, <1>2, <1>3, <1>5, <1>6, <2>1
<1> QED
  BY <1>7, <1>8

\* The integrator implements the serial trunk, for any integrations, sessions and goroutines:
\* each of its steps lands one integration on exactly what it was validated with, decides one,
\* or is no step of the trunk, whatever interleaves, fails and crashes.
THEOREM ImplementsSerialTrunk == Spec => IsSerialTrunk
<1>1. Init => Serial!Init
  BY SerialStarts
<1>2. IntegratorInv /\ [Next]_vars => [Serial!Next]_(Serial!vars)
  BY SerialStep
<1> QED
  BY <1>1, <1>2, IntegratorInvariant, PTL DEF Spec, IsSerialTrunk, Serial!Spec
==============================================================================
