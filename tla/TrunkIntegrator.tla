--------------------------- MODULE TrunkIntegrator ---------------------------
(* The sole promoter of trunk (internal/integrator).  Every RPC runs Submit,  *)
(* Promote or Abort in its own goroutine; the recovery scan calls Abort too.  *)
(* A call is a sequence of SQL statements on the integrations table, reads of *)
(* the trunk ref, one compare-and-swap of that ref, and an acquire and a      *)
(* release of the trunk lease.  Each of those is atomic; calls interleave     *)
(* between them, fail at any of them, and die with the daemon.                *)
EXTENDS Naturals, Sequences

CONSTANTS
  Ids,        \* integration ids, each with a branch of its own
  Sessions,
  Workers,    \* goroutines serving RPCs
  Scanner,    \* the goroutine of the recovery scan
  SessionOf,  \* the session a worker's connection is bound to
  Conflicts,  \* <<i, j>>: branch i does not merge onto a trunk that holds j
  Lapsed,     \* sessions that the scan may find without any live lease
  MaxVersion, \* bound: how often a branch is pushed to
  None        \* no session

ASSUME ScannerAssumption == Scanner \notin Workers
ASSUME SessionOfAssumption == SessionOf \in [Workers -> Sessions]
ASSUME NoneAssumption == None \notin Sessions /\ None \notin Ids
ASSUME LapsedAssumption == Lapsed \subseteq Sessions
ASSUME MaxVersionAssumption == MaxVersion \in Nat \ {0}

VARIABLES
  rows,      \* table integrations
  trunk,     \* first-parent history of the trunk ref, one merge commit each
  branch,    \* the commit each branch points at; 0 when the ref is gone
  lease,     \* the session whose trunk lease still runs; an expired one is free
  calls      \* the call each goroutine is in

vars == <<rows, trunk, branch, lease, calls>>

-----------------------------------------------------------------------------
(* Types *)

Procs == Workers \cup {Scanner}
InFlight == {"received", "validating"}
Terminal == {"promoted", "aborted"}
States == InFlight \cup Terminal

\* A merge commit is a function of the integration, of the branch commit and of
\* its first parent; a trunk commit is named by its position.
Commit == [id : Ids, version : 1 .. MaxVersion, base : Nat]
NoCommit == [id |-> None]

Row == [state : States, holder : Sessions, base : Nat, merge : Commit \cup {NoCommit}]
NoRow == [state |-> "none"]

\* What a call remembers.  base and merge: of the row, or of the merge it is
\* building; from, to: the transition it is about to write; leased: whether its
\* deferred Release is due.
Points == {"reconcile", "tip", "gate", "setValidating", "acquire", "reload", "landed",
           "fresh", "advance", "abortLanded", "mark", "release"}
Call == [pc : Points, id : Ids, base : Nat, merge : Commit \cup {NoCommit},
         from : InFlight, to : Terminal, leased : BOOLEAN]
Idle == [pc |-> "idle"]

TypeOK ==
  /\ rows \in [Ids -> Row \cup {NoRow}]
  /\ trunk \in Seq(Commit)
  /\ branch \in [Ids -> 0 .. MaxVersion]
  /\ lease \in Sessions \cup {None}
  /\ calls \in [Procs -> Call \cup {Idle}]

Init ==
  /\ rows = [i \in Ids |-> NoRow]
  /\ trunk = <<>>
  /\ branch = [i \in Ids |-> 1]
  /\ lease = None
  /\ calls = [p \in Procs |-> Idle]

-----------------------------------------------------------------------------
(* The trunk ref *)

Tip == Len(trunk)

\* The merge commit is an ancestor of the tip.
Landed(merge) == \E n \in 1 .. Len(trunk) : trunk[n] = merge

\* merge-tree: whether branch i merges onto the trunk commit at base.
Clean(i, base) == \A n \in 1 .. base : n <= Len(trunk) => <<i, trunk[n].id>> \notin Conflicts

\* Faulty AdvanceTrunk: update-ref without its old value, and a merge commit put
\* on top of whatever tip there is.
AdvanceTrunkForced(merge, old) == trunk' = Append(SubSeq(trunk, 1, merge.base), merge)
AdvanceTrunkRebased(merge, old) == trunk' = Append(trunk, merge)

\* update-ref of trunk to merge, if trunk is still at the old value.
AdvanceTrunk(merge, old) ==
  /\ Tip = old
  /\ trunk' = Append(SubSeq(trunk, 1, merge.base), merge)

-----------------------------------------------------------------------------
(* Calls *)

At(p, point) == calls[p].pc = point
RowOf(p) == rows[calls[p].id]

GoTo(p, point) == calls' = [calls EXCEPT ![p].pc = point]
Return(p) == calls' = [calls EXCEPT ![p] = Idle]

\* Returning runs the deferred Release if the call was granted the lease.
Finish(p) == IF calls[p].leased THEN GoTo(p, "release") ELSE Return(p)

\* The transition the call writes next, whatever the row has become by then.
Marks(p, from, to) ==
  calls' = [calls EXCEPT ![p].pc = "mark", ![p].from = from, ![p].to = to]

\* Submit: the row records the tip it read a moment ago; no ref moves.
Submit(w, i) ==
  /\ calls[w] = Idle
  /\ rows[i] = NoRow
  /\ branch[i] # 0
  /\ \E base \in 0 .. Tip :
       rows' = [rows EXCEPT ![i] = [state |-> "received", holder |-> SessionOf[w],
                                    base |-> base, merge |-> NoCommit]]
  /\ UNCHANGED <<trunk, branch, lease, calls>>

\* The first read of a Promote or an Abort; a terminal row ends the call here.
Begin(p, i, point) ==
  /\ calls[p] = Idle
  /\ rows[i].state \in InFlight
  /\ calls' = [calls EXCEPT ![p] =
       [pc |-> point, id |-> i, base |-> rows[i].base, merge |-> rows[i].merge,
        from |-> rows[i].state, to |-> "aborted", leased |-> FALSE]]
  /\ UNCHANGED <<rows, trunk, branch, lease>>

\* Promote is open to any session, not only to the holder.  Status of a validating
\* row begins so too, and goes no further than Reconcile and its Mark.
BeginPromote(w, i) ==
  Begin(w, i, IF rows[i].state = "received" THEN "tip" ELSE "reconcile")

\* AbortAs: the holder's own, or anyone's once the merge has landed.
BeginAbortAs(w, i) ==
  /\ rows[i] # NoRow
  /\ rows[i].holder = SessionOf[w] \/ Landed(rows[i].merge)
  /\ Begin(w, i, "abortLanded")

\* Faulty BeginScanAbort: leaves alone what has landed.
BeginScanAbortUnlanded(i) ==
  /\ rows[i].state = "validating"
  /\ rows[i].holder \in Lapsed
  /\ ~Landed(rows[i].merge)
  /\ Begin(Scanner, i, "abortLanded")

\* The recovery scan aborts what a holder without a live lease was validating.
BeginScanAbort(i) ==
  /\ rows[i].state = "validating"
  /\ rows[i].holder \in Lapsed
  /\ Begin(Scanner, i, "abortLanded")

\* On to the lease: what the call remembers of the row is read again under it.
GoToAcquire(p) ==
  calls' = [calls EXCEPT ![p] =
    [pc |-> "acquire", id |-> @.id, base |-> 0, merge |-> NoCommit,
     from |-> "validating", to |-> "aborted", leased |-> FALSE]]

\* reconcileTerminal of a validating row; an error of git counts as not landed.
Reconcile(p) ==
  /\ At(p, "reconcile")
  /\ \/ Landed(calls[p].merge) /\ Marks(p, "validating", "promoted")
     \/ GoToAcquire(p)
  /\ UNCHANGED <<rows, trunk, branch, lease>>

ReadTip(p) ==
  /\ At(p, "tip")
  /\ calls' = [calls EXCEPT ![p].pc = "gate", ![p].base = Tip]
  /\ UNCHANGED <<rows, trunk, branch, lease>>

\* Resolve the branch, run the gate on it and on the tip read before, and write
\* the merge commit object.  A branch that git fails to resolve counts as gone.
Gate(p) ==
  LET i == calls[p].id
      base == calls[p].base
  IN  /\ At(p, "gate")
      /\ \/ /\ branch[i] # 0 /\ Clean(i, base)
            /\ calls' = [calls EXCEPT ![p].pc = "setValidating",
                 ![p].merge = [id |-> i, version |-> branch[i], base |-> base]]
         \/ Marks(p, "received", "aborted")
      /\ UNCHANGED <<rows, trunk, branch, lease>>

\* Faulty SetValidating: WHERE id = ? alone.
SetValidatingAnyState(p) ==
  /\ At(p, "setValidating")
  /\ rows' = [rows EXCEPT ![calls[p].id].state = "validating",
                          ![calls[p].id].base = calls[p].base,
                          ![calls[p].id].merge = calls[p].merge]
  /\ GoToAcquire(p)
  /\ UNCHANGED <<trunk, branch, lease>>

\* One statement moves received -> validating and records base and merge.  Where
\* it loses, the call goes on with the row there is.
SetValidating(p) ==
  /\ At(p, "setValidating")
  /\ rows' = IF RowOf(p).state = "received"
             THEN [rows EXCEPT ![calls[p].id].state = "validating",
                               ![calls[p].id].base = calls[p].base,
                               ![calls[p].id].merge = calls[p].merge]
             ELSE rows
  /\ GoToAcquire(p)
  /\ UNCHANGED <<trunk, branch, lease>>

\* Trunk busy ends the call: the lease is held, or sessions queue for it.
Acquire(p) ==
  /\ At(p, "acquire")
  /\ \/ /\ lease = None
        /\ lease' = SessionOf[p]
        /\ calls' = [calls EXCEPT ![p].pc = "reload", ![p].leased = TRUE]
     \/ /\ Return(p)
        /\ UNCHANGED lease
  /\ UNCHANGED <<rows, trunk, branch>>

\* The row is read again under the lease, for its base and its merge commit.
Reload(p) ==
  /\ At(p, "reload")
  /\ calls' = [calls EXCEPT ![p].pc = "landed", ![p].base = RowOf(p).base,
                            ![p].merge = RowOf(p).merge]
  /\ UNCHANGED <<rows, trunk, branch, lease>>

CheckLanded(p) ==
  /\ At(p, "landed")
  /\ IF Landed(calls[p].merge) THEN Marks(p, "validating", "promoted") ELSE GoTo(p, "fresh")
  /\ UNCHANGED <<rows, trunk, branch, lease>>

\* Trunk moved on since the validation, and not to this merge: stale.
CheckFresh(p) ==
  /\ At(p, "fresh")
  /\ IF Tip # calls[p].base THEN Marks(p, "validating", "aborted") ELSE GoTo(p, "advance")
  /\ UNCHANGED <<rows, trunk, branch, lease>>

\* Faulty Advance: a compare-and-swap that failed passes for a promote.
AdvanceIgnoringCas(p) ==
  /\ At(p, "advance")
  /\ IF calls[p].merge # NoCommit /\ Tip = calls[p].base
     THEN AdvanceTrunk(calls[p].merge, calls[p].base)
     ELSE UNCHANGED trunk
  /\ Marks(p, "validating", "promoted")
  /\ UNCHANGED <<rows, branch, lease>>

\* The single atomic mutation.  A row that never got a merge commit fails here.
Advance(p) ==
  /\ At(p, "advance")
  /\ \/ /\ calls[p].merge # NoCommit
        /\ AdvanceTrunk(calls[p].merge, calls[p].base)
        /\ Marks(p, "validating", "promoted")
     \/ /\ calls[p].merge = NoCommit \/ Tip # calls[p].base
        /\ GoTo(p, "release")
        /\ UNCHANGED trunk
  /\ UNCHANGED <<rows, branch, lease>>

\* Abort decides by ancestry, then writes from the state it read at first.
AbortLanded(p) ==
  /\ At(p, "abortLanded")
  /\ Marks(p, calls[p].from, IF Landed(calls[p].merge) THEN "promoted" ELSE "aborted")
  /\ UNCHANGED <<rows, trunk, branch, lease>>

\* store.cas; the call ignores both its result and its error.
Mark(p) ==
  /\ At(p, "mark")
  /\ rows' = IF RowOf(p).state = calls[p].from
             THEN [rows EXCEPT ![calls[p].id].state = calls[p].to]
             ELSE rows
  /\ Finish(p)
  /\ UNCHANGED <<trunk, branch, lease>>

MarkFails(p) ==
  /\ At(p, "mark")
  /\ Finish(p)
  /\ UNCHANGED <<rows, trunk, branch, lease>>

\* Release by name: the lease goes if its holder is this session, whichever of
\* its calls acquired it.
Release(p) ==
  /\ At(p, "release")
  /\ lease' = IF lease = SessionOf[p] THEN None ELSE lease
  /\ Return(p)
  /\ UNCHANGED <<rows, trunk, branch>>

PromoteStep(w) ==
  \/ Reconcile(w) \/ ReadTip(w) \/ Gate(w) \/ SetValidating(w) \/ Acquire(w)
  \/ Reload(w) \/ CheckLanded(w) \/ CheckFresh(w) \/ Advance(w) \/ Release(w)

AbortStep(p) == AbortLanded(p) \/ Mark(p) \/ MarkFails(p)

\* git or the store answers with an error the call does not ignore.
StepFails(p) ==
  /\ calls[p] # Idle
  /\ ~At(p, "mark")
  /\ IF At(p, "release") THEN Return(p) ELSE Finish(p)
  /\ UNCHANGED <<rows, trunk, branch, lease>>

-----------------------------------------------------------------------------
(* Around the calls *)

\* An agent pushes to its branch, or deletes it.
MoveBranch(i) ==
  /\ branch[i] # 0
  /\ \E v \in {0, branch[i] + 1} :
       v <= MaxVersion /\ branch' = [branch EXCEPT ![i] = v]
  /\ UNCHANGED <<rows, trunk, lease, calls>>

\* The ttl of the trunk lease elapses while its holder is still at work.
LeaseExpires ==
  /\ lease # None
  /\ lease' = None
  /\ UNCHANGED <<rows, trunk, branch, calls>>

\* The daemon dies: rows, refs and the lease row stay, calls do not.
Crash ==
  /\ \E p \in Procs : calls[p] # Idle
  /\ calls' = [p \in Procs |-> Idle]
  /\ UNCHANGED <<rows, trunk, branch, lease>>

Next ==
  \/ \E w \in Workers, i \in Ids : Submit(w, i) \/ BeginPromote(w, i) \/ BeginAbortAs(w, i)
  \/ \E i \in Ids : BeginScanAbort(i) \/ MoveBranch(i)
  \/ \E w \in Workers : PromoteStep(w)
  \/ \E p \in Procs : AbortStep(p) \/ StepFails(p)
  \/ LeaseExpires \/ Crash

Spec == Init /\ [][Next]_vars

\* The scan runs again and again, and neither the store nor the daemon fails it
\* each time.  Nothing is assumed of the sessions.
ScanFairness ==
  \A i \in Ids :
    /\ SF_vars(BeginScanAbort(i))
    /\ SF_vars(calls[Scanner] # Idle /\ calls[Scanner].id = i /\ AbortLanded(Scanner))
    /\ SF_vars(calls[Scanner] # Idle /\ calls[Scanner].id = i /\ Mark(Scanner))

FairSpec == Spec /\ ScanFairness

-----------------------------------------------------------------------------
(* Properties *)

\* An integration the daemon calls promoted is on trunk: no interleaving of
\* promotes, aborts and crashes records a success that did not land.
PromotedIsLanded ==
  \A i \in Ids : rows[i].state = "promoted" => Landed(rows[i].merge)

\* Nothing merges silently: each commit of trunk was validated on exactly the
\* trunk below it, although trunk may move between gate and update-ref.
ValidatedOnThisTrunk ==
  \A n \in 1 .. Len(trunk) : trunk[n].base = n - 1 /\ Clean(trunk[n].id, n - 1)

\* Retries, concurrent promotes of one id and crashes after the update-ref never
\* land an integration twice.
LandedOnce ==
  \A m, n \in 1 .. Len(trunk) : trunk[m].id = trunk[n].id => m = n

\* The inductive invariant.  Trunk is made of the rows' merge commits, each on the
\* base it was validated on; a row's merge commit is written once; and a call that
\* carries a merge commit carries its row's, with its base.
TrunkOfRows ==
  \A n \in 1 .. Len(trunk) :
    /\ trunk[n].base = n - 1
    /\ Clean(trunk[n].id, n - 1)
    /\ rows[trunk[n].id] # NoRow
    /\ rows[trunk[n].id].merge = trunk[n]

Built(i, merge, base) ==
  merge.id = i /\ merge.base = base /\ base <= Len(trunk) /\ Clean(i, base)

RowsBuilt ==
  \A i \in Ids : rows[i] # NoRow =>
    /\ rows[i].state \in {"validating", "promoted"} => rows[i].merge # NoCommit
    /\ rows[i].state = "received" => rows[i].merge = NoCommit
    /\ rows[i].merge # NoCommit => Built(i, rows[i].merge, rows[i].base)

Follows(call) ==
  /\ rows[call.id] # NoRow
  /\ call.pc \in {"tip", "gate", "setValidating"} => ~call.leased
  /\ call.pc = "gate" => call.base <= Len(trunk)
  /\ call.pc = "setValidating" => Built(call.id, call.merge, call.base)
  /\ call.pc # "setValidating" /\ call.merge # NoCommit =>
       call.merge = rows[call.id].merge
  /\ call.pc = "mark" /\ call.to = "promoted" => Landed(call.merge)
  /\ call.pc \in {"landed", "fresh", "advance"} /\ call.merge # NoCommit =>
       call.base = rows[call.id].base

CallsFollowRows == \A p \in Procs : calls[p] # Idle => Follows(calls[p])

IntegratorInv ==
  TypeOK /\ TrunkOfRows /\ RowsBuilt /\ CallsFollowRows /\ PromotedIsLanded

\* Trunk only grows, and a verdict on an integration is final.
Grows ==
  /\ Len(trunk) <= Len(trunk')
  /\ \A n \in 1 .. Len(trunk) : trunk'[n] = trunk[n]
  /\ \A i \in Ids : rows[i].state \in Terminal => rows'[i] = rows[i]

TrunkGrows == [][Grows]_vars

\* trunk == merge_commit <=> promoted: an aborted integration is not on trunk,
\* and an abort never undoes an atomic promote that completed.
AbortedIsNotLanded ==
  \A i \in Ids : rows[i].state = "aborted" => ~Landed(rows[i].merge)

\* A crash between update-ref and the row's update, or a holder that dies while
\* validating, leaves no integration in flight forever.
Resolved(i) == rows[i].state \in Terminal
InFlightResolved ==
  \A i \in Ids :
    (rows[i].state = "validating" /\ rows[i].holder \in Lapsed) ~> Resolved(i)

\* Rows, calls, leases and refs together are a serial trunk: each step of theirs is one of its
\* steps or none.
Serial == INSTANCE SerialTrunk WITH
  landed <- [n \in 1 .. Len(trunk) |-> trunk[n].id],
  verdict <- [i \in Ids |-> IF rows[i].state \in Terminal THEN rows[i].state ELSE "open"]

IsSerialTrunk == Serial!Spec
=============================================================================
