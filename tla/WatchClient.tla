----------------------------- MODULE WatchClient ------------------------------
(* How `mad-trellis watch` (internal/watch: client, snapshot, model) gets what   *)
(* it shows: every tick starts a goroutine that makes one call after another on  *)
(* the only connection, each with a deadline, and delivers what was answered as  *)
(* a snapshot.  The daemon may be slow, go away and return; goroutines of        *)
(* several ticks may be under way.                                               *)
EXTENDS Naturals, FiniteSets

CONSTANTS
  Fetchers,   \* bound: goroutines under way
  Calls,      \* calls of a snapshot, of which the first is the probe
  NoFetcher

ASSUME WatchAssumption == Calls \in Nat \ {0} /\ NoFetcher \notin Fetchers

VARIABLES
  daemon,     \* the daemon "answers", is "slow" (beyond a deadline) or "down"
  conn,       \* Client.conn: usable, broken by a daemon that went away, dropped
  locked,     \* Client.mu
  fetch,      \* per goroutine: where it is, its call, the calls that were answered
  snap,       \* Model.snap, the calls that its panels show; Model.hasSnap
  watching    \* the command runs

watchVars == <<daemon, conn, locked, fetch, snap, watching>>

AllCalls == 1..Calls
NotFetching == [at |-> "idle", i |-> 1, ok |-> {}]

WatchTypeOK ==
  /\ daemon \in {"answers", "slow", "down"}
  /\ conn \in {"clean", "broken", "poisoned", "none"}
  /\ locked \in Fetchers \cup {NoFetcher}
  /\ fetch \in [Fetchers -> [at : {"idle", "lock", "call", "done"}, i : AllCalls,
                             ok : SUBSET AllCalls]]
  /\ snap \in [has : BOOLEAN, ok : SUBSET AllCalls]
  /\ watching \in {"not yet", "yes", "no more"}

WatchInit ==
  /\ daemon = "answers" /\ conn = "clean" /\ locked = NoFetcher
  /\ fetch = [f \in Fetchers |-> NotFetching]
  /\ snap = [has |-> FALSE, ok |-> {}] /\ watching = "not yet"

-----------------------------------------------------------------------------
(* Calls.                                                                       *)

\* A failed call degrades its panel; the others are made all the same.
NextCall(f, answered) ==
  /\ locked' = NoFetcher
  /\ fetch' = [fetch EXCEPT ![f] =
                 [at |-> IF @.i = Calls THEN "done" ELSE "lock",
                  i |-> IF @.i = Calls THEN @.i ELSE @.i + 1,
                  ok |-> IF answered THEN @.ok \cup {@.i} ELSE @.ok]]
  /\ UNCHANGED <<daemon, snap, watching>>

\* Fault: the connection is kept, with the error its decoder remembers.
DropConnKept == conn' = IF conn = "none" THEN "none" ELSE "poisoned"

DropConn == conn' = "none"

\* A dropped connection is dialled again.
LockAndSend(f) ==
  /\ fetch[f].at = "lock" /\ locked = NoFetcher
  /\ conn # "none" \/ daemon # "down"
  /\ locked' = f /\ conn' = IF conn = "none" THEN "clean" ELSE conn
  /\ fetch' = [fetch EXCEPT ![f].at = "call"]
  /\ UNCHANGED <<daemon, snap, watching>>

DialFails(f) ==
  /\ fetch[f].at = "lock" /\ locked = NoFetcher
  /\ conn = "none" /\ daemon = "down"
  /\ UNCHANGED conn
  /\ NextCall(f, FALSE)

Receive(f) ==
  /\ fetch[f].at = "call" /\ conn = "clean" /\ daemon = "answers"
  /\ UNCHANGED conn
  /\ NextCall(f, TRUE)

CallFails(f) ==
  /\ fetch[f].at = "call" /\ (conn # "clean" \/ daemon # "answers")
  /\ DropConn
  /\ NextCall(f, FALSE)

-----------------------------------------------------------------------------
(* The program.                                                                 *)

\* The command does not start without a daemon.
WatchStarts ==
  /\ watching = "not yet" /\ daemon = "answers"
  /\ watching' = "yes" /\ conn' = "clean"
  /\ UNCHANGED <<daemon, locked, fetch, snap>>

PollTick ==
  /\ watching = "yes"
  /\ \E f \in Fetchers :
       fetch[f].at = "idle" /\ fetch' = [fetch EXCEPT ![f] = [NotFetching EXCEPT !.at = "lock"]]
  /\ UNCHANGED <<daemon, conn, locked, snap, watching>>

\* The last to be delivered replaces what is shown, whichever was fetched last.
SnapshotMsg(f) ==
  /\ fetch[f].at = "done" /\ watching = "yes"
  /\ snap' = [has |-> TRUE, ok |-> fetch[f].ok]
  /\ fetch' = [fetch EXCEPT ![f] = NotFetching]
  /\ UNCHANGED <<daemon, conn, locked, watching>>

QuitKey ==
  /\ watching = "yes" /\ watching' = "no more"
  /\ UNCHANGED <<daemon, conn, locked, fetch, snap>>

DaemonChanges ==
  /\ \E d \in {"answers", "slow", "down"} \ {daemon} : daemon' = d
  /\ conn' = IF daemon' = "down" /\ conn = "clean" THEN "broken" ELSE conn
  /\ UNCHANGED <<locked, fetch, snap, watching>>

FetchStep(f) == LockAndSend(f) \/ DialFails(f) \/ Receive(f) \/ CallFails(f) \/ SnapshotMsg(f)

WatchNext ==
  \/ WatchStarts \/ PollTick \/ QuitKey \/ DaemonChanges
  \/ \E f \in Fetchers : FetchStep(f)

\* The ticker ticks, and goroutines run; who waits for the mutex may be passed.
WatchFairness ==
  /\ WF_watchVars(PollTick)
  /\ \A f \in Fetchers : WF_watchVars(FetchStep(f))

WatchSpec == WatchInit /\ [][WatchNext]_watchVars /\ WatchFairness

-----------------------------------------------------------------------------

\* However the daemon was slow, away or restarted, once it answers again every panel shows
\* what it says, without restarting the command (call, "SELF-HEALING").
WatchRecovers ==
  <>[](daemon = "answers" /\ watching = "yes") => <>[](snap.has /\ snap.ok = AllCalls)
===============================================================================
