----------------------------- MODULE ReviewQueue -----------------------------
(* The integration plane (internal/integration): one row per branch that      *)
(* builders request, integrators claim and decide, anyone may cancel, the     *)
(* recovery scan re-queues and collects; and a log of wake-up events that     *)
(* sessions poll with a cursor of their own.  An RPC runs in the goroutine of *)
(* its connection; a row is written by one conditional statement, and the     *)
(* event about it is appended by a later one.                                 *)
EXTENDS Naturals, FiniteSets

CONSTANTS
  Branches,
  Sessions,
  Workers,     \* goroutines serving RPCs
  Scanner,     \* the goroutine of the recovery scan
  SessionOf,   \* the session a worker's connection is bound to
  Boundary,    \* the branches nm/<session> of a session's own sandbox
  Watched,     \* the branch a session polls events for; None: the whole queue
  Gone,        \* sessions that never hold a live lease
  MaxBatch,    \* how many events a poll returns at most
  MaxEvents,   \* bound: on the events written before a worker's call begins
  None

ASSUME ScannerAssumption == Scanner \notin Workers
ASSUME SessionOfAssumption == SessionOf \in [Workers -> Sessions]
ASSUME BoundaryAssumption == Boundary \in [Sessions -> SUBSET Branches]
ASSUME WatchedAssumption == Watched \in [Sessions -> Branches \cup {None}]
ASSUME NoneAssumption == None \notin Branches \cup Sessions
ASSUME GoneAssumption == Gone \subseteq Sessions
ASSUME BatchAssumption == MaxBatch \in Nat \ {0} /\ MaxEvents \in Nat

VARIABLES
  rows,        \* table integration_requests
  events,      \* table events
  lastId,      \* the id of the last event written
  cursor,      \* table event_cursors
  calls,       \* the call each goroutine is in, beyond its first statement
  woken,       \* clients: a poll returned something since the session last looked
  aware,       \* clients: the sessions that have read the row as it is
  unannounced  \* branches about whose row as it is a wake-up was lost to a fault

vars == <<rows, events, lastId, cursor, calls, woken, aware, unannounced>>
log == <<events, lastId, cursor>>
clients == <<woken, aware>>

-----------------------------------------------------------------------------
(* Types *)

Procs == Workers \cup {Scanner}
Verdicts == {"approved", "changes_requested"}
States == {"requested", "claimed", "withdrawn"} \cup Verdicts

\* What Cancel and Verdict never touch and only Request and the collection do.
Settled == {"approved", "withdrawn"}

Row == [state : States, holder : Sessions, claimer : Sessions \cup {None}]
NoRow == [state |-> "none"]

Requested(s) == [state |-> "requested", holder |-> s, claimer |-> None]

\* audience: everyone who reads the queue, or who is concerned by the branch.
Audiences == {"integrator", "branch"}
Event == [id : Nat, audience : Audiences, branch : Branches]

Call == [pc : {"insert", "update", "announce"}, branch : Branches, audience : Audiences]
\* live: the holders of live leases the scan read; left: the claims of others that
\* it read and has not come to yet; back: what it re-queued and not announced.
StaleClaim == [branch : Branches, claimer : Sessions \cup {None}]
ScanCall == [pc : {"query", "sweep", "requeued"}, live : SUBSET Sessions,
             left : SUBSET StaleClaim, back : SUBSET Branches]
Idle == [pc |-> "idle"]

TypeOK ==
  /\ rows \in [Branches -> Row \cup {NoRow}]
  /\ events \subseteq Event
  /\ lastId \in Nat
  /\ cursor \in [Sessions -> Nat]
  /\ calls \in [Procs -> Call \cup ScanCall \cup {Idle}]
  /\ \A w \in Workers : calls[w] \in Call \cup {Idle}
  /\ calls[Scanner] \in ScanCall \cup {Idle}
  /\ woken \subseteq Sessions
  /\ aware \in [Branches -> SUBSET Sessions]
  /\ unannounced \subseteq Branches

Init ==
  /\ rows = [b \in Branches |-> NoRow]
  /\ events = {}
  /\ lastId = 0
  /\ cursor = [s \in Sessions |-> 0]
  /\ calls = [p \in Procs |-> Idle]
  /\ woken = {}
  /\ aware = [b \in Branches |-> {}]
  /\ unannounced = {}

-----------------------------------------------------------------------------
(* Statements *)

At(p, point) == calls[p].pc = point
Return(p) == calls' = [calls EXCEPT ![p] = Idle]

\* A statement that changes b's row stamps it; nobody has read the new row.
Write(b, row) ==
  /\ rows' = [rows EXCEPT ![b] = row]
  /\ aware' = [aware EXCEPT ![b] = {}]
  /\ unannounced' = unannounced \ {b}

\* The rest of a call whose write succeeded: one event.
ThenAnnounce(w, b, audience) ==
  calls' = [calls EXCEPT ![w] = [pc |-> "announce", branch |-> b, audience |-> audience]]

Append(audience, b) ==
  /\ lastId' = lastId + 1
  /\ events' = events \cup {[id |-> lastId + 1, audience |-> audience, branch |-> b]}

\* Bound: the events there are and those on their way.
Room == lastId + Cardinality({w \in Workers : calls[w] # Idle}) < MaxEvents

-----------------------------------------------------------------------------
(* The calls of builders and integrators *)

\* Request reads whether there is a row, then inserts or updates accordingly.
BeginRequest(w, b) ==
  /\ calls[w] = Idle /\ Room
  /\ calls' = [calls EXCEPT ![w] =
       [pc |-> IF rows[b] = NoRow THEN "insert" ELSE "update",
        branch |-> b, audience |-> "integrator"]]
  /\ UNCHANGED <<rows, log, clients, unannounced>>

\* A row that has appeared meanwhile makes the insert an error.
Insert(w) ==
  LET b == calls[w].branch
  IN  /\ At(w, "insert")
      /\ IF rows[b] = NoRow
         THEN /\ Write(b, Requested(SessionOf[w]))
              /\ ThenAnnounce(w, b, "integrator")
         ELSE /\ Return(w)
              /\ UNCHANGED <<rows, aware, unannounced>>
      /\ UNCHANGED <<log, woken>>

\* A row that has gone meanwhile is not updated, and the call goes on all the same.
Update(w) ==
  LET b == calls[w].branch
  IN  /\ At(w, "update")
      /\ IF rows[b] # NoRow
         THEN Write(b, Requested(SessionOf[w]))
         ELSE UNCHANGED <<rows, aware, unannounced>>
      /\ ThenAnnounce(w, b, "integrator")
      /\ UNCHANGED <<log, woken>>

Claim(w, b) ==
  /\ calls[w] = Idle /\ Room
  /\ rows[b].state = "requested"
  /\ Write(b, [rows[b] EXCEPT !.state = "claimed", !.claimer = SessionOf[w]])
  /\ ThenAnnounce(w, b, "branch")
  /\ UNCHANGED <<log, woken>>

\* Any session may decide on a claimed row, not only its claimer.
Verdict(w, b, verdict) ==
  /\ calls[w] = Idle /\ Room
  /\ rows[b].state = "claimed"
  /\ Write(b, [rows[b] EXCEPT !.state = verdict])
  /\ ThenAnnounce(w, b, "branch")
  /\ UNCHANGED <<log, woken>>

\* Any session may cancel what has no verdict.  Nobody is told.
Cancel(w, b) ==
  /\ calls[w] = Idle
  /\ rows[b].state \in {"requested", "claimed"}
  /\ Write(b, [rows[b] EXCEPT !.state = "withdrawn"])
  /\ UNCHANGED <<log, calls, woken>>

Announce(w) ==
  /\ At(w, "announce")
  /\ Append(calls[w].audience, calls[w].branch)
  /\ Return(w)
  /\ UNCHANGED <<rows, cursor, clients, unannounced>>

\* The append fails, and is ignored; or the call ends in an error before it.
CallFails(w) ==
  /\ calls[w] # Idle
  /\ Return(w)
  /\ unannounced' = IF At(w, "announce") THEN unannounced \cup {calls[w].branch}
                    ELSE unannounced
  /\ UNCHANGED <<rows, log, clients>>

-----------------------------------------------------------------------------
(* Events *)

\* Faulty Authorized: only the sandbox's own branch counts.
AuthorizedByName(s, e) == e.audience = "branch" => e.branch \in Boundary[s]

\* Whom an event is for depends on who holds the row when it is polled.
Authorized(s, e) ==
  e.audience = "branch" =>
    e.branch \in Boundary[s] \/ (rows[e.branch] # NoRow /\ rows[e.branch].holder = s)

\* A poll for one branch leaves out the queue's events.
Selected(s, e) ==
  Watched[s] # None => e.branch = Watched[s] /\ e.audience = "branch"

Unread(s) == {e \in events : e.id > cursor[s] /\ Selected(s, e) /\ Authorized(s, e)}

\* One transaction: read a batch in the order of ids, move the cursor to its last.
ReadAndAdvance(s) ==
  \E e \in Unread(s) :
    /\ LET batch == {d \in Unread(s) : d.id <= e.id}
       IN  Cardinality(batch) = MaxBatch \/ (batch = Unread(s) /\ Cardinality(batch) < MaxBatch)
    /\ cursor' = [cursor EXCEPT ![s] = e.id]

Poll(s) ==
  /\ ReadAndAdvance(s)
  /\ woken' = woken \cup {s}
  /\ UNCHANGED <<rows, events, lastId, calls, aware, unannounced>>

\* The cursor is committed, and the reply never arrives.
PollReplyLost(s) ==
  /\ ReadAndAdvance(s)
  /\ unannounced' = unannounced \cup
       {e.branch : e \in {d \in Unread(s) : d.id <= cursor'[s]}}
  /\ UNCHANGED <<rows, events, lastId, calls, clients>>

\* What a client reads when woken up, or on its own: Pending, the requested rows,
\* or the Status of its branch.
Reads(s) ==
  IF Watched[s] = None THEN {b \in Branches : rows[b].state = "requested"} ELSE {Watched[s]}

Look(s) ==
  /\ woken' = woken \ {s}
  /\ aware' = [b \in Branches |-> IF b \in Reads(s) THEN aware[b] \cup {s} ELSE aware[b]]
  /\ UNCHANGED <<rows, log, calls, unannounced>>

-----------------------------------------------------------------------------
(* The recovery scan *)

\* A scan reads the holders of live leases: any session may be among them that is
\* not gone, and on an error the scan goes on with none.
BeginScan ==
  /\ calls[Scanner] = Idle
  /\ \E live \in SUBSET (Sessions \ Gone) :
       calls' = [calls EXCEPT ![Scanner] =
                   [pc |-> "query", live |-> live, left |-> {}, back |-> {}]]
  /\ UNCHANGED <<rows, log, clients, unannounced>>

\* The claimed rows, less those whose recorded claimer is in the live set.
Query ==
  LET claim(b) == [branch |-> b, claimer |-> rows[b].claimer]
      claimed == {b \in Branches : rows[b].state = "claimed"}
  IN  /\ At(Scanner, "query")
      /\ calls' = [calls EXCEPT ![Scanner].pc = "sweep",
           ![Scanner].left = {claim(b) : b \in {b \in claimed :
                                rows[b].claimer \notin calls[Scanner].live}}]
      /\ UNCHANGED <<rows, log, clients, unannounced>>

\* Faulty StillClaimed: WHERE branch = ? alone, or with the state it sets.
StillThere(b) == rows[b] # NoRow
StillRequested(b) == rows[b].state = "requested"

\* The condition of the statement that re-queues a row.
StillClaimed(b) == rows[b].state = "claimed"

\* One row: if it is not claimed any more, it is skipped.
Sweep(claim) ==
  LET b == claim.branch
  IN  /\ At(Scanner, "sweep")
      /\ claim \in calls[Scanner].left
      /\ IF StillClaimed(b)
         THEN /\ Write(b, [rows[b] EXCEPT !.state = "requested", !.claimer = None])
              /\ calls' = [calls EXCEPT ![Scanner].left = @ \ {claim},
                                        ![Scanner].back = @ \cup {b}]
         ELSE /\ calls' = [calls EXCEPT ![Scanner].left = @ \ {claim}]
              /\ UNCHANGED <<rows, aware, unannounced>>
      /\ UNCHANGED <<log, woken>>

\* Faulty EndSweep: the rows are back in the queue and nobody is told.
EndSweepSilently ==
  /\ At(Scanner, "sweep") /\ calls[Scanner].left = {}
  /\ Return(Scanner)
  /\ UNCHANGED <<rows, log, clients, unannounced>>

\* All rows are done: their events come after.
EndSweep ==
  /\ At(Scanner, "sweep") /\ calls[Scanner].left = {}
  /\ IF calls[Scanner].back = {} THEN Return(Scanner)
     ELSE calls' = [calls EXCEPT ![Scanner].pc = "requeued"]
  /\ UNCHANGED <<rows, log, clients, unannounced>>

AnnounceRequeued(b) ==
  /\ At(Scanner, "requeued")
  /\ b \in calls[Scanner].back
  /\ Append("integrator", b)
  /\ IF calls[Scanner].back = {b} THEN Return(Scanner)
     ELSE calls' = [calls EXCEPT ![Scanner].back = @ \ {b}]
  /\ UNCHANGED <<rows, cursor, clients, unannounced>>

\* A failing statement ends the sweep, and with it the events of the rows that
\* are back already.
ScanFails ==
  /\ calls[Scanner] # Idle
  /\ Return(Scanner)
  /\ unannounced' = unannounced \cup calls[Scanner].back
  /\ UNCHANGED <<rows, log, clients>>

\* GCStale ends each scan: first what is settled, then what nobody took up,
\* whichever rows have not been updated for the retention of their kind.  Of two
\* scans, the loop's and one called by RPC, one may collect while the other sweeps.
Collect(states) ==
  /\ \E old \in SUBSET {b \in Branches : rows[b].state \in states} :
       /\ old # {}
       /\ rows' = [b \in Branches |-> IF b \in old THEN NoRow ELSE rows[b]]
  /\ UNCHANGED <<log, calls, clients, unannounced>>

CollectSettled == Collect(Settled)
CollectAbandoned == Collect({"requested", "changes_requested"})

\* Events go after a retention of their own, read or not.
CollectEvents ==
  \E e \in events :
    LET old == {d \in events : d.id <= e.id}
    IN  /\ events' = events \ old
        /\ unannounced' = unannounced \cup
             {d.branch : d \in {d \in old : \E s \in Sessions : d \in Unread(s)}}
        /\ UNCHANGED <<rows, lastId, cursor, calls, clients>>

-----------------------------------------------------------------------------
(* Around the calls *)

\* The daemon dies: tables stay, calls do not.
Crash ==
  /\ \E p \in Procs : calls[p] # Idle
  /\ calls' = [p \in Procs |-> Idle]
  /\ unannounced' = unannounced
       \cup {calls[w].branch : w \in {w \in Workers : At(w, "announce")}}
       \cup (IF calls[Scanner] = Idle THEN {} ELSE calls[Scanner].back)
  /\ UNCHANGED <<rows, log, clients>>

WorkerStep(w) ==
  \/ \E b \in Branches :
       \/ BeginRequest(w, b) \/ Claim(w, b) \/ Cancel(w, b)
       \/ \E verdict \in Verdicts : Verdict(w, b, verdict)
  \/ Insert(w) \/ Update(w) \/ Announce(w) \/ CallFails(w)

ScanStep ==
  \/ BeginScan \/ Query \/ EndSweep \/ ScanFails
  \/ \E claim \in StaleClaim : Sweep(claim)
  \/ \E b \in Branches : AnnounceRequeued(b)
  \/ CollectSettled \/ CollectAbandoned \/ CollectEvents

Next ==
  \/ \E w \in Workers : WorkerStep(w)
  \/ ScanStep
  \/ \E s \in Sessions : Poll(s) \/ PollReplyLost(s) \/ Look(s)
  \/ Crash

Spec == Init /\ [][Next]_vars

\* Scans run again and again, and not each of them is failed by the store.
FairSpec ==
  /\ Spec
  /\ SF_vars(BeginScan) /\ SF_vars(Query)
  /\ \A claim \in StaleClaim : SF_vars(Sweep(claim))
  /\ WF_vars(EndSweep \/ \E b \in Branches : AnnounceRequeued(b))

-----------------------------------------------------------------------------
(* Properties *)

\* What a session waits to hear: of requests if it watches the queue, of the
\* verdict on a row it holds if it watches the branch.
Concerns(s, b) ==
  \/ Watched[s] = None /\ rows[b].state = "requested"
  \/ /\ Watched[s] = b
     /\ rows[b].state \in Verdicts
     /\ rows[b].holder = s

Audience(s) == IF Watched[s] = None THEN "integrator" ELSE "branch"

\* An event about b is on its way to s.
Coming(s, b) ==
  \/ \E e \in Unread(s) : e.branch = b /\ e.audience = Audience(s)
  \/ \E w \in Workers :
       At(w, "announce") /\ calls[w].branch = b /\ calls[w].audience = Audience(s)
  \/ /\ calls[Scanner] # Idle /\ b \in calls[Scanner].back
     /\ Audience(s) = "integrator"

\* No lost wake-up: a session that sleeps until an event comes, while there is
\* something about b for it that it has not read, has one coming, although rows
\* and events are written apart, cursors skip what is not for their session, and
\* rows change hands.  Only a fault on the way loses a wake-up.
NoLostWakeup ==
  \A s \in Sessions, b \in Branches :
    Concerns(s, b) =>
      s \in aware[b] \/ s \in woken \/ Coming(s, b) \/ b \in unannounced

\* The inductive invariant that gives NoLostWakeup: cursors and ids are behind
\* the last event written.
IdsWritten ==
  /\ \A e \in events : e.id <= lastId
  /\ \A s \in Sessions : cursor[s] <= lastId

QueueInv == TypeOK /\ IdsWritten /\ NoLostWakeup

\* A verdict or withdrawal that landed is not clobbered: not by another verdict, a
\* cancel, or a scan that read the row before.  Only a new request replaces it, and
\* only the collection drops it.
SettledStands ==
  [][\A b \in Branches :
       rows[b].state \in Settled /\ rows'[b] # rows[b] =>
         \/ CollectSettled
         \/ \E w \in Workers : Update(w) /\ calls[w].branch = b]_vars

\* The scan takes no claim from a session that it found alive itself: not even
\* from one that claimed the request after the scan had read the claims.
LiveClaimsKept ==
  [][\A claim \in StaleClaim :
       Sweep(claim) /\ StillClaimed(claim.branch) =>
         rows[claim.branch].claimer \notin calls[Scanner].live]_vars

\* A request that is answered as recorded is in the queue.
RequestLands ==
  [][\A w \in Workers : Update(w) => rows'[calls[w].branch] = Requested(SessionOf[w])]_vars

\* An integrator that died with its claim does not strand the request.
Stranded(b) == rows[b].state = "claimed" /\ rows[b].claimer \in Gone
StrandedRequeued == \A b \in Branches : Stranded(b) ~> ~Stranded(b)
=============================================================================
