----------------------------- MODULE LeaseLedger -----------------------------
(* The lease ledger (internal/lease): one row per key, one queue of waiters   *)
(* per key, both in a SQLite store behind a single connection.  Each RPC runs *)
(* in the goroutine of its client connection.  It reads the clock once, then  *)
(* issues its SQL statements one by one; a statement is atomic, and the       *)
(* statements of different calls interleave.  A daemon restart forgets the    *)
(* calls in flight and keeps the rows.                                        *)
EXTENDS Naturals

CONSTANTS
  Keys,        \* opaque lease keys
  Sessions,    \* session ids; their order as numbers stands for the ORDER BY
  Conns,       \* client connections, each served by a goroutine of its own
  SessionOf,   \* the session a connection is bound to
  Ttls,        \* the ttl values callers ask for
  MaxClock,    \* bound: the clock stops here
  Horizon,     \* bound: a session asks for no deadline beyond this instant
  FenceCap     \* bound: a session begins no acquire of a key fenced this high

NoHolder == 0

ASSUME SessionsAssumption == Sessions \subseteq Nat \ {NoHolder}
ASSUME SessionOfAssumption == SessionOf \in [Conns -> Sessions]
ASSUME TtlsAssumption == Ttls \subseteq Nat \ {0}
ASSUME BoundsAssumption ==
  /\ MaxClock \in Nat
  /\ Horizon \in [Sessions -> Nat]
  /\ FenceCap \in [Sessions -> Nat]

VARIABLES
  leases,    \* table leases: key -> holder, expires_at, fence
  waiters,   \* table lease_waiters: the rows (key, session, enqueued_at, expires_at)
  now,       \* the wall clock
  calls,     \* the call each connection is executing
  told       \* the deadline each connection was last told it holds each key until

vars == <<leases, waiters, now, calls, told>>

-----------------------------------------------------------------------------
(* Types *)

Lease == [holder : Sessions \cup {NoHolder}, expires : Nat, fence : Nat]
Waiter == [key : Keys, session : Sessions, enqueued : Nat, expires : Nat]

Ops == {"acquire", "enqueue", "queue", "dequeue", "renew", "release"}
Statements == {"prune", "readQueue", "cas", "retire", "insert",
               "dequeue", "renew", "release"}

\* at: the clock reading of the call; until: the deadline it asks for; queued: the
\* queue was not empty when read.
Call == [pc : Statements, op : Ops, key : Keys, at : Nat, until : Nat, queued : BOOLEAN]
\* Between calls: the last one returned, or ended in an error for its caller.
NoCall == [pc |-> "none"]
Failed == [pc |-> "failed"]
Idle(c) == calls[c] \in {NoCall, Failed}

TypeOK ==
  /\ leases \in [Keys -> Lease]
  /\ waiters \subseteq Waiter
  /\ now \in Nat
  /\ calls \in [Conns -> Call \cup {NoCall, Failed}]
  /\ told \in [Conns -> [Keys -> Nat]]

Init ==
  /\ leases = [k \in Keys |-> [holder |-> NoHolder, expires |-> 0, fence |-> 0]]
  /\ waiters = {}
  /\ now = 0
  /\ calls = [c \in Conns |-> NoCall]
  /\ told = [c \in Conns |-> [k \in Keys |-> 0]]

-----------------------------------------------------------------------------
(* The rows as the statements see them *)

\* A row no statement has inserted yet reads as fence 0 and no holder.
Free(k) == leases[k].holder = NoHolder
Expired(k, t) == leases[k].expires <= t
Takeable(k, t) == Free(k) \/ Expired(k, t)

\* Faulty LiveAt: dead waiters are never pruned nor skipped.
LiveAtUnpruned(t) == waiters

\* The rows DELETE ... WHERE expires_at <= t leaves, of every key.
LiveAt(t) == {w \in waiters : w.expires > t}
LiveWaiters(k, t) == {w \in LiveAt(t) : w.key = k}

\* ORDER BY enqueued_at ASC, session ASC
Precedes(v, w) ==
  \/ v.enqueued < w.enqueued
  \/ v.enqueued = w.enqueued /\ v.session < w.session

\* s is at the front of k's queue at time t.
IsHead(k, s, t) ==
  \E w \in LiveWaiters(k, t) :
    w.session = s /\ \A v \in LiveWaiters(k, t) \ {w} : Precedes(w, v)

-----------------------------------------------------------------------------
(* A call: begun by its connection, then one statement per step *)

FirstStatement(op) ==
  IF op \in {"acquire", "enqueue", "queue"} THEN "prune" ELSE op

\* A call that needs the clock reads it here, and the clock may move on before
\* the statements run; one that asks for a deadline gets it from that reading.
Readings(op, t) ==
  CASE op \in {"acquire", "enqueue", "renew"} ->
         {[at |-> t, until |-> t + ttl] : ttl \in Ttls}
    [] op = "queue" -> {[at |-> t, until |-> 0]}
    [] OTHER -> {[at |-> 0, until |-> 0]}

\* Whoever asks for a release no longer counts on the key, whatever the reply.
Begin(c, op, k) ==
  /\ Idle(c)
  /\ op = "acquire" => leases[k].fence < FenceCap[SessionOf[c]]
  /\ \E r \in Readings(op, now) :
       /\ r.until <= Horizon[SessionOf[c]]
       /\ calls' = [calls EXCEPT ![c] =
            [pc |-> FirstStatement(op), op |-> op, key |-> k,
             at |-> r.at, until |-> r.until, queued |-> FALSE]]
  /\ told' = IF op = "release" THEN [told EXCEPT ![c][k] = 0] ELSE told
  /\ UNCHANGED <<leases, waiters, now>>

At(c, statement) == calls[c].pc = statement
GoTo(c, statement) == calls' = [calls EXCEPT ![c].pc = statement]
Return(c) == calls' = [calls EXCEPT ![c] = NoCall]

OwnRow(c) == {w \in waiters : w.key = calls[c].key /\ w.session = SessionOf[c]}

Prune(c) ==
  /\ At(c, "prune")
  /\ waiters' = LiveAt(calls[c].at)
  /\ CASE calls[c].op = "acquire" -> GoTo(c, "readQueue")
       [] calls[c].op = "enqueue" -> GoTo(c, "insert")
       [] OTHER -> Return(c)
  /\ UNCHANGED <<leases, now, told>>

\* headWaiter: a caller that is not the head of a non-empty queue is refused.
ReadQueue(c) ==
  LET k == calls[c].key
      t == calls[c].at
      queued == LiveWaiters(k, t) # {}
  IN  /\ At(c, "readQueue")
      /\ IF queued /\ ~IsHead(k, SessionOf[c], t)
         THEN Return(c)
         ELSE calls' = [calls EXCEPT ![c].pc = "cas", ![c].queued = queued]
      /\ UNCHANGED <<leases, waiters, now, told>>

\* Faulty Taken: a takeover keeps the fence.
TakenKeepingFence(c) ==
  [holder |-> SessionOf[c], expires |-> calls[c].until,
   fence |-> IF leases[calls[c].key].fence = 0 THEN 1 ELSE leases[calls[c].key].fence]

\* The row of a key c has taken: a new row's fence is 1.
Taken(c) ==
  [holder |-> SessionOf[c], expires |-> calls[c].until,
   fence |-> leases[calls[c].key].fence + 1]

\* The conditional upsert; the lock predicate is its WHERE clause.  (The reply's
\* fence is read from the row by one more statement, which changes nothing.)
Cas(c) ==
  LET k == calls[c].key
  IN  /\ At(c, "cas")
      /\ IF Takeable(k, calls[c].at)
         THEN /\ leases' = [leases EXCEPT ![k] = Taken(c)]
              /\ told' = [told EXCEPT ![c][k] = calls[c].until]
              /\ IF calls[c].queued THEN GoTo(c, "retire") ELSE Return(c)
         ELSE Return(c) /\ UNCHANGED <<leases, told>>
      /\ UNCHANGED <<waiters, now>>

\* The head took the key: its waiter row goes.
Retire(c) ==
  /\ At(c, "retire")
  /\ waiters' = waiters \ OwnRow(c)
  /\ Return(c)
  /\ UNCHANGED <<leases, now, told>>

\* Faulty Insert: a heartbeat writes the row afresh.
InsertAfresh(c) ==
  /\ At(c, "insert")
  /\ waiters' = (waiters \ OwnRow(c)) \cup
       {[key |-> calls[c].key, session |-> SessionOf[c],
         enqueued |-> calls[c].at, expires |-> calls[c].until]}
  /\ Return(c)
  /\ UNCHANGED <<leases, now, told>>

\* Enqueue's upsert: a row that is there keeps its enqueued_at.
Insert(c) ==
  LET fresh == [key |-> calls[c].key, session |-> SessionOf[c],
                enqueued |-> calls[c].at, expires |-> calls[c].until]
  IN  /\ At(c, "insert")
      /\ waiters' = IF OwnRow(c) = {} THEN waiters \cup {fresh}
                    ELSE (waiters \ OwnRow(c))
                           \cup {[w EXCEPT !.expires = calls[c].until] : w \in OwnRow(c)}
      /\ Return(c)
      /\ UNCHANGED <<leases, now, told>>

Dequeue(c) ==
  /\ At(c, "dequeue")
  /\ waiters' = waiters \ OwnRow(c)
  /\ Return(c)
  /\ UNCHANGED <<leases, now, told>>

\* Only the holder of a lease that had not expired at the call's reading.
Renew(c) ==
  LET k == calls[c].key
  IN  /\ At(c, "renew")
      /\ IF leases[k].holder = SessionOf[c] /\ ~Expired(k, calls[c].at)
         THEN /\ leases' = [leases EXCEPT ![k].expires = calls[c].until]
              /\ told' = [told EXCEPT ![c][k] = calls[c].until]
         ELSE /\ told' = [told EXCEPT ![c][k] = 0]
              /\ UNCHANGED leases
      /\ Return(c)
      /\ UNCHANGED <<waiters, now>>

\* Faulty Release: WHERE key = ? alone.
ReleaseAnyHolder(c) ==
  /\ At(c, "release")
  /\ leases' = [leases EXCEPT ![calls[c].key].holder = NoHolder,
                              ![calls[c].key].expires = 0]
  /\ Return(c)
  /\ UNCHANGED <<waiters, now, told>>

\* Only the holder; an expired lease is released too, and the fence stays.
Release(c) ==
  LET k == calls[c].key
  IN  /\ At(c, "release")
      /\ leases' = IF leases[k].holder = SessionOf[c]
                   THEN [leases EXCEPT ![k].holder = NoHolder, ![k].expires = 0]
                   ELSE leases
      /\ Return(c)
      /\ UNCHANGED <<waiters, now, told>>

Statement(c) ==
  \/ Prune(c) \/ ReadQueue(c) \/ Cas(c) \/ Retire(c) \/ Insert(c)
  \/ Dequeue(c) \/ Renew(c) \/ Release(c)

\* The store answers a statement with an error: the call returns it and undoes
\* none of the statements that went before.
StatementFails(c) ==
  /\ ~Idle(c)
  /\ calls' = [calls EXCEPT ![c] = Failed]
  /\ UNCHANGED <<leases, waiters, now, told>>

-----------------------------------------------------------------------------
(* The environment of the calls *)

\* Faulty ReclaimIfExpired: without its expiry condition.
ReclaimHeld(k, t) ==
  /\ ~Free(k)
  /\ leases' = [leases EXCEPT ![k] =
                  [holder |-> NoHolder, expires |-> 0, fence |-> @.fence + 1]]
  /\ UNCHANGED <<waiters, now, calls, told>>

\* The transaction of a recovery scan that read the clock at t.
ReclaimIfExpired(k, t) ==
  /\ ~Free(k) /\ Expired(k, t)
  /\ leases' = [leases EXCEPT ![k] =
                  [holder |-> NoHolder, expires |-> 0, fence |-> @.fence + 1]]
  /\ UNCHANGED <<waiters, now, calls, told>>

\* The daemon dies and comes back: rows survive, calls and their replies do not.
DaemonRestart ==
  /\ \E c \in Conns : ~Idle(c)
  /\ calls' = [c \in Conns |-> Failed]
  /\ UNCHANGED <<leases, waiters, now, told>>

Tick ==
  /\ now < MaxClock
  /\ now' = now + 1
  /\ UNCHANGED <<leases, waiters, calls, told>>

Next ==
  \/ \E c \in Conns, op \in Ops, k \in Keys : Begin(c, op, k)
  \/ \E c \in Conns : Statement(c) \/ StatementFails(c)
  \/ \E k \in Keys, t \in 0 .. now : ReclaimIfExpired(k, t)
  \/ DaemonRestart
  \/ Tick

Spec == Init /\ [][Next]_vars

\* Connection c keeps polling for k.  The goroutines are scheduled, time passes,
\* and the store and the daemon eventually stop failing.  Nobody else is fair:
\* any other session may crash with the key held or with its row in the queue.
Polling(c, k) ==
  /\ WF_vars(Tick)
  /\ \A d \in Conns : WF_vars(Statement(d))
  /\ SF_vars(Begin(c, "acquire", k))
  /\ <>[][~(DaemonRestart \/ \E d \in Conns : StatementFails(d))]_vars

-----------------------------------------------------------------------------
(* Safety *)

\* Mutual exclusion as the callers see it: while one connection is still within
\* the deadline it was last told (by an acquire or a renew) for a key, no
\* connection of another session is.  The clock may move, calls may stall between
\* their clock reading and their statement, and the recovery scan may run.
\* A session uses one connection per key (OneConnPerSession).
OneConnPerSession == \A c, d \in Conns : SessionOf[c] = SessionOf[d] => c = d

ExclusiveUntilDeadline ==
  \A c, d \in Conns, k \in Keys :
    told[c][k] > now /\ told[d][k] > now => SessionOf[c] = SessionOf[d]

\* The call's clock reading is in the past, a connection that is releasing a key
\* no longer counts on it, and a deadline still counted on is in the key's row.
ReadingsPast == \A c \in Conns : ~Idle(c) => calls[c].at <= now

ReleasingCountsOnNothing ==
  \A c \in Conns : At(c, "release") => told[c][calls[c].key] = 0

BackedByRow ==
  \A c \in Conns, k \in Keys :
    told[c][k] > now =>
      leases[k].holder = SessionOf[c] /\ told[c][k] <= leases[k].expires

\* The inductive invariant: what makes ExclusiveUntilDeadline hold.
LedgerInv == TypeOK /\ ReadingsPast /\ ReleasingCountsOnNothing /\ BackedByRow

\* Anti-barging: a session takes a key only from the head of its queue of live
\* waiters, or when nobody waits.
NoBarging ==
  [][\A c \in Conns :
       LET k == calls[c].key
       IN  Cas(c) /\ leases'[k] # leases[k] =>
             LiveWaiters(k, now) = {} \/ IsHead(k, SessionOf[c], now)]_vars

\* A heartbeat keeps its place: whatever happens, a waiter that stays in a queue
\* stays behind and ahead of the waiters it was behind and ahead of.
SameWaiter(v, w) == v.key = w.key /\ v.session = w.session

PlaceKept ==
  [][\A v, w \in waiters, x, y \in waiters' :
       SameWaiter(v, x) /\ SameWaiter(w, y) /\ Precedes(v, w) => Precedes(x, y)]_vars

\* No key is lost to the dead: whoever keeps polling for k is eventually granted
\* it, whether its holder or the waiters ahead crashed.
Served(c, k) == <>(leases[k].holder = SessionOf[c])

\* Rows, queues, stalled calls and restarts implement the fenced lock.
Lock == INSTANCE FencedLock WITH
  holder <- [k \in Keys |-> leases[k].holder],
  deadline <- [k \in Keys |-> leases[k].expires],
  epoch <- [k \in Keys |-> leases[k].fence]

IsFencedLock == Lock!Spec
=============================================================================
