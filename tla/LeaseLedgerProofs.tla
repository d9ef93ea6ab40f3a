-------------------------- MODULE LeaseLedgerProofs --------------------------
(* Theorems about the lease ledger, for every set of keys, sessions and       *)
(* connections, every ttl and every bound.                                    *)
EXTENDS LeaseLedger, TLAPS

\* What a statement of connection c finds in its call.
LEMMA CallFields ==
  ASSUME TypeOK, NEW c \in Conns, calls[c].pc \notin {"none", "failed"}
  PROVE  /\ calls[c] \in Call /\ ~Idle(c)
         /\ calls[c].key \in Keys /\ calls[c].at \in Nat /\ calls[c].until \in Nat
BY DEF TypeOK, Call, NoCall, Failed, Idle, Statements

\* Leaving a call keeps the calls well typed.
LEMMA ReturnTypes ==
  ASSUME TypeOK, NEW c \in Conns, Return(c)
  PROVE  calls' \in [Conns -> Call \cup {NoCall, Failed}]
BY DEF TypeOK, Return

LEMMA GoToTypes ==
  ASSUME TypeOK, NEW c \in Conns, NEW st \in Statements, GoTo(c, st), calls[c].pc \notin {"none", "failed"}
  PROVE  calls' \in [Conns -> Call \cup {NoCall, Failed}]
<1>1. calls[c] \in Call
  BY CallFields
<1>2. [calls[c] EXCEPT !.pc = st] \in Call
  BY <1>1 DEF Call
<1> QED
  BY <1>2 DEF TypeOK, GoTo

\* Telling c a deadline for k keeps what the connections were told well typed.
LEMMA ToldTypes ==
  ASSUME TypeOK, NEW c \in Conns, NEW k \in Keys, NEW t \in Nat
  PROVE  /\ [told EXCEPT ![c][k] = t] \in [Conns -> [Keys -> Nat]]
         /\ \A d \in Conns, j \in Keys :
              [told EXCEPT ![c][k] = t][d][j] = IF d = c /\ j = k THEN t ELSE told[d][j]
<1> DEFINE row == [told[c] EXCEPT ![k] = t]
<1>1. told[c] \in [Keys -> Nat]
  BY DEF TypeOK
<1>2. row \in [Keys -> Nat] /\ \A j \in Keys : row[j] = IF j = k THEN t ELSE told[c][j]
  BY <1>1
<1>3. [told EXCEPT ![c][k] = t] = [told EXCEPT ![c] = row]
  OBVIOUS
<1> HIDE DEF row
<1> QED
  BY <1>2, <1>3 DEF TypeOK

\* Type correctness: no sequence of statements, stalls and restarts leaves the
\* rows, the queues or the calls ill formed.
LEMMA TypeInductive == TypeOK /\ [Next]_vars => TypeOK'
<1> SUFFICES ASSUME TypeOK, [Next]_vars PROVE TypeOK'
  OBVIOUS
<1> USE SessionsAssumption, SessionOfAssumption, TtlsAssumption, BoundsAssumption
<1>1. CASE UNCHANGED vars
  BY <1>1 DEF TypeOK, vars
<1>2. ASSUME NEW c \in Conns, NEW op \in Ops, NEW k \in Keys, Begin(c, op, k)
      PROVE TypeOK'
  <2>1. PICK r \in Readings(op, now) :
          calls' = [calls EXCEPT ![c] =
            [pc |-> FirstStatement(op), op |-> op, key |-> k,
             at |-> r.at, until |-> r.until, queued |-> FALSE]]
    BY <1>2 DEF Begin
  <2>2. r.at \in Nat /\ r.until \in Nat
    BY <2>1 DEF Readings, TypeOK, Ops
  <2>3. FirstStatement(op) \in Statements
    BY DEF FirstStatement, Statements, Ops
  <2>4. calls' \in [Conns -> Call \cup {NoCall, Failed}]
    BY <2>1, <2>2, <2>3 DEF TypeOK, Call
  <2>5. told' \in [Conns -> [Keys -> Nat]]
    BY <1>2 DEF TypeOK, Begin
  <2> QED
    BY <1>2, <2>4, <2>5 DEF TypeOK, Begin
<1>3. ASSUME NEW c \in Conns, Statement(c) PROVE TypeOK'
  <2>1. CASE Prune(c)
    <3>1. calls' \in [Conns -> Call \cup {NoCall, Failed}]
      BY <2>1, ReturnTypes, GoToTypes DEF Prune, At, Statements
    <3> QED
      BY <2>1, <3>1 DEF TypeOK, Prune, LiveAt
  <2>2. CASE ReadQueue(c)
    <3>1. calls[c] \in Call
      BY <2>2, CallFields DEF ReadQueue, At
    <3>2. [calls[c] EXCEPT !.pc = "cas",
             !.queued = (LiveWaiters(calls[c].key, calls[c].at) # {})] \in Call
      BY <3>1 DEF Call, Statements
    <3>3. calls' \in [Conns -> Call \cup {NoCall, Failed}]
      BY <2>2, <3>2 DEF TypeOK, ReadQueue, Return
    <3> QED
      BY <2>2, <3>3 DEF TypeOK, ReadQueue
  <2>3. CASE Cas(c)
    <3>1. calls[c].key \in Keys /\ calls[c].until \in Nat /\ SessionOf[c] \in Sessions
      BY <2>3, CallFields DEF Cas, At
    <3>2. calls' \in [Conns -> Call \cup {NoCall, Failed}]
      BY <2>3, ReturnTypes, GoToTypes DEF Cas, At, Statements
    <3> DEFINE taken == [holder |-> SessionOf[c], expires |-> calls[c].until,
                         fence |-> leases[calls[c].key].fence + 1]
    <3>a. leases[calls[c].key] \in Lease /\ taken \in Lease
      BY <3>1 DEF TypeOK, Lease
    <3>b. \/ UNCHANGED leases
          \/ leases' = [leases EXCEPT ![calls[c].key] = taken]
      BY <2>3 DEF Cas, Taken
    <3>3. leases' \in [Keys -> Lease]
      <4> HIDE DEF taken
      <4> QED BY <3>1, <3>a, <3>b DEF TypeOK
    <3>4. told' \in [Conns -> [Keys -> Nat]]
      <4>1. \/ UNCHANGED told
            \/ told' = [told EXCEPT ![c][calls[c].key] = calls[c].until]
        BY <2>3 DEF Cas
      <4>2. [told EXCEPT ![c][calls[c].key] = calls[c].until] \in [Conns -> [Keys -> Nat]]
        BY <3>1, ToldTypes
      <4> QED BY <4>1, <4>2 DEF TypeOK
    <3> QED
      BY <2>3, <3>2, <3>3, <3>4 DEF TypeOK, Cas
  <2>4. CASE Retire(c)
    BY <2>4, ReturnTypes DEF TypeOK, Retire
  <2>5. CASE Insert(c)
    <3>1. /\ calls[c].key \in Keys /\ calls[c].at \in Nat /\ calls[c].until \in Nat
          /\ SessionOf[c] \in Sessions
      BY <2>5, CallFields DEF Insert, At
    <3>2. waiters' \subseteq Waiter
      BY <2>5, <3>1 DEF TypeOK, Insert, OwnRow, Waiter
    <3> QED
      BY <2>5, <3>2, ReturnTypes DEF TypeOK, Insert
  <2>6. CASE Dequeue(c)
    BY <2>6, ReturnTypes DEF TypeOK, Dequeue
  <2>7. CASE Renew(c)
    <3>1. calls[c].key \in Keys /\ calls[c].until \in Nat
      BY <2>7, CallFields DEF Renew, At
    <3> DEFINE renewed == [leases[calls[c].key] EXCEPT !.expires = calls[c].until]
    <3>a. leases[calls[c].key] \in Lease /\ renewed \in Lease
      BY <3>1 DEF TypeOK, Lease
    <3>b. \/ UNCHANGED leases
          \/ leases' = [leases EXCEPT ![calls[c].key] = renewed]
      BY <2>7 DEF Renew
    <3>2. leases' \in [Keys -> Lease]
      <4> HIDE DEF renewed
      <4> QED BY <3>1, <3>a, <3>b DEF TypeOK
    <3>3. told' \in [Conns -> [Keys -> Nat]]
      <4>1. \/ told' = [told EXCEPT ![c][calls[c].key] = 0]
            \/ told' = [told EXCEPT ![c][calls[c].key] = calls[c].until]
        BY <2>7 DEF Renew
      <4>2. [told EXCEPT ![c][calls[c].key] = 0] \in [Conns -> [Keys -> Nat]]
        BY <3>1, ToldTypes
      <4>3. [told EXCEPT ![c][calls[c].key] = calls[c].until] \in [Conns -> [Keys -> Nat]]
        BY <3>1, ToldTypes
      <4> QED BY <4>1, <4>2, <4>3
    <3>4. Return(c) /\ UNCHANGED <<waiters, now>>
      BY <2>7 DEF Renew
    <3> QED
      BY <3>2, <3>3, <3>4, ReturnTypes DEF TypeOK
  <2>8. CASE Release(c)
    <3>1. calls[c].key \in Keys
      BY <2>8, CallFields DEF Release, At
    <3> DEFINE k == calls[c].key
               freed == [leases EXCEPT ![k].holder = NoHolder, ![k].expires = 0]
    <3>2. leases' \in [Keys -> Lease]
      <4>1. leases' = freed \/ UNCHANGED leases
        BY <2>8 DEF Release
      <4>2. [leases[k] EXCEPT !.holder = NoHolder, !.expires = 0] \in Lease
        <5>1. \A r \in Lease : [r EXCEPT !.holder = NoHolder, !.expires = 0] \in Lease
          BY DEF Lease
        <5> QED BY <3>1, <5>1 DEF TypeOK
      <4>3. freed = [leases EXCEPT ![k] = [leases[k] EXCEPT !.holder = NoHolder, !.expires = 0]]
        BY <3>1 DEF TypeOK
      <4>4. leases \in [Keys -> Lease]
        BY DEF TypeOK
      <4>5. freed \in [Keys -> Lease]
        BY <3>1, <4>2, <4>3, <4>4
      <4> HIDE DEF freed
      <4> QED BY <4>1, <4>4, <4>5
    <3> QED
      BY <2>8, <3>2, ReturnTypes DEF TypeOK, Release
  <2> QED
    BY <1>3, <2>1, <2>2, <2>3, <2>4, <2>5, <2>6, <2>7, <2>8 DEF Statement
<1>4. ASSUME NEW c \in Conns, StatementFails(c) PROVE TypeOK'
  BY <1>4 DEF TypeOK, StatementFails
<1>5. ASSUME NEW k \in Keys, NEW t \in 0 .. now, ReclaimIfExpired(k, t) PROVE TypeOK'
  BY <1>5 DEF TypeOK, ReclaimIfExpired, Lease
<1>6. CASE DaemonRestart
  BY <1>6 DEF TypeOK, DaemonRestart
<1>7. CASE Tick
  BY <1>7 DEF TypeOK, Tick
<1> QED
  BY <1>1, <1>2, <1>3, <1>4, <1>5, <1>6, <1>7 DEF Next

LEMMA TypeInit == Init => TypeOK
BY DEF Init, TypeOK, Lease

\* The rows, the queues and the calls are always well formed.
THEOREM TypeCorrect == Spec => []TypeOK
<1> QED
  BY TypeInit, TypeInductive, PTL DEF Spec

-----------------------------------------------------------------------------
(* Mutual exclusion as the callers see it *)

LEMMA InvInit == Init => LedgerInv
BY TypeInit DEF Init, LedgerInv, TypeOK, ReadingsPast, ReleasingCountsOnNothing,
  BackedByRow, At, NoCall, Idle

LEMMA PastInductive ==
  ASSUME TypeOK, ReadingsPast, [Next]_vars
  PROVE  ReadingsPast'
<1> USE DEF ReadingsPast, Idle
<1>1. CASE UNCHANGED vars
  BY <1>1 DEF vars
<1>2. ASSUME NEW c \in Conns, NEW op \in Ops, NEW k \in Keys, Begin(c, op, k)
      PROVE ReadingsPast'
  <2>1. PICK r \in Readings(op, now) :
          calls' = [calls EXCEPT ![c] =
            [pc |-> FirstStatement(op), op |-> op, key |-> k,
             at |-> r.at, until |-> r.until, queued |-> FALSE]]
    BY <1>2 DEF Begin
  <2>2. r.at <= now
    BY <2>1 DEF Readings, Ops, TypeOK
  <2> QED
    BY <1>2, <2>1, <2>2 DEF Begin, TypeOK
<1>3. ASSUME NEW c \in Conns, Statement(c) PROVE ReadingsPast'
  <2>1. now' = now
    BY <1>3 DEF Statement, Prune, ReadQueue, Cas, Retire, Insert, Dequeue, Renew, Release
  <2>2. \A d \in Conns : d # c => calls'[d] = calls[d]
    BY <1>3 DEF Statement, Prune, ReadQueue, Cas, Retire, Insert, Dequeue, Renew, Release,
      GoTo, Return, TypeOK
  <2>3. calls'[c] = NoCall \/ (~Idle(c) /\ calls'[c].at = calls[c].at)
    <3>1. calls[c] \in Call /\ ~Idle(c)
      BY <1>3, CallFields DEF Statement, Prune, ReadQueue, Cas, Retire, Insert, Dequeue,
        Renew, Release, At
    <3>2. \/ Return(c)
          \/ \E st \in Statements : GoTo(c, st)
          \/ \E q \in BOOLEAN : calls' = [calls EXCEPT ![c].pc = "cas", ![c].queued = q]
      BY <1>3 DEF Statement, Prune, ReadQueue, Cas, Retire, Insert, Dequeue, Renew,
        Release, Statements
    <3> QED
      BY <3>1, <3>2 DEF Return, GoTo, Call, TypeOK
  <2> QED
    BY <2>1, <2>2, <2>3
<1>4. ASSUME NEW c \in Conns, StatementFails(c) PROVE ReadingsPast'
  BY <1>4 DEF StatementFails, Failed, Idle, TypeOK
<1>5. ASSUME NEW k \in Keys, NEW t \in 0 .. now, ReclaimIfExpired(k, t)
      PROVE ReadingsPast'
  BY <1>5 DEF ReclaimIfExpired
<1>6. CASE DaemonRestart
  BY <1>6 DEF DaemonRestart
<1>7. CASE Tick
  <2>1. \A c \in Conns : ~Idle(c) => calls[c].at \in Nat
    BY DEF TypeOK, Call
  <2> QED
    BY <1>7, <2>1 DEF Tick, TypeOK
<1> QED
  BY <1>1, <1>2, <1>3, <1>4, <1>5, <1>6, <1>7 DEF Next

\* Only c changes what c is told, and only in Cas and Renew.
LEMMA ReleasingInductive ==
  ASSUME LedgerInv, [Next]_vars
  PROVE  ReleasingCountsOnNothing'
<1> USE DEF LedgerInv, ReleasingCountsOnNothing, At
<1>0. told \in [Conns -> [Keys -> Nat]] /\ calls \in [Conns -> Call \cup {NoCall, Failed}]
  BY DEF TypeOK
<1>1. CASE UNCHANGED vars
  BY <1>1 DEF vars
<1>2. ASSUME NEW c \in Conns, NEW op \in Ops, NEW k \in Keys, Begin(c, op, k)
      PROVE ReleasingCountsOnNothing'
  <2>1. PICK r \in Readings(op, now) :
          calls' = [calls EXCEPT ![c] =
            [pc |-> FirstStatement(op), op |-> op, key |-> k,
             at |-> r.at, until |-> r.until, queued |-> FALSE]]
    BY <1>2 DEF Begin
  <2>2. CASE op = "release"
    <3>1. told' = [told EXCEPT ![c][k] = 0]
      BY <1>2, <2>2 DEF Begin
    <3>2. \A d \in Conns, j \in Keys : told'[d][j] = IF d = c /\ j = k THEN 0 ELSE told[d][j]
      BY <3>1, ToldTypes
    <3>3. \A d \in Conns : calls[d].pc = "release" => calls[d].key \in Keys
      BY CallFields
    <3> QED
      BY <1>0, <2>1, <3>2, <3>3
  <2>3. CASE op # "release"
    <3>1. told' = told /\ FirstStatement(op) # "release"
      BY <1>2, <2>3 DEF Begin, FirstStatement, Ops
    <3> QED
      BY <1>0, <2>1, <3>1
  <2> QED
    BY <2>2, <2>3
<1>3. ASSUME NEW c \in Conns, Statement(c) PROVE ReleasingCountsOnNothing'
  <2>1. calls[c] \in Call
    BY <1>3, CallFields DEF Statement, Prune, ReadQueue, Cas, Retire, Insert, Dequeue,
      Renew, Release
  <2>2. calls'[c].pc # "release"
    <3>1. \/ Return(c)
          \/ \E st \in {"readQueue", "insert", "retire"} : GoTo(c, st)
          \/ \E q \in BOOLEAN : calls' = [calls EXCEPT ![c].pc = "cas", ![c].queued = q]
      BY <1>3 DEF Statement, Prune, ReadQueue, Cas, Retire, Insert, Dequeue, Renew, Release
    <3> QED
      BY <1>0, <2>1, <3>1 DEF Return, GoTo, Call, NoCall
  <2>3. \A d \in Conns : d # c => calls'[d] = calls[d]
    BY <1>0, <1>3 DEF Statement, Prune, ReadQueue, Cas, Retire, Insert, Dequeue, Renew,
      Release, GoTo, Return
  <2>4. \A d \in Conns : d # c => told'[d] = told[d]
    BY <1>0, <1>3 DEF Statement, Prune, ReadQueue, Cas, Retire, Insert, Dequeue, Renew,
      Release
  <2> QED
    BY <2>2, <2>3, <2>4
<1>4. ASSUME NEW c \in Conns, StatementFails(c) PROVE ReleasingCountsOnNothing'
  BY <1>0, <1>4 DEF StatementFails, Failed
<1>5. ASSUME NEW k \in Keys, NEW t \in 0 .. now, ReclaimIfExpired(k, t)
      PROVE ReleasingCountsOnNothing'
  BY <1>5 DEF ReclaimIfExpired
<1>6. CASE DaemonRestart
  BY <1>6 DEF DaemonRestart, Failed
<1>7. CASE Tick
  BY <1>7 DEF Tick
<1> QED
  BY <1>1, <1>2, <1>3, <1>4, <1>5, <1>6, <1>7 DEF Next

\* A deadline still counted on stays in its row: nobody can take, reclaim or
\* release a row whose holder still counts on it.
LEMMA BackedInductive ==
  ASSUME LedgerInv, OneConnPerSession, [Next]_vars
  PROVE  BackedByRow'
<1> USE DEF LedgerInv
<1> USE SessionsAssumption, SessionOfAssumption
<1>0. /\ told \in [Conns -> [Keys -> Nat]] /\ leases \in [Keys -> Lease] /\ now \in Nat
      /\ \A k \in Keys : leases[k].expires \in Nat
  BY DEF TypeOK, Lease
<1>1. CASE UNCHANGED vars
  BY <1>1 DEF vars, BackedByRow
<1>2. ASSUME NEW c \in Conns, NEW op \in Ops, NEW k \in Keys, Begin(c, op, k)
      PROVE BackedByRow'
  <2>1. told' = told \/ told' = [told EXCEPT ![c][k] = 0]
    BY <1>2 DEF Begin
  <2>2. \A d \in Conns, j \in Keys : told'[d][j] = told[d][j] \/ told'[d][j] = 0
    BY <2>1, ToldTypes
  <2> QED
    BY <1>0, <1>2, <2>2 DEF Begin, BackedByRow
<1>3. ASSUME NEW c \in Conns, Statement(c) PROVE BackedByRow'
  <2>0. /\ calls[c].key \in Keys /\ calls[c].at \in Nat /\ calls[c].until \in Nat
        /\ calls[c].at <= now /\ now' = now
    BY <1>3, CallFields DEF Statement, Prune, ReadQueue, Cas, Retire, Insert, Dequeue,
      Renew, Release, At, ReadingsPast
  <2> DEFINE k == calls[c].key
  <2>1. CASE UNCHANGED <<leases, told>>
    BY <2>0, <2>1 DEF BackedByRow
  <2>2. ASSUME Cas(c), Takeable(k, calls[c].at) PROVE BackedByRow'
    <3>1. \A d \in Conns : ~(told[d][k] > now)
      <4> SUFFICES ASSUME NEW d \in Conns, told[d][k] > now PROVE FALSE
        OBVIOUS
      <4>1. leases[k].holder = SessionOf[d] /\ told[d][k] <= leases[k].expires
        BY <2>0 DEF BackedByRow
      <4>2. leases[k].expires > calls[c].at
        BY <1>0, <2>0, <4>1
      <4> QED
        BY <1>0, <2>0, <2>2, <4>1, <4>2 DEF Takeable, Free, Expired, NoHolder
    <3>2. /\ leases' = [leases EXCEPT ![k] =
                [holder |-> SessionOf[c], expires |-> calls[c].until,
                 fence |-> leases[k].fence + 1]]
          /\ told' = [told EXCEPT ![c][k] = calls[c].until]
      BY <2>2 DEF Cas, Taken
    <3>3. \A d \in Conns, j \in Keys :
            told'[d][j] = IF d = c /\ j = k THEN calls[c].until ELSE told[d][j]
      BY <2>0, <3>2, ToldTypes
    <3>4. /\ leases'[k].holder = SessionOf[c] /\ leases'[k].expires = calls[c].until
          /\ \A j \in Keys : j # k => leases'[j] = leases[j]
      BY <1>0, <2>0, <3>2
    <3> SUFFICES ASSUME NEW d \in Conns, NEW j \in Keys, told'[d][j] > now
                 PROVE  leases'[j].holder = SessionOf[d] /\ told'[d][j] <= leases'[j].expires
      BY <2>0 DEF BackedByRow
    <3>5. CASE j # k
      BY <3>3, <3>4, <3>5 DEF BackedByRow
    <3>6. CASE j = k /\ d # c
      BY <3>1, <3>3, <3>6
    <3>7. CASE j = k /\ d = c
      BY <2>0, <3>3, <3>4, <3>7
    <3> QED
      BY <3>5, <3>6, <3>7
  <2>3. ASSUME Renew(c), leases[k].holder = SessionOf[c], ~Expired(k, calls[c].at)
        PROVE  BackedByRow'
    <3>1. \A d \in Conns : d # c => ~(told[d][k] > now)
      BY <2>0, <2>3 DEF BackedByRow, OneConnPerSession
    <3>2. /\ leases' = [leases EXCEPT ![k].expires = calls[c].until]
          /\ told' = [told EXCEPT ![c][k] = calls[c].until]
      BY <2>3 DEF Renew
    <3>3. \A d \in Conns, j \in Keys :
            told'[d][j] = IF d = c /\ j = k THEN calls[c].until ELSE told[d][j]
      BY <2>0, <3>2, ToldTypes
    <3>4. /\ leases'[k].holder = SessionOf[c] /\ leases'[k].expires = calls[c].until
          /\ \A j \in Keys : j # k => leases'[j] = leases[j]
      BY <1>0, <2>0, <2>3, <3>2 DEF Lease
    <3> SUFFICES ASSUME NEW d \in Conns, NEW j \in Keys, told'[d][j] > now
                 PROVE  leases'[j].holder = SessionOf[d] /\ told'[d][j] <= leases'[j].expires
      BY <2>0 DEF BackedByRow
    <3>5. CASE j # k
      BY <3>3, <3>4, <3>5 DEF BackedByRow
    <3>6. CASE j = k /\ d # c
      BY <3>1, <3>3, <3>6
    <3>7. CASE j = k /\ d = c
      BY <2>0, <3>3, <3>4, <3>7
    <3> QED
      BY <3>5, <3>6, <3>7
  <2>4. ASSUME Renew(c), UNCHANGED leases, told' = [told EXCEPT ![c][k] = 0]
        PROVE  BackedByRow'
    <3>1. \A d \in Conns, j \in Keys : told'[d][j] = told[d][j] \/ told'[d][j] = 0
      BY <2>0, <2>4, ToldTypes
    <3> QED
      BY <1>0, <2>0, <2>4, <3>1 DEF BackedByRow
  <2>5. ASSUME Release(c), leases[k].holder = SessionOf[c] PROVE BackedByRow'
    <3>1. \A d \in Conns : ~(told[d][k] > now)
      <4> SUFFICES ASSUME NEW d \in Conns, told[d][k] > now PROVE FALSE
        OBVIOUS
      <4>1. d = c
        BY <2>0, <2>5 DEF BackedByRow, OneConnPerSession
      <4>2. told[c][k] = 0
        BY <2>5 DEF Release, ReleasingCountsOnNothing
      <4> QED
        BY <1>0, <4>1, <4>2
    <3>2. told' = told /\ \A j \in Keys : j # k => leases'[j] = leases[j]
      BY <1>0, <2>5 DEF Release
    <3> QED
      BY <2>0, <3>1, <3>2 DEF BackedByRow
  <2> QED
    BY <1>3, <2>1, <2>2, <2>3, <2>4, <2>5 DEF Statement, Prune, ReadQueue, Cas, Retire,
      Insert, Dequeue, Renew, Release
<1>4. ASSUME NEW c \in Conns, StatementFails(c) PROVE BackedByRow'
  BY <1>4 DEF StatementFails, BackedByRow
<1>5. ASSUME NEW k \in Keys, NEW t \in 0 .. now, ReclaimIfExpired(k, t)
      PROVE BackedByRow'
  <2>1. \A d \in Conns : ~(told[d][k] > now)
    BY <1>0, <1>5 DEF BackedByRow, ReclaimIfExpired, Expired
  <2>2. UNCHANGED <<told, now>> /\ \A j \in Keys : j # k => leases'[j] = leases[j]
    BY <1>0, <1>5 DEF ReclaimIfExpired
  <2> QED
    BY <2>1, <2>2 DEF BackedByRow
<1>6. CASE DaemonRestart
  BY <1>6 DEF DaemonRestart, BackedByRow
<1>7. CASE Tick
  BY <1>0, <1>7 DEF Tick, BackedByRow
<1> QED
  BY <1>1, <1>2, <1>3, <1>4, <1>5, <1>6, <1>7 DEF Next

LEMMA InvImpliesExclusive == LedgerInv => ExclusiveUntilDeadline
BY DEF LedgerInv, BackedByRow, ExclusiveUntilDeadline

\* The inductive invariant of the ledger, for a session that talks to the ledger
\* about a key through one connection.
THEOREM LedgerInvariant ==
  ASSUME OneConnPerSession
  PROVE  Spec => []LedgerInv
<1>1. LedgerInv /\ [Next]_vars => LedgerInv'
  BY TypeInductive, PastInductive, ReleasingInductive, BackedInductive DEF LedgerInv
<1> QED
  BY <1>1, InvInit, PTL DEF Spec

\* At no time do the connections of two sessions both count on the same key,
\* however long their calls stall and whenever a scan reclaims (Acquire, Renew,
\* Release and ReclaimIfExpired together).
THEOREM MutualExclusion ==
  ASSUME OneConnPerSession
  PROVE  Spec => []ExclusiveUntilDeadline
<1> QED
  BY LedgerInvariant, InvImpliesExclusive, PTL

-----------------------------------------------------------------------------
(* The ledger implements the fenced lock, with any number of connections per  *)
(* session                                                                    *)

LEMMA InitImplements == Init => Lock!Init
BY DEF Init, Lock!Init

\* A step that changes one row as one of the lock's own steps does, or none.
LEMMA StepImplements ==
  ASSUME TypeOK, ReadingsPast, [Next]_vars
  PROVE  [Lock!Next]_(Lock!vars)
<1> USE SessionsAssumption, SessionOfAssumption
<1>0. /\ leases \in [Keys -> Lease] /\ now \in Nat
      /\ \A k \in Keys : /\ leases[k].expires \in Nat
                          /\ leases[k].holder \in Sessions \cup {NoHolder}
  BY DEF TypeOK, Lease
<1> DEFINE H == [k \in Keys |-> leases[k].holder]
           D == [k \in Keys |-> leases[k].expires]
           F == [k \in Keys |-> leases[k].fence]
<1>1. CASE UNCHANGED <<leases, now>>
  BY <1>1 DEF Lock!vars
<1>2. ASSUME NEW c \in Conns, Statement(c) PROVE [Lock!Next]_(Lock!vars)
  <2>0. /\ calls[c].key \in Keys /\ calls[c].at \in Nat /\ calls[c].until \in Nat
        /\ calls[c].at <= now /\ now' = now /\ SessionOf[c] \in Sessions
    BY <1>2, CallFields DEF Statement, Prune, ReadQueue, Cas, Retire, Insert, Dequeue,
      Renew, Release, At, ReadingsPast
  <2>k. PICK k \in Keys : k = calls[c].key
    BY <2>0
  <2>1. ASSUME Cas(c), Takeable(k, calls[c].at) PROVE Lock!Grant(k, SessionOf[c])
    <3>1. leases' = [leases EXCEPT ![k] =
            [holder |-> SessionOf[c], expires |-> calls[c].until,
             fence |-> leases[k].fence + 1]]
      BY <2>1, <2>k DEF Cas, Taken
    <3>2. /\ H' = [H EXCEPT ![k] = SessionOf[c]]
          /\ F' = [F EXCEPT ![k] = F[k] + 1]
          /\ D' = [D EXCEPT ![k] = calls[c].until]
      BY <1>0, <2>0, <3>1
    <3>3. H[k] = NoHolder \/ D[k] <= now
      BY <1>0, <2>0, <2>1 DEF Takeable, Free, Expired
    <3>4. D'[k] = calls[c].until
      BY <2>0, <3>2
    <3> HIDE DEF H, D, F
    <3> QED
      BY <2>0, <3>2, <3>3, <3>4 DEF Lock!Grant, Lock!NewDeadline, H, D, F
  <2>2. ASSUME Renew(c), leases[k].holder = SessionOf[c], ~Expired(k, calls[c].at)
        PROVE  Lock!Extend(k)
    <3>1. leases' = [leases EXCEPT ![k].expires = calls[c].until]
      BY <2>2, <2>k DEF Renew
    <3>2. H' = H /\ F' = F /\ D' = [D EXCEPT ![k] = calls[c].until]
      BY <1>0, <2>0, <3>1 DEF Lease
    <3>3. D'[k] = calls[c].until /\ H[k] \in Sessions
      BY <2>0, <2>2, <3>2
    <3>4. UNCHANGED now /\ calls[c].until \in Nat
      BY <2>0
    <3> HIDE DEF H, D, F
    <3> QED
      BY <3>2, <3>3, <3>4 DEF Lock!Extend, Lock!NewDeadline, H, D, F
  <2>3. ASSUME Release(c), leases[k].holder = SessionOf[c] PROVE Lock!Yield(k)
    <3>1. leases' = [leases EXCEPT ![k].holder = NoHolder, ![k].expires = 0]
      BY <2>3, <2>k DEF Release
    <3>2. H' = [H EXCEPT ![k] = NoHolder] /\ F' = F /\ D' = [D EXCEPT ![k] = 0]
      BY <1>0, <2>0, <3>1 DEF Lease
    <3> QED
      BY <2>0, <2>3, <3>2 DEF Lock!Yield
  <2>4. \/ UNCHANGED <<leases, now>>
        \/ Cas(c) /\ Takeable(k, calls[c].at)
        \/ Renew(c) /\ leases[k].holder = SessionOf[c] /\ ~Expired(k, calls[c].at)
        \/ Release(c) /\ leases[k].holder = SessionOf[c]
    BY <1>2, <2>0, <2>k DEF Statement, Prune, ReadQueue, Cas, Retire, Insert, Dequeue,
      Renew, Release
  <2>5. CASE Lock!Grant(k, SessionOf[c])
    BY <2>0, <2>5 DEF Lock!Next
  <2>6. CASE Lock!Extend(k) \/ Lock!Yield(k)
    BY <2>0, <2>6 DEF Lock!Next
  <2> QED
    BY <1>1, <2>1, <2>2, <2>3, <2>4, <2>5, <2>6
<1>3. ASSUME NEW k \in Keys, NEW t \in 0 .. now, ReclaimIfExpired(k, t)
      PROVE Lock!Revoke(k)
  <2>1. leases' = [leases EXCEPT ![k] =
          [holder |-> NoHolder, expires |-> 0, fence |-> @.fence + 1]]
    BY <1>3 DEF ReclaimIfExpired
  <2>2. /\ H' = [H EXCEPT ![k] = NoHolder] /\ D' = [D EXCEPT ![k] = 0]
        /\ F' = [F EXCEPT ![k] = F[k] + 1]
    BY <1>0, <2>1
  <2>3. H[k] \in Sessions /\ D[k] <= now /\ now' = now
    BY <1>0, <1>3 DEF ReclaimIfExpired, Free, Expired
  <2> QED
    BY <2>2, <2>3 DEF Lock!Revoke
<1>4. CASE Tick
  <2>1. leases' = leases /\ now' \in Nat /\ now' > now
    BY <1>0, <1>4 DEF Tick
  <2> QED
    BY <2>1 DEF Lock!Next, Lock!Advance
<1> QED
  BY <1>1, <1>2, <1>3, <1>4 DEF Next, Begin, StatementFails, DaemonRestart, vars, Lock!Next

\* The statement-by-statement ledger implements the fenced lock: no interleaving,
\* stall, failed statement or restart displaces a holder before its deadline or
\* lets a fence repeat or go back.
THEOREM ImplementsFencedLock == Spec => IsFencedLock
<1>1. TypeOK /\ ReadingsPast /\ [Next]_vars => (TypeOK /\ ReadingsPast)'
  BY TypeInductive, PastInductive
<1>2. Init => TypeOK /\ ReadingsPast
  BY InvInit DEF LedgerInv
<1> QED
  BY <1>1, <1>2, InitImplements, StepImplements, PTL DEF Spec, IsFencedLock, Lock!Spec

-----------------------------------------------------------------------------
(* The queues keep their order.                                               *)

\* (key, session) is the table's primary key.
OneRowEach == \A v, w \in waiters : SameWaiter(v, w) => v = w

\* A waiter that is in the queue before and after a step has waited as long.
WaitsOn == \A v \in waiters, x \in waiters' : SameWaiter(v, x) => x.enqueued = v.enqueued

\* An upsert finds its session's row, or there is none.
LEMMA InsertKeepsRows ==
  ASSUME TypeOK, OneRowEach, NEW c \in Conns, Insert(c)
  PROVE  OneRowEach' /\ WaitsOn
<1> DEFINE k == calls[c].key
           s == SessionOf[c]
           u == calls[c].until
           fresh == [key |-> k, session |-> s, enqueued |-> calls[c].at, expires |-> u]
<1>1. \A w \in waiters : w \in OwnRow(c) <=> w.key = k /\ w.session = s
  BY DEF OwnRow
<1>2. fresh.key = k /\ fresh.session = s
  OBVIOUS
<1>3. CASE OwnRow(c) = {}
  <2>1. waiters' = waiters \cup {fresh} /\ \A w \in waiters : ~SameWaiter(fresh, w) /\ ~SameWaiter(w, fresh)
    BY <1>1, <1>2, <1>3 DEF Insert, SameWaiter
  <2> HIDE DEF fresh
  <2> QED BY <2>1 DEF OneRowEach, WaitsOn, SameWaiter
<1>4. CASE OwnRow(c) # {}
  <2>1. PICK row \in waiters : row \in OwnRow(c)
    BY <1>4 DEF OwnRow
  <2>2. OwnRow(c) = {row} /\ row.key = k /\ row.session = s
    BY <1>1, <2>1 DEF OwnRow, OneRowEach, SameWaiter
  <2> DEFINE renewed == [row EXCEPT !.expires = u]
  <2>3. renewed.key = k /\ renewed.session = s /\ renewed.enqueued = row.enqueued
    BY <2>1, <2>2 DEF TypeOK, Waiter
  <2>4. waiters' = (waiters \ {row}) \cup {renewed}
    BY <1>4, <2>2 DEF Insert
  <2>5. \A w \in waiters \ {row} : ~SameWaiter(w, row) /\ ~SameWaiter(row, w)
    BY <2>1 DEF OneRowEach, SameWaiter
  <2> HIDE DEF renewed
  <2> QED BY <2>1, <2>2, <2>3, <2>4, <2>5 DEF OneRowEach, WaitsOn, SameWaiter
<1> QED BY <1>3, <1>4

LEMMA QueueStep ==
  ASSUME TypeOK, OneRowEach, [Next]_vars
  PROVE  OneRowEach' /\ WaitsOn
<1>1. CASE waiters' \subseteq waiters
  BY <1>1 DEF OneRowEach, WaitsOn
<1>2. CASE \E c \in Conns : Insert(c)
  BY <1>2, InsertKeepsRows
<1>3. waiters' \subseteq waiters \/ \E c \in Conns : Insert(c)
  BY DEF Next, vars, Begin, Statement, StatementFails, ReclaimIfExpired, DaemonRestart, Tick, Prune,
     ReadQueue, Cas, Retire, Dequeue, Renew, Release, LiveAt
<1> QED BY <1>1, <1>2, <1>3

\* Whoever waits keeps its place, through heartbeats, prunes, departures and calls that stall
\* between their clock reading and their statement: nobody gets past a waiter that stays
\* (Enqueue's upsert keeps enqueued_at).
THEOREM PlacesStay == Spec => PlaceKept
<1>1. Init => TypeOK /\ OneRowEach
  BY InvInit DEF LedgerInv, Init, OneRowEach
<1>2. TypeOK /\ OneRowEach /\ [Next]_vars => (TypeOK /\ OneRowEach)'
  BY TypeInductive, QueueStep
<1>3. TypeOK /\ OneRowEach /\ [Next]_vars =>
        [\A v, w \in waiters, x, y \in waiters' :
           SameWaiter(v, x) /\ SameWaiter(w, y) /\ Precedes(v, w) => Precedes(x, y)]_vars
  BY QueueStep DEF WaitsOn, SameWaiter, Precedes
<1> QED BY <1>1, <1>2, <1>3, PTL DEF Spec, PlaceKept
=============================================================================
