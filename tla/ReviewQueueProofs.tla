-------------------------- MODULE ReviewQueueProofs --------------------------
(* Theorems about the review queue, for any branches, sessions, goroutines,   *)
(* batch size and bound.                                                      *)
EXTENDS ReviewQueue, TLAPS

\* s has heard of b, or will.
Reached(s, b) == s \in aware[b] \/ s \in woken \/ Coming(s, b) \/ b \in unannounced

LEMMA WorkerFields ==
  ASSUME TypeOK, NEW w \in Workers, calls[w] # Idle
  PROVE  calls[w] \in Call /\ calls[w].branch \in Branches
BY DEF TypeOK, Call

LEMMA ScanFields ==
  ASSUME TypeOK, calls[Scanner] # Idle
  PROVE  /\ calls[Scanner] \in ScanCall
         /\ calls[Scanner].left \subseteq StaleClaim /\ calls[Scanner].back \subseteq Branches
BY DEF TypeOK, ScanCall

LEMMA InitInv == Init => QueueInv
<1> SUFFICES ASSUME Init PROVE QueueInv
  OBVIOUS
<1>1. TypeOK
  BY DEF Init, TypeOK, Procs
<1>2. IdsWritten
  BY DEF Init, IdsWritten
<1>3. NoLostWakeup
  BY DEF Init, NoLostWakeup, Concerns, NoRow, Verdicts
<1> QED
  BY <1>1, <1>2, <1>3 DEF QueueInv

-----------------------------------------------------------------------------
(* Type correctness, action by action *)

LEMMA WriteTypes ==
  ASSUME TypeOK, NEW b \in Branches, NEW row \in Row, Write(b, row)
  PROVE  /\ rows' \in [Branches -> Row \cup {NoRow}]
         /\ aware' \in [Branches -> SUBSET Sessions]
         /\ unannounced' \subseteq Branches
BY DEF TypeOK, Write

LEMMA WorkerCallTypes ==
  ASSUME TypeOK, NEW w \in Workers, NEW x \in Call \cup {Idle},
         calls' = [calls EXCEPT ![w] = x]
  PROVE  /\ calls' \in [Procs -> Call \cup ScanCall \cup {Idle}]
         /\ \A v \in Workers : calls'[v] \in Call \cup {Idle}
         /\ calls'[Scanner] \in ScanCall \cup {Idle}
BY ScannerAssumption DEF TypeOK, Procs

LEMMA ScanCallTypes ==
  ASSUME TypeOK, NEW x \in ScanCall \cup {Idle}, calls' = [calls EXCEPT ![Scanner] = x]
  PROVE  /\ calls' \in [Procs -> Call \cup ScanCall \cup {Idle}]
         /\ \A v \in Workers : calls'[v] \in Call \cup {Idle}
         /\ calls'[Scanner] \in ScanCall \cup {Idle}
BY ScannerAssumption DEF TypeOK, Procs

LEMMA RowTypes ==
  ASSUME TypeOK, NEW b \in Branches
  PROVE  /\ \A s \in Sessions : Requested(s) \in Row
         /\ rows[b] # NoRow => rows[b] \in Row
         /\ rows[b].state # "none" => rows[b] # NoRow
BY DEF TypeOK, Requested, Row, States, NoRow

LEMMA WorkerTypes ==
  ASSUME TypeOK, NEW w \in Workers, WorkerStep(w)
  PROVE  TypeOK'
<1> USE DEF log, clients
<1>s. SessionOf[w] \in Sessions
  BY SessionOfAssumption
<1>1. ASSUME NEW b \in Branches, BeginRequest(w, b) PROVE TypeOK'
  <2> DEFINE x == [pc |-> IF rows[b] = NoRow THEN "insert" ELSE "update",
                   branch |-> b, audience |-> "integrator"]
  <2>1. x \in Call
    BY DEF Call, Audiences
  <2>2. calls' = [calls EXCEPT ![w] = x]
    BY <1>1 DEF BeginRequest
  <2> QED
    BY <1>1, <2>1, <2>2, WorkerCallTypes DEF TypeOK, BeginRequest
<1>2. ASSUME NEW b \in Branches, NEW row \in Row, NEW audience \in Audiences,
             Write(b, row), ThenAnnounce(w, b, audience), UNCHANGED <<log, woken>>
      PROVE TypeOK'
  <2> DEFINE x == [pc |-> "announce", branch |-> b, audience |-> audience]
  <2>1. x \in Call
    BY DEF Call
  <2>2. calls' = [calls EXCEPT ![w] = x]
    BY <1>2 DEF ThenAnnounce
  <2> QED
    BY <1>2, <2>1, <2>2, WorkerCallTypes, WriteTypes DEF TypeOK
<1>3. ASSUME NEW b \in Branches, Claim(w, b) PROVE TypeOK'
  <2>1. [rows[b] EXCEPT !.state = "claimed", !.claimer = SessionOf[w]] \in Row
    BY <1>3, <1>s, RowTypes DEF Claim, Row, States
  <2> QED
    BY <1>2, <1>3, <2>1 DEF Claim, Audiences
<1>4. ASSUME NEW b \in Branches, NEW verdict \in Verdicts, Verdict(w, b, verdict)
      PROVE TypeOK'
  <2>1. [rows[b] EXCEPT !.state = verdict] \in Row
    BY <1>4, RowTypes DEF Verdict, Row, States
  <2> QED
    BY <1>2, <1>4, <2>1 DEF Verdict, Audiences
<1>5. ASSUME NEW b \in Branches, Cancel(w, b) PROVE TypeOK'
  <2>1. [rows[b] EXCEPT !.state = "withdrawn"] \in Row
    BY <1>5, RowTypes DEF Cancel, Row, States
  <2> QED
    BY <1>5, <2>1, WriteTypes DEF Cancel, TypeOK
<1>6. CASE Insert(w)
  <2>1. calls[w].branch \in Branches
    BY <1>6, WorkerFields DEF Insert, At, Idle
  <2>2. CASE rows[calls[w].branch] = NoRow
    BY <1>2, <1>6, <1>s, <2>1, <2>2, RowTypes DEF Insert, Audiences
  <2>3. CASE rows[calls[w].branch] # NoRow
    <3>1. calls' = [calls EXCEPT ![w] = Idle]
      BY <1>6, <2>3 DEF Insert, Return
    <3> QED
      BY <1>6, <2>3, <3>1, WorkerCallTypes DEF Insert, TypeOK
  <2> QED
    BY <2>2, <2>3
<1>7. CASE Update(w)
  <2>1. calls[w].branch \in Branches
    BY <1>7, WorkerFields DEF Update, At, Idle
  <2>2. CASE rows[calls[w].branch] # NoRow
    BY <1>2, <1>7, <1>s, <2>1, <2>2, RowTypes DEF Update, Audiences
  <2>3. CASE rows[calls[w].branch] = NoRow
    <3> DEFINE x == [pc |-> "announce", branch |-> calls[w].branch, audience |-> "integrator"]
    <3>1. x \in Call
      BY <2>1 DEF Call, Audiences
    <3>2. calls' = [calls EXCEPT ![w] = x]
      BY <1>7 DEF Update, ThenAnnounce
    <3> QED
      BY <1>7, <2>3, <3>1, <3>2, WorkerCallTypes DEF Update, TypeOK
  <2> QED
    BY <2>2, <2>3
<1>8. CASE Announce(w)
  <2>1. calls[w] \in Call
    BY <1>8, WorkerFields DEF Announce, At, Idle
  <2>2. events' \subseteq Event /\ lastId' \in Nat
    BY <1>8, <2>1 DEF Announce, Append, TypeOK, Event, Call
  <2>3. calls' = [calls EXCEPT ![w] = Idle]
    BY <1>8 DEF Announce, Return
  <2> QED
    BY <1>8, <2>2, <2>3, WorkerCallTypes DEF Announce, TypeOK
<1>9. CASE CallFails(w)
  <2>1. calls[w].branch \in Branches
    BY <1>9, WorkerFields DEF CallFails
  <2>2. calls' = [calls EXCEPT ![w] = Idle]
    BY <1>9 DEF CallFails, Return
  <2> QED
    BY <1>9, <2>1, <2>2, WorkerCallTypes DEF CallFails, TypeOK
<1> QED
  BY <1>1, <1>3, <1>4, <1>5, <1>6, <1>7, <1>8, <1>9 DEF WorkerStep

LEMMA ScanTypes ==
  ASSUME TypeOK, ScanStep
  PROVE  TypeOK'
<1> USE DEF log, clients
<1>i. ASSUME calls' = [calls EXCEPT ![Scanner] = Idle]
      PROVE  /\ calls' \in [Procs -> Call \cup ScanCall \cup {Idle}]
             /\ \A v \in Workers : calls'[v] \in Call \cup {Idle}
             /\ calls'[Scanner] \in ScanCall \cup {Idle}
  BY <1>i, ScanCallTypes
<1>1. CASE BeginScan
  <2>1. PICK live \in SUBSET (Sessions \ Gone) : calls' = [calls EXCEPT ![Scanner] =
          [pc |-> "query", live |-> live, left |-> {}, back |-> {}]]
    BY <1>1 DEF BeginScan
  <2>2. [pc |-> "query", live |-> live, left |-> {}, back |-> {}] \in ScanCall
    BY DEF ScanCall
  <2> QED
    BY <1>1, <2>1, <2>2, ScanCallTypes DEF TypeOK, BeginScan
<1>2. CASE Query
  <2>1. calls[Scanner] \in ScanCall
    BY <1>2, ScanFields DEF Query, At, Idle
  <2> DEFINE claimed == {b \in Branches : rows[b].state = "claimed"}
             stale == {[branch |-> b, claimer |-> rows[b].claimer] :
                         b \in {b \in claimed : rows[b].claimer \notin calls[Scanner].live}}
             x == [calls[Scanner] EXCEPT !.pc = "sweep", !.left = stale]
  <2>2. stale \subseteq StaleClaim
    BY RowTypes DEF StaleClaim, Row
  <2>3. x \in ScanCall
    BY <2>1, <2>2 DEF ScanCall
  <2>4. calls' = [calls EXCEPT ![Scanner] = x]
    BY <1>2 DEF Query
  <2> QED
    BY <1>2, <2>3, <2>4, ScanCallTypes DEF TypeOK, Query
<1>3. CASE EndSweep
  <2>1. calls[Scanner] \in ScanCall
    BY <1>3, ScanFields DEF EndSweep, At, Idle
  <2> DEFINE x == [calls[Scanner] EXCEPT !.pc = "requeued"]
  <2>2. x \in ScanCall
    BY <2>1 DEF ScanCall
  <2>3. calls' = [calls EXCEPT ![Scanner] = Idle] \/ calls' = [calls EXCEPT ![Scanner] = x]
    BY <1>3 DEF EndSweep, Return
  <2> QED
    BY <1>3, <1>i, <2>2, <2>3, ScanCallTypes DEF TypeOK, EndSweep
<1>4. CASE ScanFails
  <2>1. calls[Scanner].back \subseteq Branches
    BY <1>4, ScanFields DEF ScanFails
  <2> QED
    BY <1>4, <1>i, <2>1 DEF TypeOK, ScanFails, Return
<1>5. ASSUME NEW claim \in StaleClaim, Sweep(claim) PROVE TypeOK'
  <2>1. calls[Scanner] \in ScanCall /\ claim.branch \in Branches
    BY <1>5, ScanFields DEF Sweep, At, Idle, StaleClaim
  <2> DEFINE b == claim.branch
             row == [rows[b] EXCEPT !.state = "requested", !.claimer = None]
             x == [calls[Scanner] EXCEPT !.left = @ \ {claim}, !.back = @ \cup {b}]
             y == [calls[Scanner] EXCEPT !.left = @ \ {claim}]
  <2>2. x \in ScanCall /\ y \in ScanCall
    BY <2>1 DEF ScanCall
  <2>3. CASE StillClaimed(b)
    <3>1. row \in Row
      BY <2>1, <2>3, RowTypes DEF StillClaimed, Row, States
    <3>2. Write(b, row) /\ calls' = [calls EXCEPT ![Scanner] = x]
      BY <1>5, <2>3 DEF Sweep
    <3> QED
      BY <1>5, <2>1, <2>2, <3>1, <3>2, WriteTypes, ScanCallTypes DEF TypeOK, Sweep
  <2>4. CASE ~StillClaimed(b)
    <3>1. calls' = [calls EXCEPT ![Scanner] = y]
      BY <1>5, <2>4 DEF Sweep
    <3> QED
      BY <1>5, <2>2, <2>4, <3>1, ScanCallTypes DEF TypeOK, Sweep
  <2> QED
    BY <2>3, <2>4
<1>6. ASSUME NEW b \in Branches, AnnounceRequeued(b) PROVE TypeOK'
  <2>1. calls[Scanner] \in ScanCall
    BY <1>6, ScanFields DEF AnnounceRequeued, At, Idle
  <2> DEFINE x == [calls[Scanner] EXCEPT !.back = @ \ {b}]
  <2>2. x \in ScanCall
    BY <2>1 DEF ScanCall
  <2>3. calls' = [calls EXCEPT ![Scanner] = Idle] \/ calls' = [calls EXCEPT ![Scanner] = x]
    BY <1>6 DEF AnnounceRequeued, Return
  <2>4. events' \subseteq Event /\ lastId' \in Nat
    BY <1>6 DEF AnnounceRequeued, Append, TypeOK, Event, Audiences
  <2> QED
    BY <1>6, <1>i, <2>2, <2>3, <2>4, ScanCallTypes DEF TypeOK, AnnounceRequeued
<1>7. ASSUME NEW states, Collect(states) PROVE TypeOK'
  BY <1>7 DEF Collect, TypeOK
<1>8. CASE CollectEvents
  BY <1>8 DEF CollectEvents, TypeOK, Unread, Event
<1> QED
  BY <1>1, <1>2, <1>3, <1>4, <1>5, <1>6, <1>7, <1>8
  DEF ScanStep, CollectSettled, CollectAbandoned

LEMMA ClientTypes ==
  ASSUME TypeOK, NEW s \in Sessions, Poll(s) \/ PollReplyLost(s) \/ Look(s)
  PROVE  TypeOK'
<1>1. ASSUME ReadAndAdvance(s) PROVE cursor' \in [Sessions -> Nat]
  BY <1>1 DEF ReadAndAdvance, Unread, TypeOK, Event
<1>2. CASE Poll(s)
  BY <1>1, <1>2 DEF Poll, TypeOK
<1>3. CASE PollReplyLost(s)
  <2>1. unannounced' \subseteq Branches
    BY <1>3 DEF PollReplyLost, Unread, TypeOK, Event
  <2> QED
    BY <1>1, <1>3, <2>1 DEF PollReplyLost, TypeOK, clients
<1>4. CASE Look(s)
  <2>1. aware' \in [Branches -> SUBSET Sessions]
    BY <1>4 DEF Look, TypeOK
  <2> QED
    BY <1>4, <2>1 DEF Look, TypeOK, log
<1> QED
  BY <1>2, <1>3, <1>4

LEMMA TypeStep == TypeOK /\ [Next]_vars => TypeOK'
<1> SUFFICES ASSUME TypeOK, [Next]_vars PROVE TypeOK'
  OBVIOUS
<1>1. CASE Crash
  <2>1. calls' \in [Procs -> Call \cup ScanCall \cup {Idle}]
        /\ \A p \in Procs : calls'[p] = Idle
    BY <1>1 DEF Crash
  <2>2. ASSUME NEW w \in Workers, At(w, "announce") PROVE calls[w].branch \in Branches
    BY <2>2, WorkerFields DEF At, Idle
  <2>3. unannounced' \subseteq Branches
    BY <1>1, <2>2, ScanFields DEF Crash, TypeOK
  <2> QED
    BY <1>1, <2>1, <2>3 DEF Crash, TypeOK, Procs, log, clients
<1>2. CASE UNCHANGED vars
  BY <1>2 DEF vars, TypeOK
<1> QED
  BY <1>1, <1>2, WorkerTypes, ScanTypes, ClientTypes DEF Next

-----------------------------------------------------------------------------
(* Ids *)

LEMMA IdsStep == TypeOK /\ IdsWritten /\ [Next]_vars => IdsWritten'
<1> SUFFICES ASSUME TypeOK, IdsWritten, [Next]_vars PROVE IdsWritten'
  OBVIOUS
<1> USE DEF log
<1>1. ASSUME UNCHANGED log PROVE IdsWritten'
  BY <1>1 DEF IdsWritten
<1>2. ASSUME NEW audience, NEW b, Append(audience, b), UNCHANGED cursor PROVE IdsWritten'
  BY <1>2 DEF IdsWritten, Append, TypeOK, Event
<1>3. ASSUME NEW s \in Sessions, ReadAndAdvance(s), UNCHANGED <<events, lastId>>
      PROVE IdsWritten'
  BY <1>3 DEF IdsWritten, ReadAndAdvance, Unread, TypeOK
<1>4. CASE CollectEvents
  BY <1>4 DEF CollectEvents, IdsWritten
<1>5. ASSUME NEW w \in Workers, WorkerStep(w) PROVE IdsWritten'
  BY <1>1, <1>2, <1>5
  DEF WorkerStep, BeginRequest, Insert, Update, Claim, Verdict, Cancel, Announce, CallFails
<1>6. CASE ScanStep
  BY <1>1, <1>2, <1>4, <1>6
  DEF ScanStep, BeginScan, Query, Sweep, EndSweep, AnnounceRequeued, ScanFails, Collect,
      CollectSettled, CollectAbandoned
<1>7. ASSUME NEW s \in Sessions, Poll(s) \/ PollReplyLost(s) \/ Look(s) PROVE IdsWritten'
  BY <1>1, <1>3, <1>7 DEF Poll, PollReplyLost, Look
<1> QED
  BY <1>1, <1>5, <1>6, <1>7 DEF Next, Crash, vars

-----------------------------------------------------------------------------
(* Wake-ups.  The three ways in which one is on its way: *)

Logged(s, b) == \E e \in Unread(s) : e.branch = b /\ e.audience = Audience(s)
Called(s, b) == \E w \in Workers :
  At(w, "announce") /\ calls[w].branch = b /\ calls[w].audience = Audience(s)
Swept(s, b) == calls[Scanner] # Idle /\ b \in calls[Scanner].back /\ Audience(s) = "integrator"

LEMMA ComingWays ==
  ASSUME NEW s, NEW b
  PROVE  Coming(s, b) <=> Logged(s, b) \/ Called(s, b) \/ Swept(s, b)
BY DEF Coming, Logged, Called, Swept

LEMMA ComingWaysNext ==
  ASSUME NEW s, NEW b
  PROVE  Coming(s, b)' <=> Logged(s, b)' \/ Called(s, b)' \/ Swept(s, b)'
BY DEF Coming, Logged, Called, Swept

\* An event stays unread as long as cursor and row stay.
LEMMA StaysLogged ==
  ASSUME NEW s, NEW b, Logged(s, b), events \subseteq events',
         cursor'[s] = cursor[s], rows'[b] = rows[b]
  PROVE  Logged(s, b)'
BY DEF Logged, Unread, Selected, Authorized, Audience

\* The call of another worker goes on, and one that announces nothing is no loss.
LEMMA StaysCalled ==
  ASSUME TypeOK, NEW s, NEW b, Called(s, b), NEW w \in Procs, ~At(w, "announce"),
         NEW x, calls' = [calls EXCEPT ![w] = x]
  PROVE  Called(s, b)'
<1>1. PICK v \in Workers :
        At(v, "announce") /\ calls[v].branch = b /\ calls[v].audience = Audience(s)
  BY DEF Called
<1>2. calls'[v] = calls[v]
  BY <1>1 DEF TypeOK, At
<1> QED
  BY <1>1, <1>2 DEF Called, At, Audience

LEMMA StaysSwept ==
  ASSUME TypeOK, NEW s, NEW b, Swept(s, b), NEW w \in Workers,
         NEW x, calls' = [calls EXCEPT ![w] = x]
  PROVE  Swept(s, b)'
<1>1. calls'[Scanner] = calls[Scanner]
  BY ScannerAssumption DEF TypeOK, Procs
<1> QED
  BY <1>1 DEF Swept, Audience

\* What concerned s before has reached it, if nothing was taken away.
LEMMA StaysReached ==
  ASSUME NoLostWakeup, NEW s \in Sessions, NEW b \in Branches, Concerns(s, b),
         s \in aware[b] => s \in aware'[b],
         s \in woken => s \in woken',
         b \in unannounced => b \in unannounced',
         Coming(s, b) => Coming(s, b)' \/ s \in woken' \/ b \in unannounced'
  PROVE  Reached(s, b)'
BY DEF NoLostWakeup, Reached

LEMMA SameConcern ==
  ASSUME NEW s, NEW b, Concerns(s, b)', rows'[b] = rows[b]
  PROVE  Concerns(s, b)
BY DEF Concerns

\* A write makes a wake-up pending if it is announced to whom it concerns.
LEMMA WriteReaches ==
  ASSUME TypeOK, NoLostWakeup, NEW s \in Sessions, NEW b \in Branches, Concerns(s, b)',
         NEW w \in Workers, ~At(w, "announce"), NEW c \in Branches, NEW row, Write(c, row),
         NEW audience, ThenAnnounce(w, c, audience), UNCHANGED <<log, woken>>,
         b = c => audience = Audience(s)
  PROVE  Reached(s, b)'
<1> DEFINE x == [pc |-> "announce", branch |-> c, audience |-> audience]
<1>0. calls' = [calls EXCEPT ![w] = x] /\ w \in Procs
  BY DEF ThenAnnounce, Procs
<1>1. CASE b = c
  <2>1. calls'[w] = x
    BY <1>0 DEF TypeOK
  <2> QED
    BY <1>1, <2>1 DEF Reached, Coming, At, Audience
<1>2. CASE b # c
  <2>1. rows'[b] = rows[b] /\ aware'[b] = aware[b] /\ (b \in unannounced => b \in unannounced')
    BY <1>2 DEF Write, TypeOK
  <2>2. Concerns(s, b)
    BY <2>1, SameConcern
  <2>3. Logged(s, b) => Logged(s, b)'
    BY <2>1, StaysLogged DEF log
  <2>4. Called(s, b) => Called(s, b)'
    BY <1>0, StaysCalled
  <2>5. Swept(s, b) => Swept(s, b)'
    BY <1>0, StaysSwept
  <2> QED
    BY <2>1, <2>2, <2>3, <2>4, <2>5, ComingWays, ComingWaysNext, StaysReached
<1> QED
  BY <1>1, <1>2
\* Whatever leaves b's row and the log alone loses no wake-up, if it is not a
\* worker's announcement and the scan does not forget b.
LEMMA QuietReaches ==
  ASSUME TypeOK, NoLostWakeup, NEW s \in Sessions, NEW b \in Branches, Concerns(s, b)',
         rows'[b] = rows[b], aware'[b] = aware[b], UNCHANGED <<log, woken>>,
         b \in unannounced => b \in unannounced',
         Called(s, b) => Called(s, b)' \/ b \in unannounced',
         Swept(s, b) => Swept(s, b)' \/ b \in unannounced'
  PROVE  Reached(s, b)'
<1>1. Concerns(s, b)
  BY SameConcern
<1>2. Logged(s, b) => Logged(s, b)'
  BY StaysLogged DEF log
<1> QED
  BY <1>1, <1>2, ComingWays, ComingWaysNext, StaysReached

LEMMA SameCalls ==
  ASSUME NEW s, NEW b, UNCHANGED calls
  PROVE  (Called(s, b) => Called(s, b)') /\ (Swept(s, b) => Swept(s, b)')
BY DEF Called, Swept, At, Audience

\* An event about what concerns a session is for that session, and ahead of it.
LEMMA AppendReaches ==
  ASSUME TypeOK, IdsWritten, NEW s \in Sessions, NEW b \in Branches, Concerns(s, b),
         Append(Audience(s), b), UNCHANGED <<rows, cursor>>
  PROVE  Logged(s, b)'
<1>0. PICK e : e = [id |-> lastId + 1, audience |-> Audience(s), branch |-> b]
  OBVIOUS
<1>1. /\ e \in events' /\ e.id > cursor'[s]
      /\ e.branch = b /\ e.audience = Audience(s)
  BY <1>0 DEF Append, IdsWritten, TypeOK
<1>2. CASE Watched[s] = None
  BY <1>1, <1>2 DEF Logged, Unread, Selected, Authorized, Audience
<1>3. CASE Watched[s] # None
  <2>1. Watched[s] = b /\ rows[b].holder = s /\ rows[b] # NoRow
    BY <1>3 DEF Concerns, Verdicts, NoRow
  <2>2. Selected(s, e)' /\ Authorized(s, e)'
    BY <1>1, <1>3, <2>1 DEF Selected, Authorized, Audience
  <2> QED
    BY <1>1, <2>2 DEF Logged, Unread, Audience
<1> QED
  BY <1>2, <1>3

LEMMA WorkerReaches ==
  ASSUME TypeOK, IdsWritten, NoLostWakeup, NEW s \in Sessions, NEW b \in Branches,
         Concerns(s, b)', NEW w \in Workers, WorkerStep(w)
  PROVE  Reached(s, b)'
<1> USE DEF log, clients
<1>p. w \in Procs
  BY DEF Procs
<1>i. calls[w] = Idle \/ At(w, "insert") \/ At(w, "update") => ~At(w, "announce")
  BY DEF At, Idle
<1>q. ASSUME NEW x, calls' = [calls EXCEPT ![w] = x], ~At(w, "announce")
      PROVE  (Called(s, b) => Called(s, b)') /\ (Swept(s, b) => Swept(s, b)')
  BY <1>p, <1>q, StaysCalled, StaysSwept
<1>a. rows'[b].state = "requested" => Audience(s) = "integrator"
  BY DEF Concerns, Audience, Verdicts
<1>v. rows'[b].state \in Verdicts => Audience(s) = "branch"
  BY NoneAssumption DEF Concerns, Audience, Verdicts
<1>1. ASSUME NEW c \in Branches, BeginRequest(w, c) PROVE Reached(s, b)'
  BY <1>1, <1>i, <1>q, QuietReaches DEF BeginRequest
<1>2. ASSUME NEW c \in Branches, Claim(w, c) PROVE Reached(s, b)'
  <2>1. CASE b = c
    <3>1. rows'[b].state = "claimed"
      BY <1>2, <2>1, RowTypes DEF Claim, Write, TypeOK, Row
    <3> QED
      BY <3>1 DEF Concerns, Verdicts
  <2>2. CASE b # c
    BY <1>2, <1>i, <2>2, WriteReaches DEF Claim
  <2> QED
    BY <2>1, <2>2
<1>3. ASSUME NEW c \in Branches, NEW verdict \in Verdicts, Verdict(w, c, verdict)
      PROVE Reached(s, b)'
  <2>1. b = c => rows'[b].state \in Verdicts
    BY <1>3, RowTypes DEF Verdict, Write, TypeOK, Row
  <2> QED
    BY <1>3, <1>i, <1>v, <2>1, WriteReaches DEF Verdict
<1>4. ASSUME NEW c \in Branches, Cancel(w, c) PROVE Reached(s, b)'
  <2>1. CASE b = c
    <3>1. rows'[b].state = "withdrawn"
      BY <1>4, <2>1, RowTypes DEF Cancel, Write, TypeOK, Row
    <3> QED
      BY <3>1 DEF Concerns, Verdicts
  <2>2. CASE b # c
    <3>1. rows'[b] = rows[b] /\ aware'[b] = aware[b] /\ (b \in unannounced => b \in unannounced')
      BY <1>4, <2>2 DEF Cancel, Write, TypeOK
    <3> QED
      BY <1>4, <3>1, SameCalls, QuietReaches DEF Cancel
  <2> QED
    BY <2>1, <2>2
<1>5. CASE Insert(w)
  <2>1. calls[w].branch \in Branches
    BY <1>5, WorkerFields DEF Insert, At, Idle
  <2>2. CASE rows[calls[w].branch] = NoRow
    <3>1. b = calls[w].branch => rows'[b].state = "requested"
      BY <1>5, <2>2 DEF Insert, Write, TypeOK, Requested
    <3> QED
      BY <1>5, <1>i, <1>a, <2>1, <2>2, <3>1, WriteReaches DEF Insert
  <2>3. CASE rows[calls[w].branch] # NoRow
    <3>1. calls' = [calls EXCEPT ![w] = Idle]
      BY <1>5, <2>3 DEF Insert, Return
    <3> QED
      BY <1>5, <1>i, <1>q, <2>3, <3>1, QuietReaches DEF Insert
  <2> QED
    BY <2>2, <2>3
<1>6. CASE Update(w)
  <2>1. calls[w].branch \in Branches
    BY <1>6, WorkerFields DEF Update, At, Idle
  <2>2. CASE rows[calls[w].branch] # NoRow
    <3>1. b = calls[w].branch => rows'[b].state = "requested"
      BY <1>6, <2>2 DEF Update, Write, TypeOK, Requested
    <3> QED
      BY <1>6, <1>i, <1>a, <2>1, <2>2, <3>1, WriteReaches DEF Update
  <2>3. CASE rows[calls[w].branch] = NoRow
    <3>1. calls' = [calls EXCEPT ![w] =
            [pc |-> "announce", branch |-> calls[w].branch, audience |-> "integrator"]]
      BY <1>6 DEF Update, ThenAnnounce
    <3> QED
      BY <1>6, <1>i, <1>q, <2>3, <3>1, QuietReaches DEF Update
  <2> QED
    BY <2>2, <2>3
<1>7. CASE Announce(w)
  <2>1. Concerns(s, b)
    BY <1>7, SameConcern DEF Announce
  <2>2. Logged(s, b) => Logged(s, b)'
    BY <1>7, StaysLogged DEF Announce, Append
  <2>3. calls' = [calls EXCEPT ![w] = Idle]
    BY <1>7 DEF Announce, Return
  <2>4. Called(s, b) => Called(s, b)' \/ Logged(s, b)'
    <3> SUFFICES ASSUME NEW v \in Workers, At(v, "announce"), calls[v].branch = b,
                        calls[v].audience = Audience(s)
                 PROVE  Called(s, b)' \/ Logged(s, b)'
      BY DEF Called
    <3>1. CASE v = w
      BY <1>7, <2>1, <3>1, AppendReaches DEF Announce
    <3>2. CASE v # w
      <4>1. calls'[v] = calls[v]
        BY <2>3, <3>2
      <4> QED
        BY <4>1 DEF Called, At, Audience
    <3> QED
      BY <3>1, <3>2
  <2>5. Swept(s, b) => Swept(s, b)'
    BY <2>3, StaysSwept
  <2> QED
    BY <1>7, <2>1, <2>2, <2>4, <2>5, ComingWays, ComingWaysNext, StaysReached DEF Announce
<1>8. CASE CallFails(w)
  <2>1. calls' = [calls EXCEPT ![w] = Idle]
    BY <1>8 DEF CallFails, Return
  <2>2. Called(s, b) => Called(s, b)' \/ b \in unannounced'
    <3> SUFFICES ASSUME NEW v \in Workers, At(v, "announce"), calls[v].branch = b,
                        calls[v].audience = Audience(s)
                 PROVE  Called(s, b)' \/ b \in unannounced'
      BY DEF Called
    <3>1. CASE v = w
      BY <1>8, <3>1 DEF CallFails
    <3>2. CASE v # w
      <4>1. calls'[v] = calls[v]
        BY <2>1, <3>2
      <4> QED
        BY <4>1 DEF Called, At, Audience
    <3> QED
      BY <3>1, <3>2
  <2>3. Swept(s, b) => Swept(s, b)'
    BY <2>1, StaysSwept
  <2> QED
    BY <1>8, <2>2, <2>3, QuietReaches DEF CallFails
<1> QED
  BY <1>1, <1>2, <1>3, <1>4, <1>5, <1>6, <1>7, <1>8 DEF WorkerStep
LEMMA ScanReaches ==
  ASSUME TypeOK, IdsWritten, NoLostWakeup, NEW s \in Sessions, NEW b \in Branches,
         Concerns(s, b)', ScanStep
  PROVE  Reached(s, b)'
<1> USE DEF log, clients
<1>p. Scanner \in Procs /\ ~At(Scanner, "announce")
  BY DEF Procs, TypeOK, At, ScanCall, Idle
<1>q. ASSUME NEW x, calls' = [calls EXCEPT ![Scanner] = x]
      PROVE  Called(s, b) => Called(s, b)'
  BY <1>p, <1>q, StaysCalled
<1>a. Audience(s) = "integrator" <=> Watched[s] = None
  BY DEF Audience
<1>1. CASE BeginScan
  <2>1. PICK live \in SUBSET (Sessions \ Gone) : calls' = [calls EXCEPT ![Scanner] =
          [pc |-> "query", live |-> live, left |-> {}, back |-> {}]]
    BY <1>1 DEF BeginScan
  <2>2. ~Swept(s, b)
    BY <1>1 DEF Swept, BeginScan
  <2> QED
    BY <1>1, <1>q, <2>1, <2>2, QuietReaches DEF BeginScan
<1>2. CASE Query
  <2>1. calls[Scanner] \in ScanCall
    BY <1>2, ScanFields DEF Query, At, Idle
  <2>2. PICK stale : calls' = [calls EXCEPT ![Scanner] =
          [calls[Scanner] EXCEPT !.pc = "sweep", !.left = stale]]
    BY <1>2 DEF Query
  <2>3. Swept(s, b) => Swept(s, b)'
    BY <1>p, <2>1, <2>2 DEF Swept, Audience, TypeOK, ScanCall, Idle
  <2> QED
    BY <1>2, <1>q, <2>2, <2>3, QuietReaches DEF Query
<1>3. CASE EndSweep
  <2>1. calls[Scanner] \in ScanCall
    BY <1>3, ScanFields DEF EndSweep, At, Idle
  <2>2. CASE calls[Scanner].back = {}
    <3>1. ~Swept(s, b)
      BY <2>2 DEF Swept
    <3> QED
      BY <1>3, <1>q, <2>2, <3>1, QuietReaches DEF EndSweep, Return
  <2>3. CASE calls[Scanner].back # {}
    <3>1. calls' = [calls EXCEPT ![Scanner] = [calls[Scanner] EXCEPT !.pc = "requeued"]]
      BY <1>3, <2>3 DEF EndSweep
    <3>2. Swept(s, b) => Swept(s, b)'
      BY <1>p, <2>1, <3>1 DEF Swept, Audience, TypeOK, ScanCall, Idle
    <3> QED
      BY <1>3, <1>q, <3>1, <3>2, QuietReaches DEF EndSweep
  <2> QED
    BY <2>2, <2>3
<1>4. CASE ScanFails
  <2>1. Swept(s, b) => b \in unannounced'
    BY <1>4 DEF Swept, ScanFails
  <2>2. b \in unannounced => b \in unannounced'
    BY <1>4 DEF ScanFails
  <2> QED
    BY <1>4, <1>q, <2>1, <2>2, QuietReaches DEF ScanFails, Return
<1>5. ASSUME NEW claim \in StaleClaim, Sweep(claim) PROVE Reached(s, b)'
  <2> DEFINE c == claim.branch
             row == [rows[c] EXCEPT !.state = "requested", !.claimer = None]
             x == [calls[Scanner] EXCEPT !.left = @ \ {claim}, !.back = @ \cup {c}]
             y == [calls[Scanner] EXCEPT !.left = @ \ {claim}]
  <2>1. calls[Scanner] \in ScanCall /\ c \in Branches
    BY <1>5, ScanFields DEF Sweep, At, Idle, StaleClaim
  <2>2. CASE StillClaimed(c)
    <3>1. Write(c, row) /\ calls' = [calls EXCEPT ![Scanner] = x]
      BY <1>5, <2>2 DEF Sweep
    <3>2. calls'[Scanner] = x /\ x.back = calls[Scanner].back \cup {c} /\ x # Idle
      BY <1>p, <2>1, <3>1 DEF TypeOK, ScanCall, Idle
    <3>3. CASE b = c
      <4>1. rows[c] \in Row
        BY <2>1, <2>2, RowTypes DEF StillClaimed
      <4>2. rows'[b].state = "requested"
        BY <2>1, <3>1, <3>3, <4>1 DEF Write, TypeOK, Row
      <4>3. Audience(s) = "integrator"
        BY <4>2 DEF Concerns, Verdicts, Audience
      <4> QED
        BY <3>2, <3>3, <4>3 DEF Reached, Coming, Audience
    <3>4. CASE b # c
      <4>1. rows'[b] = rows[b] /\ aware'[b] = aware[b] /\ (b \in unannounced => b \in unannounced')
        BY <3>1, <3>4 DEF Write, TypeOK
      <4>2. Swept(s, b) => Swept(s, b)'
        BY <3>2 DEF Swept, Audience
      <4> QED
        BY <1>5, <1>q, <3>1, <4>1, <4>2, QuietReaches DEF Sweep
    <3> QED
      BY <3>3, <3>4
  <2>3. CASE ~StillClaimed(c)
    <3>1. calls' = [calls EXCEPT ![Scanner] = y]
      BY <1>5, <2>3 DEF Sweep
    <3>2. Swept(s, b) => Swept(s, b)'
      BY <1>p, <2>1, <3>1 DEF Swept, Audience, TypeOK, ScanCall, Idle
    <3> QED
      BY <1>5, <1>q, <2>3, <3>1, <3>2, QuietReaches DEF Sweep
  <2> QED
    BY <2>2, <2>3
<1>6. ASSUME NEW c \in Branches, AnnounceRequeued(c) PROVE Reached(s, b)'
  <2>1. calls[Scanner] \in ScanCall
    BY <1>6, ScanFields DEF AnnounceRequeued, At, Idle
  <2>2. Concerns(s, b)
    BY <1>6, SameConcern DEF AnnounceRequeued
  <2>3. Logged(s, b) => Logged(s, b)'
    BY <1>6, StaysLogged DEF AnnounceRequeued, Append
  <2>4. Called(s, b) => Called(s, b)'
    BY <1>6, <1>q DEF AnnounceRequeued, Return
  <2>5. Swept(s, b) => Swept(s, b)' \/ Logged(s, b)'
    <3>1. CASE b = c
      BY <1>6, <2>2, <3>1, AppendReaches DEF Swept, AnnounceRequeued
    <3>2. CASE b # c
      <4>1. CASE calls[Scanner].back = {c}
        BY <3>2, <4>1 DEF Swept
      <4>2. CASE calls[Scanner].back # {c}
        <5>1. calls' = [calls EXCEPT ![Scanner] = [calls[Scanner] EXCEPT !.back = @ \ {c}]]
          BY <1>6, <4>2 DEF AnnounceRequeued
        <5> QED
          BY <1>p, <2>1, <3>2, <5>1 DEF Swept, Audience, TypeOK, ScanCall, Idle
      <4> QED
        BY <4>1, <4>2
    <3> QED
      BY <3>1, <3>2
  <2> QED
    BY <1>6, <2>2, <2>3, <2>4, <2>5, ComingWays, ComingWaysNext, StaysReached
    DEF AnnounceRequeued
<1>7. ASSUME NEW states, Collect(states) PROVE Reached(s, b)'
  <2>1. rows'[b] = rows[b] \/ rows'[b] = NoRow
    BY <1>7 DEF Collect
  <2>2. rows'[b] = rows[b]
    BY <2>1 DEF Concerns, NoRow, Verdicts
  <2> QED
    BY <1>7, <2>2, SameCalls, QuietReaches DEF Collect
<1>8. CASE CollectEvents
  <2>1. Concerns(s, b) /\ rows' = rows
    BY <1>8, SameConcern DEF CollectEvents
  <2>2. Logged(s, b) => Logged(s, b)' \/ b \in unannounced'
    <3> SUFFICES ASSUME NEW e \in Unread(s), e.branch = b, e.audience = Audience(s)
                 PROVE  Logged(s, b)' \/ b \in unannounced'
      BY DEF Logged
    <3>1. CASE e \in events'
      BY <1>8, <3>1 DEF Logged, Unread, Selected, Authorized, Audience, CollectEvents
    <3>2. CASE e \notin events'
      BY <1>8, <3>2 DEF CollectEvents, Unread
    <3> QED
      BY <3>1, <3>2
  <2>3. b \in unannounced => b \in unannounced'
    BY <1>8 DEF CollectEvents
  <2> QED
    BY <1>8, <2>1, <2>2, <2>3, SameCalls, ComingWays, ComingWaysNext, StaysReached
    DEF CollectEvents
<1> QED
  BY <1>1, <1>2, <1>3, <1>4, <1>5, <1>6, <1>7, <1>8
  DEF ScanStep, CollectSettled, CollectAbandoned
LEMMA ClientReaches ==
  ASSUME TypeOK, NoLostWakeup, NEW s \in Sessions, NEW b \in Branches, Concerns(s, b)',
         NEW t \in Sessions, Poll(t) \/ PollReplyLost(t) \/ Look(t)
  PROVE  Reached(s, b)'
<1> USE DEF log, clients
<1>0. Concerns(s, b) /\ rows' = rows /\ events' = events /\ calls' = calls
  BY SameConcern DEF Poll, PollReplyLost, Look
<1>1. (Called(s, b) => Called(s, b)') /\ (Swept(s, b) => Swept(s, b)')
  BY <1>0, SameCalls
<1>2. CASE cursor'[s] = cursor[s]
  <2>1. Coming(s, b) => Coming(s, b)'
    BY <1>0, <1>1, <1>2, StaysLogged, ComingWays, ComingWaysNext
  <2>2. CASE Look(t) /\ t = s
    <3>1. b \in Reads(s)
      BY <1>0, WatchedAssumption, NoneAssumption DEF Concerns, Reads
    <3> QED
      BY <2>2, <3>1 DEF Look, Reached
  <2>3. CASE ~(Look(t) /\ t = s)
    <3>1. s \in woken => s \in woken'
      BY <2>3 DEF Poll, PollReplyLost, Look
    <3>2. s \in aware[b] => s \in aware'[b]
      BY DEF Poll, PollReplyLost, Look
    <3>3. b \in unannounced => b \in unannounced'
      BY DEF Poll, PollReplyLost, Look
    <3> QED
      BY <1>0, <2>1, <3>1, <3>2, <3>3, StaysReached
  <2> QED
    BY <2>2, <2>3
<1>3. CASE cursor'[s] # cursor[s]
  <2>1. t = s /\ ~Look(t)
    BY <1>3 DEF Poll, PollReplyLost, ReadAndAdvance, Look, TypeOK
  <2>2. CASE Poll(s)
    BY <2>2 DEF Poll, Reached
  <2>3. CASE PollReplyLost(s)
    <3>1. Logged(s, b) => Logged(s, b)' \/ b \in unannounced'
      <4> SUFFICES ASSUME NEW e \in Unread(s), e.branch = b, e.audience = Audience(s)
                   PROVE  Logged(s, b)' \/ b \in unannounced'
        BY DEF Logged
      <4>1. CASE e.id <= cursor'[s]
        BY <2>3, <4>1 DEF PollReplyLost
      <4>2. CASE ~(e.id <= cursor'[s])
        <5>1. e.id \in Nat /\ cursor'[s] \in Nat
          BY <2>3 DEF PollReplyLost, ReadAndAdvance, Unread, TypeOK, Event
        <5>2. e.id > cursor'[s]
          BY <4>2, <5>1
        <5> QED
          BY <1>0, <5>2 DEF Logged, Unread, Selected, Authorized, Audience
      <4> QED
        BY <4>1, <4>2
    <3>2. b \in unannounced => b \in unannounced'
      BY <2>3 DEF PollReplyLost
    <3> QED
      BY <1>0, <1>1, <2>3, <3>1, <3>2, ComingWays, ComingWaysNext, StaysReached
      DEF PollReplyLost
  <2> QED
    BY <2>1, <2>2, <2>3
<1> QED
  BY <1>2, <1>3

LEMMA CrashReaches ==
  ASSUME TypeOK, NoLostWakeup, NEW s \in Sessions, NEW b \in Branches, Concerns(s, b)', Crash
  PROVE  Reached(s, b)'
<1>1. Called(s, b) => b \in unannounced'
  BY DEF Called, Crash
<1>2. Swept(s, b) => b \in unannounced'
  BY DEF Swept, Crash
<1>3. b \in unannounced => b \in unannounced'
  BY DEF Crash
<1> QED
  BY <1>1, <1>2, <1>3, QuietReaches DEF Crash, log, clients

LEMMA WakeupStep == QueueInv /\ [Next]_vars => NoLostWakeup'
<1> SUFFICES ASSUME TypeOK, IdsWritten, NoLostWakeup, [Next]_vars,
                    NEW s \in Sessions, NEW b \in Branches, Concerns(s, b)'
             PROVE  Reached(s, b)'
  BY DEF QueueInv, NoLostWakeup, Reached
<1>1. CASE UNCHANGED vars
  BY <1>1, SameCalls, QuietReaches DEF vars, log
<1> QED
  BY <1>1, WorkerReaches, ScanReaches, ClientReaches, CrashReaches DEF Next

-----------------------------------------------------------------------------
(* Theorems *)

\* The tables stay well-formed, no cursor runs ahead of the events written (which
\* AUTOINCREMENT promises appendEvent), and no wake-up is lost.
THEOREM QueueInvariant == Spec => []QueueInv
<1>1. Init => QueueInv
  BY InitInv
<1>2. QueueInv /\ [Next]_vars => QueueInv'
  BY TypeStep, IdsStep, WakeupStep DEF QueueInv
<1> QED
  BY <1>1, <1>2, PTL DEF Spec

\* A session that waits on Poll while there is a request to take up, or a verdict
\* on its row, has a wake-up coming, unless a fault took it.
THEOREM WakeupsComing == Spec => []NoLostWakeup
<1>1. QueueInv => NoLostWakeup
  BY DEF QueueInv
<1> QED
  BY <1>1, QueueInvariant, PTL

\* A row that was approved or withdrawn is changed by a new request or by GCStale
\* only: the state conditions of claim, verdict, cancel and the stale sweep hold
\* against every interleaving.
THEOREM SettledRowsStand == Spec => SettledStands
<1> DEFINE Stands ==
  \A b \in Branches :
    rows[b].state \in Settled /\ rows'[b] # rows[b] =>
      \/ CollectSettled
      \/ \E w \in Workers : Update(w) /\ calls[w].branch = b
<1>1. QueueInv /\ [Next]_vars => [Stands]_vars
  <2> SUFFICES ASSUME TypeOK, [Next]_vars, NEW b \in Branches,
                      rows[b].state \in Settled, rows'[b] # rows[b]
               PROVE  \/ CollectSettled
                      \/ \E w \in Workers : Update(w) /\ calls[w].branch = b
    BY DEF QueueInv
  <2> USE DEF log, clients
  <2>w. ASSUME NEW c, NEW row, Write(c, row) PROVE c = b
    BY <2>w DEF Write, TypeOK
  <2>1. ASSUME NEW w \in Workers, WorkerStep(w)
        PROVE  Update(w) /\ calls[w].branch = b
    <3>1. ~Insert(w)
      BY <2>w DEF Insert, Settled, NoRow
    <3>2. ASSUME NEW c \in Branches PROVE ~Claim(w, c) /\ ~Cancel(w, c)
      BY <2>w DEF Claim, Cancel, Settled
    <3>3. ASSUME NEW c \in Branches, NEW v \in Verdicts PROVE ~Verdict(w, c, v)
      BY <2>w DEF Verdict, Settled
    <3>4. Update(w)
      BY <2>1, <3>1, <3>2, <3>3 DEF WorkerStep, BeginRequest, Announce, CallFails
    <3> QED
      BY <2>w, <3>4 DEF Update
  <2>2. CASE ScanStep
    <3>1. ASSUME NEW claim \in StaleClaim PROVE ~Sweep(claim)
      BY <2>w DEF Sweep, StillClaimed, Settled
    <3>2. ~CollectAbandoned
      BY DEF CollectAbandoned, Collect, TypeOK, Settled
    <3> QED
      BY <2>2, <3>1, <3>2
      DEF ScanStep, BeginScan, Query, EndSweep, AnnounceRequeued, ScanFails, CollectEvents
  <2>3. ~UNCHANGED rows
    OBVIOUS
  <2> QED
    BY <2>1, <2>2, <2>3 DEF Next, Poll, PollReplyLost, Look, Crash, vars
<1> QED
  BY <1>1, QueueInvariant, PTL DEF Spec, SettledStands
=============================================================================
