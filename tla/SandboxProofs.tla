---------------------------- MODULE SandboxProofs ----------------------------
(* Of the sandbox life cycle, for any number of sessions and ports, whatever    *)
(* fails: slugs and ports are exclusive, no commit goes with its clone, a       *)
(* launcher's lease outlasts a restart, and its boundary stays whole meanwhile. *)
EXTENDS Sandbox, TLAPS

Running(w) == jobs[w] # NoJob

\* The operations that are under way at each of their steps.
Shape(j) ==
  /\ j.at \in {"grain", "ports", "state", "commit"} => j.op = "provision"
  /\ j.at \in {"unreserve", "undo"} => j.op \in {"provision", "bare"}
  /\ j.at \in {"wipe", "unlock"} => j.op = "teardown"
  /\ j.at = "wipeOrphan" => j.op = "orphan"
  /\ j.at \in {"box", "harvest", "clear"} => j.op \in {"rollback", "teardown", "orphan"}
  /\ j.at \notin {"state", "commit", "unreserve", "undo", "wipe"} => j.got = {}

\* A handler works for the session that called it, whose boundary is not live by then, and
\* whose launcher waits or is no more; the scan only tears down.
JobsRun ==
  \A w \in Workers : Running(w) =>
    /\ Shape(jobs[w])
    /\ w \in Sessions => /\ jobs[w].id = w /\ live[w] = None
                         /\ pc[w] \in {"provisioning", "gone", "dead"}
    /\ w = Scanner => jobs[w].op \in {"teardown", "orphan"}

Owns(w, s) ==
  /\ Running(w) /\ jobs[w].id = s
  /\ \/ jobs[w].op \in {"provision", "bare"} /\ jobs[w].at # "undo"
     \/ jobs[w].op = "teardown"

Held(w) == IF w \in Sessions /\ live[w] # None THEN live[w] ELSE {}
Got(w) == IF Running(w) THEN jobs[w].got ELSE {}
OwnedPorts(w) == Held(w) \cup Got(w)


SlugInv ==
  \A s \in Sessions :
    /\ s \in reserving => live[s] = None /\ \E w \in Workers : Owns(w, s)
    /\ s \notin reserving => ~\E w \in Workers : Owns(w, s)
    /\ \A v, w \in Workers : Owns(v, s) /\ Owns(w, s) => v = w

PortInv ==
  /\ \A p \in Ports : p \in reserved <=> p \in leaked \/ \E w \in Workers : p \in OwnedPorts(w)
  /\ \A v, w \in Workers, p \in Ports : p \in OwnedPorts(v) /\ p \in OwnedPorts(w) => v = w
  /\ \A w \in Workers, p \in Ports : p \in OwnedPorts(w) => p \notin leaked

BookTypes ==
  /\ live \in [Sessions -> {None} \cup SUBSET Ports]
  /\ reserving \subseteq Sessions /\ reserved \subseteq Ports /\ leaked \subseteq Ports
  /\ jobs \in [Workers -> Job \cup {NoJob}]

\* The substrate's own books.
Books == BookTypes /\ JobsRun /\ SlugInv /\ PortInv

-----------------------------------------------------------------------------
(* Jobs *)

LEMMA JobIsJob ==
  ASSUME NEW j \in Job \cup {NoJob}
  PROVE  (j # NoJob) <=> j \in Job
<1>1. NoJob \notin Job
  <2>1. NoJob.op = "none" BY DEF NoJob
  <2>2. \A k \in Job : k.op # "none" BY DEF Job
  <2>3. QED BY <2>1, <2>2
<1>2. QED BY <1>1

LEMMA JobMoves ==
  ASSUME NEW j \in Job, NEW a \in Steps
  PROVE  LET k == [j EXCEPT !.at = a]
         IN  k \in Job /\ k.op = j.op /\ k.id = j.id /\ k.at = a /\ k.got = j.got
  BY DEF Job

LEMMA OwnedTypes ==
  ASSUME BookTypes, NEW w \in Workers
  PROVE  OwnedPorts(w) \subseteq Ports
<1>1. Held(w) \subseteq Ports
  BY DEF BookTypes, Held
<1>2. Got(w) \subseteq Ports
  BY JobIsJob DEF BookTypes, Got, Running, Job
<1>3. QED BY <1>1, <1>2 DEF OwnedPorts

\* A job of one worker changes, and the others' launchers are where they were.
LEMMA JobsStep ==
  ASSUME Books, NEW w \in Workers, NEW j \in Job \cup {NoJob},
         jobs' = [jobs EXCEPT ![w] = j],
         \A v \in Sessions \ {w} : Running(v) =>
           live'[v] = None /\ pc'[v] \in {"provisioning", "gone", "dead"},
         j # NoJob =>
           /\ Shape(j)
           /\ w \in Sessions => /\ j.id = w /\ live'[w] = None
                                /\ pc'[w] \in {"provisioning", "gone", "dead"}
           /\ w = Scanner => j.op \in {"teardown", "orphan"}
  PROVE  JobsRun' /\ jobs' \in [Workers -> Job \cup {NoJob}]
<1>1. \A v \in Workers : jobs'[v] = IF v = w THEN j ELSE jobs[v]
  BY DEF Books, BookTypes
<1>2. ASSUME NEW v \in Workers, v # w, Running(v)'
      PROVE  /\ Shape(jobs'[v])
             /\ v \in Sessions => /\ jobs'[v].id = v /\ live'[v] = None
                                  /\ pc'[v] \in {"provisioning", "gone", "dead"}
             /\ v = Scanner => jobs'[v].op \in {"teardown", "orphan"}
  BY <1>1, <1>2 DEF Books, JobsRun, Running
<1>3. JobsRun'
  BY <1>1, <1>2 DEF JobsRun, Running, Shape
<1>4. QED BY <1>3 DEF Books, BookTypes

\* A job goes on or ends, and what it owns it owns still.
LEMMA QuietStep ==
  ASSUME Books, NEW w \in Workers, NEW j \in Job \cup {NoJob},
         jobs' = [jobs EXCEPT ![w] = j],
         UNCHANGED <<live, reserving, reserved, leaked>>,
         \A s \in Sessions : Owns(w, s)' <=> Owns(w, s),
         Got(w)' = Got(w)
  PROVE  SlugInv' /\ PortInv'
<1>1. \A v \in Workers : v # w => jobs'[v] = jobs[v]
  BY DEF Books, BookTypes
<1>2. \A v \in Workers, s \in Sessions : Owns(v, s)' <=> Owns(v, s)
  BY <1>1 DEF Owns, Running
<1>3. \A v \in Workers : OwnedPorts(v)' = OwnedPorts(v)
  BY <1>1 DEF OwnedPorts, Held, Got, Running
<1>4. SlugInv'
  BY <1>2 DEF Books, SlugInv
<1>5. PortInv'
  BY <1>3 DEF Books, PortInv
<1>6. QED BY <1>4, <1>5

-----------------------------------------------------------------------------
(* Provision *)

\* The launcher that calls has no job: nothing it called before is under way.
LEMMA CallerHasNoJob ==
  ASSUME Books, NEW s \in Sessions, pc[s] \notin {"provisioning", "gone", "dead"}
  PROVE  ~Running(s)
  BY DEF Books, JobsRun, Workers

LEMMA ReserveStep ==
  ASSUME TypeOK, Books, NEW s \in Sessions, CallProvision(s)
  PROVE  Books'
<1> DEFINE j == [op |-> "provision", id |-> s, at |-> "grain", got |-> {}]
<1>1. ~Running(s) /\ s \in Workers
  BY CallerHasNoJob DEF CallProvision, Workers
<1>2. \A v \in Sessions \ {s} : pc'[v] = pc[v]
  BY DEF CallProvision, Reserve, TypeOK
<1>3. CASE live[s] # None \/ s \in reserving
  <2>1. UNCHANGED <<live, reserving, reserved, leaked, jobs>>
    BY <1>3 DEF CallProvision, Reserve
  <2>2. JobsRun'
    BY <1>1, <1>2, <2>1 DEF Books, JobsRun, Running, Shape, Workers
  <2>3. SlugInv' /\ PortInv' /\ BookTypes'
    BY <2>1 DEF Books, SlugInv, PortInv, BookTypes, Owns, OwnedPorts, Held, Got, Running
  <2>4. QED BY <2>2, <2>3 DEF Books
<1>4. CASE ~(live[s] # None \/ s \in reserving)
  <2>1. /\ reserving' = reserving \cup {s} /\ jobs' = [jobs EXCEPT ![s] = j]
        /\ pc'[s] = "provisioning" /\ UNCHANGED <<live, reserved, leaked>>
    BY <1>4 DEF CallProvision, Reserve, TypeOK
  <2>2. j \in Job
    BY DEF Job, Steps
  <2>3. /\ \A v \in Workers : v # s => jobs'[v] = jobs[v]
        /\ jobs'[s] = j /\ j # NoJob
    BY <1>1, <2>1, <2>2, JobIsJob DEF Books, BookTypes
  <2>4. JobsRun' /\ BookTypes'
    <3>1. Shape(j)
      BY DEF Shape
    <3>2. \A v \in Sessions \ {s} : Running(v) =>
            live'[v] = None /\ pc'[v] \in {"provisioning", "gone", "dead"}
      BY <1>2, <2>1 DEF Books, JobsRun, Workers
    <3>3. s # Scanner
      BY NamesAssumption
    <3>4. JobsRun' /\ jobs' \in [Workers -> Job \cup {NoJob}]
      BY <1>1, <1>4, <2>1, <2>2, <3>1, <3>2, <3>3, JobsStep
    <3>5. QED BY <2>1, <3>4 DEF Books, BookTypes
  <2>5. SlugInv'
    <3>1. \A v \in Workers, t \in Sessions :
            Owns(v, t)' <=> Owns(v, t) \/ (v = s /\ t = s)
      BY <1>1, <2>3 DEF Owns, Running
    <3>2. ~\E v \in Workers : Owns(v, s)
      BY <1>4 DEF Books, SlugInv
    <3>3. QED BY <1>1, <1>4, <2>1, <3>1, <3>2 DEF Books, SlugInv
  <2>6. PortInv'
    <3>1. \A v \in Workers : OwnedPorts(v)' = OwnedPorts(v)
      BY <1>1, <2>1, <2>3 DEF OwnedPorts, Held, Got, Running
    <3>2. QED BY <2>1, <3>1 DEF Books, PortInv
  <2>7. QED BY <2>4, <2>5, <2>6 DEF Books
<1>5. QED BY <1>3, <1>4

\* A step of a job that keeps what it owns, and goes on to be of the right shape.
LEMMA GoOn ==
  ASSUME TypeOK, Books, NEW w \in Workers, Running(w), NEW j \in Job \cup {NoJob},
         jobs' = [jobs EXCEPT ![w] = j],
         UNCHANGED <<live, reserving, reserved, leaked>>,
         \A v \in Sessions : Running(v) => pc'[v] = pc[v] \/ (v = w /\ j = NoJob),
         j # NoJob => Shape(j) /\ j.id = jobs[w].id /\ j.got = jobs[w].got
                      /\ (j.op = jobs[w].op \/ w # Scanner),
         \A s \in Sessions : Owns(w, s)' <=> Owns(w, s),
         j = NoJob => jobs[w].got = {}
  PROVE  Books'
<1>1. /\ \A v \in Sessions \ {w} : Running(v) =>
           live'[v] = None /\ pc'[v] \in {"provisioning", "gone", "dead"}
      /\ j # NoJob =>
           /\ Shape(j)
           /\ w \in Sessions => /\ j.id = w /\ live'[w] = None
                                /\ pc'[w] \in {"provisioning", "gone", "dead"}
           /\ w = Scanner => j.op \in {"teardown", "orphan"}
  BY DEF Books, JobsRun, Workers
<1>2. JobsRun' /\ jobs' \in [Workers -> Job \cup {NoJob}]
  BY <1>1, JobsStep
<1>3. jobs'[w] = j
  BY DEF Books, BookTypes
<1>4. Got(w)' = Got(w)
  BY <1>3 DEF Got, Running
<1>5. SlugInv' /\ PortInv'
  BY <1>4, QuietStep
<1>6. QED BY <1>2, <1>5 DEF Books, BookTypes

LEMMA JobAt ==
  ASSUME Books, NEW w \in Workers, NEW a \in Steps, At(w, a)
  PROVE  /\ Running(w) /\ jobs[w] \in Job /\ jobs[w].at = a /\ Shape(jobs[w])
         /\ jobs[w].id \in Sessions
         /\ w \in Sessions => jobs[w].id = w /\ live[w] = None
  BY JobIsJob DEF At, Books, BookTypes, JobsRun, Running, Job

LEMMA GrainStep ==
  ASSUME TypeOK, Books, NEW s \in Sessions, ProvisionGrain(s)
  PROVE  Books'
<1>1. /\ s \in Workers /\ "grain" \in Steps /\ "ports" \in Steps /\ "unreserve" \in Steps
      /\ At(s, "grain") /\ UNCHANGED <<live, reserving, reserved, leaked, pc>>
  BY DEF ProvisionGrain, Workers, Steps, daemonVars, launchVars
<1>2. /\ Running(s) /\ jobs[s] \in Job /\ jobs[s].at = "grain" /\ jobs[s].op = "provision"
      /\ jobs[s].got = {} /\ s # Scanner /\ jobs[s].id = s
  BY <1>1, JobAt, NamesAssumption DEF Shape
<1>3. CASE Goto(s, "ports")
  <2> DEFINE j == [jobs[s] EXCEPT !.at = "ports"]
  <2>1. /\ j \in Job /\ j.op = "provision" /\ j.id = s /\ j.at = "ports" /\ j.got = {}
        /\ jobs' = [jobs EXCEPT ![s] = j] /\ j # NoJob
    BY <1>1, <1>2, <1>3, JobMoves, JobIsJob DEF Goto
  <2>2. Shape(j) /\ jobs'[s] = j
    BY <1>1, <2>1 DEF Shape, Books, BookTypes
  <2>3. \A t \in Sessions : Owns(s, t)' <=> Owns(s, t)
    BY <1>2, <2>1, <2>2 DEF Owns, Running
  <2>4. QED BY <1>1, <1>2, <2>1, <2>2, <2>3, GoOn
<1>4. CASE GrainFails(s)
  <2> DEFINE j == [jobs[s] EXCEPT !.op = "bare", !.at = "unreserve"]
  <2>1. /\ j \in Job /\ j.op = "bare" /\ j.id = s /\ j.at = "unreserve" /\ j.got = {}
        /\ jobs' = [jobs EXCEPT ![s] = j] /\ j # NoJob
    BY <1>1, <1>2, <1>4, JobIsJob DEF GrainFails, Job
  <2>2. Shape(j) /\ jobs'[s] = j
    BY <1>1, <2>1 DEF Shape, Books, BookTypes
  <2>3. \A t \in Sessions : Owns(s, t)' <=> Owns(s, t)
    BY <1>2, <2>1, <2>2 DEF Owns, Running
  <2>4. QED BY <1>1, <1>2, <2>1, <2>2, <2>3, GoOn
<1>5. QED BY <1>3, <1>4 DEF ProvisionGrain

LEMMA StateStep ==
  ASSUME TypeOK, Books, NEW s \in Sessions, ProvisionState(s)
  PROVE  Books'
<1>1. /\ s \in Workers /\ "state" \in Steps /\ At(s, "state")
      /\ UNCHANGED <<live, reserving, reserved, leaked, pc>>
  BY DEF ProvisionState, Workers, Steps, daemonVars, launchVars
<1>2. /\ Running(s) /\ jobs[s] \in Job /\ jobs[s].at = "state" /\ jobs[s].op = "provision"
      /\ s # Scanner /\ jobs[s].id = s
  BY <1>1, JobAt, NamesAssumption DEF Shape
<1>3. PICK a \in {"commit", "unreserve"} : Goto(s, a)
  BY DEF ProvisionState
<1> DEFINE j == [jobs[s] EXCEPT !.at = a]
<1>4. a \in Steps
  BY DEF Steps
<1>5. /\ j \in Job /\ j.op = "provision" /\ j.id = s /\ j.at = a /\ j.got = jobs[s].got
      /\ jobs' = [jobs EXCEPT ![s] = j] /\ j # NoJob
  BY <1>1, <1>2, <1>3, <1>4, JobMoves, JobIsJob DEF Goto
<1>6. Shape(j) /\ jobs'[s] = j
  BY <1>1, <1>5 DEF Shape, Books, BookTypes
<1>7. \A t \in Sessions : Owns(s, t)' <=> Owns(s, t)
  BY <1>2, <1>5, <1>6 DEF Owns, Running
<1>8. QED BY <1>1, <1>2, <1>5, <1>6, <1>7, GoOn

\* New ports are nobody's yet: they become the job's, or are kept by nobody.
LEMMA PortsStep ==
  ASSUME TypeOK, Books, NEW s \in Sessions, AllocatePorts(s)
  PROVE  Books'
<1>1. /\ s \in Workers /\ {"ports", "state", "unreserve"} \subseteq Steps /\ At(s, "ports")
      /\ UNCHANGED <<live, reserving, pc>>
  BY DEF AllocatePorts, Workers, Steps, launchVars
<1>2. /\ Running(s) /\ jobs[s] \in Job /\ jobs[s].at = "ports" /\ jobs[s].op = "provision"
      /\ jobs[s].got = {} /\ s # Scanner /\ jobs[s].id = s /\ live[s] = None
  BY <1>1, JobAt, NamesAssumption DEF Shape
<1>3. PICK P \in SUBSET (Ports \ reserved), j \in Job, L \in SUBSET Ports :
        /\ L = P \/ L = {}
        /\ reserved' = reserved \cup P /\ leaked' = leaked \cup L
        /\ jobs' = [jobs EXCEPT ![s] = j]
        /\ j.op = "provision" /\ j.id = s /\ j.at \in {"state", "unreserve"}
        /\ j.got = P \ L
  <2>1. CASE \E P \in PortChoices : /\ reserved' = reserved \cup P
                                    /\ jobs' = [jobs EXCEPT ![s].at = "state", ![s].got = P]
                                    /\ UNCHANGED leaked
    <3>1. PICK P \in PortChoices : /\ reserved' = reserved \cup P
                                   /\ jobs' = [jobs EXCEPT ![s].at = "state", ![s].got = P]
                                   /\ UNCHANGED leaked
      BY <2>1
    <3> DEFINE j == [jobs[s] EXCEPT !.at = "state", !.got = P]
    <3>2. P \in SUBSET (Ports \ reserved) /\ P \subseteq Ports
      BY DEF PortChoices
    <3>3. /\ j \in Job /\ j.op = "provision" /\ j.id = s /\ j.at = "state" /\ j.got = P \ {}
          /\ jobs' = [jobs EXCEPT ![s] = j]
      BY <1>1, <1>2, <3>1, <3>2 DEF Job
    <3>4. leaked' = leaked \cup {}
      BY <3>1
    <3>5. {} \in SUBSET Ports
      OBVIOUS
    <3> USE <3>2, <3>3, <3>5
    <3> WITNESS P \in SUBSET (Ports \ reserved), j \in Job, {} \in SUBSET Ports
    <3>6. QED BY <3>1, <3>3, <3>4
  <2>2. CASE \E P \in SUBSET (Ports \ reserved) :
               /\ reserved' = reserved \cup P /\ leaked' = leaked \cup P
               /\ Goto(s, "unreserve")
    <3>1. PICK P \in SUBSET (Ports \ reserved) :
               /\ reserved' = reserved \cup P /\ leaked' = leaked \cup P
               /\ Goto(s, "unreserve")
      BY <2>2
    <3> DEFINE j == [jobs[s] EXCEPT !.at = "unreserve"]
    <3>2. /\ j \in Job /\ j.op = "provision" /\ j.id = s /\ j.at = "unreserve" /\ j.got = P \ P
          /\ jobs' = [jobs EXCEPT ![s] = j]
      BY <1>1, <1>2, <3>1, JobMoves DEF Goto
    <3>3. QED BY <3>1, <3>2
  <2>3. QED BY <2>1, <2>2 DEF AllocatePorts
<1>4. /\ jobs'[s] = j /\ j # NoJob /\ Shape(j)
      /\ \A v \in Workers : v # s => jobs'[v] = jobs[v]
  BY <1>1, <1>3, JobIsJob DEF Shape, Books, BookTypes
<1>5. JobsRun' /\ BookTypes'
  <2>1. \A v \in Sessions \ {s} : Running(v) =>
          live'[v] = None /\ pc'[v] \in {"provisioning", "gone", "dead"}
    BY <1>1 DEF Books, JobsRun, Workers
  <2>2. live'[s] = None /\ pc'[s] \in {"provisioning", "gone", "dead"}
    BY <1>1, <1>2 DEF Books, JobsRun
  <2>3. JobsRun' /\ jobs' \in [Workers -> Job \cup {NoJob}]
    BY <1>1, <1>2, <1>3, <1>4, <2>1, <2>2, JobsStep
  <2>4. QED BY <1>1, <1>3, <2>3 DEF Books, BookTypes
<1>6. SlugInv'
  <2>1. \A v \in Workers, t \in Sessions : Owns(v, t)' <=> Owns(v, t)
    BY <1>2, <1>3, <1>4 DEF Owns, Running
  <2>2. QED BY <1>1, <2>1 DEF Books, SlugInv
<1>7. PortInv'
  <2>1. \A v \in Workers : OwnedPorts(v)' = IF v = s THEN P \ L ELSE OwnedPorts(v)
    BY <1>1, <1>2, <1>3, <1>4 DEF OwnedPorts, Held, Got, Running
  <2>2. OwnedPorts(s) = {}
    BY <1>2 DEF OwnedPorts, Held, Got
  <2>3. \A v \in Workers, p \in P : p \in Ports /\ p \notin OwnedPorts(v) /\ p \notin leaked
    BY DEF Books, PortInv
  <2>4. QED BY <1>1, <1>3, <2>1, <2>2, <2>3 DEF Books, PortInv
<1>8. QED BY <1>5, <1>6, <1>7 DEF Books

\* The ports go from the job to the boundary, and the slug is free.
LEMMA CommitStep ==
  ASSUME TypeOK, Books, NEW s \in Sessions, Commit(s)
  PROVE  Books'
<1>1. /\ s \in Workers /\ "commit" \in Steps /\ At(s, "commit")
      /\ UNCHANGED <<reserved, leaked>>
      /\ live' = [live EXCEPT ![s] = jobs[s].got] /\ reserving' = reserving \ {s}
      /\ jobs' = [jobs EXCEPT ![s] = NoJob]
      /\ \A v \in Sessions \ {s} : pc'[v] = pc[v]
  BY DEF Commit, Answer, Workers, Steps, TypeOK
<1>2. /\ Running(s) /\ jobs[s] \in Job /\ jobs[s].at = "commit" /\ jobs[s].op = "provision"
      /\ jobs[s].id = s /\ live[s] = None /\ jobs[s].got \subseteq Ports
  BY <1>1, JobAt DEF Shape, Job
<1>3. /\ jobs'[s] = NoJob /\ \A v \in Workers : v # s => jobs'[v] = jobs[v]
      /\ live'[s] = jobs[s].got /\ live'[s] # None
      /\ \A v \in Sessions : v # s => live'[v] = live[v]
  BY <1>1, <1>2, NamesAssumption DEF Books, BookTypes
<1>4. JobsRun' /\ BookTypes'
  <2>1. \A v \in Sessions \ {s} : Running(v) =>
          live'[v] = None /\ pc'[v] \in {"provisioning", "gone", "dead"}
    BY <1>1, <1>3 DEF Books, JobsRun, Workers
  <2>2. JobsRun' /\ jobs' \in [Workers -> Job \cup {NoJob}]
    BY <1>1, <2>1, JobsStep
  <2>3. live' \in [Sessions -> {None} \cup SUBSET Ports]
    BY <1>1, <1>2 DEF Books, BookTypes
  <2>4. QED BY <1>1, <2>2, <2>3 DEF Books, BookTypes
<1>5. SlugInv'
  <2>1. Owns(s, s)
    BY <1>2 DEF Owns
  <2>2. \A v \in Workers, t \in Sessions : Owns(v, t)' <=> v # s /\ Owns(v, t)
    BY <1>3 DEF Owns, Running
  <2>3. \A t \in Sessions : Owns(s, t) => t = s
    BY <1>2 DEF Owns
  <2>4. QED BY <1>1, <1>3, <2>1, <2>2, <2>3 DEF Books, SlugInv
<1>6. PortInv'
  <2>1. OwnedPorts(s)' = OwnedPorts(s)
    BY <1>2, <1>3 DEF OwnedPorts, Held, Got, Running
  <2>2. \A v \in Workers : v # s => OwnedPorts(v)' = OwnedPorts(v)
    BY <1>3 DEF OwnedPorts, Held, Got, Running
  <2>3. QED BY <1>1, <2>1, <2>2 DEF Books, PortInv
<1>7. QED BY <1>4, <1>5, <1>6 DEF Books

LEMMA UnreserveStep ==
  ASSUME TypeOK, Books, NEW s \in Sessions, Unreserve(s)
  PROVE  Books'
<1> DEFINE j == [jobs[s] EXCEPT !.at = "undo"]
<1>1. /\ s \in Workers /\ {"unreserve", "undo"} \subseteq Steps /\ At(s, "unreserve")
      /\ UNCHANGED <<live, reserved, leaked, pc>> /\ reserving' = reserving \ {s}
      /\ jobs' = [jobs EXCEPT ![s] = j]
  BY DEF Unreserve, Goto, Workers, Steps, launchVars
<1>2. /\ Running(s) /\ jobs[s] \in Job /\ jobs[s].at = "unreserve"
      /\ jobs[s].op \in {"provision", "bare"} /\ jobs[s].id = s /\ live[s] = None
      /\ s # Scanner
  BY <1>1, JobAt, NamesAssumption DEF Shape
<1>3. /\ j \in Job /\ j # NoJob /\ j.op = jobs[s].op /\ j.id = s /\ j.at = "undo"
      /\ j.got = jobs[s].got
  BY <1>1, <1>2, JobMoves, JobIsJob
<1>4. /\ jobs'[s] = j /\ Shape(j)
      /\ \A v \in Workers : v # s => jobs'[v] = jobs[v]
  BY <1>1, <1>2, <1>3 DEF Shape, Books, BookTypes
<1>5. JobsRun' /\ BookTypes'
  <2>1. /\ \A v \in Sessions \ {s} : Running(v) =>
             live'[v] = None /\ pc'[v] \in {"provisioning", "gone", "dead"}
        /\ live'[s] = None /\ pc'[s] \in {"provisioning", "gone", "dead"}
    BY <1>1, <1>2 DEF Books, JobsRun, Workers
  <2>2. JobsRun' /\ jobs' \in [Workers -> Job \cup {NoJob}]
    BY <1>1, <1>2, <1>3, <1>4, <2>1, JobsStep
  <2>3. QED BY <1>1, <2>2 DEF Books, BookTypes
<1>6. SlugInv'
  <2>1. Owns(s, s)
    BY <1>2 DEF Owns
  <2>2. \A v \in Workers, t \in Sessions : Owns(v, t)' <=> v # s /\ Owns(v, t)
    BY <1>2, <1>3, <1>4 DEF Owns, Running
  <2>3. \A t \in Sessions : Owns(s, t) => t = s
    BY <1>2 DEF Owns
  <2>4. QED BY <1>1, <2>1, <2>2, <2>3 DEF Books, SlugInv
<1>7. PortInv'
  <2>1. \A v \in Workers : OwnedPorts(v)' = OwnedPorts(v)
    BY <1>1, <1>2, <1>3, <1>4 DEF OwnedPorts, Held, Got, Running
  <2>2. QED BY <1>1, <2>1 DEF Books, PortInv
<1>8. QED BY <1>5, <1>6, <1>7 DEF Books

\* The ports that one worker gives back were nobody else's.
LEMMA PortsGivenBack ==
  ASSUME Books, NEW w \in Workers,
         reserved' = Release(jobs[w].got), UNCHANGED leaked,
         OwnedPorts(w) = jobs[w].got, OwnedPorts(w)' = {},
         \A v \in Workers : v # w => OwnedPorts(v)' = OwnedPorts(v)
  PROVE  PortInv'
  BY DEF Books, PortInv, Release

LEMMA UndoStep ==
  ASSUME TypeOK, Books, NEW s \in Sessions, Undo(s)
  PROVE  Books'
<1>1. /\ s \in Workers /\ {"undo", "box"} \subseteq Steps /\ At(s, "undo")
      /\ UNCHANGED <<live, reserving, leaked>> /\ reserved' = Release(jobs[s].got)
      /\ \A v \in Sessions \ {s} : pc'[v] = pc[v]
  BY DEF Undo, Answer, Workers, Steps, TypeOK
<1>2. /\ Running(s) /\ jobs[s] \in Job /\ jobs[s].at = "undo"
      /\ jobs[s].op \in {"provision", "bare"} /\ jobs[s].id = s /\ live[s] = None
      /\ s # Scanner
  BY <1>1, JobAt, NamesAssumption DEF Shape
<1>3. PICK j \in Job \cup {NoJob} :
        /\ jobs' = [jobs EXCEPT ![s] = j]
        /\ j # NoJob => /\ j.op = "rollback" /\ j.id = s /\ j.at = "box" /\ j.got = {}
                        /\ pc' = pc
  <2> DEFINE r == [op |-> "rollback", id |-> s, at |-> "box", got |-> {}]
  <2>1. /\ r \in Job \cup {NoJob}
        /\ r.op = "rollback" /\ r.id = s /\ r.at = "box" /\ r.got = {}
    BY DEF Job, Steps
  <2>2. CASE jobs[s].op = "bare"
    BY <2>2 DEF Undo
  <2>3. CASE jobs[s].op # "bare"
    <3>1. jobs' = [jobs EXCEPT ![s] = r] /\ pc' = pc
      BY <2>3 DEF Undo
    <3> HIDE DEF r
    <3>2. QED BY <2>1, <3>1
  <2>4. QED BY <2>2, <2>3
<1>4. /\ jobs'[s] = j /\ \A v \in Workers : v # s => jobs'[v] = jobs[v]
      /\ j # NoJob => Shape(j)
  BY <1>1, <1>3 DEF Shape, Books, BookTypes
<1>5. JobsRun' /\ BookTypes'
  <2>1. /\ \A v \in Sessions \ {s} : Running(v) =>
             live'[v] = None /\ pc'[v] \in {"provisioning", "gone", "dead"}
        /\ j # NoJob => live'[s] = None /\ pc'[s] \in {"provisioning", "gone", "dead"}
    BY <1>1, <1>2, <1>3 DEF Books, JobsRun, Workers
  <2>2. JobsRun' /\ jobs' \in [Workers -> Job \cup {NoJob}]
    BY <1>1, <1>2, <1>3, <1>4, <2>1, JobsStep
  <2>3. QED BY <1>1, <2>2 DEF Books, BookTypes, Release
<1>6. SlugInv'
  <2>1. \A v \in Workers, t \in Sessions : Owns(v, t)' <=> Owns(v, t)
    BY <1>2, <1>3, <1>4 DEF Owns, Running
  <2>2. QED BY <1>1, <2>1 DEF Books, SlugInv
<1>7. PortInv'
  <2>1. OwnedPorts(s) = jobs[s].got /\ OwnedPorts(s)' = {}
    BY <1>1, <1>2, <1>3, <1>4 DEF OwnedPorts, Held, Got, Running
  <2>2. \A v \in Workers : v # s => OwnedPorts(v)' = OwnedPorts(v)
    BY <1>1, <1>4 DEF OwnedPorts, Held, Got, Running
  <2>3. QED BY <1>1, <2>1, <2>2, PortsGivenBack
<1>8. QED BY <1>5, <1>6, <1>7 DEF Books

-----------------------------------------------------------------------------
(* Teardown *)

\* A boundary's ports go from it to the job, under a reservation of its slug.
LEMMA BeginStep ==
  ASSUME TypeOK, Books, NEW w \in Workers, NEW s \in Sessions, w = s \/ w = Scanner,
         ~Running(w), BeginTeardown(w, s), UNCHANGED <<reserved, leaked>>,
         \A v \in Sessions : Running(v) \/ v = w =>
           pc'[v] \in {"provisioning", "gone", "dead"}
  PROVE  Books'
<1>1. CASE live[s] # None
  <2> DEFINE j == [op |-> "teardown", id |-> s, at |-> "wipe", got |-> live[s]]
  <2>1. /\ live' = [live EXCEPT ![s] = None] /\ reserving' = reserving \cup {s}
        /\ jobs' = [jobs EXCEPT ![w] = j]
    BY <1>1 DEF BeginTeardown
  <2>2. j \in Job /\ j # NoJob /\ Shape(j) /\ live[s] \subseteq Ports
    <3>1. live[s] \in SUBSET Ports
      BY <1>1 DEF Books, BookTypes
    <3>2. j \in Job
      BY <3>1 DEF Job, Steps
    <3>3. QED BY <3>1, <3>2, JobIsJob DEF Shape
  <2>3. ~Running(s)
    BY <1>1 DEF Books, JobsRun, Workers
  <2>4. /\ jobs'[w] = j /\ \A v \in Workers : v # w => jobs'[v] = jobs[v]
        /\ live'[s] = None /\ \A v \in Sessions : v # s => live'[v] = live[v]
    BY <2>1 DEF Books, BookTypes
  <2>5. JobsRun' /\ BookTypes'
    <3>1. \A v \in Sessions \ {w} : Running(v) =>
            live'[v] = None /\ pc'[v] \in {"provisioning", "gone", "dead"}
      BY <2>4 DEF Books, JobsRun, Workers
    <3>2. /\ w \in Sessions => /\ j.id = w /\ live'[w] = None
                               /\ pc'[w] \in {"provisioning", "gone", "dead"}
          /\ w = Scanner => j.op \in {"teardown", "orphan"}
      BY <2>4, NamesAssumption
    <3>3. JobsRun' /\ jobs' \in [Workers -> Job \cup {NoJob}]
      BY <2>1, <2>2, <3>1, <3>2, JobsStep
    <3>4. QED BY <2>1, <3>3 DEF Books, BookTypes
  <2>6. SlugInv'
    <3>1. \A v \in Workers, t \in Sessions : Owns(v, t)' <=> Owns(v, t) \/ (v = w /\ t = s)
      BY <2>2, <2>4 DEF Owns, Running
    <3>2. s \notin reserving
      BY <1>1 DEF Books, SlugInv
    <3>3. QED BY <2>1, <2>4, <3>1, <3>2 DEF Books, SlugInv
  <2>7. PortInv'
    <3>1. \A v \in Workers :
            OwnedPorts(v)' = IF v = w THEN live[s] ELSE IF v = s THEN {} ELSE OwnedPorts(v)
      <4>1. ASSUME NEW v \in Workers, v # w, v # s PROVE OwnedPorts(v)' = OwnedPorts(v)
        BY <2>4, <4>1 DEF OwnedPorts, Held, Got, Running
      <4>2. s # w => OwnedPorts(s)' = {}
        BY <2>3, <2>4 DEF OwnedPorts, Held, Got, Running, Workers
      <4>3. OwnedPorts(w)' = live[s]
        BY <2>2, <2>4, NamesAssumption DEF OwnedPorts, Held, Got, Running
      <4>4. QED BY <4>1, <4>2, <4>3
    <3>2. OwnedPorts(s) = live[s] /\ (w # s => OwnedPorts(w) = {})
      BY <1>1, <2>3, NamesAssumption DEF OwnedPorts, Held, Got
    <3>3. s \in Workers
      BY DEF Workers
    <3>4. QED BY <3>1, <3>2, <3>3 DEF Books, PortInv
  <2>8. QED BY <2>5, <2>6, <2>7 DEF Books
<1>2. CASE live[s] = None /\ s \in reserving
  <2>1. UNCHANGED <<jobs, live, reserving>>
    BY <1>2 DEF BeginTeardown
  <2>2. JobsRun'
    BY <2>1 DEF Books, JobsRun, Running, Shape, Workers
  <2>3. SlugInv' /\ PortInv' /\ BookTypes'
    BY <2>1 DEF Books, SlugInv, PortInv, BookTypes, Owns, OwnedPorts, Held, Got, Running
  <2>4. QED BY <2>2, <2>3 DEF Books
<1>3. CASE live[s] = None /\ s \notin reserving
  <2> DEFINE j == [op |-> "orphan", id |-> s, at |-> "box", got |-> {}]
  <2>1. UNCHANGED <<live, reserving>> /\ jobs' = [jobs EXCEPT ![w] = j]
    BY <1>3 DEF BeginTeardown
  <2>2. j \in Job /\ j # NoJob /\ Shape(j)
    <3>1. j \in Job
      BY DEF Job, Steps
    <3>2. QED BY <3>1, JobIsJob DEF Shape
  <2>3. jobs'[w] = j
    BY <2>1 DEF Books, BookTypes
  <2>4. JobsRun' /\ jobs' \in [Workers -> Job \cup {NoJob}]
    <3>1. \A v \in Sessions \ {w} : Running(v) =>
            live'[v] = None /\ pc'[v] \in {"provisioning", "gone", "dead"}
      BY <2>1 DEF Books, JobsRun, Workers
    <3>2. /\ w \in Sessions => /\ j.id = w /\ live'[w] = None
                               /\ pc'[w] \in {"provisioning", "gone", "dead"}
          /\ w = Scanner => j.op \in {"teardown", "orphan"}
      BY <1>3, <2>1, NamesAssumption
    <3>3. QED BY <2>1, <2>2, <3>1, <3>2, JobsStep
  <2>5. \A t \in Sessions : Owns(w, t)' <=> Owns(w, t)
    BY <2>3 DEF Owns, Running
  <2>6. Got(w)' = Got(w)
    BY <2>3 DEF Got, Running
  <2>7. SlugInv' /\ PortInv'
    BY <2>1, <2>2, <2>5, <2>6, QuietStep
  <2>8. QED BY <2>1, <2>4, <2>7 DEF Books, BookTypes
<1>4. QED BY <1>1, <1>2, <1>3

LEMMA WipeStep ==
  ASSUME TypeOK, Books, NEW w \in Workers, Wipe(w)
  PROVE  Books'
<1> DEFINE j == [jobs[w] EXCEPT !.at = "box", !.got = {}]
<1>1. /\ {"wipe", "box"} \subseteq Steps /\ At(w, "wipe")
      /\ UNCHANGED <<live, reserving, leaked, pc>> /\ reserved' = Release(jobs[w].got)
  BY DEF Wipe, Steps, launchVars
<1>2. /\ Running(w) /\ jobs[w] \in Job /\ jobs[w].at = "wipe" /\ jobs[w].op = "teardown"
      /\ w \in Sessions => jobs[w].id = w /\ live[w] = None
  BY <1>1, JobAt DEF Shape
<1>3. /\ j \in Job /\ j # NoJob /\ j.op = "teardown" /\ j.id = jobs[w].id /\ j.at = "box"
      /\ j.got = {} /\ jobs' = [jobs EXCEPT ![w] = j]
  BY <1>1, <1>2, JobIsJob DEF Wipe, Job
<1>4. /\ jobs'[w] = j /\ Shape(j) /\ \A v \in Workers : v # w => jobs'[v] = jobs[v]
  BY <1>1, <1>3 DEF Shape, Books, BookTypes
<1>5. JobsRun' /\ BookTypes'
  <2>1. /\ \A v \in Sessions \ {w} : Running(v) =>
             live'[v] = None /\ pc'[v] \in {"provisioning", "gone", "dead"}
        /\ w \in Sessions => j.id = w /\ live'[w] = None
                             /\ pc'[w] \in {"provisioning", "gone", "dead"}
    BY <1>1, <1>2, <1>3 DEF Books, JobsRun, Workers
  <2>2. JobsRun' /\ jobs' \in [Workers -> Job \cup {NoJob}]
    BY <1>3, <1>4, <2>1, JobsStep
  <2>3. QED BY <1>1, <2>2 DEF Books, BookTypes, Release
<1>6. SlugInv'
  <2>1. \A v \in Workers, t \in Sessions : Owns(v, t)' <=> Owns(v, t)
    BY <1>2, <1>3, <1>4 DEF Owns, Running
  <2>2. QED BY <1>1, <2>1 DEF Books, SlugInv
<1>7. PortInv'
  <2>1. OwnedPorts(w) = jobs[w].got /\ OwnedPorts(w)' = {}
    BY <1>1, <1>2, <1>3, <1>4 DEF OwnedPorts, Held, Got, Running
  <2>2. \A v \in Workers : v # w => OwnedPorts(v)' = OwnedPorts(v)
    BY <1>1, <1>4 DEF OwnedPorts, Held, Got, Running
  <2>3. QED BY <1>1, <2>1, <2>2, PortsGivenBack
<1>8. QED BY <1>5, <1>6, <1>7 DEF Books

\* A step of the grain: the job goes on, or is a rollback that is done.
LEMMA GrainGoesOn ==
  ASSUME TypeOK, Books, NEW w \in Workers,
         NEW a \in {"box", "harvest", "clear"}, At(w, a),
         UNCHANGED <<live, reserving, reserved, leaked>>,
         \/ AfterGrain(w)
         \/ \E b \in {"harvest", "clear"} : Goto(w, b) /\ UNCHANGED pc
  PROVE  Books'
<1>1. a \in Steps
  BY DEF Steps
<1>2. /\ Running(w) /\ jobs[w] \in Job /\ jobs[w].at = a /\ Shape(jobs[w])
      /\ jobs[w].op \in {"rollback", "teardown", "orphan"} /\ jobs[w].got = {}
      /\ w \in Sessions => jobs[w].id = w
  BY <1>1, JobAt DEF Shape
<1>3. CASE jobs' = [jobs EXCEPT ![w] = NoJob] /\ Answer(jobs[w].id, "blocked")
           /\ jobs[w].op = "rollback"
  <2>1. w \in Sessions /\ jobs[w].id = w
    BY <1>2, <1>3 DEF Books, JobsRun, Workers
  <2>2. \A v \in Sessions : v # w => pc'[v] = pc[v]
    BY <1>3, <2>1 DEF Answer, TypeOK
  <2>3. jobs'[w] = NoJob
    BY <1>3 DEF Books, BookTypes
  <2>4. \A s \in Sessions : Owns(w, s)' <=> Owns(w, s)
    BY <1>2, <1>3, <2>3 DEF Owns, Running
  <2>5. QED BY <1>2, <1>3, <2>2, <2>4, GoOn
<1>4. ASSUME NEW b \in {"harvest", "clear", "unlock", "wipeOrphan"}, Goto(w, b), UNCHANGED pc,
             b = "unlock" => jobs[w].op = "teardown", b = "wipeOrphan" => jobs[w].op = "orphan"
      PROVE  Books'
  <2> DEFINE j == [jobs[w] EXCEPT !.at = b]
  <2>1. b \in Steps
    BY DEF Steps
  <2>2. /\ j \in Job /\ j # NoJob /\ j.op = jobs[w].op /\ j.id = jobs[w].id /\ j.at = b
        /\ j.got = {} /\ jobs' = [jobs EXCEPT ![w] = j]
    BY <1>2, <1>4, <2>1, JobMoves, JobIsJob DEF Goto
  <2>3. jobs'[w] = j /\ Shape(j)
    BY <1>2, <1>4, <2>2 DEF Shape, Books, BookTypes
  <2>4. \A s \in Sessions : Owns(w, s)' <=> Owns(w, s)
    BY <1>2, <2>2, <2>3 DEF Owns, Running
  <2>5. QED BY <1>2, <1>4, <2>2, <2>3, <2>4, GoOn
<1>5. CASE AfterGrain(w)
  BY <1>2, <1>3, <1>4, <1>5 DEF AfterGrain
<1>6. QED BY <1>4, <1>5

LEMMA EndStep ==
  ASSUME TypeOK, Books, NEW w \in Workers, EndTeardown(w)
  PROVE  Books'
<1>1. /\ {"unlock", "wipeOrphan"} \subseteq Steps
      /\ UNCHANGED <<live, reserved, leaked, pc>> /\ jobs' = [jobs EXCEPT ![w] = NoJob]
  BY DEF EndTeardown, Steps, launchVars
<1>2. jobs'[w] = NoJob /\ \A v \in Workers : v # w => jobs'[v] = jobs[v]
  BY <1>1 DEF Books, BookTypes
<1>3. CASE At(w, "unlock") /\ reserving' = reserving \ {jobs[w].id}
  <2>1. /\ Running(w) /\ jobs[w].op = "teardown" /\ jobs[w].got = {}
        /\ jobs[w].id \in Sessions
    BY <1>1, <1>3, JobAt DEF Shape
  <2>2. JobsRun' /\ BookTypes'
    <3>1. \A v \in Sessions \ {w} : Running(v) =>
            live'[v] = None /\ pc'[v] \in {"provisioning", "gone", "dead"}
      BY <1>1 DEF Books, JobsRun, Workers
    <3>2. JobsRun' /\ jobs' \in [Workers -> Job \cup {NoJob}]
      BY <1>1, <3>1, JobsStep
    <3>3. QED BY <1>1, <1>3, <3>2 DEF Books, BookTypes
  <2>3. SlugInv'
    <3>1. \A t \in Sessions : Owns(w, t) <=> t = jobs[w].id
      BY <2>1 DEF Owns
    <3>2. \A v \in Workers, t \in Sessions : Owns(v, t)' <=> v # w /\ Owns(v, t)
      BY <1>2 DEF Owns, Running
    <3>3. QED BY <1>1, <1>3, <2>1, <3>1, <3>2 DEF Books, SlugInv
  <2>4. PortInv'
    <3>1. \A v \in Workers : OwnedPorts(v)' = OwnedPorts(v)
      BY <1>1, <1>2, <2>1 DEF OwnedPorts, Held, Got, Running
    <3>2. QED BY <1>1, <3>1 DEF Books, PortInv
  <2>5. QED BY <2>2, <2>3, <2>4 DEF Books
<1>4. CASE At(w, "wipeOrphan") /\ UNCHANGED reserving
  <2>1. Running(w) /\ jobs[w].op = "orphan" /\ jobs[w].got = {}
    BY <1>1, <1>4, JobAt DEF Shape
  <2>2. \A s \in Sessions : Owns(w, s)' <=> Owns(w, s)
    BY <1>2, <2>1 DEF Owns, Running
  <2>3. QED BY <1>1, <1>4, <2>1, <2>2, GoOn
<1>5. QED BY <1>3, <1>4 DEF EndTeardown

-----------------------------------------------------------------------------
(* Everything else leaves the books alone, or empties them.                    *)

LEMMA AwayFromBooks ==
  ASSUME TypeOK, Books, UNCHANGED <<live, reserving, reserved, leaked, jobs>>,
         \A s \in Sessions : Running(s) => pc'[s] \in {"provisioning", "gone", "dead"}
  PROVE  Books'
<1>1. JobsRun'
  BY DEF Books, JobsRun, Running, Shape, Workers
<1>2. SlugInv' /\ PortInv' /\ BookTypes'
  BY DEF Books, SlugInv, PortInv, BookTypes, Owns, OwnedPorts, Held, Got, Running
<1>3. QED BY <1>1, <1>2 DEF Books

LEMMA StopStep ==
  ASSUME TypeOK, Books, DaemonStops
  PROVE  Books'
<1>1. /\ live' = [s \in Sessions |-> None] /\ reserving' = {} /\ reserved' = {} /\ leaked' = {}
      /\ jobs' = [w \in Workers |-> NoJob]
  BY DEF DaemonStops
<1>2. \A w \in Workers : OwnedPorts(w)' = {} /\ ~Running(w)'
  BY <1>1 DEF OwnedPorts, Held, Got, Running
<1>3. BookTypes' /\ JobsRun' /\ SlugInv' /\ PortInv'
  BY <1>1, <1>2 DEF BookTypes, JobsRun, SlugInv, PortInv, Owns
<1>4. QED BY <1>3 DEF Books

LEMMA SubstrateKeepsBooks ==
  ASSUME TypeOK, Books, NEW w \in Workers, SubstrateStep(w)
  PROVE  Books'
<1>1. CASE RemoveWorktree(w)
  BY <1>1, GrainGoesOn DEF RemoveWorktree, daemonVars
<1>2. CASE RemoveContainer(w)
  BY <1>2, GrainGoesOn DEF RemoveContainer, daemonVars
<1>3. CASE Harvest(w)
  BY <1>3, GrainGoesOn DEF Harvest, HarvestFails, daemonVars
<1>4. CASE RemoveClone(w)
  BY <1>4, GrainGoesOn DEF RemoveClone, daemonVars
<1>5. QED
  BY <1>1, <1>2, <1>3, <1>4, GrainStep, PortsStep, StateStep, CommitStep, UnreserveStep,
     UndoStep, WipeStep, EndStep
  DEF SubstrateStep

LEMMA LauncherKeepsBooks ==
  ASSUME TypeOK, Books, NEW s \in Sessions,
         \/ Open(s) \/ GoAstray(s) \/ LauncherCall(s) \/ Keepalive(s)
         \/ AgentStep(s)
         \/ LeaveAgent(s) \/ ReleaseOwnLeases(s) \/ Crash(s)
  PROVE  Books'
<1>1. CASE CallProvision(s)
  BY <1>1, ReserveStep
<1>2. CASE CallTeardown(s)
  <2>1. ~Running(s) /\ s \in Workers
    BY <1>2, CallerHasNoJob DEF CallTeardown, Workers
  <2>2. /\ \A v \in Sessions : Running(v) \/ v = s =>
             pc'[v] \in {"provisioning", "gone", "dead"}
        /\ UNCHANGED <<reserved, leaked>>
    BY <1>2 DEF CallTeardown, Books, JobsRun, TypeOK, Workers
  <2>3. CASE BeginTeardown(s, s)
    BY <2>1, <2>2, <2>3, BeginStep
  <2>4. CASE UNCHANGED <<jobs, live, reserving>>
    BY <2>2, <2>4, AwayFromBooks
  <2>5. QED BY <1>2, <2>3, <2>4 DEF CallTeardown
<1>3. ASSUME UNCHANGED <<live, reserving, reserved, leaked, jobs>>,
             \A v \in Sessions : v # s => pc'[v] = pc[v],
             pc[s] \notin {"provisioning", "gone", "dead"} \/ pc'[s] \in {pc[s], "dead"}
      PROVE  Books'
  <2>1. \A v \in Sessions : Running(v) => pc[v] \in {"provisioning", "gone", "dead"}
    BY DEF Books, JobsRun, Workers
  <2>2. QED BY <1>3, <2>1, AwayFromBooks
<1>4. CASE Open(s) \/ GoAstray(s) \/ CallMint(s) \/ CallAcquire(s)
  BY <1>3, <1>4
  DEF Open, GoAstray, CallMint, CallAcquire, TypeOK, daemonVars
<1>5. CASE Keepalive(s) \/ AgentStep(s)
  BY <1>3, <1>5
  DEF Keepalive, Renew, Reattach, AgentStep, AgentCommits, AgentAttaches, AgentTakesTrunk,
       TrunkReleased, AgentClaims, ClaimsEnd, daemonVars, launchVars
<1>6. CASE LeaveAgent(s) \/ ReleaseOwnLeases(s) \/ Crash(s)
  BY <1>3, <1>6
  DEF LeaveAgent, ReleaseOwnLeases, Crash, TypeOK, daemonVars
<1>7. QED BY <1>1, <1>2, <1>4, <1>5, <1>6 DEF LauncherCall

LEMMA ScanKeepsBooks ==
  ASSUME TypeOK, Books, Scan
  PROVE  Books'
<1>1. \A v \in Sessions : Running(v) => pc[v] \in {"provisioning", "gone", "dead"}
  BY DEF Books, JobsRun, Workers
<1>2. CASE ScanReclaim \/ ScanLook \/ ScanEnd
  BY <1>1, <1>2, AwayFromBooks DEF ScanReclaim, ScanLook, ScanEnd, daemonVars, launchVars
<1>3. ASSUME NEW s \in Sessions, ScanTear(s)
      PROVE  Books'
  <2>1. /\ ~Running(Scanner) /\ Scanner \in Workers /\ Scanner \notin Sessions
        /\ UNCHANGED <<reserved, leaked, pc>>
    BY <1>3, NamesAssumption DEF ScanTear, Running, Workers, launchVars
  <2>2. CASE BeginTeardown(Scanner, s)
    BY <1>1, <2>1, <2>2, BeginStep
  <2>3. CASE UNCHANGED <<jobs, live, reserving>>
    BY <1>1, <2>1, <2>3, AwayFromBooks
  <2>4. QED BY <1>3, <2>2, <2>3 DEF ScanTear
<1>4. QED BY <1>2, <1>3 DEF Scan

LEMMA BooksKept ==
  ASSUME TypeOK, Books, [Next]_vars
  PROVE  Books'
<1>1. \A v \in Sessions : Running(v) => pc[v] \in {"provisioning", "gone", "dead"}
  BY DEF Books, JobsRun, Workers
<1>2. CASE UNCHANGED vars
  BY <1>1, <1>2, AwayFromBooks DEF vars, daemonVars, launchVars
<1>3. CASE OthersMint \/ DaemonStarts \/ Tick
  BY <1>1, <1>3, AwayFromBooks DEF OthersMint, DaemonStarts, Tick, daemonVars, launchVars
<1>4. QED
  BY <1>2, <1>3, SubstrateKeepsBooks, LauncherKeepsBooks, ScanKeepsBooks, StopStep DEF Next

-----------------------------------------------------------------------------
(* The books as the properties state them                                       *)

LEMMA SlugsAsStated == SlugInv <=> SlugsExclusive
  BY DEF SlugInv, SlugsExclusive, Owns, Running

LEMMA PortsAsStated ==
  ASSUME BookTypes
  PROVE  PortInv <=> PortsAccounted
<1> DEFINE held(x) == IF x \in Sessions /\ live[x] # None THEN live[x] ELSE {}
           owns(w) == held(w) \cup (IF jobs[w] = NoJob THEN {} ELSE jobs[w].got)
<1>1. \A w \in Workers : owns(w) = OwnedPorts(w) /\ owns(w) \subseteq Ports
  BY OwnedTypes DEF OwnedPorts, Held, Got, Running
<1>2. PortsAccounted <=>
        /\ reserved = leaked \cup UNION {owns(w) : w \in Workers}
        /\ \A v, w \in Workers : v # w => owns(v) \cap owns(w) = {}
        /\ \A w \in Workers : owns(w) \cap leaked = {}
  BY DEF PortsAccounted
<1> HIDE DEF owns, held
<1>3. reserved = leaked \cup UNION {owns(w) : w \in Workers} <=>
        \A p \in Ports : p \in reserved <=> p \in leaked \/ \E w \in Workers : p \in owns(w)
  BY <1>1 DEF BookTypes
<1>4. (\A v, w \in Workers : v # w => owns(v) \cap owns(w) = {}) <=>
        \A v, w \in Workers, p \in Ports : p \in owns(v) /\ p \in owns(w) => v = w
  BY <1>1
<1>5. (\A w \in Workers : owns(w) \cap leaked = {}) <=>
        \A w \in Workers, p \in Ports : p \in owns(w) => p \notin leaked
  BY <1>1 DEF BookTypes
<1>6. QED BY <1>1, <1>2, <1>3, <1>4, <1>5 DEF PortInv

-----------------------------------------------------------------------------
(* Types *)

\* What TypeOK says of everything else.
HostTypes ==
  /\ tree \in [Sessions -> {None} \cup {"worktree", "container"}]
  /\ kept \subseteq Sessions
  /\ state \in [Sessions -> BOOLEAN] /\ box \in [Sessions -> BOOLEAN]
  /\ work \in [Sessions -> {None, "clone", "repo"}]
  /\ late \subseteq Sessions /\ attached \subseteq Sessions

StoreTypes ==
  /\ scan \in Pass \cup {Idle} /\ blinded \subseteq Sessions /\ spared \subseteq Sessions
  /\ beat \in [Sessions -> {None} \cup Left]
  /\ trunk \in [holder : Sessions \cup {None}, left : Left]
  /\ tokens \in [Sessions -> {None, "young", "old"}] /\ claims \subseteq Sessions

ProcessTypes ==
  /\ up \in BOOLEAN /\ grain \in Grains
  /\ pc \in [Sessions -> {"absent", "new", "open", "provisioning", "provisioned", "minted",
                          "running", "exiting", "released", "gone", "blocked",
                          "astray", "dead"}]
  /\ conn \in [Sessions -> {"own", "fresh"}]
  /\ agent \in [Sessions -> BOOLEAN]
  /\ outage \in 0..MaxOutage /\ stops \in 0..MaxStops

LEMMA TypesAsStated == TypeOK <=> BookTypes /\ HostTypes /\ StoreTypes /\ ProcessTypes
  BY DEF TypeOK, BookTypes, HostTypes, StoreTypes, ProcessTypes

LEMMA AfterGrainTypes ==
  ASSUME TypeOK, NEW w \in Workers, AfterGrain(w),
         jobs[w].op \in {"teardown", "orphan", "rollback"}
  PROVE  pc' \in [Sessions -> {"absent", "new", "open", "provisioning", "provisioned", "minted",
                          "running", "exiting", "released", "gone", "blocked",
                          "astray", "dead"}]
<1>1. UNCHANGED pc \/ Answer(jobs[w].id, "blocked")
  BY DEF AfterGrain
<1>2. QED BY <1>1 DEF Answer, TypeOK

LEMMA SubstrateTypes ==
  ASSUME TypeOK, Books, NEW w \in Workers, SubstrateStep(w)
  PROVE  HostTypes' /\ StoreTypes' /\ ProcessTypes'
<1> USE DEF TypeOK, HostTypes, StoreTypes, ProcessTypes, daemonVars, scanVars, hostVars,
            storeVars, launchVars, agentVars, clockVars
<1>1. ASSUME w \in Sessions, \/ ProvisionGrain(w) \/ AllocatePorts(w) \/ ProvisionState(w)
                             \/ Commit(w) \/ Unreserve(w) \/ Undo(w)
      PROVE  HostTypes' /\ StoreTypes' /\ ProcessTypes'
  <2>1. CASE ProvisionGrain(w)
    <3>1. /\ tree' \in [Sessions -> {None} \cup {"worktree", "container"}]
          /\ state' \in [Sessions -> BOOLEAN] /\ box' \in [Sessions -> BOOLEAN]
      <4>1. CASE CreateWorktree(w)
        BY <1>1, <4>1 DEF CreateWorktree
      <4>2. CASE CreateClone(w)
        BY <1>1, <4>2 DEF CreateClone
      <4>3. CASE GrainFails(w)
        <5>1. PICK made \in BOOLEAN : state' = [state EXCEPT ![w] = made]
          BY <4>3 DEF GrainFails
        <5>2. UNCHANGED <<tree, box>>
          BY <4>3 DEF GrainFails
        <5>3. QED BY <1>1, <5>1, <5>2
      <4>4. QED BY <2>1, <4>1, <4>2, <4>3 DEF ProvisionGrain
    <3>2. UNCHANGED <<daemonVars, scanVars, kept, storeVars, launchVars, agentVars, clockVars>>
      BY <2>1 DEF ProvisionGrain
    <3>3. QED BY <3>1, <3>2
  <2>2. CASE AllocatePorts(w) \/ Unreserve(w)
    BY <2>2 DEF AllocatePorts, Unreserve
  <2>3. CASE ProvisionState(w)
    BY <1>1, <2>3 DEF ProvisionState
  <2>4. CASE Commit(w)
    BY <1>1, <2>4 DEF Commit, Answer
  <2>5. CASE Undo(w)
    BY <1>1, <2>5 DEF Undo, Answer
  <2>6. QED BY <1>1, <2>1, <2>2, <2>3, <2>4, <2>5
<1>2. \A a \in Steps : At(w, a) => jobs[w].id \in Sessions
  BY JobAt
<1>3. \A a \in {"box", "harvest", "clear"} :
        At(w, a) => jobs[w].op \in {"teardown", "orphan", "rollback"}
  BY JobAt DEF Shape, Steps
<1>4. CASE Wipe(w)
  BY <1>2, <1>4 DEF Wipe, Steps
<1>5. CASE RemoveWorktree(w)
  BY <1>2, <1>3, <1>5, AfterGrainTypes DEF RemoveWorktree, Steps
<1>6. CASE RemoveContainer(w)
  BY <1>2, <1>6 DEF RemoveContainer, Steps
<1>7. CASE Harvest(w)
  <2>1. jobs[w].id \in Sessions
    BY <1>2, <1>7 DEF Harvest, Steps
  <2>2. CASE AfterGrain(w)
    BY <1>3, <1>7, <2>1, <2>2, AfterGrainTypes DEF Harvest, HarvestFails
  <2>3. CASE UNCHANGED pc
    BY <1>7, <2>1, <2>3 DEF Harvest, HarvestFails
  <2>4. QED BY <1>7, <2>2, <2>3 DEF Harvest, HarvestFails
<1>8. CASE RemoveClone(w)
  BY <1>2, <1>3, <1>8, AfterGrainTypes DEF RemoveClone, Steps
<1>9. CASE EndTeardown(w)
  BY <1>2, <1>9 DEF EndTeardown, Steps
<1>10. QED
  BY <1>1, <1>4, <1>5, <1>6, <1>7, <1>8, <1>9 DEF SubstrateStep

LEMMA LauncherTypes ==
  ASSUME TypeOK, NEW s \in Sessions,
         \/ Open(s) \/ GoAstray(s) \/ LauncherCall(s) \/ Keepalive(s)
         \/ AgentStep(s)
         \/ LeaveAgent(s) \/ ReleaseOwnLeases(s) \/ Crash(s)
  PROVE  HostTypes' /\ StoreTypes' /\ ProcessTypes'
<1> USE TtlAssumption
    DEF TypeOK, HostTypes, StoreTypes, ProcessTypes, daemonVars, scanVars, hostVars,
        storeVars, launchVars, agentVars, clockVars, Left
<1>1. CASE Open(s)
  BY <1>1 DEF Open
<1>2. CASE GoAstray(s)
  BY <1>2 DEF GoAstray
<1>3. CASE CallProvision(s)
  BY <1>3 DEF CallProvision, Reserve
<1>4. CASE CallMint(s)
  BY <1>4 DEF CallMint, PruneDead
<1>5. CASE CallAcquire(s)
  BY <1>5 DEF CallAcquire
<1>6. CASE CallTeardown(s)
  BY <1>6 DEF CallTeardown
<1>7. CASE Keepalive(s)
  BY <1>7 DEF Keepalive, Renew, Reattach
<1>8. CASE AgentCommits(s)
  BY <1>8 DEF AgentCommits
<1>9. CASE AgentStep(s) /\ ~AgentCommits(s)
  BY <1>9 DEF AgentStep, AgentAttaches, AgentTakesTrunk, TrunkReleased, AgentClaims, ClaimsEnd
<1>10. CASE LeaveAgent(s)
  BY <1>10 DEF LeaveAgent
<1>11. CASE Crash(s)
  BY <1>11 DEF Crash
<1>12. CASE ReleaseOwnLeases(s)
  BY <1>12 DEF ReleaseOwnLeases
<1>13. QED
  BY <1>1, <1>2, <1>3, <1>4, <1>5, <1>6, <1>7, <1>8, <1>9, <1>10, <1>11, <1>12
     DEF LauncherCall

LEMMA LookedPass ==
  ASSUME scan \in Pass, LiveHolders \subseteq Sessions, ScanLook
  PROVE  scan' \in Pass
<1>1. \A A \in SUBSET Sessions : [scan EXCEPT !.at = "tear", !.alive = A] \in Pass
  BY DEF Pass
<1>2. [scan EXCEPT !.at = "tear"] \in Pass
  BY DEF Pass
<1>3. QED BY <1>1, <1>2 DEF ScanLook

LEMMA ScanTypes ==
  ASSUME TypeOK, Scan
  PROVE  HostTypes' /\ StoreTypes' /\ ProcessTypes'
<1> USE TtlAssumption
    DEF TypeOK, HostTypes, StoreTypes, ProcessTypes, daemonVars, scanVars, hostVars,
        storeVars, launchVars, agentVars, clockVars, Left
<1>1. CASE ScanReclaim
  <2>1. scan'.dead \subseteq Sessions /\ scan' = [at |-> "look", dead |-> scan'.dead, alive |-> {}]
    BY <1>1 DEF ScanReclaim, Signals
  <2>2. scan' \in Pass
    BY <2>1 DEF Pass
  <2>3. QED BY <1>1, <2>2 DEF ScanReclaim
<1>2. CASE ScanLook
  <2>1. scan \in Pass
    BY <1>2 DEF ScanLook
  <2>2. LiveHolders \subseteq Sessions
    BY DEF LiveHolders, TrunkLive
  <2>3. scan' \in Pass
    BY <1>2, <2>1, <2>2, LookedPass
  <2>4. blinded' \subseteq Sessions
    BY <1>2, <2>2 DEF ScanLook
  <2>5. QED BY <1>2, <2>3, <2>4 DEF ScanLook
<1>3. ASSUME NEW s \in Sessions, ScanTear(s)
      PROVE  HostTypes' /\ StoreTypes' /\ ProcessTypes'
  <2>1. scan \in Pass
    BY <1>3 DEF ScanTear
  <2>2. scan' \in Pass
    BY <1>3, <2>1 DEF ScanTear, Pass
  <2>3. QED BY <1>3, <2>2 DEF ScanTear
<1>4. CASE ScanEnd
  BY <1>4 DEF ScanEnd
<1>5. QED BY <1>1, <1>2, <1>3, <1>4 DEF Scan

LEMMA OtherTypes ==
  ASSUME TypeOK, OthersMint \/ DaemonStops \/ DaemonStarts \/ Tick \/ UNCHANGED vars
  PROVE  HostTypes' /\ StoreTypes' /\ ProcessTypes'
<1> USE TtlAssumption, StopsAssumption
    DEF TypeOK, HostTypes, StoreTypes, ProcessTypes, daemonVars, scanVars, hostVars,
        storeVars, launchVars, agentVars, clockVars, Left
<1>1. CASE OthersMint
  BY <1>1 DEF OthersMint, PruneDead
<1>2. CASE DaemonStops
  <2>1. stops' \in 0..MaxStops
    BY <1>2 DEF DaemonStops
  <2>2. /\ conn' \in [Sessions -> {"own", "fresh"}]
        /\ \A s \in Sessions : pc'[s] \in {"blocked", pc[s]}
        /\ pc' = [s \in Sessions |-> pc'[s]]
    BY <1>2 DEF DaemonStops
  <2>3. pc' \in [Sessions -> {"absent", "new", "open", "provisioning", "provisioned", "minted",
                             "running", "exiting", "released", "gone", "blocked",
                             "astray", "dead"}]
    BY <2>2
  <2>4. QED BY <1>2, <2>1, <2>2, <2>3 DEF DaemonStops
<1>3. CASE DaemonStarts
  BY <1>3 DEF DaemonStarts
<1>4. CASE Tick
  <2>1. beat' \in [Sessions -> {None} \cup Left]
    BY <1>4 DEF Tick, Beating
  <2>2. trunk' \in [holder : Sessions \cup {None}, left : Left]
    BY <1>4 DEF Tick, TrunkLive
  <2>3. outage' \in 0..MaxOutage
    BY <1>4 DEF Tick
  <2>4. tokens' \in [Sessions -> {None, "young", "old"}]
    BY <1>4 DEF Tick
  <2>5. QED BY <1>4, <2>1, <2>2, <2>3, <2>4 DEF Tick
<1>5. CASE UNCHANGED vars
  BY <1>5 DEF vars
<1>6. QED BY <1>1, <1>2, <1>3, <1>4, <1>5

-----------------------------------------------------------------------------
(* The theorem                                                                  *)

LEMMA SandboxInitially == Init => TypeOK /\ Books
<1> SUFFICES ASSUME Init PROVE TypeOK /\ Books
  OBVIOUS
<1>1. TypeOK
  BY TtlAssumption, StopsAssumption DEF Init, TypeOK, Idle, Left
<1>2. \A w \in Workers : OwnedPorts(w) = {} /\ ~Running(w)
  BY DEF Init, OwnedPorts, Held, Got, Running
<1>3. JobsRun /\ SlugInv /\ PortInv
  BY <1>2 DEF Init, JobsRun, SlugInv, PortInv, Owns
<1>4. QED BY <1>1, <1>3, TypesAsStated DEF Books

LEMMA SandboxStep ==
  ASSUME TypeOK, Books, [Next]_vars
  PROVE  TypeOK' /\ Books'
<1>1. Books'
  BY BooksKept
<1>2. HostTypes' /\ StoreTypes' /\ ProcessTypes'
  <2>1. CASE \E w \in Workers : SubstrateStep(w)
    BY <2>1, SubstrateTypes
  <2>2. CASE OthersMint \/ DaemonStops \/ DaemonStarts \/ Tick \/ UNCHANGED vars
    BY <2>2, OtherTypes
  <2>3. CASE Scan
    BY <2>3, ScanTypes
  <2>4. QED BY <2>1, <2>2, <2>3, LauncherTypes DEF Next
<1>3. TypeOK'
  BY <1>1, <1>2 DEF Books, TypeOK, BookTypes, HostTypes, StoreTypes, ProcessTypes
<1>4. QED BY <1>1, <1>3

\* No two operations have one slug, no two boundaries one port, and the pool's books balance,
\* through rollbacks, teardowns beside provisions, failing grains and allocations, and restarts
\* (Substrate.Provision, Teardown, portAllocator).
THEOREM SandboxesApart == Spec => []SandboxInv
<1>1. TypeOK /\ Books => SandboxInv
  BY SlugsAsStated, PortsAsStated DEF Books, SandboxInv
<1>2. QED BY SandboxInitially, SandboxStep, <1>1, PTL DEF Spec

-----------------------------------------------------------------------------
(* What a session is through its launch and its end                            *)

\* Not launched yet, or in a launch that is under way or that failed: it has held no
\* lease, its agent has not run, and no pass of the scan can mean it.
PreRun == {"absent", "new", "open", "provisioning", "provisioned", "minted"}
Fresh(s) == pc[s] \in PreRun \/ (Running(s) /\ jobs[s].op \in {"provision", "bare", "rollback"})

Doomed(s) == (scan # Idle /\ s \in scan.dead) \/ (Running(Scanner) /\ jobs[Scanner].id = s)

Unmarked(s) ==
  /\ beat[s] = None /\ trunk.holder # s
  /\ ~agent[s] /\ work[s] = None /\ ~Doomed(s)

FreshInv == \A s \in Sessions : Fresh(s) => Unmarked(s)

\* Once the harvest is over, nothing is in the clone alone but what came after it.
HarvestInv ==
  \A w \in Workers :
    At(w, "clear") => work[jobs[w].id] # "clone" \/ jobs[w].id \in late

WorkInv == FreshInv /\ HarvestInv /\ NoWorkLost

\* A running session has its token, hence can re-attach, and a lease that outlasts
\* what may be left of an outage.
LeaseInv ==
  /\ up => outage = 0
  /\ \A s \in Sessions : pc[s] = "minted" => tokens[s] = "young"
  /\ \A s \in Sessions : pc[s] = "running" =>
       /\ tokens[s] # None /\ Beating(s)
       /\ ~up => beat[s] + outage > MaxOutage

\* The keepalive has had its round: no launcher's lease is shorter than an outage.
Renewed == \A s \in Sessions : pc[s] = "running" => beat[s] > MaxOutage

Sheltered(s) == tree[s] # None /\ state[s] /\ (tree[s] = "container" => box[s])

\* What a provision has built so far, and who a pass of the scan passes over.
BuiltInv ==
  /\ \A s \in Sessions : Running(s) /\ pc[s] = "provisioning" =>
       /\ jobs[s].at \in {"ports", "state", "commit"} =>
            tree[s] # None /\ (tree[s] = "container" => box[s])
       /\ jobs[s].at = "commit" => state[s]
  /\ \A s \in Sessions : pc[s] \in {"provisioned", "minted"} => Sheltered(s)

SparedInv ==
  \A s \in Sessions \ blinded : pc[s] = "running" =>
    /\ Running(Scanner) => jobs[Scanner].id # s
    /\ scan # Idle /\ scan.at = "tear" /\ s \in scan.dead => s \in scan.alive

-----------------------------------------------------------------------------
(* What an operation of the substrate leaves alone                             *)

LEMMA Domains ==
  ASSUME TypeOK
  PROVE  /\ DOMAIN jobs = Workers /\ Sessions \subseteq Workers
         /\ DOMAIN tree = Sessions /\ DOMAIN state = Sessions /\ DOMAIN box = Sessions
         /\ DOMAIN agent = Sessions /\ DOMAIN work = Sessions /\ DOMAIN pc = Sessions
         /\ DOMAIN beat = Sessions /\ DOMAIN tokens = Sessions
  BY DEF TypeOK, Workers

\* The operations that the grain takes part in.
LEMMA GrainOps ==
  ASSUME Books, NEW w \in Workers, At(w, "box") \/ At(w, "harvest") \/ At(w, "clear")
  PROVE  jobs[w].op \in {"rollback", "teardown", "orphan"}
  BY DEF Books, JobsRun, At, Running, Shape

LEMMA AfterGrainFrame ==
  ASSUME TypeOK, NEW w \in Workers, jobs[w].op \in {"rollback", "teardown", "orphan"},
         AfterGrain(w)
  PROVE  /\ \A v \in Workers : v # w => jobs'[v] = jobs[v]
         /\ \A s \in Sessions : s # jobs[w].id => pc'[s] = pc[s]
<1>1. CASE jobs[w].op = "rollback"
  BY <1>1, Domains DEF AfterGrain, Answer
<1>2. CASE jobs[w].op # "rollback"
  BY <1>2, Domains DEF AfterGrain, Goto
<1>3. QED BY <1>1, <1>2

\* What every step of the substrate leaves as it is.
SubstrateKeeps(w) ==
  /\ UNCHANGED <<up, grain, scan, blinded, beat, trunk, tokens, conn, outage, stops>>
  /\ \A s \in Sessions \ {jobs[w].id} : s \in late' <=> s \in late
  /\ \A v \in Workers : v # w => jobs'[v] = jobs[v]
  /\ \A s \in Sessions : s # jobs[w].id =>
       /\ tree'[s] = tree[s] /\ state'[s] = state[s] /\ box'[s] = box[s]
       /\ agent'[s] = agent[s] /\ work'[s] = work[s] /\ pc'[s] = pc[s]

\* A step of an operation touches nothing of another session, and of the launchers only
\* the one that waits for it.
LEMMA SubstrateFrame ==
  ASSUME TypeOK, Books, NEW w \in Workers, SubstrateStep(w)
  PROVE  Running(w) /\ jobs[w] \in Job /\ jobs[w].id \in Sessions /\ SubstrateKeeps(w)
<1>1. Running(w)
  BY DEF SubstrateStep, ProvisionGrain, AllocatePorts, ProvisionState, Commit, Unreserve, Undo,
     Wipe, RemoveWorktree, RemoveContainer, Harvest, RemoveClone, EndTeardown, At, Running
<1>2. jobs[w] \in Job /\ jobs[w].id \in Sessions
  BY <1>1, JobIsJob DEF Running, Books, BookTypes, Job
<1>3. w \in Sessions => jobs[w].id = w
  BY <1>1 DEF Books, JobsRun
<1> SUFFICES SubstrateKeeps(w)
  BY <1>1, <1>2
<1> USE Domains
    DEF SubstrateKeeps, daemonVars, scanVars, hostVars, storeVars, launchVars, agentVars, clockVars, Goto
<1>4. ASSUME w \in Sessions, ProvisionGrain(w)
      PROVE  SubstrateKeeps(w)
  BY <1>3, <1>4 DEF ProvisionGrain, CreateWorktree, CreateClone, GrainFails
<1>5. ASSUME w \in Sessions, AllocatePorts(w) \/ Unreserve(w) \/ ProvisionState(w)
      PROVE  SubstrateKeeps(w)
  <2>1. CASE AllocatePorts(w)
    BY <2>1 DEF AllocatePorts
  <2>2. CASE Unreserve(w)
    BY <2>2 DEF Unreserve
  <2>3. CASE ProvisionState(w)
    BY <1>3, <1>5, <2>3 DEF ProvisionState
  <2>4. QED BY <1>5, <2>1, <2>2, <2>3
<1>6. ASSUME w \in Sessions, Commit(w) \/ Undo(w)
      PROVE  SubstrateKeeps(w)
  <2>1. CASE Commit(w)
    BY <1>3, <1>6, <2>1 DEF Commit, Answer
  <2>2. CASE Undo(w)
    <3>1. /\ UNCHANGED <<up, grain, scan, blinded, tree, box, beat, trunk, tokens, conn, agent,
                        work, late, outage, stops>>
          /\ state' = state \/ state' = [state EXCEPT ![w] = FALSE]
          /\ \E j : jobs' = [jobs EXCEPT ![w] = j]
      BY <2>2 DEF Undo
    <3>2. pc' = pc \/ \E x : pc' = [pc EXCEPT ![w] = x]
      BY <2>2 DEF Undo, Answer
    <3>3. QED BY <1>3, <1>6, <3>1, <3>2
  <2>3. QED BY <1>6, <2>1, <2>2
<1>7. CASE Wipe(w)
  BY <1>2, <1>7 DEF Wipe
<1>8. CASE EndTeardown(w)
  BY <1>2, <1>8 DEF EndTeardown
<1>9. CASE RemoveWorktree(w)
  BY <1>2, <1>9, GrainOps, AfterGrainFrame DEF RemoveWorktree
<1>10. CASE RemoveClone(w)
  BY <1>2, <1>10, GrainOps, AfterGrainFrame DEF RemoveClone
<1>11. CASE RemoveContainer(w)
  BY <1>2, <1>11 DEF RemoveContainer
<1>12. CASE Harvest(w)
  <2>1. CASE AfterGrain(w) /\ UNCHANGED work
    BY <1>12, <2>1, GrainOps, AfterGrainFrame DEF Harvest
  <2>2. CASE ~(AfterGrain(w) /\ UNCHANGED work)
    BY <1>2, <1>12, <2>2 DEF Harvest, HarvestFails
  <2>3. QED BY <2>1, <2>2
<1>13. QED
  BY <1>1, <1>2, <1>4, <1>5, <1>6, <1>7, <1>8, <1>9, <1>10, <1>11, <1>12 DEF SubstrateStep

\* The kinds of operations that a launch goes through.
Launching == {"provision", "bare", "rollback"}

\* How a step of the substrate moves what it does not leave alone: an operation is of its
\* session to the end, a launch's operation was a launch's before, and nothing starts an
\* agent or takes its commits back to the clone.
LEMMA SubstrateMoves ==
  ASSUME TypeOK, Books, NEW w \in Workers, SubstrateStep(w)
  PROVE  LET s == jobs[w].id
         IN  /\ Running(w)' => /\ jobs'[w].id = s
                               /\ jobs'[w].op \in Launching => jobs[w].op \in Launching
             /\ \/ pc'[s] \in {pc[s], "blocked"}
                \/ /\ w = s /\ jobs[w].op = "provision" /\ jobs[w].at = "commit"
                   /\ pc[s] = "provisioning" /\ pc'[s] = "provisioned"
             /\ agent'[s] => agent[s]
             /\ work'[s] = work[s] \/ (work[s] = "clone" /\ work'[s] = "repo")
             /\ late' = late \/ work'[s] # "clone"
<1> DEFINE s == jobs[w].id
           Moves == /\ Running(w)' => /\ jobs'[w].id = s
                                      /\ jobs'[w].op \in Launching => jobs[w].op \in Launching
                    /\ \/ pc'[s] \in {pc[s], "blocked"}
                       \/ /\ w = s /\ jobs[w].op = "provision" /\ jobs[w].at = "commit"
                          /\ pc[s] = "provisioning" /\ pc'[s] = "provisioned"
                    /\ agent'[s] => agent[s]
                    /\ work'[s] = work[s] \/ (work[s] = "clone" /\ work'[s] = "repo")
                    /\ late' = late \/ work'[s] # "clone"
<1>1. Running(w) /\ jobs[w] \in Job /\ s \in Sessions
  BY SubstrateFrame
<1>2. /\ w \in Sessions => s = w
      /\ Shape(jobs[w])
      /\ DOMAIN jobs[w] = {"op", "id", "at", "got"}
  BY <1>1 DEF Books, JobsRun, Job
<1> SUFFICES Moves
  OBVIOUS
<1> USE Domains
    DEF daemonVars, scanVars, hostVars, storeVars, launchVars, agentVars, clockVars, Goto, Running, Launching
<1>3. ASSUME w \in Sessions, ProvisionGrain(w)
      PROVE  Moves
  <2>1. jobs[w].op = "provision"
    BY <1>2, <1>3 DEF ProvisionGrain, At, Shape
  <2>2. CASE GrainFails(w)
    BY <1>1, <1>2, <1>3, <2>1, <2>2 DEF ProvisionGrain, GrainFails
  <2>3. CASE Goto(w, "ports")
    BY <1>1, <1>2, <1>3, <2>1, <2>3 DEF ProvisionGrain
  <2>4. QED BY <1>3, <2>2, <2>3 DEF ProvisionGrain
<1>4. ASSUME w \in Sessions, AllocatePorts(w) \/ Unreserve(w) \/ ProvisionState(w)
      PROVE  Moves
  <2>1. CASE AllocatePorts(w)
    BY <1>1, <1>2, <2>1 DEF AllocatePorts
  <2>2. CASE Unreserve(w)
    BY <1>1, <1>2, <2>2 DEF Unreserve
  <2>3. CASE ProvisionState(w)
    BY <1>1, <1>2, <2>3 DEF ProvisionState
  <2>4. QED BY <1>4, <2>1, <2>2, <2>3
<1>5. ASSUME w \in Sessions, Commit(w)
      PROVE  Moves
  BY <1>1, <1>2, <1>5 DEF Commit, Answer, At, Shape
<1>6. ASSUME w \in Sessions, Undo(w)
      PROVE  Moves
  <2>1. jobs[w].op \in Launching
    BY <1>2, <1>6 DEF Undo, At, Shape
  <2>2. CASE jobs[w].op = "bare"
    BY <1>1, <1>2, <1>6, <2>2 DEF Undo, Answer, NoJob
  <2>3. CASE jobs[w].op # "bare"
    BY <1>1, <1>2, <1>6, <2>1, <2>3 DEF Undo
  <2>4. QED BY <2>2, <2>3
<1>7. CASE Wipe(w)
  BY <1>1, <1>2, <1>7 DEF Wipe
<1>8. CASE EndTeardown(w)
  BY <1>1, <1>8 DEF EndTeardown
<1>9. ASSUME AfterGrain(w), jobs[w].op \in {"rollback", "teardown", "orphan"}
      PROVE  /\ Running(w)' => jobs'[w].id = s /\ jobs'[w].op = jobs[w].op
             /\ pc'[s] \in {pc[s], "blocked"}
  <2>1. CASE jobs[w].op = "rollback"
    BY <1>1, <1>9, <2>1 DEF AfterGrain, Answer
  <2>2. CASE jobs[w].op # "rollback"
    <3>1. /\ UNCHANGED pc
          /\ \E a \in {"unlock", "wipeOrphan"} : jobs' = [jobs EXCEPT ![w].at = a]
      BY <1>9, <2>2 DEF AfterGrain
    <3>2. QED BY <1>1, <1>2, <3>1
  <2>3. QED BY <2>1, <2>2
<1>10. CASE RemoveWorktree(w)
  BY <1>1, <1>9, <1>10, GrainOps DEF RemoveWorktree
<1>11. CASE RemoveClone(w)
  BY <1>1, <1>9, <1>11, GrainOps DEF RemoveClone
<1>12. CASE RemoveContainer(w)
  BY <1>1, <1>2, <1>12 DEF RemoveContainer
<1>13. CASE Harvest(w)
  <2>1. CASE AfterGrain(w) /\ UNCHANGED work
    BY <1>1, <1>9, <1>13, <2>1, GrainOps DEF Harvest
  <2>2. CASE ~(AfterGrain(w) /\ UNCHANGED work)
    BY <1>1, <1>2, <1>13, <2>2 DEF Harvest, HarvestFails
  <2>3. QED BY <2>1, <2>2
<1>14. QED
  BY <1>3, <1>4, <1>5, <1>6, <1>7, <1>8, <1>10, <1>11, <1>12, <1>13 DEF SubstrateStep

LEMMA FreshSubstrate ==
  ASSUME TypeOK, Books, FreshInv, NEW w \in Workers, SubstrateStep(w)
  PROVE  FreshInv'
<1>1. /\ Running(w) /\ jobs[w].id \in Sessions /\ SubstrateKeeps(w)
      /\ w \in Sessions => jobs[w].id = w
      /\ Sessions \subseteq Workers
  BY SubstrateFrame DEF Books, JobsRun, Workers
<1> SUFFICES ASSUME NEW s \in Sessions, Fresh(s)' PROVE Unmarked(s)'
  BY DEF FreshInv
<1>2. Fresh(s)
  <2>1. CASE s # jobs[w].id
    BY <1>1, <2>1 DEF SubstrateKeeps, Fresh, Running
  <2>2. CASE s = jobs[w].id /\ pc'[s] \in PreRun
    BY <1>1, <2>2, SubstrateMoves DEF Fresh, PreRun, Running
  <2>3. CASE s = jobs[w].id /\ pc'[s] \notin PreRun
    <3>1. Running(s)' /\ jobs'[s].op \in Launching
      BY <2>3 DEF Fresh, Launching
    <3>2. Running(s) /\ jobs[s].op \in Launching
      BY <1>1, <3>1, SubstrateMoves DEF SubstrateKeeps, Running
    <3>3. QED BY <3>2 DEF Fresh, Launching
  <2>4. QED BY <2>1, <2>2, <2>3
<1>3. Unmarked(s)
  BY <1>2 DEF FreshInv
<1>4. ~agent'[s] /\ work'[s] = None
  BY <1>1, <1>3, SubstrateMoves, NamesAssumption DEF SubstrateKeeps, Unmarked
<1>5. ~Doomed(s)'
  BY <1>1, <1>3, SubstrateMoves DEF SubstrateKeeps, Unmarked, Doomed, Running, Workers
<1>6. QED BY <1>1, <1>3, <1>4, <1>5 DEF SubstrateKeeps, Unmarked

\* BeginTeardown, as far as it concerns who works for whom.
LEMMA BeginJob ==
  ASSUME TypeOK, NEW w \in Workers, NEW s \in Sessions, BeginTeardown(w, s)
  PROVE  \/ UNCHANGED <<jobs, live, reserving>>
         \/ /\ \A v \in Workers : v # w => jobs'[v] = jobs[v]
            /\ jobs'[w].id = s /\ jobs'[w].op \in {"teardown", "orphan"}
            /\ jobs'[w].at \in {"wipe", "box"}
<1>1. CASE live[s] # None
  BY <1>1, Domains DEF BeginTeardown
<1>2. CASE live[s] = None
  BY <1>2, Domains DEF BeginTeardown
<1>3. QED BY <1>1, <1>2

\* The launcher's own steps, and its agent's.
LauncherStep(s) ==
  \/ Open(s) \/ GoAstray(s) \/ LauncherCall(s) \/ Keepalive(s)
  \/ AgentStep(s)
  \/ LeaveAgent(s) \/ ReleaseOwnLeases(s) \/ Crash(s)

\* They touch nothing of another session but the grant of a trunk lease that is free, or
\* of a token that is dropped.
LEMMA LauncherFrame ==
  ASSUME TypeOK, NEW s \in Sessions, LauncherStep(s)
  PROVE  /\ UNCHANGED <<up, grain, scan, blinded, tree, state, box, kept, outage, stops>>
         /\ \A w \in Workers : w # s => jobs'[w] = jobs[w]
         /\ \A t \in Sessions : t # s =>
              /\ beat'[t] = beat[t] /\ agent'[t] = agent[t] /\ work'[t] = work[t]
              /\ pc'[t] = pc[t] /\ tokens'[t] \in {tokens[t], PruneDead(t)}
         /\ trunk'.holder \in {trunk.holder, None}
            \/ (trunk'.holder = s /\ agent[s] /\ UNCHANGED pc)
<1> USE Domains
    DEF daemonVars, scanVars, hostVars, storeVars, launchVars, agentVars, clockVars
<1>1. CASE Open(s) \/ GoAstray(s)
  BY <1>1 DEF Open, GoAstray
<1>2. CASE CallProvision(s)
  BY <1>2 DEF CallProvision, Reserve
<1>3. CASE CallMint(s)
  BY <1>3 DEF CallMint
<1>4. CASE CallAcquire(s)
  BY <1>4 DEF CallAcquire
<1>5. CASE CallTeardown(s)
  BY <1>5, BeginJob DEF CallTeardown, Workers
<1>6. CASE Keepalive(s)
  BY <1>6 DEF Keepalive, Renew, Reattach
<1>7. CASE AgentCommits(s)
  BY <1>7 DEF AgentCommits
<1>8. CASE AgentStep(s) /\ ~AgentCommits(s)
  BY <1>8 DEF AgentStep, AgentAttaches, AgentTakesTrunk, TrunkReleased, AgentClaims, ClaimsEnd
<1>9. CASE LeaveAgent(s) \/ Crash(s)
  BY <1>9 DEF LeaveAgent, Crash
<1>10. CASE ReleaseOwnLeases(s)
  BY <1>10 DEF ReleaseOwnLeases
<1>11. QED
  BY <1>1, <1>2, <1>3, <1>4, <1>5, <1>6, <1>7, <1>8, <1>9, <1>10 DEF LauncherStep, LauncherCall

\* Who makes a call has no operation under way, and a launcher that has one stays where it
\* is, or dies.
LEMMA LauncherMoves ==
  ASSUME TypeOK, Books, NEW s \in Sessions, LauncherStep(s)
  PROVE  \/ /\ ~Running(s)
            /\ Fresh(s)' => /\ pc[s] \in PreRun
                            /\ beat'[s] = beat[s] /\ agent'[s] = agent[s] /\ work'[s] = work[s]
                            /\ trunk' = trunk
         \/ AgentStep(s)
         \/ /\ pc'[s] = "dead" /\ UNCHANGED <<jobs, beat, trunk, agent, work>>
<1> USE Domains, CallerHasNoJob
    DEF daemonVars, scanVars, hostVars, storeVars, launchVars, agentVars, clockVars, Fresh, PreRun, Running
<1>1. CASE Open(s) \/ GoAstray(s)
  BY <1>1 DEF Open, GoAstray
<1>2. CASE CallProvision(s)
  BY <1>2 DEF CallProvision
<1>3. CASE CallMint(s)
  BY <1>3 DEF CallMint
<1>4. CASE CallAcquire(s)
  BY <1>4 DEF CallAcquire
<1>5. CASE CallTeardown(s)
  BY <1>5, BeginJob DEF CallTeardown, Workers
<1>6. CASE Keepalive(s)
  BY <1>6 DEF Keepalive, Renew, Reattach
<1>7. CASE LeaveAgent(s)
  BY <1>7 DEF LeaveAgent
<1>8. CASE Crash(s)
  BY <1>8 DEF Crash
<1>9. CASE ReleaseOwnLeases(s)
  BY <1>9 DEF ReleaseOwnLeases
<1>10. QED
  BY <1>1, <1>2, <1>3, <1>4, <1>5, <1>6, <1>7, <1>8, <1>9 DEF LauncherStep, LauncherCall

LEMMA FreshLauncher ==
  ASSUME TypeOK, Books, FreshInv, NEW s \in Sessions, LauncherStep(s)
  PROVE  FreshInv'
<1> SUFFICES ASSUME NEW t \in Sessions, Fresh(t)' PROVE Unmarked(t)'
  BY DEF FreshInv
<1>1. s \in Workers /\ t \in Workers /\ Scanner \in Workers /\ Scanner # s
  BY NamesAssumption DEF Workers
<1>2. Doomed(t)' <=> Doomed(t)
  BY <1>1, LauncherFrame DEF Doomed, Running
<1>3. CASE t # s
  <2>1. Unmarked(t)
    BY <1>1, <1>3, LauncherFrame DEF FreshInv, Fresh, Running
  <2>2. trunk'.holder # t
    BY <1>3, <2>1, LauncherFrame, NamesAssumption DEF Unmarked
  <2>3. QED BY <1>2, <1>3, <2>1, <2>2, LauncherFrame DEF Unmarked
<1>4. CASE t = s
  <2>1. CASE AgentStep(s)
    <3>1. /\ UNCHANGED <<pc, agent, jobs, beat>>
          /\ agent[s] \/ (work' = work /\ trunk'.holder \in {trunk.holder, None})
      BY <2>1
      DEF AgentStep, AgentCommits, AgentAttaches, AgentTakesTrunk, TrunkReleased, AgentClaims,
          ClaimsEnd, launchVars, storeVars, agentVars
    <3>2. Unmarked(s)
      BY <1>4, <3>1 DEF FreshInv, Fresh, Running
    <3>3. QED BY <1>2, <1>4, <3>1, <3>2, NamesAssumption DEF Unmarked
  <2>2. CASE ~AgentStep(s)
    <3>1. Fresh(s)
      BY <1>4, <2>2, LauncherMoves DEF Fresh, Running, PreRun
    <3>2. beat'[s] = beat[s] /\ agent'[s] = agent[s] /\ work'[s] = work[s] /\ trunk' = trunk
      BY <1>4, <2>2, LauncherMoves
    <3>3. QED BY <1>2, <1>4, <3>1, <3>2 DEF FreshInv, Unmarked
  <2>3. QED BY <2>1, <2>2
<1>5. QED BY <1>3, <1>4

LEMMA FreshScan ==
  ASSUME TypeOK, Books, FreshInv, Scan
  PROVE  FreshInv'
<1>1. UNCHANGED <<pc, agent, work>> /\ \A v \in Sessions : jobs'[v] = jobs[v]
  BY BeginJob, NamesAssumption
  DEF Scan, ScanReclaim, ScanLook, ScanTear, ScanEnd, launchVars, agentVars, Workers
<1> SUFFICES ASSUME NEW t \in Sessions, Fresh(t)' PROVE Unmarked(t)'
  BY DEF FreshInv
<1>2. Unmarked(t)
  BY <1>1 DEF FreshInv, Fresh, Running
<1>3. ~agent'[t] /\ work'[t] = None
  BY <1>1, <1>2 DEF Unmarked
<1>4. CASE ScanReclaim
  <2>1. beat'[t] = None /\ trunk'.holder # t
    BY <1>2, <1>4, NamesAssumption DEF ScanReclaim, Unmarked
  <2>2. t \notin scan'.dead
    BY <1>2, <1>4, NamesAssumption, TtlAssumption DEF ScanReclaim, Unmarked, Signals
  <2>3. UNCHANGED jobs
    BY <1>4 DEF ScanReclaim
  <2>4. QED BY <1>2, <1>3, <2>1, <2>2, <2>3 DEF Unmarked, Doomed, Running
<1>5. CASE ScanLook
  <2>1. scan'.dead = scan.dead /\ scan # Idle /\ UNCHANGED <<beat, trunk, jobs>>
    BY <1>5 DEF ScanLook, storeVars, TypeOK, Pass
  <2>2. QED BY <1>2, <1>3, <2>1 DEF Unmarked, Doomed, Running
<1>6. ASSUME NEW s \in Sessions, ScanTear(s)
      PROVE  Unmarked(t)'
  <2>1. /\ scan # Idle /\ s \in scan.dead /\ scan \in Pass
        /\ scan'.dead = scan.dead \ {s} /\ UNCHANGED <<beat, trunk>>
    BY <1>6 DEF ScanTear, storeVars, TypeOK, Pass
  <2>2. t # s
    BY <1>2, <2>1 DEF Unmarked, Doomed
  <2>3. jobs' = jobs \/ jobs'[Scanner].id = s
    BY <1>6, BeginJob DEF ScanTear, Workers
  <2>4. QED BY <1>2, <1>3, <2>1, <2>2, <2>3 DEF Unmarked, Doomed, Running
<1>7. CASE ScanEnd
  <2>1. scan' = Idle /\ UNCHANGED <<beat, trunk, jobs>>
    BY <1>7 DEF ScanEnd, storeVars
  <2>2. QED BY <1>2, <1>3, <2>1 DEF Unmarked, Doomed, Running
<1>8. QED BY <1>4, <1>5, <1>6, <1>7 DEF Scan

\* Time, and the daemon's stops and starts.
OtherStep == OthersMint \/ DaemonStops \/ DaemonStarts \/ Tick \/ UNCHANGED vars

LEMMA OtherFrame ==
  ASSUME TypeOK, OtherStep
  PROVE  /\ UNCHANGED <<tree, state, box, kept, agent, work, late, blinded>>
         /\ (jobs' = [w \in Workers |-> NoJob] /\ scan' = Idle) \/ UNCHANGED <<jobs, scan>>
         /\ \A s \in Sessions : /\ pc'[s] \in {pc[s], "blocked"}
                                /\ beat[s] = None => beat'[s] = None
         /\ trunk'.holder = trunk.holder
<1> USE DEF daemonVars, scanVars, hostVars, storeVars, launchVars, agentVars, clockVars
<1>1. CASE OthersMint \/ DaemonStarts
  BY <1>1 DEF OthersMint, DaemonStarts
<1>2. CASE DaemonStops
  BY <1>2 DEF DaemonStops
<1>3. CASE Tick
  BY <1>3 DEF Tick, Beating, TypeOK
<1>4. CASE UNCHANGED vars
  BY <1>4 DEF vars
<1>5. QED BY <1>1, <1>2, <1>3, <1>4 DEF OtherStep

LEMMA FreshOthers ==
  ASSUME TypeOK, FreshInv, OtherStep
  PROVE  FreshInv'
<1> SUFFICES ASSUME NEW t \in Sessions, Fresh(t)' PROVE Unmarked(t)'
  BY DEF FreshInv
<1>1. t \in Workers /\ Scanner \in Workers
  BY DEF Workers
<1>2. Unmarked(t)
  BY <1>1, OtherFrame DEF FreshInv, Fresh, PreRun, Running
<1>3. ~Doomed(t)'
  BY <1>1, <1>2, OtherFrame DEF Unmarked, Doomed, Running
<1>4. QED BY <1>2, <1>3, OtherFrame DEF Unmarked

-----------------------------------------------------------------------------
(* The agents' commits                                                         *)

\* What is at clear has come from the harvest just now.
LEMMA HarvestMoves ==
  ASSUME TypeOK, Books, NEW w \in Workers, SubstrateStep(w)
  PROVE  At(w, "clear")' =>
           \/ work'[jobs[w].id] # "clone"
           \/ tree[jobs[w].id] = None /\ UNCHANGED <<work, late>>
<1> DEFINE s == jobs[w].id
           Came == At(w, "clear")' =>
                     work'[s] # "clone" \/ (tree[s] = None /\ UNCHANGED <<work, late>>)
<1>1. Running(w) /\ s \in Sessions /\ DOMAIN jobs[w] = {"op", "id", "at", "got"}
  BY SubstrateFrame DEF Job
<1>2. ASSUME NEW a \in Steps \ {"clear"}, jobs' = [jobs EXCEPT ![w].at = a]
      PROVE  Came
  BY <1>1, <1>2, Domains DEF At
<1>3. ASSUME NEW j, j = NoJob \/ j.at # "clear", jobs' = [jobs EXCEPT ![w] = j]
      PROVE  Came
  BY <1>3, Domains DEF At
<1>4. ASSUME AfterGrain(w), jobs[w].op \in {"rollback", "teardown", "orphan"}
      PROVE  Came
  <2>1. CASE jobs[w].op = "rollback"
    BY <1>3, <1>4, <2>1 DEF AfterGrain
  <2>2. CASE jobs[w].op # "rollback"
    <3>1. Goto(w, "unlock") \/ Goto(w, "wipeOrphan")
      BY <1>4, <2>2 DEF AfterGrain
    <3>2. QED BY <1>2, <3>1 DEF Goto, Steps
  <2>3. QED BY <2>1, <2>2
<1>5. CASE RemoveWorktree(w) \/ RemoveClone(w)
  BY <1>4, <1>5, GrainOps DEF RemoveWorktree, RemoveClone
<1>6. CASE RemoveContainer(w)
  BY <1>1, <1>6, Domains DEF RemoveContainer, At, Goto
<1>7. CASE Harvest(w)
  <2>1. CASE AfterGrain(w)
    BY <1>4, <1>7, <2>1, GrainOps DEF Harvest
  <2>2. CASE ~AfterGrain(w)
    BY <1>1, <1>7, <2>2, Domains DEF Harvest, HarvestFails, At, Goto
  <2>3. QED BY <2>1, <2>2
<1>8. CASE ProvisionGrain(w)
  <2>1. CASE GrainFails(w)
    BY <1>1, <2>1, Domains DEF GrainFails, At
  <2>2. CASE Goto(w, "ports")
    BY <1>2, <2>2 DEF Goto, Steps
  <2>3. QED BY <1>8, <2>1, <2>2 DEF ProvisionGrain
<1>9. CASE AllocatePorts(w)
  <2>1. CASE \E P \in PortChoices : jobs' = [jobs EXCEPT ![w].at = "state", ![w].got = P]
    BY <1>1, <2>1, Domains DEF At
  <2>2. CASE Goto(w, "unreserve")
    BY <1>2, <2>2 DEF Goto, Steps
  <2>3. QED BY <1>9, <2>1, <2>2 DEF AllocatePorts
<1>10. CASE ProvisionState(w) \/ Unreserve(w)
  BY <1>2, <1>10 DEF ProvisionState, Unreserve, Goto, Steps
<1>11. CASE Commit(w) \/ EndTeardown(w)
  BY <1>3, <1>11 DEF Commit, EndTeardown
<1>12. CASE Undo(w)
  <2> DEFINE j == IF jobs[w].op = "bare" THEN NoJob
                  ELSE [op |-> "rollback", id |-> w, at |-> "box", got |-> {}]
  <2>1. jobs' = [jobs EXCEPT ![w] = j]
    BY <1>12 DEF Undo
  <2>2. j = NoJob \/ j.at # "clear"
    OBVIOUS
  <2>3. QED BY <1>3, <2>1, <2>2
<1>13. CASE Wipe(w)
  BY <1>1, <1>13, Domains DEF Wipe, At
<1>14. QED
  BY <1>5, <1>6, <1>7, <1>8, <1>9, <1>10, <1>11, <1>12, <1>13 DEF SubstrateStep

\* Who makes and who removes a boundary.
LEMMA HostMoves ==
  ASSUME TypeOK, Books, NEW w \in Workers, SubstrateStep(w)
  PROVE  LET s == jobs[w].id
         IN  \/ UNCHANGED <<tree, box>>
             \/ w = s /\ At(w, "grain") /\ jobs[w].op = "provision"
             \/ /\ UNCHANGED box /\ tree[s] # "container"
             \/ /\ UNCHANGED box /\ At(w, "clear")
             \/ /\ UNCHANGED tree /\ At(w, "box") /\ box' = [box EXCEPT ![s] = FALSE]
<1>1. Running(w) /\ jobs[w].id \in Sessions /\ (w \in Sessions => jobs[w].id = w)
      /\ Shape(jobs[w])
  BY SubstrateFrame DEF Books, JobsRun
<1> USE DEF hostVars, daemonVars
<1>2. CASE w \in Sessions /\ ProvisionGrain(w)
  BY <1>1, <1>2 DEF ProvisionGrain, At, Shape
<1>3. CASE AllocatePorts(w) \/ ProvisionState(w) \/ Commit(w) \/ Unreserve(w) \/ Undo(w)
  BY <1>3 DEF AllocatePorts, ProvisionState, Commit, Unreserve, Undo
<1>4. CASE Wipe(w) \/ Harvest(w) \/ EndTeardown(w)
  BY <1>4 DEF Wipe, Harvest, EndTeardown
<1>5. CASE RemoveWorktree(w)
  <2>1. UNCHANGED box
    BY <1>5 DEF RemoveWorktree
  <2>2. tree[jobs[w].id] = "container" => UNCHANGED tree
    BY <1>1, <1>5 DEF RemoveWorktree, TypeOK
  <2>3. QED BY <2>1, <2>2
<1>6. CASE RemoveContainer(w)
  BY <1>6 DEF RemoveContainer
<1>7. CASE RemoveClone(w)
  BY <1>7 DEF RemoveClone
<1>8. QED
  BY <1>2, <1>3, <1>4, <1>5, <1>6, <1>7 DEF SubstrateStep

LEMMA WorkSubstrate ==
  ASSUME TypeOK, Books, WorkInv, NEW w \in Workers, SubstrateStep(w)
  PROVE  HarvestInv' /\ NoWorkLost'
<1> DEFINE s == jobs[w].id
<1>1. /\ Running(w) /\ s \in Sessions /\ SubstrateKeeps(w)
      /\ Sessions \subseteq Workers /\ (w \in Sessions => s = w)
  BY SubstrateFrame DEF Books, JobsRun, Workers
<1>2. work'[s] = "clone" => work[s] = "clone"
  BY SubstrateMoves
<1>3. w = s /\ jobs[w].op = "provision" =>
        Unmarked(s) /\ \A v \in Workers : v # w => ~(Running(v) /\ jobs[v].id = s)
  <2>1. w = s /\ jobs[w].op = "provision" => Unmarked(s)
    BY <1>1 DEF WorkInv, FreshInv, Fresh
  <2>2. \A v \in Sessions : Running(v) => jobs[v].id = v
    BY DEF Books, JobsRun, Workers
  <2>3. QED BY <2>1, <2>2 DEF Unmarked, Doomed, Workers
<1>4. NoWorkLost'
  <2> SUFFICES ASSUME NEW t \in Sessions, t \notin late', work'[t] = "clone"
               PROVE  tree'[t] = "container"
    BY DEF NoWorkLost
  <2>0. t \notin late
    BY <1>1, SubstrateMoves DEF SubstrateKeeps
  <2>1. work[t] = "clone" /\ tree[t] = "container"
    BY <1>1, <1>2, <2>0 DEF SubstrateKeeps, WorkInv, NoWorkLost
  <2>2. CASE t # s
    BY <1>1, <2>1, <2>2 DEF SubstrateKeeps
  <2>3. CASE t = s
    <3>1. ~(w = s /\ jobs[w].op = "provision")
      BY <1>3, <2>1, <2>3, NamesAssumption DEF Unmarked
    <3>2. ~At(w, "clear")
      BY <2>0, <2>1, <2>3 DEF WorkInv, HarvestInv
    <3>3. QED BY <2>1, <2>3, <3>1, <3>2, HostMoves
  <2>4. QED BY <2>2, <2>3
<1>5. HarvestInv'
  <2> SUFFICES ASSUME NEW v \in Workers, At(v, "clear")', work'[jobs'[v].id] = "clone"
               PROVE  jobs'[v].id \in late'
    BY DEF HarvestInv
  <2>1. CASE v # w
    <3>1. jobs'[v] = jobs[v] /\ At(v, "clear")
      BY <1>1, <2>1 DEF SubstrateKeeps, At
    <3>2. jobs[v].id \in Sessions
      BY <3>1, JobAt DEF Steps
    <3>3. work[jobs[v].id] = "clone"
      BY <1>1, <1>2, <3>1, <3>2 DEF SubstrateKeeps
    <3>4. jobs[v].id \in late
      BY <3>1, <3>3 DEF WorkInv, HarvestInv
    <3>5. QED BY <1>1, <3>1, <3>2, <3>4, SubstrateMoves DEF SubstrateKeeps
  <2>2. CASE v = w
    <3>1. jobs'[w].id = s
      BY <2>2, SubstrateMoves DEF At, Running
    <3>2. tree[s] = None /\ UNCHANGED <<work, late>>
      BY <2>2, <3>1, HarvestMoves
    <3>3. QED BY <1>1, <2>2, <3>1, <3>2, NamesAssumption DEF WorkInv, NoWorkLost
  <2>3. QED BY <2>1, <2>2
<1>6. QED BY <1>4, <1>5

LEMMA WorkLauncher ==
  ASSUME TypeOK, Books, WorkInv, NEW s \in Sessions, LauncherStep(s)
  PROVE  HarvestInv' /\ NoWorkLost'
<1>1. UNCHANGED <<tree, box>> /\ s \in Workers
      /\ \A w \in Workers : w # s => jobs'[w] = jobs[w]
  BY LauncherFrame DEF Workers
<1>2. UNCHANGED jobs \/ jobs'[s].at # "clear"
  <2>1. CASE CallProvision(s)
    BY <1>1, <2>1, Domains DEF CallProvision, Reserve
  <2>2. CASE CallTeardown(s)
    BY <1>1, <2>2, BeginJob DEF CallTeardown
  <2>3. CASE ~(CallProvision(s) \/ CallTeardown(s))
    BY <2>3 DEF LauncherStep, LauncherCall, Open, GoAstray, CallMint, CallAcquire, Keepalive,
       Renew, Reattach, AgentStep, AgentCommits, AgentAttaches, AgentTakesTrunk,
       TrunkReleased, AgentClaims, ClaimsEnd, LeaveAgent, ReleaseOwnLeases, Crash
  <2>4. QED BY <2>1, <2>2, <2>3
<1>3. \A v \in Workers : At(v, "clear")' =>
        At(v, "clear") /\ jobs'[v] = jobs[v] /\ jobs[v].id \in Sessions
  BY <1>1, <1>2, JobAt DEF At, Steps
<1>4. CASE AgentCommits(s)
  <2>1. /\ work' = [work EXCEPT ![s] = work'[s]]
        /\ work'[s] = "clone" => tree[s] = "container"
        /\ late' = IF \E w \in Workers : At(w, "clear") /\ jobs[w].id = s
                   THEN late \cup {s} ELSE late
    BY <1>4, Domains DEF AgentCommits
  <2>2. NoWorkLost'
    BY <1>1, <2>1, Domains DEF WorkInv, NoWorkLost
  <2>3. HarvestInv'
    BY <1>3, <2>1, Domains DEF WorkInv, HarvestInv
  <2>4. QED BY <2>2, <2>3
<1>5. CASE ~AgentCommits(s)
  <2>1. UNCHANGED <<work, late>>
    BY <1>5 DEF LauncherStep, LauncherCall, Open, GoAstray, CallProvision, CallMint, CallAcquire,
       CallTeardown, Keepalive, Renew, Reattach, AgentStep, AgentAttaches, AgentTakesTrunk,
       TrunkReleased, AgentClaims, ClaimsEnd, LeaveAgent, ReleaseOwnLeases, Crash, agentVars
  <2>2. QED BY <1>1, <1>3, <2>1 DEF WorkInv, HarvestInv, NoWorkLost
<1>6. QED BY <1>4, <1>5

LEMMA WorkOthers ==
  ASSUME TypeOK, Books, WorkInv, Scan \/ OtherStep
  PROVE  HarvestInv' /\ NoWorkLost'
<1>1. UNCHANGED <<tree, work, late>>
  BY OtherFrame DEF Scan, ScanReclaim, ScanLook, ScanTear, ScanEnd, hostVars, agentVars
<1>2. \A v \in Workers : At(v, "clear")' => jobs'[v] = jobs[v]
  <2>1. CASE OtherStep
    BY <2>1, OtherFrame DEF At
  <2>2. CASE \E s \in Sessions : ScanTear(s)
    BY <2>2, BeginJob DEF ScanTear, At, Workers
  <2>3. CASE ScanReclaim \/ ScanLook \/ ScanEnd
    BY <2>3 DEF ScanReclaim, ScanLook, ScanEnd
  <2>4. QED BY <2>1, <2>2, <2>3 DEF Scan
<1>3. QED BY <1>1, <1>2 DEF WorkInv, HarvestInv, NoWorkLost, At

LEMMA WorkStep ==
  ASSUME TypeOK, Books, WorkInv, [Next]_vars
  PROVE  WorkInv'
<1>1. FreshInv
  BY DEF WorkInv
<1>2. FreshInv'
  BY <1>1, FreshSubstrate, FreshLauncher, FreshScan, FreshOthers DEF Next, LauncherStep, OtherStep
<1>3. HarvestInv' /\ NoWorkLost'
  BY WorkSubstrate, WorkLauncher, WorkOthers DEF Next, LauncherStep, OtherStep
<1>4. QED BY <1>2, <1>3 DEF WorkInv

-----------------------------------------------------------------------------
(* The leases of the running                                                   *)

\* A running session whose lease is live can re-attach, so that the clock waits for the
\* keepalive's round.
LEMMA NotHelpless ==
  ASSUME LeaseInv, NEW s \in Sessions, pc[s] = "running"
  PROVE  ~Helpless(s)
  BY DEF LeaseInv, Helpless, Attachable, Resolve

LEMMA BeatIs ==
  ASSUME TypeOK, NEW s \in Sessions, Beating(s)
  PROVE  beat[s] \in Nat /\ beat[s] > 0
<1>1. beat[s] \in 0..Ttl
  BY DEF TypeOK, Left, Beating
<1>2. QED BY <1>1, TtlAssumption DEF Beating

LEMMA LeaseLauncher ==
  ASSUME TypeOK, Books, LeaseInv, NEW s \in Sessions, LauncherStep(s)
  PROVE  LeaseInv'
<1> USE Domains DEF daemonVars, scanVars, hostVars, storeVars, launchVars, agentVars, clockVars
<1>1. UNCHANGED <<up, outage>>
  BY LauncherFrame
<1>2. \A t \in Sessions : t # s => pc'[t] = pc[t] /\ beat'[t] = beat[t]
  BY LauncherFrame
<1>3. \A t \in Sessions : t # s =>
        /\ pc[t] = "minted" => tokens'[t] = "young"
        /\ pc[t] = "running" => tokens'[t] # None
  BY LauncherFrame, NamesAssumption DEF LeaseInv, PruneDead
<1>4. /\ pc'[s] = "minted" => tokens'[s] = "young"
      /\ pc'[s] = "running" =>
           /\ tokens'[s] # None /\ Beating(s)'
           /\ ~up => beat'[s] + outage > MaxOutage
  <2>1. CASE CallMint(s)
    BY <2>1 DEF CallMint
  <2>2. CASE CallAcquire(s)
    BY <2>2, TtlAssumption, NamesAssumption DEF CallAcquire, Serving, LeaseInv, Beating
  <2>3. CASE Renew(s)
    BY <2>3, TtlAssumption, NamesAssumption DEF Renew, Serving, LeaseInv, Beating
  <2>4. CASE Open(s) \/ GoAstray(s) \/ LeaveAgent(s) \/ ReleaseOwnLeases(s) \/ Crash(s)
    BY <2>4 DEF Open, GoAstray, LeaveAgent, ReleaseOwnLeases, Crash
  <2>5. CASE CallProvision(s) \/ CallTeardown(s)
    BY <2>5 DEF CallProvision, Reserve, CallTeardown
  <2>6. CASE Reattach(s) \/ AgentStep(s)
    BY <2>6 DEF Reattach, AgentStep, AgentCommits, AgentAttaches, AgentTakesTrunk,
       TrunkReleased, AgentClaims, ClaimsEnd, LeaseInv, Beating
  <2>7. QED
    BY <2>1, <2>2, <2>3, <2>4, <2>5, <2>6 DEF LauncherStep, LauncherCall, Keepalive
<1>5. QED BY <1>1, <1>2, <1>3, <1>4 DEF LeaseInv, Beating

LEMMA LeaseTick ==
  ASSUME TypeOK, LeaseInv, Tick
  PROVE  LeaseInv'
<1>1. UNCHANGED <<up, pc>> /\ outage \in Nat /\ MaxOutage \in Nat
  BY TtlAssumption DEF Tick, daemonVars, TypeOK
<1>2. up => outage' = 0
  BY DEF Tick, LeaseInv
<1>3. \A s \in Sessions : pc[s] # "minted"
  BY DEF Tick
<1> SUFFICES ASSUME NEW s \in Sessions, pc[s] = "running"
             PROVE  /\ tokens'[s] # None /\ Beating(s)'
                    /\ ~up => beat'[s] + outage' > MaxOutage
  BY <1>1, <1>2, <1>3 DEF LeaseInv
<1>4. tokens[s] # None /\ Beating(s) /\ beat[s] \in Nat /\ beat[s] > 0
  BY BeatIs DEF LeaseInv
<1>5. tokens'[s] # None
  BY <1>4, NamesAssumption DEF Tick
<1>6. beat'[s] = beat[s] - 1
  BY <1>4 DEF Tick
<1>7. CASE up
  <2>1. beat[s] > MaxOutage + 1
    BY <1>7, NotHelpless DEF Tick
  <2>2. beat'[s] \in Nat /\ beat'[s] > 0
    BY <1>1, <1>4, <1>6, <2>1
  <2>3. beat'[s] # None
    BY <1>4, <1>6, <2>2, TtlAssumption, NamesAssumption DEF TypeOK, Left
  <2>4. QED BY <1>5, <1>7, <2>2, <2>3 DEF Beating
<1>8. CASE ~up
  <2>1. outage < MaxOutage /\ outage' = outage + 1
    BY <1>8 DEF Tick
  <2>2. beat[s] + outage > MaxOutage
    BY <1>8 DEF LeaseInv
  <2>3. beat'[s] \in Nat /\ beat'[s] > 0 /\ beat'[s] + outage' > MaxOutage
    BY <1>1, <1>4, <1>6, <2>1, <2>2
  <2>4. beat'[s] # None
    BY <1>4, <1>6, <2>3, TtlAssumption, NamesAssumption DEF TypeOK, Left
  <2>5. QED BY <1>5, <2>3, <2>4 DEF Beating
<1>9. QED BY <1>7, <1>8

\* Every step keeps the leases of the running alive, but for a daemon that stops before
\* the keepalive has had its round.
LEMMA LeaseStep ==
  ASSUME TypeOK, Books, LeaseInv, [Next]_vars, DaemonStops => Renewed
  PROVE  LeaseInv'
<1> USE DEF daemonVars, scanVars, hostVars, storeVars, launchVars, agentVars, clockVars
<1>1. CASE \E w \in Workers : SubstrateStep(w)
  <2>1. PICK w \in Workers : SubstrateStep(w)
    BY <1>1
  <2>2. /\ UNCHANGED <<up, outage, beat, tokens>>
        /\ \A s \in Sessions : pc'[s] \in {"minted", "running"} => pc'[s] = pc[s]
    <3>1. CASE w \in Sessions /\ Commit(w)
      BY <3>1, Domains DEF Commit, Answer
    <3>2. CASE ~(w \in Sessions /\ Commit(w))
      <4>1. jobs[w].at # "commit"
        BY <2>1, <3>2, SubstrateFrame
        DEF SubstrateStep, ProvisionGrain, AllocatePorts, ProvisionState, Unreserve, Undo, Wipe,
            RemoveWorktree, RemoveContainer, Harvest, RemoveClone, EndTeardown, At
      <4>2. QED BY <2>1, <4>1, SubstrateFrame, SubstrateMoves DEF SubstrateKeeps
    <3>3. QED BY <3>1, <3>2
  <2>3. QED BY <2>2 DEF LeaseInv, Beating
<1>2. CASE ScanReclaim
  <2>1. UNCHANGED <<up, outage, tokens, pc>>
    BY <1>2 DEF ScanReclaim
  <2>2. \A s \in Sessions : Beating(s) => beat'[s] = beat[s]
    BY <1>2 DEF ScanReclaim, Beating
  <2>3. QED BY <2>1, <2>2 DEF LeaseInv, Beating
<1>3. CASE ScanLook \/ (\E s \in Sessions : ScanTear(s)) \/ ScanEnd
  <2>1. UNCHANGED <<up, outage, tokens, pc, beat>>
    BY <1>3 DEF ScanLook, ScanTear, ScanEnd
  <2>2. QED BY <2>1 DEF LeaseInv, Beating
<1>4. CASE OthersMint
  BY <1>4, NamesAssumption DEF OthersMint, LeaseInv, Beating, PruneDead
<1>5. CASE DaemonStops
  <2>1. /\ up /\ ~up' /\ UNCHANGED <<outage, tokens, beat>>
        /\ \A s \in Sessions : pc'[s] \in {"minted", "running"} => pc'[s] = pc[s]
    BY <1>5 DEF DaemonStops
  <2>2. Renewed
    BY <1>5
  <2>3. \A s \in Sessions : pc[s] = "running" => beat[s] + outage > MaxOutage
    <3> SUFFICES ASSUME NEW s \in Sessions, pc[s] = "running"
                 PROVE  beat[s] + outage > MaxOutage
      OBVIOUS
    <3>1. outage = 0 /\ beat[s] \in Nat
      BY <2>1, BeatIs DEF LeaseInv
    <3>2. QED BY <2>2, <3>1 DEF Renewed
  <2>4. QED BY <2>1, <2>3 DEF LeaseInv, Beating
<1>6. CASE DaemonStarts
  BY <1>6 DEF DaemonStarts, LeaseInv, Beating
<1>7. CASE UNCHANGED vars
  BY <1>7 DEF vars, LeaseInv, Beating
<1>8. QED
  BY <1>1, <1>2, <1>3, <1>4, <1>5, <1>6, <1>7, LeaseTick, LeaseLauncher
  DEF Next, Scan, LauncherStep

-----------------------------------------------------------------------------
(* The boundaries of the running                                               *)

\* The steps of a launch build what the next one counts on.
LEMMA BuildMoves ==
  ASSUME TypeOK, Books, BuiltInv, NEW s \in Sessions, SubstrateStep(s), pc[s] = "provisioning"
  PROVE  /\ Running(s)' =>
              /\ jobs'[s].at \in {"ports", "state", "commit"} =>
                   tree'[s] # None /\ (tree'[s] = "container" => box'[s])
              /\ jobs'[s].at = "commit" => state'[s]
         /\ pc'[s] = "provisioned" => Sheltered(s)'
<1>1. s \in Workers /\ Running(s) /\ jobs[s].id = s /\ Shape(jobs[s])
      /\ DOMAIN jobs[s] = {"op", "id", "at", "got"}
  BY SubstrateFrame DEF Books, JobsRun, Workers, Job
<1>2. /\ jobs[s].at \in {"ports", "state", "commit"} =>
           tree[s] # None /\ (tree[s] = "container" => box[s])
      /\ jobs[s].at = "commit" => state[s]
  BY <1>1 DEF BuiltInv
<1> USE Domains DEF hostVars, daemonVars, launchVars, Goto, At, Running
<1>3. CASE ProvisionGrain(s)
  <2>1. pc' = pc
    BY <1>3 DEF ProvisionGrain
  <2>2. CASE GrainFails(s)
    BY <1>1, <2>1, <2>2 DEF GrainFails
  <2>3. CASE CreateWorktree(s) /\ Goto(s, "ports")
    BY <1>1, <2>1, <2>3, NamesAssumption DEF CreateWorktree
  <2>4. CASE CreateClone(s) /\ Goto(s, "ports")
    BY <1>1, <2>1, <2>4, NamesAssumption DEF CreateClone
  <2>5. QED BY <1>3, <2>2, <2>3, <2>4 DEF ProvisionGrain
<1>4. CASE AllocatePorts(s)
  <2>1. UNCHANGED <<pc, tree, box, state>> /\ jobs[s].at = "ports"
        /\ jobs'[s].at \in {"state", "unreserve"}
    BY <1>1, <1>4 DEF AllocatePorts
  <2>2. QED BY <1>2, <2>1
<1>5. CASE ProvisionState(s)
  BY <1>1, <1>2, <1>5 DEF ProvisionState
<1>6. CASE Commit(s)
  BY <1>1, <1>2, <1>6 DEF Commit, Sheltered, Answer, NoJob
<1>7. CASE Unreserve(s)
  BY <1>1, <1>7 DEF Unreserve
<1>8. CASE Undo(s)
  <2>1. pc'[s] \in {pc[s], "blocked"}
    BY <1>1, <1>8 DEF Undo, Answer
  <2>2. Running(s)' => jobs'[s].at = "box"
    BY <1>1, <1>8 DEF Undo
  <2>3. QED BY <2>1, <2>2
<1>9. CASE Wipe(s) \/ RemoveContainer(s) \/ EndTeardown(s)
  BY <1>1, <1>9 DEF Wipe, RemoveContainer, EndTeardown
<1>10. ASSUME AfterGrain(s), jobs[s].op \in {"rollback", "teardown", "orphan"}
       PROVE  /\ pc'[s] # "provisioned"
              /\ Running(s)' => jobs'[s].at \notin {"ports", "state", "commit"}
  <2>1. CASE jobs[s].op = "rollback"
    BY <1>1, <1>10, <2>1 DEF AfterGrain, Answer, NoJob
  <2>2. CASE jobs[s].op # "rollback"
    <3>1. \E a \in {"unlock", "wipeOrphan"} : UNCHANGED pc /\ jobs' = [jobs EXCEPT ![s].at = a]
      BY <1>10, <2>2 DEF AfterGrain
    <3>2. QED BY <1>1, <3>1
  <2>3. QED BY <2>1, <2>2
<1>11. CASE RemoveWorktree(s) \/ RemoveClone(s)
  BY <1>1, <1>10, <1>11, GrainOps DEF RemoveWorktree, RemoveClone
<1>12. CASE Harvest(s)
  <2>1. CASE AfterGrain(s)
    BY <1>1, <1>10, <1>12, <2>1, GrainOps DEF Harvest
  <2>2. CASE ~AfterGrain(s)
    BY <1>1, <1>12, <2>2 DEF Harvest, HarvestFails
  <2>3. QED BY <2>1, <2>2
<1>13. QED
  BY <1>3, <1>4, <1>5, <1>6, <1>7, <1>8, <1>9, <1>11, <1>12 DEF SubstrateStep

\* What makes a boundary outlast its agent.
KeepInv == BuiltInv /\ SparedInv /\ KeptWhileRunning

\* Nobody but the launch itself works on a boundary until it is gone.
LEMMA LeftAlone ==
  ASSUME TypeOK, Books, FreshInv, SparedInv, NEW w \in Workers, SubstrateStep(w),
         NEW s \in Sessions, w # s,
         \/ Fresh(s)
         \/ s \notin blinded /\ pc[s] = "running"
  PROVE  /\ tree'[s] = tree[s] /\ state'[s] = state[s] /\ box'[s] = box[s]
         /\ pc'[s] = pc[s] /\ jobs'[s] = jobs[s]
<1>1. jobs[w].id # s
  <2>1. CASE w \in Sessions
    BY <2>1, SubstrateFrame DEF Books, JobsRun
  <2>2. CASE w = Scanner
    BY <2>2, SubstrateFrame DEF FreshInv, Unmarked, Doomed, SparedInv
  <2>3. QED BY <2>1, <2>2 DEF Workers
<1>2. QED BY <1>1, SubstrateFrame DEF SubstrateKeeps, Workers

LEMMA KeepSubstrate ==
  ASSUME TypeOK, Books, FreshInv, KeepInv, NEW w \in Workers, SubstrateStep(w)
  PROVE  KeepInv'
<1>1. /\ UNCHANGED <<scan, blinded>> /\ Running(w) /\ jobs[w].id \in Sessions
      /\ \A v \in Workers : v # w => jobs'[v] = jobs[v]
      /\ \A s \in Sessions : s # jobs[w].id => pc'[s] = pc[s]
      /\ w \in Sessions => jobs[w].id = w
      /\ Running(w)' => jobs'[w].id = jobs[w].id
      /\ Scanner \in Workers /\ Sessions \subseteq Workers
  BY SubstrateFrame, SubstrateMoves DEF SubstrateKeeps, Books, JobsRun, Workers
<1>2. \A s \in Sessions : pc'[s] \in {pc[s], "blocked"} \/ (w = s /\ pc[s] = "provisioning"
                                                         /\ pc'[s] = "provisioned")
  BY <1>1, SubstrateMoves
<1>3. ASSUME NEW s \in Sessions, Running(s)', pc'[s] = "provisioning"
      PROVE  /\ jobs'[s].at \in {"ports", "state", "commit"} =>
                  tree'[s] # None /\ (tree'[s] = "container" => box'[s])
             /\ jobs'[s].at = "commit" => state'[s]
  <2>1. pc[s] = "provisioning"
    BY <1>2, <1>3
  <2>2. CASE w = s
    BY <1>3, <2>1, <2>2, BuildMoves DEF KeepInv
  <2>3. CASE w # s /\ jobs'[s].at \in {"ports", "state", "commit"}
    <3>1. Running(s) /\ jobs[s] = jobs'[s]
      BY <1>1, <1>3, <2>3 DEF Running
    <3>2. Fresh(s)
      BY <1>1, <2>3, <3>1 DEF Books, JobsRun, Shape, Fresh
    <3>3. QED BY <2>1, <2>3, <3>1, <3>2, LeftAlone DEF KeepInv, BuiltInv
  <2>4. QED BY <2>2, <2>3
<1>4. ASSUME NEW s \in Sessions, pc'[s] \in {"provisioned", "minted"}
      PROVE  Sheltered(s)'
  <2>1. CASE w = s /\ pc[s] = "provisioning"
    BY <1>4, <2>1, <1>2, BuildMoves DEF KeepInv
  <2>2. CASE ~(w = s /\ pc[s] = "provisioning")
    <3>1. pc[s] = pc'[s]
      BY <1>2, <1>4, <2>2
    <3>2. w # s
      BY <1>1, <1>4, <3>1 DEF Books, JobsRun
    <3>3. Fresh(s)
      BY <1>4, <3>1 DEF Fresh, PreRun
    <3>4. QED BY <1>4, <3>1, <3>2, <3>3, LeftAlone DEF KeepInv, BuiltInv, Sheltered
  <2>3. QED BY <2>1, <2>2
<1>5. ASSUME NEW s \in Sessions \ blinded', pc'[s] = "running"
      PROVE  /\ Running(Scanner)' => jobs'[Scanner].id # s
             /\ scan' # Idle /\ scan'.at = "tear" /\ s \in scan'.dead => s \in scan'.alive
             /\ Sheltered(s)'
  <2>1. pc[s] = "running" /\ s \notin blinded
    BY <1>1, <1>2, <1>5
  <2>2. w # s
    BY <1>1, <2>1 DEF Books, JobsRun
  <2>3. Sheltered(s)'
    BY <2>1, <2>2, LeftAlone DEF KeepInv, KeptWhileRunning, Sheltered
  <2>4. Running(Scanner)' => jobs'[Scanner].id # s
    BY <1>1, <2>1 DEF KeepInv, SparedInv, Running
  <2>5. QED BY <1>1, <2>1, <2>3, <2>4 DEF KeepInv, SparedInv
<1>6. QED BY <1>3, <1>4, <1>5 DEF KeepInv, BuiltInv, SparedInv, KeptWhileRunning, Sheltered

LEMMA KeepLauncher ==
  ASSUME TypeOK, Books, FreshInv, KeepInv, NEW s \in Sessions, LauncherStep(s)
  PROVE  KeepInv'
<1>1. /\ UNCHANGED <<scan, blinded, tree, state, box>>
      /\ \A w \in Workers : w # s => jobs'[w] = jobs[w]
      /\ \A t \in Sessions : t # s => pc'[t] = pc[t]
      /\ s \in Workers /\ Scanner \in Workers /\ Scanner # s /\ Sessions \subseteq Workers
  BY LauncherFrame, NamesAssumption DEF Workers
<1>2. /\ UNCHANGED jobs \/ jobs'[s].at \notin {"ports", "state", "commit"}
      /\ pc'[s] = "provisioning" => pc[s] = "provisioning" \/ jobs'[s].at = "grain"
      /\ pc'[s] \in {"provisioned", "minted"} => pc[s] \in {"provisioned", "minted"}
      /\ pc'[s] = "running" => pc[s] \in {"minted", "running"}
  <2> USE Domains DEF launchVars
  <2>1. CASE CallProvision(s)
    BY <1>1, <2>1 DEF CallProvision, Reserve
  <2>2. CASE CallTeardown(s)
    BY <1>1, <2>2, BeginJob DEF CallTeardown
  <2>3. CASE Open(s) \/ GoAstray(s) \/ CallMint(s) \/ CallAcquire(s)
    BY <2>3 DEF Open, GoAstray, CallMint, CallAcquire
  <2>4. CASE Keepalive(s) \/ AgentStep(s)
    BY <2>4 DEF Keepalive, Renew, Reattach, AgentStep, AgentCommits, AgentAttaches, AgentTakesTrunk,
       TrunkReleased, AgentClaims, ClaimsEnd
  <2>5. CASE LeaveAgent(s) \/ ReleaseOwnLeases(s) \/ Crash(s)
    BY <2>5 DEF LeaveAgent, ReleaseOwnLeases, Crash
  <2>6. QED BY <2>1, <2>2, <2>3, <2>4, <2>5 DEF LauncherStep, LauncherCall
<1>3. BuiltInv'
  BY <1>1, <1>2 DEF KeepInv, BuiltInv, Running, Sheltered
<1>4. KeptWhileRunning'
  BY <1>1, <1>2 DEF KeepInv, KeptWhileRunning, BuiltInv, Sheltered
<1>5. SparedInv'
  <2>1. pc[s] = "minted" => ~Doomed(s)
    BY DEF FreshInv, Fresh, PreRun, Unmarked
  <2>2. QED BY <1>1, <1>2, <2>1 DEF KeepInv, SparedInv, Running, Doomed
<1>6. QED BY <1>3, <1>4, <1>5 DEF KeepInv

LEMMA KeepScan ==
  ASSUME TypeOK, Books, FreshInv, KeepInv, StaysAlive, Scan
  PROVE  KeepInv'
<1>1. UNCHANGED <<pc, tree, state, box>> /\ \A v \in Sessions : jobs'[v] = jobs[v]
  BY BeginJob, NamesAssumption
  DEF Scan, ScanReclaim, ScanLook, ScanTear, ScanEnd, launchVars, hostVars, Workers
<1>2. blinded \subseteq blinded'
  BY DEF Scan, ScanReclaim, ScanLook, ScanTear, ScanEnd
<1>3. BuiltInv' /\ KeptWhileRunning'
  BY <1>1, <1>2 DEF KeepInv, BuiltInv, KeptWhileRunning, Sheltered, Running
<1>4. CASE ScanReclaim
  <2>1. scan'.at = "look" /\ UNCHANGED <<jobs, blinded>>
    BY <1>4 DEF ScanReclaim
  <2>2. QED BY <1>1, <1>3, <2>1 DEF KeepInv, SparedInv, Running
<1>5. CASE ScanLook
  <2>1. UNCHANGED jobs /\ scan \in Pass
    BY <1>5 DEF ScanLook, TypeOK
  <2>2. \A s \in Sessions : pc[s] = "running" => s \in LiveHolders
    BY DEF StaysAlive, LiveHolders
  <2>3. CASE scan' = [scan EXCEPT !.at = "tear", !.alive = LiveHolders]
    <3>1. scan'.alive = LiveHolders
      BY <2>1, <2>3 DEF Pass
    <3>2. QED BY <1>1, <1>2, <1>3, <2>1, <2>2, <3>1 DEF KeepInv, SparedInv, Running
  <2>4. CASE scan' = [scan EXCEPT !.at = "tear"] /\ blinded' = blinded \cup (scan.dead \cap LiveHolders)
    <3>1. scan'.dead = scan.dead
      BY <2>1, <2>4 DEF Pass
    <3>2. QED BY <1>1, <1>3, <2>1, <2>2, <2>4, <3>1 DEF KeepInv, SparedInv, Running
  <2>5. QED BY <1>5, <2>3, <2>4 DEF ScanLook
<1>6. ASSUME NEW t \in Sessions, ScanTear(t)
      PROVE  KeepInv'
  <2>1. /\ scan # Idle /\ scan.at = "tear" /\ t \in scan.dead /\ scan \in Pass
        /\ scan'.at = "tear" /\ scan'.dead = scan.dead \ {t} /\ scan'.alive = scan.alive
        /\ UNCHANGED blinded
    BY <1>6 DEF ScanTear, TypeOK, Pass
  <2>2. CASE t \in scan.alive
    <3>1. UNCHANGED jobs
      BY <1>6, <2>2 DEF ScanTear, Spared
    <3>2. QED BY <1>1, <1>3, <2>1, <3>1 DEF KeepInv, SparedInv, Running
  <2>3. CASE t \notin scan.alive
    <3>1. jobs' = jobs \/ jobs'[Scanner].id = t
      BY <1>6, <2>3, BeginJob DEF ScanTear, Spared, Workers
    <3>2. t \in blinded \/ pc[t] # "running"
      BY <2>1, <2>3 DEF KeepInv, SparedInv
    <3>3. QED BY <1>1, <1>3, <2>1, <3>1, <3>2 DEF KeepInv, SparedInv, Running
  <2>4. QED BY <2>2, <2>3
<1>7. CASE ScanEnd
  <2>1. scan' = Idle /\ UNCHANGED <<jobs, blinded>>
    BY <1>7 DEF ScanEnd
  <2>2. QED BY <1>1, <1>3, <2>1 DEF KeepInv, SparedInv, Running
<1>8. QED BY <1>4, <1>5, <1>6, <1>7 DEF Scan

LEMMA KeepOthers ==
  ASSUME TypeOK, KeepInv, OtherStep
  PROVE  KeepInv'
<1>1. Scanner \in Workers /\ Sessions \subseteq Workers
  BY DEF Workers
<1>2. BuiltInv' /\ KeptWhileRunning'
  BY <1>1, OtherFrame DEF KeepInv, BuiltInv, KeptWhileRunning, Sheltered, Running
<1>3. SparedInv'
  BY <1>1, OtherFrame DEF KeepInv, SparedInv, Running
<1>4. QED BY <1>2, <1>3 DEF KeepInv

LEMMA KeepStep ==
  ASSUME TypeOK, Books, FreshInv, KeepInv, StaysAlive, [Next]_vars
  PROVE  KeepInv'
  BY KeepSubstrate, KeepLauncher, KeepScan, KeepOthers DEF Next, LauncherStep, OtherStep

-----------------------------------------------------------------------------
(* The theorems                                                                *)

LEMMA SessionsInitially == Init => WorkInv /\ LeaseInv /\ KeepInv
<1> SUFFICES ASSUME Init PROVE WorkInv /\ LeaseInv /\ KeepInv
  OBVIOUS
<1>1. \A w \in Workers : ~Running(w) /\ \A a \in Steps : ~At(w, a)
  BY DEF Init, Running, At
<1>2. WorkInv
  BY <1>1, NamesAssumption
  DEF Init, WorkInv, FreshInv, HarvestInv, NoWorkLost, Unmarked, Doomed, Workers, Steps
<1>3. LeaseInv
  BY DEF Init, LeaseInv
<1>4. KeepInv
  BY <1>1 DEF Init, KeepInv, BuiltInv, SparedInv, KeptWhileRunning, Workers
<1>5. QED BY <1>2, <1>3, <1>4

LEMMA SandboxAlways == Spec => [](TypeOK /\ Books /\ WorkInv)
<1>1. Init => TypeOK /\ Books /\ WorkInv
  BY SandboxInitially, SessionsInitially
<1>2. TypeOK /\ Books /\ WorkInv /\ [Next]_vars => (TypeOK /\ Books /\ WorkInv)'
  BY SandboxStep, WorkStep
<1>3. QED BY <1>1, <1>2, PTL DEF Spec

\* Commits that are in a clone alone are never removed with it, whoever tears the boundary
\* down, how often the daemon stops and whichever grain it starts with, but those made after
\* the harvest by an agent whose container could not be removed
\* (containerGrain.remove, ReclaimOrphan, Provision's rollback).
THEOREM CommitsSurvive == Spec => []NoWorkLost
<1>1. TypeOK /\ Books /\ WorkInv => NoWorkLost
  BY DEF WorkInv
<1>2. QED BY <1>1, SandboxAlways, PTL

\* Where the keepalive has its round between two outages, a launcher that is up never loses
\* its session's lease: neither a restart, nor a prune of the tokens, nor a launch beside
\* it takes what it needs to renew (keepalive, recoverSession, attachHandler).
THEOREM LeasesOutlast == Spec /\ [][DaemonStops => Renewed]_vars => []StaysAlive
<1>1. LeaseInv => StaysAlive
  BY DEF LeaseInv, StaysAlive
<1>2. TypeOK /\ Books /\ WorkInv /\ LeaseInv /\ [Next]_vars /\ [DaemonStops => Renewed]_vars
      => LeaseInv'
  <2>1. CASE UNCHANGED vars
    BY <2>1 DEF vars, daemonVars, launchVars, storeVars, agentVars, clockVars, LeaseInv, Beating
  <2>2. CASE ~UNCHANGED vars
    BY <2>2, LeaseStep
  <2>3. QED BY <2>1, <2>2
<1>3. Init => LeaseInv
  BY SessionsInitially
<1>4. QED BY <1>1, <1>2, <1>3, SandboxAlways, PTL DEF Spec

\* A daemon that has never been away finds every lease fresh.
FirstStop == stops = 0 => up /\ Renewed

LEMMA FirstStopStep ==
  ASSUME TypeOK, Books, LeaseInv, FirstStop, [Next]_vars
  PROVE  FirstStop'
<1> USE Domains, TtlAssumption
    DEF daemonVars, scanVars, hostVars, storeVars, launchVars, agentVars, clockVars
<1>1. CASE \E w \in Workers : SubstrateStep(w)
  <2>1. PICK w \in Workers : SubstrateStep(w)
    BY <1>1
  <2>2. /\ UNCHANGED <<up, beat, stops>>
        /\ \A s \in Sessions : pc'[s] = "running" => pc[s] = "running"
    BY <2>1, SubstrateFrame, SubstrateMoves DEF SubstrateKeeps
  <2>3. QED BY <2>2 DEF FirstStop, Renewed
<1>2. ASSUME NEW s \in Sessions, LauncherStep(s)
      PROVE  FirstStop'
  <2>1. UNCHANGED <<up, stops>>
    BY <1>2, LauncherFrame
  <2>2. \A t \in Sessions : t # s => pc'[t] = pc[t] /\ beat'[t] = beat[t]
    BY <1>2, LauncherFrame
  <2>3. pc'[s] = "running" => beat'[s] = Ttl \/ (pc[s] = "running" /\ beat'[s] = beat[s])
    <3>1. CASE CallAcquire(s) \/ Renew(s)
      BY <3>1 DEF CallAcquire, Renew
    <3>2. CASE ~(CallAcquire(s) \/ Renew(s))
      BY <1>2, <3>2
      DEF LauncherStep, LauncherCall, Keepalive, Open, GoAstray, CallProvision, Reserve, CallMint,
          CallTeardown, Reattach, AgentStep, AgentCommits, AgentAttaches, AgentTakesTrunk,
       TrunkReleased, AgentClaims, ClaimsEnd, LeaveAgent, ReleaseOwnLeases, Crash
    <3>3. QED BY <3>1, <3>2
  <2>4. QED BY <2>1, <2>2, <2>3 DEF FirstStop, Renewed
<1>3. CASE ScanReclaim
  <2>1. UNCHANGED <<up, stops, pc>>
    BY <1>3 DEF ScanReclaim
  <2>2. \A s \in Sessions : Beating(s) => beat'[s] = beat[s]
    BY <1>3 DEF ScanReclaim, Beating
  <2>3. QED BY <2>1, <2>2 DEF FirstStop, Renewed, LeaseInv
<1>4. CASE ScanLook \/ (\E s \in Sessions : ScanTear(s)) \/ ScanEnd
  BY <1>4 DEF ScanLook, ScanTear, ScanEnd, FirstStop, Renewed
<1>5. CASE OthersMint \/ UNCHANGED vars
  BY <1>5 DEF OthersMint, vars, FirstStop, Renewed
<1>6. CASE DaemonStops
  BY <1>6 DEF DaemonStops, TypeOK, FirstStop
<1>7. CASE DaemonStarts
  BY <1>7 DEF DaemonStarts, FirstStop
<1>8. CASE Tick
  <2>1. UNCHANGED <<up, stops, pc>>
    BY <1>8 DEF Tick
  <2>2. ASSUME NEW s \in Sessions, pc[s] = "running", up
        PROVE  beat'[s] > MaxOutage
    <3>1. beat[s] > MaxOutage + 1
      BY <1>8, <2>2, NotHelpless DEF Tick
    <3>2. Beating(s) /\ beat[s] \in Nat
      BY <2>2, BeatIs DEF LeaseInv
    <3>3. beat'[s] = beat[s] - 1
      BY <1>8, <3>2 DEF Tick
    <3>4. QED BY <3>1, <3>2, <3>3
  <2>3. QED BY <2>1, <2>2 DEF FirstStop, Renewed
<1>9. QED
  BY <1>1, <1>2, <1>3, <1>4, <1>5, <1>6, <1>7, <1>8 DEF Next, Scan, LauncherStep

\* In particular through one restart, wherever it falls.
THEOREM OneRestart == ASSUME MaxStops <= 1 PROVE Spec => []StaysAlive
<1>1. LeaseInv => StaysAlive
  BY DEF LeaseInv, StaysAlive
<1>2. TypeOK /\ Books /\ WorkInv /\ LeaseInv /\ FirstStop /\ [Next]_vars
      => LeaseInv' /\ FirstStop'
  <2> SUFFICES ASSUME TypeOK, Books, LeaseInv, FirstStop, [Next]_vars
               PROVE  LeaseInv' /\ FirstStop'
    OBVIOUS
  <2>1. DaemonStops => Renewed
    BY StopsAssumption DEF DaemonStops, TypeOK, FirstStop
  <2>2. QED BY <2>1, LeaseStep, FirstStopStep
<1>3. Init => LeaseInv /\ FirstStop
  BY SessionsInitially DEF Init, FirstStop, Renewed
<1>4. QED BY <1>1, <1>2, <1>3, SandboxAlways, PTL DEF Spec

\* As long as its lease is alive, the boundary of a running session stays whole: no pass of
\* the scan, no late teardown and no rollback takes it from under its agent, unless the pass
\* could not read who is alive (Recoverer.Scan, Substrate.Teardown).
THEOREM AgentsKeepTheirBoundary == Spec /\ []StaysAlive => []KeptWhileRunning
<1>1. KeepInv => KeptWhileRunning
  BY DEF KeepInv
<1>2. TypeOK /\ Books /\ WorkInv /\ KeepInv /\ StaysAlive /\ [Next]_vars => KeepInv'
  BY KeepStep DEF WorkInv
<1>3. Init => KeepInv
  BY SessionsInitially
<1>4. QED BY <1>1, <1>2, <1>3, SandboxAlways, PTL DEF Spec

\* Hence through any number of restarts, where the keepalive has its round between two.
THEOREM BoundariesOutlast == Spec /\ [][DaemonStops => Renewed]_vars => []KeptWhileRunning
  BY LeasesOutlast, AgentsKeepTheirBoundary, PTL

\* And through one restart, wherever it falls.
THEOREM OneRestartSpares == ASSUME MaxStops <= 1 PROVE Spec => []KeptWhileRunning
  BY OneRestart, AgentsKeepTheirBoundary, PTL
==============================================================================
