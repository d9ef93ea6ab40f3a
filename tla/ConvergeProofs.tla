---------------------------- MODULE ConvergeProofs ----------------------------
(* Why the merges into the checkout take turns and lose nothing (Converge), for *)
(* any number of agents, commands and commits.  ConvergeInv is not inductive:   *)
(* that a conductor's report is true depends on what its guards saw still being *)
(* so when it merges, and that a despawn may remove a clone on what it checked. *)
(* MergeInv adds who is doing what (JobInv), whose the lease is when it is      *)
(* adrift (LeaseInv), where copies of an agent's commits can be (CopyInv), what *)
(* a conductor's guards have established (GuardInv) and what a despawn's check  *)
(* has (DespawnInv).                                                            *)
EXTENDS Converge, TLAPS

-----------------------------------------------------------------------------
(* Who is doing what *)

Active(c) == job[c].at \notin {"idle", "done"}
ConductorSteps == {"fetch", "guard", "gate", "wait", "recheck", "merge", "release"}
IntegrateSteps == {"wait", "fetch", "merge", "release"}
DespawnSteps == {"look", "check", "remove", "branch"}

\* A conductor works for its own boundary, whose agent has left and whose launcher waits;
\* a despawn is of a boundary that has no launcher; only clones are fetched from.
ConductorOK(b) ==
  /\ job[b].do = "converge" /\ job[b].id = b /\ job[b].at \in ConductorSteps
  /\ life[b] = "exited"
CommandOK(h) ==
  \/ job[h].do = "integrate" /\ job[h].at \in IntegrateSteps
  \/ /\ job[h].do = "despawn" /\ job[h].at \in DespawnSteps
     /\ life[job[h].id] \in {"spawned", "left"}
JobOK(c) ==
  Active(c) =>
    /\ job[c].at = "fetch" => grain[job[c].id] = "container"
    /\ c \in Boundaries => ConductorOK(c)
    /\ c \in Hands => CommandOK(c)
JobInv == \A c \in Clients : JobOK(c)

\* The lease is adrift exactly when it is held and its holder is not in its section.
LeaseInv == UnderLease /\ (adrift => lease # Nil /\ ~InSection(lease))

\* Where copies of an agent's commits are: none is ahead of the agent, a clone is never
\* behind it, and a worktree's branch is not either while it exists.
CopyOK(b) ==
  /\ \A t \in Heads : has[t][b] <= made[b]
  /\ ref[b] = Nil \/ ref[b] <= made[b]
  /\ grain[b] = "container" => clone[b] = made[b]
  /\ grain[b] = "worktree" => ref[b] \in {Nil, made[b]}
  /\ grain[b] = "worktree" /\ life[b] \in {"launched", "exited"} => ref[b] = made[b]
CopyInv == \A b \in Boundaries : CopyOK(b)

\* What a conductor has found out still holds when it merges.
GuardOK(b) ==
  /\ Looked(b) /\ b \notin moved => head = Target
  /\ job[b].at = "guard" \/ Looked(b) => ref[b] = made[b]
  /\ outcome[b] = "converged" => life[b] \in {"exited", "left"}
GuardInv == \A b \in Boundaries : GuardOK(b)

\* A boundary that can lose its clone and keep its commits.
Safe(b) == made[b] = 0 \/ ref[b] = made[b] \/ \E t \in Heads : has[t][b] = made[b]
Exempt(b) == \E why \in {"forced", "stale"} \cup (IF grain[b] = "container" THEN {"late"} ELSE {}) :
               <<b, why>> \in waived

\* A despawn that has checked may remove.
DespawnInv ==
  \A h \in Hands :
    /\ job[h].at \in {"remove", "branch"} /\ job[h].force => <<job[h].id, "forced">> \in waived
    /\ job[h].at = "remove" => Safe(job[h].id) \/ Exempt(job[h].id)

MergeInv ==
  JobInv /\ LeaseInv /\ CopyInv /\ GuardInv /\ ConvergedIsOnTarget /\ DespawnInv /\ NothingDiscarded

-----------------------------------------------------------------------------
(* What a step does to the jobs *)

Jobs == [Clients -> Job \cup {NoJob, [at |-> "done"]}]

\* A process that has something to do has all the fields of a job.
LEMMA ActiveHasJob ==
  ASSUME job \in Jobs, NEW c \in Clients, Active(c)
  PROVE  job[c] \in Job
BY DEF Jobs, Active, NoJob

\* Going on to a step changes the step, of one process.
LEMMA GotoEffect ==
  ASSUME job \in Jobs, NEW c \in Clients, NEW s \in Steps, Active(c), Goto(c, s)
  PROVE  /\ job' \in Jobs
         /\ job'[c].at = s /\ job'[c].do = job[c].do /\ job'[c].id = job[c].id
         /\ job'[c].saw = job[c].saw /\ job'[c].force = job[c].force
         /\ \A d \in Clients \ {c} : job'[d] = job[d]
<1>1. job[c] \in Job
  BY ActiveHasJob
<1>2. [job[c] EXCEPT !.at = s] \in Job
  BY <1>1 DEF Job
<1>3. job' = [job EXCEPT ![c] = [job[c] EXCEPT !.at = s]]
  BY DEF Goto
<1>4. DOMAIN job = Clients
  BY DEF Jobs
<1>5. job'[c] = [job[c] EXCEPT !.at = s] /\ \A d \in Clients \ {c} : job'[d] = job[d]
  BY <1>3, <1>4
<1>6. job' \in Jobs
  BY <1>2, <1>3 DEF Jobs
<1>7. DOMAIN job[c] = {"do", "id", "at", "saw", "force"}
  BY <1>1 DEF Job
<1>8. /\ job'[c].at = s /\ job'[c].do = job[c].do /\ job'[c].id = job[c].id
      /\ job'[c].saw = job[c].saw /\ job'[c].force = job[c].force
  BY <1>5, <1>7
<1> QED
  BY <1>5, <1>6, <1>8

\* Being through changes the job of one process.
LEMMA DoneEffect ==
  ASSUME job \in Jobs, NEW c \in Clients, Done(c)
  PROVE  /\ job' \in Jobs
         /\ job'[c].at = "done"
         /\ \A d \in Clients \ {c} : job'[d] = job[d]
BY DEF Done, Jobs

\* So does beginning one.
LEMMA BeginEffect ==
  ASSUME job \in Jobs, NEW c \in Clients, NEW j \in Job, job' = [job EXCEPT ![c] = j]
  PROVE  /\ job' \in Jobs
         /\ job'[c] = j
         /\ \A d \in Clients \ {c} : job'[d] = job[d]
BY DEF Jobs

\* Looking notes a commit as well.
LEMMA LookEffect ==
  ASSUME job \in Jobs, NEW c \in Clients, Active(c), NEW n \in Commits \cup {Nil},
         job' = [job EXCEPT ![c].at = "check", ![c].saw = n]
  PROVE  /\ job' \in Jobs
         /\ job'[c].at = "check" /\ job'[c].do = job[c].do /\ job'[c].id = job[c].id
         /\ job'[c].saw = n /\ job'[c].force = job[c].force
         /\ \A d \in Clients \ {c} : job'[d] = job[d]
<1> DEFINE mid == [job EXCEPT ![c].at = "check"]
           here == [job[c] EXCEPT !.at = "check"]
<1>1. job[c] \in Job
  BY ActiveHasJob
<1>2. DOMAIN job[c] = {"do", "id", "at", "saw", "force"} /\ DOMAIN job = Clients
  BY <1>1 DEF Job, Jobs
<1>3. /\ DOMAIN here = {"do", "id", "at", "saw", "force"}
      /\ here.at = "check" /\ here.do = job[c].do /\ here.id = job[c].id
      /\ here.force = job[c].force
  BY <1>2
<1>4. mid = [job EXCEPT ![c] = here] /\ mid[c] = here /\ DOMAIN mid = Clients
  BY <1>2
<1>5. job' = [mid EXCEPT ![c].saw = n]
  OBVIOUS
<1>6. job' = [mid EXCEPT ![c] = [here EXCEPT !.saw = n]]
  BY <1>4, <1>5
<1> HIDE DEF here
<1>7. /\ DOMAIN job' = Clients /\ job'[c] = [here EXCEPT !.saw = n]
      /\ \A d \in Clients \ {c} : job'[d] = job[d]
  BY <1>2, <1>4, <1>6
<1>8. /\ job'[c].at = "check" /\ job'[c].do = job[c].do /\ job'[c].id = job[c].id
      /\ job'[c].saw = n /\ job'[c].force = job[c].force
  BY <1>3, <1>7
<1>9. [here EXCEPT !.saw = n] \in Job
  BY <1>1 DEF here, Job, Steps
<1>10. job' \in Jobs
  BY <1>6, <1>9 DEF Jobs, here
<1> QED
  BY <1>7, <1>8, <1>10

-----------------------------------------------------------------------------
(* The steps are typed *)

LEMMA ClientFacts ==
  /\ Boundaries \subseteq Clients /\ Hands \subseteq Clients
  /\ Nil \notin Clients /\ Nil \notin Commits
  /\ Boundaries \cap Hands = {}
BY ClientsAssumption DEF Clients, Commits

\* A step of process c leaves the jobs of the others alone.
OneJob(c) == job' \in Jobs /\ \A d \in Clients \ {c} : job'[d] = job[d]

LEMMA JobsAgents ==
  ASSUME job \in Jobs, NEW b \in Boundaries,
         AgentCommits(b) \/ AgentExits(b) \/ AgentLeaves(b) \/ LauncherTeardown(b)
  PROVE  OneJob(b)
<1>1. b \in Clients
  BY ClientFacts
<1>2. CASE AgentExits(b)
  <2>1. \A at \in Steps : [do |-> "converge", id |-> b, saw |-> Nil, force |-> FALSE,
                           at |-> at] \in Job
    BY DEF Job
  <2>2. PICK at \in Steps : job' = [job EXCEPT ![b] =
           [do |-> "converge", id |-> b, saw |-> Nil, force |-> FALSE, at |-> at]]
    BY <1>2 DEF AgentExits, Steps
  <2> QED
    BY <1>1, <2>1, <2>2, BeginEffect DEF OneJob
<1>3. CASE AgentCommits(b) \/ AgentLeaves(b) \/ LauncherTeardown(b)
  BY <1>3 DEF AgentCommits, AgentLeaves, LauncherTeardown, OneJob
<1> QED
  BY <1>2, <1>3

LEMMA JobsConductor ==
  ASSUME job \in Jobs, NEW b \in Boundaries, ConductorStep(b)
  PROVE  OneJob(b)
<1>1. b \in Clients
  BY ClientFacts
<1>2. Active(b) /\ (Done(b) \/ \E s \in Steps : Goto(b, s))
  BY DEF ConductorStep, ConvergeFetch, ConvergeGuard, ConvergeGate, ConvergeRecheck, Active,
         Steps
<1> QED
  BY <1>1, <1>2, GotoEffect, DoneEffect DEF OneJob

LEMMA JobsMerge ==
  ASSUME job \in Jobs, NEW c \in Clients, MergeStep(c) \/ Killed(c)
  PROVE  OneJob(c)
<1>1. CASE Wait(c)
  <2>1. AfterGrant(c) \in Steps
    BY DEF AfterGrant, Steps
  <2>2. Active(c) /\ (Done(c) \/ Goto(c, AfterGrant(c)))
    BY <1>1 DEF Wait, Acquire, GiveUp, Active
  <2> QED
    BY <2>1, <2>2, GotoEffect, DoneEffect DEF OneJob
<1>2. CASE Merge(c)
  <2>1. Active(c) /\ Goto(c, "release") /\ "release" \in Steps
    BY <1>2 DEF Merge, Active, Steps
  <2> QED
    BY <2>1, GotoEffect DEF OneJob
<1>3. CASE Release(c) \/ Killed(c)
  BY <1>3, DoneEffect DEF Release, Killed, OneJob
<1> QED
  BY <1>1, <1>2, <1>3 DEF MergeStep

LEMMA JobsHand ==
  ASSUME job \in Jobs, ref \in [Boundaries -> Commits \cup {Nil}], NEW h \in Hands,
         HandStep(h) \/ \E b \in Boundaries : Integrate(h, b) \/ Despawn(h, b)
  PROVE  OneJob(h)
<1>1. h \in Clients
  BY ClientFacts
<1>2. CASE \E b \in Boundaries : Integrate(h, b) \/ Despawn(h, b)
  <2>1. PICK b \in Boundaries, do \in {"integrate", "despawn"}, at \in Steps, force \in BOOLEAN :
          job' = [job EXCEPT ![h] =
            [do |-> do, id |-> b, at |-> at, saw |-> Nil, force |-> force]]
    BY <1>2 DEF Integrate, Despawn, Steps
  <2>2. [do |-> do, id |-> b, at |-> at, saw |-> Nil, force |-> force] \in Job
    BY DEF Job
  <2> QED
    BY <1>1, <2>1, <2>2, BeginEffect DEF OneJob
<1>3. CASE DespawnLook(h)
  <2>1. Active(h) /\ job[h].id \in Boundaries
    BY <1>1, <1>3, ActiveHasJob DEF DespawnLook, Active, Job
  <2>2. ref[job[h].id] \in Commits \cup {Nil}
    BY <2>1
  <2> QED
    BY <1>1, <1>3, <2>1, <2>2, LookEffect DEF DespawnLook, OneJob
<1>4. CASE IntegrateFetch(h) \/ DespawnCheck(h) \/ DespawnRemove(h) \/ DespawnBranch(h)
  <2>1. Active(h) /\ (Done(h) \/ \E s \in Steps : Goto(h, s))
    BY <1>4 DEF IntegrateFetch, DespawnCheck, DespawnRemove, DespawnBranch, Active, Steps
  <2> QED
    BY <1>1, <2>1, GotoEffect, DoneEffect DEF OneJob
<1> QED
  BY <1>2, <1>3, <1>4 DEF HandStep

LEMMA TypeStep ==
  ASSUME ConvergeTypeOK, [ConvergeNext]_convergeVars
  PROVE  ConvergeTypeOK'
<1> USE DEF ConvergeTypeOK, checkoutVars, boundaryVars, leaseVars, historyVars, Report
<1>0. job \in Jobs
  BY DEF Jobs
<1>1. ASSUME NEW b \in Boundaries,
             AgentCommits(b) \/ AgentExits(b) \/ AgentLeaves(b) \/ LauncherTeardown(b)
      PROVE  ConvergeTypeOK'
  <2>1. job' \in [Clients -> Job \cup {NoJob, [at |-> "done"]}]
    BY <1>0, <1>1, JobsAgents DEF Jobs, OneJob
  <2>2. CASE AgentCommits(b)
    <3>1. made[b] + 1 \in Commits
      BY <2>2, BoundsAssumption DEF AgentCommits, Commits
    <3> QED
      BY <2>1, <2>2, <3>1 DEF AgentCommits
  <2>3. CASE AgentExits(b) \/ AgentLeaves(b)
    BY <2>1, <2>3 DEF AgentExits, AgentLeaves
  <2>4. CASE LauncherTeardown(b)
    BY <2>1, <2>4 DEF LauncherTeardown
  <2> QED
    BY <1>1, <2>2, <2>3, <2>4
<1>2. ASSUME NEW b \in Boundaries, ConductorStep(b)
      PROVE  ConvergeTypeOK'
  <2>1. job' \in [Clients -> Job \cup {NoJob, [at |-> "done"]}]
    BY <1>0, <1>2, JobsConductor DEF Jobs, OneJob
  <2>2. CASE ConvergeFetch(b)
    BY <2>1, <2>2 DEF ConvergeFetch, Fetch
  <2>3. CASE ConvergeGuard(b)
    BY <2>1, <2>3 DEF ConvergeGuard
  <2>4. CASE ConvergeGate(b)
    BY <2>1, <2>4 DEF ConvergeGate
  <2>5. CASE ConvergeRecheck(b)
    BY <2>1, <2>5 DEF ConvergeRecheck
  <2> QED
    BY <1>2, <2>2, <2>3, <2>4, <2>5 DEF ConductorStep
<1>3. ASSUME NEW c \in Clients, MergeStep(c) \/ Killed(c)
      PROVE  ConvergeTypeOK'
  <2>1. job' \in [Clients -> Job \cup {NoJob, [at |-> "done"]}]
    BY <1>0, <1>3, JobsMerge DEF Jobs, OneJob
  <2>2. CASE Wait(c)
    BY <2>1, <2>2 DEF Wait, Acquire, GiveUp
  <2>3. CASE Merge(c)
    <3>1. PICK b \in Boundaries : b = job[c].id
      BY <1>0, <2>3, ActiveHasJob DEF Merge, Active, Job
    <3>2. ASSUME ref[b] # Nil
          PROVE  [has EXCEPT ![head][b] = ref[b]] \in [Heads -> [Boundaries -> Commits]]
      <4>1. [has[head] EXCEPT ![b] = ref[b]] \in [Boundaries -> Commits]
        BY <3>2
      <4>2. [has EXCEPT ![head] = [has[head] EXCEPT ![b] = ref[b]]]
              \in [Heads -> [Boundaries -> Commits]]
        BY <4>1
      <4> QED
        BY <4>2
    <3>3. has' \in [Heads -> [Boundaries -> Commits]]
      BY <2>3, <3>1, <3>2 DEF Merge
    <3> QED
      BY <2>1, <2>3, <3>3 DEF Merge
  <2>4. CASE Release(c)
    BY <2>1, <2>4 DEF Release
  <2>5. CASE Killed(c)
    BY <2>1, <2>5 DEF Killed
  <2> QED
    BY <1>3, <2>2, <2>3, <2>4, <2>5 DEF MergeStep
<1>4. ASSUME NEW h \in Hands,
             HandStep(h) \/ \E b \in Boundaries : Integrate(h, b) \/ Despawn(h, b)
      PROVE  ConvergeTypeOK'
  <2>1. job' \in [Clients -> Job \cup {NoJob, [at |-> "done"]}]
    BY <1>0, <1>4, JobsHand DEF Jobs, OneJob
  <2>2. CASE HandStep(h)
    <3>1. job[h].id \in Boundaries
      BY <1>0, <2>2, ActiveHasJob, ClientFacts
      DEF HandStep, IntegrateFetch, DespawnLook, DespawnCheck, DespawnRemove, DespawnBranch,
          Active, Job
    <3>2. CASE IntegrateFetch(h)
      BY <2>1, <3>1, <3>2 DEF IntegrateFetch, Fetch
    <3>3. CASE DespawnLook(h)
      BY <2>1, <3>3 DEF DespawnLook
    <3>4. CASE DespawnCheck(h)
      BY <2>1, <3>1, <3>4 DEF DespawnCheck
    <3>5. CASE DespawnRemove(h)
      BY <2>1, <3>5 DEF DespawnRemove
    <3>6. CASE DespawnBranch(h)
      BY <2>1, <3>1, <3>6 DEF DespawnBranch
    <3> QED
      BY <2>2, <3>2, <3>3, <3>4, <3>5, <3>6 DEF HandStep
  <2>3. CASE \E b \in Boundaries : Integrate(h, b) \/ Despawn(h, b)
    BY <2>1, <2>3 DEF Integrate, Despawn
  <2> QED
    BY <1>4, <2>2, <2>3
<1>5. CASE UserSwitches
  BY <1>5 DEF UserSwitches, Heads
<1>6. CASE UserEdits
  BY <1>6 DEF UserEdits
<1>7. CASE Lapse
  BY <1>7 DEF Lapse
<1>8. CASE DaemonRestarts
  BY <1>8 DEF DaemonRestarts
<1>9. CASE UNCHANGED convergeVars
  BY <1>9 DEF convergeVars
<1> QED
  BY <1>1, <1>2, <1>3, <1>4, <1>5, <1>6, <1>7, <1>8, <1>9 DEF ConvergeNext

-----------------------------------------------------------------------------
(* Jobs keep to their steps *)

\* A step of process c, in which at most the life of the boundary c changes, and then
\* from launched, or because c is idle.
LEMMA JobFrame ==
  ASSUME ConvergeTypeOK, JobInv, NEW c \in Clients, OneJob(c), grain' = grain,
         life' \in [Boundaries -> {"spawned", "launched", "exited", "left"}],
         \A b \in Boundaries \ {c} : life'[b] = life[b],
         c \in Boundaries =>
           life'[c] = life[c] \/ (life[c] \in {"launched", "exited"} /\ life'[c] # "launched"),
         JobOK(c)'
  PROVE  JobInv'
<1> SUFFICES ASSUME NEW d \in Clients, d # c, Active(d)'
             PROVE  JobOK(d)'
  BY DEF JobInv, JobOK
<1>1. job'[d] = job[d] /\ Active(d) /\ JobOK(d)
  BY DEF OneJob, Active, JobInv
<1>2. job[d].id \in Boundaries
  BY <1>1, ActiveHasJob DEF ConvergeTypeOK, Jobs, Job
<1>3. job[d].at = "fetch" => grain[job[d].id] = "container"
  BY <1>1 DEF JobOK
<1>4. d \in Boundaries => ConductorOK(d)'
  BY <1>1 DEF JobOK, ConductorOK
<1>5. d \in Hands => CommandOK(d)'
  <2> SUFFICES ASSUME d \in Hands PROVE CommandOK(d)'
    OBVIOUS
  <2>1. CommandOK(d)
    BY <1>1 DEF JobOK
  <2>2. life[job[d].id] \in {"spawned", "left"} => life'[job[d].id] = life[job[d].id]
    BY <1>2
  <2> QED
    BY <1>1, <2>1, <2>2 DEF CommandOK
<1> QED
  BY <1>1, <1>3, <1>4, <1>5 DEF JobOK

LEMMA JobStep ==
  ASSUME ConvergeTypeOK, JobInv, [ConvergeNext]_convergeVars
  PROVE  JobInv'
<1> USE DEF checkoutVars, boundaryVars, leaseVars, historyVars
<1>0. /\ job \in Jobs /\ ConvergeTypeOK'
      /\ life' \in [Boundaries -> {"spawned", "launched", "exited", "left"}]
  BY TypeStep DEF ConvergeTypeOK, Jobs
<1>1. ASSUME NEW b \in Boundaries,
             AgentCommits(b) \/ AgentExits(b) \/ AgentLeaves(b) \/ LauncherTeardown(b)
      PROVE  JobInv'
  <2>1. b \in Clients /\ b \notin Hands /\ OneJob(b)
    BY <1>0, <1>1, ClientFacts, JobsAgents
  <2>2. CASE AgentCommits(b)
    BY <2>2 DEF AgentCommits, JobInv, JobOK, Active, ConductorOK, CommandOK
  <2>3. CASE AgentExits(b) \/ AgentLeaves(b) \/ LauncherTeardown(b)
    <3>1. /\ grain' = grain
          /\ \A d \in Boundaries \ {b} : life'[d] = life[d]
          /\ life[b] \in {"launched", "exited"} /\ life'[b] # "launched"
      BY <2>3 DEF AgentExits, AgentLeaves, LauncherTeardown, ConvergeTypeOK
    <3>2. CASE AgentExits(b)
      <4>1. /\ job'[b].do = "converge" /\ job'[b].id = b
            /\ job'[b].at = IF grain[b] = "container" THEN "fetch" ELSE "guard"
            /\ life'[b] = "exited"
        BY <2>1, <3>2, <1>0 DEF AgentExits, ConvergeTypeOK, Jobs
      <4>2. JobOK(b)'
        BY <2>1, <3>1, <4>1 DEF JobOK, ConductorOK, ConductorSteps
      <4> QED
        BY <1>0, <2>1, <3>1, <4>2, JobFrame
    <3>3. CASE AgentLeaves(b) \/ LauncherTeardown(b)
      <4>1. job' = job /\ ~Active(b)
        BY <2>1, <3>3 DEF AgentLeaves, LauncherTeardown, Active, JobInv, JobOK, ConductorOK
      <4>2. JobOK(b)'
        BY <4>1 DEF JobOK, Active
      <4> QED
        BY <1>0, <2>1, <3>1, <4>2, JobFrame
    <3> QED
      BY <2>3, <3>2, <3>3
  <2> QED
    BY <1>1, <2>2, <2>3
<1>2. ASSUME NEW b \in Boundaries, ConductorStep(b)
      PROVE  JobInv'
  <2>1. b \in Clients /\ b \notin Hands /\ OneJob(b) /\ Active(b) /\ JobOK(b)
    BY <1>0, <1>2, ClientFacts, JobsConductor
    DEF JobInv, ConductorStep, ConvergeFetch, ConvergeGuard, ConvergeGate, ConvergeRecheck, Active
  <2>2. Done(b) \/ \E s \in ConductorSteps \ {"fetch"} : Goto(b, s)
    BY <1>2 DEF ConductorStep, ConvergeFetch, ConvergeGuard, ConvergeGate, ConvergeRecheck,
                ConductorSteps
  <2>3. life' = life /\ grain' = grain
    BY <1>2 DEF ConductorStep, ConvergeFetch, ConvergeGuard, ConvergeGate, ConvergeRecheck
  <2>4. CASE Done(b)
    <3>1. ~Active(b)'
      BY <1>0, <2>1, <2>4, DoneEffect DEF Active
    <3> QED
      BY <1>0, <2>1, <2>3, <3>1, JobFrame DEF JobOK
  <2>5. ASSUME NEW s \in ConductorSteps \ {"fetch"}, Goto(b, s)
        PROVE  JobInv'
    <3>1. job'[b].at = s /\ job'[b].do = job[b].do /\ job'[b].id = job[b].id
      BY <1>0, <2>1, <2>5, GotoEffect DEF ConductorSteps, Steps
    <3>2. JobOK(b)'
      BY <2>1, <2>3, <3>1 DEF JobOK, ConductorOK
    <3> QED
      BY <1>0, <2>1, <2>3, <3>2, JobFrame
  <2> QED
    BY <2>2, <2>4, <2>5
<1>3. ASSUME NEW c \in Clients, MergeStep(c) \/ Killed(c)
      PROVE  JobInv'
  <2>1. OneJob(c) /\ Active(c) /\ JobOK(c)
    BY <1>0, <1>3, JobsMerge DEF JobInv, MergeStep, Wait, Merge, Release, Killed, Active
  <2>2. life' = life /\ grain' = grain
    BY <1>3 DEF MergeStep, Wait, Merge, Release, Killed
  <2>3. CASE Done(c)
    <3>1. ~Active(c)'
      BY <1>0, <2>1, <2>3, DoneEffect DEF Active
    <3> QED
      BY <1>0, <2>1, <2>2, <3>1, JobFrame DEF JobOK
  <2>4. CASE Merge(c) /\ Goto(c, "release")
    <3>1. job'[c].at = "release" /\ job'[c].do = job[c].do /\ job'[c].id = job[c].id
      BY <1>0, <2>1, <2>4, GotoEffect DEF Steps
    <3>2. JobOK(c)'
      BY <2>1, <2>2, <2>4, <3>1
      DEF Merge, JobOK, ConductorOK, CommandOK, ConductorSteps, IntegrateSteps, DespawnSteps
    <3> QED
      BY <1>0, <2>1, <2>2, <3>2, JobFrame
  <2>5. CASE Wait(c) /\ Goto(c, AfterGrant(c))
    <3>1. /\ job'[c].at = AfterGrant(c) /\ job'[c].do = job[c].do
          /\ job'[c].id = job[c].id
      BY <1>0, <2>1, <2>5, GotoEffect DEF AfterGrant, Steps
    <3>2. JobOK(c)'
      BY <2>1, <2>2, <2>5, <3>1, ClientFacts
      DEF Wait, AfterGrant, JobOK, ConductorOK, CommandOK, ConductorSteps, IntegrateSteps,
          DespawnSteps, Clients
    <3> QED
      BY <1>0, <2>1, <2>2, <3>2, JobFrame
  <2> QED
    BY <1>3, <2>3, <2>4, <2>5
    DEF MergeStep, Wait, Acquire, GiveUp, Merge, Release, Killed
<1>4. ASSUME NEW h \in Hands,
             HandStep(h) \/ \E b \in Boundaries : Integrate(h, b) \/ Despawn(h, b)
      PROVE  JobInv'
  <2>1. h \in Clients /\ h \notin Boundaries /\ OneJob(h) /\ JobOK(h)
    BY <1>0, <1>4, ClientFacts, JobsHand DEF JobInv, ConvergeTypeOK
  <2>2. life' = life /\ grain' = grain
    BY <1>4 DEF HandStep, IntegrateFetch, DespawnLook, DespawnCheck, DespawnRemove,
                DespawnBranch, Integrate, Despawn
  <2>3. CASE HandStep(h)
    <3>1. Active(h) /\ CommandOK(h)
      BY <2>1, <2>3
      DEF HandStep, IntegrateFetch, DespawnLook, DespawnCheck, DespawnRemove, DespawnBranch,
          Active, JobOK
    <3>2. CASE Done(h)
      <4>1. ~Active(h)'
        BY <1>0, <2>1, <3>2, DoneEffect DEF Active
      <4> QED
        BY <1>0, <2>1, <2>2, <4>1, JobFrame DEF JobOK
    <3>3. ASSUME NEW s \in Steps, Goto(h, s), CommandOK(h)',
                 s # "fetch"
          PROVE  JobInv'
      <4>1. job'[h].at = s
        BY <1>0, <2>1, <3>1, <3>3, GotoEffect
      <4>2. JobOK(h)'
        BY <2>1, <3>3, <4>1 DEF JobOK
      <4> QED
        BY <1>0, <2>1, <2>2, <4>2, JobFrame
    <3>4. CASE IntegrateFetch(h)
      <4>1. PICK s \in {"merge", "release"} : Goto(h, s)
        BY <3>4 DEF IntegrateFetch
      <4>2. job'[h].at = s /\ job'[h].do = job[h].do /\ s \in Steps
        BY <1>0, <2>1, <3>1, <4>1, GotoEffect DEF Steps
      <4>3. CommandOK(h)'
        BY <3>1, <3>4, <4>2 DEF CommandOK, IntegrateFetch, IntegrateSteps, DespawnSteps
      <4> QED
        BY <3>3, <4>1, <4>2, <4>3
    <3>5. CASE DespawnLook(h)
      <4>1. job[h].id \in Boundaries
        BY <1>0, <2>1, <3>1, ActiveHasJob DEF Job
      <4>2. ref[job[h].id] \in Commits \cup {Nil}
        BY <4>1 DEF ConvergeTypeOK
      <4>3. job'[h].at = "check" /\ job'[h].do = job[h].do /\ job'[h].id = job[h].id
        BY <1>0, <2>1, <3>1, <3>5, <4>2, LookEffect DEF DespawnLook
      <4>4. CommandOK(h)'
        BY <2>2, <3>1, <3>5, <4>3 DEF CommandOK, DespawnLook, IntegrateSteps, DespawnSteps
      <4>5. JobOK(h)'
        BY <2>1, <4>3, <4>4 DEF JobOK
      <4> QED
        BY <1>0, <2>1, <2>2, <4>5, JobFrame
    <3>6. ASSUME NEW s \in {"remove", "branch"}, Goto(h, s), DespawnCheck(h) \/ DespawnRemove(h)
          PROVE  JobInv'
      <4>1. job'[h].at = s /\ job'[h].do = job[h].do /\ job'[h].id = job[h].id /\ s \in Steps
        BY <1>0, <2>1, <3>1, <3>6, GotoEffect DEF Steps
      <4>2. CommandOK(h)'
        BY <2>2, <3>1, <3>6, <4>1
        DEF CommandOK, DespawnCheck, DespawnRemove, IntegrateSteps, DespawnSteps
      <4> QED
        BY <3>3, <3>6, <4>1, <4>2
    <3> QED
      BY <2>3, <3>2, <3>4, <3>5, <3>6
      DEF HandStep, DespawnCheck, DespawnRemove, DespawnBranch
  <2>4. ASSUME NEW b \in Boundaries, Integrate(h, b) \/ Despawn(h, b)
        PROVE  JobInv'
    <3>1. PICK do \in {"integrate", "despawn"}, at \in {"wait", "look"}, force \in BOOLEAN :
            /\ job' = [job EXCEPT ![h] =
                 [do |-> do, id |-> b, at |-> at, saw |-> Nil, force |-> force]]
            /\ do = "integrate" => at = "wait"
            /\ do = "despawn" => at = "look" /\ life[b] \in {"spawned", "left"}
      BY <2>4 DEF Integrate, Despawn
    <3>2. job'[h].do = do /\ job'[h].id = b /\ job'[h].at = at
      BY <1>0, <2>1, <3>1 DEF Jobs
    <3>3. JobOK(h)'
      BY <2>1, <2>2, <3>1, <3>2 DEF JobOK, CommandOK, IntegrateSteps, DespawnSteps
    <3> QED
      BY <1>0, <2>1, <2>2, <3>3, JobFrame
  <2> QED
    BY <1>4, <2>3, <2>4
<1>5. CASE UserSwitches \/ UserEdits \/ Lapse \/ DaemonRestarts \/ UNCHANGED convergeVars
  <2>1. UNCHANGED <<job, grain, life>>
    BY <1>5 DEF UserSwitches, UserEdits, Lapse, DaemonRestarts, convergeVars
  <2> QED
    BY <2>1 DEF JobInv, JobOK, Active, ConductorOK, CommandOK
<1> QED
  BY <1>1, <1>2, <1>3, <1>4, <1>5 DEF ConvergeNext

-----------------------------------------------------------------------------
(* The merges' section *)

\* A step that neither enters nor leaves the section.
LEMMA LeaseFrame ==
  ASSUME ConvergeTypeOK, LeaseInv, NEW c \in Clients, OneJob(c), lease' = lease, adrift' = adrift,
         InSection(c)' <=> InSection(c)
  PROVE  LeaseInv'
<1>1. \A d \in Clients : InSection(d)' <=> InSection(d)
  BY DEF OneJob, InSection
<1>2. lease \in Clients \cup {Nil}
  BY DEF ConvergeTypeOK
<1> QED
  BY <1>1, <1>2 DEF LeaseInv, UnderLease

LEMMA LeaseStep ==
  ASSUME ConvergeTypeOK, JobInv, LeaseInv, [ConvergeNext]_convergeVars
  PROVE  LeaseInv'
<1> USE DEF checkoutVars, boundaryVars, leaseVars, historyVars
<1>0. job \in Jobs /\ lease \in Clients \cup {Nil}
  BY DEF ConvergeTypeOK, Jobs
<1>1. ASSUME NEW b \in Boundaries,
             AgentCommits(b) \/ AgentExits(b) \/ AgentLeaves(b) \/ LauncherTeardown(b)
      PROVE  LeaseInv'
  <2>1. b \in Clients /\ OneJob(b) /\ JobOK(b)
    BY <1>0, <1>1, ClientFacts, JobsAgents DEF JobInv
  <2>2. UNCHANGED <<lease, adrift>>
    BY <1>1 DEF AgentCommits, AgentExits, AgentLeaves, LauncherTeardown
  <2>3. InSection(b)' <=> InSection(b)
    <3>1. CASE AgentExits(b)
      <4>1. /\ job'[b].do = "converge"
            /\ job'[b].at = IF grain[b] = "container" THEN "fetch" ELSE "guard"
        BY <1>0, <2>1, <3>1 DEF AgentExits, Jobs
      <4>2. ~Active(b)
        BY <2>1, <3>1 DEF AgentExits, JobOK, ConductorOK
      <4> QED
        BY <4>1, <4>2 DEF InSection, Active
    <3> QED
      BY <1>1, <3>1 DEF AgentCommits, AgentLeaves, LauncherTeardown, InSection
  <2> QED
    BY <2>1, <2>2, <2>3, LeaseFrame
<1>2. ASSUME NEW b \in Boundaries, ConductorStep(b)
      PROVE  LeaseInv'
  <2>1. b \in Clients /\ OneJob(b) /\ Active(b) /\ job[b].do = "converge"
    BY <1>0, <1>2, ClientFacts, JobsConductor
    DEF JobInv, JobOK, ConductorOK, ConductorStep, ConvergeFetch, ConvergeGuard, ConvergeGate,
        ConvergeRecheck, Active
  <2>2. UNCHANGED <<lease, adrift>>
    BY <1>2 DEF ConductorStep, ConvergeFetch, ConvergeGuard, ConvergeGate, ConvergeRecheck
  <2>3. CASE ConvergeFetch(b) \/ ConvergeGuard(b) \/ ConvergeGate(b)
    <3>1. Done(b) \/ \E s \in {"guard", "gate", "wait"} : Goto(b, s)
      BY <2>3 DEF ConvergeFetch, ConvergeGuard, ConvergeGate
    <3>2. job'[b].at = "done" \/ job'[b].at \in {"guard", "gate", "wait"}
      BY <1>0, <2>1, <3>1, GotoEffect, DoneEffect DEF Steps
    <3>3. InSection(b)' <=> InSection(b)
      BY <2>1, <2>3, <3>2 DEF InSection, ConvergeFetch, ConvergeGuard, ConvergeGate
    <3> QED
      BY <2>1, <2>2, <3>3, LeaseFrame
  <2>4. CASE ConvergeRecheck(b)
    <3>1. \E s \in {"merge", "release"} : Goto(b, s)
      BY <2>4 DEF ConvergeRecheck
    <3>2. job'[b].at \in {"merge", "release"}
      BY <1>0, <2>1, <3>1, GotoEffect DEF Steps
    <3>3. InSection(b)' <=> InSection(b)
      BY <2>4, <3>2 DEF InSection, ConvergeRecheck
    <3> QED
      BY <2>1, <2>2, <3>3, LeaseFrame
  <2> QED
    BY <1>2, <2>3, <2>4 DEF ConductorStep
<1>3. ASSUME NEW c \in Clients, Wait(c)
      PROVE  LeaseInv'
  <2>1. OneJob(c) /\ Active(c) /\ JobOK(c) /\ ~InSection(c) /\ adrift' = adrift
    BY <1>0, <1>3, JobsMerge DEF JobInv, MergeStep, Wait, Active, InSection
  <2>2. CASE Done(c) /\ lease' = lease
    <3>1. ~InSection(c)'
      BY <1>0, <2>1, <2>2, DoneEffect DEF InSection
    <3> QED
      BY <2>1, <2>2, <3>1, LeaseFrame
  <2>3. CASE Acquire(c)
    <3>1. /\ job'[c].at = AfterGrant(c) /\ job'[c].do = job[c].do
      BY <1>0, <2>1, <2>3, GotoEffect DEF Acquire, AfterGrant, Steps
    <3>2. job[c].do \in {"converge", "integrate"}
      BY <1>3, <2>1 DEF Wait, JobOK, ConductorOK, CommandOK, DespawnSteps, Clients
    <3>3. InSection(c)'
      BY <3>1, <3>2 DEF AfterGrant, InSection
    <3>4. \A d \in Clients \ {c} : ~InSection(d)'
      BY <2>1, <2>3, ClientFacts DEF OneJob, InSection, LeaseInv, UnderLease, Acquire
    <3> QED
      BY <2>1, <2>3, <3>3, <3>4 DEF LeaseInv, UnderLease, Acquire
  <2> QED
    BY <1>3, <2>2, <2>3 DEF Wait, GiveUp
<1>4. ASSUME NEW c \in Clients, Merge(c)
      PROVE  LeaseInv'
  <2>1. OneJob(c) /\ Active(c) /\ Goto(c, "release") /\ UNCHANGED <<lease, adrift>>
    BY <1>0, <1>4, JobsMerge DEF MergeStep, Merge, Active
  <2>2. job'[c].at = "release"
    BY <1>0, <2>1, GotoEffect DEF Steps
  <2>3. InSection(c)' <=> InSection(c)
    BY <1>4, <2>2 DEF InSection, Merge
  <2> QED
    BY <2>1, <2>3, LeaseFrame
<1>5. ASSUME NEW c \in Clients, Release(c)
      PROVE  LeaseInv'
  <2>1. OneJob(c) /\ InSection(c) /\ lease = c
    BY <1>0, <1>5, JobsMerge DEF MergeStep, Release, InSection, LeaseInv, UnderLease
  <2>2. ~InSection(c)'
    BY <1>0, <1>5, DoneEffect DEF Release, InSection
  <2>3. \A d \in Clients \ {c} : ~InSection(d)'
    BY <2>1 DEF OneJob, InSection, LeaseInv, UnderLease
  <2> QED
    BY <1>5, <2>1, <2>2, <2>3, ClientFacts DEF LeaseInv, UnderLease, Release
<1>6. ASSUME NEW c \in Clients, Killed(c)
      PROVE  LeaseInv'
  <2>1. OneJob(c) /\ lease' = lease /\ adrift' = (adrift \/ InSection(c))
    BY <1>0, <1>6, JobsMerge DEF Killed
  <2>2. ~InSection(c)'
    BY <1>0, <1>6, DoneEffect DEF Killed, InSection
  <2>3. \A d \in Clients \ {c} : InSection(d)' <=> InSection(d)
    BY <2>1 DEF OneJob, InSection
  <2> QED
    BY <1>0, <2>1, <2>2, <2>3, ClientFacts DEF LeaseInv, UnderLease
<1>7. ASSUME NEW h \in Hands,
             HandStep(h) \/ \E b \in Boundaries : Integrate(h, b) \/ Despawn(h, b)
      PROVE  LeaseInv'
  <2>1. h \in Clients /\ h \notin Boundaries /\ OneJob(h) /\ JobOK(h)
    BY <1>0, <1>7, ClientFacts, JobsHand DEF JobInv, ConvergeTypeOK
  <2>2. UNCHANGED <<lease, adrift>>
    BY <1>7 DEF HandStep, IntegrateFetch, DespawnLook, DespawnCheck, DespawnRemove,
                DespawnBranch, Integrate, Despawn
  <2>3. CASE IntegrateFetch(h)
    <3>1. PICK s \in {"merge", "release"} : Goto(h, s)
      BY <2>3 DEF IntegrateFetch
    <3>2. job'[h].at = s
      BY <1>0, <2>1, <2>3, <3>1, GotoEffect DEF Steps, IntegrateFetch, Active
    <3>3. job[h].do = "integrate"
      BY <2>1, <2>3 DEF JobOK, CommandOK, IntegrateFetch, Active, DespawnSteps
    <3>4. InSection(h)' <=> InSection(h)
      BY <2>3, <3>2, <3>3 DEF InSection, IntegrateFetch
    <3> QED
      BY <2>1, <2>2, <3>4, LeaseFrame
  <2>4. CASE DespawnLook(h)
    <3>1. Active(h) /\ job[h].id \in Boundaries
      BY <1>0, <2>1, <2>4, ActiveHasJob DEF DespawnLook, Active, Job
    <3>2. ref[job[h].id] \in Commits \cup {Nil}
      BY <3>1 DEF ConvergeTypeOK
    <3>3. job'[h].at = "check"
      BY <1>0, <2>1, <2>4, <3>1, <3>2, LookEffect DEF DespawnLook
    <3>4. InSection(h)' <=> InSection(h)
      BY <2>4, <3>3 DEF InSection, DespawnLook
    <3> QED
      BY <2>1, <2>2, <3>4, LeaseFrame
  <2>5. CASE DespawnCheck(h) \/ DespawnRemove(h) \/ DespawnBranch(h)
    <3>1. Active(h) /\ (Done(h) \/ \E s \in {"remove", "branch"} : Goto(h, s))
      BY <2>5 DEF DespawnCheck, DespawnRemove, DespawnBranch, Active
    <3>2. job'[h].at \in {"done", "remove", "branch"}
      BY <1>0, <2>1, <3>1, GotoEffect, DoneEffect DEF Steps
    <3>3. InSection(h)' <=> InSection(h)
      BY <2>5, <3>2 DEF InSection, DespawnCheck, DespawnRemove, DespawnBranch
    <3> QED
      BY <2>1, <2>2, <3>3, LeaseFrame
  <2>6. ASSUME NEW b \in Boundaries, Integrate(h, b) \/ Despawn(h, b)
        PROVE  LeaseInv'
    <3>0. /\ job[h] = NoJob
          /\ \E do \in {"integrate", "despawn"}, at \in {"wait", "look"}, force \in BOOLEAN :
               job' = [job EXCEPT ![h] =
                 [do |-> do, id |-> b, at |-> at, saw |-> Nil, force |-> force]]
      BY <2>6 DEF Integrate, Despawn
    <3>1. job[h].at = "idle"
      BY <3>0 DEF NoJob
    <3>2. job'[h].at \in {"wait", "look"}
      BY <1>0, <2>1, <3>0 DEF Jobs
    <3>3. InSection(h)' <=> InSection(h)
      BY <3>1, <3>2 DEF InSection
    <3> QED
      BY <2>1, <2>2, <3>3, LeaseFrame
  <2> QED
    BY <1>7, <2>3, <2>4, <2>5, <2>6 DEF HandStep
<1>8. CASE Lapse
  <2>1. \A c \in Clients : ~InSection(c)
    BY <1>8 DEF LeaseInv, UnderLease, Lapse
  <2> QED
    BY <1>8, <2>1 DEF LeaseInv, UnderLease, Lapse, InSection
<1>9. CASE DaemonRestarts
  <2>1. CASE UNCHANGED <<lease, adrift>>
    BY <1>9, <2>1 DEF LeaseInv, UnderLease, DaemonRestarts, InSection
  <2>2. ASSUME NEW c \in cut', lease = Nil, job[c].at = "wait", lease' = c, adrift' = TRUE
        PROVE  LeaseInv'
    <3>1. c \in Clients
      BY <1>9 DEF DaemonRestarts, ConvergeTypeOK
    <3>2. \A d \in Clients : ~InSection(d)
      BY <2>2, ClientFacts DEF LeaseInv, UnderLease
    <3>3. job' = job
      BY <1>9 DEF DaemonRestarts
    <3> QED
      BY <2>2, <3>1, <3>2, <3>3, ClientFacts DEF LeaseInv, UnderLease, InSection
  <2> QED
    BY <1>9, <2>1, <2>2 DEF DaemonRestarts
<1>10. CASE UserSwitches \/ UserEdits \/ UNCHANGED convergeVars
  BY <1>10 DEF UserSwitches, UserEdits, convergeVars, LeaseInv, UnderLease, InSection
<1> QED
  BY <1>1, <1>2, <1>3, <1>4, <1>5, <1>6, <1>7, <1>8, <1>9, <1>10 DEF ConvergeNext, MergeStep

-----------------------------------------------------------------------------
(* Where the copies go *)

\* Commits are numbers, which Nil is not.
LEMMA CommitNumbers ==
  ASSUME ConvergeTypeOK, NEW b \in Boundaries
  PROVE  /\ made[b] \in Nat /\ clone[b] \in Nat /\ (ref[b] = Nil \/ ref[b] \in Nat)
         /\ \A t \in Heads : has[t][b] \in Nat
         /\ Nil \notin Commits /\ made[b] \in Commits
         /\ grain[b] \in {"worktree", "container"}
BY ClientFacts, BoundsAssumption DEF ConvergeTypeOK, Commits

\* What is waived stays so, and a boundary's kind never changes.
LEMMA HistoryStep ==
  ASSUME [ConvergeNext]_convergeVars
  PROVE  waived \subseteq waived' /\ moved \subseteq moved' /\ grain' = grain
<1> USE DEF checkoutVars, boundaryVars, leaseVars, historyVars
<1>1. ASSUME NEW b \in Boundaries,
             AgentCommits(b) \/ AgentExits(b) \/ AgentLeaves(b) \/ LauncherTeardown(b)
      PROVE  waived \subseteq waived' /\ moved \subseteq moved' /\ grain' = grain
  BY <1>1 DEF AgentCommits, AgentExits, AgentLeaves, LauncherTeardown
<1>2. ASSUME NEW b \in Boundaries, ConductorStep(b)
      PROVE  UNCHANGED <<waived, moved, grain>>
  BY <1>2 DEF ConductorStep, ConvergeFetch, ConvergeGuard, ConvergeGate, ConvergeRecheck
<1>3. ASSUME NEW c \in Clients, MergeStep(c) \/ Killed(c)
      PROVE  UNCHANGED <<waived, moved, grain>>
  BY <1>3 DEF MergeStep, Wait, Merge, Release, Killed
<1>4. ASSUME NEW h \in Hands, HandStep(h)
      PROVE  waived \subseteq waived' /\ moved \subseteq moved' /\ grain' = grain
  BY <1>4 DEF HandStep, IntegrateFetch, DespawnLook, DespawnCheck, DespawnRemove, DespawnBranch
<1>5. ASSUME NEW h \in Hands, NEW b \in Boundaries, Integrate(h, b) \/ Despawn(h, b)
      PROVE  UNCHANGED <<waived, moved, grain>>
  BY <1>5 DEF Integrate, Despawn
<1>6. CASE UserSwitches \/ UserEdits \/ Lapse \/ DaemonRestarts \/ UNCHANGED convergeVars
  BY <1>6 DEF UserSwitches, UserEdits, Lapse, DaemonRestarts, convergeVars
<1> QED
  BY <1>1, <1>2, <1>3, <1>4, <1>5, <1>6 DEF ConvergeNext

\* An agent is launched, exits and leaves; one that was spawned goes on.
LEMMA LifeStep ==
  ASSUME ConvergeTypeOK, [ConvergeNext]_convergeVars, NEW b \in Boundaries
  PROVE  \/ life'[b] = life[b]
         \/ life[b] = "launched" /\ life'[b] = "exited"
         \/ life[b] = "exited" /\ life'[b] = "left"
<1> USE DEF checkoutVars, boundaryVars, leaseVars, historyVars
<1>0. DOMAIN life = Boundaries
  BY DEF ConvergeTypeOK
<1>1. ASSUME NEW d \in Boundaries,
             AgentCommits(d) \/ AgentExits(d) \/ AgentLeaves(d) \/ LauncherTeardown(d)
      PROVE  \/ life'[b] = life[b]
             \/ life[b] = "launched" /\ life'[b] = "exited"
             \/ life[b] = "exited" /\ life'[b] = "left"
  BY <1>0, <1>1 DEF AgentCommits, AgentExits, AgentLeaves, LauncherTeardown
<1>2. ASSUME NEW d \in Boundaries, ConductorStep(d)
      PROVE  life' = life
  BY <1>2 DEF ConductorStep, ConvergeFetch, ConvergeGuard, ConvergeGate, ConvergeRecheck
<1>3. ASSUME NEW c \in Clients, MergeStep(c) \/ Killed(c)
      PROVE  life' = life
  BY <1>3 DEF MergeStep, Wait, Merge, Release, Killed
<1>4. ASSUME NEW h \in Hands,
             HandStep(h) \/ \E d \in Boundaries : Integrate(h, d) \/ Despawn(h, d)
      PROVE  life' = life
  BY <1>4 DEF HandStep, IntegrateFetch, DespawnLook, DespawnCheck, DespawnRemove,
              DespawnBranch, Integrate, Despawn
<1>5. CASE UserSwitches \/ UserEdits \/ Lapse \/ DaemonRestarts \/ UNCHANGED convergeVars
  BY <1>5 DEF UserSwitches, UserEdits, Lapse, DaemonRestarts, convergeVars
<1> QED
  BY <1>1, <1>2, <1>3, <1>4, <1>5 DEF ConvergeNext

\* Only the agent commits; its branch is otherwise brought up to it from the clone, or
\* deleted by a despawn.
BranchGoes(b) ==
  /\ made'[b] = made[b] /\ clone'[b] = clone[b]
  /\ \/ ref'[b] = ref[b]
     \/ grain[b] = "container" /\ ref'[b] = clone[b]
     \/ ref'[b] = Nil /\ \E h \in Hands : job[h].id = b /\ DespawnBranch(h)

LEMMA BranchStep ==
  ASSUME ConvergeTypeOK, JobInv, [ConvergeNext]_convergeVars, NEW b \in Boundaries
  PROVE  AgentCommits(b) \/ BranchGoes(b)
<1> USE DEF checkoutVars, boundaryVars, leaseVars, historyVars
<1>0. /\ DOMAIN made = Boundaries /\ DOMAIN clone = Boundaries /\ DOMAIN ref = Boundaries
      /\ job \in Jobs
  BY DEF ConvergeTypeOK, Jobs
<1>1. ASSUME NEW d \in Boundaries,
             AgentCommits(d) \/ AgentExits(d) \/ AgentLeaves(d) \/ LauncherTeardown(d)
      PROVE  AgentCommits(b) \/ BranchGoes(b)
  <2>1. CASE AgentCommits(d)
    BY <1>0, <2>1 DEF AgentCommits, BranchGoes
  <2>2. CASE AgentExits(d) \/ AgentLeaves(d)
    BY <2>2 DEF AgentExits, AgentLeaves, BranchGoes
  <2>3. CASE LauncherTeardown(d)
    BY <1>0, <2>3 DEF LauncherTeardown, BranchGoes
  <2> QED
    BY <1>1, <2>1, <2>2, <2>3
<1>2. ASSUME NEW d \in Boundaries, ConductorStep(d)
      PROVE  BranchGoes(b)
  <2>1. CASE ConvergeFetch(d)
    <3>1. grain[d] = "container"
      BY <2>1, ClientFacts DEF ConvergeFetch, JobInv, JobOK, ConductorOK, Active
    <3> QED
      BY <1>0, <2>1, <3>1 DEF ConvergeFetch, Fetch, BranchGoes
  <2>2. CASE ConvergeGuard(d) \/ ConvergeGate(d) \/ ConvergeRecheck(d)
    BY <2>2 DEF ConvergeGuard, ConvergeGate, ConvergeRecheck, BranchGoes
  <2> QED
    BY <1>2, <2>1, <2>2 DEF ConductorStep
<1>3. ASSUME NEW c \in Clients, MergeStep(c) \/ Killed(c)
      PROVE  BranchGoes(b)
  BY <1>3 DEF MergeStep, Wait, Merge, Release, Killed, BranchGoes
<1>4. ASSUME NEW h \in Hands, HandStep(h)
      PROVE  BranchGoes(b)
  <2>1. CASE IntegrateFetch(h)
    <3>1. grain[job[h].id] = "container"
      BY <2>1, ClientFacts DEF IntegrateFetch, JobInv, JobOK, Active
    <3> QED
      BY <1>0, <2>1, <3>1 DEF IntegrateFetch, Fetch, BranchGoes
  <2>2. CASE DespawnBranch(h)
    BY <1>0, <2>2 DEF DespawnBranch, BranchGoes
  <2>3. CASE DespawnLook(h) \/ DespawnCheck(h) \/ DespawnRemove(h)
    BY <2>3 DEF DespawnLook, DespawnCheck, DespawnRemove, BranchGoes
  <2> QED
    BY <1>4, <2>1, <2>2, <2>3 DEF HandStep
<1>5. ASSUME NEW h \in Hands, NEW d \in Boundaries, Integrate(h, d) \/ Despawn(h, d)
      PROVE  BranchGoes(b)
  BY <1>5 DEF Integrate, Despawn, BranchGoes
<1>6. CASE UserSwitches \/ UserEdits \/ Lapse \/ DaemonRestarts \/ UNCHANGED convergeVars
  BY <1>6 DEF UserSwitches, UserEdits, Lapse, DaemonRestarts, convergeVars, BranchGoes
<1> QED
  BY <1>1, <1>2, <1>3, <1>4, <1>5, <1>6 DEF ConvergeNext

\* A branch of the checkout only gains commits, from the boundary's branch.
LEMMA HasStep ==
  ASSUME ConvergeTypeOK, [ConvergeNext]_convergeVars, NEW b \in Boundaries, NEW t \in Heads
  PROVE  \/ has'[t][b] = has[t][b]
         \/ ref[b] # Nil /\ ref[b] > has[t][b] /\ has'[t][b] = ref[b] /\ UNCHANGED made
<1> USE DEF checkoutVars, boundaryVars, leaseVars, historyVars
<1>1. ASSUME NEW d \in Boundaries,
             AgentCommits(d) \/ AgentExits(d) \/ AgentLeaves(d) \/ LauncherTeardown(d)
      PROVE  has' = has
  BY <1>1 DEF AgentCommits, AgentExits, AgentLeaves, LauncherTeardown
<1>2. ASSUME NEW d \in Boundaries, ConductorStep(d)
      PROVE  has' = has
  BY <1>2 DEF ConductorStep, ConvergeFetch, ConvergeGuard, ConvergeGate, ConvergeRecheck
<1>3. ASSUME NEW c \in Clients, Wait(c) \/ Release(c) \/ Killed(c)
      PROVE  has' = has
  BY <1>3 DEF Wait, Release, Killed
<1>4. ASSUME NEW c \in Clients, Merge(c)
      PROVE  \/ has'[t][b] = has[t][b]
             \/ ref[b] # Nil /\ ref[b] > has[t][b] /\ has'[t][b] = ref[b] /\ UNCHANGED made
  <2>1. CASE has' = has
    BY <2>1
  <2>2. CASE Ahead(job[c].id, head) /\ has' = [has EXCEPT ![head][job[c].id] = ref[job[c].id]]
    <3> DEFINE row == [has[head] EXCEPT ![job[c].id] = ref[job[c].id]]
    <3>1. DOMAIN has = Heads /\ DOMAIN has[head] = Boundaries /\ head \in Heads
      BY DEF ConvergeTypeOK
    <3>2. row[b] = IF b = job[c].id THEN ref[b] ELSE has[head][b]
      BY <3>1
    <3>3. has' = [has EXCEPT ![head] = row]
      BY <2>2
    <3> HIDE DEF row
    <3>4. has'[t][b] = has[t][b] \/ (t = head /\ b = job[c].id /\ has'[t][b] = ref[b])
      BY <3>1, <3>2, <3>3
    <3> QED
      BY <1>4, <2>2, <3>4 DEF Ahead, Merge
  <2> QED
    BY <1>4, <2>1, <2>2 DEF Merge
<1>5. ASSUME NEW h \in Hands,
             HandStep(h) \/ \E d \in Boundaries : Integrate(h, d) \/ Despawn(h, d)
      PROVE  has' = has
  BY <1>5 DEF HandStep, IntegrateFetch, DespawnLook, DespawnCheck, DespawnRemove,
              DespawnBranch, Integrate, Despawn
<1>6. CASE UserSwitches \/ UserEdits \/ Lapse \/ DaemonRestarts \/ UNCHANGED convergeVars
  BY <1>6 DEF UserSwitches, UserEdits, Lapse, DaemonRestarts, convergeVars
<1> QED
  BY <1>1, <1>2, <1>3, <1>4, <1>5, <1>6 DEF ConvergeNext, MergeStep

LEMMA CopyStep ==
  ASSUME ConvergeTypeOK, JobInv, CopyInv, [ConvergeNext]_convergeVars
  PROVE  CopyInv'
<1> SUFFICES ASSUME NEW b \in Boundaries PROVE CopyOK(b)'
  BY DEF CopyInv
<1>0. /\ CopyOK(b) /\ made[b] \in Nat /\ (ref[b] = Nil \/ ref[b] \in Nat) /\ Nil \notin Commits
      /\ grain[b] \in {"worktree", "container"} /\ grain' = grain
      /\ \A t \in Heads : has[t][b] \in Nat
  BY HistoryStep, CommitNumbers DEF CopyInv
<1>1. CASE AgentCommits(b)
  <2>1. /\ made'[b] = made[b] + 1 /\ has' = has
        /\ grain[b] = "worktree" => ref'[b] = made[b] + 1
        /\ grain[b] = "container" => ref'[b] = ref[b] /\ clone'[b] = made[b] + 1
    BY <1>0, <1>1 DEF AgentCommits, checkoutVars, ConvergeTypeOK
  <2>2. \A t \in Heads : has'[t][b] <= made'[b]
    BY <1>0, <2>1 DEF CopyOK
  <2>3. ref'[b] = Nil \/ ref'[b] <= made'[b]
    BY <1>0, <2>1 DEF CopyOK
  <2> QED
    BY <1>0, <2>1, <2>2, <2>3 DEF CopyOK
<1>2. CASE BranchGoes(b)
  <2>1. \A t \in Heads : has'[t][b] <= made'[b]
    BY <1>0, <1>2, HasStep DEF CopyOK, BranchGoes
  <2>2. grain[b] = "worktree" /\ life'[b] \in {"launched", "exited"} => ref'[b] = made'[b]
    <3>1. CASE ref'[b] = Nil /\ \E h \in Hands : job[h].id = b /\ DespawnBranch(h)
      <4>1. PICK h \in Hands : job[h].id = b /\ DespawnBranch(h)
        BY <3>1
      <4>2. h \in Clients /\ Active(h) /\ JobOK(h)
        BY <4>1, ClientFacts DEF JobInv, Active, DespawnBranch
      <4>3. life[b] \in {"spawned", "left"} /\ life' = life
        BY <4>1, <4>2 DEF JobOK, CommandOK, DespawnBranch, IntegrateSteps
      <4> QED
        BY <4>3
    <3> QED
      BY <1>0, <1>2, <3>1, LifeStep DEF CopyOK, BranchGoes
  <2>3. ref'[b] = Nil \/ ref'[b] <= made'[b]
    BY <1>0, <1>2 DEF CopyOK, BranchGoes
  <2>4. /\ grain[b] = "container" => clone'[b] = made'[b]
        /\ grain[b] = "worktree" => ref'[b] \in {Nil, made'[b]}
    BY <1>0, <1>2 DEF CopyOK, BranchGoes
  <2> QED
    BY <1>0, <2>1, <2>2, <2>3, <2>4 DEF CopyOK
<1> QED
  BY <1>1, <1>2, BranchStep

-----------------------------------------------------------------------------
(* What a conductor has found out, and what it reports *)

\* Who may have moved a conductor, or the branch of the checkout.
LEMMA ConductorMoves ==
  ASSUME ConvergeTypeOK, [ConvergeNext]_convergeVars, NEW b \in Boundaries
  PROVE  \/ job'[b] = job[b]
         \/ AgentExits(b) \/ ConductorStep(b) \/ MergeStep(b) \/ Killed(b)
<1> USE DEF checkoutVars, boundaryVars, leaseVars, historyVars
<1>0. b \in Clients /\ b \notin Hands /\ job \in Jobs
      /\ ref \in [Boundaries -> Commits \cup {Nil}]
  BY ClientFacts DEF ConvergeTypeOK, Jobs
<1>1. ASSUME NEW d \in Boundaries,
             AgentCommits(d) \/ AgentExits(d) \/ AgentLeaves(d) \/ LauncherTeardown(d)
      PROVE  job'[b] = job[b] \/ AgentExits(b)
  <2>1. d = b => job'[b] = job[b] \/ AgentExits(b)
    BY <1>1 DEF AgentCommits, AgentLeaves, LauncherTeardown
  <2> QED
    BY <1>0, <1>1, <2>1, JobsAgents DEF OneJob
<1>2. ASSUME NEW d \in Boundaries, ConductorStep(d)
      PROVE  job'[b] = job[b] \/ ConductorStep(b)
  BY <1>0, <1>2, JobsConductor DEF OneJob
<1>3. ASSUME NEW c \in Clients, MergeStep(c) \/ Killed(c)
      PROVE  job'[b] = job[b] \/ MergeStep(b) \/ Killed(b)
  BY <1>0, <1>3, JobsMerge DEF OneJob
<1>4. ASSUME NEW h \in Hands,
             HandStep(h) \/ \E d \in Boundaries : Integrate(h, d) \/ Despawn(h, d)
      PROVE  job'[b] = job[b]
  BY <1>0, <1>4, JobsHand DEF OneJob
<1>5. CASE UserSwitches \/ UserEdits \/ Lapse \/ DaemonRestarts \/ UNCHANGED convergeVars
  BY <1>5 DEF UserSwitches, UserEdits, Lapse, DaemonRestarts, convergeVars
<1> QED
  BY <1>1, <1>2, <1>3, <1>4, <1>5 DEF ConvergeNext

LEMMA HeadStep ==
  ASSUME [ConvergeNext]_convergeVars
  PROVE  head' = head \/ UserSwitches
<1> USE DEF checkoutVars, boundaryVars, leaseVars, historyVars
<1>1. ASSUME NEW d \in Boundaries,
             AgentCommits(d) \/ AgentExits(d) \/ AgentLeaves(d) \/ LauncherTeardown(d)
      PROVE  head' = head
  BY <1>1 DEF AgentCommits, AgentExits, AgentLeaves, LauncherTeardown
<1>2. ASSUME NEW d \in Boundaries, ConductorStep(d)
      PROVE  head' = head
  BY <1>2 DEF ConductorStep, ConvergeFetch, ConvergeGuard, ConvergeGate, ConvergeRecheck
<1>3. ASSUME NEW c \in Clients, MergeStep(c) \/ Killed(c)
      PROVE  head' = head
  BY <1>3 DEF MergeStep, Wait, Merge, Release, Killed
<1>4. ASSUME NEW h \in Hands,
             HandStep(h) \/ \E d \in Boundaries : Integrate(h, d) \/ Despawn(h, d)
      PROVE  head' = head
  BY <1>4 DEF HandStep, IntegrateFetch, DespawnLook, DespawnCheck, DespawnRemove,
              DespawnBranch, Integrate, Despawn
<1>5. CASE UserEdits \/ Lapse \/ DaemonRestarts \/ UNCHANGED convergeVars
  BY <1>5 DEF UserEdits, Lapse, DaemonRestarts, convergeVars
<1> QED
  BY <1>1, <1>2, <1>3, <1>4, <1>5 DEF ConvergeNext

\* Only a merge that succeeded is reported as converged.
Landed(b) ==
  /\ Merge(b) /\ ref[b] # Nil /\ UNCHANGED made
  /\ has' = IF Ahead(b, head) THEN [has EXCEPT ![head][b] = ref[b]] ELSE has

LEMMA OutcomeStep ==
  ASSUME ConvergeTypeOK, JobInv, [ConvergeNext]_convergeVars, NEW b \in Boundaries, outcome'[b] = "converged"
  PROVE  outcome[b] = "converged" \/ Landed(b)
<1> USE DEF checkoutVars, boundaryVars, leaseVars, historyVars, Report
<1>0. DOMAIN outcome = Boundaries
  BY DEF ConvergeTypeOK
<1>1. ASSUME NEW d \in Boundaries,
             AgentCommits(d) \/ AgentExits(d) \/ AgentLeaves(d) \/ LauncherTeardown(d)
      PROVE  outcome' = outcome
  BY <1>1 DEF AgentCommits, AgentExits, AgentLeaves, LauncherTeardown
<1>2. ASSUME NEW d \in Boundaries, ConductorStep(d)
      PROVE  outcome[b] = "converged"
  <2>1. \/ outcome' = outcome
        \/ \E status \in {"error", "skipped", "gate_failed"} :
             outcome' = [outcome EXCEPT ![d] = status]
    BY <1>2 DEF ConductorStep, ConvergeFetch, ConvergeGuard, ConvergeGate, ConvergeRecheck
  <2> QED
    BY <1>0, <2>1
<1>3. ASSUME NEW c \in Clients, Wait(c) \/ Release(c) \/ Killed(c)
      PROVE  outcome[b] = "converged"
  <2>1. outcome' = outcome \/ outcome' = [outcome EXCEPT ![c] = "error"]
    BY <1>3 DEF Wait, Acquire, GiveUp, Release, Killed
  <2> QED
    BY <1>0, <2>1
<1>4. ASSUME NEW c \in Clients, Merge(c)
      PROVE  outcome[b] = "converged" \/ Landed(b)
  <2>1. CASE c = b
    <3>1. job[b].id = b
      BY <1>4, <2>1 DEF Merge, JobInv, JobOK, ConductorOK, Active
    <3> QED
      BY <1>0, <1>4, <2>1, <3>1 DEF Merge, Landed
  <2>2. CASE c # b
    <3>1. outcome'[b] = outcome[b]
      BY <1>0, <1>4, <2>2 DEF Merge
    <3> QED
      BY <3>1
  <2> QED
    BY <2>1, <2>2
<1>5. ASSUME NEW h \in Hands,
             HandStep(h) \/ \E d \in Boundaries : Integrate(h, d) \/ Despawn(h, d)
      PROVE  outcome' = outcome
  BY <1>5 DEF HandStep, IntegrateFetch, DespawnLook, DespawnCheck, DespawnRemove,
              DespawnBranch, Integrate, Despawn
<1>6. CASE UserSwitches \/ UserEdits \/ Lapse \/ DaemonRestarts \/ UNCHANGED convergeVars
  BY <1>6 DEF UserSwitches, UserEdits, Lapse, DaemonRestarts, convergeVars
<1> QED
  BY <1>1, <1>2, <1>3, <1>4, <1>5, <1>6 DEF ConvergeNext, MergeStep

\* What the step of a conductor tells of the next.
LEMMA ConductorGoes ==
  ASSUME ConvergeTypeOK, JobInv, CopyInv, NEW b \in Boundaries, GuardOK(b),
         AgentExits(b) \/ ConductorStep(b) \/ MergeStep(b) \/ Killed(b)
  PROVE  /\ Looked(b)' => head' = head /\ (Looked(b) \/ head = Target)
         /\ job'[b].at = "guard" \/ Looked(b)' => ref'[b] = made'[b]
<1> USE DEF checkoutVars, boundaryVars, leaseVars, historyVars
<1>0. /\ b \in Clients /\ b \notin Hands /\ job \in Jobs /\ JobOK(b) /\ CopyOK(b)
      /\ DOMAIN ref = Boundaries
  BY ClientFacts DEF ConvergeTypeOK, Jobs, JobInv, CopyInv
<1>1. CASE AgentExits(b)
  <2>1. job'[b].at = IF grain[b] = "container" THEN "fetch" ELSE "guard"
    BY <1>0, <1>1 DEF AgentExits, Jobs
  <2>2. grain[b] \in {"worktree", "container"}
    BY DEF ConvergeTypeOK
  <2> QED
    BY <1>0, <1>1, <2>1, <2>2 DEF AgentExits, CopyOK, Looked
<1>2. CASE ConvergeFetch(b)
  <2>1. Active(b) /\ grain[b] = "container"
    BY <1>0, <1>2 DEF ConvergeFetch, JobOK, ConductorOK, Active
  <2>2. CASE tree[b]
    <3>1. job'[b].at = "guard"
      BY <1>0, <1>2, <2>1, <2>2, GotoEffect DEF ConvergeFetch, Steps
    <3> QED
      BY <1>0, <1>2, <2>1, <2>2, <3>1 DEF ConvergeFetch, Fetch, CopyOK, Looked
  <2>3. CASE ~tree[b]
    <3>1. job'[b].at = "done"
      BY <1>0, <1>2, <2>3, DoneEffect DEF ConvergeFetch
    <3> QED
      BY <3>1 DEF Looked
  <2> QED
    BY <2>2, <2>3
<1>3. CASE ConvergeGuard(b)
  <2>1. UNCHANGED <<ref, made, head>> /\ ref[b] = made[b]
    BY <1>3 DEF ConvergeGuard, GuardOK
  <2>2. CASE head = Target
    BY <2>1, <2>2
  <2>3. CASE Done(b)
    BY <1>0, <2>3, DoneEffect DEF Looked
  <2> QED
    BY <1>3, <2>2, <2>3 DEF ConvergeGuard, OffTarget
<1>4. CASE ConvergeGate(b) \/ ConvergeRecheck(b) \/ Wait(b) \/ Merge(b) \/ Release(b) \/ Killed(b)
  <2>1. UNCHANGED <<ref, made, head>>
    BY <1>4 DEF ConvergeGate, ConvergeRecheck, Wait, Merge, Release, Killed
  <2>2. CASE Looked(b)
    BY <2>1, <2>2 DEF GuardOK
  <2>3. CASE Release(b) \/ Killed(b)
    <3>1. job'[b].at = "done"
      BY <1>0, <2>3, DoneEffect DEF Release, Killed
    <3> QED
      BY <3>1 DEF Looked
  <2> QED
    BY <1>4, <2>2, <2>3 DEF ConvergeGate, ConvergeRecheck, Wait, Merge, Looked
<1> QED
  BY <1>1, <1>2, <1>3, <1>4 DEF ConductorStep, MergeStep

\* Nobody changes the branch of a boundary whose conductor has read it.
LEMMA BranchRests ==
  ASSUME ConvergeTypeOK, JobInv, CopyInv, [ConvergeNext]_convergeVars, NEW b \in Boundaries, Active(b), ref[b] = made[b]
  PROVE  ref'[b] = made'[b]
<1>1. life[b] = "exited" /\ CopyOK(b)
  BY ClientFacts DEF JobInv, JobOK, ConductorOK, CopyInv
<1>2. ~AgentCommits(b)
  BY <1>1 DEF AgentCommits, Working
<1>3. \A h \in Hands : ~(job[h].id = b /\ DespawnBranch(h))
  BY <1>1, ClientFacts
  DEF JobInv, JobOK, CommandOK, Active, DespawnBranch, IntegrateSteps
<1> QED
  BY <1>1, <1>2, <1>3, BranchStep DEF BranchGoes, CopyOK

LEMMA GuardStep ==
  ASSUME ConvergeTypeOK, JobInv, CopyInv, GuardInv, [ConvergeNext]_convergeVars
  PROVE  GuardInv'
<1> SUFFICES ASSUME NEW b \in Boundaries PROVE GuardOK(b)'
  BY DEF GuardInv
<1>0. GuardOK(b) /\ b \in Clients
  BY ClientFacts DEF GuardInv
<1>1. moved \subseteq moved'
  BY HistoryStep
<1>2. Looked(b)' /\ b \notin moved' => head' = Target
  <2>1. CASE job'[b] = job[b]
    <3>1. CASE UserSwitches
      BY <2>1, <3>1 DEF UserSwitches, Looked
    <3>2. CASE head' = head
      BY <1>0, <1>1, <2>1, <3>2 DEF GuardOK, Looked
    <3> QED
      BY <3>1, <3>2, HeadStep
  <2>2. CASE AgentExits(b) \/ ConductorStep(b) \/ MergeStep(b) \/ Killed(b)
    BY <1>0, <1>1, <2>2, ConductorGoes DEF GuardOK
  <2> QED
    BY <2>1, <2>2, ConductorMoves
<1>3. job'[b].at = "guard" \/ Looked(b)' => ref'[b] = made'[b]
  <2>1. CASE job'[b] = job[b]
    BY <1>0, <2>1, BranchRests DEF GuardOK, Looked, Active
  <2>2. CASE AgentExits(b) \/ ConductorStep(b) \/ MergeStep(b) \/ Killed(b)
    BY <1>0, <2>2, ConductorGoes
  <2> QED
    BY <2>1, <2>2, ConductorMoves
<1>4. outcome'[b] = "converged" => life'[b] \in {"exited", "left"}
  <2>1. Landed(b) => life[b] = "exited"
    BY <1>0 DEF Landed, Merge, JobInv, JobOK, ConductorOK, Active
  <2>2. outcome'[b] = "converged" => life[b] \in {"exited", "left"}
    BY <1>0, <2>1, OutcomeStep DEF GuardOK
  <2> QED
    BY <2>2, LifeStep
<1> QED
  BY <1>2, <1>3, <1>4 DEF GuardOK

LEMMA ConvergedStep ==
  ASSUME ConvergeTypeOK, JobInv, CopyInv, GuardInv, ConvergedIsOnTarget, [ConvergeNext]_convergeVars
  PROVE  ConvergedIsOnTarget'
<1> SUFFICES ASSUME NEW b \in Boundaries, b \notin moved', outcome'[b] = "converged"
             PROVE  has'[Target][b] = made'[b]
  BY DEF ConvergedIsOnTarget
<1>0. /\ GuardOK(b) /\ CopyOK(b) /\ b \in Clients /\ b \notin moved
      /\ Target \in Heads
      /\ made[b] \in Nat /\ has[Target][b] \in Nat /\ (ref[b] = Nil \/ ref[b] \in Nat)
  BY ClientFacts, HistoryStep, CommitNumbers DEF GuardInv, CopyInv, Heads
<1>1. CASE outcome[b] = "converged"
  <2>1. has[Target][b] = made[b]
    BY <1>0, <1>1 DEF ConvergedIsOnTarget
  <2>2. ~AgentCommits(b)
    BY <1>0, <1>1 DEF GuardOK, AgentCommits, Working
  <2>3. made'[b] = made[b]
    BY <2>2, BranchStep DEF BranchGoes
  <2>4. has'[Target][b] = has[Target][b]
    BY <1>0, <2>1, HasStep DEF CopyOK
  <2> QED
    BY <2>1, <2>3, <2>4
<1>2. CASE Landed(b)
  <2>1. head = Target /\ ref[b] = made[b]
    BY <1>0, <1>2 DEF Landed, Merge, GuardOK, Looked
  <2>2. CASE Ahead(b, head)
    <3>1. DOMAIN has = Heads /\ DOMAIN has[Target] = Boundaries
      BY <1>0 DEF ConvergeTypeOK
    <3> QED
      BY <1>0, <1>2, <2>1, <2>2, <3>1 DEF Landed
  <2>3. CASE ~Ahead(b, head)
    <3>1. made[b] <= has[Target][b] /\ has[Target][b] <= made[b]
      BY <1>0, <1>2, <2>1, <2>3 DEF Ahead, Landed, CopyOK
    <3> QED
      BY <1>0, <1>2, <2>3, <3>1 DEF Landed
  <2> QED
    BY <2>2, <2>3
<1> QED
  BY <1>1, <1>2, OutcomeStep

-----------------------------------------------------------------------------
(* No commit is lost *)

\* A boundary keeps its commits: it is safe without its clone, or it has the clone.
LEMMA KeptIsSafe ==
  ASSUME NEW b \in Boundaries
  PROVE  Kept(b) <=> Safe(b) \/ (grain[b] = "container" /\ tree[b] /\ clone[b] = made[b])
BY DEF Kept, Safe

\* A clone may commit, and is then the only one to have the commit.
ClonesCommit(b) == AgentCommits(b) /\ grain[b] = "container"

\* git branch -d deletes what is in the checked-out branch.
LEMMA DeleteStep ==
  ASSUME ConvergeTypeOK, JobInv, CopyInv, DespawnInv, NEW h \in Hands, DespawnBranch(h),
         NEW b \in Boundaries, job[h].id = b, ref[b] = made[b]
  PROVE  Exempt(b) \/ (ref[b] # Nil => ref'[b] = made[b] \/ has[head][b] = made[b])
<1>1. CASE job[h].force
  BY <1>1 DEF DespawnInv, DespawnBranch, Exempt
<1>2. CASE ~job[h].force /\ Deletable(h)
  <2>1. ref[b] <= has[head][b]
    BY <1>2 DEF Deletable, CommitIntegrated
  <2>2. has[head][b] <= made[b] /\ made[b] \in Nat /\ has[head][b] \in Nat
    BY CommitNumbers DEF CopyInv, CopyOK, ConvergeTypeOK
  <2> QED
    BY <2>1, <2>2
<1>3. CASE ~Deletable(h)
  BY <1>3 DEF DespawnBranch
<1> QED
  BY <1>1, <1>2, <1>3

\* A boundary that is safe stays so, until its clone commits.
LEMMA SafeStep ==
  ASSUME ConvergeTypeOK, JobInv, CopyInv, DespawnInv, [ConvergeNext]_convergeVars, NEW b \in Boundaries,
         Safe(b) \/ Exempt(b), ~ClonesCommit(b)
  PROVE  Safe(b)' \/ Exempt(b)'
<1>0. /\ CopyOK(b) /\ head \in Heads
      /\ made[b] \in Nat /\ (ref[b] = Nil \/ ref[b] \in Nat) /\ Nil # made[b]
      /\ \A t \in Heads : has[t][b] \in Nat
      /\ grain[b] \in {"worktree", "container"}
  BY CommitNumbers DEF CopyInv, ConvergeTypeOK
<1>1. CASE Exempt(b)
  BY <1>1, HistoryStep DEF Exempt
<1>2. CASE AgentCommits(b)
  <2>1. ref'[b] = made'[b]
    BY <1>0, <1>2 DEF AgentCommits, ClonesCommit, ConvergeTypeOK
  <2> QED
    BY <2>1 DEF Safe
<1>3. CASE Safe(b) /\ BranchGoes(b)
  <2>1. \A t \in Heads : has[t][b] = made[b] => has'[t][b] = made'[b]
    BY <1>0, <1>3, HasStep DEF CopyOK, BranchGoes
  <2>2. CASE made[b] = 0 \/ \E t \in Heads : has[t][b] = made[b]
    BY <1>3, <2>1, <2>2 DEF Safe, BranchGoes
  <2>3. CASE ref[b] = made[b]
    <3>1. CASE ref'[b] = ref[b] \/ (grain[b] = "container" /\ ref'[b] = clone[b])
      BY <1>0, <1>3, <2>3, <3>1 DEF Safe, BranchGoes, CopyOK
    <3>2. ASSUME NEW h \in Hands, job[h].id = b, DespawnBranch(h)
          PROVE  Safe(b)' \/ Exempt(b)'
      <4>1. Exempt(b) \/ ref'[b] = made[b] \/ has[head][b] = made[b]
        BY <1>0, <2>3, <3>2, DeleteStep
      <4> QED
        BY <1>0, <1>1, <1>3, <2>1, <4>1 DEF Safe, BranchGoes
    <3> QED
      BY <1>3, <3>1, <3>2 DEF BranchGoes
  <2> QED
    BY <1>3, <2>2, <2>3 DEF Safe
<1> QED
  BY <1>1, <1>2, <1>3, BranchStep

\* A despawn that may go on finds the boundary safe, or notes why it need not be.
LEMMA CheckStep ==
  ASSUME ConvergeTypeOK, CopyInv, NothingDiscarded, NEW h \in Hands, NEW b \in Boundaries,
         b = job[h].id, job[h].saw \in Commits \cup {Nil},
         DespawnCheck(h), job[h].force \/ Discardable(b, job[h].saw)
  PROVE  /\ Safe(b) \/ Exempt(b)'
         /\ job[h].force => <<b, "forced">> \in waived'
<1>0. /\ CopyOK(b) /\ head \in Heads
      /\ made[b] \in Nat /\ clone[b] \in Nat
      /\ \A t \in Heads : has[t][b] \in Nat
      /\ grain' = grain
  BY CommitNumbers DEF CopyInv, ConvergeTypeOK, DespawnCheck
<1>1. waived' = waived \cup
        (IF job[h].force THEN {<<b, "forced">>}
         ELSE IF /\ grain[b] = "container" /\ tree[b]
                 /\ job[h].saw # Nil /\ clone[b] > job[h].saw
              THEN {<<b, "stale">>} ELSE {})
  BY DEF DespawnCheck
<1>2. Kept(b) \/ Exempt(b)
  BY DEF NothingDiscarded, Exempt
<1>3. CASE Exempt(b)
  BY <1>0, <1>1, <1>3 DEF Exempt
<1>4. CASE job[h].force
  BY <1>1, <1>4 DEF Exempt
<1>5. CASE /\ grain[b] = "container" /\ tree[b] /\ clone[b] = made[b] /\ ~job[h].force
  <2>1. job[h].saw = Nil \/ job[h].saw \in Nat
    BY BoundsAssumption DEF Commits
  <2>2. CASE job[h].saw # Nil /\ clone[b] > job[h].saw
    BY <1>1, <1>5, <2>2 DEF Exempt
  <2>3. CASE job[h].saw = Nil \/ ~(clone[b] > job[h].saw)
    <3>1. clone[b] <= has[head][b]
      BY <1>0, <1>5, <2>1, <2>3 DEF Discardable, CommitIntegrated
    <3>2. has[head][b] = made[b]
      BY <1>0, <1>5, <3>1 DEF CopyOK
    <3> QED
      BY <1>0, <1>5, <3>2 DEF Safe
  <2> QED
    BY <2>2, <2>3
<1> QED
  BY <1>2, <1>3, <1>4, <1>5, KeptIsSafe

\* Who may have moved a command.
LEMMA CommandMoves ==
  ASSUME ConvergeTypeOK, [ConvergeNext]_convergeVars, NEW h \in Hands
  PROVE  \/ job'[h] = job[h]
         \/ HandStep(h) \/ MergeStep(h) \/ Killed(h)
         \/ \E b \in Boundaries : Integrate(h, b) \/ Despawn(h, b)
<1> USE DEF checkoutVars, boundaryVars, leaseVars, historyVars
<1>0. h \in Clients /\ h \notin Boundaries /\ job \in Jobs
      /\ ref \in [Boundaries -> Commits \cup {Nil}]
  BY ClientFacts DEF ConvergeTypeOK, Jobs
<1>1. ASSUME NEW d \in Boundaries,
             \/ AgentCommits(d) \/ AgentExits(d) \/ AgentLeaves(d) \/ LauncherTeardown(d)
             \/ ConductorStep(d)
      PROVE  job'[h] = job[h]
  BY <1>0, <1>1, JobsAgents, JobsConductor DEF OneJob
<1>2. ASSUME NEW c \in Clients, MergeStep(c) \/ Killed(c)
      PROVE  job'[h] = job[h] \/ MergeStep(h) \/ Killed(h)
  BY <1>0, <1>2, JobsMerge DEF OneJob
<1>3. ASSUME NEW g \in Hands,
             HandStep(g) \/ \E d \in Boundaries : Integrate(g, d) \/ Despawn(g, d)
      PROVE  \/ job'[h] = job[h] \/ HandStep(h)
             \/ \E d \in Boundaries : Integrate(h, d) \/ Despawn(h, d)
  BY <1>0, <1>3, JobsHand DEF OneJob
<1>4. CASE UserSwitches \/ UserEdits \/ Lapse \/ DaemonRestarts \/ UNCHANGED convergeVars
  BY <1>4 DEF UserSwitches, UserEdits, Lapse, DaemonRestarts, convergeVars
<1> QED
  BY <1>1, <1>2, <1>3, <1>4 DEF ConvergeNext

\* A command removes when it has checked, and deletes the branch when it has removed.
LEMMA CommandGoes ==
  ASSUME ConvergeTypeOK, [ConvergeNext]_convergeVars, NEW h \in Hands, job'[h].at \in {"remove", "branch"}
  PROVE  \/ job'[h] = job[h]
         \/ /\ job'[h].id = job[h].id /\ job'[h].force = job[h].force
            /\ job[h] \in Job
            /\ \/ /\ DespawnCheck(h)
                  /\ job[h].force \/ Discardable(job[h].id, job[h].saw)
               \/ job[h].at = "remove" /\ job'[h].at = "branch"
<1> USE DEF checkoutVars, boundaryVars, leaseVars, historyVars
<1>0. h \in Clients /\ job \in Jobs
  BY ClientFacts DEF ConvergeTypeOK, Jobs
<1>1. ~Done(h)
  BY <1>0, DoneEffect
<1>2. ASSUME Active(h), NEW s \in Steps, Goto(h, s)
      PROVE  /\ s \in {"remove", "branch"} /\ job'[h].at = s /\ job[h] \in Job
             /\ job'[h].id = job[h].id /\ job'[h].force = job[h].force
  BY <1>0, <1>2, GotoEffect, ActiveHasJob
<1>3. CASE HandStep(h)
  <2>1. CASE IntegrateFetch(h)
    <3>1. \E s \in {"merge", "release"} : Goto(h, s)
      BY <2>1 DEF IntegrateFetch
    <3> QED
      BY <1>2, <2>1, <3>1 DEF IntegrateFetch, Active, Steps
  <2>2. CASE DespawnLook(h)
    <3>1. Active(h) /\ job[h].id \in Boundaries
      BY <1>0, <2>2, ActiveHasJob DEF DespawnLook, Active, Job
    <3>2. ref[job[h].id] \in Commits \cup {Nil}
      BY <3>1 DEF ConvergeTypeOK
    <3>3. job'[h].at = "check"
      BY <1>0, <2>2, <3>1, <3>2, LookEffect DEF DespawnLook
    <3> QED
      BY <3>3
  <2>3. CASE DespawnCheck(h)
    BY <1>1, <1>2, <2>3 DEF DespawnCheck, Active, Steps
  <2>4. CASE DespawnRemove(h)
    BY <1>1, <1>2, <2>4 DEF DespawnRemove, Active, Steps
  <2>5. CASE DespawnBranch(h)
    BY <1>1, <2>5 DEF DespawnBranch
  <2> QED
    BY <1>3, <2>1, <2>2, <2>3, <2>4, <2>5 DEF HandStep
<1>4. CASE MergeStep(h) \/ Killed(h)
  <2>1. Active(h) /\ \E s \in {"recheck", "fetch", "merge", "release"} : Goto(h, s)
    BY <1>1, <1>4 DEF MergeStep, Wait, Acquire, AfterGrant, GiveUp, Merge, Release, Killed, Active
  <2> QED
    BY <1>2, <2>1 DEF Steps
<1>5. ASSUME NEW b \in Boundaries, Integrate(h, b) \/ Despawn(h, b)
      PROVE  FALSE
  <2>1. \E do \in {"integrate", "despawn"}, at \in {"wait", "look"}, force \in BOOLEAN :
           job' = [job EXCEPT ![h] =
             [do |-> do, id |-> b, at |-> at, saw |-> Nil, force |-> force]]
    BY <1>5 DEF Integrate, Despawn
  <2>2. job'[h].at \in {"wait", "look"}
    BY <1>0, <2>1 DEF Jobs
  <2> QED
    BY <2>2
<1> QED
  BY <1>3, <1>4, <1>5, CommandMoves

LEMMA DespawnStep ==
  ASSUME ConvergeTypeOK, JobInv, CopyInv, DespawnInv, NothingDiscarded, [ConvergeNext]_convergeVars
  PROVE  DespawnInv'
<1> SUFFICES ASSUME NEW h \in Hands, job'[h].at \in {"remove", "branch"}
             PROVE  /\ job'[h].force => <<job'[h].id, "forced">> \in waived'
                    /\ job'[h].at = "remove" => Safe(job[h].id)' \/ Exempt(job[h].id)'
  BY DEF DespawnInv
<1>0. waived \subseteq waived' /\ job \in Jobs /\ h \in Clients
  BY HistoryStep, ClientFacts DEF ConvergeTypeOK, Jobs
<1>1. CASE job'[h] = job[h]
  <2>1. job[h].id \in Boundaries
    BY <1>0, <1>1, ActiveHasJob DEF Active, Job
  <2>2. CASE ClonesCommit(job[h].id) /\ job[h].at = "remove"
    <3>1. Overlooked(job[h].id)
      BY <2>2 DEF Overlooked
    <3>2. <<job[h].id, "late">> \in waived' /\ grain'[job[h].id] = "container"
      BY <2>2, <3>1 DEF ClonesCommit, AgentCommits
    <3> QED
      BY <1>0, <1>1, <3>2 DEF DespawnInv, Exempt
  <2>3. CASE ~ClonesCommit(job[h].id) \/ job[h].at # "remove"
    BY <1>0, <1>1, <2>1, <2>3, SafeStep DEF DespawnInv
  <2> QED
    BY <2>2, <2>3
<1>2. CASE /\ job'[h].id = job[h].id /\ job'[h].force = job[h].force /\ job[h] \in Job
           /\ DespawnCheck(h) /\ (job[h].force \/ Discardable(job[h].id, job[h].saw))
  <2>1. PICK b \in Boundaries : b = job[h].id
    BY <1>2 DEF Job
  <2>2. job[h].saw \in Commits \cup {Nil}
    BY <1>2 DEF Job
  <2>3. /\ Safe(b) \/ Exempt(b)'
        /\ job[h].force => <<b, "forced">> \in waived'
    BY <1>2, <2>1, <2>2, CheckStep
  <2>4. UNCHANGED <<made, ref, has>>
    BY <1>2 DEF DespawnCheck, checkoutVars, boundaryVars
  <2>5. Safe(b) => Safe(b)'
    BY <2>4 DEF Safe
  <2> QED
    BY <1>2, <2>1, <2>3, <2>5
<1>3. CASE /\ job'[h].id = job[h].id /\ job'[h].force = job[h].force
           /\ job[h].at = "remove" /\ job'[h].at = "branch"
  BY <1>0, <1>3 DEF DespawnInv
<1> QED
  BY <1>1, <1>2, <1>3, CommandGoes

\* Who takes a boundary's directory away.
LEMMA TreeStep ==
  ASSUME ConvergeTypeOK, [ConvergeNext]_convergeVars, NEW b \in Boundaries
  PROVE  \/ tree'[b] = tree[b]
         \/ LauncherTeardown(b)
         \/ \E h \in Hands : DespawnRemove(h) /\ job[h].id = b
<1> USE DEF checkoutVars, boundaryVars, leaseVars, historyVars
<1>0. DOMAIN tree = Boundaries
  BY DEF ConvergeTypeOK
<1>1. ASSUME NEW d \in Boundaries,
             AgentCommits(d) \/ AgentExits(d) \/ AgentLeaves(d) \/ LauncherTeardown(d)
      PROVE  tree'[b] = tree[b] \/ LauncherTeardown(b)
  BY <1>0, <1>1 DEF AgentCommits, AgentExits, AgentLeaves, LauncherTeardown
<1>2. ASSUME NEW d \in Boundaries, ConductorStep(d)
      PROVE  tree' = tree
  BY <1>2 DEF ConductorStep, ConvergeFetch, ConvergeGuard, ConvergeGate, ConvergeRecheck
<1>3. ASSUME NEW c \in Clients, MergeStep(c) \/ Killed(c)
      PROVE  tree' = tree
  BY <1>3 DEF MergeStep, Wait, Merge, Release, Killed
<1>4. ASSUME NEW h \in Hands, DespawnRemove(h)
      PROVE  tree'[b] = tree[b] \/ job[h].id = b
  BY <1>0, <1>4 DEF DespawnRemove
<1>5. ASSUME NEW h \in Hands,
             \/ IntegrateFetch(h) \/ DespawnLook(h) \/ DespawnCheck(h) \/ DespawnBranch(h)
             \/ \E d \in Boundaries : Integrate(h, d) \/ Despawn(h, d)
      PROVE  tree' = tree
  BY <1>5 DEF IntegrateFetch, DespawnLook, DespawnCheck, DespawnBranch, Integrate, Despawn
<1>6. CASE UserSwitches \/ UserEdits \/ Lapse \/ DaemonRestarts \/ UNCHANGED convergeVars
  BY <1>6 DEF UserSwitches, UserEdits, Lapse, DaemonRestarts, convergeVars
<1> QED
  BY <1>1, <1>2, <1>3, <1>4, <1>5, <1>6 DEF ConvergeNext, HandStep

LEMMA DiscardStep ==
  ASSUME ConvergeTypeOK, JobInv, CopyInv, DespawnInv, NothingDiscarded, [ConvergeNext]_convergeVars
  PROVE  NothingDiscarded'
<1> SUFFICES ASSUME NEW b \in Boundaries PROVE Kept(b)' \/ Exempt(b)'
  BY DEF NothingDiscarded, Exempt
<1>0. /\ Kept(b) \/ Exempt(b)
      /\ CopyOK(b) /\ grain' = grain /\ DOMAIN tree = Boundaries /\ DOMAIN ref = Boundaries
      /\ DOMAIN clone = Boundaries /\ DOMAIN made = Boundaries
  BY HistoryStep DEF NothingDiscarded, Exempt, CopyInv, ConvergeTypeOK
<1>1. CASE ClonesCommit(b)
  <2>1. /\ grain'[b] = "container" /\ clone'[b] = made'[b] /\ tree'[b]
    BY <1>0, <1>1 DEF ClonesCommit, AgentCommits, Working
  <2> QED
    BY <2>1 DEF Kept
<1>2. CASE ~ClonesCommit(b) /\ (Safe(b) \/ Exempt(b))
  BY <1>2, SafeStep DEF Kept, Safe
<1>3. CASE /\ ~ClonesCommit(b)
           /\ grain[b] = "container" /\ tree[b] /\ clone[b] = made[b]
  <2>1. clone'[b] = made'[b] /\ made'[b] = made[b]
    BY <1>3, BranchStep DEF BranchGoes, ClonesCommit
  <2>2. CASE tree'[b] = tree[b]
    BY <1>0, <1>3, <2>1, <2>2 DEF Kept
  <2>3. CASE LauncherTeardown(b)
    <3>1. ref'[b] = made'[b]
      BY <1>0, <1>3, <2>1, <2>3 DEF LauncherTeardown
    <3> QED
      BY <3>1 DEF Kept
  <2>4. ASSUME NEW h \in Hands, DespawnRemove(h), job[h].id = b
        PROVE  Kept(b)' \/ Exempt(b)'
    <3>1. Safe(b) \/ Exempt(b)
      BY <2>4 DEF DespawnInv, DespawnRemove
    <3> QED
      BY <1>2, <1>3, <3>1
  <2> QED
    BY <2>2, <2>3, <2>4, TreeStep
<1> QED
  BY <1>0, <1>1, <1>2, <1>3, KeptIsSafe

-----------------------------------------------------------------------------
(* The theorems *)

LEMMA Begins == ConvergeInit => ConvergeTypeOK /\ MergeInv
<1> SUFFICES ASSUME ConvergeInit PROVE ConvergeTypeOK /\ MergeInv
  OBVIOUS
<1>0. 0 \in Commits /\ Nil \notin Clients /\ \A c \in Clients : job[c].at = "idle"
  BY ClientFacts, BoundsAssumption DEF Commits, ConvergeInit, NoJob
<1>1. ConvergeTypeOK
  BY <1>0 DEF ConvergeInit, ConvergeTypeOK, Heads
<1>2. JobInv /\ LeaseInv /\ DespawnInv
  <2>1. JobInv /\ DespawnInv
    BY <1>0, ClientFacts DEF JobInv, JobOK, Active, DespawnInv
  <2>2. lease = Nil /\ ~adrift /\ \A c \in Clients : ~InSection(c)
    BY <1>0 DEF ConvergeInit, InSection
  <2> QED
    BY <2>1, <2>2 DEF LeaseInv, UnderLease
<1>3. CopyInv
  BY <1>0 DEF ConvergeInit, CopyInv, CopyOK, Heads
<1>4. GuardInv /\ ConvergedIsOnTarget
  <2>1. \A b \in Boundaries : job[b].at = "idle" /\ outcome[b] # "converged"
    BY <1>0, ClientFacts, ClientsAssumption DEF ConvergeInit
  <2> QED
    BY <2>1 DEF GuardInv, GuardOK, Looked, ConvergedIsOnTarget
<1>5. NothingDiscarded
  BY DEF ConvergeInit, NothingDiscarded, Kept
<1> QED
  BY <1>1, <1>2, <1>3, <1>4, <1>5 DEF MergeInv

LEMMA MergeInvariant == ConvergeSpec => [](ConvergeTypeOK /\ MergeInv)
<1>1. ConvergeTypeOK /\ MergeInv /\ [ConvergeNext]_convergeVars => ConvergeTypeOK' /\ MergeInv'
  BY TypeStep, JobStep, LeaseStep, CopyStep, GuardStep, ConvergedStep, DespawnStep, DiscardStep
  DEF MergeInv
<1> QED
  BY <1>1, Begins, PTL DEF ConvergeSpec

\* The merges into the checkout, with any number of agents and commands: whoever merges
\* holds the trunk lease, nobody keeps it who has returned from Converge or from
\* integrate, and a conductor that reports converged has put all of its agent's commits
\* on the branch the agent was launched from.
THEOREM ConvergesInTurn == ConvergeSpec => []ConvergeInv
<1>1. ConvergeTypeOK /\ MergeInv => ConvergeInv
  BY DEF MergeInv, LeaseInv, ConvergeInv
<1> QED
  BY <1>1, MergeInvariant, PTL

\* No commit of an agent is lost for want of --force: it is on the agent's branch, in its
\* clone or on a branch it was merged into, but for the two races that despawn loses
\* against a clone.
THEOREM CommitsAreKept == ConvergeSpec => []NothingDiscarded
<1>1. ConvergeTypeOK /\ MergeInv => NothingDiscarded
  BY DEF MergeInv
<1> QED
  BY <1>1, MergeInvariant, PTL
==============================================================================
