------------------------------- MODULE Converge -------------------------------
(* How agents' branches reach the branch they were launched from, in the        *)
(* checkout the user works in: the conductor that a launcher runs after a clean *)
(* exit (internal/conductor, internal/launcher), the commands integrate and     *)
(* despawn (cmd/mad-trellis), the agents that commit meanwhile, and the user,   *)
(* who may check out another branch, edit and commit.  Merges are serialized by *)
(* the trunk lease of the daemon, which may restart.                            *)
EXTENDS Naturals, FiniteSets

CONSTANTS
  Boundaries,  \* sandboxes of launched or spawned agents; each launcher's conductor
  Hands,       \* terminals of the user, one command each
  Target,      \* the branch every boundary was launched from
  Other,       \* another branch the user may check out
  MaxCommits,  \* bound: commits an agent makes
  Faults,      \* what else may happen
  Nil

ASSUME BranchesAssumption == Target # Other
ASSUME ClientsAssumption ==
  /\ Nil \notin Boundaries \cup Hands \cup 0..MaxCommits /\ Nil # "converged"
  /\ Boundaries \cap Hands = {}
ASSUME BoundsAssumption == MaxCommits \in Nat

VARIABLES
  head, wip,           \* the checkout: its branch; uncommitted changes to tracked files
  has,                 \* per branch and boundary: how many of the agent's commits it contains
  ref,                 \* refs/heads/nm/<slug> of the repository: commits, or Nil
  clone,               \* the same ref in a container boundary's own clone
  grain, tree,         \* the boundary: its kind, its directory
  life, made,          \* its agent: running how, with how many commits
  lease, adrift,       \* the trunk lease's holder; held by nobody who would release it
  job, cut,            \* what each process is doing; whose daemon connection has broken
  outcome,             \* Result.Status of each boundary's conductor
  moved,               \* conductors whose checkout changed branch after they looked at it
  waived,              \* why a boundary's commits may have been discarded
  disturbed            \* the user, a fault or a conflict has come between

checkoutVars == <<head, wip, has>>
boundaryVars == <<ref, clone, tree>>
leaseVars == <<lease, adrift, cut>>
historyVars == <<moved, waived, disturbed>>
convergeVars == <<checkoutVars, boundaryVars, grain, life, made, leaseVars, job, outcome, historyVars>>

Clients == Boundaries \cup Hands
Heads == {Target, Other}
Commits == 0..MaxCommits
NoJob == [at |-> "idle"]
Steps == {"fetch", "guard", "gate", "wait", "recheck", "merge", "release",
          "look", "check", "remove", "branch"}
Job == [do : {"converge", "integrate", "despawn"}, id : Boundaries, at : Steps,
        saw : Commits \cup {Nil}, force : BOOLEAN]

ConvergeTypeOK ==
  /\ head \in Heads /\ wip \in BOOLEAN
  /\ has \in [Heads -> [Boundaries -> Commits]]
  /\ ref \in [Boundaries -> Commits \cup {Nil}] /\ clone \in [Boundaries -> Commits]
  /\ grain \in [Boundaries -> {"worktree", "container"}]
  /\ tree \in [Boundaries -> BOOLEAN]
  /\ life \in [Boundaries -> {"spawned", "launched", "exited", "left"}]
  /\ made \in [Boundaries -> Commits]
  /\ lease \in Clients \cup {Nil} /\ adrift \in BOOLEAN /\ cut \subseteq Clients
  /\ job \in [Clients -> Job \cup {NoJob, [at |-> "done"]}]
  /\ outcome \in [Boundaries -> {Nil, "converged", "gate_failed", "conflict", "skipped",
                                 "error"}]
  /\ moved \subseteq Boundaries /\ disturbed \in BOOLEAN
  /\ waived \subseteq Boundaries \X {"forced", "stale", "late"}

ConvergeInit ==
  /\ head = Target /\ wip = FALSE
  /\ has = [t \in Heads |-> [b \in Boundaries |-> 0]]
  /\ grain \in [Boundaries -> {"worktree", "container"}]
  /\ ref = [b \in Boundaries |-> IF grain[b] = "worktree" THEN 0 ELSE Nil]
  /\ clone = [b \in Boundaries |-> 0]
  /\ tree = [b \in Boundaries |-> TRUE]
  /\ life \in [Boundaries -> {"spawned", "launched"}]
  /\ made = [b \in Boundaries |-> 0]
  /\ lease = Nil /\ adrift = FALSE /\ cut = {}
  /\ job = [c \in Clients |-> NoJob]
  /\ outcome = [b \in Boundaries |-> Nil]
  /\ moved = {} /\ waived = {} /\ disturbed = FALSE

-----------------------------------------------------------------------------
(* Agents, and the user at the checkout *)

Working(b) == life[b] \in {"spawned", "launched"} /\ tree[b]

\* A despawn of the boundary that has looked already will not see this commit.
Overlooked(b) == \E h \in Hands : job[h].at = "remove" /\ job[h].id = b

\* A commit on nm/<slug>: a ref of the repository itself, or of the clone alone.
AgentCommits(b) ==
  /\ Working(b) /\ made[b] < MaxCommits
  /\ Overlooked(b) => "late" \in Faults
  /\ made' = [made EXCEPT ![b] = @ + 1]
  /\ IF grain[b] = "worktree"
     THEN ref' = [ref EXCEPT ![b] = made[b] + 1] /\ UNCHANGED clone
     ELSE clone' = [clone EXCEPT ![b] = made[b] + 1] /\ UNCHANGED ref
  /\ waived' = IF Overlooked(b) THEN waived \cup {<<b, "late">>} ELSE waived
  /\ UNCHANGED <<checkoutVars, grain, tree, life, leaseVars, job, outcome, moved, disturbed>>

\* The agent of a launch exits: on exit code 0, and unless the manifest, MAD_CONDUCTOR,
\* MAD_CONVERGE_MODE or the answer to the prompt says no, the conductor runs.
AgentExits(b) ==
  /\ life[b] = "launched"
  /\ life' = [life EXCEPT ![b] = "exited"]
  /\ job' = [job EXCEPT ![b] = [do |-> "converge", id |-> b, saw |-> Nil, force |-> FALSE,
                                at |-> IF grain[b] = "container" THEN "fetch" ELSE "guard"]]
  /\ UNCHANGED <<checkoutVars, boundaryVars, grain, made, leaseVars, outcome, historyVars>>

AgentLeaves(b) ==
  /\ life[b] = "launched"
  /\ life' = [life EXCEPT ![b] = "exited"]
  /\ UNCHANGED <<checkoutVars, boundaryVars, grain, made, leaseVars, job, outcome, historyVars>>

\* The deferred teardown of a launch, after its conductor: a worktree's branch stays,
\* a clone's is harvested before the clone goes.
LauncherTeardown(b) ==
  /\ life[b] = "exited" /\ job[b].at \in {"idle", "done"}
  /\ life' = [life EXCEPT ![b] = "left"]
  /\ tree' = [tree EXCEPT ![b] = FALSE]
  /\ ref' = IF grain[b] = "container" /\ tree[b] THEN [ref EXCEPT ![b] = clone[b]] ELSE ref
  /\ UNCHANGED <<checkoutVars, clone, grain, made, leaseVars, job, outcome, historyVars>>

\* What the user does in the checkout between any two steps of the commands.
Looked(b) == job[b].at \in {"gate", "wait", "recheck", "merge"}

UserSwitches ==
  /\ "user" \in Faults
  /\ head' = IF head = Target THEN Other ELSE Target
  /\ moved' = moved \cup {b \in Boundaries : Looked(b)}
  /\ disturbed' = TRUE
  /\ UNCHANGED <<wip, has, boundaryVars, grain, life, made, leaseVars, job, outcome, waived>>

UserEdits ==
  /\ "user" \in Faults
  /\ wip' = ~wip
  /\ disturbed' = TRUE
  /\ UNCHANGED <<head, has, boundaryVars, grain, life, made, leaseVars, job, outcome, moved,
                 waived>>

-----------------------------------------------------------------------------
(* The trunk lease, as one process sees it through its own connection *)

InSection(c) ==
  \/ job[c].at \in {"recheck", "merge", "release"}
  \/ job[c].at = "fetch" /\ job[c].do = "integrate"

Goto(c, step) == job' = [job EXCEPT ![c].at = step]

\* The process is through; a conductor reports its status.
Done(c) == job' = [job EXCEPT ![c] = [at |-> "done"]]
Report(c, status) == outcome' = IF c \in Boundaries THEN [outcome EXCEPT ![c] = status]
                                ELSE outcome

AfterGrant(c) ==
  IF job[c].do = "converge" THEN "recheck"
  ELSE IF grain[job[c].id] = "container" THEN "fetch" ELSE "merge"

\* lease.acquire, retried while somebody else holds the lease.
Acquire(c) ==
  /\ lease = Nil
  /\ lease' = c
  /\ Goto(c, AfterGrant(c))
  /\ UNCHANGED outcome

\* The tries are used up.  A merge is fast, so that only a lease nobody will give back
\* outlasts them; or else the machine is slow.
GiveUp(c) ==
  /\ lease # Nil
  /\ adrift \/ "slow" \in Faults
  /\ Done(c) /\ Report(c, "error")
  /\ UNCHANGED lease

Wait(c) ==
  /\ job[c].at = "wait"
  /\ IF c \in cut
     THEN Done(c) /\ Report(c, "error") /\ UNCHANGED lease
     ELSE Acquire(c) \/ GiveUp(c)
  /\ cut' = cut \ {c}
  /\ disturbed' = (disturbed \/ outcome' # outcome)
  /\ UNCHANGED <<checkoutVars, boundaryVars, grain, life, made, adrift, moved, waived>>

\* The deferred lease.release: over a connection that broke it comes to nothing.
Release(c) ==
  /\ job[c].at = "release"
  /\ lease' = IF c \in cut THEN lease ELSE Nil
  /\ adrift' = (c \in cut) /\ cut' = cut \ {c}
  /\ Done(c)
  /\ UNCHANGED <<checkoutVars, boundaryVars, grain, life, made, outcome, historyVars>>

\* The lease's two minutes are over; the merge under it is assumed to be faster.
Lapse ==
  /\ lease # Nil /\ adrift
  /\ lease' = Nil /\ adrift' = FALSE
  /\ UNCHANGED <<checkoutVars, boundaryVars, grain, life, made, cut, job, outcome, historyVars>>

\* Every connection breaks; the lease is durable, and may just have been granted to
\* a process that never gets the reply.
DaemonRestarts ==
  /\ "restart" \in Faults
  /\ cut' = cut \cup {c \in Clients : job[c].at = "wait" \/ InSection(c)}
  /\ cut' # cut
  /\ \/ UNCHANGED <<lease, adrift>>
     \/ \E c \in cut' : /\ lease = Nil /\ job[c].at = "wait"
                        /\ lease' = c /\ adrift' = TRUE
  /\ disturbed' = TRUE
  /\ UNCHANGED <<checkoutVars, boundaryVars, grain, life, made, job, outcome, moved, waived>>

\* A process is killed; a merge it was in leaves the checkout as it happens to be.
Killed(c) ==
  /\ "kill" \in Faults /\ job[c].at \notin {"idle", "done"}
  /\ Done(c)
  /\ adrift' = (adrift \/ InSection(c)) /\ cut' = cut \ {c}
  /\ wip' \in IF job[c].at = "merge" THEN BOOLEAN ELSE {wip}
  /\ disturbed' = TRUE
  /\ UNCHANGED <<head, has, boundaryVars, grain, life, made, lease, outcome, moved, waived>>

-----------------------------------------------------------------------------
(* The conductor: guards and gate without the lease, the merge under it *)

\* git rev-list --count onto..nm/<slug> is not zero.
Ahead(b, onto) == ref[b] # Nil /\ ref[b] > has[onto][b]

\* Faulty Fetch: a branch that is there already is not fetched again.
FetchOnce(b) == IF ref[b] = Nil THEN [ref EXCEPT ![b] = clone[b]] ELSE ref

\* git fetch <clone> +nm/<slug>:nm/<slug>.
Fetch(b) == [ref EXCEPT ![b] = clone[b]]

ConvergeFetch(b) ==
  /\ job[b].at = "fetch"
  /\ IF tree[b]
     THEN ref' = Fetch(b) /\ Goto(b, "guard") /\ UNCHANGED outcome
     ELSE Done(b) /\ Report(b, "error") /\ UNCHANGED ref
  /\ UNCHANGED <<checkoutVars, clone, tree, grain, life, made, leaseVars, historyVars>>

\* Faulty OffTarget: no drift guard.
OffTargetNever == FALSE

\* The drift guard.
OffTarget == head # Target

\* The read-only guards: drift, nothing to converge, a dirty checkout.
ConvergeGuard(b) ==
  /\ job[b].at = "guard"
  /\ \/ OffTarget /\ Done(b) /\ Report(b, "skipped")
     \/ ~OffTarget /\ ref[b] = Nil /\ Done(b) /\ Report(b, "error")
     \/ /\ ~OffTarget /\ ref[b] # Nil /\ (~Ahead(b, Target) \/ wip)
        /\ Done(b) /\ Report(b, "skipped")
     \/ ~OffTarget /\ Ahead(b, Target) /\ ~wip /\ Goto(b, "gate") /\ UNCHANGED outcome
  /\ UNCHANGED <<checkoutVars, boundaryVars, grain, life, made, leaseVars, historyVars>>

\* The gate, in the boundary or its container; an error counts as a failure.
ConvergeGate(b) ==
  /\ job[b].at = "gate"
  /\ \/ Goto(b, "wait") /\ UNCHANGED <<outcome, disturbed>>
     \/ "gate" \in Faults /\ Done(b) /\ Report(b, "gate_failed") /\ disturbed' = TRUE
  /\ UNCHANGED <<checkoutVars, boundaryVars, grain, life, made, leaseVars, moved, waived>>

\* The one guard that is repeated under the lease.
ConvergeRecheck(b) ==
  /\ job[b].at = "recheck"
  /\ IF Ahead(b, Target)
     THEN Goto(b, "merge") /\ UNCHANGED outcome
     ELSE Goto(b, "release") /\ Report(b, IF ref[b] = Nil THEN "error" ELSE "skipped")
  /\ UNCHANGED <<checkoutVars, boundaryVars, grain, life, made, leaseVars, historyVars>>

\* git merge --no-ff into whatever branch is checked out; a failure, for which
\* uncommitted changes in its way suffice, is aborted.
Merge(c) ==
  LET b == job[c].id IN
  /\ job[c].at = "merge"
  /\ \/ /\ ref[b] # Nil
        /\ has' = IF Ahead(b, head) THEN [has EXCEPT ![head][b] = ref[b]] ELSE has
        /\ Goto(c, "release") /\ Report(c, "converged")
        /\ UNCHANGED disturbed
     \/ /\ ref[b] = Nil \/ wip \/ "conflict" \in Faults
        /\ Goto(c, "release") /\ Report(c, "conflict")
        /\ disturbed' = (disturbed \/ c \in Boundaries)
        /\ UNCHANGED has
  /\ UNCHANGED <<head, wip, boundaryVars, grain, life, made, leaseVars, moved, waived>>

-----------------------------------------------------------------------------
(* The commands integrate and despawn *)

Integrate(h, b) ==
  /\ job[h] = NoJob
  /\ job' = [job EXCEPT ![h] =
       [do |-> "integrate", id |-> b, at |-> "wait", saw |-> Nil, force |-> FALSE]]
  /\ UNCHANGED <<checkoutVars, boundaryVars, grain, life, made, leaseVars, outcome, historyVars>>

\* --from: the clone's branch is fetched first, under the lease.
IntegrateFetch(h) ==
  LET b == job[h].id IN
  /\ job[h].at = "fetch"
  /\ IF tree[b]
     THEN ref' = Fetch(b) /\ Goto(h, "merge")
     ELSE UNCHANGED ref /\ Goto(h, IF ref[b] = Nil THEN "release" ELSE "merge")
  /\ UNCHANGED <<checkoutVars, clone, tree, grain, life, made, leaseVars, outcome,
                 historyVars>>

Despawn(h, b) ==
  /\ job[h] = NoJob /\ life[b] \in {"spawned", "left"}
  /\ \E force \in {FALSE} \cup {f \in {TRUE} : "force" \in Faults} :
       job' = [job EXCEPT ![h] =
         [do |-> "despawn", id |-> b, at |-> "look", saw |-> Nil, force |-> force]]
  /\ UNCHANGED <<checkoutVars, boundaryVars, grain, life, made, leaseVars, outcome, historyVars>>

\* The tip of nm/<slug> in the repository, read once.
DespawnLook(h) ==
  /\ job[h].at = "look"
  /\ job' = [job EXCEPT ![h].at = "check", ![h].saw = ref[job[h].id]]
  /\ UNCHANGED <<checkoutVars, boundaryVars, grain, life, made, leaseVars, outcome, historyVars>>

\* commitIntegrated: reachable from the HEAD of the checkout.
CommitIntegrated(b, n) == n <= has[head][b]

\* Faulty Discardable: only the repository's own ref is looked at.
DiscardableAbsent(b, saw) == saw = Nil \/ CommitIntegrated(b, saw)

\* The tip, in the repository or else in the clone, is integrated.
Discardable(b, saw) ==
  /\ saw # Nil => CommitIntegrated(b, saw)
  /\ saw = Nil /\ tree[b] => CommitIntegrated(b, clone[b])

\* Without --force nothing uncommitted or unintegrated may go.
DespawnCheck(h) ==
  LET b == job[h].id
      stale == grain[b] = "container" /\ tree[b] /\ job[h].saw # Nil /\ clone[b] > job[h].saw
  IN  /\ job[h].at = "check"
      /\ IF job[h].force \/ Discardable(b, job[h].saw)
         THEN /\ \/ Goto(h, "remove")
                 \/ "dirty" \in Faults /\ tree[b] /\ ~job[h].force /\ Done(h)
              /\ waived' = waived \cup (IF job[h].force THEN {<<b, "forced">>}
                                        ELSE IF stale THEN {<<b, "stale">>} ELSE {})
         ELSE Done(h) /\ UNCHANGED waived
      /\ UNCHANGED <<checkoutVars, boundaryVars, grain, life, made, leaseVars, outcome, moved,
                     disturbed>>

\* The worktree or the clone goes, unless a foreign tool has locked the worktree.
DespawnRemove(h) ==
  LET b == job[h].id IN
  /\ job[h].at = "remove"
  /\ \/ /\ tree' = [tree EXCEPT ![b] = FALSE]
        /\ IF job[h].saw # Nil THEN Goto(h, "branch") ELSE Done(h)
     \/ /\ "locked" \in Faults /\ tree[b] /\ grain[b] = "worktree"
        /\ Done(h)
        /\ UNCHANGED <<tree>>
  /\ UNCHANGED <<checkoutVars, ref, clone, grain, life, made, leaseVars, outcome, historyVars>>

\* Faulty Deletable: git branch -D.
DeletableForced(h) == TRUE

\* git branch -d, which looks at HEAD for itself; -D with --force.
Deletable(h) ==
  LET b == job[h].id IN job[h].force \/ CommitIntegrated(b, ref[b])

DespawnBranch(h) ==
  LET b == job[h].id IN
  /\ job[h].at = "branch"
  /\ ref' = IF ref[b] # Nil /\ Deletable(h) THEN [ref EXCEPT ![b] = Nil] ELSE ref
  /\ Done(h)
  /\ UNCHANGED <<checkoutVars, clone, tree, grain, life, made, leaseVars, outcome,
                 historyVars>>

-----------------------------------------------------------------------------

ConductorStep(b) ==
  ConvergeFetch(b) \/ ConvergeGuard(b) \/ ConvergeGate(b) \/ ConvergeRecheck(b)
HandStep(h) ==
  \/ IntegrateFetch(h)
  \/ DespawnLook(h) \/ DespawnCheck(h) \/ DespawnRemove(h) \/ DespawnBranch(h)
MergeStep(c) == Wait(c) \/ Merge(c) \/ Release(c)

ConvergeNext ==
  \/ \E b \in Boundaries :
       \/ AgentCommits(b) \/ AgentExits(b) \/ AgentLeaves(b)
       \/ LauncherTeardown(b) \/ ConductorStep(b)
  \/ \E h \in Hands : HandStep(h) \/ \E b \in Boundaries : Integrate(h, b) \/ Despawn(h, b)
  \/ \E c \in Clients : MergeStep(c) \/ Killed(c)
  \/ UserSwitches \/ UserEdits \/ Lapse \/ DaemonRestarts

\* A process that runs goes on, and time passes.
ConvergeFairness ==
  /\ \A b \in Boundaries : WF_convergeVars(ConductorStep(b))
  /\ \A h \in Hands : WF_convergeVars(HandStep(h))
  /\ \A c \in Clients : WF_convergeVars(MergeStep(c))
  /\ WF_convergeVars(Lapse)

ConvergeSpec == ConvergeInit /\ [][ConvergeNext]_convergeVars
FairConvergeSpec == ConvergeSpec /\ ConvergeFairness

-----------------------------------------------------------------------------
(* Properties *)

\* Whoever fetches or merges under the trunk lease holds it, and every return of
\* Converge and of integrate has released what it acquired, unless the process was
\* killed or its connection broke.
UnderLease ==
  /\ \A c \in Clients : InSection(c) => lease = c
  /\ lease # Nil => InSection(lease) \/ adrift

\* A conductor that reports converged has put all of its agent's commits on the
\* branch the agent was launched from, whoever integrated or despawned meanwhile, as
\* long as the user kept that branch checked out.
ConvergedIsOnTarget ==
  \A b \in Boundaries \ moved : outcome[b] = "converged" => has[Target][b] = made[b]

\* The merges' section, and what they report, with the types (Converge).
ConvergeInv == ConvergeTypeOK /\ UnderLease /\ ConvergedIsOnTarget

Kept(b) ==
  \/ made[b] = 0 \/ ref[b] = made[b]
  \/ grain[b] = "container" /\ tree[b] /\ clone[b] = made[b]
  \/ \E t \in Heads : has[t][b] = made[b]

\* Every commit of an agent stays reachable: from its branch, its clone or a branch it
\* was merged into.  Only --force, a commit to a clone being despawned and a clone that
\* is ahead of the repository's copy of its branch are exempt.
NothingDiscarded == \A b \in Boundaries : Kept(b) \/ \E why \in {"forced", "stale"} \cup
  (IF grain[b] = "container" THEN {"late"} ELSE {}) : <<b, why>> \in waived

\* What despawn says of itself: unintegrated work is discarded with --force only.
DespawnRefusesUnintegrated == \A b \in Boundaries : Kept(b) \/ <<b, "forced">> \in waived

\* A clean exit in a checkout nobody disturbs ends with the agent's commits on the
\* branch it was launched from, whatever other conductors and integrations do.
Converges ==
  \A b \in Boundaries :
    (job[b].at \notin {"idle", "done"}) ~> (has[Target][b] = made[b] \/ disturbed)
==============================================================================
