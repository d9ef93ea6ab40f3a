------------------------------- MODULE Sandbox -------------------------------
(* A governed session's sandbox from launch to reclamation: the launcher       *)
(* (internal/launcher) opens a session, has the substrate build a boundary,    *)
(* mints a token, takes the session-liveness lease and keeps it alive; the     *)
(* substrate (internal/substrate, internal/worktree) builds and tears down     *)
(* boundaries for concurrent handlers; the liveness scan (internal/liveness)   *)
(* reclaims the dead; the daemon may stop at any step and start again over     *)
(* its durable store, possibly with the other grain.                           *)
EXTENDS Naturals, FiniteSets

CONSTANTS
  Sessions,    \* session identities, one launcher each
  Scanner,     \* the goroutine of the liveness loop
  Ports,       \* the host ports the probes can return
  PortsEach,   \* ports per boundary (defaultPorts)
  Ttl,         \* the session-liveness lease, in ticks
  MaxOutage,   \* bound: the daemon is never away for more ticks than this
  MaxStops,    \* bound: how often the daemon stops
  Grains,      \* the grains a starting daemon may be dialled to
  Faults,      \* the calls that may fail
  None

ASSUME TtlAssumption == Ttl \in Nat /\ MaxOutage \in Nat /\ MaxOutage < Ttl
ASSUME PortsAssumption == PortsEach \in Nat \ {0} /\ IsFiniteSet(Ports)
ASSUME GrainsAssumption == Grains \subseteq {"worktree", "container"} /\ Grains # {}

ASSUME StopsAssumption == MaxStops \in Nat
ASSUME NamesAssumption ==
  /\ Scanner \notin Sessions /\ None \notin Sessions /\ None \notin 0..Ttl
  /\ None \notin {"worktree", "container", "young", "old", "clone", "repo"}
  /\ \A P \in SUBSET Ports : None # P

VARIABLES
  up, grain,           \* the daemon process and its grain dial
  live, reserving,     \* Substrate.live (the ports of each boundary) and .reserving
  reserved, leaked,    \* portAllocator.reserved; what no operation accounts for in it
  jobs,                \* the substrate operation each handler is executing
  scan,                \* the pass of the liveness loop
  blinded, spared,     \* whom a pass tore down unseeing; whose last signal it used up
  tree, state, box,    \* on the host: worktree or clone, local state, container
  kept,                \* boundaries whose harvest failed: preserved for recovery
  beat, trunk, tokens, \* in the durable store: leases (ticks left) and tokens
  claims,              \* who has another live lease there: path claims, grants, presence
  pc, conn, agent,     \* launcher, the identity of its connection, agent running
  work, late,          \* where its commits are; who committed behind a harvest's back
  attached,            \* whose agent's side has taken its identity on this daemon
  outage, stops        \* ticks the daemon has been away; times it stopped

scanVars == <<scan, blinded, spared>>
daemonVars == <<up, grain, live, reserving, reserved, leaked>>
hostVars == <<tree, state, box, kept>>
storeVars == <<beat, trunk, tokens, claims>>
launchVars == <<pc, conn, agent>>
agentVars == <<work, late, attached>>
clockVars == <<outage, stops>>
vars == <<daemonVars, jobs, scanVars, hostVars, storeVars, launchVars, agentVars, clockVars>>

-----------------------------------------------------------------------------
(* Types *)

Workers == Sessions \cup {Scanner}
Steps == {"grain", "ports", "state", "commit", "unreserve", "undo",
          "wipe", "box", "harvest", "clear", "unlock", "wipeOrphan"}
Job == [op : {"provision", "bare", "rollback", "teardown", "orphan"},
        id : Sessions, at : Steps, got : SUBSET Ports]
NoJob == [op |-> "none"]
Idle == [at |-> "idle"]
\* dead: the holders whose death was signalled; alive: the live set read after that.
Pass == [at : {"look", "tear"}, dead : SUBSET Sessions, alive : SUBSET Sessions]

Left == 0..Ttl

TypeOK ==
  /\ up \in BOOLEAN /\ grain \in Grains
  /\ live \in [Sessions -> {None} \cup SUBSET Ports]
  /\ reserving \subseteq Sessions /\ reserved \subseteq Ports
  /\ leaked \subseteq Ports
  /\ jobs \in [Workers -> Job \cup {NoJob}]
  /\ scan \in Pass \cup {Idle} /\ blinded \subseteq Sessions /\ spared \subseteq Sessions
  /\ tree \in [Sessions -> {None} \cup {"worktree", "container"}]
  /\ kept \subseteq Sessions
  /\ state \in [Sessions -> BOOLEAN] /\ box \in [Sessions -> BOOLEAN]
  /\ beat \in [Sessions -> {None} \cup Left]
  /\ trunk \in [holder : Sessions \cup {None}, left : Left]
  /\ tokens \in [Sessions -> {None, "young", "old"}] /\ claims \subseteq Sessions
  /\ pc \in [Sessions -> {"absent", "new", "open", "provisioning", "provisioned", "minted",
                          "running", "exiting", "released", "gone", "blocked",
                          "astray", "dead"}]
  /\ conn \in [Sessions -> {"own", "fresh"}]
  /\ agent \in [Sessions -> BOOLEAN]
  /\ work \in [Sessions -> {None, "clone", "repo"}]
  /\ late \subseteq Sessions /\ attached \subseteq Sessions
  /\ outage \in 0..MaxOutage /\ stops \in 0..MaxStops

Init ==
  /\ up = TRUE /\ grain \in Grains
  /\ live = [s \in Sessions |-> None]
  /\ reserving = {} /\ reserved = {} /\ leaked = {}
  /\ jobs = [w \in Workers |-> NoJob]
  /\ scan = Idle /\ blinded = {} /\ spared = {}
  /\ tree = [s \in Sessions |-> None]
  /\ state = [s \in Sessions |-> FALSE] /\ box = [s \in Sessions |-> FALSE]
  /\ kept = {}
  /\ beat = [s \in Sessions |-> None]
  /\ trunk = [holder |-> None, left |-> 0]
  /\ tokens = [s \in Sessions |-> None] /\ claims = {}
  /\ pc \in [Sessions -> {"absent", "new"}]
  /\ conn = [s \in Sessions |-> "own"]
  /\ agent = [s \in Sessions |-> FALSE]
  /\ work = [s \in Sessions |-> None] /\ late = {} /\ attached = {}
  /\ outage = 0 /\ stops = 0

-----------------------------------------------------------------------------
(* The store, as the handlers read it *)

Beating(s) == beat[s] # None /\ beat[s] > 0
TrunkLive == trunk.holder # None /\ trunk.left > 0

\* LiveHolders: whoever holds any unexpired lease.
LiveHolders == {s \in Sessions : Beating(s)} \cup claims
               \cup (IF TrunkLive THEN {trunk.holder} ELSE {})

\* session.Store.Resolve: the binding outlives the daemon that made it.
Resolve(s) == tokens[s] # None

\* Faulty PruneDead: a token is dropped as soon as its session is not live.
PruneDeadNoGrace(t) == IF Beating(t) THEN tokens[t] ELSE None

\* pruneDeadLocked, for one row: an old token of a session that is not live goes.
PruneDead(t) == IF tokens[t] = "old" /\ ~Beating(t) THEN None ELSE tokens[t]

-----------------------------------------------------------------------------
(* Substrate: a provision *)

At(w, step) == jobs[w] # NoJob /\ jobs[w].at = step
Goto(w, step) == jobs' = [jobs EXCEPT ![w].at = step]

\* The grain's mutex: held from the removal of a container to that of its clone,
\* except that ReclaimOrphan lets it go in between.
GrainFree(w) ==
  \A v \in Workers \ {w} : /\ ~At(v, "clear")
                           /\ At(v, "harvest") => jobs[v].op = "orphan"

\* Provision, its critical section: a duplicate or a busy slug is refused.
Reserve(s) ==
  IF live[s] # None \/ s \in reserving
  THEN /\ pc' = [pc EXCEPT ![s] = "blocked"]
       /\ UNCHANGED <<jobs, reserving>>
  ELSE /\ reserving' = reserving \cup {s}
       /\ jobs' = [jobs EXCEPT ![s] =
            [op |-> "provision", id |-> s, at |-> "grain", got |-> {}]]
       /\ pc' = [pc EXCEPT ![s] = "provisioning"]

\* git worktree add, on a branch no earlier boundary has used.
CreateWorktree(s) ==
  /\ tree' = [tree EXCEPT ![s] = "worktree"]
  /\ UNCHANGED <<state, box>>

\* A clone at the same path, the state directory, and a container mounting both.
CreateClone(s) ==
  /\ tree' = [tree EXCEPT ![s] = "container"]
  /\ state' = [state EXCEPT ![s] = TRUE]
  /\ box' = [box EXCEPT ![s] = TRUE]

\* A grain that fails removes the clone and the container it had made; the state
\* directory, made before the container is run, stays.
GrainFails(s) ==
  /\ "grain" \in Faults
  /\ jobs' = [jobs EXCEPT ![s].op = "bare", ![s].at = "unreserve"]
  /\ \E made \in IF grain = "container" THEN BOOLEAN ELSE {FALSE} :
       state' = [state EXCEPT ![s] = made]
  /\ UNCHANGED <<tree, box>>

ProvisionGrain(s) ==
  /\ At(s, "grain") /\ GrainFree(s)
  /\ \/ grain = "worktree" /\ CreateWorktree(s) /\ Goto(s, "ports")
     \/ grain = "container" /\ CreateClone(s) /\ Goto(s, "ports")
     \/ GrainFails(s)
  /\ UNCHANGED <<daemonVars, scanVars, kept, storeVars, launchVars, agentVars, clockVars>>

\* Faulty PortChoices: any ports the probes return.
PortChoicesUnchecked == {P \in SUBSET Ports : Cardinality(P) = PortsEach}

\* What allocate may gather: the probes are held open, the reserved are skipped.
PortChoices == {P \in SUBSET (Ports \ reserved) : Cardinality(P) = PortsEach}

\* An allocation that fails part-way keeps in reserved what it had gathered.
AllocatePorts(s) ==
  /\ At(s, "ports")
  /\ \/ \E P \in PortChoices :
          /\ reserved' = reserved \cup P
          /\ jobs' = [jobs EXCEPT ![s].at = "state", ![s].got = P]
          /\ UNCHANGED leaked
     \/ /\ "ports" \in Faults \/ PortChoices = {}
        /\ \E P \in SUBSET (Ports \ reserved) :
             /\ Cardinality(P) < PortsEach
             /\ reserved' = reserved \cup P
             /\ leaked' = leaked \cup P
        /\ Goto(s, "unreserve")
  /\ UNCHANGED <<up, grain, live, reserving, scanVars, hostVars, storeVars, launchVars,
                 agentVars, clockVars>>

\* provisionState and the routing of the declared resources; agentRoot is known
\* even when it fails, so the rollback removes it.
ProvisionState(s) ==
  /\ At(s, "state")
  /\ state' = [state EXCEPT ![s] = TRUE]
  /\ \/ Goto(s, "commit")
     \/ "state" \in Faults /\ Goto(s, "unreserve")
  /\ UNCHANGED <<daemonVars, scanVars, tree, box, kept, storeVars, launchVars, agentVars,
                 clockVars>>

\* The launcher's call returns to the launcher, if that is still there.
Answer(s, to) ==
  pc' = [pc EXCEPT ![s] = IF @ = "provisioning" THEN to ELSE @]

Commit(s) ==
  /\ At(s, "commit")
  /\ live' = [live EXCEPT ![s] = jobs[s].got]
  /\ reserving' = reserving \ {s}
  /\ jobs' = [jobs EXCEPT ![s] = NoJob]
  /\ Answer(s, "provisioned")
  /\ UNCHANGED <<up, grain, reserved, leaked, scanVars, hostVars, storeVars, conn, agent,
                 agentVars, clockVars>>

\* The rollback frees the slug first.
Unreserve(s) ==
  /\ At(s, "unreserve")
  /\ reserving' = reserving \ {s}
  /\ Goto(s, "undo")
  /\ UNCHANGED <<up, grain, live, reserved, leaked, scanVars, hostVars, storeVars, launchVars,
                 agentVars, clockVars>>

\* portAllocator.release.
Release(P) == reserved \ P

\* Then what it had got: the ports; the state, once provisionState has run; the boundary.
Undo(s) ==
  LET bare == jobs[s].op = "bare" IN
  /\ At(s, "undo")
  /\ reserved' = Release(jobs[s].got)
  /\ state' = IF jobs[s].got = {} THEN state ELSE [state EXCEPT ![s] = FALSE]
  /\ jobs' = [jobs EXCEPT ![s] = IF bare THEN NoJob
       ELSE [op |-> "rollback", id |-> s, at |-> "box", got |-> {}]]
  /\ IF bare THEN Answer(s, "blocked") ELSE UNCHANGED pc
  /\ UNCHANGED <<up, grain, live, reserving, leaked, scanVars, tree, box, kept, storeVars,
                 conn, agent, agentVars, clockVars>>

-----------------------------------------------------------------------------
(* Substrate: a teardown *)

\* Faulty BeginTeardown: the slug is free as soon as the boundary is off the live map.
BeginTeardownUnreserved(w, s) ==
  /\ live' = [live EXCEPT ![s] = None]
  /\ jobs' = IF live[s] = None /\ s \in reserving THEN jobs
             ELSE [jobs EXCEPT ![w] =
                    IF live[s] # None
                    THEN [op |-> "teardown", id |-> s, at |-> "wipe", got |-> live[s]]
                    ELSE [op |-> "orphan", id |-> s, at |-> "box", got |-> {}]]
  /\ UNCHANGED reserving

\* Teardown, its critical section: a live boundary is taken over under a
\* reservation; a slug in flight is left alone; anything else is an orphan.
BeginTeardown(w, s) ==
  CASE live[s] # None ->
         /\ live' = [live EXCEPT ![s] = None]
         /\ reserving' = reserving \cup {s}
         /\ jobs' = [jobs EXCEPT ![w] =
              [op |-> "teardown", id |-> s, at |-> "wipe", got |-> live[s]]]
    [] live[s] = None /\ s \in reserving -> UNCHANGED <<jobs, live, reserving>>
    [] OTHER ->
         /\ jobs' = [jobs EXCEPT ![w] =
              [op |-> "orphan", id |-> s, at |-> "box", got |-> {}]]
         /\ UNCHANGED <<live, reserving>>

\* Ports and state go before the boundary.
Wipe(w) ==
  /\ At(w, "wipe")
  /\ reserved' = Release(jobs[w].got)
  /\ state' = [state EXCEPT ![jobs[w].id] = FALSE]
  /\ jobs' = [jobs EXCEPT ![w].at = "box", ![w].got = {}]
  /\ UNCHANGED <<up, grain, live, reserving, leaked, scanVars, tree, box, kept, storeVars,
                 launchVars, agentVars, clockVars>>

\* What follows the grain's part of an operation.
AfterGrain(w) ==
  LET s == jobs[w].id IN
  CASE jobs[w].op = "teardown" -> Goto(w, "unlock") /\ UNCHANGED pc
    [] jobs[w].op = "orphan" -> Goto(w, "wipeOrphan") /\ UNCHANGED pc
    [] jobs[w].op = "rollback" ->
         jobs' = [jobs EXCEPT ![w] = NoJob] /\ Answer(s, "blocked")

\* The worktree grain: git worktree remove --force.  The branch stays; a directory
\* that is not a working tree of the repository is reported as already gone.
RemoveWorktree(w) ==
  /\ At(w, "box") /\ grain = "worktree" /\ GrainFree(w)
  /\ tree' = [tree EXCEPT ![jobs[w].id] = IF @ = "worktree" THEN None ELSE @]
  /\ AfterGrain(w)
  /\ UNCHANGED <<daemonVars, scanVars, state, box, kept, storeVars, conn, agent, agentVars,
                 clockVars>>

\* The container grain: the container first, and the agent in it with it.  If that
\* fails, the agent goes on, and so do the harvest and the removal of the clone.
RemoveContainer(w) ==
  LET s == jobs[w].id IN
  /\ At(w, "box") /\ grain = "container" /\ GrainFree(w)
  /\ \/ /\ box' = [box EXCEPT ![s] = FALSE]
        /\ agent' = [agent EXCEPT ![s] = agent[s] /\ ~box[s]]
     \/ "container" \in Faults /\ box[s] /\ UNCHANGED <<box, agent>>
  /\ Goto(w, "harvest")
  /\ UNCHANGED <<daemonVars, scanVars, tree, state, kept, storeVars, pc, conn, agentVars,
                 clockVars>>

\* Faulty HarvestFails: the failure is logged and the clone removed all the same.
HarvestFailsOpen(w) == Goto(w, "clear") /\ UNCHANGED <<kept, pc>>

\* A fetch that fails: the clone is the sole copy of its commits, so it is kept.
HarvestFails(w) == kept' = kept \cup {jobs[w].id} /\ AfterGrain(w)

\* harvestBranch: a fetch of the clone's branch into the repository; from a linked
\* worktree of that repository, whose branch is checked out, it is refused.
Harvest(w) ==
  LET s == jobs[w].id IN
  /\ At(w, "harvest") /\ GrainFree(w)
  /\ \/ /\ tree[s] # "worktree"
        /\ IF tree[s] = None THEN UNCHANGED <<work, late>>
           ELSE /\ work' = [work EXCEPT ![s] = IF @ = "clone" THEN "repo" ELSE @]
                /\ late' = late \ {s}
        /\ Goto(w, "clear")
        /\ UNCHANGED <<kept, pc>>
     \/ /\ tree[s] = "container" => "harvest" \in Faults
        /\ tree[s] # None
        /\ HarvestFails(w)
        /\ UNCHANGED <<work, late>>
  /\ UNCHANGED <<daemonVars, scanVars, tree, state, box, storeVars, conn, agent, attached,
                 clockVars>>

RemoveClone(w) ==
  /\ At(w, "clear")
  /\ tree' = [tree EXCEPT ![jobs[w].id] = None]
  /\ AfterGrain(w)
  /\ UNCHANGED <<daemonVars, scanVars, state, box, kept, storeVars, conn, agent, agentVars,
                 clockVars>>

\* The end of a teardown: the slug is free, or the orphan's state goes too.
EndTeardown(w) ==
  LET s == jobs[w].id IN
  /\ \/ /\ At(w, "unlock")
        /\ reserving' = reserving \ {s}
        /\ UNCHANGED state
     \/ /\ At(w, "wipeOrphan")
        /\ state' = [state EXCEPT ![s] = FALSE]
        /\ UNCHANGED reserving
  /\ jobs' = [jobs EXCEPT ![w] = NoJob]
  /\ UNCHANGED <<up, grain, live, reserved, leaked, scanVars, tree, box, kept, storeVars,
                 launchVars, agentVars, clockVars>>

SubstrateStep(w) ==
  \/ w \in Sessions /\ \/ ProvisionGrain(w) \/ AllocatePorts(w) \/ ProvisionState(w)
                       \/ Commit(w) \/ Unreserve(w) \/ Undo(w)
  \/ Wipe(w) \/ RemoveWorktree(w) \/ RemoveContainer(w) \/ Harvest(w)
  \/ RemoveClone(w) \/ EndTeardown(w)

-----------------------------------------------------------------------------
(* The launcher: a call needs the daemon, and acts as the identity of its      *)
(* connection.  After a restart the client dials again and is a new identity.  *)

Serving(s) == up /\ conn[s] = "own"

\* A step of setup on a connection that is not the session's own any more: the
\* launcher goes on as a session the model does not follow.
GoAstray(s) ==
  /\ up /\ conn[s] = "fresh" /\ pc[s] \in {"open", "provisioned", "minted"}
  /\ pc' = [pc EXCEPT ![s] = "astray"]
  /\ UNCHANGED <<daemonVars, jobs, scanVars, hostVars, storeVars, conn, agent, agentVars,
                 clockVars>>

\* A connection held by the launcher, and the identity the daemon minted for it.
Open(s) ==
  /\ pc[s] = "new" /\ up
  /\ pc' = [pc EXCEPT ![s] = "open"]
  /\ conn' = [conn EXCEPT ![s] = "own"]
  /\ UNCHANGED <<daemonVars, jobs, scanVars, hostVars, storeVars, agent, agentVars,
                 clockVars>>

CallProvision(s) ==
  /\ pc[s] = "open" /\ Serving(s)
  /\ Reserve(s)
  /\ UNCHANGED <<up, grain, live, reserved, leaked, scanVars, hostVars, storeVars, conn,
                 agent, agentVars, clockVars>>

\* Mint: the dead are pruned, then the token is stored.
CallMint(s) ==
  /\ pc[s] = "provisioned" /\ Serving(s)
  /\ tokens' = [t \in Sessions |-> IF t = s THEN "young" ELSE PruneDead(t)]
  /\ pc' = [pc EXCEPT ![s] = "minted"]
  /\ UNCHANGED <<daemonVars, jobs, scanVars, hostVars, beat, trunk, claims, conn, agent,
                 agentVars, clockVars>>

\* A launcher the model does not follow mints a token of its own.
OthersMint ==
  /\ up
  /\ tokens' = [t \in Sessions |-> PruneDead(t)]
  /\ UNCHANGED <<daemonVars, jobs, scanVars, hostVars, beat, trunk, claims, launchVars,
                 agentVars, clockVars>>

\* The session-liveness lease; then the keepalive and the agent are started.
CallAcquire(s) ==
  /\ pc[s] = "minted" /\ Serving(s)
  /\ beat' = [beat EXCEPT ![s] = Ttl]
  /\ agent' = [agent EXCEPT ![s] = TRUE]
  /\ pc' = [pc EXCEPT ![s] = "running"]
  /\ UNCHANGED <<daemonVars, jobs, scanVars, hostVars, trunk, tokens, claims, conn, agentVars,
                 clockVars>>

\* The keepalive's renewal, of a lease that is still the session's and unexpired.
Renew(s) ==
  /\ pc[s] = "running" /\ Serving(s) /\ Beating(s) /\ beat[s] < Ttl
  /\ beat' = [beat EXCEPT ![s] = Ttl]
  /\ UNCHANGED <<daemonVars, jobs, scanVars, hostVars, trunk, tokens, claims, launchVars,
                 agentVars, clockVars>>

\* attachHandler: a known token of a session whose lease is live.
Attachable(s) == Resolve(s) /\ Beating(s)

\* recoverSession: the fresh connection takes the session's identity back.
Reattach(s) ==
  /\ pc[s] = "running" /\ up /\ conn[s] = "fresh" /\ Attachable(s)
  /\ conn' = [conn EXCEPT ![s] = "own"]
  /\ UNCHANGED <<daemonVars, jobs, scanVars, hostVars, storeVars, pc, agent, agentVars,
                 clockVars>>

\* A round of the keepalive can neither renew nor re-attach.
Helpless(s) == ~Beating(s) \/ (conn[s] = "fresh" /\ ~Attachable(s))

\* The agent's commits: in the repository's own object store from a worktree, in
\* the clone alone from a container, where some may come between a harvest and the
\* removal of the clone.
AgentCommits(s) ==
  /\ agent[s]
  /\ \/ tree[s] = "worktree" /\ work[s] = None /\ work' = [work EXCEPT ![s] = "repo"]
     \/ /\ tree[s] = "container" /\ box[s] /\ work[s] # "clone"
        /\ work' = [work EXCEPT ![s] = "clone"]
  /\ late' = IF \E w \in Workers : At(w, "clear") /\ jobs[w].id = s
             THEN late \cup {s} ELSE late
  /\ UNCHANGED <<daemonVars, jobs, scanVars, hostVars, storeVars, launchVars, attached,
                 clockVars>>

\* The agent's side of the session (its MCP server) takes the identity over by its
\* token, and keeps it, whatever becomes of the launcher, until the daemon stops.
AgentAttaches(s) ==
  /\ agent[s] /\ up /\ Attachable(s) /\ s \notin attached
  /\ attached' = attached \cup {s}
  /\ UNCHANGED <<daemonVars, jobs, scanVars, hostVars, storeVars, launchVars, work, late,
                 clockVars>>

\* A promote it asks for takes the trunk lease under the session's name.
AgentTakesTrunk(s) ==
  /\ agent[s] /\ up /\ s \in attached /\ ~TrunkLive
  /\ trunk' = [holder |-> s, left |-> Ttl]
  /\ UNCHANGED <<daemonVars, jobs, scanVars, hostVars, beat, tokens, claims, launchVars,
                 agentVars, clockVars>>

\* The promote's deferred release, with or without the agent that asked for it.
TrunkReleased(s) ==
  /\ up /\ s \in attached /\ trunk.holder = s
  /\ trunk' = [holder |-> None, left |-> 0]
  /\ UNCHANGED <<daemonVars, jobs, scanVars, hostVars, beat, tokens, claims, launchVars,
                 agentVars, clockVars>>

\* The other leases of the agent's side: while it renews them they stay, with or
\* without a launcher; then they are released, or they lapse.
AgentClaims(s) ==
  /\ agent[s] /\ up /\ s \in attached /\ s \notin claims
  /\ claims' = claims \cup {s}
  /\ UNCHANGED <<daemonVars, jobs, scanVars, hostVars, beat, trunk, tokens, launchVars,
                 agentVars, clockVars>>

ClaimsEnd(s) ==
  /\ s \in claims
  /\ claims' = claims \ {s}
  /\ UNCHANGED <<daemonVars, jobs, scanVars, hostVars, beat, trunk, tokens, launchVars,
                 agentVars, clockVars>>

\* The agent exits, or the launch is blocked after the boundary was built: the
\* deferred clean exit begins.
LeaveAgent(s) ==
  /\ pc[s] \in {"provisioned", "minted", "running"}
  /\ agent' = [agent EXCEPT ![s] = FALSE]
  /\ pc' = [pc EXCEPT ![s] = "exiting"]
  /\ UNCHANGED <<daemonVars, jobs, scanVars, hostVars, storeVars, conn, agentVars, clockVars>>

\* ReleaseOwnLeases: what is listed under the session's name; as another identity, or
\* with no daemon, nothing is released.
ReleaseOwnLeases(s) ==
  /\ pc[s] = "exiting"
  /\ IF Serving(s)
     THEN /\ beat' = [beat EXCEPT ![s] = None]
          /\ trunk' = IF trunk.holder = s THEN [holder |-> None, left |-> 0] ELSE trunk
          /\ claims' = claims \ {s}
     ELSE UNCHANGED <<beat, trunk, claims>>
  /\ pc' = [pc EXCEPT ![s] = "released"]
  /\ UNCHANGED <<daemonVars, jobs, scanVars, hostVars, tokens, conn, agent, agentVars,
                 clockVars>>

\* Then Teardown; the launcher waits for it a bounded time and leaves regardless.
CallTeardown(s) ==
  /\ pc[s] = "released"
  /\ IF Serving(s) THEN BeginTeardown(s, s) ELSE UNCHANGED <<jobs, live, reserving>>
  /\ pc' = [pc EXCEPT ![s] = "gone"]
  /\ UNCHANGED <<up, grain, reserved, leaked, scanVars, hostVars, storeVars, conn, agent,
                 agentVars, clockVars>>

\* The launcher is killed; its agent may go on by itself.
Crash(s) ==
  /\ pc[s] \in {"open", "provisioning", "provisioned", "minted", "running", "exiting",
                "released"}
  /\ "launcher" \in Faults
  /\ pc' = [pc EXCEPT ![s] = "dead"]
  /\ UNCHANGED <<daemonVars, jobs, scanVars, hostVars, storeVars, conn, agent, agentVars,
                 clockVars>>

LauncherCall(s) == CallProvision(s) \/ CallMint(s) \/ CallAcquire(s) \/ CallTeardown(s)
Keepalive(s) == Renew(s) \/ Reattach(s)
AgentStep(s) == \/ AgentCommits(s) \/ AgentAttaches(s)
                \/ AgentTakesTrunk(s) \/ TrunkReleased(s)
                \/ AgentClaims(s) \/ ClaimsEnd(s)

-----------------------------------------------------------------------------
(* The liveness scan *)

\* Faulty Signals: only the trunk lease tells.
SignalsTrunkOnly(silent, lapsed) == lapsed

\* Whose death the reclaimed rows tell: a session lease's holder, the trunk's holder.
Signals(silent, lapsed) == silent \cup lapsed

\* The expired rows go, one by one; the trunk's and the sessions' tell who died.
ScanReclaim ==
  LET silent == {s \in Sessions : beat[s] = 0}
      lapsed == IF trunk.holder # None /\ trunk.left = 0 THEN {trunk.holder} ELSE {}
  IN  /\ up /\ scan = Idle /\ silent \cup lapsed # {}
      /\ beat' = [s \in Sessions |-> IF s \in silent THEN None ELSE beat[s]]
      /\ trunk' = IF lapsed = {} THEN trunk ELSE [holder |-> None, left |-> 0]
      /\ scan' = [at |-> "look", dead |-> Signals(silent, lapsed), alive |-> {}]
      /\ UNCHANGED <<daemonVars, jobs, blinded, spared, hostVars, tokens, claims, launchVars,
                     agentVars, clockVars>>

\* liveSet: read once per pass; a read that fails gives the empty set, and the pass
\* goes on.
ScanLook ==
  /\ scan # Idle /\ scan.at = "look"
  /\ \/ /\ scan' = [scan EXCEPT !.at = "tear", !.alive = LiveHolders]
        /\ UNCHANGED blinded
     \/ /\ "liveSet" \in Faults
        /\ scan' = [scan EXCEPT !.at = "tear"]
        /\ blinded' = blinded \cup (scan.dead \cap LiveHolders)
  /\ UNCHANGED <<daemonVars, jobs, spared, hostVars, storeVars, launchVars, agentVars,
                 clockVars>>

\* Faulty Spared: the live cross-check is left out.
SparedNone(s) == FALSE

\* A holder with any live lease is skipped, and its death signal with it: if its
\* session lease was the row reclaimed, nothing need tell of its death again.
Spared(s) == s \in scan.alive

ScanTear(s) ==
  /\ scan # Idle /\ scan.at = "tear" /\ s \in scan.dead /\ jobs[Scanner] = NoJob
  /\ scan' = [scan EXCEPT !.dead = @ \ {s}]
  /\ IF Spared(s) THEN UNCHANGED <<jobs, live, reserving>> ELSE BeginTeardown(Scanner, s)
  /\ spared' = IF Spared(s) /\ beat[s] = None THEN spared \cup {s} ELSE spared
  /\ UNCHANGED <<up, grain, reserved, leaked, blinded, hostVars, storeVars, launchVars,
                 agentVars, clockVars>>

ScanEnd ==
  /\ scan # Idle /\ scan.at = "tear" /\ scan.dead = {} /\ jobs[Scanner] = NoJob
  /\ scan' = Idle
  /\ UNCHANGED <<daemonVars, jobs, blinded, spared, hostVars, storeVars, launchVars,
                 agentVars, clockVars>>

Scan == ScanReclaim \/ ScanLook \/ (\E s \in Sessions : ScanTear(s)) \/ ScanEnd

-----------------------------------------------------------------------------
(* The daemon and the clock *)

\* The process ends at any step: its memory, its handlers and its connections go.
DaemonStops ==
  /\ up /\ stops < MaxStops
  /\ up' = FALSE /\ stops' = stops + 1
  /\ live' = [s \in Sessions |-> None]
  /\ reserving' = {} /\ reserved' = {} /\ leaked' = {}
  /\ jobs' = [w \in Workers |-> NoJob]
  /\ scan' = Idle
  /\ conn' = [s \in Sessions |-> IF pc[s] = "new" THEN conn[s] ELSE "fresh"]
  /\ pc' = [s \in Sessions |-> IF pc[s] = "provisioning" THEN "blocked" ELSE pc[s]]
  /\ attached' = {}
  /\ UNCHANGED <<grain, hostVars, storeVars, agent, work, late, outage, blinded, spared>>

\* Build: an empty substrate over the durable store, the liveness loop scanning at once.
DaemonStarts ==
  /\ ~up
  /\ up' = TRUE /\ outage' = 0
  /\ grain' \in Grains
  /\ UNCHANGED <<live, reserving, reserved, leaked, jobs, scanVars, hostVars, storeVars,
                 launchVars, agentVars, stops>>

\* Time passes.  While the daemon serves, the keepalive has had its round before the
\* lease gets as short as the longest outage; a minted token is followed by its lease
\* within the prune grace.
Tick ==
  /\ IF up THEN UNCHANGED outage ELSE outage < MaxOutage /\ outage' = outage + 1
  /\ \A s \in Sessions :
       /\ up /\ pc[s] = "running" => Helpless(s) \/ beat[s] > MaxOutage + 1
       /\ pc[s] # "minted"
  /\ beat' = [s \in Sessions |-> IF Beating(s) THEN beat[s] - 1 ELSE beat[s]]
  /\ trunk' = IF TrunkLive THEN [trunk EXCEPT !.left = @ - 1] ELSE trunk
  /\ tokens' = [s \in Sessions |-> IF tokens[s] = "young" THEN "old" ELSE tokens[s]]
  /\ UNCHANGED <<daemonVars, jobs, scanVars, hostVars, claims, pc, conn, agent, agentVars,
                 stops>>

Next ==
  \/ \E s \in Sessions :
       \/ Open(s) \/ GoAstray(s) \/ LauncherCall(s) \/ Keepalive(s)
       \/ AgentStep(s)
       \/ LeaveAgent(s) \/ ReleaseOwnLeases(s) \/ Crash(s)
  \/ \E w \in Workers : SubstrateStep(w)
  \/ OthersMint \/ Scan \/ DaemonStops \/ DaemonStarts \/ Tick

\* Handlers, the scan and the clock go on, a launcher makes its next call, and the
\* daemon is started again.
Fairness ==
  /\ \A w \in Workers : WF_vars(SubstrateStep(w))
  /\ WF_vars(Scan) /\ WF_vars(DaemonStarts) /\ WF_vars(Tick)
  /\ \A s \in Sessions : WF_vars(Keepalive(s)) /\ WF_vars(CallAcquire(s))
                         /\ WF_vars(CallTeardown(s))

Spec == Init /\ [][Next]_vars
FairSpec == Spec /\ Fairness

-----------------------------------------------------------------------------
(* Properties *)

\* A slug is reserved exactly while one operation of Provision or Teardown that has
\* not given it back is in flight, and never while its boundary is live.
SlugsExclusive ==
  LET owns(w, s) == /\ jobs[w] # NoJob /\ jobs[w].id = s
                    /\ \/ jobs[w].op \in {"provision", "bare"} /\ jobs[w].at # "undo"
                       \/ jobs[w].op = "teardown"
  IN  \A s \in Sessions :
        /\ s \in reserving => live[s] = None /\ \E w \in Workers : owns(w, s)
        /\ s \notin reserving => ~\E w \in Workers : owns(w, s)
        /\ \A v, w \in Workers : owns(v, s) /\ owns(w, s) => v = w

\* The pool's books balance: every reserved port is one live boundary's or one
\* operation's, and no port is two boundaries'.
PortsAccounted ==
  LET held(x) == IF x \in Sessions /\ live[x] # None THEN live[x] ELSE {}
      owns(w) == held(w) \cup (IF jobs[w] = NoJob THEN {} ELSE jobs[w].got)
  IN  /\ reserved = leaked \cup UNION {owns(w) : w \in Workers}
      /\ \A v, w \in Workers : v # w => owns(v) \cap owns(w) = {}
      /\ \A w \in Workers : owns(w) \cap leaked = {}

\* What Provision and Teardown keep of the substrate's maps and of the port pool, with the
\* types (Substrate, portAllocator).
SandboxInv == TypeOK /\ SlugsExclusive /\ PortsAccounted

\* A session whose launcher is up keeps its lease through a daemon restart, however
\* the restart falls between renewals and other launches.
StaysAlive == \A s \in Sessions : pc[s] = "running" => Beating(s)

\* No pass of the liveness loop, and no other handler, takes the boundary of a running
\* session from under its agent, but for a pass whose read of the live holders failed.
KeptWhileRunning ==
  \A s \in Sessions \ blinded : pc[s] = "running" =>
    tree[s] # None /\ state[s] /\ (tree[s] = "container" => box[s])

\* Commits that exist only in a clone are never removed with it, but those an agent
\* makes behind the harvest's back, in a container whose removal has failed.
NoWorkLost == \A s \in Sessions \ late : work[s] = "clone" => tree[s] = "container"

\* From the last restart on, a session's worktree or clone does not outlive it, unless
\* its commits could not be saved first: Teardown reclaims that of a launcher that exits,
\* the liveness loop that of one killed while it held the session lease, unless another
\* lease was live when that one was reclaimed, which uses the signal up.
Reclaimed ==
  \A s \in Sessions :
    LET settled == up /\ stops = MaxStops /\ tree[s] = grain
        gone == tree[s] = None \/ s \in kept
    IN  /\ (pc[s] = "dead" /\ Beating(s) /\ settled) ~> (gone \/ s \in spared)
        /\ (pc[s] = "released" /\ Serving(s) /\ settled) ~> (gone \/ pc[s] = "dead")
==============================================================================
