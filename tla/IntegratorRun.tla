---------------------------- MODULE IntegratorRun ----------------------------
(* The commands around the integrator (cmd/mad-trellis/integrator.go): `run`,   *)
(* which keeps an agent and with it the agent's MCP server running, `start` and *)
(* the question a launch asks, which open a terminal on `run`, and `stop`, which *)
(* finds the server by the pidfile beside the ledger.  They know the server's   *)
(* presence only from what the daemon says of the slot's lease.                 *)
EXTENDS McpServer

CONSTANTS
  Wrappers,   \* terminals that open on or run `mad-trellis integrator run`
  Rapid       \* crashes within a minute that park the wrapper (3)

ASSUME RapidAssumption == Rapid \in Nat \ {0}

VARIABLES
  wrap, child, crashes,  \* per wrapper: its state, its agent's server, crashes of late
  stop                   \* the `integrator stop` under way

vars == <<serverVars, wrap, child, crashes, stop>>

Off == [at |-> "off", slot |-> 0, pid |-> Nobody]

RunTypeOK ==
  /\ ServerTypeOK
  /\ wrap \in [Wrappers -> {"idle", "running", "crashed", "parked", "retry", "backoff",
                            "opening", "opened", "done"}]
  /\ child \in [Wrappers -> Integrators \cup {Nobody}]
  /\ crashes \in [Wrappers -> 0..Rapid]
  /\ stop \in [at : {"off", "read", "sweep", "signal", "wait"}, slot : Slots,
               pid : Integrators \cup {Nobody}]

Init ==
  /\ ServerInit
  /\ wrap = [w \in Wrappers |-> "idle"]
  /\ child = [w \in Wrappers |-> Nobody]
  /\ crashes = [w \in Wrappers |-> 0]
  /\ stop = Off

\* `run` inspects the key of the singleton whatever the pool's size.
Occupied == lease[0].left > 0

-----------------------------------------------------------------------------

\* `start` warns when it cannot tell, and goes on.
StartInspects(w) ==
  /\ wrap[w] = "idle" /\ ~(up /\ Occupied)
  /\ wrap' = [wrap EXCEPT ![w] = "opening"]
  /\ UNCHANGED <<serverVars, child, crashes, stop>>

\* A launch asks only when it is sure that there is none, and the user may say yes.
PromptInspects(w) ==
  /\ wrap[w] = "idle" /\ up /\ ~Occupied
  /\ wrap' = [wrap EXCEPT ![w] = "opening"]
  /\ UNCHANGED <<serverVars, child, crashes, stop>>

\* Without a terminal to open, the command is printed for the user to run, or not to run.
OpenIntegratorTerminal == {"opened", "idle"}

StartIntegrator(w) ==
  /\ wrap[w] = "opening"
  /\ \E s \in OpenIntegratorTerminal : wrap' = [wrap EXCEPT ![w] = s]
  /\ UNCHANGED <<serverVars, child, crashes, stop>>

\* RunOnce: the agent starts, and starts its MCP server.
RunOnce(w) ==
  /\ wrap[w] \in {"idle", "opened", "backoff"}
  /\ \E p \in Integrators : Start(p) /\ child' = [child EXCEPT ![w] = p]
  /\ wrap' = [wrap EXCEPT ![w] = "running"]
  /\ UNCHANGED <<crashes, stop>>

AgentEnds(w) == wrap[w] = "running" /\ IF Alive(child[w]) THEN eof' = eof \cup {child[w]}
                                                           ELSE UNCHANGED eof

\* Exit code 0, or the code of a signal that means stop.
AgentStops(w) ==
  /\ AgentEnds(w)
  /\ wrap' = [wrap EXCEPT ![w] = "done"]
  /\ UNCHANGED <<daemonVars, lease, link, phase, cancelled, call, claimed, due, renewVars,
                 presenceVars, severed, forgotten, child, crashes, stop>>

\* Crashes of the last minute are counted; older ones are forgotten.
AgentCrashes(w) ==
  /\ AgentEnds(w)
  /\ wrap' = [wrap EXCEPT ![w] = "crashed"]
  /\ \E n \in 1..(crashes[w] + 1) : crashes' = [crashes EXCEPT ![w] = n]
  /\ UNCHANGED <<daemonVars, lease, link, phase, cancelled, call, claimed, due, renewVars,
                 presenceVars, severed, forgotten, child, stop>>

Park(w) ==
  /\ wrap[w] = "crashed" /\ crashes[w] = Rapid
  /\ wrap' = [wrap EXCEPT ![w] = "parked"]
  /\ UNCHANGED <<serverVars, child, crashes, stop>>

Enter(w) ==
  /\ wrap[w] = "parked"
  /\ \/ wrap' = [wrap EXCEPT ![w] = "retry"] /\ crashes' = [crashes EXCEPT ![w] = 0]
     \/ wrap' = [wrap EXCEPT ![w] = "done"] /\ UNCHANGED crashes
  /\ UNCHANGED <<serverVars, child, stop>>

\* Fault: the wrapper waits for the daemon.
InspectReachable(w) ==
  /\ up
  /\ wrap[w] = "retry" \/ (wrap[w] = "crashed" /\ crashes[w] < Rapid)
  /\ wrap' = [wrap EXCEPT ![w] = IF Occupied THEN "done" ELSE "backoff"]
  /\ UNCHANGED <<serverVars, child, crashes, stop>>

\* An unreachable daemon does not keep the agent from running.
Inspect(w) ==
  /\ wrap[w] = "retry" \/ (wrap[w] = "crashed" /\ crashes[w] < Rapid)
  /\ wrap' = [wrap EXCEPT ![w] = IF up /\ Occupied THEN "done" ELSE "backoff"]
  /\ UNCHANGED <<serverVars, child, crashes, stop>>

-----------------------------------------------------------------------------

StopBegins ==
  /\ stop = Off /\ up
  /\ \E s \in Slots : lease[s].left > 0 /\ stop' = [Off EXCEPT !.at = "read", !.slot = s]
  /\ UNCHANGED <<serverVars, wrap, child, crashes>>

\* The pidfile names a process that is alive; one whose pid was given to another program
\* since is known by its command line.
Signallable(s) == pidfile[s] # Nobody /\ Alive(pidfile[s])

StopReads ==
  /\ stop.at = "read"
  /\ stop' = IF Signallable(stop.slot)
             THEN [stop EXCEPT !.at = "signal", !.pid = pidfile[stop.slot]]
             ELSE [stop EXCEPT !.at = "sweep"]
  /\ UNCHANGED <<serverVars, wrap, child, crashes>>

\* Whatever the pidfile says by now, it goes.  The recovery pass frees expired leases only.
StopSweeps ==
  /\ stop.at = "sweep"
  /\ stop' = Off
  /\ pidfile' = [pidfile EXCEPT ![stop.slot] = Nobody]
  /\ UNCHANGED <<daemonVars, lease, link, lifeVars, call, claimed, due, renewVars, size, slot,
                 pres, wrote, severed, forgotten, wrap, child, crashes>>

StopSignals ==
  /\ stop.at = "signal"
  /\ IF Alive(stop.pid) THEN Signal(stop.pid) ELSE UNCHANGED cancelled
  /\ stop' = [stop EXCEPT !.at = "wait"]
  /\ UNCHANGED <<daemonVars, lease, link, phase, eof, call, claimed, due, renewVars,
                 presenceVars, severed, forgotten, wrap, child, crashes>>

\* A daemon that does not answer is no sign of a release.
ReleaseSeen == up /\ lease[stop.slot].left = 0

\* Until the lease is released, or for three seconds.
StopWaits ==
  /\ stop.at = "wait"
  /\ \/ /\ ReleaseSeen
        /\ stop' = [stop EXCEPT !.at = "sweep"] /\ UNCHANGED serverVars
     \/ stop' = Off /\ UNCHANGED serverVars
     \/ \* --force
        /\ stop' = [stop EXCEPT !.at = "sweep"]
        /\ IF Alive(stop.pid) THEN Kill(stop.pid) ELSE UNCHANGED serverVars
  /\ UNCHANGED <<wrap, child, crashes>>

-----------------------------------------------------------------------------

WrapperStep(w) == Park(w) \/ Inspect(w)
Rerun(w) == wrap[w] = "backoff" /\ RunOnce(w)

Next ==
  \/ ServerNext /\ UNCHANGED <<wrap, child, crashes, stop>>
  \/ \E w \in Wrappers : StartInspects(w) \/ PromptInspects(w) \/ StartIntegrator(w)
  \/ \E w \in Wrappers : RunOnce(w) \/ AgentStops(w) \/ AgentCrashes(w) \/ Enter(w)
                         \/ WrapperStep(w)
  \/ StopBegins \/ StopReads \/ StopSweeps \/ StopSignals \/ StopWaits

Spec == Init /\ [][Next]_vars

\* The wrapper runs, and its waits end; the operator need not press a key.
WrapperFairness == \A w \in Wrappers : WF_vars(WrapperStep(w) \/ Rerun(w))

FairSpec == Spec /\ ServerFairness /\ WrapperFairness

-----------------------------------------------------------------------------

\* No more integrators than slots serve at once, but for one whose presence the daemon's
\* absence has interrupted and one that was signalled in the middle of a review: it goes on
\* merging though it has given up its slot.
AtMostPoolServe ==
  Cardinality({p \in Integrators : phase[p] = "serving" /\ p \notin severed \cup cancelled})
    <= size

\* The types, who serves, and what an orderly end leaves (acquireIntegratorPresence, shutdown).
IntegratorInv == RunTypeOK /\ AtMostPoolServe /\ CleanExitFrees

\* After a crash the wrapper runs its agent again and the agent's server serves, whether the
\* daemon is there, goes or returns meanwhile (runIntegratorKeepalive, serveWith); unless it
\* asks the operator, gives way to a lease that is live, its own dead server's included, or,
\* by the bound on servers, has none left to run.  The new server may find the slot taken
\* since, end, or be met by the agent's next end.
CrashAnswered ==
  \A w \in Wrappers :
    /\ wrap[w] \in {"crashed", "retry"} ~>
         \/ wrap[w] \in {"running", "parked"} \/ (wrap[w] = "done" /\ up /\ Occupied)
         \/ wrap[w] = "backoff" /\ \A p \in Integrators : phase[p] # "unborn"
    /\ wrap[w] = "running" ~>
         wrap[w] # "running" \/ phase[child[w]] \notin {"unborn", "joining", "granted"}

\* What is said of the wrapper: it gives way when another integrator is live, so not to the
\* lease of the server whose agent has just crashed (runIntegratorKeepalive).
GivesWayToAnother ==
  [][\A w \in Wrappers : wrap[w] \in {"crashed", "retry"} /\ wrap'[w] = "done" =>
       lease[0].who # child[w]]_vars
==============================================================================
