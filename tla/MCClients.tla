------------------------------ MODULE MCClients ------------------------------
(* What runs around an agent, side by side: the MCP servers with the integrator  *)
(* commands, the tools' review flow and event inbox, the gate with the manifest, *)
(* the watch command, and the wiring.  They share no state, and a run looks at   *)
(* one of them at a time.                                                        *)
EXTENDS IntegratorRun, ReviewTools, EventInbox, SingularGate, WatchClient, WatchView,
        Wiring

CONSTANTS db, saas

SideBySideInit ==
  Init /\ ToolsInit /\ InboxInit /\ GateInit /\ WatchInit /\ ViewInit /\ WiringInit

-----------------------------------------------------------------------------
(* One at a time: in its initial state a part waits for somebody to use it, and  *)
(* nothing of it that is fair is enabled.                                        *)

NoWrapper == \A w \in Wrappers : wrap[w] = "idle"
ServersIdle ==
  /\ \A p \in Servers : phase[p] = "unborn"
  /\ NoWrapper /\ stop = Off /\ breaks = 0 /\ size = 1 /\ due = {}
  /\ lease = [k \in Keys |-> Free]
ReviewIdle == tip = 0 /\ row = NoRequest /\ alive = Reviewers
InboxIdle == log = <<>>
GateIdle == file = AbsentFile /\ policy = NoPolicy /\ \A r \in Named : grants[r] = Ungranted
WatchIdle == daemon = "answers" /\ conn = "clean" /\ watching = "not yet"
ViewIdle == view = NoSnapshot /\ height = 0 /\ focus = "feed" /\ userScrolled = {}
Empty(d) == \A f \in WiredFiles : original[d][f] = "absent"
Untouched(d) ==
  /\ Empty(d) /\ wire[d] = Unwired /\ disk[d] = original[d]
  /\ tracked \cap ({d} \X WiredFiles) = {}
WiringIdle == \A d \in Dirs : Untouched(d)

\* All parts are idle but the one with this number.
OthersIdle(i) ==
  /\ i = 1 \/ ServersIdle
  /\ i = 2 \/ ReviewIdle
  /\ i = 3 \/ InboxIdle
  /\ i = 4 \/ GateIdle
  /\ i = 5 \/ WatchIdle
  /\ i = 6 \/ ViewIdle
  /\ i = 7 \/ WiringIdle

SideBySideNext ==
  \/ /\ OthersIdle(1) /\ Next
     /\ UNCHANGED <<toolsVars, inboxVars, gateVars, watchVars, viewVars, wiringVars>>
  \/ /\ OthersIdle(2) /\ ToolsNext
     /\ UNCHANGED <<vars, inboxVars, gateVars, watchVars, viewVars, wiringVars>>
  \/ /\ OthersIdle(3) /\ InboxNext
     /\ UNCHANGED <<vars, toolsVars, gateVars, watchVars, viewVars, wiringVars>>
  \/ /\ OthersIdle(4) /\ GateNext
     /\ UNCHANGED <<vars, toolsVars, inboxVars, watchVars, viewVars, wiringVars>>
  \/ /\ OthersIdle(5) /\ WatchNext
     /\ UNCHANGED <<vars, toolsVars, inboxVars, gateVars, viewVars, wiringVars>>
  \/ /\ OthersIdle(6) /\ ViewNext
     /\ UNCHANGED <<vars, toolsVars, inboxVars, gateVars, watchVars, wiringVars>>
  \/ /\ OthersIdle(7) /\ WiringNext
     /\ UNCHANGED <<vars, toolsVars, inboxVars, gateVars, watchVars, viewVars>>

SideBySide ==
  /\ SideBySideInit
  /\ [][SideBySideNext]_<<vars, toolsVars, inboxVars, gateVars, watchVars, viewVars, wiringVars>>
  /\ ServerFairness /\ WrapperFairness
  /\ WatchFairness

-----------------------------------------------------------------------------
(* Bounds on each.                                                              *)

Unborn(ps) == \A p \in ps : phase[p] = "unborn"
\* What the stop command leaves behind once it has gone.
Unstopped ==
  \A p \in Integrators : /\ p \in cancelled => phase[p] = "ending"
                         /\ wrote[p] # Nobody => pidfile[wrote[p]] = p

\* A builder and a rival; or two integrators, that share a pool and either lose the daemon or
\* get killed, or are stopped by the command; or two of which a wrapper runs at least one, without another
\* while the daemon is lost.
FewServers ==
  \/ Unborn(Integrators) /\ NoWrapper /\ size = 1
  \/ /\ Unborn(Builders) /\ \A f \in Paths : lease[f] = Free
     /\ \/ NoWrapper /\ breaks = 0 /\ (size = 2 => stop = Off)
        \/ /\ NoWrapper /\ stop = Off /\ Unstopped
           /\ size = 2 => \A p \in Integrators : phase[p] # "killed"
        \/ ~NoWrapper /\ size = 1 /\ stop = Off
           /\ (breaks = 0 \/ \E p \in Integrators : Unborn({p}))

\* An answer is looked at while nothing is granted.
FewAnswers == answer = NoAnswer \/ \A r \in Named : grants[r] = Ungranted

\* One directory, with what its owner has in it; or two that are empty, while git answers.
\* One file is given up or removed.
FewFiles ==
  /\ Cardinality(gaveUp \cup removed) <= 1
  /\ \/ \E d \in Dirs : Untouched(d)
     \/ gaveUp = {} /\ \A d \in Dirs : Empty(d)

Bounded == FewServers /\ FewAnswers /\ FewFiles

-----------------------------------------------------------------------------
(* Manifests, requests for resources, and snapshots.                            *)

mcSpelled == [p \in {<<"external:db">>} |-> db]
mcPaths == {<<"mig">>, <<"mig", "a">>, <<"a", "mig", "lock">>, <<"lock">>, <<"external:db">>}
PerKind(forkable, convergent, singular) ==
  [k \in Kinds |-> CASE k = Forkable -> forkable [] k = Convergent -> convergent
                     [] OTHER -> singular]
Declare(convergent, singular, forkableR, convergentR, singularR, gs) ==
  [paths |-> PerKind({}, convergent, singular),
   resources |-> PerKind(forkableR, convergentR, singularR), grants |-> gs]
Grant(r, mode, endpoint) == [resource |-> r, mode |-> mode, endpoint |-> endpoint]
mcManifests ==
  {Declare({<<{"mig"}, Deep>>, <<Deep, {"lock"}>>, <<{"external:db"}>>},
           {<<Deep, {"mig"}, Deep, {"lock"}>>},
           {saas}, {db, saas}, {db}, <<Grant(db, "mock", FALSE), Grant(db, "supervised", TRUE)>>),
   Declare({<<{"mig", "lock"}>>},
           {<<{"mig"}, Deep, {"a"}>>, <<Deep, {"a"}, {"mig"}, Deep>>},
           {saas, db}, {}, {}, <<Grant(saas, "supervised", FALSE)>>)}
Res(n, d, r) == [name |-> n, domain |-> d, ref |-> r]
mcRequests ==
  {<<Res(<<>>, "external", saas), Res(<<"X">>, "external", db), Res(<<"Y">>, "path", <<"mig">>)>>,
   <<Res(<<>>, "external", saas), Res(<<"X">>, "path", <<"lock">>), Res(<<"X">>, "unknown", db)>>,
   <<Res(<<"PATH">>, "path", <<"a", "mig", "lock">>), Res(<<"X">>, "external", db),
     Res(<<"X">>, "external", saas)>>}
mcReserved == {<<"PATH">>}

mcSnapshots ==
  {[reviews |-> TRUE, leases |-> TRUE, audit |-> TRUE, requested |-> r, claimed |-> 1,
    present |-> FALSE, log |-> l] : r \in {0, 1, 7}, l \in {<<1, 1, 2>>, <<1, 2, 2, 1, 2, 1>>}}
    \cup {NoSnapshot}
==============================================================================
