------------------------------ MODULE MCSandbox ------------------------------
(* Small instances of the sandbox life cycle.                                 *)
EXTENDS Sandbox, TLC

CONSTANTS s1, s2

\* Bound: two launchers at once meet neither a restart nor the container grain, nor do
\* they commit, a scan reads the live holders, only one launcher is killed or takes the
\* trunk, no other leases are held and no ports leak.  One alone (s1, for no action tells
\* one from the other) meets it all, but a scan goes blind only when no restart is left,
\* and other leases are not held beside the trunk lease.
\* Where stops = MaxStops, as Reclaimed supposes, the bound cuts nothing else off.
Bounded ==
  \/ /\ pc[s2] = "absent"
     /\ blinded # {} => stops = MaxStops
     /\ claims = {} \/ trunk.holder = None
  \/ /\ stops = 0 /\ grain = "worktree" /\ blinded = {}
     /\ pc[s2] # "dead" /\ attached \subseteq {s1} /\ claims = {} /\ leaked = {}
     /\ \A s \in Sessions : work[s] = None

\* Bound: the probes return the lowest free ports; no action tells one from another.
LowestPorts ==
  \A p \in reserved' \ reserved, q \in Ports \ reserved' : p < q
==============================================================================
