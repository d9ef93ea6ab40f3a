-------------------------- MODULE MCTrunkIntegrator --------------------------
(* Small instances of the integrator.                                         *)
EXTENDS TrunkIntegrator, TLC

CONSTANTS w1, w2, s1, s2, i1, i2

\* Two sessions with a connection each.
MCSessionOf == w1 :> s1 @@ w2 :> s2

\* Branch i2 does not merge onto a trunk that holds i1.
MCConflicts == {<<i2, i1>>}

\* Both sessions, and a branch that moves, on i1 alone; or each session with an
\* integration of its own.
On(p, i) == calls[p] # Idle /\ calls[p].id = i
Bounded ==
  \/ rows[i2] = NoRow /\ branch[i2] = 1 /\ \A p \in Procs : ~On(p, i2)
  \/ /\ \A i \in Ids : branch[i] = 1
     /\ ~On(w1, i2) /\ ~On(w2, i1) /\ calls[Scanner] = Idle
==============================================================================
