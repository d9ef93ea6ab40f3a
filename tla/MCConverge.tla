----------------------------- MODULE MCConverge -----------------------------
(* Small instances of the merges into the checkout.                           *)
EXTENDS Converge

CONSTANTS n1, n2, h1, h2

Unused(b) == life[b] = "spawned" /\ grain[b] = "worktree" /\ made[b] = 0 /\ tree[b]
             /\ \A h \in Hands : job[h].at \in {"idle", "done"} \/ job[h].id # b

\* Two commands beside one agent and its conductor, h1's the first to be given, or two
\* agents and their conductors in a checkout that is never dirty.
FewHands ==
  \/ Unused(n2) /\ (job[h1] = NoJob => job[h2] = NoJob)
  \/ /\ \A h \in Hands : job[h] = NoJob
     /\ \A b \in Boundaries : life[b] # "spawned" /\ made[b] < MaxCommits
     /\ ~wip
==============================================================================
