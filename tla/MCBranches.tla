------------------------------ MODULE MCBranches ------------------------------
(* What becomes of the agents' branches: the queue in which they are reviewed   *)
(* and the merges into the user's checkout, side by side: they share no state,  *)
(* and a run looks at one of them at a time.                                    *)
EXTENDS MCReviewQueue, MCConverge

SideBySideInit == Init /\ ConvergeInit

\* In its initial state a part waits for somebody to use it.
QueueIdle == rows[b1] = NoRow /\ lastId = 0 /\ unannounced = {} /\ \A p \in Procs : calls[p] = Idle
CheckoutIdle ==
  /\ \A b \in Boundaries : life[b] = "spawned" /\ grain[b] = "worktree" /\ made[b] = 0 /\ tree[b]
  /\ \A c \in Clients : job[c] = NoJob
  /\ ~wip /\ ~disturbed

SideBySideNext ==
  \/ CheckoutIdle /\ Next /\ UNCHANGED convergeVars
  \/ QueueIdle /\ ConvergeNext /\ UNCHANGED vars

\* The fairness of FairSpec, for as long as the checkout is not looked at: with one branch a
\* sweep has one claim at a time, and but for itself nothing disables BeginScan.
ScanFairness ==
  /\ WF_vars(CheckoutIdle /\ BeginScan) /\ SF_vars(CheckoutIdle /\ Query)
  /\ SF_vars(CheckoutIdle /\ \E claim \in StaleClaim : Sweep(claim))
  /\ WF_vars(CheckoutIdle /\ (EndSweep \/ \E b \in Branches : AnnounceRequeued(b)))

SideBySide ==
  /\ SideBySideInit /\ [][SideBySideNext]_<<vars, convergeVars>>
  /\ ScanFairness /\ ConvergeFairness

BranchesBounded == Bounded /\ FewHands
===============================================================================
