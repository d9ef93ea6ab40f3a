--------------------------- MODULE MCLeaseLedger ---------------------------
(* Small instances of the lease ledger.                                      *)
EXTENDS LeaseLedger, TLC

CONSTANTS c1, c2

\* One key, two sessions, one connection each.
MCSessionOf == c1 :> 1 @@ c2 :> 2
MCHorizon == 1 :> 4 @@ 2 :> 4
MCFenceCap == 1 :> 2 @@ 2 :> 2

\* c2 polls to the end of time and beyond the other session's last deadline.
LiveHorizon == 1 :> 3 @@ 2 :> 5
LiveFenceCap == 1 :> 1 @@ 2 :> 3
PollerSpec == Spec /\ Polling(c2, "k1")
PollerServed == Served(c2, "k1")
=============================================================================
