----------------------------- MODULE SerialTrunk -----------------------------
(* What the integrator promises of trunk and of its verdicts: integrations go   *)
(* onto trunk one after another, each once and each merged with all of what is  *)
(* below it, and nothing ever leaves; an integration is decided once, and is    *)
(* called promoted only when it is there.  There are no rows, calls, leases or  *)
(* refs here.                                                                   *)
EXTENDS Naturals, Sequences

CONSTANTS Ids, Conflicts

VARIABLES landed, verdict

vars == <<landed, verdict>>

Verdicts == {"promoted", "aborted"}

Init == landed = <<>> /\ verdict = [i \in Ids |-> "open"]

On(i) == \E n \in 1 .. Len(landed) : landed[n] = i

\* Also what is called aborted may land: see AbortedIsNotLanded of TrunkIntegrator.
Land(i) ==
  /\ ~On(i)
  /\ \A n \in 1 .. Len(landed) : <<i, landed[n]>> \notin Conflicts
  /\ landed' = Append(landed, i)
  /\ UNCHANGED verdict

Decide(i, v) ==
  /\ verdict[i] = "open"
  /\ v = "promoted" => On(i)
  /\ verdict' = [verdict EXCEPT ![i] = v]
  /\ UNCHANGED landed

Next == \E i \in Ids : Land(i) \/ \E v \in Verdicts : Decide(i, v)

Spec == Init /\ [][Next]_vars
==============================================================================
