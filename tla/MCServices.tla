----------------------------- MODULE MCServices -------------------------------
(* The daemon's start and stop, the tunnel that brings containers to it and the *)
(* nudges a launcher delivers, side by side: they share no state, and a run     *)
(* looks at one of them at a time.                                              *)
EXTENDS CoopRelay, Daemon, Nudge

SideBySideInit == CoopInit /\ DaemonInit /\ NudgeInit

\* In its initial state a part waits for somebody to use it, and nothing fair is enabled.
CoopIdle == launch = "off"
DaemonIdle == at = [x \in Probers |-> "idle"] /\ proc = [p \in Procs |-> "unborn"]
NudgeIdle == polled = 0 /\ keys = 0 /\ child = "up"

SideBySideNext ==
  \/ DaemonIdle /\ NudgeIdle /\ CoopNext /\ UNCHANGED <<daemonVars, nudgeVars>>
  \/ CoopIdle /\ NudgeIdle /\ DaemonNext /\ UNCHANGED <<coopVars, nudgeVars>>
  \/ CoopIdle /\ DaemonIdle /\ NudgeNext /\ UNCHANGED <<coopVars, daemonVars>>

SideBySide ==
  /\ SideBySideInit /\ [][SideBySideNext]_<<coopVars, daemonVars, nudgeVars>>
  /\ CoopFairness /\ DaemonFairness /\ NudgeFairness

\* One stream, with data one way, or a little both ways; or two, with data from the container
\* on the first, whose daemon does not hang up, and none on the second, whose adapter does not.
OneStream ==
  /\ \A e \in Sides, s \in 2..N : end[e][s].at = "none"
  /\ \/ \E e \in Sides : \A s \in Streams : sent[e][s] = 0
     \/ sent["relay"][1] + sent["pump"][1] <= 2
TwoStreams ==
  /\ launch = "up" /\ exec = "up"
  /\ sent["pump"][1] = 0 /\ sent["relay"][1] <= 2
  /\ \A e \in Sides : sent[e][2] = 0
  /\ sock["relay"][2] # "hungup" /\ sock["pump"][1] # "hungup"

\* Of a kill, the command and both launches, any two; connections, and a
\* pidfile that is not written, with one launch and no kill.
FewActors ==
  LET OneLaunch == \E l \in Launchers : at[l] = "idle"
  IN  /\ kills = 0 \/ at[Ctl] = "idle" \/ OneLaunch
      /\ (conns = [p \in Procs |-> 0] /\ nameless = {}) \/ (kills = 0 /\ OneLaunch)

Bounded == (OneStream \/ TwoStreams) /\ FewActors
===============================================================================
