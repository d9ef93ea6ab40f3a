SPECIFICATION SideBySide
CONSTANTS
 N = 2
 MaxData = 3
 QueueCap = 1
 WireCap = 2
 NProcs = 3
 Launchers = {l1,l2}
 Ctl = ctl
 MaxConns = 1
 MaxKills = 1
 None = none
 MaxEvents = 3
 Mute = {2}
 Deliverers = {g1,g2}
 MaxKeys = 2
 Nobody = nobody
CONSTRAINT Bounded
INVARIANTS
 CoopInv
 DaemonInv
 NudgeInv
PROPERTIES
 StreamsEndTogether
 LaunchReady
 NudgesArrive
CHECK_DEADLOCK FALSE
