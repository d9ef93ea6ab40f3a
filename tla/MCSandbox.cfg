SPECIFICATION FairSpec
CONSTANTS
  s1 = s1
  s2 = s2
  Sessions = {s1, s2}
  Scanner = scanner
  Ports = {1, 2, 3, 4}
  PortsEach = 2
  Ttl = 3
  MaxOutage = 1
  MaxStops = 1
  Grains = {"worktree", "container"}
  Faults = {"launcher", "grain", "ports", "state", "harvest", "container", "liveSet"}
  None = None
CONSTRAINT Bounded
ACTION_CONSTRAINT LowestPorts
INVARIANTS
  SandboxInv
  StaysAlive
  KeptWhileRunning
  NoWorkLost
PROPERTY Reclaimed
CHECK_DEADLOCK FALSE
