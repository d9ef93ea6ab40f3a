SPECIFICATION PollerSpec
CONSTANTS
  c1 = c1
  c2 = c2
  Keys = {"k1"}
  Sessions = {1, 2}
  Conns = {c1, c2}
  SessionOf <- MCSessionOf
  Ttls = {2}
  MaxClock = 3
  Horizon <- LiveHorizon
  FenceCap <- LiveFenceCap
INVARIANTS
  LedgerInv
  ExclusiveUntilDeadline
PROPERTIES
  PlaceKept
  IsFencedLock
  PollerServed
CHECK_DEADLOCK FALSE
