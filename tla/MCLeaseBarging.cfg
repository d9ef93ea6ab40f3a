SPECIFICATION Spec
CONSTANTS
  c1 = c1
  c2 = c2
  Keys = {"k1"}
  Sessions = {1, 2}
  Conns = {c1, c2}
  SessionOf <- MCSessionOf
  Ttls = {2}
  MaxClock = 3
  Horizon <- MCHorizon
  FenceCap <- MCFenceCap
PROPERTIES
  NoBarging
CHECK_DEADLOCK FALSE
