SPECIFICATION Spec
CONSTANTS
  Builders = {}
  Integrators = {i1, i2}
  Tokened = {}
  Pools = {1}
  Paths = {}
  TTL = 2
  MaxBreaks = 0
  Nobody = nobody
  Rival = rival
  Wrappers = {w1}
  Rapid = 3
PROPERTY
  GivesWayToAnother
CHECK_DEADLOCK FALSE
