SPECIFICATION FairSpec
CONSTANTS
  w1 = w1
  w2 = w2
  s1 = s1
  s2 = s2
  i1 = i1
  i2 = i2
  Ids = {i1, i2}
  Sessions = {s1, s2}
  Workers = {w1, w2}
  Scanner = scanner
  SessionOf <- MCSessionOf
  Conflicts <- MCConflicts
  Lapsed = {s2}
  MaxVersion = 2
  None = None
CONSTRAINT Bounded
INVARIANTS
  IntegratorInv
  PromotedIsLanded
  ValidatedOnThisTrunk
PROPERTIES
  IsSerialTrunk
  TrunkGrows
  InFlightResolved
CHECK_DEADLOCK FALSE
