SPECIFICATION Spec
CONSTANTS
  w1 = w1
  w2 = w2
  builder = builder
  reviewer = reviewer
  b1 = b1
  b2 = b2
  Branches = {b1}
  Sessions = {builder, reviewer}
  Workers = {w1, w2}
  Scanner = scanner
  SessionOf <- MCSessionOf
  Boundary <- MCBoundary
  Watched <- MCWatched
  Gone = {}
  MaxBatch = 1
  MaxEvents = 3
  None = None
PROPERTY
  RequestLands
CHECK_DEADLOCK FALSE
