SPECIFICATION SideBySide
CONSTANTS
  w1 = w1
  w2 = w2
  builder = builder
  reviewer = reviewer
  b1 = b1
  b2 = b2
  Branches = {b1}
  Sessions = {builder, reviewer}
  Workers = {w1, w2}
  Scanner = scanner
  SessionOf <- MCSessionOf
  Boundary <- MCBoundary
  Watched <- MCWatched
  Gone = {builder, reviewer}
  MaxBatch = 1
  MaxEvents = 3
  None = None
  n1 = n1
  n2 = n2
  h1 = h1
  h2 = h2
  Boundaries = {n1, n2}
  Hands = {h1, h2}
  Target = target
  Other = other
  MaxCommits = 2
  Faults = {"user", "late", "slow", "restart", "kill", "gate", "conflict", "force", "dirty", "locked"}
  Nil = nil
CONSTRAINT BranchesBounded
INVARIANTS
  QueueInv
  NoLostWakeup
  ConvergeInv
  NothingDiscarded
PROPERTIES
  StrandedRequeued
  SettledStands
  Converges
CHECK_DEADLOCK FALSE
