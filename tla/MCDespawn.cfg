SPECIFICATION ConvergeSpec
CONSTANTS
  n1 = n1
  n2 = n2
  h1 = h1
  h2 = h2
  Boundaries = {n1, n2}
  Hands = {h1, h2}
  Target = target
  Other = other
  MaxCommits = 2
  Faults = {}
  Nil = nil
CONSTRAINT FewHands
INVARIANT DespawnRefusesUnintegrated
CHECK_DEADLOCK FALSE
