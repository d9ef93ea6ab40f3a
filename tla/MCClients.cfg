SPECIFICATION SideBySide
CONSTANTS
  Builders = {b1}
  Integrators = {i1, i2}
  Tokened = {b1}
  Pools = {1, 2}
  Paths = {f1}
  TTL = 2
  MaxBreaks = 1
  Nobody = nobody
  Rival = rival
  Wrappers = {w1}
  Rapid = 2
  MaxRev = 3
  Reviewers = {v1, v2}
  NoReviewer = noreviewer
  MaxEvents = 3
  PollMax = 2
  Manifests <- mcManifests
  Deep = deep
  PathNames <- mcPaths
  db = db
  saas = saas
  Named = {db, saas}
  Spelled <- mcSpelled
  Requests <- mcRequests
  ReservedEnv <- mcReserved
  Agents = {a1, a2}
  GrantTtl = 2
  Fetchers = {g1, g2}
  NoFetcher = nof
  Calls = 2
  Snapshots <- mcSnapshots
  Heights = {6, 7, 9, 14, 20}
  Dirs = {bnd, chk}
  Checkouts = {chk}
  Repos = {bnd, chk}
CONSTRAINT Bounded
INVARIANTS
  IntegratorInv
  KeptWhileLinked
  ApprovedIsMerged
  ToldOnceInOrder
  GrantsExclusive
  ClassifiedUpward
  ViewFits
  WiringSafe
PROPERTIES
  LostLeasesSettle
  CrashAnswered
  WatchRecovers
CHECK_DEADLOCK FALSE
