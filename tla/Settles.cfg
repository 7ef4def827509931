CONSTANTS
  g1 = g1
  g2 = g2
  Gateways = {g1, g2}
  Requests = {r1}
  Attempts = 2
  TTL = 1
  Plans <- MCPlans
  Replicas = {g1, g2}
  Window = 2
  CacheWindow = 1
  SecretNames = {s}
  Kinds = {"absent", "bare", "good"}
  Troubles = 2
  PassTroubles = 2
  Segments = 3
  HoldLimit = 2
  Callers = {c1, c2}
  Delays = {0, 1, 2}
  Spread = 1
  Migrators = {g1, g2}
  Names = {1, 2}
  PageSize = 1
  MigTroubles = 2
  Applies = 2
SPECIFICATION Spec
CHECK_DEADLOCK FALSE
VIEW PartView
INVARIANTS ChannelSafe RelaySound  StoredTruthful QuietRight
PROPERTIES StepsSound EverythingSettles
