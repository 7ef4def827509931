CONSTANTS
  HealthWindow = 3
  Cap = 2
  InFlight = 2
  TextBound = 4
  Limit = 3
  ReadTime = 2
  WakeWorst = 3
  Margin = 1
  Backoff <- MCBackoff
  Entries = {"private"}
  DnsEdits = 2
  Tries = 2
  Trees <- MCTrees
  MaxDepth = 3
  Graphs <- MCGraphs
  Replicas0 = {r1, r2}
  Minute = 2
  One = 4
  RequestLimit = 1
  TokenLimit = 2
  Costs = {0, 5}
  Horizon0 = 3
  Spaces = {"n1", "op"}
  MaxTTL = 2
  Safety = 1
  Lifetime = 3
  PodLimit = 2
  Until = 3
  ScanPaths <- MCPaths
  MaxScan = 3
  CaptureLimit = 5
  KeyLimit = 2
  Answers0 <- MCAnswers
  MemberBound = 3
  PieceBound = 4
  Grants0 <- MCGrants
  Messages <- MCMessages
  Results0 <- MCResults
  MaxLines = 2
  MaxTurns = 2
SPECIFICATION Spec
CHECK_DEADLOCK FALSE
VIEW PartView
INVARIANTS FallbacksSound LimitsHold ProxyReads ToolsGoverned ChannelsSound
PROPERTIES CallersKnown
