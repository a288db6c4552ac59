CONSTANTS
  Agents = {a1, a2}
  ClaimIds = {c1, c2}
  Requests <- OneFile
  DefaultTTL = 1
  Provider = "memory"
  Posts = {"release", "heartbeat"}
  Sweepers = {}
  Tickers = {}
  AgentTimeout = 1
  NoAgent = NoAgent
  NoClaim = NoClaim
  MaxTime = 3
  MaxOffset = 3
  MaxDeletes = 0
SPECIFICATION Spec
SYMMETRY AgentsAndIds
INVARIANT DetectorSparesHeard
PROPERTY RevivedOnlyByHeartbeat
