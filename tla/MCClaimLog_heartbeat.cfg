CONSTANTS
  Agents = {a1, a2}
  ClaimIds = {c1}
  Requests <- OneFile
  DefaultTTL = 1
  Provider = "sqlite"
  Posts = {"heartbeat"}
  Sweepers = {}
  Tickers = {}
  AgentTimeout = 0
  NoAgent = NoAgent
  NoClaim = NoClaim
  MaxTime = 4
  MaxOffset = 3
  MaxDeletes = 0
SPECIFICATION Spec
INVARIANT HeartbeatExtends
