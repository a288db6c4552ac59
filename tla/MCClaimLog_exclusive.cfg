CONSTANTS
  Agents = {a1, a2}
  ClaimIds = {c1, c2}
  Requests <- OneFile
  DefaultTTL = 2
  Provider = "sqlite"
  Posts = {"release"}
  Sweepers = {sweeper}
  Tickers = {}
  AgentTimeout = 0
  NoAgent = NoAgent
  NoClaim = NoClaim
  MaxTime = 2
  MaxOffset = 3
  MaxDeletes = 0
SPECIFICATION Spec
INVARIANT Exclusive
