CONSTANTS
  Agents = {a1}
  ClaimIds = {c1, c2}
  Requests <- FileAndTree
  DefaultTTL = 2
  Provider = "sqlite"
  Posts = {"release"}
  Sweepers = {ticker, endpoint}
  Tickers = {ticker}
  AgentTimeout = 0
  NoAgent = NoAgent
  NoClaim = NoClaim
  MaxTime = 3
  MaxOffset = 3
  MaxDeletes = 1
SPECIFICATION FairSpec
INVARIANTS TypeOK
PROPERTIES  EndedForGood ExpiredGetSwept
