CONSTANTS
  Agents = {a1, a2}
  ClaimIds = {c1, c2}
  Requests <- OneFile
  DefaultTTL = 1
  Provider = "postgres"
  Posts = {"transfer", "intent"}
  Sweepers = {sweeper}
  Tickers = {}
  AgentTimeout = 0
  NoAgent = NoAgent
  NoClaim = NoClaim
  MaxTime = 3
  MaxOffset = 3
  MaxDeletes = 1
SPECIFICATION Spec
SYMMETRY AgentsAndIds
INVARIANT NoLateConflict
PROPERTIES EndedForGood ImplementsLeases
