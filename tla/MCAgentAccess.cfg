CONSTANTS
  S = S
  T = T
  U = U
  Agent1 = Agent1
  J = J
  K = K
  None = None
  Server <- MCServer
  Terminal <- MCTerminal
  Key <- MCKey
  AgentOf <- MCAgentOf
  Offer <- MCOffer
  MaxGrants = 1
  KeepRequests = 1
  MaxAtOnce = 2
  MaxLines = 2
  MaxDeaths = 1
SPECIFICATION Spec
SYMMETRY MCServers
CHECK_DEADLOCK FALSE
INVARIANTS TrailVerifies CatalogCurrent
PROPERTY OneValuePerYes
