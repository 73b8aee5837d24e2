SPECIFICATION MCSpec
CONSTANTS
  r1 = r1
  r2 = r2
  a1 = a1
  a2 = a2
  k1 = k1
  t1 = t1
  t2 = t2
  Reads <- MCReads
  Grants <- MCGrants
  TokenLife = 5
  Timeout = 3
  Tenth = 2
  MintLatency = 1
  GateWait = 1
  TransportClock = 7
  Refusals = 1
  Attempts <- MCAttempts
  Ports <- MCPorts
  Tokens <- MCTokens
  Lifetime = 1
  MaxPending = 1
  MaxTokens = 1
  ConnectClock = 1
  ConnectFailures = 1
  Connects <- MCAttempts
  AgentTokens <- MCPasted
  KeyringFailures = 1
  m1 = m1
  m2 = m2
  q1 = q1
  q2 = q2
  c1 = c1
  c2 = c2
  People <- MCPeople
  SiteOwner = m1
  Requests <- MCRequested
  Acts <- MCActs
  TokenIds <- MCTokenIds
  TokenCap = 1
  MaxMounts = 2
  AccessFaults = 1
  Held <- MCHeld
  Placed <- MCPlaced
  Complex <- MCComplex
  PageSize = 2
  PageLimit = 2
  OptionListing <- MCListing
  MaxContracts = 2
  MaxExpirations = 1
  ChunkSize = 2
  Quoted <- MCHeld
  MaxMoves = 2
  MaxRows = 5
INVARIANTS ConnectionInv ProxyIsCurrent AccessInv ReadsInv
PROPERTY TokensServe
CHECK_DEADLOCK FALSE
