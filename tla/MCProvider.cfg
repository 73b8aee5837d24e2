SPECIFICATION MCSpec
CONSTANTS
  b1 = b1
  b2 = b2
  g1 = g1
  NoLink = NoLink
  NoToken = NoToken
  Readers <- TwoReaders
  Symbols <- TwoSymbols
  Reads <- OneRead
  ReadType <- GreeksRead
  ReadSymbols <- Contract
  FeedTypes <- QuoteAndGreeks
  StreamTypes <- QuoteOnly
  MaxRelayed = 1
  Published <- OnlyTwo
  Links <- TwoLinks
  MaxFailures = 1
  MaxRejoins = 2
  p1 = p1
  p2 = p2
  p3 = p3
  p4 = p4
  Calls <- MCCalls
  PermitInterval = 2
  MaxClock = 4
  MaxEvictions = 1
INVARIANTS FeedInv DemandFollowed PermitsSpaced
PROPERTY EveryCallAnswered
CHECK_DEADLOCK FALSE
