SPECIFICATION FeedSpec
CONSTANTS
  b1 = b1
  b2 = b2
  g1 = g1
  NoLink = NoLink
  NoToken = NoToken
  Readers <- OneReader
  Symbols <- OneSymbol
  Reads <- OneRead
  ReadType <- GreeksRead
  ReadSymbols <- Contract
  FeedTypes <- QuoteAndGreeks
  StreamTypes <- QuoteOnly
  MaxRelayed = 2
  Published <- OneSymbol
  Links <- TwoLinks
  MaxFailures = 0
  MaxRejoins = 3
INVARIANT LiveIsTrue
CHECK_DEADLOCK FALSE
