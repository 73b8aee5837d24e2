SPECIFICATION MCSpec
CONSTANTS
  b1 = b1
  v1 = v1
  i1 = i1
  i2 = i2
  NoLink = NoLink
  NoToken = NoToken
  Readers <- MCReaders
  Symbols <- MCSymbols
  Reads <- MCReads
  ReadType <- MCReadType
  ReadSymbols <- MCReadSymbols
  FeedTypes <- MCFeedTypes
  StreamTypes <- MCStreamTypes
  MaxRelayed = 2
  Published <- MCSymbols
  Links <- MCLinks
  MaxFailures = 2
  MaxRejoins = 1
  Viewers <- MCViewers
  Isolates <- MCIsolates
  FreshMs = 2
  LeaseMs = 1
  MaxLag = 1
  MaxFaults = 1
  NoCopy = NoCopy
INVARIANTS SnapshotInv 
PROPERTIES RecoversLive SilentReaderDropped SnapshotKept
CHECK_DEADLOCK FALSE
