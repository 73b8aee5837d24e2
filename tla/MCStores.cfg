SPECIFICATION MCSpec
CONSTANTS
  r1 = r1
  r2 = r2
  r3 = r3
  early = early
  moved = moved
  other = other
  e1 = e1
  e2 = e2
  c1 = c1
  c2 = c2
  n1 = n1
  n2 = n2
  Runs <- MCRuns
  Events <- MCEvents
  Answers <- MCAnswers
  Kind <- MCKind
  Window = 2
  Budget = 1
  Backoff = 1
  NoRun = NoRun
  MaxClock = 2
  Seekers <- MCSeekers
  Places <- MCPlaces
  LookupLease = 2
  FoundRetention = 1
  MissRetention = 1
  RetryInterval = 2
  LastRound = 1
  SearchClock = 2
  SearchFailures = 1
  Symbols <- MCSymbols
  Private <- MCPrivate
  Volume <- MCVolume
  VolumeRank <- MCVolumeRank
  Cap = 2
  Callers <- MCSeekers
  Inputs <- MCInputs
  MayDelist <- MCVolume
  NoRow = NoRow
  WatchClock = 1
  Names <- MCNames
  Seeded <- MCSeeded
  Builds <- MCBuilds
  RetryAfter = 1
  BuildLimit = 1
  LastHour = 3
  BuildFaults = 1
  MaxBuilds = 2
  Tickers <- MCTickers
  Traded <- MCTraded
  MaxSeries = 1
  Offsets = {4, 5}
  Charts <- MCCharts
  LastDay = 3
  MaxListings = 2
INVARIANTS ShownIsLatest ClosedByClaimant SearchesSpaced WatchlistInv AnchorsStand
PROPERTIES SearchesShared ProtectedStays MarketStoreKept
SYMMETRY Symmetry
CHECK_DEADLOCK FALSE
