SPECIFICATION MCSpec
CONSTANTS
  Parts = {"series", "store", "socket", "favorites", "calendar"}
  v1 = v1
  v2 = v2
  q1 = q1
  q2 = q2
  g1 = g1
  Series <- MCSeries
  Bare <- MCBare
  Watched <- MCWatched
  Contracts <- MCContracts
  YearReads <- MCYearReads
  GreeksReads <- MCGreeksReads
  ReadNames <- MCReadNames
  Browsers <- MCBrowsers
  Bars = 3
  Limit = 2
  EndRows <- MCEndRows
  MaxSnapshots = 2
  MaxTicks = 1
  MaxDrops = 1
  MaxJoins = 2
  MarketClock = 2
  MaxPages = 2
  MaxOthers = 2
  MaxChoices = 1
  MaxStoreFailures = 1
  Sockets = 4
  Stars <- MCStars
  Tabs <- MCTabs
  FavoriteLimit = 2
  MaxEdits = 2
  MaxElsewhere = 2
  ReadIds = {1, 2}
  BrowserAge = 1
  EdgeAge = 1
  MaxSearches = 1
INVARIANTS SeriesInv  SocketInv StagedNotLost CalendarFollowsSearch
PROPERTY PriceNotPulledBack
SYMMETRY Symmetry
CHECK_DEADLOCK FALSE
