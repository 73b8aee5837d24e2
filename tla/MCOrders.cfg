SPECIFICATION MCSpec
CONSTANTS
  Parts = {"placement", "intent"}
  shares = shares
  low = low
  high = high
  Share = shares
  Tickets <- MCTickets
  Prices <- MCPrices
  Chains <- MCChains
  Quotes <- MCQuotes
  TickRules <- MCTickRules
  Positions <- MCPositions
  MaxAsks = 3
  MaxStirs = 1
  p1 = p1
  p2 = p2
  r1 = r1
  o1 = o1
  t1 = t1
  t2 = t2
  NoHold = NoHold
  NoOrder = NoOrder
  NoTime = NoTime
  NoRow = NoRow
  Placements <- TwoPlacements
  Reconciles <- OneReconcile
  Outside <- NoneOutside
  Ticket <- SameTicket
  Budget = 1
  Skew = 1
  Absence = 3
  HoldMs = 3
  Lag = 1
  ReplyDelay = 1
  RejectsListed = FALSE
  ReceivedOmitted = FALSE
  LastStart = 1
  LastMoment = 6
INVARIANTS OrderInv EveryOrderAccounted
PROPERTIES SettledIsFinal IntentKept
SYMMETRY Symmetry
CHECK_DEADLOCK FALSE
