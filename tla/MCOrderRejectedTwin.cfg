SPECIFICATION OrderSpec
CONSTANTS
  p1 = p1
  p2 = p2
  r1 = r1
  o1 = o1
  t1 = t1
  t2 = t2
  NoHold = NoHold
  NoOrder = NoOrder
  NoTime = NoTime
  NoRow = NoRow
  Placements <- TwoPlacements
  Reconciles <- OneReconcile
  Outside <- NoneOutside
  Ticket <- SameTicket
  Budget = 1
  Skew = 1
  Absence = 2
  HoldMs = 2
  Lag = 0
  ReplyDelay = 0
  RejectsListed = TRUE
  ReceivedOmitted = FALSE
  LastStart = 1
  LastMoment = 5
INVARIANT EveryOrderAccounted
