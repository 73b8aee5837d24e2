SPECIFICATION MCSpec
CONSTANTS
  c1 = c1
  c2 = c2
  c3 = c3
  p1 = p1
  r1 = r1
  o1 = o1
  t1 = t1
  t2 = t2
  Calls <- MCCalls
  LeaseMs = 2
  NoLease = NoLease
  Horizon = 2
  MaxClock = 3
  MaxEvictions = 1
  NoHold = NoHold
  NoOrder = NoOrder
  NoTime = NoTime
  NoRow = NoRow
  Placements <- OnePlacement
  Reconciles <- OneReconcile
  Outside <- OneOutside
  Ticket <- OwnTickets
  Budget = 1
  Skew = 0
  Absence = 2
  HoldMs = 2
  Lag = 0
  ReplyDelay = 0
  RejectsListed = TRUE
  ReceivedOmitted = TRUE
  LastStart = 0
  LastMoment = 3
INVARIANT ExclusiveReliance
PROPERTIES ImplementsLease WaitersServed 
CHECK_DEADLOCK FALSE
