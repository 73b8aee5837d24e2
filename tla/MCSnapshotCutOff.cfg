SPECIFICATION SnapshotSpec
CONSTANTS
  r1 = r1
  r2 = r2
  i1 = i1
  i2 = i2
  Viewers <- OneReader
  Isolates <- OneIsolate
  FreshMs = 1
  LeaseMs = 1
  MaxLag = 1
  MaxFaults = 1
  NoCopy = NoCopy
PROPERTY SnapshotKept
CHECK_DEADLOCK FALSE
