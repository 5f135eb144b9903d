CONSTANTS
  Main = main
  Loop = loop
  Others = {other}
  Workers = {w}
  NoThread = nobody
  NRegions = 2
  MaxSize = 3
  MaxResizes = 3
SPECIFICATION Spec
INVARIANTS Exclusive NothingStale Backed
PROPERTY LockIsRecovered
