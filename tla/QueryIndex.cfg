SPECIFICATION Spec
CONSTANTS
  Workers = {w1, w2}
  Imported = 1
  MapSize = 2
  MaxIter = 3
  Step = 2
  TCPQueries = 2
  MaxID = 5
INVARIANTS RoomForOneMore  
CHECK_DEADLOCK FALSE
