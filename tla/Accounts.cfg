SPECIFICATION Spec
CONSTANTS
  Names = {a, b}
  Requests = {r1, r2}
  NoOne = none
  MaxID = 2
  MaxSID = 2
  MaxGeneration = 1
  max_sessions = 2
  MaxRestarts = 2
  MaxServed = 3
  Changes <- MCChanges
  Faults = {"write", "readback", "reload", "backup", "load", "delete"}
  MayClearPassword = FALSE
INVARIANTS ManagersRemain CacheIsCurrent  EndedStaysEnded
PROPERTIES AdminStays
SYMMETRY Symmetry
CHECK_DEADLOCK FALSE
