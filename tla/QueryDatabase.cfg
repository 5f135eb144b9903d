SPECIFICATION Spec
CONSTANTS
  ReplyTimeout = 1
  History = 2
  Retention = 3
  LockWait = 1
  Faults = {"begin", "step", "end", "insert", "delete"}
  MaxTime = 3
  MaxQueries = 2
  MaxVersion = 1
  MaxMishaps = 2
INVARIANTS   OnlyOvertakenAreSkipped CountedOnce
PROPERTY FinalExportIsComplete
CHECK_DEADLOCK FALSE
