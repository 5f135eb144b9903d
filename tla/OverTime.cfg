SPECIFICATION Spec
CONSTANTS
  Clients = {1, 2}
  Aliases = {a}
  NoAlias = none
  Kinds = {"blocked"}
  OVERTIME_SLOTS = 3
  OVERTIME_INTERVAL = 2
  GCinterval = 2
  GCdelay = 1
  maxHistory = 4
  UINT = 64
  Starts = {20}
  Duration = 7
  MaxQueries = 2
  Rows = 1
  Reassignments = 1
  FlushDuringGC = FALSE
INVARIANTS SlotsExact ClientsAddUp AliasCoversMembers HistoryExpires
CHECK_DEADLOCK FALSE
