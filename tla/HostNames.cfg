SPECIFICATION NamesSpec
CONSTANTS
  Keys = {k4, k6}
  NoKey = NoKey
  RecycleLen = 1
  MaxIDs = 3
  MaxRefs = 1
  IPv6 = {k6}
  RefreshNames = {"ALL", "NONE"}
INVARIANTS WipedStaysWiped
PROPERTIES KeepsPromise NewClientsAreResolved
