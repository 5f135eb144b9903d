CONSTANTS
  Scheduler = schedule
  Requests = {request}
  NLists = 2
  MaxAhead = 2
SPECIFICATION Spec
INVARIANTS OneRunAtATime NotCutInHalf
PROPERTIES DomainsAreKept UpdatesAreLoaded 
