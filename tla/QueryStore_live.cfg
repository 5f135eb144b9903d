SPECIFICATION FairSpec
CONSTANTS
  Clients = {c1}
  Domains = {d1}
  Upstreams = {u1}
  Verdicts <- AllVerdicts
  Rows = 0
  MaxQueries = 2
  HolesExpire = FALSE
  FlushDuringGC = FALSE
  CacheTTL = FALSE
  Processes = 1
PROPERTIES EverythingIsRecycled
