SPECIFICATION Spec
CONSTANTS
  Clients = {c1}
  Domains = {d1, d2}
  Upstreams = {u1}
  Verdicts <- FewVerdicts
  Rows = 0
  MaxQueries = 2
  HolesExpire = FALSE
  FlushDuringGC = FALSE
  CacheTTL = TRUE
  Processes = 2
SYMMETRY Interchangeable
INVARIANTS NothingDangles UpstreamCountsExact
