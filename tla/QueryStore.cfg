SPECIFICATION Spec
CONSTANTS
  Clients = {c1, c2}
  Domains = {d1, d2}
  Upstreams = {u1}
  Verdicts <- FewVerdicts
  Rows = 1
  MaxQueries = 2
  HolesExpire = FALSE
  FlushDuringGC = FALSE
  CacheTTL = TRUE
  Processes = 1
SYMMETRY Interchangeable
INVARIANTS ReferenceCountsExact StatusCountsExact
