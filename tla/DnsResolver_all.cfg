SPECIFICATION FairSpec
CONSTANTS
  Tasks = {t1, t2}
  a = a
  p = p
  x = x
  V4 = {a, p}
  V6 = {x}
  Latencies = {1, 2}
  MaxPermits = 2
  MinResults = 1
  V6Enabled = TRUE
  V6Threshold = 1
  d1 = d1
  d2 = d2
  Domains = {d1, d2}
  Polluted = {p}
  Endpoints <- MCEndpoints
  Mapped <- MCMapped
  Answers <- MCAnswers
  CoreSize = 1
  MaxCalls = 2
INVARIANTS CachedListUsable PermitsConserved FallbackIsLastResort
PROPERTIES CallsReturn
