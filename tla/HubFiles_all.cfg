SPECIFICATION Spec
CONSTANTS
  None = None
  Torn = Torn
  MaxKills = 2
  Domains = {"a.b", "a_b", "c.d"}
  FileOf <- MCFileOf
  MaxCacheSize = 1
  Tasks = {t1, t2}
  MaxHandshakes = 2
  MaxRoots = 3
  Callers = {r1, r2}
  MaxRecords = 4
SYMMETRY Symmetric
INVARIANTS SignerIsPublished ServedLeafAccepted SavedSuccessStays
CHECK_DEADLOCK FALSE
