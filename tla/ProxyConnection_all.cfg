SPECIFICATION AnsweringSpec
CONSTANTS
  Conns = {c1, c2}
  Urls = {u1}
  Limits = {0, 1}
  MaxBody = 2
INVARIANTS ActiveWithinLimit NothingLost OnlyWholeBodiesCached
PROPERTIES AllServed ImplementsAdmission
