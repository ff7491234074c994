SPECIFICATION TrackerSpec
CONSTANTS
    Mirrors = {m1, m2}
    Requests = {r1}
    Callers = {c1}
    Times = {1, 10}
    Threshold = 3
    RecoveryTicks = 2
INVARIANTS
    DisabledIffThreshold
PROPERTY
    RecoveryNotPostponed
