SPECIFICATION TrackerSpec
CONSTANTS
    Mirrors = {m1}
    Requests = {r1}
    Callers = {}
    Times = {1, 10}
    Threshold = 3
    RecoveryTicks = 2
INVARIANT
    RepeatedFailureDisables
