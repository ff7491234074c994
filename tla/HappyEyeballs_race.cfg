SPECIFICATION FairSpec
CONSTANTS
    MaxCands = 4
    Modes = {"fallback", "ips", "tcp"}
INVARIANTS
    SelectNeverStarves
    FailureIsExhaustive
PROPERTIES
    NoSuccessDiscarded
    RaceEnds
    ImplementsConnector
