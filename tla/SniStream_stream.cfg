SPECIFICATION AnsweringSpec
CONSTANTS
    a = a
    b = b
    c = c
    V6 = V6
    e1 = e1
    e2 = e2
    IPs = {a, b, c}
    Endpoints = {e1, e2}
    Answers <- MCAnswers
    ChanCap = 1
    MaxRetries = 2
    MaxIps = 2
INVARIANTS
    NoBusyLoop
    StoreWellFormed
PROPERTIES
    CallEnds
    TasksEnd
    ImplementsConnector
