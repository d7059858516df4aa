CONSTANTS
    AptRow <- Lines1
    NavRow <- Lines2
    FixRow <- Lines3
    HoldRow <- Lines4
    Known = {"X", "18"}
    Airports = {"A", "B"}
    Batch = 2
    MaxRows = 4
SPECIFICATION Spec
INVARIANTS TypeOK BuildIsFaithful QueriesAgree
CHECK_DEADLOCK FALSE
