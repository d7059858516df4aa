CONSTANTS
    Thread = {t1, t2}
    Airport = {A}
    Leg <- Legs
    HasRunway = {2}
    MaxEntries = 1
    MaxVersion = 2
    MaxGen = 2
    MaxAsk = 2
SYMMETRY Perms
SPECIFICATION Spec
INVARIANTS TypeOK CacheIsTrue
CHECK_DEADLOCK FALSE
