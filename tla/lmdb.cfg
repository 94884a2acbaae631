SPECIFICATION FairSpec
CONSTANTS
    t1 = t1
    t2 = t2
    None = None
    Threads = {t1, t2}
    Calls = {"put", "env", "drop", "get"}
    MaxMap = 2
INVARIANTS
    TypeOK
    CountExact
PROPERTIES
    RefusedForCause
    WritersReturn
