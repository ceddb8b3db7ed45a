\* A replica on MySQL whose migration fails once the lock is taken.
SPECIFICATION Spec
CONSTANTS
    a = a
    b = b
    NoOne = NoOne
    Instances = {a, b}
    Latest = 3
    Knows <- BothKnowAll
    Asked <- AskLatest
    Starts <- FirstOnly
    Engine = "mysql"
    Lock = "session"
    PoolSize = 2
    ActionsOf <- OnceOnly
    Unprojectable <- NoLeg
    MaxRuns = 2
    MaxFaults = 1
INVARIANT
    LockGivenBack
