\* Two replicas on MySQL with the named lock, up the history, with faults and
\* runs started again.
SPECIFICATION Spec
CONSTANTS
    a = a
    b = b
    NoOne = NoOne
    Instances = {a, b}
    Latest = 3
    Knows <- BothKnowAll
    Asked <- AskLatest
    Starts <- AnyVersion
    Engine = "mysql"
    Lock = "session"
    PoolSize = 2
    ActionsOf <- OnceOnly
    Unprojectable <- NoLeg
    MaxRuns = 2
    MaxFaults = 2
INVARIANTS
    DecisionFresh
    LedgerNamesLastStep
