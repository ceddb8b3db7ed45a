\* Two replicas on one SQLite file with no lock, in any direction: "SQLite
\* needs none -- it has one writer".
SPECIFICATION Spec
CONSTANTS
    a = a
    b = b
    NoOne = NoOne
    Instances = {a, b}
    Latest = 3
    Knows <- OneIsOlder
    Asked <- AskAnything
    Starts <- AnyVersion
    Engine = "sqlite"
    Lock = "none"
    PoolSize = 1
    ActionsOf <- MixedSteps
    Unprojectable <- NoLeg
    MaxRuns = 2
    MaxFaults = 1
INVARIANTS
    Coherent
