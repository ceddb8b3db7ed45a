\* Two replicas on Postgres, nothing there at first: every run ends.
SPECIFICATION FairSpec
CONSTANTS
    a = a
    b = b
    NoOne = NoOne
    Instances = {a, b}
    Latest = 3
    Knows <- BothKnowAll
    Asked <- AskLatest
    Starts <- AnyVersion
    Engine = "postgres"
    Lock = "transaction"
    PoolSize = 1
    ActionsOf <- MixedSteps
    Unprojectable <- NoLeg
    MaxRuns = 2
    MaxFaults = 1
PROPERTIES
    EveryRunEnds
    CleanRunArrives
