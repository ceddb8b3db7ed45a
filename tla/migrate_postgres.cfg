\* Two replicas on Postgres with the advisory lock, in any direction, one of
\* them an older build, with faults; the database is there and has a ledger.
SPECIFICATION Spec
CONSTANTS
    a = a
    b = b
    NoOne = NoOne
    Instances = {a, b}
    Latest = 3
    Knows <- OneIsOlder
    Asked <- AskAnything
    Starts <- Migrated
    Engine = "postgres"
    Lock = "transaction"
    PoolSize = 1
    ActionsOf <- MixedSteps
    Unprojectable <- NoWayBack
    MaxRuns = 2
    MaxFaults = 1
INVARIANTS
    TypeOK
    Coherent
    DecisionFresh
    FailsOnlyForCause
PROPERTIES
    ReportTrue
    KeepsPromise
