SPECIFICATION Spec
CONSTANTS
    Dialects <- Engines
    Histories <- Recorded
    Most = 4
    MostHeld = 2
    Rows = {r1, r2}
    MaxRuns = 2
SYMMETRY Alike
CHECK_DEADLOCK FALSE
INVARIANTS
    TypeOK
    TableIsTheVersion
    RefusedForCause
    CarriedIsThere
