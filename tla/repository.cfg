SPECIFICATION Spec
CONSTANTS
    e1 = e1
    e2 = e2
    e3 = e3
    s1 = s1
    s2 = s2
    v1 = v1
    v2 = v2
    v3 = v3
    Root = Root
    NoRow = NoRow
    NoAggregate = NoAggregate
    Gap = 2
    Lowest <- MinusFour
    Highest = 6
    Elements <- ThreeElements
    Values = {v1, v2, v3}
    Sessions <- TwoSessions
    Taken = {v3}
    Mappings <- SomeMappings
    Batch = 1
    Kept <- OneInThree
    May <- Beside
    MaxJobs = 3
    MaxFaults = 1
INVARIANTS TypeOK SavedIsStored AnswersAreTrue FewestMoved UnchangedWritesNothing RefusedOnlyForCause
CHECK_DEADLOCK FALSE
