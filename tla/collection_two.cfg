SPECIFICATION FairSpec
CONSTANTS
    e1 = e1
    e2 = e2
    e3 = e3
    w1 = w1
    w2 = w2
    NoJob = NoJob
    Base = 2
    Elements <- TwoElements
    Writers <- TwoWriters
    Longest = 1
    May <- AtLast
    Alone <- AtLast
    MaxJobs = 4
    MaxFaults = 0
PROPERTY EveryOperationEnds
INVARIANT NeverOutOfOrder
PROPERTY ElementsComeAndGo
PROPERTY InsertionsAreNew
