SPECIFICATION Spec
CONSTANTS
    e1 = e1
    e2 = e2
    e3 = e3
    w1 = w1
    w2 = w2
    NoJob = NoJob
    Base = 4
    Elements <- ThreeElements
    Writers <- OneWriter
    Longest = 1
    May <- Jobs
    Alone <- Removals
    MaxJobs = 4
    MaxFaults = 1
INVARIANT TypeOK
PROPERTY KeepsPromise
