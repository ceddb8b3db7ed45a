SPECIFICATION FairSpec
CONSTANTS
    p1 = p1
    p2 = p2
    p3 = p3
    t1 = t1
    t2 = t2
    People = {p1, p2, p3}
    Titles = {t1, t2}
    MaxOpen = 2
    May <- Anything
    Shelved = {t1}
    MaxJobs = 3
    MaxFaults = 1
INVARIANTS TypeOK ConnectionsComeBack RestockedWholeOrNot RefusalsStayRefusals OneRowIsOne
PROPERTY EveryoneIsAnswered
CHECK_DEADLOCK FALSE
