SPECIFICATION Spec
CONSTANTS
    Null = Null
    Ids = {1, 2, 3}
    Ranks = {1, 2}
    Sorts <- ThreeSorts
    Scope <- All
    Wheres = {{1, 2, 3}, {1, 3}}
    DefaultSize = 1
    LargestSize = 2
    MaxPage = 3
    NullsAreGreat = TRUE
    MayHold <- AFew
    Sizes = {0, 2}
    Positions <- TheMiddle
    MaxWrites = 1
    MaxReads = 3
INVARIANTS TypeOK NeitherSkippedNorRepeated
PROPERTIES ThereAndBack CursorsAreTrue
CHECK_DEADLOCK FALSE
