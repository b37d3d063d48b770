SPECIFICATION Spec
CONSTANTS
    Keys = {1, 2, 3, 4}
    Scores = {0, 2}
    Bounds = {0, 1, 2}
    Absent <- MCAbsent
    Limit = 3
    LargeFirst = TRUE
    MaxLevel = 3
    Word = 16
    NumPerPage = 2
INVARIANTS TypeOK ListFollowsMap SpansAreDistances QueriesAgree PagesCoverBoard
PROPERTY ImplementsOrderedMap
