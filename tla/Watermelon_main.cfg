SPECIFICATION Spec
CONSTANTS
    MaxLevel = 3
    Point <- MCPoint
    Weighted = {1, 2}
    InitFruit <- MCInitFruit
    NextMaxCnt = 2
    Stage1Level = 2
    MaxFalls = 3
    MaxMerges = 2
INVARIANTS TypeOK NoDeadEnd IdsInOrder ScoreIsEarned
PROPERTIES RepeatChangesNothing StageLimitsDraws
