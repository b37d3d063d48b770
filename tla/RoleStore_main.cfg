SPECIFICATION FairSpec
CONSTANTS
    Roles = {r1}
    NDocs = 3
    MaxWrites = 3
    MaxFails = 2
    None = None
INVARIANTS TypeOK DirtyIsScheduled StopSavesPending DirtyIsFaithful
PROPERTIES EventuallySaved ImplementsWriteBehind
