SPECIFICATION FairSpec
CONSTANTS
    Roles = {r1}
    NDocs = 3
    MaxWrites = 1
    MaxFails = 1
    None = None
PROPERTY RetriedAfterFailure
