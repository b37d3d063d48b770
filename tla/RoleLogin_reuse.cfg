SPECIFICATION Spec
CONSTANTS
    Users = {u1, u2}
    Sessions = {s1}
    RoleDoc = RoleDoc
    PlayDocs = {watermelon}
    MaxId = 1
    MaxProgress = 1
    MaxFaults = 0
    Nobody = Nobody
PROPERTY NewIdIsUnused
CHECK_DEADLOCK FALSE
