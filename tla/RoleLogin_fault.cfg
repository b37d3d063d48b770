SPECIFICATION Spec
CONSTANTS
    Users = {u1}
    Sessions = {s1}
    RoleDoc = RoleDoc
    PlayDocs = {watermelon}
    MaxId = 1
    MaxProgress = 1
    MaxFaults = 1
    Nobody = Nobody
PROPERTY FreshOnlyWithoutData
CHECK_DEADLOCK FALSE
