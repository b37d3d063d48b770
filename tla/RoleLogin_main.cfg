SPECIFICATION Spec
CONSTANTS
    Users = {u1, u2}
    Sessions = {s1, s2}
    RoleDoc = RoleDoc
    PlayDocs = {watermelon}
    MaxId = 3
    MaxProgress = 1
    MaxFaults = 1
    Nobody = Nobody
SYMMETRY Symmetry
CONSTRAINT Bound
INVARIANTS TypeOK Identity CreationIsGuarded
PROPERTIES SavedProgressKept RoleComesBack
CHECK_DEADLOCK FALSE
