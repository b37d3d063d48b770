SPECIFICATION Spec
CONSTANTS
    Conns = {c1, c2}
    Users = {u1}
    MaxRequests = 2
    Nobody = Nobody
SYMMETRY Symmetry
INVARIANT OneConnectionPerUser
CHECK_DEADLOCK FALSE
