SPECIFICATION FairSpec
CONSTANTS
    Conns = {c1, c2}
    Users = {u1, u2}
    MaxRequests = 2
    Nobody = Nobody
INVARIANTS TypeOK LaterLoginKicks
PROPERTY ClosedLeaves
CHECK_DEADLOCK FALSE
