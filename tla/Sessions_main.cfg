SPECIFICATION FairSpec
CONSTANTS
    Users = {u1}
    Requests = {p1, p2}
    KeyLife = 1
    TokenLife = 2
    NoKey = NoKey
    NoToken = NoToken
    MaxTime = 2
    MaxLogins = 2
    MaxBoots = 2
INVARIANTS TypeOK LoginStays AnswersAreJustified
PROPERTY ExpiredKeysGo
CHECK_DEADLOCK FALSE
