SPECIFICATION FairSpec
CONSTANTS
    None = None
    u1 = u1
    u2 = u2
    Users = {u1, u2}
    Joins = TRUE
    Splits = TRUE
    MaxStream = 3
    MaxPushed = 2
INVARIANTS QuietMeansOffline AnswersPaired MenuMeansRoute
PROPERTIES LoginReturnsOrWasDropped
CHECK_DEADLOCK FALSE
