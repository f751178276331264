SPECIFICATION FairSpec
CONSTANTS
    None = None
    u1 = u1
    u2 = u2
    Users = {u1, u2}
    Joins = TRUE
    Splits = FALSE
    MaxStream = 2
    MaxPushed = 0
PROPERTIES LoginReturns
CHECK_DEADLOCK FALSE
