SPECIFICATION FairSpec
CONSTANTS
    None = None
    s1 = s1 s2 = s2 c1 = c1 c2 = c2 c3 = c3 u1 = u1 u2 = u2 m1 = m1
    Users = {u1, u2}
    Servers = {s1, s2}
    Conns = {c1, c2}
    Home <- TwoServers
    Msgs = {m1}
    SerialLogins = TRUE
    MaxCmds = 1
    MaxFaults = 0
    MaxRestarts = 0
PROPERTIES MessagesSettle HandlersFinish ReachesWhoStays
CHECK_DEADLOCK FALSE
