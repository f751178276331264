SPECIFICATION Spec
CONSTANTS
    None = None
    s1 = s1 s2 = s2 c1 = c1 c2 = c2 c3 = c3 u1 = u1 u2 = u2 m1 = m1
    Users = {u1, u2}
    Servers = {s1}
    Conns = {c1, c2}
    Home <- OneServer
    Msgs = {}
    SerialLogins = TRUE
    MaxCmds = 2
    MaxFaults = 0
    MaxRestarts = 1
INVARIANTS OnlineMeansConnected
CHECK_DEADLOCK FALSE
