SPECIFICATION Spec
CONSTANTS
    None = None
    s1 = s1 s2 = s2 c1 = c1 c2 = c2 c3 = c3 u1 = u1 u2 = u2 m1 = m1
    Users = {u1, u2}
    Servers = {s1, s2}
    Conns = {c1, c2, c3}
    Home <- TwoServers
    Msgs = {m1}
    SerialLogins = TRUE
    MaxCmds = 2
    MaxFaults = 0
    MaxRestarts = 0
SYMMETRY TwoServersSymmetry
INVARIANTS SingleSession OnlineMeansConnected PresenceAgrees SubscriptionsFollowRoutes
PROPERTIES NoLossOnceSignedIn
CHECK_DEADLOCK FALSE
