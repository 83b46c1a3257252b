CONSTANTS
    adm = adm
    tok = tok
    s1 = s1
    s2 = s2
    c1 = c1
    c2 = c2
    k1 = k1
    v1 = v1
    v2 = v2
    NoToken = NoToken
    NoConn = NoConn
    NoSub = NoSub
    NoAsk = NoAsk
    NoSecret = NoSecret
    Tokens = {adm, tok}
    Admins = {adm}
    Minted = {adm, tok}
    Subs = {s1}
    BlockedSubs = {}
    Conns = {c1, c2}
    Requests = {k1}
    Hellos <- BothTypes
    RequestInputs <- KillOnly
    MaxReservations <- NoLimit
    DefaultReservations = 0
    MaxTunnels <- NoLimit
    PortFrom = 1
    PortTo = 2
    ForeignPorts = {}
    RandomTries = 1
    MaxRestarts = 0
    Visits = {v1}
    Asks <- TunnelAsks
    Guard <- FirstGuarded
SPECIFICATION EdgeSpec
INVARIANTS
    ReachesItsTunnel
    PortIndexAgrees
    ListenerFollowsTunnel
    HandshakeUndisturbed
    NoOrphanTunnel
    NoStaleName
    NeverOvercounted
PROPERTIES
    ImplementsNameLease
\* Every connection, request and visit of the instance may be over.
CHECK_DEADLOCK FALSE
