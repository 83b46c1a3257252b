CONSTANTS
    adm = adm
    adm2 = adm2
    adm3 = adm3
    tok = tok
    s1 = s1
    s2 = s2
    c1 = c1
    c2 = c2
    c3 = c3
    k1 = k1
    k2 = k2
    NoToken = NoToken
    NoConn = NoConn
    NoSub = NoSub
    Tokens = {adm, tok}
    Admins = {adm}
    Minted = {adm, tok}
    Subs = {s1}
    BlockedSubs = {}
    Conns = {c1}
    Requests = {k1}
    Hellos <- OneHello
    RequestInputs <- RevokeOnly
    MaxReservations <- NoLimit
    DefaultReservations = 0
    MaxTunnels <- NoLimit
    PortFrom = 1
    PortTo = 1
    ForeignPorts = {}
    RandomTries = 1
    MaxRestarts = 0
SPECIFICATION Spec
INVARIANTS
    RevokedTokenHasNoTunnels
\* Every connection and request of the instance may be over.
CHECK_DEADLOCK FALSE
