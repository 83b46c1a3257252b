CONSTANTS
    adm = adm
    adm2 = adm2
    adm3 = adm3
    tok = tok
    s1 = s1
    s2 = s2
    c1 = c1
    c2 = c2
    c3 = c3
    k1 = k1
    k2 = k2
    NoToken = NoToken
    NoConn = NoConn
    NoSub = NoSub
    Tokens = {adm, adm2, adm3, tok}
    Admins = {adm, adm2, adm3}
    Minted = {adm, adm2, tok}
    Subs = {s1, s2}
    BlockedSubs = {}
    Conns = {c1}
    Requests = {k1, k2}
    Hellos <- WalkingHellos
    RequestInputs <- StoreRequests
    MaxReservations <- NoLimit
    DefaultReservations = 1
    MaxTunnels <- NoLimit
    PortFrom = 1
    PortTo = 2
    ForeignPorts = {1}
    RandomTries = 1
    MaxRestarts = 1
SPECIFICATION Spec
INVARIANTS
    ReservationLimitHolds
SYMMETRY RequestSymmetry
PROPERTIES
    RevocationSticks
    ReservationNeverStolen
\* Every connection and request of the instance may be over.
CHECK_DEADLOCK FALSE
