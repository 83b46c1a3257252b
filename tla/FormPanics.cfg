CONSTANTS
    p1 = p1
    p2 = p2
    t1 = t1
    m1 = m1
    m2 = m2
    k1 = k1
    k2 = k2
    Profiles = {p1, p2}
    Tunnels = {t1}
    NoName = NoName
    Empty = Empty
    Garbled = Garbled
    Commands = {m1}
    Clicks = {k1}
    Loop = Loop
    Inodes = {1, 2, 3}
    NoFile = NoFile
    Nobody = Nobody
    Asked <- Wants
    Envs <- Shells
    ProfileFlag = NoName
    FirstFiles <- AnyFile
SPECIFICATION Spec
INVARIANTS
    NewTunnelSurvives
\* The commands and the widget of an instance may be over.
CHECK_DEADLOCK FALSE
