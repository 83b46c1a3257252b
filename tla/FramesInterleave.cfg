CONSTANTS
    e1 = e1
    e2 = e2
    MaxSessions = 1
    Emitters = {e1, e2}
    Closer = Closer
    NoWriter = NoWriter
    Window = 6
    World = {}
    Names = {"a"}
    NoName = NoName
    Nobody = Nobody
    Wants <- AnyName
    Options = {TRUE}
SPECIFICATION Spec
INVARIANTS
    FramesStayWhole
\* The agent may be done.
CHECK_DEADLOCK FALSE
