CONSTANTS
    e1 = e1
    e2 = e2
    MaxSessions = 2
    Emitters = {}
    Closer = Closer
    NoWriter = NoWriter
    Window = 3
    World = {"cut", "cancel", "denial"}
    Names = {"a", "b"}
    NoName = NoName
    Nobody = Nobody
    Wants <- AnyName
    Options = {TRUE, FALSE}
SPECIFICATION FairSpec
PROPERTIES
    KeepsItsName
    EndsAndGivesBack
\* The agent may be done.
CHECK_DEADLOCK FALSE
