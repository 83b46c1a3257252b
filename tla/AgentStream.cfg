CONSTANTS
    e1 = e1
    e2 = e2
    MaxSessions = 1
    Emitters = {e1, e2}
    Closer = Closer
    NoWriter = NoWriter
    Window = 1
    World = {"cut", "operator", "shutdown"}
    Names = {"a"}
    NoName = NoName
    Nobody = Nobody
    Wants <- NameA
    Options = {TRUE}
SPECIFICATION FairSpec
INVARIANTS
    TypeOK
    ToldOnlyByOperator
    CleanCloseIsHeeded
PROPERTIES
    EmitReturns
    CloseDropsSession
\* The agent may be done.
CHECK_DEADLOCK FALSE
