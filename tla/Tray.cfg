CONSTANTS
    r1 = r1
    r2 = r2
    k1 = k1
    k2 = k2
    k3 = k3
    NoRun = NoRun
    Names = {"x"}
    Runs = {r1, r2}
    Clicks = {k1, k2, k3}
    Kinds = {"toggle", "forget", "start", "quit"}
SPECIFICATION FairSpec
INVARIANTS
    UnseenOnlyByForget
    StatusSettles
PROPERTIES
    CancelledRunFinishes
\* The clicks of an instance may be over.
CHECK_DEADLOCK FALSE
