SPECIFICATION Spec
CONSTANTS
    Names <- TwoNames
    Owners = {"o"}
    Readers = {"u"}
    Texts = {"x"}
    Recs = {1, 2, 3}
    Clients = {c1}
    NS = ns
    NoThread = NoThread
    NoRec = NoRec
    NoOp = NoOp
    Tags = {"t1", "t2"}
    Clock <- TwoTimes
    SS_MAX_CHECKPOINTS = 1
    ClientOps = {"write", "undo", "read", "checkpoint", "revert"}
    NsOps = {"access", "rename", "copy", "copy_failed"}
    MaxRequests = 5
    MaxRestarts = 1
CHECK_DEADLOCK FALSE
INVARIANTS PromisesKept TextSurvivesCrash
