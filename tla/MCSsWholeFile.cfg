SPECIFICATION Spec
CONSTANTS
    Clients = {c1, c2}
    NS = ns
    Recs = {r1}
    NoRec = NoRec
    NoThread = NoThread
    NoSession = NoSession
    Tags = {t1, t2, t3}
    NoTag = NoTag
    w = w
    d = d
    Word = w
    Dot = d
    InitialTexts <- NoSentence
    CopyTexts <- ShortCopy
    ClientOps = {"lock", "undo", "checkpoint", "revert"}
    NsOps = {"copy"}
    MaxIndex = 0
    MaxText = 1
    MaxSentence = 1
    MaxCheckpoints = 2
SYMMETRY SymmetryTags
INVARIANTS WholeFileOpsExclusive CheckpointTagsUnique
PROPERTIES ChangesAreUndoable
