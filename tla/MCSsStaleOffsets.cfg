SPECIFICATION Spec
CONSTANTS
    Clients = {c1, c2}
    NS = ns
    Recs = {r1}
    NoRec = NoRec
    NoThread = NoThread
    NoSession = NoSession
    Tags = {}
    NoTag = NoTag
    w = w
    d = d
    Word = w
    Dot = d
    InitialTexts <- TwoSentences
    CopyTexts <- NoTexts
    ClientOps = {"lock"}
    NsOps = {}
    MaxIndex = 1
    MaxText = 6
    MaxSentence = 3
    MaxCheckpoints = 1
SYMMETRY Symmetry
INVARIANT EtirwReplacesLockedSentence
