SPECIFICATION Spec
CONSTANTS
    Clients = {c1, c2}
    NS = ns
    Recs = {r1, r2}
    NoRec = NoRec
    NoThread = NoThread
    NoSession = NoSession
    Tags = {}
    NoTag = NoTag
    w = w
    d = d
    Word = w
    Dot = d
    InitialTexts <- SeveralTexts
    CopyTexts <- NoTexts
    ClientOps = {"lock"}
    NsOps = {"create", "delete"}
    MaxIndex = 2
    MaxText = 3
    MaxSentence = 3
    MaxCheckpoints = 1
SYMMETRY Symmetry
INVARIANTS TypeOK SpansAreSentences SentenceLocked LockedTextUnchanged
