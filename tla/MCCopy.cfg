SPECIFICATION Spec
CONSTANTS
    a = a
    b = b
    c = c
    s1 = s1
    s2 = s2
    Servers = {s1, s2}
    Files = {a, b, c}
    Home <- TwoAndOne
    Rank <- Ranks
    Unreadable = {c}
    Written = {a}
    Copies <- Crosswise
    Handlers = {h1, h2}
    NoHandler = NoHandler
    Free = Free
    NoMsg = NoMsg
    MaxCopies = 2
    MaxCommits = 1
    MaxKills = 1
CHECK_DEADLOCK FALSE
INVARIANTS CopiesASnapshot AnswerTrue
PROPERTIES CopyAnswered
