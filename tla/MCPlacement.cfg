SPECIFICATION Spec
CONSTANTS
    f = f
    g = g
    Addresses = {s1, s2}
    Names = {f, g}
    Folders <- FilesAndFolder
    Handlers = {h1, h2}
    NoHandler = NoHandler
    NoMsg = NoMsg
    MaxSize = 1
    MaxCommits = 1
    MaxCommands = 2
    Stocks <- EmptyOrSame
    NS_MAX_STORAGE_SERVERS = 2
CHECK_DEADLOCK FALSE
SYMMETRY Symmetry
INVARIANTS OneLiveEntry LoadExact CatalogMatchesDisk SizeCurrent
