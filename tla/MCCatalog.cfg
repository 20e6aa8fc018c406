SPECIFICATION Spec
CONSTANTS
    a = a
    d = d
    e = e
    c1 = c1
    c2 = c2
    Components = {a, d, e}
    Path <- TwoFolders
    Clients = {c1, c2}
    Creates <- Files
    CreatesFolders <- Folders
    Reader = reader
    NoThread = NoThread
    Nobody = Nobody
    SsFiles <- OneReport
    CutEntries <- TwoCuts
    NS_MAX_FILES = 3
    FILE_CACHE_SIZE = 1
INVARIANTS IndexExact CacheCoherent RollbackRemovesOwn SavedEntriesSurvive
PROPERTIES ImplementsNamespace
