SPECIFICATION Spec
CONSTANTS
    f1 = f1
    f2 = f2
    o1 = o1
    o2 = o2
    Users = {o1, o2, u1}
    Files = {f1, f2}
    NoFile = NoFile
    NoCommand = NoCommand
    InitialOwner <- TwoFiles
    Ops = {"add", "remove", "create", "delete"}
    Perms <- ReadOrWrite
    MayFail = FALSE
    NS_MAX_CLIENTS = 3
    SS_MAX_USERS_PER_FILE = 3
    NS_MAX_ACCESS_REQUESTS = 0
SYMMETRY Symmetry
INVARIANT AclMirrors
