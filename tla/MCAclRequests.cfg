SPECIFICATION Spec
CONSTANTS
    f1 = f1
    f2 = f2
    o1 = o1
    o2 = o2
    Users = {o1, u1, u2}
    Files = {f1}
    NoFile = NoFile
    NoCommand = NoCommand
    InitialOwner <- OneFile
    Ops = {"add", "remove", "request", "approve", "reject", "delete"}
    Perms <- ReadOrWrite
    MayFail = TRUE
    NS_MAX_CLIENTS = 1
    SS_MAX_USERS_PER_FILE = 1
    NS_MAX_ACCESS_REQUESTS = 2
INVARIANTS OnlyOwnerGrants RejectedIsFinal
