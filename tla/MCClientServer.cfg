SPECIFICATION Spec
CONSTANTS
    p1 = p1
    p2 = p2
    p3 = p3
    u1 = u1
    u2 = u2
    Procs = {p1,p2,p3}
    Users = {u1, u2}
    UserOf <- Names
    Files = {f}
    MaxConns = 2
    MaxCommands <- Lines
    MaxItems = 1
    Buffer = 1
    Stops = {"ss"}
    Kinds <- Typed
    NoConn = NoConn
    NS_MAX_CLIENTS = 2
CHECK_DEADLOCK FALSE
INVARIANTS InStep OnlineIsServed WriterHasSession
PROPERTIES CommandEnds GoneIsForgotten
