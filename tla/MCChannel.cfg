SPECIFICATION FairSpec
CONSTANTS
    Handlers = {h1, h2, h3}
    NoHandler = NoHandler
    Ops = {"held", "released"}
    MaxRequests = 4
    MaxPushes = 1
    MayFail = TRUE
CHECK_DEADLOCK FALSE
INVARIANTS AwaitingHasWaiter DeliveredOnce NeverStale OneInFlight LastOneIsPaired
PROPERTIES ChannelFreed LoneWaitEnds
