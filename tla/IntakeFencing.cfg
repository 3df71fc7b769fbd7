SPECIFICATION Spec
CONSTANTS
    c1 = c1
    c2 = c2
    p1 = p1
    p2 = p2
    w1 = w1
    w2 = w2
    MaxUpdate = 2
    Channels <- OneChannel
    ChannelOf <- Together
    Procs = {p1, p2}
    NoProc = NoProc
    Workers = {w1, w2}
    ProcOf <- EachProcess
    MaxAttempts = 1
    BatchLimit = 2
    MaxFaults = 1
    FirstCursors = {0, 1}
INVARIANTS
    TypeOK
    NothingConfirmedIsLost
    ReceiptsAddUp LossesShowAsJumps ChannelOrder OneClaimPerChannel
PROPERTIES
    BlockedHoldsTheChannel
    ImplementsOrderedInbox
CHECK_DEADLOCK FALSE
