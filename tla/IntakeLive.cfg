SPECIFICATION FairSpec
CONSTANTS
    c1 = c1
    c2 = c2
    p1 = p1
    p2 = p2
    w1 = w1
    w2 = w2
    MaxUpdate = 2
    Channels <- TwoChannels
    ChannelOf <- Apart
    Procs = {p1}
    NoProc = NoProc
    Workers = {w1}
    ProcOf <- OneProcess
    MaxAttempts = 2
    BatchLimit = 2
    MaxFaults = 1
    FirstCursors = {0}
PROPERTIES
    EveryUpdateIsRecorded
    EveryTaskIsDecided
CHECK_DEADLOCK FALSE
