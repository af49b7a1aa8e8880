CONSTANTS
    k1 = k1
    k2 = k2
    a1 = a1
    a2 = a2
    a3 = a3
    t1 = t1
    t2 = t2
    NoAttempt = NoAttempt
    NoKey = NoKey
    Cancellers <- TwoCancellers
CHECK_DEADLOCK FALSE
CONSTANTS
    Keys <- OneKey
    Attempts <- TwoAttempts
SPECIFICATION FairSpec
INVARIANTS
    NeverStuck
PROPERTIES
    ImplementsLease
    CancelAllsEnd
    KeyIsReleased
    SocketIsClosed
