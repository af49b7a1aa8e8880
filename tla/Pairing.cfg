SPECIFICATION PairFairSpec
CONSTANTS
    Conns = {c1}
    Phones = {k1, k2}
    NoKey = NoKey
    Absent = Absent
    Torn = Torn
    ReadFaults = FALSE
    WaitClosedWaits = FALSE
    Sessions = {s1, s2, s3}
    Mine = {s1, s2}
    ThePhone = k1
    ThisPc = p1
    OtherPc = p2
    OtherAttempts = {}
    Sick = {s2}
    ConfigFiles <- MCConfigFiles
INVARIANTS
    PairNeverStuck
    PinIsMutual
    OpenedByPinned
PROPERTIES
    AttemptEnds
    Recovers
CHECK_DEADLOCK FALSE
