SPECIFICATION FairSpec
CONSTANTS
    Base = 3
    HeaderSize = 2
    MaxFrame = 2
    Meaning <- MCMeaning
    Coding <- MCCoding
    Misfits <- MCMisfits
    Lenient <- MCLenient
    Trusted = Trusted
    Other = Other
    Fresh = Fresh
    Stale = Stale
    Chunk = 2
    StreamBound = 5
INVARIANTS
    NeverStuck
    ReadersAgree
    BufferIsBounded
    FirstFrameDecides
    VerifiedIsConfirmed
    HonestPeersAgree
PROPERTIES
    CallsReturn
CHECK_DEADLOCK FALSE
