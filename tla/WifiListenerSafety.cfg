CONSTANTS
    l1 = l1
    l2 = l2
    r1 = r1
    n1 = n1
    n2 = n2
    Main = Main
    Conn = Conn
    NoListener = NoListener
    NoNetwork = NoNetwork
    Listeners <- TwoListeners
    Restarts <- OneRestart
    Networks <- TwoNetworks
SPECIFICATION Spec
SYMMETRY Symmetry
INVARIANTS
    Inv
    WorkingListenerIsReachable
    WorkingSocketIsOpen
    PublishedSocketIsOwned
    StopIsComplete
