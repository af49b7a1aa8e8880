CONSTANTS
    c1 = c1
    c2 = c2
    c3 = c3
    p1 = p1
    p2 = p2
    NoKey = NoKey
    Absent = Absent
    Torn = Torn
    Conns <- TwoConns
    Phones <- TwoPhones
    ReadFaults = FALSE
    WaitClosedWaits = TRUE
SPECIFICATION Spec
PROPERTIES
    OneAuthPerWindow
