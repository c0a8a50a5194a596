CONSTANTS
    c1 = c1
    c2 = c2
    c3 = c3
    k1 = k1
    k2 = k2
    l1 = l1
    l2 = l2
    l3 = l3
    None = None
    Caller <- MCCaller
    Key = {k1, k2}
    LaneObject = {l1, l2, l3}
    Position <- MCPosition
    MaxEntries = 2
SYMMETRY Symmetric
SPECIFICATION Spec
INVARIANTS
    TypeOK
    LaneShared
    NoIdleLane
    AdmissionsSerialized
    BoundHeld
    InPositionOrder
PROPERTY
    KeepsPositionOrder
