CONSTANTS
    a = a
    b = b
    p1 = p1
    p2 = p2
    m1 = m1
    None = None
    DesktopSend = DesktopSend
    Conversation = {a, b}
    Phone = {p1, p2}
    Message = {m1}
    ListSize = 2
    MaxTurns = 1
    MaxRevision = 3
SYMMETRY Symmetric
SPECIFICATION Spec
INVARIANT
    TypeOK
PROPERTIES
    StartsOnce
    NamesOnlyUntitled
    DeletesAsSeen
