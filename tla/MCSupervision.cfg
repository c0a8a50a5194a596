SPECIFICATION Spec
CONSTANTS
    None = None
    Sources = 2
    Reads = 3
    Controls = 3
CHECK_DEADLOCK FALSE
INVARIANTS
    TypeOK
    OneReadAtATime
    PreparedOnReceipts
PROPERTIES
    ReadsStartCurrent
    TerminalStays
    Replans
    EndsAfterDeadline
