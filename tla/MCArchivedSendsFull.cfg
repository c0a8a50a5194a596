CONSTANTS
    r1 = r1
    r2 = r2
    r3 = r3
    s1 = s1
    s2 = s2
    None = None
    Request <- MCRequest
    Send <- MCSend
    MaxWaiting = 1
    MaxAttempts = 2
    Faults = {"Restart", "Delete"}
SYMMETRY Symmetric
SPECIFICATION Spec
INVARIANT
    PendingBounded
