CONSTANTS
    r1 = r1
    r2 = r2
    r3 = r3
    s1 = s1
    s2 = s2
    None = None
    Send <- MCSend
    MaxAttempts = 2
    Request = {r1, r2}
    MaxWaiting = 2
    Faults = {"RetryCut"}
SPECIFICATION Spec
INVARIANT
    PendingOwned
