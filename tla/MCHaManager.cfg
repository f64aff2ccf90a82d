SPECIFICATION Spec
CONSTANTS
    s1 = s1
    s2 = s2
    n1 = n1
    n2 = n2
    Server = {s1, s2}
    Name = {n1, n2}
    Naming <- Distinct
    Poll = 5
    Delays = {10}
    DefaultDelay = 10
    ServiceTimeout = 10
    MaxStartup = 3
    FaultKinds = {"idle", "startup", "rollback", "ackLost", "error", "database", "crash", "stop", "remove"}
    MaxStarts = 2
    MaxFaults = 1
VIEW RecoveryView
INVARIANTS TypeOK AtMostOneActive LeaseHeld RecoveryBounded
PROPERTY TakeoverAfterDelay
