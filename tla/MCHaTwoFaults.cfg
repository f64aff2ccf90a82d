SPECIFICATION Spec
CONSTANTS
    s1 = s1
    s2 = s2
    n1 = n1
    n2 = n2
    Server = {s1, s2}
    Name = {n1, n2}
    Naming <- DistinctOrSame
    Poll = 2
    Delays = {4, 6}
    DefaultDelay = 4
    ServiceTimeout = 4
    MaxStartup = 3
    FaultKinds = {"delay", "database", "crash", "ackLost"}
    MaxStarts = 1
    MaxFaults = 2
VIEW View
INVARIANTS AtMostOneActive LeaseHeld
