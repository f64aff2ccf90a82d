SPECIFICATION Spec
CONSTANTS
    s1 = s1
    s2 = s2
    n1 = n1
    n2 = n2
    Server = {s1, s2}
    Name = {n1, n2}
    Naming <- Distinct
    Poll = 5
    Delays = {10}
    DefaultDelay = 10
    ServiceTimeout = 10
    MaxStartup = 0
    FaultKinds = {"rollback"}
    MaxStarts = 1
    MaxFaults = 3
VIEW View
PROPERTY TakeoverAfterDelay
