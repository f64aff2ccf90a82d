SPECIFICATION FairSpec
CONSTANTS
    agent = agent
    http = http
    named = named
    h1 = h1
    Item = {agent, http, named}
    HttpItem = {http}
    NamedItem = {named}
    Assignments <- MCAssignments
    AddressOf <- MCAddressOf
    Conn = {b1, b2}
    None = None
    MaxPerHost = 1
    MaxSessions = 1
    UnreachableDelay = 1
    MaxLookups = 1
    MaxChanges = 3
INVARIANTS
    TypeOK
    OwnConnection
PROPERTIES
    LimitsHeal
    PollsEnd
