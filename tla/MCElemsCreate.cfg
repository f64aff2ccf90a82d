SPECIFICATION Spec
CONSTANTS
    p1 = p1
    p2 = p2
    hk = hk
    Proc = {p1, p2, hk}
    Id = {i1}
    Addr = {a1, a2}
    NULL = NULL
    Val = {fresh, old, empty}
    Outdated = {old}
    Empty = empty
    NoVal = NoVal
    Caches = {"triggers"}
    May <- MCMay
    MaxCalls <- MCCalls
INVARIANT SetSucceeds
