SPECIFICATION FairSpec
CONSTANTS
    pl = pl
    tr = tr
    w1 = w1
    y1 = y1
    polled = polled
    dep = dep
    lld = lld
    forwarded = forwarded
    remote = remote
    None = None
    Poller = {pl}
    Trapper = {tr}
    Worker = {w1}
    Syncer = {y1}
    ConsumerId <- MCConsumerId
    Item = {polled, dep, lld, forwarded, remote}
    WorkerOf <- MCWorkerOf
    SyncerOf <- MCSyncerOf
    Sends <- MCSends
    Proxied = {remote}
    Conf = {polled, lld, forwarded}
    Discovery = {lld}
    Dependent <- MCDependent
    MaxLevel = 1
    Limit = 2
    HistMax = 2
    Header = 1
    Setups <- MCSetups
INVARIANTS
    TypeOK
    ExactlyOnce
    InOrder
    ChunkBounded
PROPERTY
    EveryMetricArrives
