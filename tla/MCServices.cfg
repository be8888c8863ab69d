SPECIFICATION Spec
CONSTANTS
    PollFd = {1, 2}
    Listener = 1
    PollTimers = 3
    User = {1, 2}
    PollCalls = 6
    Size = 4
    Limit = 4
    EpollTimers = 1
    EpollCalls = 8
    IoFd = {1, 2}
    Peer = {p1}
    TlsPeer = {p1}
    IoThread = {"loop", "worker"}
    MaxConnections = 3
    MaxMessages = 2
    MaxWaiting = 3
    Sender = {"a", "b"}
    Remote = {r1, r2}
    Pieces = 3
    MaxDatagrams = 3
    MaxBundles = 2
    MaxChanges = 3
    Workers = {w1, w2}
    Names = {n1, n2}
    Items = {i1, i2}
    None = None
    Caller = {"caller"}
    StoreId = {1, 2}
    StoreSocket = {1, 2}
    StoreMessage = {1, 2}
    Lifetimes = {1, 3}
    StoreModulus = 4
    StoreTime = 2
    Nobody = Nobody
    AppFd = {1}
    AppWorker = {1, 2}
    AppKinds = {"login", "send_file", "shutdown", "unknown"}
    AppCapacity = 1
    AppConnections = 2
    AppRequests = 3
    Files = {1, 2}
    FileSizes = {4}
    FileChunk = 2
    FileTime = 1
    RouteDirs = {1, 2}
    NodeInterfaces = {1}
    MaxLoads = 2
INVARIANTS LoopsKnow ConnectionsAreKept DatagramsAreKept ItemsAreKept
PROPERTIES EventIsOwn TimerIsServed RemovedIsFreed
CHECK_DEADLOCK FALSE
