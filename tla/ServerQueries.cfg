CONSTANTS
    Net = net
    Self = disp
    Sched = sched
    Db = db
    Threads = {net, disp, sched, db}
    Packets = {p1}
    Events = {}
    Queries = {q1, q2}
    Stored = {q1}
    Signals = {int1, int2}
    GameShutdown = gs
    Tasks = {p1, q1, int1, int2, gs}
    Timed = {p1}
    Kill = kill
    NoEvent = noevent
    NoOne = noone
    IdModulus = 4
SPECIFICATION FairSpec
INVARIANTS
    ServerTypeOK
    QueriesInOrder
    NoQueryLost
    ShutdownTaskIsLast
PROPERTIES
    SignalStopsThreads
CHECK_DEADLOCK FALSE
