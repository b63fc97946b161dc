CONSTANTS
    Net = net
    Self = disp
    Sched = sched
    Db = db
    Threads = {net, disp, sched, db}
    Packets = {p1}
    Events = {e1}
    Queries = {q1}
    Stored = {q1}
    Signals = {int1}
    GameShutdown = gs
    Tasks = {p1, e1, q1, int1, gs}
    Timed = {p1}
    Kill = kill
    NoEvent = noevent
    NoOne = noone
    IdModulus = 4
SPECIFICATION FairSpec
PROPERTIES
    ServerShutsDown
CHECK_DEADLOCK FALSE
