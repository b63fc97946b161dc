CONSTANTS
    Net = net
    Self = disp
    Sched = sched
    Db = db
    Threads = {net, disp, sched, db}
    Packets = {p1}
    Events = {e1, e2}
    Queries = {}
    Stored = {}
    Signals = {int1}
    GameShutdown = gs
    Tasks = {p1, e1, e2, int1, gs}
    Timed = {p1}
    Kill = kill
    NoEvent = noevent
    NoOne = noone
    IdModulus = 4
SPECIFICATION Spec
INVARIANTS
    EventHasOneOwner
    EventsDieOnRequest
CHECK_DEADLOCK FALSE
