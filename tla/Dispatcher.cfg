CONSTANTS
    Threads = {disp, net, sched}
    Self = disp
    Tasks = {t1, t2, t3}
    Timed = {t1}
    Kill = kill
SPECIFICATION FairDispSpec
INVARIANTS
    DispTypeOK
    NoMissedWakeup
    OneOwner
PROPERTIES
    ImplementsQueue
    AcceptedIsServed
    ShutdownEnds
CHECK_DEADLOCK FALSE
