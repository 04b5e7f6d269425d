SPECIFICATION ThreadSpec
CONSTANTS
    Threads = {owner, p1}
    Owner = owner
    Tasks = {t1, t2, t3}
    Channels = {sock}
    MaxStops = 2
INVARIANTS
    NoLostWakeup
    NoLostStop
PROPERTIES
    ImplementsTaskQueue
    StartAndJoinReturn
\* Loop() may return, and the owner may be done.
CHECK_DEADLOCK FALSE
