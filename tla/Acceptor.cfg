SPECIFICATION Spec
CONSTANTS
    ThreadNum = 3
    MaxFdNum = 3
    MaxArrivals = 5
INVARIANTS
    OnePlace
    WaitsBehindRefusal
PROPERTY
    EventuallyRegistered
\* Clients connect no more.
CHECK_DEADLOCK FALSE
