SPECIFICATION FairSpec
CONSTANTS
    Conns = {c1, c2}
    Fds = {f1, f2}
    NULL = NULL
    MaxOutput = 2
INVARIANTS
    TablesAreCurrent
    HandledIsAlive
    OneTimer
    NoLostEvent
PROPERTY OutputSent
\* A loop whose connections are all reset, with their one-shot events spent,
\* sleeps until a connection is queued, and the model's may all be in use.
CHECK_DEADLOCK FALSE
