SPECIFICATION Spec
CHECK_DEADLOCK FALSE
CONSTANTS
    Peers = {"c1", "c2"}
    Sessions = {"c1", "c2"}
    Patient = {"c1"}
    BlockPieces = 2
    JUNK = "junk"
    Trees <- MCTrees
    Fds = {1, 2}
    Scripts <- MCScripts
    FtpSends <- MCFtpSends
    MaxSends <- MCMaxSends
    MaxMessages = 5
    Stayers = {"c2"}
    ExpiredTime = 1
    KeepAliveTime = 2
    Wrap = 2
    MaxTime = 2
    NULL = NULL
INVARIANTS
    HandlerIsAlive
    AnswersMatch
    NoLostEdge
    UploadKept
PROPERTIES
    ClosedWhenDue
    RemovedAsReported
