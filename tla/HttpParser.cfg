SPECIFICATION Spec
CONSTANTS
    Requests <- MCRequests
    MaxRequests = 2
    MaxValue = 255
INVARIANTS WholeReadsUnderstood BuiltWhenSent
CHECK_DEADLOCK FALSE
