----------------------------- MODULE TaskQueue -----------------------------
(***************************************************************************)
(* What event::EventLoop promises to the threads that hand it functions:   *)
(* a first-in first-out queue that one thread serves, that loses nothing   *)
(* and repeats nothing while it is open, and that does not stall.  Nothing *)
(* is promised about the functions still waiting once the loop has         *)
(* returned.  EventLoop.tla implements this module.                        *)
(***************************************************************************)
EXTENDS Sequences, Functions

CONSTANT Tasks      \* the functions handed to QueueInLoop

VARIABLES
    waiting,        \* handed over, not begun
    executed,       \* begun, in the order they were begun
    open            \* the loop has not returned

tqVars == <<waiting, executed, open>>

TQInit ==
    /\ waiting = <<>>
    /\ executed = <<>>
    /\ open = TRUE

Submit(t) ==
    /\ open
    /\ t \notin Range(waiting) \cup Range(executed)
    /\ waiting' = Append(waiting, t)
    /\ UNCHANGED <<executed, open>>

Execute ==
    /\ open
    /\ waiting # <<>>
    /\ executed' = Append(executed, Head(waiting))
    /\ waiting' = Tail(waiting)
    /\ UNCHANGED open

Close ==
    /\ open
    /\ open' = FALSE
    /\ UNCHANGED <<waiting, executed>>

TQNext ==
    \/ \E t \in Tasks : Submit(t)
    \/ Execute
    \/ Close

\* The safety part, which EventLoopProofs proves of every instance.
TQSafeSpec == TQInit /\ [][TQNext]_tqVars

TQSpec == TQSafeSpec /\ WF_tqVars(Execute)
=============================================================================
