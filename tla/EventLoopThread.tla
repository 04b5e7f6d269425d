-------------------------- MODULE EventLoopThread --------------------------
(***************************************************************************)
(* event::EventLoopThread around the EventLoop of EventLoop.tla: an owner  *)
(* starts an IO thread, waits until the thread has published its loop in   *)
(* sub_loop_, hands functions to the loop, and in the destructor stops the *)
(* loop and joins the thread.                                              *)
(*                                                                         *)
(* The destructor's test and its call of StopLoop are two steps, sub_loop_ *)
(* being read without the mutex.                                           *)
(* Other threads use the loop StartLoop returned, and may stop it.          *)
(***************************************************************************)
EXTENDS EventLoop

CONSTANT
    Owner           \* the thread that creates and destroys the EventLoopThread

ASSUME OwnerIsAThread == Owner \in Threads

VARIABLES
    opc,        \* where the owner is
    wpc,        \* where the IO thread is in Worker()
    subLoop     \* sub_loop_ is not NULL

threadVars == <<opc, wpc, subLoop>>
allVars == <<vars, threadVars>>

OwnerPhases == {"new", "waiting", "running", "stopping", "notifying", "joining", "done"}

WorkerPhases == {"unborn", "publishing", "looping", "clearing", "finished"}

ThreadTypeOK ==
    /\ TypeOK
    /\ opc \in OwnerPhases
    /\ wpc \in WorkerPhases
    /\ subLoop \in BOOLEAN
    /\ lpc # "created" => wpc \notin {"unborn", "publishing"}
    /\ wpc \in {"clearing", "finished"} => lpc = "returned"
    /\ opc \in {"stopping", "notifying"} => subLoop \/ lpc = "returned"

ThreadInit ==
    /\ Init
    /\ opc = "new"
    /\ wpc = "unborn"
    /\ subLoop = FALSE

-----------------------------------------------------------------------------
(* The owner.                                                              *)

\* StartLoop up to the wait.
StartLoop ==
    /\ opc = "new"
    /\ opc' = "waiting"
    /\ wpc' = "publishing"
    /\ UNCHANGED <<vars, subLoop>>

\* The wait's loop ends, under the mutex, once sub_loop_ is set.
LoopPublished ==
    /\ opc = "waiting"
    /\ subLoop
    /\ opc' = "running"
    /\ UNCHANGED <<vars, wpc, subLoop>>

\* The destructor reads sub_loop_.
Destroy ==
    /\ opc = "running"
    /\ tpc[Owner] = "idle"
    /\ opc' = IF subLoop THEN "stopping" ELSE "done"
    /\ UNCHANGED <<vars, wpc, subLoop>>

DestroyStop ==
    /\ opc = "stopping"
    /\ StopLoop(Owner)
    /\ opc' = "notifying"
    /\ UNCHANGED <<wpc, subLoop>>

DestroyJoin ==
    /\ opc = "notifying"
    /\ tpc[Owner] = "idle"
    /\ opc' = "joining"
    /\ UNCHANGED <<vars, wpc, subLoop>>

Joined ==
    /\ opc = "joining"
    /\ wpc = "finished"
    /\ opc' = "done"
    /\ UNCHANGED <<vars, wpc, subLoop>>

-----------------------------------------------------------------------------
(* The IO thread.                                                          *)

\* Mutant: the loop's address is not stored in sub_loop_.
PublishNothing ==
    /\ wpc = "publishing"
    /\ wpc' = "looping"
    /\ UNCHANGED <<vars, opc, subLoop>>

Publish ==
    /\ wpc = "publishing"
    /\ wpc' = "looping"
    /\ subLoop' = TRUE
    /\ UNCHANGED <<vars, opc>>

\* Loop() of the published loop, every step of it.  It has sockets once StartLoop
\* has returned: nobody else can give it any.
InLoop ==
    /\ wpc = "looping"
    /\ \/ LoopStep
       \/ opc \notin {"new", "waiting"} /\ \E cs \in SUBSET Channels : PollSockets(cs)
       \/ \E t \in Tasks : QueueFromLoop(t)
       \/ StopFromLoop
    /\ UNCHANGED threadVars

\* Loop() returns, and Worker goes on to clear sub_loop_.
LoopReturned ==
    /\ wpc = "looping"
    /\ lpc = "returned"
    /\ wpc' = "clearing"
    /\ UNCHANGED <<vars, opc, subLoop>>

ClearSubLoop ==
    /\ wpc = "clearing"
    /\ wpc' = "finished"
    /\ subLoop' = FALSE
    /\ UNCHANGED <<vars, opc>>

-----------------------------------------------------------------------------
(* The threads that use the loop StartLoop returned.                       *)

UseLoop ==
    /\ opc = "running"
    /\ \/ \E p \in Threads, t \in Tasks : QueueInLoop(p, t)
       \/ \E p \in Threads \ {Owner} : StopLoop(p)
    /\ UNCHANGED threadVars

FinishWakeup ==
    /\ \E p \in Threads : WakeUpFrom(p)
    /\ UNCHANGED threadVars

WorkerStep ==
    \/ Publish \/ LoopReturned \/ ClearSubLoop
    \/ wpc = "looping" /\ LoopStep /\ UNCHANGED threadVars

OwnerStep == LoopPublished \/ DestroyStop \/ DestroyJoin \/ Joined

ThreadNext ==
    \/ StartLoop \/ LoopPublished \/ Destroy \/ DestroyStop \/ DestroyJoin \/ Joined
    \/ Publish \/ InLoop \/ LoopReturned \/ ClearSubLoop
    \/ UseLoop \/ FinishWakeup

\* Both threads are scheduled, and so is every thread in the middle of
\* QueueInLoop.  The owner may keep the EventLoopThread for ever.
ThreadSpec ==
    /\ ThreadInit /\ [][ThreadNext]_allVars
    /\ WF_allVars(WorkerStep)
    /\ WF_allVars(OwnerStep)
    /\ WF_allVars(FinishWakeup)

-----------------------------------------------------------------------------
\* StartLoop returns: the IO thread publishes its loop and the owner sees it.  And
\* the destructor's Join returns (event_loop_thread.cpp:14-20), if the stop before it
\* is not forgotten: Loop() is past line 60, which resets is_stop_, and it is still
\* set, whatever the sockets do meanwhile.
StartAndJoinReturn ==
    /\ (opc = "waiting") ~> (opc = "running")
    /\ (opc = "joining" /\ isStop /\ lpc # "created") ~> (opc = "done")
=============================================================================
