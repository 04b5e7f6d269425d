----------------------------- MODULE EventLoop -----------------------------
(***************************************************************************)
(* One reactor: event::EventLoop with the eventfd of its wakeup channel    *)
(* and the part of event::Poller that decides when epoll_wait returns.     *)
(*                                                                         *)
(* Other threads hand the loop thread functions through pending_functions_ *)
(* and wake it through an eventfd registered EPOLLIN | EPOLLET.  The push  *)
(* is done under mutex_, the write to the eventfd after the unlock, so     *)
(* every other step may come between the two.                              *)
(*                                                                         *)
(* RunInLoop is QueueInLoop when the caller is another thread and a plain  *)
(* call when it is the loop thread (event_loop.cpp 120-126): it adds no    *)
(* action.  is_looping_ and is_event_handling_ are written and never read. *)
(***************************************************************************)
EXTENDS Naturals, Sequences, Functions

CONSTANTS
    Threads,        \* the threads that are not the loop thread
    Tasks,          \* the functions handed to QueueInLoop, each at most once
    Channels,       \* the other channels of the poller: sockets
    MaxStops        \* bound of the model: calls of StopLoop

ASSUME MaxStopsIsNat == MaxStops \in Nat

VARIABLES
    lpc,            \* where the loop thread is in Loop()
    isStop,         \* is_stop_
    pending,        \* pending_functions_
    functions,      \* the local vector of PerformPendingFunctions, what is left of it
    calling,        \* is_calling_pending_functions_
    counter,        \* the kernel's counter behind event_fd_
    edge,           \* event_fd_ is on epoll's ready list
    ready,          \* the channels Poll returned that are not yet handled
    tpc,            \* per thread: "idle", or "wakeup" before the write of WakeUp
    stops,          \* calls of StopLoop so far
    executed        \* history: the functions begun, in order

loopVars  == <<lpc, ready>>
queueVars == <<pending, functions, calling, executed>>
fdVars    == <<counter, edge>>
stopVars  == <<isStop, stops>>
vars      == <<lpc, ready, pending, functions, calling, executed, counter, edge,
               isStop, stops, tpc>>

WakeupChannel == "event_fd"

ASSUME WakeupIsNotASocket == WakeupChannel \notin Channels

LoopPhases == {"created", "test", "poll", "handle", "run", "task", "selfwake",
               "expire", "returned"}

\* The types, and the phases of Loop() in which the locals exist: the list
\* returned by Poll, the vector swapped out by PerformPendingFunctions, and
\* is_calling_pending_functions_, true exactly while that vector is being run.
TypeOK ==
    /\ lpc \in LoopPhases
    /\ isStop \in BOOLEAN
    /\ pending \in Seq(Tasks)
    /\ functions \in Seq(Tasks)
    /\ calling \in BOOLEAN
    /\ counter \in Nat
    /\ edge \in BOOLEAN
    /\ ready \in SUBSET (Channels \cup {WakeupChannel})
    /\ tpc \in [Threads -> {"idle", "wakeup"}]
    /\ stops \in Nat
    /\ executed \in Seq(Tasks)
    /\ ready # {} => lpc = "handle"
    /\ calling <=> lpc \in {"run", "task", "selfwake"}
    /\ functions # <<>> => calling

\* The constructor: a poller that knows the wakeup channel, nothing queued.
Init ==
    /\ lpc = "created"
    /\ isStop = FALSE
    /\ pending = <<>>
    /\ functions = <<>>
    /\ calling = FALSE
    /\ counter = 0
    /\ edge = FALSE
    /\ ready = {}
    /\ tpc = [p \in Threads |-> "idle"]
    /\ stops = 0
    /\ executed = <<>>

-----------------------------------------------------------------------------
(* The eventfd: a write adds to the counter and puts the descriptor on the *)
(* ready list of the edge-triggered epoll set; a read takes the counter to *)
(* zero and leaves the ready list alone.                                   *)

WakeUp ==
    /\ counter' = counter + 1
    /\ edge' = TRUE

HandleRead ==
    /\ counter' = 0
    /\ UNCHANGED edge

Fresh(t) == t \notin Range(pending) \cup Range(functions) \cup Range(executed)

Push(t) ==
    /\ Fresh(t)
    /\ pending' = Append(pending, t)
    /\ UNCHANGED <<functions, calling, executed>>

-----------------------------------------------------------------------------
(* Steps of the other threads.                                             *)

\* QueueInLoop up to the unlock.  The EventLoop is alive until Loop returns.
QueueInLoop(p, t) ==
    /\ lpc # "returned"
    /\ tpc[p] = "idle"
    /\ Push(t)
    /\ tpc' = [tpc EXCEPT ![p] = "wakeup"]
    /\ UNCHANGED <<loopVars, fdVars, stopVars>>

\* Mutant: the wakeup of StopLoop forgotten.
StopLoopNoWakeup(p) ==
    /\ lpc # "returned"
    /\ tpc[p] = "idle"
    /\ stops < MaxStops
    /\ stops' = stops + 1
    /\ isStop' = TRUE
    /\ UNCHANGED <<loopVars, fdVars, queueVars, tpc>>

StopLoop(p) ==
    /\ lpc # "returned"
    /\ tpc[p] = "idle"
    /\ stops < MaxStops
    /\ stops' = stops + 1
    /\ isStop' = TRUE
    /\ tpc' = [tpc EXCEPT ![p] = "wakeup"]
    /\ UNCHANGED <<loopVars, fdVars, queueVars>>

\* The end of QueueInLoop and of StopLoop, when the caller is another thread.
WakeUpFrom(p) ==
    /\ tpc[p] = "wakeup"
    /\ WakeUp
    /\ tpc' = [tpc EXCEPT ![p] = "idle"]
    /\ UNCHANGED <<loopVars, queueVars, stopVars>>

-----------------------------------------------------------------------------
(* Steps of the loop thread.                                               *)

LoopStart ==
    /\ lpc = "created"
    /\ lpc' = "test"
    /\ isStop' = FALSE
    /\ UNCHANGED <<ready, fdVars, queueVars, stops, tpc>>

TestStop ==
    /\ lpc = "test"
    /\ lpc' = IF isStop THEN "returned" ELSE "poll"
    /\ UNCHANGED <<ready, fdVars, queueVars, stopVars, tpc>>

\* epoll_wait with some sockets ready.  The wakeup channel comes with them when
\* it is ready too, unless the sockets alone fill the array of events.
PollSockets(cs) ==
    /\ lpc = "poll"
    /\ cs # {}
    /\ \/ /\ edge
          /\ edge' = FALSE
          /\ ready' = IF counter > 0 THEN cs \cup {WakeupChannel} ELSE cs
       \/ /\ UNCHANGED edge
          /\ ready' = cs
    /\ lpc' = "handle"
    /\ UNCHANGED <<counter, queueVars, stopVars, tpc>>

\* epoll_wait with no socket ready.  Taken off the ready list with a counter of
\* zero the descriptor reports nothing, and Poll goes on waiting: neither that
\* nor the timeout of epoll_wait makes Poll return.
PollWakeup ==
    /\ lpc = "poll"
    /\ edge
    /\ edge' = FALSE
    /\ IF counter > 0
       THEN ready' = {WakeupChannel} /\ lpc' = "handle"
       ELSE UNCHANGED loopVars
    /\ UNCHANGED <<counter, queueVars, stopVars, tpc>>

\* Channel::HandleEvents of one ready channel has returned.  The wakeup
\* channel's handlers drain the eventfd and ask for the same events again, so
\* no epoll_ctl is made.
HandleEvents(c) ==
    /\ lpc = "handle"
    /\ c \in ready
    /\ ready' = ready \ {c}
    /\ IF c = WakeupChannel THEN HandleRead ELSE UNCHANGED fdVars
    /\ UNCHANGED <<lpc, queueVars, stopVars, tpc>>

\* Mutant: the functions are copied to the local vector, not swapped.
CopyPending ==
    /\ lpc = "handle"
    /\ ready = {}
    /\ lpc' = "run"
    /\ calling' = TRUE
    /\ functions' = pending
    /\ UNCHANGED <<ready, pending, executed, fdVars, stopVars, tpc>>

\* PerformPendingFunctions up to the unlock.
SwapPending ==
    /\ lpc = "handle"
    /\ ready = {}
    /\ lpc' = "run"
    /\ calling' = TRUE
    /\ functions' = pending
    /\ pending' = <<>>
    /\ UNCHANGED <<ready, executed, fdVars, stopVars, tpc>>

RunFunction ==
    /\ lpc = "run"
    /\ functions # <<>>
    /\ lpc' = "task"
    /\ executed' = Append(executed, Head(functions))
    /\ functions' = Tail(functions)
    /\ UNCHANGED <<ready, pending, calling, fdVars, stopVars, tpc>>

FunctionReturns ==
    /\ lpc = "task"
    /\ lpc' = "run"
    /\ UNCHANGED <<ready, queueVars, fdVars, stopVars, tpc>>

FunctionsDone ==
    /\ lpc = "run"
    /\ functions = <<>>
    /\ lpc' = "expire"
    /\ calling' = FALSE
    /\ UNCHANGED <<ready, pending, functions, executed, fdVars, stopVars, tpc>>

\* The timers' destructors run here and close connections in place.
HandleExpire ==
    /\ lpc = "expire"
    /\ lpc' = "test"
    /\ UNCHANGED <<ready, queueVars, fdVars, stopVars, tpc>>

\* The loop thread runs code that may call the loop: a socket's handler, or a
\* queued function.
InCallback ==
    \/ lpc = "handle" /\ ready \ {WakeupChannel} # {}
    \/ lpc = "task"

\* Mutant: the test of is_calling_pending_functions_ is missing.
QueueFromLoopNoWakeup(t) ==
    /\ InCallback
    /\ Push(t)
    /\ UNCHANGED <<loopVars, fdVars, stopVars, tpc>>

\* QueueInLoop called by the loop thread: the write is made only when queued
\* functions are being run.
QueueFromLoop(t) ==
    /\ InCallback
    /\ Push(t)
    /\ lpc' = IF calling THEN "selfwake" ELSE lpc
    /\ UNCHANGED <<ready, fdVars, stopVars, tpc>>

WakeUpFromLoop ==
    /\ lpc = "selfwake"
    /\ WakeUp
    /\ lpc' = "task"
    /\ UNCHANGED <<ready, queueVars, stopVars, tpc>>

StopFromLoop ==
    /\ InCallback
    /\ stops < MaxStops
    /\ stops' = stops + 1
    /\ isStop' = TRUE
    /\ UNCHANGED <<loopVars, fdVars, queueVars, tpc>>

-----------------------------------------------------------------------------
\* What the loop thread does by itself, sockets apart.
LoopStep ==
    \/ LoopStart \/ TestStop \/ PollWakeup
    \/ \E c \in Channels \cup {WakeupChannel} : HandleEvents(c)
    \/ SwapPending \/ RunFunction \/ FunctionReturns \/ FunctionsDone
    \/ HandleExpire \/ WakeUpFromLoop

\* What clients of the loop and the network decide.
Environment ==
    \/ \E p \in Threads, t \in Tasks : QueueInLoop(p, t)
    \/ \E p \in Threads : StopLoop(p)
    \/ \E cs \in SUBSET Channels : PollSockets(cs)
    \/ \E t \in Tasks : QueueFromLoop(t)
    \/ StopFromLoop

Next ==
    \/ LoopStep
    \/ \E p \in Threads : WakeUpFrom(p)
    \/ Environment

Spec == Init /\ [][Next]_vars

\* The scheduler runs the loop thread and lets a thread that has pushed go on to
\* its write; the queued functions and the handlers return.  Nothing is assumed
\* of the sockets: they may stay silent for ever.
Fairness ==
    /\ WF_vars(LoopStep)
    /\ \A p \in Threads : WF_vars(WakeUpFrom(p))

FairSpec == Spec /\ Fairness

-----------------------------------------------------------------------------
\* A wakeup is on its way to a loop thread that is blocked in epoll_wait.
WakeupComing ==
    \/ edge /\ counter > 0
    \/ \E p \in Threads : tpc[p] = "wakeup"

\* The loop thread is never left blocked in epoll_wait with a function queued
\* and nobody about to wake it (QueueInLoop's unlocked write, HandleRead's
\* drain and the swap in PerformPendingFunctions, in any order).
NoLostWakeup ==
    lpc = "poll" /\ pending # <<>> => WakeupComing

\* The same for StopLoop: a loop told to stop after Loop() reset is_stop_ is
\* never left blocked in epoll_wait with nobody about to wake it.
NoLostStop ==
    lpc = "poll" /\ isStop => WakeupComing

\* QueueInLoop, HandleRead and PerformPendingFunctions together are a
\* first-in first-out queue that loses and repeats nothing and, under fairness,
\* runs every queued function unless the loop returns.
Queue == INSTANCE TaskQueue WITH
            waiting <- functions \o pending,
            open <- lpc # "returned"

ImplementsTaskQueue == Queue!TQSpec
=============================================================================
