----------------------------- MODULE ThreadPool -----------------------------
(***************************************************************************)
(* thread::ThreadPool: a ring of tasks under a mutex, workers that wait    *)
(* for them, and a shutdown.                                               *)
(*                                                                         *)
(* A section under mutex_ is one step where nothing can come between.  The *)
(* steps that are seen from outside it are of their own: the two halves of *)
(* ++ and -- of started_thread_count_ (Start does not lock), the wait, and *)
(* the task.  immediate_shutdown is 0, which is what shutdown_ is before   *)
(* anyone shuts down, so a worker that finds a task before that leaves.    *)
(***************************************************************************)
EXTENDS Integers, Sequences, FiniteSets

CONSTANTS
    Workers,        \* the threads of Start, thread_num_ of them
    Tasks,          \* what is added, each once
    Closers,        \* threads that call Destroy
    queue_size,
    NULL

ASSUME PoolAssumption ==
    /\ queue_size \in Nat \ {0}
    /\ NULL \notin Tasks
    /\ "free" \notin Workers \cup Closers /\ "destroyed" \notin Workers \cup Closers
    /\ Workers \cap Closers = {}

immediate == 0
graceful  == 1

VARIABLES
    head, tail, count, task_queue, shutdown, started,
    mutex,      \* "free", who holds it, or "destroyed"
    pc,         \* of each worker
    task,       \* of each worker: what it runs
    seen,       \* started_thread_count_ as a ++ or -- has read it
    starting,   \* what Start is doing: "create", "read", "write", "done"
    closing,    \* of each thread that may call Destroy
    accepted,   \* history: the tasks Add took,
    taken,      \* those a worker took,
    left        \* and the workers that had left when Destroy came

ring == <<head, tail, count, task_queue, accepted, taken>>
life == <<started, seen, starting, pc>>
vars == <<ring, life, shutdown, mutex, task, closing, left>>

Slots == 0..(queue_size - 1)

TypeOK ==
    /\ head \in Slots /\ tail \in Slots /\ count \in 0..queue_size
    /\ task_queue \in [Slots -> Tasks \cup {NULL}]
    /\ shutdown \in {immediate, graceful}
    /\ started \in Int /\ seen \in [Workers \cup {"start"} -> Int]
    /\ mutex \in Workers \cup Closers \cup {"free", "destroyed"}
    /\ pc \in [Workers -> {"none", "lock", "wait", "run", "leave", "count", "done"}]
    /\ task \in [Workers -> Tasks \cup {NULL}]
    /\ starting \in {"create", "read", "write", "done", "failed"}
    /\ closing \in [Closers -> {"no", "join", "freed", "kept", "refused"}]
    /\ accepted \in Seq(Tasks) /\ taken \in Seq(Tasks)
    /\ left \subseteq Workers

Init ==
    /\ head = 0 /\ tail = 0 /\ count = 0
    /\ task_queue = [i \in Slots |-> NULL]
    /\ shutdown = 0 /\ started = 0
    /\ seen = [x \in Workers \cup {"start"} |-> 0]
    /\ mutex = "free"
    /\ pc = [w \in Workers |-> "none"]
    /\ task = [w \in Workers |-> NULL]
    /\ starting = "create"
    /\ closing = [c \in Closers |-> "no"]
    /\ accepted = <<>> /\ taken = <<>> /\ left = {}

-----------------------------------------------------------------------------
\* pthread_create of the next thread; it runs at once, before it is counted.
Create ==
    /\ starting = "create"
    /\ \/ \E w \in Workers :
             /\ pc[w] = "none"
             /\ pc' = [pc EXCEPT ![w] = "lock"]
             /\ starting' = "read"
       \/ /\ starting' = "failed"
          /\ UNCHANGED pc
    /\ UNCHANGED <<ring, shutdown, started, seen, mutex, task, closing, left>>

CountUp ==
    /\ \/ /\ starting = "read"
          /\ seen' = [seen EXCEPT !["start"] = started]
          /\ starting' = "write"
          /\ UNCHANGED started
       \/ /\ starting = "write"
          /\ started' = seen["start"] + 1
          /\ starting' = IF \E w \in Workers : pc[w] = "none" THEN "create" ELSE "done"
          /\ UNCHANGED seen
    /\ UNCHANGED <<ring, pc, shutdown, mutex, task, closing, left>>

\* Mutant: a full ring is not noticed.
FullLate == FALSE

Full == count = queue_size

\* pthread_cond_signal: one waiting worker goes on, if there is one.
Signal ==
    IF \E w \in Workers : pc[w] = "wait"
    THEN \E w \in Workers : pc[w] = "wait" /\ pc' = [pc EXCEPT ![w] = "lock"]
    ELSE UNCHANGED pc

\* A task that finds the ring full, or the pool shut down, changes nothing.
Add(t) ==
    /\ mutex = "free"
    /\ \A i \in DOMAIN accepted : accepted[i] # t
    /\ ~Full /\ shutdown = 0
    /\ task_queue' = [task_queue EXCEPT ![tail] = t]
    /\ tail' = (tail + 1) % queue_size
    /\ count' = count + 1
    /\ accepted' = Append(accepted, t)
    /\ Signal
    /\ UNCHANGED <<head, taken, started, seen, starting, shutdown, mutex, task, closing, left>>

\* pthread_cond_wait may end without a signal.
Spurious(w) ==
    /\ pc[w] = "wait"
    /\ pc' = [pc EXCEPT ![w] = "lock"]
    /\ UNCHANGED <<ring, started, seen, starting, shutdown, mutex, task, closing, left>>

\* Mutant: a worker leaves on the shutdown, whatever is queued.
LeaveAtOnce == shutdown = immediate \/ shutdown = graceful

\* The condition that ends Run.
Leave == shutdown = immediate \/ (shutdown = graceful /\ count = 0)

Take(w) ==
    /\ task' = [task EXCEPT ![w] = task_queue[head]]
    /\ task_queue' = [task_queue EXCEPT ![head] = NULL]
    /\ head' = (head + 1) % queue_size
    /\ count' = count - 1
    /\ taken' = Append(taken, task_queue[head])

\* Run, with the lock: wait, leave (and keep the lock), or take a task.
Look(w) ==
    /\ pc[w] = "lock" /\ mutex = "free"
    /\ \/ /\ count = 0 /\ shutdown = 0
          /\ pc' = [pc EXCEPT ![w] = "wait"]
          /\ UNCHANGED <<ring, task, mutex>>
       \/ /\ count # 0 \/ shutdown # 0
          /\ Leave
          /\ pc' = [pc EXCEPT ![w] = "leave"]
          /\ mutex' = w
          /\ UNCHANGED <<ring, task>>
       \/ /\ count # 0 \/ shutdown # 0
          /\ ~Leave
          /\ Take(w)
          /\ pc' = [pc EXCEPT ![w] = "run"]
          /\ UNCHANGED <<tail, accepted, mutex>>
    /\ UNCHANGED <<started, seen, starting, shutdown, closing, left>>

Callback(w) ==
    /\ pc[w] = "run"
    /\ pc' = [pc EXCEPT ![w] = "lock"]
    /\ task' = [task EXCEPT ![w] = NULL]
    /\ UNCHANGED <<ring, started, seen, starting, shutdown, mutex, closing, left>>

\* --started_thread_count_, still with the lock, and then unlock and exit.
CountDown(w) ==
    /\ \/ /\ pc[w] = "leave"
          /\ seen' = [seen EXCEPT ![w] = started]
          /\ pc' = [pc EXCEPT ![w] = "count"]
          /\ UNCHANGED <<started, mutex>>
       \/ /\ pc[w] = "count"
          /\ started' = seen[w] - 1
          /\ pc' = [pc EXCEPT ![w] = "done"]
          /\ mutex' = "free"
          /\ UNCHANGED seen
    /\ UNCHANGED <<ring, starting, shutdown, task, closing, left>>

-----------------------------------------------------------------------------
\* Mutant: only one of the waiting workers is woken.
WakeOne == Signal

Broadcast == pc' = [w \in Workers |-> IF pc[w] = "wait" THEN "lock" ELSE pc[w]]

\* A second Destroy finds shutdown_ set and returns with the mutex locked.  (Two
\* that join the same threads, as after immediate_shutdown, are undefined.)
Destroy(c, option) ==
    /\ closing[c] = "no" /\ starting = "done" /\ mutex = "free"
    /\ \/ /\ shutdown # 0
          /\ closing' = [closing EXCEPT ![c] = "refused"]
          /\ mutex' = c
          /\ UNCHANGED <<pc, shutdown, left>>
       \/ /\ shutdown = 0 /\ \A d \in Closers : closing[d] = "no"
          /\ shutdown' = option
          /\ Broadcast
          /\ closing' = [closing EXCEPT ![c] = "join"]
          /\ left' = {w \in Workers : pc[w] \in {"leave", "count", "done"}}
          /\ UNCHANGED mutex
    /\ UNCHANGED <<ring, started, seen, starting, task>>

Joined == \A w \in Workers : pc[w] = "done"

\* The joins, and Free: nothing is freed when the count is above zero.
JoinAndFree(c) ==
    /\ closing[c] = "join" /\ Joined
    /\ IF started > 0
       THEN closing' = [closing EXCEPT ![c] = "kept"] /\ UNCHANGED mutex
       ELSE /\ mutex = "free"
            /\ mutex' = "destroyed"
            /\ closing' = [closing EXCEPT ![c] = "freed"]
    /\ UNCHANGED <<ring, life, shutdown, task, left>>

WorkerStep(w) == Look(w) \/ Callback(w) \/ CountDown(w)

Next ==
    \/ Create \/ CountUp
    \/ \E t \in Tasks : Add(t)
    \/ \E w \in Workers : WorkerStep(w) \/ Spurious(w)
    \/ \E c \in Closers :
          JoinAndFree(c) \/ \E o \in {immediate, graceful} : Destroy(c, o)

Fairness ==
    /\ \A w \in Workers : WF_vars(WorkerStep(w))
    /\ \A c \in Closers : WF_vars(JoinAndFree(c))

Spec == Init /\ [][Next]_vars /\ Fairness

-----------------------------------------------------------------------------
\* The workers take the tasks in the order Add took them, each once, and the ring
\* holds those that are left, from head_ on, also when it is full (Add, Run).
InOrderOnce ==
    /\ Len(accepted) = Len(taken) + count
    /\ \A i \in 1..Len(taken) : taken[i] = accepted[i]
    /\ \A i \in 0..(count - 1) :
          task_queue[(head + i) % queue_size] = accepted[Len(taken) + i + 1]
    /\ tail = (head + count) % queue_size

\* When a graceful Destroy has joined the workers, every task was taken, unless
\* all of them had left before it came: one that is left drains the ring.
DrainedIfAnyWasLeft ==
    (\E c \in Closers : closing[c] \in {"freed", "kept"}) /\ shutdown = graceful
        /\ left # Workers => count = 0

\* A graceful Destroy returns, unless a second one leaves the mutex locked; no
\* worker is left waiting for a signal that does not come.
DestroyReturns ==
    \A c \in Closers :
        (closing[c] = "join" /\ shutdown = graceful)
            ~> (closing[c] \in {"freed", "kept"} \/ \E d \in Closers : closing[d] = "refused")
=============================================================================
