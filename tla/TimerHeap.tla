------------------------------ MODULE TimerHeap ------------------------------
(***************************************************************************)
(* The timers of one IO thread's connections: Timer, TimerHeap, and the    *)
(* calls HttpConnection and Poller make to them.                           *)
(*                                                                         *)
(* A timer's clock is the time of day modulo Period (10000 seconds), and   *)
(* it expires when that clock shows its creation's value plus its timeout, *)
(* or more.  The heap is looked at only when the loop has been woken by an *)
(* event of some connection.  A timer that is given up stays in the heap,  *)
(* marked as deleted, until it comes to the top.                           *)
(***************************************************************************)
EXTENDS Integers, FiniteSets

CONSTANTS
    Conns,      \* the loop's connections
    Timeouts,   \* 2 s, 2.5 min, 5 min
    Period,     \* the time at which the clock starts again from zero
    MaxTime,    \* bounds of the model: time,
    MaxTimers   \* and timers in the heap

ASSUME TimeAssumption ==
    /\ Timeouts \subseteq Nat \ {0}
    /\ Period \in Nat \ {0}
    /\ MaxTime \in Nat /\ MaxTimers \in Nat

VARIABLES
    now,        \* time
    clock,      \* time as the timers see it
    heap,       \* timer_heap_
    open,       \* connections with a socket
    pc          \* "wait" in epoll_wait, "events", "expire" in HandleExpireEvent

timerVars == <<now, clock, heap, open, pc>>

\* born and timeout are history: the code keeps their sum, on its clock.
Timer ==
    [conn : Conns, expire : Nat, deleted : BOOLEAN, born : Nat, timeout : Timeouts]

TimerTypeOK ==
    /\ now \in Nat
    /\ clock \in 0..(Period - 1)
    /\ heap \subseteq Timer
    /\ open \subseteq Conns
    /\ pc \in {"wait", "events", "expire"}

TimerInit ==
    /\ now \in 0..(Period - 1)
    /\ clock = now
    /\ heap = {}
    /\ open = {}
    /\ pc = "wait"

\* Time passes at any point of the loop.
Tick ==
    /\ now < MaxTime
    /\ now' = now + 1
    /\ clock' = IF clock + 1 = Period THEN 0 ELSE clock + 1
    /\ UNCHANGED <<heap, open, pc>>

-----------------------------------------------------------------------------
NewTimer(c, t) ==
    [conn |-> c, expire |-> clock + t, deleted |-> FALSE, born |-> now, timeout |-> t]

\* Timer::Release, through timer_ of the connection.
Released(c) ==
    {IF t.conn = c THEN [t EXCEPT !.deleted = TRUE] ELSE t : t \in heap}

\* Register of a new connection, or an event of an open one and the HandleUpdate
\* after it: ResetTimer, then AddTimer.
Touch(c, t) ==
    /\ pc \in {"wait", "events"}
    /\ Cardinality(heap) < MaxTimers
    /\ pc' = "events"
    /\ open' = open \cup {c}
    /\ heap' = Released(c) \cup {NewTimer(c, t)}
    /\ UNCHANGED <<now, clock>>

\* An event that ends the connection: ResetTimer, then Delete.
Close(c) ==
    /\ pc \in {"wait", "events"}
    /\ c \in open
    /\ pc' = "events"
    /\ open' = open \ {c}
    /\ heap' = Released(c)
    /\ UNCHANGED <<now, clock>>

\* The peer has ended and output is left: ResetTimer only (Keep of HttpConnection).
Keep(c) ==
    /\ pc \in {"wait", "events"}
    /\ c \in open
    /\ pc' = "events"
    /\ heap' = Released(c)
    /\ UNCHANGED <<now, clock, open>>

HandleExpire ==
    /\ pc = "events"
    /\ pc' = "expire"
    /\ UNCHANGED <<now, clock, heap, open>>

\* Mutant: the order of the heap is the other way round.
LastOnTop(t) == t \in heap /\ \A u \in heap : u.expire <= t.expire

\* The first to expire, or one of several.
OnTop(t) == t \in heap /\ \A u \in heap : t.expire <= u.expire

\* Mutant: the clock is compared with the time left only.
ExpiredEarly(t) == t.deleted \/ clock >= t.expire - 1

Expired(t) == t.deleted \/ clock >= t.expire

\* The top is popped; the destructor of one that still has its connection deletes it.
PopTimer(t) ==
    /\ pc = "expire"
    /\ OnTop(t)
    /\ Expired(t)
    /\ heap' = heap \ {t}
    /\ open' = IF t.deleted THEN open ELSE open \ {t.conn}
    /\ UNCHANGED <<now, clock, pc>>

ExpireDone ==
    /\ pc = "expire"
    /\ heap = {} \/ \E t \in heap : OnTop(t) /\ ~Expired(t)
    /\ pc' = "wait"
    /\ UNCHANGED <<now, clock, heap, open>>

TimerNext ==
    \/ Tick \/ HandleExpire \/ ExpireDone
    \/ \E c \in Conns : Close(c) \/ Keep(c) \/ \E t \in Timeouts : Touch(c, t)
    \/ \E t \in heap : PopTimer(t)

TimerSpec == TimerInit /\ [][TimerNext]_timerVars

-----------------------------------------------------------------------------
\* A connection has at most one timer that can still close it, and none once it
\* is closed: nothing closes it a second time.
OneTimer ==
    \A t, u \in heap :
        ~t.deleted /\ ~u.deleted /\ t.conn = u.conn => t = u /\ t.conn \in open

\* A connection is never closed by HandleExpire before it has been silent for
\* its timeout, wherever the clock starts again: "the timeout is a lower bound"
\* (src/WebServer/README.md:42).
NeverEarly ==
    [][\A c \in open \ open' :
          pc = "expire" => \E t \in heap :
              t.conn = c /\ ~t.deleted /\ now >= t.born + t.timeout]_timerVars

\* HandleExpireEvent looks at the top only, and yet leaves no timer that is
\* expired by its clock, given up or not.
NoneExpiredLeft ==
    [][pc = "expire" /\ pc' = "wait" => \A t \in heap : clock < t.expire]_timerVars
=============================================================================
