------------------------------ MODULE Acceptor ------------------------------
(***************************************************************************)
(* server::WebServer and event::EventLoopThreadPool: the main loop accepts *)
(* connections from an edge-triggered listening socket until accept fails, *)
(* and hands each to the next of the sub loops, which registers it.        *)
(*                                                                         *)
(* A connection is its place in the order of arrival.  A loop's mailbox is *)
(* the queue that EventLoop implements (TaskQueue), and what becomes of a  *)
(* registered connection is HttpConnection's concern, but that it gives    *)
(* its descriptor back when it is closed.                                  *)
(***************************************************************************)
EXTENDS Naturals, FiniteSets, SequencesExt

CONSTANTS
    ThreadNum,      \* thread_num_
    MaxFdNum,       \* MAX_FD_NUM
    MaxArrivals     \* bound of the model

ASSUME AcceptorAssumption ==
    ThreadNum \in Nat \ {0} /\ MaxFdNum \in Nat /\ MaxArrivals \in Nat

VARIABLES
    mpc,            \* where the main thread is
    arrived,        \* the connections clients have made so far
    backlog,        \* those the kernel holds for accept
    interest,       \* the events epoll watches the listening socket for,
    ready,          \* and it is on epoll's ready list
    events,         \* events_ and last_events_ of accept_channel_
    lastEvents,
    next,           \* next_
    mail,           \* the connections each sub loop is yet to register,
    registered,     \* and those it has registered and not closed
    gone,           \* connections refused, failed or closed
    batch,          \* history: how many each loop got in this HandleNewConnect,
    cutShort        \* and the last one ended before accept had no more

vars == <<mpc, arrived, backlog, interest, ready, events, lastEvents, next,
          mail, registered, gone, batch, cutShort>>

Loops == 0 .. ThreadNum - 1

Conns == 1 .. MaxArrivals

\* The masks of the channel: none, and EPOLLIN | EPOLLET.
Masks == {"none", "in"}

TypeOK ==
    /\ mpc \in {"new", "started", "polling", "accepting", "updating"}
    /\ arrived \in 0 .. MaxArrivals
    /\ backlog \in Seq(Conns)
    /\ interest \in Masks /\ events \in Masks /\ lastEvents \in Masks
    /\ ready \in BOOLEAN /\ cutShort \in BOOLEAN
    /\ next \in Loops
    /\ mail \in [Loops -> Seq(Conns)]
    /\ registered \in [Loops -> SUBSET Conns]
    /\ gone \subseteq Conns
    /\ batch \in [Loops -> Nat]

Init ==
    /\ mpc = "new"
    /\ arrived = 0 /\ backlog = <<>>
    /\ interest = "none" /\ ready = FALSE
    /\ events = "none" /\ lastEvents = "none"
    /\ next = 0
    /\ mail = [l \in Loops |-> <<>>]
    /\ registered = [l \in Loops |-> {}]
    /\ gone = {}
    /\ batch = [l \in Loops |-> 0]
    /\ cutShort = FALSE

connVars == <<arrived, backlog, mail, registered, gone>>
channelVars == <<interest, ready, events, lastEvents>>
histVars == <<batch, cutShort>>

-----------------------------------------------------------------------------
(* The kernel, for which the socket listens from the constructor on.       *)

\* Each new connection is an edge of its own.
Arrive ==
    /\ arrived < MaxArrivals
    /\ arrived' = arrived + 1
    /\ backlog' = Append(backlog, arrived + 1)
    /\ ready' = (ready \/ interest = "in")
    /\ UNCHANGED <<mpc, interest, events, lastEvents, next, mail, registered, gone, histVars>>

\* epoll_ctl reports what is ready already.
Watch(mask) ==
    /\ interest' = mask
    /\ ready' = (mask = "in" /\ backlog # <<>>)

-----------------------------------------------------------------------------
(* The main thread.                                                        *)

\* Every sub loop has been published when Start of the pool returns.
StartPool ==
    /\ mpc = "new"
    /\ mpc' = "started"
    /\ UNCHANGED <<connVars, channelVars, next, histVars>>

Start ==
    /\ mpc = "started"
    /\ mpc' = "polling"
    /\ events' = "in" /\ lastEvents' = "in"
    /\ Watch("in")
    /\ UNCHANGED <<connVars, next, histVars>>

\* Poll takes the edge, and gets the event if there still is a connection.
Poll ==
    /\ mpc = "polling"
    /\ ready
    /\ ready' = FALSE
    /\ IF backlog = <<>>
       THEN UNCHANGED <<mpc, events, batch>>
       ELSE /\ mpc' = "accepting"
            /\ events' = "none"
            /\ batch' = [l \in Loops |-> 0]
    /\ UNCHANGED <<connVars, interest, lastEvents, next, cutShort>>

NextIndex == (next + 1) % ThreadNum

\* GetNextLoop is called whatever accept returned.
GetNextLoop == next' = NextIndex

\* Mutant: line 118 is missing.
BreakSilently == mpc' = "updating" /\ UNCHANGED events

Break ==
    /\ mpc' = "updating"
    /\ events' = "in"

\* EAGAIN.
AcceptNone ==
    /\ mpc = "accepting"
    /\ backlog = <<>>
    /\ GetNextLoop
    /\ Break
    /\ cutShort' = FALSE
    /\ UNCHANGED <<connVars, interest, ready, lastEvents, batch>>

\* Any other error: the connection failed, or the process has no descriptor left and
\* the connection stays.
AcceptFails ==
    /\ mpc = "accepting"
    /\ backlog # <<>>
    /\ \/ backlog' = Tail(backlog) /\ gone' = gone \cup {Head(backlog)}
       \/ UNCHANGED <<backlog, gone>>
    /\ GetNextLoop
    /\ Break
    /\ cutShort' = TRUE
    /\ UNCHANGED <<arrived, mail, registered, interest, ready, lastEvents, batch>>

InMail == UNION {Range(mail[l]) : l \in Loops}

Registered == UNION {registered[l] : l \in Loops}

\* A descriptor is the least that is free: those below it are of other connections.
FdOutOfBounds == Cardinality(InMail \cup Registered) >= MaxFdNum

\* connect_fd >= MAX_FD_NUM, or it cannot be made non-blocking.
Refuse ==
    /\ mpc = "accepting"
    /\ backlog # <<>>
    /\ backlog' = Tail(backlog)
    /\ gone' = gone \cup {Head(backlog)}
    /\ GetNextLoop
    /\ Break
    /\ cutShort' = TRUE
    /\ UNCHANGED <<arrived, mail, registered, interest, ready, lastEvents, batch>>

\* Mutant: a connection out of bounds is closed and handed over all the same.
HandOverRefused ==
    /\ mpc = "accepting"
    /\ backlog # <<>>
    /\ backlog' = Tail(backlog)
    /\ mail' = [mail EXCEPT ![next] = Append(@, Head(backlog))]
    /\ gone' = IF FdOutOfBounds THEN gone \cup {Head(backlog)} ELSE gone
    /\ batch' = [batch EXCEPT ![next] = @ + 1]
    /\ GetNextLoop
    /\ UNCHANGED <<mpc, arrived, registered, channelVars, cutShort>>

\* Mutant: one connection is accepted for each event.
HandOverOne ==
    /\ mpc = "accepting"
    /\ backlog # <<>>
    /\ ~FdOutOfBounds
    /\ backlog' = Tail(backlog)
    /\ mail' = [mail EXCEPT ![next] = Append(@, Head(backlog))]
    /\ batch' = [batch EXCEPT ![next] = @ + 1]
    /\ GetNextLoop
    /\ Break
    /\ UNCHANGED <<arrived, registered, gone, interest, ready, lastEvents, cutShort>>

\* The connection's Register is queued in the loop, and accept is called again.
HandOver ==
    /\ mpc = "accepting"
    /\ backlog # <<>>
    /\ ~FdOutOfBounds
    /\ backlog' = Tail(backlog)
    /\ mail' = [mail EXCEPT ![next] = Append(@, Head(backlog))]
    /\ batch' = [batch EXCEPT ![next] = @ + 1]
    /\ GetNextLoop
    /\ UNCHANGED <<mpc, arrived, registered, gone, channelVars, cutShort>>

\* HandelCurConnect: epoll hears of the mask only if it changed since the last time.
HandelCurConnect ==
    /\ mpc = "updating"
    /\ mpc' = "polling"
    /\ lastEvents' = events
    /\ IF lastEvents # events THEN Watch(events) ELSE UNCHANGED <<interest, ready>>
    /\ UNCHANGED <<connVars, events, next, histVars>>

MainStep ==
    \/ StartPool \/ Start \/ Poll
    \/ AcceptNone \/ AcceptFails \/ Refuse \/ HandOver
    \/ HandelCurConnect

-----------------------------------------------------------------------------
(* The sub loops.                                                          *)

Register(l) ==
    /\ mail[l] # <<>>
    /\ mail' = [mail EXCEPT ![l] = Tail(@)]
    /\ registered' = [registered EXCEPT ![l] = @ \cup {Head(mail[l])}]
    /\ UNCHANGED <<mpc, arrived, backlog, channelVars, next, gone, histVars>>

Close(l, c) ==
    /\ registered' = [registered EXCEPT ![l] = @ \ {c}]
    /\ gone' = gone \cup {c}
    /\ UNCHANGED <<mpc, arrived, backlog, channelVars, next, mail, histVars>>

Next ==
    \/ Arrive
    \/ MainStep
    \/ \E l \in Loops : Register(l) \/ \E c \in registered[l] : Close(l, c)

\* The main thread and the sub loops are scheduled, and each serves its mailbox.
\* Clients need not connect, nor loops close.
Spec ==
    /\ Init /\ [][Next]_vars
    /\ WF_vars(MainStep)
    /\ \A l \in Loops : WF_vars(Register(l))

-----------------------------------------------------------------------------
\* webserver.cpp:87-115: a connection is in one place at a time, in the backlog, in
\* one loop's mailbox, with one loop, or gone, and in no queue twice; none is dropped.
OnePlace ==
    /\ IsInjective(backlog) /\ \A l \in Loops : IsInjective(mail[l])
    /\ \A l, m \in Loops : l # m =>
          (Range(mail[l]) \cup registered[l]) \cap (Range(mail[m]) \cup registered[m]) = {}
    /\ \A l \in Loops : Range(mail[l]) \cap registered[l] = {}
    /\ (InMail \cup Registered) \cap (Range(backlog) \cup gone) = {}
    /\ Range(backlog) \cap gone = {}
    /\ Range(backlog) \cup InMail \cup Registered \cup gone = 1 .. arrived

\* webserver.cpp:87, 118-122: the main loop blocks with a connection in the backlog
\* and no edge to come only if the last call of HandleNewConnect was cut short.
WaitsBehindRefusal == mpc = "polling" /\ ~ready /\ backlog # <<>> => cutShort

\* event_loop_thread_pool.cpp:49-50: in one call of HandleNewConnect no loop gets two
\* connections more than another.  (From call to call it may: README.)
BatchBalanced == \A l, m \in Loops : batch[l] <= batch[m] + 1

\* A connection is registered with a loop in the end, unless it fails or is refused,
\* or waits behind one that did.
EventuallyRegistered ==
    \A c \in Conns :
        (c \in Range(backlog) \cup InMail) ~>
            (c \in Registered \cup gone \/ (c \in Range(backlog) /\ cutShort))
=============================================================================
