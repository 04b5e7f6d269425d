--------------------------- MODULE HttpConnection ---------------------------
(***************************************************************************)
(* The HTTP connections of one IO thread: HttpConnection, its Channel, and *)
(* the Poller's tables, with the kernel's edge-triggered epoll under them  *)
(* and the peers at the other end.                                         *)
(*                                                                         *)
(* What a request says is abstracted to the three outcomes of parsing it;  *)
(* output is a few send buffers full of bytes; time is left out, and       *)
(* HandleExpire finds any set of live timers expired (TimerHeap.tla is     *)
(* about which).  Neither handler calls another connection's, so a handler *)
(* is one step and the update that follows it another: the peers, and the  *)
(* main thread that accepts, act between them.                             *)
(***************************************************************************)
EXTENDS Naturals, FiniteSets, Sequences, SequencesExt

CONSTANTS
    Conns,      \* HttpConnection objects; one that is destroyed may be made again
    Fds,        \* descriptors accept() may return
    NULL,
    MaxOutput   \* bound of the model: the largest response, in send buffers

ASSUME ConnAssumption == NULL \notin Conns \cup Fds /\ MaxOutput \in Nat \ {0}

VARIABLES
    conn,       \* the fields of each HttpConnection and of its Channel
    sock,       \* the kernel's side of its socket
    fdOf,       \* connect_fd_, NULL when there is no such object
    channels,   \* ready_channels_ of the Poller
    holders,    \* http_connections_ of the Poller
    queued,     \* connections whose Register the main thread has queued
    pc,         \* where Loop() is
    cur         \* the connection whose handler has run and whose update is due

loopVars  == <<pc, cur>>
tableVars == <<fdOf, channels, holders>>
vars      == <<conn, sock, fdOf, channels, holders, queued, pc, cur>>

Events == {"IN", "OUT", "ONESHOT"}  \* all registrations are edge-triggered

\* ERR stands for EPOLLERR | EPOLLHUP, which a reset connection reports together.
Connection ==
    [state   : {"CONNECTED", "DISCONNECTING", "DISCONNECTED"},
     isError : BOOLEAN,
     unsent  : 0..MaxOutput,                \* write_buffer_, in send buffers
     events  : SUBSET Events,               \* events_
     last    : SUBSET Events,               \* last_events_
     revents : SUBSET {"IN", "OUT", "ERR"}, \* reported and not yet handled
     timers  : 0..2,                        \* unreleased timers in the heap
     timer   : BOOLEAN]                     \* timer_ refers to the last of them

Socket ==
    [polled   : BOOLEAN,        \* in the epoll set
     interest : SUBSET Events,  \* {} once a one-shot registration has fired
     edge     : BOOLEAN,        \* in epoll's ready list
     data     : BOOLEAN,        \* bytes to read
     fin      : BOOLEAN,        \* the peer sends no more
     rst      : BOOLEAN,        \* the connection is reset
     room     : BOOLEAN]        \* the send buffer takes bytes

NewConnection ==
    [state |-> "CONNECTED", isError |-> FALSE, unsent |-> 0, events |-> {},
     last |-> {}, revents |-> {}, timers |-> 0, timer |-> FALSE]

NewSocket ==
    [polled |-> FALSE, interest |-> {}, edge |-> FALSE, data |-> FALSE,
     fin |-> FALSE, rst |-> FALSE, room |-> TRUE]

Live == {c \in Conns : fdOf[c] # NULL}

Registrations == {{}, {"IN"}, {"OUT"}, {"IN", "ONESHOT"}}

TypeOK ==
    /\ conn \in [Conns -> Connection]
    /\ sock \in [Conns -> Socket]
    /\ \A c \in Conns : sock[c].interest \in Registrations
    /\ fdOf \in [Conns -> Fds \cup {NULL}]
    /\ channels \in [Fds -> Conns \cup {NULL}]
    /\ holders \in [Fds -> Conns \cup {NULL}]
    /\ queued \in SUBSET Conns
    /\ pc \in {"poll", "events", "pending", "expire"}
    /\ cur \in Conns \cup {NULL}

Init ==
    /\ conn = [c \in Conns |-> NewConnection]
    /\ sock = [c \in Conns |-> NewSocket]
    /\ fdOf = [c \in Conns |-> NULL]
    /\ channels = [f \in Fds |-> NULL]
    /\ holders = [f \in Fds |-> NULL]
    /\ queued = {}
    /\ pc = "poll"
    /\ cur = NULL

-----------------------------------------------------------------------------
(* epoll.                                                                  *)

\* What epoll_wait would report of a socket.
Ready(s) ==
    IF s.interest = {} THEN {}
    ELSE {e \in s.interest : e = "IN" /\ (s.data \/ s.fin \/ s.rst)}
         \cup {e \in s.interest : e = "OUT" /\ (s.room \/ s.rst)}
         \cup {e \in {"ERR"} : s.rst}

\* The socket after a change that wakes those who poll for the events woken.
Woken(s, woken) ==
    IF s.polled /\ s.interest \cap woken # {} THEN [s EXCEPT !.edge = TRUE] ELSE s

\* epoll_ctl ADD and MOD look at the socket at once.
Armed(s, events) ==
    LET t == [s EXCEPT !.polled = TRUE, !.interest = events]
    IN  [t EXCEPT !.edge = @ \/ Ready(t) # {}]

-----------------------------------------------------------------------------
(* The peers and the main thread.                                          *)

PeerSends(c) ==
    /\ c \in Live /\ ~sock[c].fin /\ ~sock[c].rst
    /\ sock' = [sock EXCEPT ![c] = Woken([@ EXCEPT !.data = TRUE], {"IN"})]
    /\ UNCHANGED <<conn, tableVars, queued, loopVars>>

\* The peer has read a full send buffer of output.
PeerReads(c) ==
    /\ c \in Live /\ ~sock[c].room /\ ~sock[c].rst
    /\ sock' = [sock EXCEPT ![c] = Woken([@ EXCEPT !.room = TRUE], {"OUT"})]
    /\ UNCHANGED <<conn, tableVars, queued, loopVars>>

PeerCloses(c) ==
    /\ c \in Live /\ ~sock[c].fin /\ ~sock[c].rst
    /\ sock' = [sock EXCEPT ![c] = Woken([@ EXCEPT !.fin = TRUE], {"IN"})]
    /\ UNCHANGED <<conn, tableVars, queued, loopVars>>

PeerResets(c) ==
    /\ c \in Live /\ ~sock[c].rst
    /\ sock' = [sock EXCEPT ![c] =
                   Woken([@ EXCEPT !.rst = TRUE, !.data = FALSE], Events)]
    /\ UNCHANGED <<conn, tableVars, queued, loopVars>>

\* HandleNewConnect: the kernel gives a descriptor that is not open, and the
\* connection's Register is queued for this loop.
Accept(c, f) ==
    /\ c \notin Live
    /\ \A d \in Conns : fdOf[d] # f
    /\ fdOf' = [fdOf EXCEPT ![c] = f]
    /\ queued' = queued \cup {c}
    /\ UNCHANGED <<conn, sock, channels, holders, loopVars>>

-----------------------------------------------------------------------------
(* HttpConnection: each operator is the set of outcomes of a handler.      *)

Outcome(k, s) == [conn |-> k, sock |-> s]

\* Mutant: timer_ is reset, and its timer is not released.
NotReleased(k) == [k EXCEPT !.timer = FALSE]

\* ResetTimer, and the part of Reset that does the same.
Released(k) ==
    [k EXCEPT !.timers = IF k.timer THEN @ - 1 ELSE @, !.timer = FALSE]

\* TimerHeap::AddTimer.
Timed(k) == [k EXCEPT !.timers = @ + 1, !.timer = TRUE]

\* utility::Write: how much is left, and whether the send buffer has room then.
Sent(k, s) ==
    {w \in [left : 0..k.unsent, room : BOOLEAN] :
        /\ w.left > 0 => ~w.room
        /\ w.room => s.room
        /\ k.unsent > 0 /\ s.room => w.left < k.unsent
        /\ ~s.room \/ k.unsent = 0 => w.left = k.unsent /\ w.room = s.room}

HandleWrite(k, s) ==
    IF k.isError \/ k.state = "DISCONNECTED"
    THEN {Outcome(k, s)}
    ELSE IF s.rst /\ k.unsent > 0
    THEN {Outcome([k EXCEPT !.isError = TRUE, !.events = {"OUT"}], s)}
    ELSE {Outcome([k EXCEPT !.unsent = w.left,
                            !.events = IF w.left > 0 THEN @ \cup {"OUT"} ELSE @],
                  [s EXCEPT !.room = w.room]) : w \in Sent(k, s)}

\* The connection goes on with what it has read so far.
Unfinished(o) ==
    IF o.conn.isError THEN o ELSE [o EXCEPT !.conn.events = @ \cup {"IN"}]

\* ReturnErrorMessage: the page replaces what was to be written, and is tried once.
Failed(o) == Outcome([o.conn EXCEPT !.isError = TRUE, !.unsent = 0], o.sock)

\* One request or more are answered; what follows them is nothing, the beginning
\* of another request, or an error.  After the peer's end nothing more is tried.
Answered(k, s) ==
    LET wrote == UNION {HandleWrite([k EXCEPT !.unsent = n], s) : n \in 1..MaxOutput}
        done  == {[o EXCEPT !.conn = Released(@)] : o \in {p \in wrote : ~p.conn.isError}}
    IN  {o \in wrote : o.conn.isError} \cup done
        \cup (IF k.state = "DISCONNECTING" THEN {}
              ELSE {Unfinished(o) : o \in done} \cup {Failed(o) : o \in done})

\* utility::Read takes all there is.
HandleRead(k, s) ==
    LET read   == [s EXCEPT !.data = FALSE]
        ended  == [k EXCEPT !.state = "DISCONNECTING"]
        opened == IF s.fin THEN ended ELSE k
    IN  IF k.state = "DISCONNECTING" \/ (s.fin /\ ~s.data /\ ~s.rst)
        THEN {Unfinished(o) : o \in HandleWrite(ended, read)}
        ELSE IF s.rst
        THEN {Failed(Outcome(k, read))}
        ELSE {Unfinished(Outcome(opened, read)), Failed(Outcome(opened, read))}
             \cup Answered(opened, read)

\* The channel and the handlers' this outlive the object in the loop's vector.
Destroyed(k) == [NewConnection EXCEPT !.revents = k.revents]

\* Mutant: EpollDel leaves the table as it was.
EpollDelOnly(tab, S) == tab

\* A table of the Poller without the descriptors of S.
EpollDel(tab, S) ==
    [f \in Fds |-> IF f \in {fdOf[c] : c \in S} THEN NULL ELSE tab[f]]

\* Delete: the loop forgets the descriptor; the object goes with its last
\* reference, which may be a timer's, and closes it.  after is conn with the
\* timers that are gone taken away.
Delete(S, after) ==
    LET gone == {c \in S : after[c].timers = 0}
    IN  /\ conn' = [c \in Conns |->
                       IF c \in gone THEN Destroyed(after[c])
                       ELSE IF c \in S THEN [after[c] EXCEPT !.state = "DISCONNECTED"]
                       ELSE after[c]]
        /\ sock' = [c \in Conns |->
                       IF c \in gone THEN NewSocket
                       ELSE IF c \in S THEN [sock[c] EXCEPT !.polled = FALSE, !.edge = FALSE]
                       ELSE sock[c]]
        /\ fdOf' = [c \in Conns |-> IF c \in gone THEN NULL ELSE fdOf[c]]
        /\ channels' = EpollDel(channels, S)
        /\ holders' = EpollDel(holders, S)

-----------------------------------------------------------------------------
(* Loop().                                                                 *)

\* epoll_wait returns for sockets or for the wakeup of QueueInLoop.
Poll ==
    LET ready == {c \in Conns : sock[c].edge /\ Ready(sock[c]) # {}}
    IN  /\ pc = "poll"
        /\ ready # {} \/ queued # {}
        /\ conn' = [c \in Conns |->
                       IF c \in ready /\ channels[fdOf[c]] = c
                       THEN [conn[c] EXCEPT !.revents = Ready(sock[c]), !.events = {}]
                       ELSE conn[c]]
        /\ sock' = [c \in Conns |->
                       [sock[c] EXCEPT !.edge = FALSE,
                           !.interest = IF c \in ready /\ "ONESHOT" \in @ THEN {} ELSE @]]
        /\ pc' = "events"
        /\ UNCHANGED <<tableVars, queued, cur>>

\* HandleEvents of an error or a hang-up: no handler is set for it, and there is
\* no update.
IgnoreError(c) ==
    /\ pc = "events" /\ cur = NULL
    /\ "ERR" \in conn[c].revents
    /\ conn' = [conn EXCEPT ![c].revents = {}, ![c].events = {}]
    /\ UNCHANGED <<sock, tableVars, queued, loopVars>>

\* HandleEvents up to its update; IN and OUT are never registered together.
HandleEvents(c) ==
    /\ pc = "events" /\ cur = NULL
    /\ conn[c].revents \in {{"IN"}, {"OUT"}}
    /\ \E o \in IF conn[c].revents = {"IN"} THEN HandleRead(conn[c], sock[c])
                                            ELSE HandleWrite(conn[c], sock[c]) :
          /\ conn' = [conn EXCEPT ![c] = [o.conn EXCEPT !.revents = {}]]
          /\ sock' = [sock EXCEPT ![c] = o.sock]
    /\ cur' = c
    /\ UNCHANGED <<tableVars, queued, pc>>

EventsDone ==
    /\ pc = "events" /\ cur = NULL
    /\ \A c \in Conns : conn[c].revents = {}
    /\ pc' = "pending"
    /\ UNCHANGED <<conn, sock, tableVars, queued, cur>>

\* Mutant: reading is registered as it was the first time.
WantedOnce(k) == IF "OUT" \in k.events THEN {"OUT"} ELSE {"IN", "ONESHOT"}

\* Mutant: only reading is registered.
WantedRead(k) == {"IN"}

\* A connection with nothing to do waits for a request; one with output left
\* waits for the send buffer only.
Wanted(k) ==
    IF k.events = {} THEN {"IN"}
    ELSE IF {"IN", "OUT"} \subseteq k.events THEN {"OUT"}
    ELSE k.events

\* HandleUpdate of a connection that goes on: PollerMod with a new timer.
Rearm(c) ==
    LET k == Released(conn[c])
    IN  /\ ~k.isError /\ k.state = "CONNECTED"
        /\ conn' = [conn EXCEPT ![c] =
                       Timed([k EXCEPT !.events = Wanted(k), !.last = Wanted(k)])]
        /\ sock' = IF k.last = Wanted(k) THEN sock
                   ELSE [sock EXCEPT ![c] = Armed(@, Wanted(k))]
        /\ UNCHANGED tableVars

\* HandleUpdate of a connection whose peer has ended with output left: events_
\* is assigned, and nothing else is done.
Keep(c) ==
    LET k == Released(conn[c])
    IN  /\ ~k.isError /\ k.state = "DISCONNECTING" /\ "OUT" \in k.events
        /\ conn' = [conn EXCEPT ![c] = [k EXCEPT !.events = {"OUT"}]]
        /\ UNCHANGED <<sock, tableVars>>

\* HandleUpdate of any other: RunInLoop, which is in its own thread, deletes it.
DeleteNow(c) ==
    LET k == Released(conn[c])
    IN  /\ k.isError \/ k.state = "DISCONNECTED"
           \/ (k.state = "DISCONNECTING" /\ "OUT" \notin k.events)
        /\ Delete({c}, [conn EXCEPT ![c] = k])

HandleUpdate ==
    /\ cur # NULL
    /\ Rearm(cur) \/ Keep(cur) \/ DeleteNow(cur)
    /\ cur' = NULL
    /\ UNCHANGED <<queued, pc>>

\* PerformPendingFunctions runs the Register of every queued connection.
Register ==
    LET first == {"IN", "ONESHOT"}
        named(tab) == [f \in Fds |-> IF \E c \in queued : fdOf[c] = f
                                     THEN CHOOSE c \in queued : fdOf[c] = f
                                     ELSE tab[f]]
    IN  /\ pc = "pending"
        /\ conn' = [c \in Conns |->
                       IF c \in queued
                       THEN Timed([conn[c] EXCEPT !.events = first, !.last = first])
                       ELSE conn[c]]
        /\ sock' = [c \in Conns |->
                       IF c \in queued THEN Armed(sock[c], first) ELSE sock[c]]
        /\ channels' = named(channels)
        /\ holders' = named(holders)
        /\ queued' = {}
        /\ pc' = "expire"
        /\ UNCHANGED <<fdOf, cur>>

\* The timers found expired are popped, and their destructor deletes the
\* connection they hold.
PopExpired ==
    \E S \in SUBSET {c \in Conns : conn[c].timers > 0} :
        Delete(S, [c \in Conns |->
            IF c \in S
            THEN [conn[c] EXCEPT !.timers = @ - 1, !.timer = conn[c].timers > 1]
            ELSE conn[c]])

\* Mutant: the timers are looked at before the events too.
HandleExpireFirst ==
    /\ pc \in {"events", "expire"} /\ cur = NULL
    /\ PopExpired
    /\ pc' = IF pc = "expire" THEN "poll" ELSE pc
    /\ UNCHANGED <<queued, cur>>

HandleExpire ==
    /\ pc = "expire"
    /\ PopExpired
    /\ pc' = "poll"
    /\ UNCHANGED <<queued, cur>>

LoopStep ==
    \/ Poll \/ EventsDone \/ HandleUpdate \/ Register \/ HandleExpire
    \/ \E c \in Conns : IgnoreError(c) \/ HandleEvents(c)

Next ==
    \/ LoopStep
    \/ \E c \in Conns : PeerSends(c) \/ PeerReads(c) \/ PeerCloses(c) \/ PeerResets(c)
    \/ \E c \in Conns, f \in Fds : Accept(c, f)

Spec == Init /\ [][Next]_vars

\* The IO thread is scheduled, and peers read what they are sent.
FairSpec ==
    /\ Spec
    /\ WF_vars(LoopStep)
    /\ \A c \in Conns : WF_vars(PeerReads(c))

-----------------------------------------------------------------------------
\* The Poller's two tables agree, name a connection at its own descriptor while
\* that is open, and name just the connections in the epoll set: a descriptor
\* closed and used again by the next accept() never leads to the old object.
TablesAreCurrent ==
    /\ channels = holders
    /\ \A f \in Fds : channels[f] # NULL => fdOf[channels[f]] = f
    /\ \A c \in Live : sock[c].polled <=> channels[fdOf[c]] = c

\* A connection whose events are reported, or being handled, still exists: the
\* handlers are bound to a plain this.
HandledIsAlive ==
    \A c \in Conns : conn[c].revents # {} \/ cur = c => c \in Live /\ sock[c].polled

\* A registered connection has one live timer, so that it is closed when it
\* stays silent, and closed once; except that one whose peer has ended with
\* output left has none.
OneTimer ==
    \A c \in Conns :
        /\ ~sock[c].polled => conn[c].timers = 0
        /\ sock[c].polled /\ cur # c =>
              \/ conn[c].timers = 1
              \/ conn[c].timers = 0 /\ conn[c].state = "DISCONNECTING" /\ conn[c].unsent > 0

\* With edge-triggered events and the epoll_ctl that is skipped when the events
\* are the same: a connection never waits for what has already happened.
NoLostEvent ==
    \A c \in Conns :
        LET k == conn[c]
            s == sock[c]
            coming == s.edge /\ Ready(s) # {}
        IN  s.polled /\ cur # c /\ k.revents = {} /\ k.state = "CONNECTED" /\ ~s.rst =>
                /\ k.unsent = 0 /\ (s.data \/ s.fin) => coming
                /\ k.unsent > 0 /\ s.room => coming

\* Output that a connected peer reads is written in the end.
OutputSent ==
    \A c \in Conns :
        (conn[c].unsent > 0 /\ conn[c].state = "CONNECTED")
            ~> (conn[c].unsent = 0 \/ conn[c].state # "CONNECTED" \/ sock[c].rst)

=============================================================================
