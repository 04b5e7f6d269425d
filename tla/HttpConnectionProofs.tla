----------------------- MODULE HttpConnectionProofs -----------------------
(***************************************************************************)
(* Proofs about HttpConnection for any connections, descriptors and sizes  *)
(* of output: its types, that the Poller's tables are those of the open    *)
(* connections, that no handler runs of a connection that is gone, that    *)
(* each registered one has its timer, and that edge-triggered events and   *)
(* skipped calls of epoll_ctl lose nothing.                                *)
(***************************************************************************)
EXTENDS HttpConnection, TLAPS

-----------------------------------------------------------------------------
(* The invariant.  The tables are right only because a connection has just *)
(* one timer: the last reference goes when it is deleted, and with it the  *)
(* descriptor is closed at the moment it leaves the tables.  And it has    *)
(* one only because the events of its handler are its own.                 *)

\* Two open connections have two descriptors, and those not yet in the epoll
\* set are the queued ones.
Opened ==
    /\ \A c, d \in Live : fdOf[c] = fdOf[d] => c = d
    /\ \A c \in Conns : sock[c].polled => c \in Live \ queued
    /\ \A c \in Live : sock[c].polled \/ c \in queued
    /\ queued \subseteq Live

\* A socket outside the epoll set reports nothing.
Silent == \A c \in Conns : ~sock[c].polled => ~sock[c].edge /\ sock[c].interest = {}

\* timer_ refers to the one timer there is.
TimerKnown == \A c \in Conns : conn[c].timers \in {0, 1} /\ (conn[c].timer <=> conn[c].timers = 1)

\* Events are reported and handled between a poll and the pending functions, one
\* connection at a time, from events_ on that the poll has emptied.
Handling ==
    /\ pc # "events" => cur = NULL /\ \A c \in Conns : conn[c].revents = {}
    /\ \A c \in Conns : conn[c].revents # {} => conn[c].events = {}
    /\ \A c \in Conns : c = cur =>
          /\ conn[c].revents = {}
          /\ conn[c].events \subseteq {"IN", "OUT"}
          /\ ~conn[c].isError /\ "OUT" \in conn[c].events => conn[c].unsent > 0

First == {"IN", "ONESHOT"}

\* What the connection waits for and has happened will be reported.
Noticed(k, s) ==
    /\ k.unsent = 0 /\ "IN" \in s.interest /\ (s.data \/ s.fin) => s.edge
    /\ k.unsent > 0 /\ "OUT" \in s.interest /\ s.room => s.edge

\* The last registration was for what the connection waits for.
Suited(k) == k.last \in IF k.unsent = 0 THEN {{"IN"}, First} ELSE {{"OUT"}}

GoesOn(k, s) == s.polled /\ k.state = "CONNECTED" /\ ~s.rst

\* last_events_ is what the kernel has, but for a first registration, which may
\* have fired.
Known(k, s) == s.interest = k.last \/ k.last = First

\* Its handler has run, and asks for writing if there is output left.
Updating(k, s) ==
    GoesOn(k, s) /\ ~k.isError =>
        Known(k, s) /\ Noticed(k, s) /\ ("OUT" \in k.events <=> k.unsent > 0)

\* It waits, or what it waits for is reported.
Waiting(k, s) ==
    GoesOn(k, s) =>
        /\ ~k.isError /\ Suited(k) /\ Known(k, s)
        /\ \/ k.revents = {} /\ s.interest = k.last /\ Noticed(k, s)
           \/ k.revents = {IF k.unsent = 0 THEN "IN" ELSE "OUT"}

Watching ==
    \A c \in Conns :
        /\ cur = c => Updating(conn[c], sock[c])
        /\ cur # c => Waiting(conn[c], sock[c])
        /\ ~sock[c].polled => conn[c].unsent = 0 /\ ~conn[c].isError

ConnInv ==
    /\ TypeOK
    /\ Opened
    /\ Silent
    /\ TimerKnown
    /\ Handling
    /\ TablesAreCurrent
    /\ HandledIsAlive
    /\ OneTimer
    /\ Watching

-----------------------------------------------------------------------------
(* What the handlers do to a connection and its socket.                     *)

\* What a connection is like from the poll that reported its events to its update:
\* it has the timer timer_ refers to or none, and asks for no more than reading
\* and writing, for writing only if there is output left.
Busy(k) ==
    /\ k \in Connection
    /\ k.timers \in {0, 1} /\ (k.timer <=> k.timers = 1)
    /\ k.events \subseteq {"IN", "OUT"}
    /\ ~k.isError /\ "OUT" \in k.events => k.unsent > 0

\* A handler leaves the socket's registration as it is.
SameRegistration(s, t) ==
    t \in Socket /\ t.polled = s.polled /\ t.edge = s.edge /\ t.interest = s.interest

Handled(s, o) ==
    /\ o = Outcome(o.conn, o.sock)
    /\ Busy(o.conn)
    /\ SameRegistration(s, o.sock)

LEMMA OutcomeFields ==
  ASSUME NEW k, NEW s
  PROVE  Outcome(k, s).conn = k /\ Outcome(k, s).sock = s
  BY DEF Outcome

LEMMA OutcomeHandled ==
  ASSUME NEW s, NEW k, NEW t, Busy(k), SameRegistration(s, t)
  PROVE  Handled(s, Outcome(k, t))
  BY OutcomeFields DEF Handled

LEMMA BusyTimer ==
  ASSUME NEW k, Busy(k)
  PROVE  k.timers = IF k.timer THEN 1 ELSE 0
  BY DEF Busy

\* Reset and ResetTimer leave no timer, and everything else as it is.
LEMMA ReleasedType ==
  ASSUME NEW k \in Connection, k.timers = IF k.timer THEN 1 ELSE 0
  PROVE  /\ Released(k) \in Connection
         /\ Released(k).timers = 0 /\ ~Released(k).timer
         /\ Released(k).events = k.events /\ Released(k).last = k.last
         /\ Released(k).unsent = k.unsent /\ Released(k).state = k.state
         /\ Released(k).isError = k.isError /\ Released(k).revents = k.revents
<1>1. (IF k.timer THEN k.timers - 1 ELSE k.timers) = 0
  OBVIOUS
<1>2. Released(k) = [k EXCEPT !.timers = 0, !.timer = FALSE]
  BY <1>1 DEF Released
<1>3. /\ Released(k).timers = 0 /\ Released(k).timer = FALSE
      /\ Released(k).events = k.events /\ Released(k).last = k.last
      /\ Released(k).unsent = k.unsent /\ Released(k).state = k.state
      /\ Released(k).isError = k.isError /\ Released(k).revents = k.revents
  BY <1>2 DEF Connection
<1>4. ASSUME NEW n \in 0..2 PROVE [k EXCEPT !.timers = n, !.timer = FALSE] \in Connection
  BY DEF Connection
<1> QED
  BY <1>2, <1>3, <1>4

LEMMA ReleasedBusy ==
  ASSUME NEW k, Busy(k)
  PROVE  Busy(Released(k))
  BY BusyTimer, ReleasedType DEF Busy

LEMMA UnfinishedHandled ==
  ASSUME NEW s, NEW o, Handled(s, o)
  PROVE  Handled(s, Unfinished(o))
<1>1. CASE o.conn.isError
  BY <1>1 DEF Unfinished
<1>2. CASE ~o.conn.isError
  <2> DEFINE k == o.conn
             m == [k EXCEPT !.events = @ \cup {"IN"}]
  <2>1. o = [conn |-> k, sock |-> o.sock]
    BY DEF Handled, Outcome
  <2>2. Unfinished(o) = Outcome(m, o.sock)
    BY <1>2, <2>1 DEF Unfinished, Outcome
  <2>3. k \in Connection
    BY DEF Handled, Busy
  <2>4. /\ m \in Connection
        /\ m.isError = k.isError /\ m.unsent = k.unsent
        /\ m.timers = k.timers /\ m.timer = k.timer
        /\ m.events = k.events \cup {"IN"}
    BY <2>3 DEF Connection, Events
  <2>5. Busy(m)
    BY <2>4 DEF Handled, Busy
  <2> QED
    BY <2>2, <2>5, OutcomeHandled DEF Handled
<1> QED
  BY <1>1, <1>2

LEMMA FailedHandled ==
  ASSUME NEW s, NEW o, Handled(s, o)
  PROVE  Handled(s, Failed(o))
<1> DEFINE k == o.conn
           m == [k EXCEPT !.isError = TRUE, !.unsent = 0]
<1>1. k \in Connection /\ 0 \in 0..MaxOutput
  BY ConnAssumption DEF Handled, Busy
<1>2. /\ m \in Connection
      /\ m.isError /\ m.events = k.events
      /\ m.timers = k.timers /\ m.timer = k.timer
  BY <1>1 DEF Connection
<1>3. Busy(m)
  BY <1>2 DEF Handled, Busy
<1> QED
  BY <1>3, OutcomeHandled DEF Handled, Failed

LEMMA ReleasedHandled ==
  ASSUME NEW s, NEW o, Handled(s, o)
  PROVE  Handled(s, [o EXCEPT !.conn = Released(@)])
<1>1. o = [conn |-> o.conn, sock |-> o.sock]
  BY DEF Handled, Outcome
<1>2. [o EXCEPT !.conn = Released(@)] = Outcome(Released(o.conn), o.sock)
  BY <1>1 DEF Outcome
<1> QED
  BY <1>2, ReleasedBusy, OutcomeHandled DEF Handled

\* What a handler makes of b and its socket r when the connection goes on: output
\* is left only if the send buffer is full, and then it asks for writing.
Served(b, r, k, t) ==
    /\ k \in Connection /\ t \in Socket
    /\ k.last = b.last /\ k.state = b.state
    /\ t.rst = r.rst /\ t.data = r.data /\ t.fin = r.fin
    /\ k.state = "CONNECTED" /\ ~t.rst /\ ~k.isError =>
          /\ "OUT" \in k.events <=> k.unsent > 0
          /\ k.unsent > 0 => ~t.room

LEMMA UnfinishedServed ==
  ASSUME NEW s, NEW o, Handled(s, o), NEW b, NEW r, Served(b, r, o.conn, o.sock)
  PROVE  Served(b, r, Unfinished(o).conn, Unfinished(o).sock)
<1>1. CASE o.conn.isError
  BY <1>1 DEF Unfinished
<1>2. CASE ~o.conn.isError
  <2> DEFINE k == o.conn
             m == [k EXCEPT !.events = @ \cup {"IN"}]
  <2>1. o = [conn |-> k, sock |-> o.sock]
    BY DEF Handled, Outcome
  <2>2. Unfinished(o) = Outcome(m, o.sock)
    BY <1>2, <2>1 DEF Unfinished, Outcome
  <2>3. k \in Connection
    BY DEF Handled, Busy
  <2>4. /\ m \in Connection
        /\ m.isError = k.isError /\ m.unsent = k.unsent
        /\ m.last = k.last /\ m.state = k.state
        /\ m.events = k.events \cup {"IN"}
    BY <2>3 DEF Connection, Events
  <2>5. Served(b, r, m, o.sock)
    BY <2>4 DEF Served
  <2> QED
    BY <2>2, <2>5, OutcomeFields
<1> QED
  BY <1>1, <1>2

LEMMA FailedServed ==
  ASSUME NEW o, NEW b, NEW r, Served(b, r, o.conn, o.sock)
  PROVE  Served(b, r, Failed(o).conn, Failed(o).sock)
<1> DEFINE k == o.conn
           m == [k EXCEPT !.isError = TRUE, !.unsent = 0]
<1>1. k \in Connection /\ 0 \in 0..MaxOutput
  BY ConnAssumption DEF Served
<1>2. m \in Connection /\ m.isError /\ m.last = k.last /\ m.state = k.state
  BY <1>1 DEF Connection
<1>3. Served(b, r, m, o.sock)
  BY <1>2 DEF Served
<1> QED
  BY <1>3, OutcomeFields DEF Failed

LEMMA ReleasedServed ==
  ASSUME NEW s, NEW o, Handled(s, o), NEW b, NEW r, Served(b, r, o.conn, o.sock),
         NEW p, p = [o EXCEPT !.conn = Released(@)]
  PROVE  Served(b, r, p.conn, p.sock)
<1>1. p.conn = Released(o.conn) /\ p.sock = o.sock
  <2>1. o = [conn |-> o.conn, sock |-> o.sock]
    BY DEF Handled, Outcome
  <2> QED
    BY <2>1
<1>2. o.conn \in Connection /\ o.conn.timers = IF o.conn.timer THEN 1 ELSE 0
  BY BusyTimer DEF Handled, Busy
<1> QED
  BY <1>1, <1>2, ReleasedType DEF Served

-----------------------------------------------------------------------------
(* The two handlers.                                                        *)

LEMMA SentType ==
  ASSUME NEW k \in Connection, NEW s \in Socket, NEW w \in Sent(k, s)
  PROVE  w.left \in 0..k.unsent /\ w.room \in BOOLEAN
  BY DEF Sent

LEMMA WriteHandled ==
  ASSUME NEW k, NEW s \in Socket, NEW o \in HandleWrite(k, s), Busy(k), k.events = {}
  PROVE  Handled(s, o)
<1>1. k \in Connection /\ SameRegistration(s, s)
  BY DEF Busy, SameRegistration
<1>2. CASE k.isError \/ k.state = "DISCONNECTED"
  <2>1. HandleWrite(k, s) = {Outcome(k, s)}
    BY <1>2 DEF HandleWrite
  <2> QED
    BY <2>1, <1>1, OutcomeHandled
<1>3. CASE ~(k.isError \/ k.state = "DISCONNECTED") /\ s.rst /\ k.unsent > 0
  <2> DEFINE m == [k EXCEPT !.isError = TRUE, !.events = {"OUT"}]
  <2>1. HandleWrite(k, s) = {Outcome(m, s)}
    BY <1>3 DEF HandleWrite
  <2>2. /\ m \in Connection
        /\ m.isError /\ m.events = {"OUT"} /\ m.timers = k.timers /\ m.timer = k.timer
    BY <1>1 DEF Connection, Events
  <2>3. Busy(m)
    BY <2>2 DEF Busy
  <2> QED
    BY <2>1, <2>3, <1>1, OutcomeHandled
<1>4. CASE ~(k.isError \/ k.state = "DISCONNECTED") /\ ~(s.rst /\ k.unsent > 0)
  <2>1. PICK w \in Sent(k, s) :
          o = Outcome([k EXCEPT !.unsent = w.left,
                                !.events = IF w.left > 0 THEN @ \cup {"OUT"} ELSE @],
                      [s EXCEPT !.room = w.room])
    BY <1>4 DEF HandleWrite
  <2> DEFINE m == [k EXCEPT !.unsent = w.left,
                            !.events = IF w.left > 0 THEN @ \cup {"OUT"} ELSE @]
             t == [s EXCEPT !.room = w.room]
  <2>2. w.left \in 0..MaxOutput /\ w.room \in BOOLEAN
    BY <1>1, SentType, ConnAssumption DEF Connection
  <2>3. /\ m \in Connection
        /\ m.unsent = w.left /\ m.timers = k.timers /\ m.timer = k.timer
        /\ m.events = IF w.left > 0 THEN {"OUT"} ELSE {}
    BY <1>1, <2>2 DEF Connection, Events
  <2>4. Busy(m)
    BY <2>2, <2>3 DEF Busy
  <2>5. SameRegistration(s, t)
    BY <2>2 DEF Socket, SameRegistration
  <2> QED
    BY <2>1, <2>4, <2>5, OutcomeHandled
<1> QED
  BY <1>2, <1>3, <1>4

LEMMA AnsweredHandled ==
  ASSUME NEW k, NEW s \in Socket, NEW o \in Answered(k, s), Busy(k), k.events = {}
  PROVE  Handled(s, o)
<1> DEFINE wrote == UNION {HandleWrite([k EXCEPT !.unsent = n], s) : n \in 1..MaxOutput}
           done  == {[p EXCEPT !.conn = Released(@)] : p \in {q \in wrote : ~q.conn.isError}}
<1>1. ASSUME NEW p \in wrote PROVE Handled(s, p)
  <2>1. PICK n \in 1..MaxOutput : p \in HandleWrite([k EXCEPT !.unsent = n], s)
    OBVIOUS
  <2> DEFINE m == [k EXCEPT !.unsent = n]
  <2>2. k \in Connection /\ n \in 0..MaxOutput
    BY ConnAssumption DEF Busy
  <2>3. /\ m \in Connection /\ m.events = k.events
        /\ m.timers = k.timers /\ m.timer = k.timer
    BY <2>2 DEF Connection
  <2>4. Busy(m)
    BY <2>3 DEF Busy
  <2> QED
    BY <2>1, <2>3, <2>4, WriteHandled
<1>2. ASSUME NEW p \in done PROVE Handled(s, p)
  <2>1. PICK q \in wrote : p = [q EXCEPT !.conn = Released(@)]
    OBVIOUS
  <2> QED
    BY <1>1, <2>1, ReleasedHandled
<1>3. \/ o \in wrote \/ o \in done
      \/ \E p \in done : o = Unfinished(p) \/ o = Failed(p)
  BY DEF Answered
<1> HIDE DEF wrote, done
<1> QED
  BY <1>1, <1>2, <1>3, UnfinishedHandled, FailedHandled

LEMMA ReadHandled ==
  ASSUME NEW k, NEW s \in Socket, NEW o \in HandleRead(k, s), Busy(k), k.events = {}
  PROVE  Handled(s, o)
<1> DEFINE read   == [s EXCEPT !.data = FALSE]
           ended  == [k EXCEPT !.state = "DISCONNECTING"]
           opened == IF s.fin THEN ended ELSE k
<1>1. SameRegistration(s, read)
  BY DEF Socket, SameRegistration
<1>2. Busy(ended) /\ ended.events = {}
  <2>1. k \in Connection
    BY DEF Busy
  <2>2. /\ ended \in Connection
        /\ ended.events = k.events /\ ended.timers = k.timers /\ ended.timer = k.timer
    BY <2>1 DEF Connection
  <2> QED
    BY <2>2 DEF Busy
<1>3. Busy(opened) /\ opened.events = {}
  BY <1>2
<1>4. ASSUME NEW p, Handled(read, p) PROVE Handled(s, p)
  BY <1>1, <1>4 DEF Handled, SameRegistration
<1>5. \/ \E p \in HandleWrite(ended, read) : o = Unfinished(p)
      \/ o = Failed(Outcome(k, read))
      \/ o = Unfinished(Outcome(opened, read)) \/ o = Failed(Outcome(opened, read))
      \/ o \in Answered(opened, read)
  BY DEF HandleRead
<1>6. read \in Socket
  BY <1>1 DEF SameRegistration
<1> HIDE DEF read, ended, opened
<1> QED
  BY <1>1, <1>2, <1>3, <1>4, <1>5, <1>6, OutcomeHandled, WriteHandled, AnsweredHandled,
     UnfinishedHandled, FailedHandled

LEMMA WriteServed ==
  ASSUME NEW k, NEW s \in Socket, NEW o \in HandleWrite(k, s), Busy(k), k.events = {}
  PROVE  Served(k, s, o.conn, o.sock)
<1>1. k \in Connection
  BY DEF Busy
<1>2. CASE k.isError \/ k.state = "DISCONNECTED"
  <2>1. o = Outcome(k, s)
    BY <1>2 DEF HandleWrite
  <2> QED
    BY <2>1, <1>1, <1>2, OutcomeFields DEF Served
<1>3. CASE ~(k.isError \/ k.state = "DISCONNECTED") /\ s.rst /\ k.unsent > 0
  <2> DEFINE m == [k EXCEPT !.isError = TRUE, !.events = {"OUT"}]
  <2>1. o = Outcome(m, s)
    BY <1>3 DEF HandleWrite
  <2>2. m \in Connection /\ m.isError /\ m.last = k.last /\ m.state = k.state
    BY <1>1 DEF Connection, Events
  <2>3. o.conn = m /\ o.sock = s
    BY <2>1, OutcomeFields
  <2> HIDE DEF m
  <2> QED
    BY <2>2, <2>3 DEF Served
<1>4. CASE ~(k.isError \/ k.state = "DISCONNECTED") /\ ~(s.rst /\ k.unsent > 0)
  <2>1. PICK w \in Sent(k, s) :
          o = Outcome([k EXCEPT !.unsent = w.left,
                                !.events = IF w.left > 0 THEN @ \cup {"OUT"} ELSE @],
                      [s EXCEPT !.room = w.room])
    BY <1>4 DEF HandleWrite
  <2> DEFINE m == [k EXCEPT !.unsent = w.left,
                            !.events = IF w.left > 0 THEN @ \cup {"OUT"} ELSE @]
             t == [s EXCEPT !.room = w.room]
  <2>2. w.left \in 0..MaxOutput /\ w.room \in BOOLEAN /\ (w.left > 0 => ~w.room)
    BY <1>1, SentType, ConnAssumption DEF Connection, Sent
  <2>3. /\ m \in Connection
        /\ m.unsent = w.left /\ m.last = k.last /\ m.state = k.state
        /\ m.events = IF w.left > 0 THEN {"OUT"} ELSE {}
    BY <1>1, <2>2 DEF Connection, Events
  <2>4. /\ t \in Socket /\ t.room = w.room
        /\ t.rst = s.rst /\ t.data = s.data /\ t.fin = s.fin
    BY <2>2 DEF Socket
  <2>5. o.conn = m /\ o.sock = t
    BY <2>1, OutcomeFields
  <2> HIDE DEF m, t
  <2> QED
    BY <2>2, <2>3, <2>4, <2>5 DEF Served
<1> QED
  BY <1>2, <1>3, <1>4

LEMMA AnsweredServed ==
  ASSUME NEW k, NEW s \in Socket, NEW o \in Answered(k, s), Busy(k), k.events = {}
  PROVE  Served(k, s, o.conn, o.sock)
<1> DEFINE wrote == UNION {HandleWrite([k EXCEPT !.unsent = n], s) : n \in 1..MaxOutput}
           done  == {[p EXCEPT !.conn = Released(@)] : p \in {q \in wrote : ~q.conn.isError}}
           Right(p) == Handled(s, p) /\ Served(k, s, p.conn, p.sock)
<1>1. ASSUME NEW p \in wrote PROVE Right(p)
  <2>1. PICK n \in 1..MaxOutput : p \in HandleWrite([k EXCEPT !.unsent = n], s)
    OBVIOUS
  <2> DEFINE m == [k EXCEPT !.unsent = n]
  <2>2. k \in Connection /\ n \in 0..MaxOutput
    BY ConnAssumption DEF Busy
  <2>3. /\ m \in Connection /\ m.events = k.events
        /\ m.timers = k.timers /\ m.timer = k.timer
        /\ m.last = k.last /\ m.state = k.state
    BY <2>2 DEF Connection
  <2>4. Busy(m)
    BY <2>3 DEF Busy
  <2>5. Handled(s, p) /\ Served(m, s, p.conn, p.sock)
    BY <2>1, <2>3, <2>4, WriteHandled, WriteServed
  <2> QED
    BY <2>3, <2>5 DEF Served
<1>2. ASSUME NEW p \in done PROVE Right(p)
  <2>1. PICK q \in wrote : p = [q EXCEPT !.conn = Released(@)]
    OBVIOUS
  <2> QED
    BY <1>1, <2>1, ReleasedHandled, ReleasedServed
<1>3. \/ o \in wrote \/ o \in done
      \/ \E p \in done : o = Unfinished(p) \/ o = Failed(p)
  BY DEF Answered
<1> HIDE DEF wrote, done
<1> QED
  BY <1>1, <1>2, <1>3, UnfinishedServed, FailedServed

\* A connection that goes on after HandleRead has read everything, and its peer had
\* not ended.
LEMMA ReadServed ==
  ASSUME NEW k, NEW s \in Socket, NEW o \in HandleRead(k, s), Busy(k), k.events = {},
         k.state = "CONNECTED" /\ ~s.rst => k.unsent = 0
  PROVE  /\ o.conn.last = k.last /\ o.sock.rst = s.rst
         /\ o.conn.state = "CONNECTED" => k.state = "CONNECTED"
         /\ o.conn.state = "CONNECTED" /\ ~s.rst /\ ~o.conn.isError =>
               /\ "OUT" \in o.conn.events <=> o.conn.unsent > 0
               /\ o.conn.unsent > 0 => ~o.sock.room
               /\ ~o.sock.data /\ ~o.sock.fin
<1> DEFINE read   == [s EXCEPT !.data = FALSE]
           ended  == [k EXCEPT !.state = "DISCONNECTING"]
           opened == IF s.fin THEN ended ELSE k
<1>1. /\ read \in Socket /\ read.rst = s.rst /\ ~read.data /\ read.fin = s.fin
      /\ SameRegistration(read, read)
  BY DEF Socket, SameRegistration
<1>2. /\ Busy(ended) /\ ended \in Connection /\ ended.events = {}
      /\ ended.last = k.last /\ ended.state = "DISCONNECTING"
  <2>1. k \in Connection
    BY DEF Busy
  <2>2. /\ ended \in Connection
        /\ ended.events = k.events /\ ended.timers = k.timers /\ ended.timer = k.timer
        /\ ended.last = k.last /\ ended.state = "DISCONNECTING"
    BY <2>1 DEF Connection
  <2> QED
    BY <2>2 DEF Busy
<1>3. /\ Busy(opened) /\ opened \in Connection /\ opened.events = {} /\ opened.last = k.last
      /\ opened.state = "CONNECTED" /\ ~s.rst => opened.unsent = 0
      /\ opened.state = IF s.fin THEN "DISCONNECTING" ELSE k.state
  BY <1>2 DEF Busy
<1>4. \/ \E p \in HandleWrite(ended, read) : o = Unfinished(p)
      \/ s.rst /\ o = Failed(Outcome(k, read))
      \/ o = Unfinished(Outcome(opened, read)) \/ o = Failed(Outcome(opened, read))
      \/ o \in Answered(opened, read)
  BY DEF HandleRead
<1>5. CASE \E p \in HandleWrite(ended, read) : o = Unfinished(p)
  <2>1. PICK p \in HandleWrite(ended, read) : o = Unfinished(p)
    BY <1>5
  <2> HIDE DEF read, ended, opened
  <2>2. Served(ended, read, o.conn, o.sock)
    BY <1>1, <1>2, <2>1, WriteHandled, WriteServed, UnfinishedServed
  <2> QED
    BY <2>2, <1>1, <1>2 DEF Served
<1>6. CASE s.rst /\ o = Failed(Outcome(k, read))
  <2> HIDE DEF read, ended, opened
  <2>1. Served(k, read, k, read)
    BY <1>1, <1>6 DEF Served, Busy
  <2>2. Served(k, read, o.conn, o.sock)
    BY <2>1, <1>6, OutcomeFields, FailedServed
  <2> QED
    BY <2>2, <1>1, <1>6 DEF Served
<1>7. CASE \/ o = Unfinished(Outcome(opened, read)) \/ o = Failed(Outcome(opened, read))
           \/ o \in Answered(opened, read)
  <2> HIDE DEF read, ended, opened
  <2> DEFINE p == Outcome(opened, read)
  <2>1. Served(opened, read, opened, read)
    BY <1>1, <1>3 DEF Served
  <2>2. Handled(read, p) /\ p.conn = opened /\ p.sock = read
    BY <1>1, <1>3, OutcomeHandled, OutcomeFields
  <2> HIDE DEF p
  <2>3. Served(opened, read, o.conn, o.sock)
    <3>1. CASE o = Unfinished(p)
      BY <3>1, <2>1, <2>2, UnfinishedServed
    <3>2. CASE o = Failed(p)
      BY <3>2, <2>1, <2>2, FailedServed
    <3>3. CASE o \in Answered(opened, read)
      BY <3>3, <1>1, <1>3, AnsweredServed
    <3> QED
      BY <1>7, <3>1, <3>2, <3>3 DEF p
  <2> QED
    BY <2>3, <1>1, <1>3 DEF Served
<1> QED
  BY <1>4, <1>5, <1>6, <1>7

-----------------------------------------------------------------------------
(* The steps.                                                               *)

LEMMA NewTypes == NewConnection \in Connection /\ NewSocket \in Socket
  BY ConnAssumption DEF NewConnection, NewSocket, Connection, Socket, Events

LEMMA InitInv == Init => ConnInv
<1> SUFFICES ASSUME Init PROVE ConnInv
  OBVIOUS
<1> USE DEF Init, NewConnection, NewSocket
<1>1. TypeOK
  BY NewTypes DEF TypeOK, Registrations
<1>2. Live = {}
  BY DEF Live
<1>3. Opened /\ Silent /\ TimerKnown
  BY <1>2 DEF Opened, Silent, TimerKnown
<1>4. Handling
  BY ConnAssumption DEF Handling
<1>5. TablesAreCurrent /\ HandledIsAlive /\ OneTimer
  BY <1>2, ConnAssumption DEF TablesAreCurrent, HandledIsAlive, OneTimer
<1>6. Watching
  BY DEF Watching, Updating, Waiting, GoesOn
<1> QED
  BY <1>1, <1>3, <1>4, <1>5, <1>6 DEF ConnInv

LEMMA WokenType ==
  ASSUME NEW s \in Socket, NEW woken
  PROVE  /\ Woken(s, woken) \in Socket
         /\ Woken(s, woken).polled = s.polled /\ Woken(s, woken).interest = s.interest
         /\ Woken(s, woken).edge => s.edge \/ s.polled
  BY DEF Woken, Socket

\* What a peer does wakes epoll if the socket is registered for it.
LEMMA WokenWatched ==
  ASSUME NEW k \in Connection, NEW s \in Socket, NEW t \in Socket, NEW woken,
         t.polled = s.polled, t.interest = s.interest, t.edge = s.edge, s.rst => t.rst,
         (t.data \/ t.fin) /\ ~(s.data \/ s.fin) => t.rst \/ "IN" \in woken,
         t.room /\ ~s.room => t.rst \/ "OUT" \in woken
  PROVE  /\ Updating(k, s) => Updating(k, Woken(t, woken))
         /\ Waiting(k, s) => Waiting(k, Woken(t, woken))
<1> DEFINE u == Woken(t, woken)
<1>1. /\ u.polled = t.polled /\ u.interest = t.interest /\ u.rst = t.rst
      /\ u.data = t.data /\ u.fin = t.fin /\ u.room = t.room
      /\ u.edge <=> t.edge \/ (t.polled /\ t.interest \cap woken # {})
  BY DEF Woken, Socket
<1> HIDE DEF u
<1>2. ASSUME GoesOn(k, u)
      PROVE  GoesOn(k, s) /\ (Noticed(k, s) => Noticed(k, u)) /\ (Known(k, s) => Known(k, u))
  BY <1>1, <1>2 DEF GoesOn, Noticed, Known
<1>3. Updating(k, s) => Updating(k, u)
  BY <1>2 DEF Updating
<1>4. Waiting(k, s) => Waiting(k, u)
  BY <1>1, <1>2 DEF Waiting
<1> QED
  BY <1>3, <1>4 DEF u

\* The peers change what a socket reports, and nothing it is registered for.
LEMMA PeerStep ==
  ASSUME ConnInv, NEW c \in Conns, NEW t \in Socket,
         cur = c => Updating(conn[c], t), cur # c => Waiting(conn[c], t),
         t.polled = sock[c].polled, t.interest = sock[c].interest,
         t.edge => sock[c].edge \/ sock[c].polled,
         sock' = [sock EXCEPT ![c] = t],
         UNCHANGED <<conn, tableVars, queued, loopVars>>
  PROVE  ConnInv'
<1> USE DEF tableVars, loopVars
<1>1. \A d \in Conns : /\ sock'[d].polled = sock[d].polled
                       /\ sock'[d].interest = sock[d].interest
                       /\ sock'[d].edge => sock[d].edge \/ sock[d].polled
  BY DEF ConnInv, TypeOK
<1>2. TypeOK'
  BY <1>1 DEF ConnInv, TypeOK
<1>3. Live' = Live
  BY DEF Live
<1>4. Opened' /\ TablesAreCurrent' /\ HandledIsAlive'
  BY <1>1, <1>3 DEF ConnInv, Opened, TablesAreCurrent, HandledIsAlive
<1>5. Silent' /\ TimerKnown' /\ Handling' /\ OneTimer'
  BY <1>1 DEF ConnInv, Silent, TimerKnown, Handling, OneTimer
<1>6. Watching'
  <2>1. sock'[c] = t /\ \A d \in Conns \ {c} : sock'[d] = sock[d]
    BY DEF ConnInv, TypeOK
  <2>2. UNCHANGED <<conn, cur>>
    OBVIOUS
  <2> QED
    BY <1>1, <2>1, <2>2 DEF ConnInv, Watching
<1> QED
  BY <1>2, <1>4, <1>5, <1>6 DEF ConnInv

LEMMA PeersKeep ==
  ASSUME ConnInv, NEW c \in Conns,
         PeerSends(c) \/ PeerReads(c) \/ PeerCloses(c) \/ PeerResets(c)
  PROVE  ConnInv'
<1>1. sock[c] \in Socket
  BY DEF ConnInv, TypeOK
<1> DEFINE Changed(t, woken) ==
             /\ t \in Socket
             /\ t.polled = sock[c].polled /\ t.interest = sock[c].interest
             /\ t.edge = sock[c].edge /\ (sock[c].rst => t.rst)
             /\ (t.data \/ t.fin) /\ ~(sock[c].data \/ sock[c].fin) => t.rst \/ "IN" \in woken
             /\ t.room /\ ~sock[c].room => t.rst \/ "OUT" \in woken
<1>2. ASSUME NEW t, NEW woken, Changed(t, woken),
             sock' = [sock EXCEPT ![c] = Woken(t, woken)],
             UNCHANGED <<conn, tableVars, queued, loopVars>>
      PROVE  ConnInv'
  <2>1. /\ conn[c] \in Connection
        /\ cur = c => Updating(conn[c], sock[c])
        /\ cur # c => Waiting(conn[c], sock[c])
    BY DEF ConnInv, TypeOK, Watching
  <2>2. /\ cur = c => Updating(conn[c], Woken(t, woken))
        /\ cur # c => Waiting(conn[c], Woken(t, woken))
    BY <1>1, <1>2, <2>1, WokenWatched
  <2> QED
    BY <1>2, <2>2, WokenType, PeerStep
<1>3. /\ Changed([sock[c] EXCEPT !.data = TRUE], {"IN"})
      /\ Changed([sock[c] EXCEPT !.room = TRUE], {"OUT"})
      /\ Changed([sock[c] EXCEPT !.fin = TRUE], {"IN"})
      /\ Changed([sock[c] EXCEPT !.rst = TRUE, !.data = FALSE], Events)
  BY <1>1 DEF Socket
<1>4. sock \in [Conns -> Socket]
  BY DEF ConnInv, TypeOK
<1> HIDE DEF Changed
<1>5. CASE PeerSends(c)
  BY <1>2, <1>3, <1>4, <1>5 DEF PeerSends
<1>6. CASE PeerReads(c)
  BY <1>2, <1>3, <1>4, <1>6 DEF PeerReads
<1>7. CASE PeerCloses(c)
  BY <1>2, <1>3, <1>4, <1>7 DEF PeerCloses
<1>8. CASE PeerResets(c)
  BY <1>2, <1>3, <1>4, <1>8 DEF PeerResets
<1> QED
  BY <1>5, <1>6, <1>7, <1>8

LEMMA AcceptKeeps ==
  ASSUME ConnInv, NEW c \in Conns, NEW f \in Fds, Accept(c, f)
  PROVE  ConnInv'
<1> USE DEF Accept, loopVars
<1>1. /\ fdOf' = [fdOf EXCEPT ![c] = f] /\ fdOf'[c] = f /\ f # NULL
      /\ \A d \in Conns \ {c} : fdOf'[d] = fdOf[d]
  BY ConnAssumption DEF ConnInv, TypeOK
<1>2. TypeOK'
  BY <1>1 DEF ConnInv, TypeOK
<1>3. Live' = Live \cup {c} /\ c \notin Live
  BY <1>1 DEF Live
<1>4. ~sock[c].polled
  BY <1>3 DEF ConnInv, Opened
<1>5. Opened'
  <2>1. \A d, e \in Live' : fdOf'[d] = fdOf'[e] => d = e
    BY <1>1, <1>3 DEF ConnInv, Opened, Live
  <2>2. /\ \A d \in Conns : sock'[d].polled => d \in Live' \ queued'
        /\ \A d \in Live' : sock'[d].polled \/ d \in queued'
        /\ queued' \subseteq Live'
    BY <1>3, <1>4 DEF ConnInv, Opened
  <2> QED
    BY <2>1, <2>2 DEF Opened
<1>6. channels[f] = NULL
  <2>1. channels[f] # NULL => channels[f] \in Conns /\ fdOf[channels[f]] = f
    BY DEF ConnInv, TypeOK, TablesAreCurrent
  <2> QED
    BY <2>1
<1>7. TablesAreCurrent'
  <2>1. \A g \in Fds : channels[g] # NULL => channels[g] # c
    BY <1>3, ConnAssumption DEF ConnInv, TablesAreCurrent, TypeOK, Live
  <2>2. \A g \in Fds : channels'[g] # NULL => fdOf'[channels'[g]] = g
    BY <1>1, <2>1 DEF ConnInv, TablesAreCurrent, TypeOK
  <2>3. \A d \in Live' : sock'[d].polled <=> channels'[fdOf'[d]] = d
    BY <1>1, <1>3, <1>4, <1>6, ConnAssumption DEF ConnInv, TablesAreCurrent, TypeOK
  <2> QED
    BY <2>2, <2>3 DEF ConnInv, TablesAreCurrent
<1>8. Silent' /\ TimerKnown' /\ Handling' /\ HandledIsAlive' /\ OneTimer'
  BY <1>3 DEF ConnInv, Silent, TimerKnown, Handling, HandledIsAlive, OneTimer
<1>9. Watching'
  BY DEF ConnInv, Watching
<1> QED
  BY <1>2, <1>5, <1>7, <1>8, <1>9 DEF ConnInv

LEMMA ReadyType ==
  ASSUME NEW s
  PROVE  Ready(s) \in SUBSET {"IN", "OUT", "ERR"}
  BY DEF Ready

LEMMA PollKeeps == ASSUME ConnInv, Poll PROVE ConnInv'
<1> DEFINE ready == {c \in Conns : sock[c].edge /\ Ready(sock[c]) # {}}
<1>1. \A c \in ready : c \in Live /\ sock[c].polled /\ channels[fdOf[c]] = c
  BY DEF ConnInv, Silent, Opened, TablesAreCurrent
<1>2. /\ conn \in [Conns -> Connection] /\ sock \in [Conns -> Socket]
      /\ cur = NULL /\ \A c \in Conns : conn[c].revents = {}
  BY DEF ConnInv, TypeOK, Handling, Poll
<1>3. /\ conn' = [c \in Conns |->
                      IF c \in ready /\ channels[fdOf[c]] = c
                      THEN [conn[c] EXCEPT !.revents = Ready(sock[c]), !.events = {}]
                      ELSE conn[c]]
       /\ sock' = [c \in Conns |->
                      [sock[c] EXCEPT !.edge = FALSE,
                          !.interest = IF c \in ready /\ "ONESHOT" \in @ THEN {} ELSE @]]
  BY DEF Poll
<1>4. pc' = "events" /\ UNCHANGED <<fdOf, channels, holders, queued, cur>>
  BY DEF Poll, tableVars
<1> HIDE DEF ready
<1>5. ASSUME NEW c \in Conns
      PROVE  /\ conn'[c] \in Connection
             /\ conn'[c].revents = IF c \in ready THEN Ready(sock[c]) ELSE {}
             /\ c \in ready => conn'[c].events = {}
             /\ conn'[c].timers = conn[c].timers /\ conn'[c].timer = conn[c].timer
             /\ conn'[c].state = conn[c].state /\ conn'[c].unsent = conn[c].unsent
             /\ conn'[c].isError = conn[c].isError /\ conn'[c].last = conn[c].last
  <2>1. CASE c \in ready
    <3> DEFINE k == conn[c]
               r == Ready(sock[c])
               m == [k EXCEPT !.revents = r, !.events = {}]
    <3>1. conn'[c] = m
      BY <1>1, <1>3, <2>1
    <3>2. k \in Connection /\ r \in SUBSET {"IN", "OUT", "ERR"}
      BY <1>2, ReadyType
    <3> HIDE DEF k, r
    <3>3. /\ m \in Connection /\ m.revents = r /\ m.events = {}
          /\ m.timers = k.timers /\ m.timer = k.timer
          /\ m.state = k.state /\ m.unsent = k.unsent
          /\ m.isError = k.isError /\ m.last = k.last
      BY <3>2 DEF Connection
    <3> QED
      BY <2>1, <3>1, <3>3 DEF k, r
  <2>2. CASE c \notin ready
    <3>1. conn'[c] = conn[c]
      BY <2>2, <1>3
    <3> QED
      BY <2>2, <3>1, <1>2
  <2> QED
    BY <2>1, <2>2
<1>6. ASSUME NEW c \in Conns
      PROVE  /\ sock'[c] \in Socket
             /\ sock'[c].polled = sock[c].polled /\ sock'[c].edge = FALSE
             /\ sock'[c].interest = IF c \in ready /\ "ONESHOT" \in sock[c].interest
                                    THEN {} ELSE sock[c].interest
             /\ sock'[c].rst = sock[c].rst /\ sock'[c].data = sock[c].data
             /\ sock'[c].fin = sock[c].fin /\ sock'[c].room = sock[c].room
  <2> DEFINE s == sock[c]
             i == IF c \in ready /\ "ONESHOT" \in s.interest THEN {} ELSE s.interest
             t == [s EXCEPT !.edge = FALSE, !.interest = i]
  <2>1. sock'[c] = t
    BY <1>3
  <2>2. s \in Socket
    BY <1>2
  <2>3. i \in SUBSET Events
    BY <2>2 DEF Socket
  <2> HIDE DEF i, s
  <2>4. /\ t \in Socket /\ t.polled = s.polled /\ t.edge = FALSE /\ t.interest = i
        /\ t.rst = s.rst /\ t.data = s.data /\ t.fin = s.fin /\ t.room = s.room
    BY <2>2, <2>3 DEF Socket
  <2> QED
    BY <2>1, <2>4 DEF s, i
<1>7. conn' \in [Conns -> Connection] /\ sock' \in [Conns -> Socket]
  BY <1>5, <1>6, <1>3
<1>8. Live' = Live /\ Live \subseteq Conns
  BY <1>4 DEF Live
<1>9. TypeOK'
  BY <1>6, <1>7, <1>4 DEF ConnInv, TypeOK, Registrations
<1>10. Opened' /\ TablesAreCurrent'
  <2>1. Opened'
    BY <1>6, <1>8, <1>4 DEF ConnInv, Opened
  <2>2. TablesAreCurrent'
    BY <1>6, <1>8, <1>4 DEF ConnInv, TablesAreCurrent
  <2> QED
    BY <2>1, <2>2
<1>11. Silent' /\ TimerKnown'
  BY <1>5, <1>6 DEF ConnInv, Silent, TimerKnown
<1>12. Handling' /\ HandledIsAlive' /\ OneTimer'
  <2>1. Handling'
    BY <1>2, <1>5, <1>4, ConnAssumption DEF Handling
  <2>2. HandledIsAlive'
    BY <1>1, <1>2, <1>5, <1>6, <1>8, <1>4, ConnAssumption DEF HandledIsAlive
  <2>3. OneTimer'
    <3>1. \A c \in Conns : /\ conn'[c].timers = conn[c].timers /\ conn'[c].state = conn[c].state
                           /\ conn'[c].unsent = conn[c].unsent
                           /\ sock'[c].polled = sock[c].polled
      BY <1>5, <1>6
    <3>2. cur' = cur /\ OneTimer
      BY <1>4 DEF ConnInv
    <3> QED
      BY <3>1, <3>2 DEF OneTimer
  <2> QED
    BY <2>1, <2>2, <2>3
<1>13. ASSUME NEW c \in Conns PROVE Waiting(conn'[c], sock'[c])
  <2> DEFINE k == conn[c]
             s == sock[c]
             wanted == IF k.unsent = 0 THEN "IN" ELSE "OUT"
  <2> SUFFICES ASSUME s.polled, k.state = "CONNECTED", ~s.rst
               PROVE  Waiting(conn'[c], sock'[c])
    BY <1>5, <1>6 DEF Waiting, GoesOn
  <2>1. /\ ~k.isError /\ Suited(k) /\ s.interest = k.last /\ Noticed(k, s)
        /\ k.unsent \in Nat /\ s \in Socket
    <3>1. Waiting(k, s) /\ k.revents = {} /\ k \in Connection /\ s \in Socket
      BY <1>2, ConnAssumption DEF ConnInv, Watching
    <3>2. k.unsent \in Nat
      BY <3>1, ConnAssumption DEF Connection
    <3> HIDE DEF k, s
    <3> QED
      BY <3>1, <3>2 DEF Waiting, GoesOn
  <2>2. s.interest \in IF k.unsent = 0 THEN {{"IN"}, First} ELSE {{"OUT"}}
    BY <2>1 DEF Suited
  <2>3. Ready(s) \subseteq {wanted}
    BY <2>2 DEF Ready, First
  <2>4. ASSUME c \notin ready, ~s.edge \/ Ready(s) = {} PROVE Noticed(k, [s EXCEPT !.edge = FALSE])
    <3>1. k.unsent = 0 => ~(s.data \/ s.fin)
      BY <2>1, <2>2, <2>4 DEF Noticed, Ready, First
    <3>2. k.unsent > 0 => ~s.room
      BY <2>1, <2>2, <2>4 DEF Noticed, Ready
    <3> QED
      BY <2>1, <3>1, <3>2 DEF Noticed, Socket
  <2>5. c \in ready <=> s.edge /\ Ready(s) # {}
    BY DEF ready
  <2>6. /\ conn'[c].state = k.state /\ conn'[c].unsent = k.unsent
        /\ conn'[c].isError = k.isError /\ conn'[c].last = k.last
        /\ conn'[c].revents = IF c \in ready THEN Ready(s) ELSE {}
    BY <1>5
  <2>7. /\ sock'[c].interest = IF c \in ready /\ "ONESHOT" \in s.interest
                                THEN {} ELSE s.interest
        /\ sock'[c].rst = s.rst /\ sock'[c].data = s.data
        /\ sock'[c].fin = s.fin /\ sock'[c].room = s.room
    BY <1>6
  <2>8. Suited(conn'[c])
    BY <2>1, <2>6 DEF Suited
  <2> HIDE DEF k, s, wanted
  <2>9. CASE c \in ready
    <3>1. conn'[c].revents = {wanted}
      BY <2>3, <2>5, <2>6, <2>9
    <3>2. sock'[c].interest = conn'[c].last \/ conn'[c].last = First
      BY <2>1, <2>2, <2>6, <2>7, <2>9 DEF First
    <3> QED
      BY <2>1, <2>6, <2>8, <3>1, <3>2 DEF Waiting, Known, wanted
  <2>10. CASE c \notin ready
    <3>1. sock'[c].interest = conn'[c].last /\ conn'[c].revents = {}
      BY <2>1, <2>6, <2>7, <2>10
    <3>2. Noticed(k, [s EXCEPT !.edge = FALSE])
      BY <2>4, <2>5, <2>10
    <3>3. Noticed(conn'[c], sock'[c])
      BY <2>1, <2>6, <2>7, <2>10, <3>2 DEF Noticed, Socket
    <3> QED
      BY <2>1, <2>6, <2>8, <3>1, <3>3 DEF Waiting, Known
  <2> QED
    BY <2>9, <2>10
<1>14. Watching'
  <2>1. \A c \in Conns : cur' # c
    BY <1>2, <1>4, ConnAssumption
  <2> QED
    BY <1>5, <1>6, <1>13, <2>1 DEF ConnInv, Watching
<1> QED
  BY <1>9, <1>10, <1>11, <1>12, <1>14 DEF ConnInv

LEMMA IgnoreKeeps ==
  ASSUME ConnInv, NEW c \in Conns, IgnoreError(c)
  PROVE  ConnInv'
<1> DEFINE k == conn[c]
           m == [k EXCEPT !.revents = {}, !.events = {}]
<1>1. k \in Connection /\ conn \in [Conns -> Connection]
  BY DEF ConnInv, TypeOK
<1>2. conn' = [conn EXCEPT ![c] = m]
  BY <1>1 DEF IgnoreError
<1>3. /\ pc = "events" /\ cur = NULL
      /\ UNCHANGED <<sock, fdOf, channels, holders, queued, pc, cur>>
  BY DEF IgnoreError, tableVars, loopVars
<1> HIDE DEF k
<1>4. /\ m \in Connection /\ m.revents = {} /\ m.events = {}
      /\ m.timers = k.timers /\ m.timer = k.timer
      /\ m.state = k.state /\ m.unsent = k.unsent
  BY <1>1 DEF Connection, Events
<1> HIDE DEF m
<1>5. conn'[c] = m /\ \A d \in Conns \ {c} : conn'[d] = conn[d]
  BY <1>1, <1>2
<1>6. TypeOK'
  BY <1>2, <1>3, <1>4 DEF ConnInv, TypeOK
<1>7. Live' = Live
  BY <1>3 DEF Live
<1>8. Opened' /\ Silent' /\ TablesAreCurrent'
  BY <1>3, <1>7 DEF ConnInv, Opened, Silent, TablesAreCurrent
<1>9. TimerKnown' /\ OneTimer'
  BY <1>3, <1>4, <1>5 DEF ConnInv, TimerKnown, OneTimer, k
<1>10. Handling' /\ HandledIsAlive'
  BY <1>3, <1>4, <1>5, <1>7, ConnAssumption DEF ConnInv, Handling, HandledIsAlive
<1>11. Watching'
  <2>1. "ERR" \in k.revents /\ sock[c].polled /\ cur # c
    BY <1>3, ConnAssumption DEF IgnoreError, ConnInv, HandledIsAlive, k
  <2>2. ~(k.state = "CONNECTED" /\ ~sock[c].rst)
    BY <2>1 DEF ConnInv, Watching, Waiting, GoesOn, k
  <2>3. Waiting(m, sock[c])
    BY <2>2, <1>4 DEF Waiting, GoesOn
  <2> QED
    BY <2>1, <2>3, <1>3, <1>5 DEF ConnInv, Watching
<1> QED
  BY <1>6, <1>8, <1>9, <1>10, <1>11 DEF ConnInv

\* A handler that has run leaves nothing unnoticed, if the connection goes on.
LEMMA HandledWatched ==
  ASSUME NEW k \in Connection, NEW s \in Socket, Waiting(k, s),
         k.revents \in {{"IN"}, {"OUT"}}, s.polled, Busy(k), k.events = {},
         NEW o, Handled(s, o),
         o \in IF k.revents = {"IN"} THEN HandleRead(k, s) ELSE HandleWrite(k, s),
         NEW m \in Connection, m.events = o.conn.events, m.last = o.conn.last,
         m.unsent = o.conn.unsent, m.state = o.conn.state, m.isError = o.conn.isError
  PROVE  Updating(m, o.sock)
<1> DEFINE t == o.sock
<1>1. /\ t \in Socket /\ t.polled = s.polled /\ t.edge = s.edge /\ t.interest = s.interest
  BY DEF Handled, SameRegistration
<1>2. ASSUME k.state = "CONNECTED", ~s.rst
      PROVE  /\ ~k.isError /\ Suited(k)
             /\ s.interest = k.last \/ k.last = First
             /\ k.revents = {IF k.unsent = 0 THEN "IN" ELSE "OUT"}
  BY <1>2 DEF Waiting, GoesOn, Known
<1>3. CASE k.revents = {"OUT"}
  <2>1. Served(k, s, o.conn, t)
    BY <1>3, WriteServed
  <2> HIDE DEF t
  <2> SUFFICES ASSUME m.state = "CONNECTED", ~t.rst, ~m.isError PROVE Updating(m, t)
    BY DEF Updating, GoesOn, t
  <2>2. k.state = "CONNECTED" /\ ~s.rst /\ m.last = k.last
    BY <2>1 DEF Served
  <2>3. k.last = {"OUT"} /\ t.interest = {"OUT"}
    BY <1>1, <1>2, <1>3, <2>2 DEF Suited, First
  <2>4. ("OUT" \in m.events <=> m.unsent > 0) /\ (m.unsent > 0 => ~t.room)
    BY <2>1 DEF Served
  <2>5. Noticed(m, t)
    BY <2>3, <2>4 DEF Noticed
  <2> QED
    BY <2>2, <2>3, <2>4, <2>5 DEF Updating, Known
<1>4. CASE k.revents = {"IN"}
  <2> HIDE DEF t
  <2> SUFFICES ASSUME m.state = "CONNECTED", ~t.rst, ~m.isError PROVE Updating(m, t)
    BY DEF Updating, GoesOn, t
  <2>0. k.state = "CONNECTED" /\ ~s.rst => k.unsent = 0
    BY <1>2, <1>4
  <2>1. /\ o.conn.last = k.last /\ t.rst = s.rst
        /\ o.conn.state = "CONNECTED" => k.state = "CONNECTED"
        /\ o.conn.state = "CONNECTED" /\ ~s.rst /\ ~o.conn.isError =>
              /\ "OUT" \in o.conn.events <=> o.conn.unsent > 0
              /\ o.conn.unsent > 0 => ~t.room
              /\ ~t.data /\ ~t.fin
    BY <1>4, <2>0, ReadServed DEF t
  <2>2. k.state = "CONNECTED" /\ ~s.rst /\ m.last = k.last
    BY <2>1
  <2>3. Noticed(m, t)
    BY <2>1, <2>2 DEF Noticed
  <2>4. t.interest = m.last \/ m.last = First
    BY <1>1, <1>2, <2>2
  <2> QED
    BY <2>1, <2>2, <2>3, <2>4 DEF Updating, Known
<1> QED
  BY <1>3, <1>4

LEMMA HandleKeeps ==
  ASSUME ConnInv, NEW c \in Conns, HandleEvents(c)
  PROVE  ConnInv'
<1> DEFINE k == conn[c]
           s == sock[c]
<1>1. /\ k \in Connection /\ s \in Socket
      /\ conn \in [Conns -> Connection] /\ sock \in [Conns -> Socket]
  BY DEF ConnInv, TypeOK
<1>2. /\ pc = "events" /\ cur = NULL /\ cur' = c /\ k.revents # {}
      /\ UNCHANGED <<fdOf, channels, holders, queued, pc>>
  BY DEF HandleEvents, tableVars
<1>3. c \in Live /\ s.polled
  BY <1>2 DEF ConnInv, HandledIsAlive
<1>4. Busy(k) /\ k.events = {}
  BY <1>1, <1>2 DEF ConnInv, Handling, TimerKnown, Busy
<1>5. PICK o \in HandleRead(k, s) \cup HandleWrite(k, s) :
        /\ conn' = [conn EXCEPT ![c] = [o.conn EXCEPT !.revents = {}]]
        /\ sock' = [sock EXCEPT ![c] = o.sock]
        /\ k.revents \in {{"IN"}, {"OUT"}}
        /\ o \in IF k.revents = {"IN"} THEN HandleRead(k, s) ELSE HandleWrite(k, s)
  BY DEF HandleEvents
<1>6. Handled(s, o)
  BY <1>1, <1>4, ReadHandled, WriteHandled
<1> DEFINE n == o.conn
           m == [n EXCEPT !.revents = {}]
           t == o.sock
<1>7. Busy(n) /\ SameRegistration(s, t)
  BY <1>6 DEF Handled
<1>19. Waiting(k, s) /\ \A d \in Conns : cur # d
  BY <1>2, ConnAssumption DEF ConnInv, Watching
<1> HIDE DEF k, s, n, t
<1>8. /\ m \in Connection /\ m.revents = {} /\ m.events = n.events
      /\ m.timers = n.timers /\ m.timer = n.timer
      /\ m.isError = n.isError /\ m.unsent = n.unsent
      /\ m.last = n.last /\ m.state = n.state
  BY <1>7 DEF Connection, Busy
<1>20. Updating(m, t)
  BY <1>1, <1>3, <1>4, <1>5, <1>6, <1>8, <1>19, HandledWatched DEF n, t
<1>9. conn' = [conn EXCEPT ![c] = m] /\ sock' = [sock EXCEPT ![c] = t]
  BY <1>5 DEF n, t
<1> HIDE DEF m
<1>10. /\ conn'[c] = m /\ \A d \in Conns \ {c} : conn'[d] = conn[d]
       /\ sock'[c] = t /\ \A d \in Conns \ {c} : sock'[d] = sock[d]
  BY <1>1, <1>9
<1>11. /\ t \in Socket /\ t.polled /\ sock[c].polled
       /\ t.edge = sock[c].edge /\ t.interest = sock[c].interest
  BY <1>3, <1>7 DEF SameRegistration, s
<1>12. TypeOK'
  BY <1>2, <1>8, <1>9, <1>10, <1>11 DEF ConnInv, TypeOK
<1>13. Live' = Live /\ Live \subseteq Conns
  BY <1>2 DEF Live
<1>14. \A d \in Conns : sock'[d].polled <=> sock[d].polled
  BY <1>10, <1>11
<1>15. Opened' /\ TablesAreCurrent'
  <2>1. Opened'
    BY <1>2, <1>13, <1>14 DEF ConnInv, Opened
  <2>2. TablesAreCurrent'
    BY <1>2, <1>13, <1>14 DEF ConnInv, TablesAreCurrent
  <2> QED
    BY <2>1, <2>2
<1>16. Silent' /\ TimerKnown'
  BY <1>7, <1>8, <1>10, <1>11 DEF ConnInv, Silent, TimerKnown, Busy
<1>17. Handling'
  BY <1>2, <1>7, <1>8, <1>10 DEF ConnInv, Handling, Busy
<1>18. HandledIsAlive' /\ OneTimer'
  BY <1>2, <1>3, <1>8, <1>10, <1>11, <1>13, ConnAssumption
     DEF ConnInv, HandledIsAlive, OneTimer
<1>21. Watching'
  <2>1. cur' = c /\ \A d \in Conns \ {c} : cur' # d
    BY <1>2
  <2> QED
    BY <2>1, <1>10, <1>11, <1>19, <1>20 DEF ConnInv, Watching
<1> QED
  BY <1>12, <1>15, <1>16, <1>17, <1>18, <1>21 DEF ConnInv

LEMMA EventsDoneKeeps == ASSUME ConnInv, EventsDone PROVE ConnInv'
<1>1. Live' = Live
  BY DEF EventsDone, tableVars, Live
<1> QED
  BY <1>1 DEF EventsDone, tableVars, ConnInv, TypeOK, Opened, Silent, TimerKnown,
     Handling, TablesAreCurrent, HandledIsAlive, OneTimer, Watching

\* What the two updates that keep the connection have in common.
LEMMA UpdateStep ==
  ASSUME ConnInv, NEW c \in Conns, cur = c,
         NEW m \in Connection, m.revents = {}, m.timers = IF m.timer THEN 1 ELSE 0,
         m.timers = 1 \/ (m.state = "DISCONNECTING" /\ m.unsent > 0),
         NEW t \in Socket, t.polled, t.interest \in Registrations,
         Waiting(m, t),
         conn' = [conn EXCEPT ![c] = m], sock' = [sock EXCEPT ![c] = t],
         cur' = NULL, UNCHANGED <<tableVars, queued, pc>>
  PROVE  ConnInv'
<1>1. /\ conn \in [Conns -> Connection] /\ sock \in [Conns -> Socket]
      /\ pc = "events" /\ sock[c].polled /\ NULL \notin Conns
  BY ConnAssumption DEF ConnInv, TypeOK, Handling, HandledIsAlive
<1>2. /\ conn'[c] = m /\ \A d \in Conns \ {c} : conn'[d] = conn[d]
      /\ sock'[c] = t /\ \A d \in Conns \ {c} : sock'[d] = sock[d]
  BY <1>1
<1>3. UNCHANGED <<fdOf, channels, holders, queued, pc>>
  BY DEF tableVars
<1>4. TypeOK'
  BY <1>1, <1>2, <1>3 DEF ConnInv, TypeOK
<1>5. Live' = Live /\ Live \subseteq Conns
  BY <1>3 DEF Live
<1>6. \A d \in Conns : sock'[d].polled <=> sock[d].polled
  BY <1>1, <1>2
<1>7. Opened'
  BY <1>3, <1>5, <1>6 DEF ConnInv, Opened
<1>8. TablesAreCurrent'
  BY <1>3, <1>5, <1>6 DEF ConnInv, TablesAreCurrent
<1>9. Silent' /\ TimerKnown'
  <2>1. m.timers \in {0, 1} /\ (m.timer <=> m.timers = 1)
    OBVIOUS
  <2> QED
    BY <2>1, <1>1, <1>2 DEF ConnInv, Silent, TimerKnown
<1>10. Handling'
  BY <1>1, <1>2, <1>3 DEF ConnInv, Handling
<1>11. HandledIsAlive'
  BY <1>1, <1>2, <1>5, <1>6 DEF ConnInv, HandledIsAlive
<1>12. OneTimer'
  <2>1. m.timers \in {0, 1}
    OBVIOUS
  <2> QED
    BY <2>1, <1>1, <1>2, <1>6 DEF ConnInv, OneTimer
<1>13. Watching'
  <2>1. \A d \in Conns : cur' # d /\ (d # c => cur # d)
    BY <1>1
  <2> QED
    BY <2>1, <1>2 DEF ConnInv, Watching
<1> QED
  BY <1>4, <1>7, <1>8, <1>9, <1>10, <1>11, <1>12, <1>13 DEF ConnInv

LEMMA TimedType ==
  ASSUME NEW k \in Connection, k.timers = 0
  PROVE  /\ Timed(k) \in Connection
         /\ Timed(k).timers = 1 /\ Timed(k).timer = TRUE /\ Timed(k).revents = k.revents
         /\ Timed(k).last = k.last /\ Timed(k).unsent = k.unsent
         /\ Timed(k).state = k.state /\ Timed(k).isError = k.isError
<1>1. Timed(k) = [k EXCEPT !.timers = 1, !.timer = TRUE]
  BY DEF Timed
<1>2. ASSUME NEW n \in 0..2 PROVE [k EXCEPT !.timers = n, !.timer = TRUE] \in Connection
  BY DEF Connection
<1>3. /\ Timed(k).timers = 1 /\ Timed(k).timer = TRUE /\ Timed(k).revents = k.revents
      /\ Timed(k).last = k.last /\ Timed(k).unsent = k.unsent
      /\ Timed(k).state = k.state /\ Timed(k).isError = k.isError
  BY <1>1 DEF Connection
<1> QED
  BY <1>1, <1>2, <1>3

LEMMA ArmedType ==
  ASSUME NEW s \in Socket, NEW events \in SUBSET Events
  PROVE  /\ Armed(s, events) \in Socket
         /\ Armed(s, events).polled /\ Armed(s, events).interest = events
         /\ Armed(s, events).rst = s.rst
         /\ "IN" \in events /\ (s.data \/ s.fin) => Armed(s, events).edge
         /\ "OUT" \in events /\ s.room => Armed(s, events).edge
         /\ Armed(s, events).data = s.data /\ Armed(s, events).fin = s.fin
         /\ Armed(s, events).room = s.room
<1> DEFINE t == [s EXCEPT !.polled = TRUE, !.interest = events]
           e == (t.edge \/ Ready(t) # {})
<1>1. /\ t \in Socket /\ t.polled = TRUE /\ t.interest = events
      /\ t.rst = s.rst /\ t.data = s.data /\ t.fin = s.fin /\ t.room = s.room
  BY DEF Socket
<1>2. Armed(s, events) = [t EXCEPT !.edge = e]
  BY <1>1 DEF Armed
<1>3. e \in BOOLEAN
  BY <1>1 DEF Socket
<1>4. /\ "IN" \in events /\ (t.data \/ t.fin) => e
      /\ "OUT" \in events /\ t.room => e
  BY <1>1 DEF Ready
<1> HIDE DEF t, e
<1> QED
  BY <1>1, <1>2, <1>3, <1>4 DEF Socket

LEMMA UpdatedIsBusy ==
  ASSUME ConnInv, NEW c \in Conns, cur = c
  PROVE  Busy(conn[c]) /\ conn[c].revents = {}
  BY DEF ConnInv, TypeOK, Handling, TimerKnown, Busy

LEMMA RearmKeeps ==
  ASSUME ConnInv, NEW c \in Conns, cur = c, Rearm(c), cur' = NULL, UNCHANGED <<queued, pc>>
  PROVE  ConnInv'
<1> DEFINE k == Released(conn[c])
           w == Wanted(k)
           n == [k EXCEPT !.events = w, !.last = w]
           m == Timed(n)
           s == sock[c]
           t == IF k.last = w THEN s ELSE Armed(s, w)
<1>1. /\ Busy(conn[c]) /\ conn[c].revents = {} /\ conn[c] \in Connection
      /\ s \in Socket /\ s.polled /\ s.interest \in Registrations
      /\ conn \in [Conns -> Connection] /\ sock \in [Conns -> Socket]
  BY UpdatedIsBusy DEF Busy, ConnInv, HandledIsAlive, TypeOK
<1>2. /\ Busy(k) /\ k \in Connection /\ k.timers = 0 /\ k.revents = {}
      /\ k.events = conn[c].events /\ k.last = conn[c].last /\ k.unsent = conn[c].unsent
      /\ k.state = conn[c].state /\ k.isError = conn[c].isError
  BY <1>1, BusyTimer, ReleasedBusy, ReleasedType
<1>9. Updating(k, s) /\ ~k.isError
  BY <1>2 DEF ConnInv, Watching, Rearm, Updating, GoesOn, Known, Noticed
<1>3. conn' = [conn EXCEPT ![c] = m] /\ UNCHANGED tableVars
  BY DEF Rearm
<1>4. sock' = [sock EXCEPT ![c] = t]
  BY <1>1 DEF Rearm
<1> HIDE DEF k, s
<1>5. w \in Registrations /\ w \in SUBSET Events
  BY <1>2 DEF Busy, Wanted, Registrations, Events
<1>10. w = IF "OUT" \in k.events THEN {"OUT"} ELSE {"IN"}
  BY <1>2 DEF Busy, Wanted
<1> HIDE DEF w
<1>6. /\ n \in Connection /\ n.timers = 0 /\ n.revents = {} /\ n.last = w
      /\ n.unsent = k.unsent /\ n.state = k.state /\ n.isError = k.isError
  BY <1>2, <1>5 DEF Connection
<1> HIDE DEF n
<1>7. /\ m \in Connection /\ m.timers = 1 /\ m.timer = TRUE /\ m.revents = {}
      /\ m.last = w /\ m.unsent = k.unsent /\ m.state = k.state /\ m.isError = k.isError
  BY <1>6, TimedType
<1>11. Waiting(m, t)
  <2>1. CASE k.last = w
    <3>1. t = s
      BY <2>1
    <3> SUFFICES ASSUME k.state = "CONNECTED", ~s.rst PROVE Waiting(m, s)
      BY <1>7, <3>1 DEF Waiting, GoesOn
    <3>2. s.interest = w /\ Noticed(k, s) /\ ("OUT" \in k.events <=> k.unsent > 0)
      BY <1>1, <1>9, <1>10, <2>1 DEF Updating, GoesOn, Known, First
    <3>3. Noticed(m, s) /\ Suited(m)
      BY <1>2, <1>7, <1>10, <3>2, ConnAssumption DEF Noticed, Suited, Connection
    <3> HIDE DEF m
    <3> QED
      BY <1>7, <1>9, <3>2, <3>3 DEF Waiting, Known
  <2>2. CASE k.last # w
    <3>1. t = Armed(s, w)
      BY <2>2
    <3>2. /\ t.interest = w /\ t.rst = s.rst
          /\ "IN" \in w /\ (t.data \/ t.fin) => t.edge
          /\ "OUT" \in w /\ t.room => t.edge
      BY <1>1, <1>5, <3>1, ArmedType DEF s
    <3> HIDE DEF m, t
    <3> SUFFICES ASSUME k.state = "CONNECTED", ~s.rst PROVE Waiting(m, t)
      BY <1>7, <3>2 DEF Waiting, GoesOn
    <3>3. "OUT" \in k.events <=> k.unsent > 0
      BY <1>1, <1>9 DEF Updating, GoesOn
    <3>4. Noticed(m, t) /\ Suited(m)
      BY <1>2, <1>7, <1>10, <3>2, <3>3, ConnAssumption DEF Noticed, Suited, Connection
    <3> QED
      BY <1>7, <1>9, <3>2, <3>4 DEF Waiting, Known
  <2> QED
    BY <2>1, <2>2
<1>8. t \in Socket /\ t.polled /\ t.interest \in Registrations
  BY <1>1, <1>5, ArmedType DEF s
<1> HIDE DEF m, t
<1> QED
  BY <1>3, <1>4, <1>7, <1>8, <1>11, UpdateStep

LEMMA KeepKeeps ==
  ASSUME ConnInv, NEW c \in Conns, cur = c, Keep(c), cur' = NULL, UNCHANGED <<queued, pc>>
  PROVE  ConnInv'
<1> DEFINE k == Released(conn[c])
           m == [k EXCEPT !.events = {"OUT"}]
           s == sock[c]
<1>1. /\ Busy(conn[c]) /\ conn[c].revents = {} /\ conn[c] \in Connection
      /\ s \in Socket /\ s.polled /\ s.interest \in Registrations
      /\ sock \in [Conns -> Socket]
  BY UpdatedIsBusy DEF Busy, ConnInv, HandledIsAlive, TypeOK
<1>2. /\ Busy(k) /\ k \in Connection /\ k.timers = 0 /\ ~k.timer /\ k.revents = {}
  BY <1>1, BusyTimer, ReleasedBusy, ReleasedType
<1>3. /\ ~k.isError /\ k.state = "DISCONNECTING" /\ "OUT" \in k.events
      /\ conn' = [conn EXCEPT ![c] = m] /\ UNCHANGED <<sock, tableVars>>
  BY DEF Keep
<1>4. k.unsent > 0
  BY <1>2, <1>3 DEF Busy
<1>5. sock' = [sock EXCEPT ![c] = s]
  BY <1>1, <1>3
<1> HIDE DEF k, s
<1>6. /\ m \in Connection /\ m.timers = 0 /\ m.timer = k.timer /\ m.revents = {}
      /\ m.state = "DISCONNECTING" /\ m.unsent > 0
  BY <1>2, <1>3, <1>4 DEF Connection, Events
<1> HIDE DEF m
<1>7. Waiting(m, s)
  BY <1>6 DEF Waiting, GoesOn
<1> QED
  BY <1>1, <1>2, <1>3, <1>5, <1>6, <1>7, UpdateStep

\* The connections of S leave the tables, and with their last timer gone they are
\* closed: nobody else's place in the tables is touched.
LEMMA DeleteStep ==
  ASSUME ConnInv, NEW S \in SUBSET Conns, \A c \in S : sock[c].polled,
         conn' \in [Conns -> Connection],
         \A c \in S : conn'[c].timers = 0 /\ ~conn'[c].timer /\ conn'[c].revents = {},
         \A c \in S : conn'[c].unsent = 0 /\ ~conn'[c].isError,
         \A c \in Conns \ S : conn'[c] = conn[c],
         sock' = [c \in Conns |-> IF c \in S THEN NewSocket ELSE sock[c]],
         fdOf' = [c \in Conns |-> IF c \in S THEN NULL ELSE fdOf[c]],
         channels' = EpollDel(channels, S), holders' = EpollDel(holders, S),
         queued' = queued, cur' = NULL, \A c \in Conns : c = cur => c \in S,
         \/ pc' = "events"
         \/ pc' = "poll" /\ \A c \in Conns : conn[c].revents = {}
  PROVE  ConnInv'
<1> USE ConnAssumption
<1>1. /\ \A c \in S : sock'[c] = NewSocket /\ fdOf'[c] = NULL
      /\ \A c \in Conns \ S : sock'[c] = sock[c] /\ fdOf'[c] = fdOf[c]
      /\ ~NewSocket.polled /\ ~NewSocket.edge /\ NewSocket.interest = {}
  BY DEF NewSocket
<1>2. /\ channels' = [f \in Fds |-> IF f \in {fdOf[c] : c \in S} THEN NULL ELSE channels[f]]
      /\ holders' = [f \in Fds |-> IF f \in {fdOf[c] : c \in S} THEN NULL ELSE holders[f]]
  BY DEF EpollDel
<1>3. TypeOK'
  <2>1. sock' \in [Conns -> Socket] /\ fdOf' \in [Conns -> Fds \cup {NULL}]
    BY <1>1, NewTypes DEF ConnInv, TypeOK
  <2>2. channels' \in [Fds -> Conns \cup {NULL}] /\ holders' \in [Fds -> Conns \cup {NULL}]
    BY <1>2 DEF ConnInv, TypeOK
  <2>3. \A c \in Conns : sock'[c].interest \in Registrations
    BY <1>1 DEF ConnInv, TypeOK, Registrations
  <2> QED
    BY <2>1, <2>2, <2>3 DEF ConnInv, TypeOK
<1>4. /\ Live' = Live \ S /\ Live \subseteq Conns /\ S \subseteq Live
      /\ \A c \in Live' : c \in Live /\ c \in Conns \ S /\ fdOf'[c] = fdOf[c] /\ sock'[c] = sock[c]
  BY <1>1 DEF ConnInv, Opened, Live
<1>5. Opened'
  <2>1. \A c, d \in Live' : fdOf'[c] = fdOf'[d] => c = d
    BY <1>4 DEF ConnInv, Opened
  <2>2. \A c \in Conns : sock'[c].polled => c \in Live' \ queued'
    BY <1>1, <1>4 DEF ConnInv, Opened
  <2>3. queued' \subseteq Live' /\ \A c \in Live' : sock'[c].polled \/ c \in queued'
    BY <1>4 DEF ConnInv, Opened
  <2> QED
    BY <2>1, <2>2, <2>3 DEF Opened
<1>6. TablesAreCurrent'
  <2>1. channels' = holders'
    BY <1>2 DEF ConnInv, TablesAreCurrent
  <2>2. ASSUME NEW f \in Fds, channels'[f] # NULL PROVE fdOf'[channels'[f]] = f
    <3>1. /\ \A c \in S : fdOf[c] # f
          /\ channels'[f] = channels[f] /\ channels[f] \in Conns /\ fdOf[channels[f]] = f
      BY <1>2, <2>2 DEF ConnInv, TypeOK, TablesAreCurrent
    <3> QED
      BY <3>1, <1>1
  <2>3. ASSUME NEW c \in Live' PROVE sock'[c].polled <=> channels'[fdOf'[c]] = c
    <3>1. fdOf[c] \in Fds /\ \A d \in S : fdOf[d] # fdOf[c]
      BY <1>4 DEF ConnInv, TypeOK, Opened, Live
    <3>2. channels'[fdOf[c]] = channels[fdOf[c]]
      BY <1>2, <3>1
    <3> QED
      BY <1>4, <3>2 DEF ConnInv, TablesAreCurrent
  <2> QED
    BY <2>1, <2>2, <2>3 DEF TablesAreCurrent
<1>7. Silent' /\ TimerKnown'
  BY <1>1 DEF ConnInv, Silent, TimerKnown
<1>8. Handling'
  BY DEF ConnInv, Handling
<1>9. HandledIsAlive'
  BY <1>1, <1>4 DEF ConnInv, HandledIsAlive
<1>10. OneTimer'
  BY <1>1 DEF ConnInv, OneTimer
<1>11. Watching'
  <2>1. \A c \in Conns : cur' # c /\ (c \notin S => cur # c)
    OBVIOUS
  <2>2. \A c \in S : /\ Waiting(conn'[c], sock'[c])
                     /\ conn'[c].unsent = 0 /\ ~conn'[c].isError
    BY <1>1 DEF Waiting, GoesOn
  <2>3. \A c \in Conns \ S : /\ Waiting(conn'[c], sock'[c])
                             /\ ~sock'[c].polled => conn'[c].unsent = 0 /\ ~conn'[c].isError
    BY <2>1, <1>1 DEF ConnInv, Watching
  <2> QED
    BY <2>1, <2>2, <2>3 DEF Watching
<1> QED
  BY <1>3, <1>5, <1>6, <1>7, <1>8, <1>9, <1>10, <1>11 DEF ConnInv

LEMMA DestroyedType ==
  ASSUME NEW k \in Connection
  PROVE  /\ Destroyed(k) \in Connection
         /\ Destroyed(k).timers = 0 /\ ~Destroyed(k).timer /\ Destroyed(k).revents = k.revents
         /\ Destroyed(k).unsent = 0 /\ ~Destroyed(k).isError
<1>1. k.revents \in SUBSET {"IN", "OUT", "ERR"}
  BY DEF Connection
<1>2. Destroyed(k) = [NewConnection EXCEPT !.revents = k.revents]
  BY DEF Destroyed
<1> QED
  BY <1>1, <1>2, NewTypes, ConnAssumption DEF NewConnection, Connection, Events

\* Deleting connections whose last timer is gone.
LEMMA DeleteKeeps ==
  ASSUME ConnInv, NEW S \in SUBSET Conns, \A c \in S : sock[c].polled,
         NEW after \in [Conns -> Connection],
         \A c \in S : after[c].timers = 0 /\ after[c].revents = {},
         \A c \in Conns \ S : after[c] = conn[c],
         conn' = [c \in Conns |-> IF c \in S THEN Destroyed(after[c]) ELSE after[c]],
         sock' = [c \in Conns |-> IF c \in S THEN NewSocket ELSE sock[c]],
         fdOf' = [c \in Conns |-> IF c \in S THEN NULL ELSE fdOf[c]],
         channels' = EpollDel(channels, S), holders' = EpollDel(holders, S),
         queued' = queued, cur' = NULL, \A c \in Conns : c = cur => c \in S,
         \/ pc' = "events"
         \/ pc' = "poll" /\ \A c \in Conns : conn[c].revents = {}
  PROVE  ConnInv'
<1>1. conn' \in [Conns -> Connection]
  BY DestroyedType
<1>2. /\ \A c \in S : conn'[c].timers = 0 /\ ~conn'[c].timer /\ conn'[c].revents = {}
      /\ \A c \in S : conn'[c].unsent = 0 /\ ~conn'[c].isError
      /\ \A c \in Conns \ S : conn'[c] = conn[c]
  BY DestroyedType
<1> QED
  BY <1>1, <1>2, DeleteStep

LEMMA DeleteNowKeeps ==
  ASSUME ConnInv, NEW c \in Conns, cur = c, DeleteNow(c), cur' = NULL, UNCHANGED <<queued, pc>>
  PROVE  ConnInv'
<1> DEFINE k == Released(conn[c])
           after == [conn EXCEPT ![c] = k]
           S == {c}
<1>1. /\ Busy(conn[c]) /\ conn[c].revents = {} /\ conn[c] \in Connection
      /\ conn \in [Conns -> Connection] /\ sock[c].polled /\ pc = "events"
  BY UpdatedIsBusy, ConnAssumption DEF Busy, ConnInv, HandledIsAlive, Handling, TypeOK
<1>2. k \in Connection /\ k.timers = 0 /\ k.revents = {}
  BY <1>1, BusyTimer, ReleasedType
<1> HIDE DEF k
<1>3. /\ after \in [Conns -> Connection] /\ after[c] = k
      /\ \A d \in Conns \ {c} : after[d] = conn[d]
  BY <1>1, <1>2
<1>4. Delete(S, after)
  BY DEF DeleteNow, k
<1>5. {d \in S : after[d].timers = 0} = S
  BY <1>2, <1>3
<1> HIDE DEF after, S
<1>6. /\ conn' = [d \in Conns |-> IF d \in S THEN Destroyed(after[d]) ELSE after[d]]
      /\ sock' = [d \in Conns |-> IF d \in S THEN NewSocket ELSE sock[d]]
      /\ fdOf' = [d \in Conns |-> IF d \in S THEN NULL ELSE fdOf[d]]
      /\ channels' = EpollDel(channels, S) /\ holders' = EpollDel(holders, S)
  BY <1>4, <1>5 DEF Delete
<1>7. /\ S \in SUBSET Conns /\ \A d \in S : sock[d].polled
      /\ \A d \in S : after[d].timers = 0 /\ after[d].revents = {}
      /\ \A d \in Conns \ S : after[d] = conn[d]
      /\ \A d \in Conns : d = cur => d \in S
  BY <1>1, <1>2, <1>3 DEF S
<1> QED
  BY <1>1, <1>3, <1>6, <1>7, DeleteKeeps

LEMMA HandleExpireKeeps == ASSUME ConnInv, HandleExpire PROVE ConnInv'
<1>1. PICK S \in SUBSET {c \in Conns : conn[c].timers > 0} :
        Delete(S, [c \in Conns |->
            IF c \in S
            THEN [conn[c] EXCEPT !.timers = @ - 1, !.timer = conn[c].timers > 1]
            ELSE conn[c]])
  BY DEF HandleExpire, PopExpired
<1> DEFINE after == [c \in Conns |->
                        IF c \in S
                        THEN [conn[c] EXCEPT !.timers = @ - 1, !.timer = conn[c].timers > 1]
                        ELSE conn[c]]
<1>2. /\ S \in SUBSET Conns /\ pc' = "poll" /\ queued' = queued /\ cur' = NULL /\ cur = NULL
      /\ \A c \in Conns : conn[c].revents = {} /\ conn[c] \in Connection
      /\ NULL \notin Conns
  BY <1>1, ConnAssumption DEF HandleExpire, ConnInv, Handling, TypeOK
<1>3. \A c \in S : conn[c].timers = 1 /\ sock[c].polled
  <2>1. \A c \in Conns : conn[c].timers \in {0, 1} /\ (~sock[c].polled => conn[c].timers = 0)
    BY DEF ConnInv, TimerKnown, OneTimer
  <2> QED
    BY <2>1, <1>2
<1>4. ASSUME NEW c \in S
      PROVE  after[c] \in Connection /\ after[c].timers = 0 /\ after[c].revents = {}
  <2> DEFINE k == conn[c]
  <2>1. k \in Connection /\ k.timers = 1 /\ k.revents = {}
    BY <1>2, <1>3
  <2>2. after[c] = [k EXCEPT !.timers = k.timers - 1, !.timer = k.timers > 1]
    BY <1>2
  <2>3. k.timers - 1 = 0 /\ (k.timers > 1) = FALSE
    BY <2>1
  <2> HIDE DEF k, after
  <2>4. after[c] = [k EXCEPT !.timers = 0, !.timer = FALSE]
    BY <2>2, <2>3
  <2>5. ASSUME NEW n \in 0..2 PROVE [k EXCEPT !.timers = n, !.timer = FALSE] \in Connection
    BY <2>1 DEF Connection
  <2>6. after[c].timers = 0 /\ after[c].revents = {}
    BY <2>1, <2>4 DEF Connection
  <2> QED
    BY <2>4, <2>5, <2>6
<1>5. \A c \in Conns \ S : after[c] = conn[c]
  OBVIOUS
<1>6. after \in [Conns -> Connection]
  <2>1. \A c \in Conns : after[c] \in Connection
    BY <1>2, <1>4, <1>5
  <2>2. after = [c \in Conns |-> after[c]]
    OBVIOUS
  <2> HIDE DEF after
  <2> QED
    BY <2>1, <2>2
<1>7. Delete(S, after)
  BY <1>1
<1> HIDE DEF after
<1>8. {c \in S : after[c].timers = 0} = S
  BY <1>4
<1>9. /\ conn' = [c \in Conns |-> IF c \in S THEN Destroyed(after[c]) ELSE after[c]]
      /\ sock' = [c \in Conns |-> IF c \in S THEN NewSocket ELSE sock[c]]
      /\ fdOf' = [c \in Conns |-> IF c \in S THEN NULL ELSE fdOf[c]]
      /\ channels' = EpollDel(channels, S) /\ holders' = EpollDel(holders, S)
  BY <1>7, <1>8 DEF Delete
<1>10. \A c \in Conns : c = cur => c \in S
  BY <1>2
<1> QED
  BY <1>2, <1>3, <1>4, <1>5, <1>6, <1>9, <1>10, DeleteKeeps

\* Every queued connection takes its place in the tables, and its first timer.
LEMMA RegisterKeeps == ASSUME ConnInv, Register PROVE ConnInv'
<1> DEFINE first == {"IN", "ONESHOT"}
           mine(f) == \E c \in queued : fdOf[c] = f
           k(c) == [conn[c] EXCEPT !.events = first, !.last = first]
<1>1. /\ pc' = "expire" /\ queued' = {} /\ cur' = NULL /\ UNCHANGED fdOf
      /\ \A c \in Conns : conn[c].revents = {} /\ conn[c] \in Connection /\ sock[c] \in Socket
      /\ NULL \notin Conns /\ first \in Registrations /\ first \in SUBSET Events
  BY ConnAssumption DEF Register, ConnInv, Handling, TypeOK, Registrations, Events
<1>2. /\ conn' = [c \in Conns |-> IF c \in queued THEN Timed(k(c)) ELSE conn[c]]
      /\ sock' = [c \in Conns |-> IF c \in queued THEN Armed(sock[c], first) ELSE sock[c]]
  BY DEF Register
<1>3. /\ queued \subseteq Live /\ Live \subseteq Conns /\ Live' = Live
      /\ \A c \in queued : ~sock[c].polled /\ conn[c].timers = 0 /\ fdOf[c] \in Fds
      /\ \A c, d \in Live : fdOf[c] = fdOf[d] => c = d
  BY <1>1 DEF ConnInv, Opened, OneTimer, Live, TypeOK
<1>4. ASSUME NEW c \in queued
      PROVE  /\ conn'[c] \in Connection /\ conn'[c].timers = 1 /\ conn'[c].timer = TRUE
             /\ conn'[c].revents = {}
             /\ sock'[c] \in Socket /\ sock'[c].polled /\ sock'[c].interest = first
             /\ Waiting(conn'[c], sock'[c])
  <2> DEFINE m == conn[c]
             n == [m EXCEPT !.events = first, !.last = first]
  <2>1. /\ m \in Connection /\ m.timers = 0 /\ m.revents = {} /\ sock[c] \in Socket
        /\ m.unsent = 0 /\ ~m.isError
    BY <1>1, <1>3 DEF ConnInv, Watching
  <2>2. conn'[c] = Timed(n) /\ sock'[c] = Armed(sock[c], first)
    BY <1>2, <1>3
  <2> HIDE DEF m, first
  <2>3. /\ n \in Connection /\ n.timers = 0 /\ n.revents = {}
        /\ n.unsent = 0 /\ ~n.isError /\ n.last = first
    BY <1>1, <2>1 DEF Connection
  <2> HIDE DEF n
  <2>4. /\ Timed(n) \in Connection /\ Timed(n).timers = 1 /\ Timed(n).timer = TRUE
        /\ Timed(n).revents = {}
        /\ Timed(n).unsent = 0 /\ ~Timed(n).isError /\ Timed(n).last = first
    BY <2>3, TimedType
  <2>5. /\ Armed(sock[c], first) \in Socket
        /\ Armed(sock[c], first).polled /\ Armed(sock[c], first).interest = first
        /\ LET t == Armed(sock[c], first)
           IN  "IN" \in first /\ (t.data \/ t.fin) => t.edge
    BY <1>1, <2>1, ArmedType
  <2>6. Waiting(conn'[c], sock'[c])
    BY <2>2, <2>4, <2>5 DEF Waiting, Known, Noticed, Suited, First, first
  <2> QED
    BY <2>2, <2>4, <2>5, <2>6
<1>5. \A c \in Conns \ queued : conn'[c] = conn[c] /\ sock'[c] = sock[c]
  BY <1>2
<1>6. \A f \in Fds : channels'[f] = holders'[f]
  BY DEF Register, ConnInv, TablesAreCurrent
<1>7. ASSUME NEW c \in queued PROVE channels'[fdOf[c]] = c
  <2>1. channels'[fdOf[c]] = CHOOSE d \in queued : fdOf[d] = fdOf[c]
    BY <1>3 DEF Register
  <2>2. (CHOOSE d \in queued : fdOf[d] = fdOf[c]) = c
    BY <1>3
  <2> QED
    BY <2>1, <2>2
<1>8. ASSUME NEW f \in Fds, ~mine(f) PROVE channels'[f] = channels[f]
  BY <1>8 DEF Register
<1>9. /\ channels' \in [Fds -> Conns \cup {NULL}] /\ holders' \in [Fds -> Conns \cup {NULL}]
      /\ channels' = holders'
  <2>1. \A f \in Fds : channels'[f] \in Conns \cup {NULL}
    BY <1>3, <1>7, <1>8 DEF ConnInv, TypeOK
  <2>2. channels' = [f \in Fds |-> channels'[f]] /\ holders' = [f \in Fds |-> holders'[f]]
    BY DEF Register
  <2> QED
    BY <2>1, <2>2, <1>6
<1> HIDE DEF k, mine, first
<1>10. TypeOK'
  <2>1. conn' \in [Conns -> Connection] /\ sock' \in [Conns -> Socket]
    BY <1>1, <1>2, <1>4, <1>5
  <2>2. \A c \in Conns : sock'[c].interest \in Registrations
    BY <1>1, <1>4, <1>5 DEF ConnInv, TypeOK
  <2> QED
    BY <2>1, <2>2, <1>1, <1>9 DEF ConnInv, TypeOK
<1>11. Opened'
  BY <1>1, <1>3, <1>4, <1>5 DEF ConnInv, Opened
<1>12. TablesAreCurrent'
  <2>1. ASSUME NEW f \in Fds, channels'[f] # NULL PROVE fdOf'[channels'[f]] = f
    BY <2>1, <1>1, <1>7, <1>8 DEF ConnInv, TablesAreCurrent, mine
  <2>2. ASSUME NEW c \in Live PROVE sock'[c].polled <=> channels'[fdOf[c]] = c
    <3>1. CASE c \in queued
      BY <3>1, <1>4, <1>7
    <3>2. CASE c \notin queued
      <4>1. fdOf[c] \in Fds /\ ~mine(fdOf[c])
        BY <3>2, <1>3 DEF mine, Live, ConnInv, TypeOK
      <4> QED
        BY <4>1, <3>2, <1>3, <1>5, <1>8 DEF ConnInv, TablesAreCurrent
    <3> QED
      BY <3>1, <3>2
  <2> QED
    BY <2>1, <2>2, <1>1, <1>3, <1>9 DEF TablesAreCurrent
<1>13. Silent' /\ TimerKnown'
  BY <1>4, <1>5 DEF ConnInv, Silent, TimerKnown
<1>14. Handling' /\ HandledIsAlive'
  BY <1>1, <1>4, <1>5 DEF Handling, HandledIsAlive
<1>15. OneTimer'
  <2>1. cur = NULL
    BY DEF Register, ConnInv, Handling
  <2> QED
    BY <2>1, <1>1, <1>4, <1>5 DEF ConnInv, OneTimer
<1>16. Watching'
  <2>1. \A c \in Conns : cur' # c /\ cur # c
    BY <1>1 DEF Register, ConnInv, Handling
  <2> QED
    BY <2>1, <1>4, <1>5 DEF ConnInv, Watching
<1> QED
  BY <1>10, <1>11, <1>12, <1>13, <1>14, <1>15, <1>16 DEF ConnInv

LEMMA NextInv == ConnInv /\ [Next]_vars => ConnInv'
<1> SUFFICES ASSUME ConnInv, [Next]_vars PROVE ConnInv'
  OBVIOUS
<1>1. ASSUME NEW c \in Conns, PeerSends(c) \/ PeerReads(c) \/ PeerCloses(c) \/ PeerResets(c)
      PROVE  ConnInv'
  BY <1>1, PeersKeep
<1>2. ASSUME NEW c \in Conns, NEW f \in Fds, Accept(c, f) PROVE ConnInv'
  BY <1>2, AcceptKeeps
<1>3. CASE Poll
  BY <1>3, PollKeeps
<1>4. CASE EventsDone
  BY <1>4, EventsDoneKeeps
<1>5. CASE HandleUpdate
  <2>1. cur \in Conns /\ cur' = NULL /\ UNCHANGED <<queued, pc>>
    BY <1>5 DEF HandleUpdate, ConnInv, TypeOK
  <2>2. PICK c \in Conns : c = cur /\ (Rearm(c) \/ Keep(c) \/ DeleteNow(c))
    BY <1>5, <2>1 DEF HandleUpdate
  <2> QED
    BY <2>1, <2>2, RearmKeeps, KeepKeeps, DeleteNowKeeps
<1>6. CASE Register
  BY <1>6, RegisterKeeps
<1>7. CASE HandleExpire
  BY <1>7, HandleExpireKeeps
<1>8. ASSUME NEW c \in Conns, IgnoreError(c) \/ HandleEvents(c) PROVE ConnInv'
  BY <1>8, IgnoreKeeps, HandleKeeps
<1>9. CASE UNCHANGED vars
  <2>1. Live' = Live
    BY <1>9 DEF vars, Live
  <2> QED
    BY <1>9, <2>1 DEF vars, ConnInv, TypeOK, Opened, Silent, TimerKnown, Handling,
       TablesAreCurrent, HandledIsAlive, OneTimer, Watching
<1> QED
  BY <1>1, <1>2, <1>3, <1>4, <1>5, <1>6, <1>7, <1>8, <1>9 DEF Next, LoopStep

LEMMA Invariant == Spec => []ConnInv
  BY InitInv, NextInv, PTL DEF Spec

-----------------------------------------------------------------------------
\* The types of the connections, of their sockets and of the Poller's tables
\* (http_connection.cpp, channel.cpp, poller.cpp).
THEOREM TypeCorrect == Spec => []TypeOK
<1>1. ConnInv => TypeOK
  BY DEF ConnInv
<1> QED
  BY <1>1, Invariant, PTL

\* For any number of connections and descriptors, a descriptor that was closed and
\* is used again leads to its new connection, in both tables, and nowhere else
\* (Poller::EpollAdd and EpollDel, HttpConnection::Delete).
THEOREM TablesStayCurrent == Spec => []TablesAreCurrent
<1>1. ConnInv => TablesAreCurrent
  BY DEF ConnInv
<1> QED
  BY <1>1, Invariant, PTL

\* No handler, and no update after one, runs of a connection that is gone, although
\* they are bound to a plain this (http_connection.cpp:31).
THEOREM HandlersAreAlive == Spec => []HandledIsAlive
<1>1. ConnInv => HandledIsAlive
  BY DEF ConnInv
<1> QED
  BY <1>1, Invariant, PTL

\* Each registered connection has one live timer, on every path through its
\* handlers, but for the one whose peer has ended with output left
\* (HttpConnection::Reset, HandleUpdate).
THEOREM OneLiveTimer == Spec => []OneTimer
<1>1. ConnInv => OneTimer
  BY DEF ConnInv
<1> QED
  BY <1>1, Invariant, PTL

\* A connection that goes on never sleeps on what has happened, whatever comes in
\* while its handler runs and although epoll_ctl is skipped when the events are the
\* same (HttpConnection::HandleUpdate, Poller::EpollMod).
THEOREM NoEventIsLost == Spec => []NoLostEvent
<1>1. ConnInv => NoLostEvent
  <2> SUFFICES ASSUME ConnInv, NEW c \in Conns,
                      sock[c].polled, cur # c, conn[c].revents = {},
                      conn[c].state = "CONNECTED", ~sock[c].rst
               PROVE  LET k == conn[c]
                          s == sock[c]
                          coming == s.edge /\ Ready(s) # {}
                      IN  /\ k.unsent = 0 /\ (s.data \/ s.fin) => coming
                          /\ k.unsent > 0 /\ s.room => coming
    BY DEF NoLostEvent
  <2> DEFINE k == conn[c]
             s == sock[c]
  <2>1. /\ Suited(k) /\ s.interest = k.last /\ Noticed(k, s)
    BY DEF ConnInv, Watching, Waiting, GoesOn
  <2>2. CASE k.unsent = 0
    <3>1. "IN" \in s.interest
      BY <2>1, <2>2 DEF Suited, First
    <3> QED
      BY <2>1, <2>2, <3>1 DEF Noticed, Ready
  <2>3. CASE k.unsent > 0
    <3>1. k.unsent \in Nat
      BY ConnAssumption DEF ConnInv, TypeOK, Connection
    <3>2. "OUT" \in s.interest
      BY <2>1, <2>3, <3>1 DEF Suited
    <3> QED
      BY <2>1, <2>3, <3>1, <3>2 DEF Noticed, Ready
  <2> QED
    BY <2>2, <2>3
<1> QED
  BY <1>1, Invariant, PTL
=============================================================================
