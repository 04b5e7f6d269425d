----------------------------- MODULE OldServer -----------------------------
(***************************************************************************)
(* The server of old_version: HTTPServer or FTPServer, whichever it was    *)
(* built as, over its reactor.  The main loop accepts and keeps the map of *)
(* connections; an IO loop has the poller, the timers and the handlers.    *)
(*                                                                         *)
(* A connection's descriptor is closed by the destructor of its Channel,   *)
(* which runs when the last shared_ptr to it goes: the connection object   *)
(* in the map, channelMap_, the nodes of the timers, and the functors in   *)
(* the queues each hold one.  All the tables are keyed by descriptor, so   *)
(* that count is what keeps one connection from being taken for another.   *)
(* The handlers hold the connection object as a bare this.                 *)
(***************************************************************************)
EXTENDS OldHttp, FtpSession

CONSTANTS
    Fds,            \* descriptors below MAXFDS, 1..n
    Scripts,        \* what HTTP clients may ask: requests in turn, of lines
    FtpSends,       \* the messages of each FTP client
    MaxSends,       \* how many of them it sends,
    MaxMessages,    \* and how many they all send
    Stayers,        \* the FTP clients that do not leave
    ExpiredTime, KeepAliveTime,     \* DEFAULT_EXPIRED_TIME, DEFAULT_KEEP_ALIVE_TIME
    Wrap,           \* the clock of the timers starts again after this
    MaxTime,        \* bound on the time that passes
    NULL

\* A node of the timers.
TimerNode == [conn : Peers, id : Nat, exp : Nat]

ASSUME OldAssumption ==
    /\ Sessions \subseteq Peers /\ Patient \subseteq Peers
    /\ Fds \subseteq Nat \ {0}
    /\ ExpiredTime \in Nat \ {0} /\ KeepAliveTime \in Nat \ {0} /\ Wrap \in Nat \ {0}
    /\ NULL \notin Peers \cup TimerNode /\ "wakeup" \notin Peers

VARIABLES
    kind,           \* "http" or "ftp": what was built
    fd,             \* the descriptor of each connection, 0 if it has none
    peer,           \* its client: "new", "open", "shut" or "reset"
    script,         \* what an HTTP client asks
    sent, unread,   \* what the client has sent -- an FTP client, since the
                    \* command of its upload was read -- and what the socket holds
    asked, sending, \* FTP: how many messages it sent, and who is at an upload
    spoilt,         \* history: whose upload another had open as well
    connMap,        \* HttpMap_, ftpMap_: descriptor -> connection
    mainQueue,      \* pendingFunctors_ of the main loop: deleteFromMap's
    ioQueue,        \* and of the IO loop: addToPoller's
    channelMap,     \* Epoll: descriptor -> channel
    armed,          \* edges epoll has still to report
    ret, batch,     \* the channels of this turn of the IO loop, and the
                    \* events it has still to handle
    io, current,    \* where the IO loop is, and the channel it is closing
    deleted, first, \* of the channels: deleted_, first_
    heap, timerMap, \* TimerManager; a node is [conn, id, exp]
    made,           \* of each channel: how many nodes were made,
    due,            \* and when the last of them is, by the real time
    time

serverVars == <<connMap, mainQueue, ioQueue, channelMap>>
loopVars   == <<ret, batch, io, current>>
timerVars  == <<deleted, first, heap, timerMap, made, due>>
sentVars   == <<sent, asked, sending>>
netVars    == <<fd, peer, sentVars, unread, spoilt, armed>>
vars == <<kind, script, serverVars, loopVars, timerVars, netVars, time, httpVars, sessionVars>>

\* What the client sends and a session keeps is of no matter to the reactor.
TypeOK ==
    /\ kind \in {"http", "ftp"}
    /\ fd \in [Peers -> Fds \cup {0}]
    /\ peer \in [Peers -> {"new", "open", "shut", "reset"}]
    /\ DOMAIN unread = Peers /\ DOMAIN http = Peers
    /\ connMap \in [Fds -> Peers \cup {NULL}]
    /\ channelMap \in [Fds -> Peers \cup {NULL}]
    /\ timerMap \in [Fds -> TimerNode \cup {NULL}] /\ heap \subseteq TimerNode
    /\ mainQueue \in Seq(Peers) /\ ioQueue \in Seq(Peers)
    /\ armed \subseteq Peers /\ ret \subseteq Peers
    /\ batch \subseteq [conn : Peers \cup {NULL},
                        event : {"in", "out", "hup", "err", "wakeup"}]
    /\ io \in {"poll", "events", "closing", "timers", "expiring"}
    /\ current \in Peers \cup {NULL}
    /\ deleted \subseteq Peers /\ first \subseteq Peers
    /\ made \in [Peers -> Nat] /\ due \in [Peers -> Nat] /\ time \in Nat

Init ==
    /\ \/ kind = "http" /\ script \in Scripts
       \/ kind = "ftp" /\ script = [c \in Peers |-> <<>>]
    /\ fd = [c \in Peers |-> 0] /\ peer = [c \in Peers |-> "new"]
    /\ sent = [c \in Peers |-> <<>>] /\ unread = sent
    /\ asked = [c \in Peers |-> 0] /\ sending = {} /\ spoilt = {}
    /\ connMap = [f \in Fds |-> NULL]
    /\ channelMap = connMap /\ timerMap = connMap
    /\ mainQueue = <<>> /\ ioQueue = <<>>
    /\ armed = {} /\ ret = {} /\ batch = {} /\ io = "poll" /\ current = NULL
    /\ deleted = {} /\ first = Peers /\ heap = {}
    /\ made = asked /\ due = asked /\ time = 0
    /\ HttpInit /\ SessionInit(IF kind = "ftp" THEN Trees ELSE {<<>>})

-----------------------------------------------------------------------------
\* shared_ptr<Channel>: who holds the channel of c.
Held(c, theConns, theChannels, theQueues, theNodes, theLocals) ==
    \/ c \in Range(theConns) \cup Range(theChannels)
    \/ c \in ToSet(theQueues)
    \/ \E node \in theNodes : node # NULL /\ node.conn = c
    \/ c \in theLocals

\* ~Channel closes the descriptors of those whom nobody holds any more.
Release ==
    fd' = [c \in Peers |->
              IF Held(c, connMap', channelMap', mainQueue' \o ioQueue',
                      heap' \cup Range(timerMap'), ret' \cup {current'})
              THEN fd[c] ELSE 0]

\* What epoll has to say of a channel: for HTTP of the one event it is set to.
Readable(c)   == unread[c] # <<>> \/ peer[c] # "open"
Registered(c) == fd[c] # 0 /\ channelMap[fd[c]] = c
Event(c) ==
    CASE peer[c] = "reset" /\ kind = "http" /\ ToWrite(c) -> "hup"
      [] peer[c] = "reset" -> "err"
      [] kind = "http" /\ ToWrite(c) -> "out"
      [] kind = "ftp" /\ ~Readable(c) -> "out"
      [] OTHER -> "in"

-----------------------------------------------------------------------------
\* The main loop.

\* Whether a client has anything to do here.
Comes(c) == IF kind = "ftp" THEN c \in Sessions ELSE script[c] # <<>>

\* handleNewConn for one connection.  It gets the least descriptor that is
\* free; if the connections, or the files of the process, have left none
\* below MAXFDS, it is closed at once.
HandleNewConn(c) ==
    LET free == Fds \ Range(fd)
    IN  /\ ~crashed /\ peer[c] = "new" /\ Comes(c)
        /\ \/ /\ peer' = [peer EXCEPT ![c] = "reset"]
              /\ UNCHANGED <<fd, connMap, ioQueue>>
           \/ /\ free # {}
              /\ peer' = [peer EXCEPT ![c] = "open"]
              /\ fd' = [fd EXCEPT ![c] = Min(free)]
              /\ connMap' = [connMap EXCEPT ![Min(free)] = c]
              /\ ioQueue' = Append(ioQueue, c)
        /\ UNCHANGED <<kind, script, mainQueue, channelMap, loopVars, timerVars, time,
                       sentVars, unread, spoilt, armed, httpVars, sessionVars>>

\* The functors of the main loop: deleteFromMap of each channel's descriptor.
DeleteFromMap ==
    /\ ~crashed /\ mainQueue # <<>>
    /\ connMap' = [f \in Fds |-> IF \E c \in ToSet(mainQueue) : fd[c] = f
                                 THEN NULL ELSE connMap[f]]
    /\ mainQueue' = <<>>
    /\ UNCHANGED <<kind, script, ioQueue, channelMap, loopVars, timerVars, time,
                   peer, sentVars, unread, spoilt, armed, httpVars, sessionVars>>
    /\ Release

-----------------------------------------------------------------------------
\* The timers, in milliseconds since the last turn of the clock.
Clock == time % Wrap

\* addTimer, n times over: the heap takes the first of a channel only.
AddTimer(c, timeout, n) ==
    LET Node(i) == [conn |-> c, id |-> made[c] + i, exp |-> Clock + timeout]
    IN  /\ heap' = IF c \in first THEN heap \cup {Node(1)} ELSE heap
        /\ first' = first \ {c}
        /\ timerMap' = [timerMap EXCEPT ![fd[c]] = Node(n)]
        /\ made' = [made EXCEPT ![c] = @ + n]
        /\ due' = [due EXCEPT ![c] = time + timeout]

NoTimer == UNCHANGED <<heap, first, timerMap, made, due>>

\* handleClose: to the main loop first, then out of this one's poller.
HandleClose(c, next) ==
    /\ mainQueue' = Append(mainQueue, c)
    /\ io' = next /\ current' = c

\* Mutant: it stays in the poller.
StayInPoller ==
    /\ ~crashed /\ io \in {"closing", "expiring"}
    /\ io' = IF io = "closing" THEN "events" ELSE "timers"
    /\ current' = NULL
    /\ UNCHANGED <<kind, script, serverVars, ret, batch, timerVars, time, netVars,
                   httpVars, sessionVars>>

RemoveFromPoller ==
    /\ ~crashed /\ io \in {"closing", "expiring"}
    /\ channelMap' = [channelMap EXCEPT ![fd[current]] = NULL]
    /\ armed' = armed \ {current}
    /\ io' = IF io = "closing" THEN "events" ELSE "timers"
    /\ current' = NULL
    /\ UNCHANGED <<kind, script, connMap, mainQueue, ioQueue, ret, batch, timerVars, time,
                   peer, sentVars, unread, spoilt, httpVars, sessionVars>>
    /\ Release

Top(node) == \A other \in heap : node.exp <= other.exp
Over(node) == node.conn \in deleted \/ Clock >= node.exp

\* The node in the map is the latest of its descriptor.
\* Mutant: any node is taken for it.
AnyNode(node) == TRUE
Latest(node) == node = timerMap[fd[node.conn]]

\* handleExpiredEvent, one turn of it: an older node is put back into the
\* heap as the latest.
HandleExpiredEvent ==
    /\ ~crashed /\ io = "timers"
    /\ \/ \E node \in heap :
             /\ Top(node) /\ Over(node)
             /\ IF Latest(node)
                THEN /\ heap' = heap \ {node}
                     /\ timerMap' = [timerMap EXCEPT ![fd[node.conn]] = NULL]
                     /\ HandleClose(node.conn, "expiring")
                ELSE /\ heap' = (heap \ {node}) \cup {timerMap[fd[node.conn]]}
                     /\ UNCHANGED <<timerMap, mainQueue, io, current>>
       \/ /\ heap # {} => \E node \in heap : Top(node) /\ ~Over(node)
          /\ io' = "poll"
          /\ UNCHANGED <<heap, timerMap, mainQueue, current>>
    /\ UNCHANGED <<kind, script, connMap, ioQueue, channelMap, ret, batch, deleted, first,
                   made, due, time, netVars, httpVars, sessionVars>>

-----------------------------------------------------------------------------
\* The IO loop.

\* epoll_wait with no timeout: it returns when there is something.
Poll ==
    LET ready == IF kind = "http" THEN armed ELSE {c \in Peers : Registered(c)}
    IN  /\ ~crashed /\ io = "poll" /\ (ready # {} \/ ioQueue # <<>>)
        /\ ret' = ready
        /\ batch' = {[conn |-> c, event |-> Event(c)] : c \in ready} \cup
                    (IF ioQueue = <<>> THEN {} ELSE {[conn |-> NULL, event |-> "wakeup"]})
        /\ armed' = {}
        /\ io' = "events"
        /\ UNCHANGED <<kind, script, serverVars, current, timerVars, time,
                       fd, peer, sentVars, unread, spoilt, httpVars, sessionVars>>

Taking(e) == ~crashed /\ io = "events" /\ e \in batch /\ batch' = batch \ {e}

\* doPendingFunctors: addToPoller of every new channel.
DoPendingFunctors(e) ==
    /\ Taking(e) /\ e.event = "wakeup"
    /\ channelMap' = [f \in Fds |-> IF \E c \in ToSet(ioQueue) : fd[c] = f
                                    THEN CHOOSE c \in ToSet(ioQueue) : fd[c] = f
                                    ELSE channelMap[f]]
    /\ armed' = armed \cup {c \in ToSet(ioQueue) : Readable(c)}
    /\ ioQueue' = <<>>
    /\ UNCHANGED <<kind, script, connMap, mainQueue, ret, io, current, timerVars, time,
                   fd, peer, sentVars, unread, spoilt, httpVars, sessionVars>>

\* handleEvents: a hang-up closes, an error does nothing at all.
HandleEvents(e) ==
    /\ Taking(e)
    /\ \/ e.event = "hup" /\ HandleClose(e.conn, "closing")
       \/ /\ e.event = "err" \/ (e.event = "out" /\ kind = "ftp")
          /\ UNCHANGED <<mainQueue, io, current>>
    /\ UNCHANGED <<kind, script, connMap, ioQueue, channelMap, ret, timerVars, time,
                   netVars, httpVars, sessionVars>>

\* httpConnection::handleRead.
HttpHandleRead(e) ==
    LET c == e.conn
        closed == peer[c] # "open"
    IN  /\ Taking(e) /\ e.event = "in" /\ kind = "http"
        /\ HttpRead(c, unread[c], closed)
        /\ unread' = [unread EXCEPT ![c] = <<>>]
        /\ armed' = IF ToWrite(c)' THEN armed \cup {c} ELSE armed
        /\ IF closed
           THEN deleted' = deleted \cup {c} /\ AddTimer(c, ExpiredTime, 1)
           ELSE deleted' = deleted /\ NoTimer
        /\ UNCHANGED <<kind, script, serverVars, ret, io, current, time,
                       fd, peer, sentVars, spoilt, sessionVars>>

\* setEvents(EPOLLIN | EPOLLET) and updatePoller: epoll looks again.
\* Mutant: it is not told.
NoUpdate(c) == armed' = armed
UpdatePoller(c) == armed' = IF Readable(c) THEN armed \cup {c} ELSE armed

\* handleSuccess or handleError, and the channel is set to EPOLLIN again.
\* Nobody ignores SIGPIPE: writing to a client that is gone may be the end.
HttpHandleWrite(e) ==
    LET c == e.conn
    IN  /\ Taking(e) /\ e.event = "out" /\ kind = "http"
        /\ \/ /\ HandleSuccess(c)
              /\ IF http[c].method = "get"
                 THEN AddTimer(c, IF http[c].keepAlive THEN KeepAliveTime
                                  ELSE ExpiredTime, 1)
                 ELSE NoTimer
           \/ HandleError(c) /\ NoTimer
        /\ UpdatePoller(c)
        /\ crashed' \in {FALSE, peer[c] = "reset"}
        /\ UNCHANGED <<kind, script, serverVars, ret, io, current, deleted, time,
                       fd, peer, sentVars, unread, spoilt, ftp, tree, told>>

\* Two sessions that have one file open write over each other.
Shared(c) == ftp[c].open # CLOSED /\ \E other \in Sessions \ {c} : ftp[other].open = ftp[c].open

\* ftpConnection::handleRead.  A session whose state ends in QUIT has quit()
\* run for it, and one that was there already has it run by the state too:
\* each sets a timer.
FtpHandleRead(e) ==
    LET c == e.conn
    IN  /\ Taking(e) /\ e.event = "in" /\ kind = "ftp"
        /\ SessionRead(c, unread[c], peer[c])
        /\ unread' = [unread EXCEPT ![c] = <<>>]
        /\ LET begins == ftp[c].state = "parse" /\ ftp'[c].state = "upload"
           IN  /\ sent' = IF begins THEN [sent EXCEPT ![c] = <<>>] ELSE sent
               /\ spoilt' = (IF begins THEN spoilt \ {c} ELSE spoilt)
                                \cup {x \in Sessions : Shared(x)'}
        /\ IF ftp'[c].state = "quit"
           THEN /\ deleted' = deleted \cup {c}
                /\ AddTimer(c, 0, IF ftp[c].state = "quit" THEN 2 ELSE 1)
           ELSE deleted' = deleted /\ NoTimer
        /\ UNCHANGED <<kind, script, serverVars, ret, io, current, time,
                       fd, peer, asked, sending, armed, httpVars>>

\* The end of the for loop, and ret.clear().
EndOfEvents ==
    /\ ~crashed /\ io = "events" /\ batch = {}
    /\ io' = "timers" /\ ret' = {}
    /\ UNCHANGED <<kind, script, serverVars, batch, current, timerVars, time,
                   peer, sentVars, unread, spoilt, armed, httpVars, sessionVars>>
    /\ Release

-----------------------------------------------------------------------------
\* The clients and the clock.
Arrives(c, messages) ==
    /\ ~crashed /\ peer[c] = "open"
    /\ sent' = IF kind = "http" \/ ftp[c].state = "upload"
               THEN [sent EXCEPT ![c] = @ \o messages] ELSE sent
    /\ unread' = [unread EXCEPT ![c] = @ \o messages]
    /\ armed' = IF kind = "http" /\ Registered(c) /\ ~ToWrite(c)
                THEN armed \cup {c} ELSE armed
    /\ UNCHANGED <<kind, script, serverVars, loopVars, timerVars, time,
                   fd, peer, spoilt, httpVars, sessionVars>>

\* The request a client is at, and how many of its lines it has sent.
Asking(c) == IF sent[c] = <<>> THEN 1 ELSE Last(sent[c]).n
Lines(c, n) == Cardinality({i \in DOMAIN sent[c] : sent[c][i].n = n})

Refused(request) == \E i \in DOMAIN request : request[i] \in {"missing", "version", "bad"}

\* A piece of a request: one line of it, or more, or all.  late is a history:
\* what is refused has come in pieces, and this is not the first.
HttpSend(c) ==
    LET all == Asking(c) <= Len(script[c]) /\ Lines(c, Asking(c)) = Len(script[c][Asking(c)])
        n == IF all THEN Asking(c) + 1 ELSE Asking(c)
        done == Lines(c, n)
        late == done > 0 /\ c \in Patient /\ Refused(script[c][n])
        Line(i) == [n |-> n, line |-> script[c][n][i], late |-> late]
    IN  /\ kind = "http" /\ n <= Len(script[c])
        /\ c \in Patient /\ done = 0 => Len(answers[c]) >= n - 1 /\ 0 \notin ToSet(answers[c])
        /\ \E last \in done + 1 .. Len(script[c][n]) :
               Arrives(c, [i \in 1 .. last - done |-> Line(done + i)])
        /\ UNCHANGED <<asked, sending>>

\* An FTP client sends a command once the last is read, and data as it likes.
FtpSend(c) ==
    /\ kind = "ftp" /\ c \in Sessions /\ asked[c] < MaxSends[c]
    /\ SumFunction(asked) < MaxMessages
    /\ \E message \in FtpSends[c] :
           /\ asked[c] = 0 <=> message.op = "login"
           /\ c \in sending <=> message.op \in {"data", "end"}
           /\ c \in sending \/ unread[c] = <<>>
           /\ message.op = "cd" => ftp[c].cwd = <<>> \/ message.arg = <<"..">>
           /\ Arrives(c, <<message>>)
           /\ sending' = CASE message.op = "upload" -> sending \cup {c}
                           [] message.op = "end" -> sending \ {c}
                           [] OTHER -> sending
    /\ asked' = [asked EXCEPT ![c] = @ + 1]

\* shutdown or close, and a reset.
Leave(c) ==
    /\ ~crashed /\ (kind = "ftp" => c \notin Stayers)
    /\ \/ peer[c] = "open" /\ peer' = [peer EXCEPT ![c] = "shut"]
       \/ peer[c] \in {"open", "shut"} /\ peer' = [peer EXCEPT ![c] = "reset"]
    /\ armed' = IF kind = "http" /\ Registered(c)
                   /\ (peer'[c] = "reset" \/ ~ToWrite(c))
                THEN armed \cup {c} ELSE armed
    /\ UNCHANGED <<kind, script, serverVars, loopVars, timerVars, time,
                   fd, sentVars, unread, spoilt, httpVars, sessionVars>>

\* Time is nothing to an FTP session: it sets timers of zero, of a channel it
\* has marked.
Tick ==
    /\ ~crashed /\ time < MaxTime /\ kind = "http"
    /\ time' = time + 1
    /\ UNCHANGED <<kind, script, serverVars, loopVars, timerVars, netVars, httpVars, sessionVars>>

Next ==
    \/ \E c \in Peers : HandleNewConn(c)
    \/ DeleteFromMap
    \/ Poll
    \/ \E e \in batch :
           \/ DoPendingFunctors(e) \/ HandleEvents(e)
           \/ HttpHandleRead(e) \/ HttpHandleWrite(e) \/ FtpHandleRead(e)
    \/ EndOfEvents \/ RemoveFromPoller \/ HandleExpiredEvent
    \/ \E c \in Peers : HttpSend(c) \/ FtpSend(c) \/ Leave(c)
    \/ Tick

Spec == Init /\ [][Next]_vars

-----------------------------------------------------------------------------
\* A handler, which is bound to a bare this, is run of a connection that the
\* map still holds, whatever the main loop has deleted meanwhile.
HandlerIsAlive ==
    \A e \in batch : e.event \in {"in", "out"} => connMap[fd[e.conn]] = e.conn

\* A timer closes a connection only if it was marked, or if the last timeout
\* it was given has passed: a request in time puts the closing off.
ClosedWhenDue ==
    [][io' = "expiring" /\ io = "timers" =>
          current' \in deleted \/ due[current'] <= time]_vars

\* A client that waits for each answer is sent the answers to its requests,
\* in their order, whole or cut short -- until one is refused that came in
\* pieces: the later piece is then taken for a request of its own.
Straggles(c, n) == \E i \in DOMAIN sent[c] : sent[c][i].n = n /\ sent[c][i].late

AnswersMatch ==
    \A c \in Patient : \A i \in DOMAIN answers[c] :
        answers[c][i] \in {i, 0} \/ \E n \in 1 .. i - 1 : Straggles(c, n)

\* Edge-triggered: while there is something to read, or an answer to write,
\* epoll has yet to report it or the loop has yet to handle the report.
NoLostEdge ==
    kind = "http" =>
        \A c \in Peers :
            Registered(c) /\ peer[c] # "reset" /\ current # c
                /\ (ToWrite(c) \/ Readable(c)) /\ c \notin deleted
            => c \in armed \/ \E e \in batch : e.conn = c

\* While a session uploads, its file and its stream's buffer hold, in order,
\* all that its client has sent since the command was read and is not still
\* in the socket -- if no other session has had the file open meanwhile, and
\* none has removed it.  What was read along with the command is in the name.
UploadKept ==
    \A c \in Sessions \ spoilt :
        ftp[c].state = "upload" /\ ftp[c].open \notin {CLOSED, UNLINKED}
        => tree[ftp[c].open].data \o ftp[c].held \o unread[c] = sent[c]

\* What rmdir reports as deleted is what has gone, no more and no less, and no
\* other message makes anything go.
RemovedAsReported ==
    [][kind = "ftp" /\ (\E e \in batch \ batch' : e.event = "in") /\ ~crashed'
       => told'.gone = DOMAIN tree \ DOMAIN tree']_vars
=============================================================================
