------------------------------ MODULE OldHttp ------------------------------
(***************************************************************************)
(* old_version's httpConnection: requests are parsed as they are read, and *)
(* answered later, when epoll says the socket may be written to.  Between  *)
(* the two the connection keeps one file name and one write handler, so    *)
(* what is answered is the last request that was parsed.                   *)
(*                                                                         *)
(* inBuffer_ holds lines, each with its CRLF: a first line that is taken   *)
(* ("get", "post") or refused ("missing": no such file or no such method,  *)
(* "version"), a header ("keep": Connection: Keep-Alive; "bad": one with   *)
(* no ": ") or "blank".  A line has the number of its request, n, and late *)
(* says that it was not sent along with its first line.  The socket, epoll *)
(* and the timers belong to the module that composes this one.             *)
(***************************************************************************)
EXTENDS Integers, SequencesExt

CONSTANTS
    Peers,      \* the connections
    Patient     \* those whose client waits for each answer

VARIABLES
    http,       \* of each connection: inBuffer_ and how much of it is parsed,
                \* parseState_, headers_, what was parsed, the write handler,
                \* and the answer outBuffer_ has the rest of, 0 for none
    answers     \* what each of the Patient has received: the request it answers,
                \* 0 for an answer that was cut short, -n for the rest of n's

httpVars == <<http, answers>>

FreshHttp == [in |-> <<>>, pos |-> 0, state |-> "request", kept |-> FALSE,
              write |-> "none", file |-> 0, method |-> "get", keepAlive |-> FALSE,
              out |-> 0]

HttpInit ==
    /\ http = [c \in Peers |-> FreshHttp]
    /\ answers = [c \in Patient |-> <<>>]

\* reset: inBuffer_ stays.
Reset(h) == [h EXCEPT !.pos = 0, !.state = "request", !.file = 0, !.kept = FALSE]

-----------------------------------------------------------------------------
\* parseRequest.  A line refused for its version has been passed, one refused
\* for its method or its file has not.
ParseRequest(h, x) ==
    CASE x.line \in {"get", "post"} ->
             [h EXCEPT !.pos = @ + 1, !.state = "header", !.file = x.n, !.method = x.line]
      [] x.line = "version" -> [h EXCEPT !.pos = @ + 1, !.state = "error", !.file = x.n]
      [] OTHER -> [h EXCEPT !.state = "error", !.file = x.n]

\* parseHeader.  The key goes on to the next ": ", lines further if need be.
ParseHeader(h, x) ==
    LET pairs == {i \in h.pos + 1 .. Len(h.in) : h.in[i].line = "keep"}
    IN  CASE x.line = "blank" -> [h EXCEPT !.state = "success"]
          [] x.line = "keep"  -> [h EXCEPT !.pos = @ + 1, !.kept = TRUE]
          [] x.line \notin {"blank", "keep"} /\ pairs # {} -> [h EXCEPT !.pos = Min(pairs)]
          [] OTHER -> [h EXCEPT !.state = "error", !.file = x.n]

\* parseError drops all that was read; the request it refuses stays in file.
ParseError(h) ==
    [Reset(h) EXCEPT !.in = <<>>, !.write = "error", !.file = h.file]

\* Mutant: the request stays in inBuffer_.
ParseAgain(h) ==
    [h EXCEPT !.pos = 0, !.state = "request", !.kept = FALSE,
              !.write = "success", !.keepAlive = @ \/ h.kept]

\* parseSuccess, at the blank line.  keepAlive_ is only ever set.
ParseSuccess(h) ==
    [h EXCEPT !.in = SubSeq(@, h.pos + 2, Len(@)), !.pos = 0, !.state = "request",
              !.kept = FALSE, !.write = "success", !.keepAlive = @ \/ h.kept]

\* One turn of the loop in handleRead, while inBuffer_ holds a line.
Turn(h) ==
    IF h.pos >= Len(h.in) THEN h
    ELSE CASE h.state = "request" -> ParseRequest(h, h.in[h.pos + 1])
           [] h.state = "header"  -> ParseHeader(h, h.in[h.pos + 1])
           [] h.state = "success" -> ParseSuccess(h)
           [] h.state = "error"   -> ParseError(h)

\* No line takes more than two of them.
Parse(h, lines) ==
    LET read == [h EXCEPT !.in = @ \o lines]
    IN  FoldLeft(LAMBDA g, i : Turn(g), read, [i \in 1 .. 2 * Len(read.in) |-> i])

\* The client is gone: what was read stays, and is not parsed.
ReadInVain(h, lines) == Reset([h EXCEPT !.in = @ \o lines])

\* handleRead on what readn took from the socket.
HttpRead(c, lines, closed) ==
    /\ http' = [http EXCEPT ![c] =
                    IF closed THEN ReadInVain(@, lines) ELSE Parse(@, lines)]
    /\ UNCHANGED answers

\* Whether a handler has turned the channel to EPOLLOUT for an answer.
ToWrite(c) == http[c].write # "none"

-----------------------------------------------------------------------------
\* writen sends all of the answers, or stops before the end of one of them.
Sent(pieces) ==
    {pieces} \cup {Append(SubSeq(pieces, 1, k), 0) : k \in 0 .. Len(pieces) - 1}

Receives(c, sent) ==
    answers' = IF c \in Patient THEN [answers EXCEPT ![c] = @ \o sent] ELSE answers

\* handleSuccess clears outBuffer_, and leaves there what writen did not send.
HandleSuccess(c) ==
    LET h == http[c]
        done == [Reset(h) EXCEPT !.write = "none"]
    IN  /\ h.write = "success"
        /\ \/ /\ h.method = "get"
              /\ \E sent \in Sent(<<h.file>>) :
                     /\ Receives(c, sent)
                     /\ http' = [http EXCEPT ![c] =
                            [done EXCEPT !.out = IF sent = <<h.file>> THEN 0 ELSE h.file]]
           \/ /\ h.method = "post"
              /\ http' = [http EXCEPT ![c] = [done EXCEPT !.out = 0]]
              /\ UNCHANGED answers

\* handleError sends what is left there first, and clears it then.  It does
\* not reset, but parseError has.
HandleError(c) ==
    LET h == http[c]
        pieces == IF h.out = 0 THEN <<h.file>> ELSE <<-h.out, h.file>>
    IN  /\ h.write = "error"
        /\ \E sent \in Sent(pieces) : Receives(c, sent)
        /\ http' = [http EXCEPT ![c] = [h EXCEPT !.write = "none", !.file = 0, !.out = 0]]
=============================================================================
