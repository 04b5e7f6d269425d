----------------------------- MODULE HttpParser -----------------------------
(***************************************************************************)
(* How HttpConnection::HandleRead turns the bytes it reads into requests   *)
(* and answers: ParseRequestLine, ParseRequestHeader, the body of a POST,  *)
(* BuildResponse and the call of itself for what is left in read_buffer_.  *)
(* HttpConnection.tla has the life of the connection around it.            *)
(*                                                                         *)
(* The peer sends well-formed requests only.  Each read returns any number *)
(* of the characters not read yet: the network splits and joins them.  A   *)
(* word the parser takes as a whole (a method, a file name, a version) is  *)
(* one character.  C++ indexes from 0: the characters of a range [from,    *)
(* to) are read where they are, and UNDEF is what lies before the buffer.  *)
(***************************************************************************)
EXTENDS Integers, SequencesExt, TLC

CONSTANTS
    Requests,       \* what a peer may send: [method, headers, body]
    MaxRequests,    \* bound of the model
    MaxValue        \* ParseRequestHeader's limit of a value, 255

Methods == {"GET", "POST", "HEAD"}

ASSUME ParserAssumption ==
    /\ MaxRequests \in Nat \ {0} /\ MaxValue \in Nat
    /\ \A r \in Requests : r.method \in Methods

VARIABLES
    requests,           \* what the peer sends, fixed from the start
    sent,               \* how many of its characters were read
    read_buffer, process_state, parse_state, method, request_headers,
    is_keep_alive, is_error,
    again,              \* HandleRead is about to call itself
    seen,               \* history: the requests BuildResponse was given
    answers,            \* history: their status, or that of the error
    whole               \* history: each read was WholeRead

peer == <<requests, sent, whole>>
vars == <<peer, read_buffer, process_state, parse_state, method,
          request_headers, is_keep_alive, is_error, again, seen, answers>>

-----------------------------------------------------------------------------
(* What the peer sends.                                                    *)

Line(r) == <<r.method, "/file", " ", "HTTP/1.1", "\r", "\n">>

Header(h) == h.key \o <<":", " ">> \o h.value \o <<"\r", "\n">>

HeadOf(r) == Line(r) \o FlattenSeq([i \in DOMAIN r.headers |-> Header(r.headers[i])])
              \o <<"\r", "\n">>

Text(r) == HeadOf(r) \o r.body

Stream == FlattenSeq([i \in DOMAIN requests |-> Text(requests[i])])

\* Where the i-th request begins.
Begins(i) == Len(FlattenSeq([j \in 1 .. i - 1 |-> Text(requests[j])]))

EndsOfHeaders == {Begins(i) + Len(HeadOf(requests[i])) : i \in DOMAIN requests}

\* The ends of a request, of its headers, and both sides of the line feed of its
\* request line.
Boundaries ==
    EndsOfHeaders \cup {Len(Stream)}
        \cup UNION {{Begins(i), Begins(i) + 5, Begins(i) + 6} : i \in DOMAIN requests}

\* A read that ends at such a boundary and does not go past the end of headers.
WholeRead(n) ==
    /\ sent + n \in Boundaries
    /\ \A e \in EndsOfHeaders : ~(sent < e /\ e < sent + n)

-----------------------------------------------------------------------------
(* The request line.                                                       *)

\* The words of a request line, in their order.
HasWords(line, m) ==
    \E a, b, c, d \in DOMAIN line :
        /\ a < b /\ b < c /\ c < d
        /\ line[a] = m /\ line[b] = "/file" /\ line[c] = " " /\ line[d] = "HTTP/1.1"

\* The method the line is searched for first, of those it has.
MethodIn(line) ==
    IF Contains(line, "GET") THEN "GET"
    ELSE IF Contains(line, "POST") THEN "POST" ELSE "HEAD"

\* find('\r') yields a size_t, which is never negative: without a carriage return
\* the line is the whole buffer, and the buffer keeps it.
ParseRequestLine(buffer) ==
    LET end  == SelectInSeq(buffer, LAMBDA c : c = "\r")
        line == IF end = 0 THEN buffer ELSE SubSeq(buffer, 1, end - 1)
    IN  [ok     |-> HasWords(line, MethodIn(line)),
         method |-> MethodIn(line),
         rest   |-> SubSeq(buffer, end + 1, Len(buffer))]

-----------------------------------------------------------------------------
(* The headers: one pass over the buffer.  The scan is a record of the     *)
(* parse state, the local variables and the headers found.                 *)

UNDEF == "undef"

Range0(buffer, from, to) ==
    IF from >= 0 THEN SubSeq(buffer, from + 1, to)
    ELSE IF to = from THEN <<>> ELSE <<UNDEF>> \o SubSeq(buffer, 1, to)

Put(f, k, v) == [x \in DOMAIN f \cup {k} |-> IF x = k THEN v ELSE f[x]]

To(s, state) == [s EXCEPT !.state = state]
Wrong(s) == [s EXCEPT !.error = TRUE]

\* The character at i, in the state the scan is in.
Character(s, buffer, i) ==
    LET c == buffer[i + 1] IN
    CASE s.state = "START" ->
            IF c \in {"\r", "\n"} THEN s
            ELSE [To(s, "KEY") EXCEPT !.key_start = i, !.begin = i]
      [] s.state = "KEY" ->
            IF c = ":" /\ i > s.key_start THEN [To(s, "COLON") EXCEPT !.key_end = i]
            ELSE IF c \in {":", "\r", "\n"} THEN Wrong(s) ELSE s
      [] s.state = "COLON" ->
            IF c = " " THEN To(s, "SPACES_AFTER_COLON") ELSE Wrong(s)
      [] s.state = "SPACES_AFTER_COLON" -> [To(s, "VALUE") EXCEPT !.value_start = i]
      [] s.state = "VALUE" ->
            IF c = "\r" /\ i > s.value_start THEN [To(s, "CR") EXCEPT !.value_end = i]
            ELSE IF c = "\r" \/ i - s.value_start > MaxValue THEN Wrong(s) ELSE s
      [] s.state = "CR" ->
            IF c # "\n" THEN Wrong(s)
            ELSE [To(s, "LF") EXCEPT
                    !.begin = i,
                    !.headers = Put(@, Range0(buffer, s.key_start, s.key_end),
                                       Range0(buffer, s.value_start, s.value_end))]
      [] s.state = "LF" ->
            IF c = "\r" THEN To(s, "END_CR") ELSE [To(s, "KEY") EXCEPT !.key_start = i]
      [] s.state = "END_CR" -> IF c = "\n" THEN To(s, "END_LF") ELSE Wrong(s)
      [] s.state = "END_LF" -> [s EXCEPT !.finish = TRUE, !.begin = i]

\* The locals start anew at each call; the parse state is the connection's.
Scan(buffer) ==
    LET start == [state |-> parse_state, headers |-> request_headers,
                  key_start |-> -1, key_end |-> -1, value_start |-> -1, value_end |-> -1,
                  begin |-> 0, next |-> 0, finish |-> FALSE, error |-> FALSE]
        Step(s, j) == IF s.finish \/ s.error THEN s
                      ELSE [Character(s, buffer, j - 1) EXCEPT !.next = j]
    IN  FoldLeftDomain(Step, start, buffer)

Outcome(buffer, s, done) ==
    [result  |-> IF s.error THEN "error" ELSE IF done THEN "success" ELSE "again",
     rest    |-> IF s.error THEN buffer
                 ELSE SubSeq(buffer, (IF done THEN s.next ELSE s.begin) + 1, Len(buffer)),
     state   |-> s.state,
     headers |-> s.headers]

\* Mutant: the headers are done at the end of any of their lines.
HeadersLine(buffer) ==
    LET s == Scan(buffer) IN Outcome(buffer, s, s.state \in {"LF", "END_LF"})

\* The end of the headers is seen one character late, which is then skipped; headers
\* that are not complete are kept from the line the scan was in.
ParseRequestHeader(buffer) ==
    LET s == Scan(buffer) IN Outcome(buffer, s, s.state = "END_LF")

-----------------------------------------------------------------------------
(* HandleRead after a read of n characters, stage by stage: the stages a   *)
(* connection is past are left out.                                        *)

Init ==
    /\ requests \in BoundedSeq(Requests, MaxRequests)
    /\ sent = 0
    /\ read_buffer = <<>>
    /\ process_state = "PARSE_LINE" /\ parse_state = "START"
    /\ method = "GET" /\ request_headers = <<>>
    /\ is_keep_alive = FALSE /\ is_error = FALSE
    /\ again = FALSE
    /\ seen = <<>> /\ answers = <<>>
    /\ whole = TRUE

Received(n) == read_buffer \o SubSeq(Stream, sent + 1, sent + n)

LineStage(buffer) ==
    IF process_state = "PARSE_LINE" THEN ParseRequestLine(buffer)
    ELSE [ok |-> TRUE, method |-> method, rest |-> buffer]

HeaderStage(buffer) ==
    IF process_state = "RECV_BODY"
    THEN [result |-> "success", rest |-> buffer,
          state |-> parse_state, headers |-> request_headers]
    ELSE ParseRequestHeader(buffer)

Read(n) ==
    /\ sent' = sent + n
    /\ whole' = (whole /\ (n = 0 \/ WholeRead(n)))
    /\ UNCHANGED requests

Error(status) ==
    /\ is_error' = TRUE
    /\ again' = FALSE
    /\ answers' = Append(answers, status)

BadLine(l) ==
    /\ ~l.ok
    /\ read_buffer' = <<>>
    /\ Error(400)
    /\ UNCHANGED <<process_state, parse_state, method, request_headers, is_keep_alive, seen>>

\* What line stage l and header stage h leave behind when HandleRead stops in a state.
Stop(l, h, state) ==
    /\ read_buffer' = h.rest
    /\ process_state' = state
    /\ parse_state' = h.state
    /\ method' = l.method
    /\ request_headers' = h.headers

Wait(l, h, state) ==
    /\ Stop(l, h, state)
    /\ again' = FALSE
    /\ UNCHANGED <<is_keep_alive, is_error, seen, answers>>

BadHeaders(l, h) ==
    /\ h.result = "error"
    /\ Stop(l, h, "PARSE_HEADERS")
    /\ Error(400)
    /\ UNCHANGED <<is_keep_alive, seen>>

MoreHeaders(l, h) ==
    /\ h.result = "again"
    /\ Wait(l, h, "PARSE_HEADERS")

LengthGiven(h) == <<"Content-length">> \in DOMAIN h.headers

\* stoi of the Content-length a well-formed request has.
ContentLength(h) == CHOOSE i \in 0 .. 9 : h.headers[<<"Content-length">>] = <<ToString(i)>>

LacksLength(l, h) ==
    /\ h.result = "success" /\ l.method = "POST" /\ ~LengthGiven(h)
    /\ Stop(l, h, "RECV_BODY")
    /\ Error(400)
    /\ UNCHANGED <<is_keep_alive, seen>>

MoreBody(l, h) ==
    /\ h.result = "success" /\ l.method = "POST" /\ LengthGiven(h)
    /\ Len(h.rest) < ContentLength(h)
    /\ Wait(l, h, "RECV_BODY")

\* BuildResponse is called.
Built(l, h) ==
    /\ h.result = "success"
    /\ l.method = "POST" => LengthGiven(h) /\ Len(h.rest) >= ContentLength(h)
    /\ seen' = Append(seen, [method |-> l.method, headers |-> h.headers])

\* It answers every POST with 500.
Posted(l, h) ==
    /\ l.method = "POST"
    /\ Built(l, h)
    /\ Stop(l, h, "RESPONSE")
    /\ Error(500)
    /\ UNCHANGED is_keep_alive

AsksKeepAlive(h) ==
    <<"Connection">> \in DOMAIN h.headers /\ h.headers[<<"Connection">>] = <<"keep", "-alive">>

\* The file is not there, or not for this server to read.
Refused(l, h) ==
    /\ l.method # "POST"
    /\ Built(l, h)
    /\ Stop(l, h, "RESPONSE")
    /\ is_keep_alive' = (is_keep_alive \/ AsksKeepAlive(h))
    /\ \E status \in {403, 404} : Error(status)

\* Mutant: the headers stay.
ResetNoHeaders(h) ==
    process_state' = "PARSE_LINE" /\ parse_state' = "START" /\ request_headers' = h.headers

\* After a request whose headers are h: nothing of it stays.
Reset(h) ==
    process_state' = "PARSE_LINE" /\ parse_state' = "START" /\ request_headers' = <<>>

Answered(l, h) ==
    /\ l.method # "POST"
    /\ Built(l, h)
    /\ Reset(h)
    /\ read_buffer' = h.rest
    /\ method' = l.method
    /\ is_keep_alive' = (is_keep_alive \/ AsksKeepAlive(h))
    /\ answers' = Append(answers, 200)
    /\ again' = (h.rest # <<>>)
    /\ UNCHANGED is_error

\* One call: of an event, with something to read, or of itself.
HandleRead(n) ==
    /\ ~is_error
    /\ n > 0 \/ again
    /\ Read(n)
    /\ \E l \in {LineStage(Received(n))} :
          \/ BadLine(l)
          \/ /\ l.ok
             /\ \E h \in {HeaderStage(l.rest)} :
                   \/ BadHeaders(l, h) \/ MoreHeaders(l, h)
                   \/ LacksLength(l, h) \/ MoreBody(l, h)
                   \/ Posted(l, h) \/ Refused(l, h) \/ Answered(l, h)

Next == \E n \in 0 .. Len(Stream) - sent : HandleRead(n)

Spec == Init /\ [][Next]_vars

-----------------------------------------------------------------------------
TypeOK ==
    /\ sent \in 0 .. Len(Stream)
    /\ process_state \in {"PARSE_LINE", "PARSE_HEADERS", "RECV_BODY", "RESPONSE"}
    /\ parse_state \in {"START", "KEY", "COLON", "SPACES_AFTER_COLON", "VALUE", "CR",
                        "LF", "END_CR", "END_LF"}
    /\ process_state = "PARSE_LINE" => parse_state = "START" /\ request_headers = <<>>
    /\ method \in Methods
    /\ read_buffer \in Seq(Range(Stream))
    /\ {is_keep_alive, is_error, again, whole} \subseteq BOOLEAN
    /\ again => process_state = "PARSE_LINE" /\ read_buffer # <<>>
    /\ Len(seen) \in 0 .. Len(answers)

HeadersOf(r) ==
    [k \in {r.headers[i].key : i \in DOMAIN r.headers} |->
        (CHOOSE h \in Range(r.headers) : h.key = k).value]

Asked(i) == [method |-> requests[i].method, headers |-> HeadersOf(requests[i])]

\* While no read splits the headers or goes past their end, BuildResponse is given
\* the requests the peer sent, in order and each with its own headers, and none gets a
\* 400; when the last one is there, all have been answered.
WholeReadsUnderstood ==
    whole =>
        /\ \A i \in DOMAIN seen : i <= Len(requests) /\ seen[i] = Asked(i)
        /\ 400 \notin Range(answers)
        /\ sent = Len(Stream) /\ ~is_error => Len(answers) = Len(requests)

\* However the stream is split, a request is built only when the end of its headers
\* was read: nothing left over by an earlier one passes for a request.
BuiltWhenSent ==
    \A i \in DOMAIN seen :
        i <= Len(requests) /\ Begins(i) + Len(HeadOf(requests[i])) <= sent

=============================================================================
