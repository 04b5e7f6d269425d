------------------------------ MODULE WebBench ------------------------------
(***************************************************************************)
(* The load generator.  The parent builds one request from the command     *)
(* line, forks a child per client, and adds up the lines they write into   *)
(* the pipe, whose writing end it keeps open itself.  A child sends the    *)
(* request again and again until its alarm has rung.                       *)
(*                                                                         *)
(* A child's step is one system call and the code before it.  The alarm    *)
(* rings once, at any point; only a call it finds the child in is          *)
(* interrupted.  A read is apart from the code before it, in which the     *)
(* flag is tested.  Whether the server answers, or is there, is left open. *)
(***************************************************************************)
EXTENDS Integers, SequencesExt, FiniteSetsExt

CONSTANTS
    Lines,      \* command lines: [flags, url, count]
    MaxClients, \* bounds of the model: no line asks for more clients,
    MaxRounds,  \* requests of one child,
    MaxLost     \* and calls that fail, but for those that can only fail

ASSUME BenchAssumption ==
    /\ MaxClients \in Nat \ {0} /\ MaxRounds \in Nat /\ MaxLost \in Nat
    /\ \A l \in Lines : l.count \in Int /\ l.count <= MaxClients

Clients == 1..MaxClients

VARIABLES
    opt,        \* the globals ParseArg and BuildRequest set
    request,    \* request_buf: its lines
    parent,     \* "probe", "fork", "read", "done", "failed", or "child"
    forked,     \* proc_count
    clients_num,
    total,      \* success_count and failed_count of the parent
    pipe,       \* pipeline
    child       \* a record for each child

benchVars == <<opt, request, parent, forked, clients_num, total, pipe, child>>

-----------------------------------------------------------------------------
(* ParseArg and BuildRequest.                                              *)

LastOf(flags, names, default) ==
    LET given == SelectSeq(flags, LAMBDA f : f \in names)
    IN  IF given = <<>> THEN default ELSE Last(given)

Has(line, flag) == flag \in Range(line.flags)

\* A number of clients that is zero, or no number, is one; less is not noticed.
Count(line) == IF line.count = 0 THEN 1 ELSE line.count

\* "f" force, "r" reload, "9" "1" "2" the version, "k" keep_alive, "p" a proxy; "long" is
\* an option with a flag: --force, --reload, --keep_alive, or one of the methods.
ParseArg(line) ==
    [force   |-> Has(line, "f"),
     reload  |-> Has(line, "r"),
     keep    |-> Has(line, "k"),
     proxy   |-> Has(line, "p"),
     version |-> CASE LastOf(line.flags, {"9", "1", "2"}, "2") = "9" -> 0
                   [] LastOf(line.flags, {"9", "1", "2"}, "2") = "1" -> 1
                   [] OTHER -> 2]

\* A reload through a proxy takes a later version.
Version(o) == IF o.version < 1 /\ o.reload /\ o.proxy THEN 1 ELSE o.version

\* What does not end the program.  The URL is "ok", or of a kind that a proxy may take.
\* An option with a flag makes getopt_long return 0, which no case of the switch has:
\* the method is never another than GET.
Acceptable(line) ==
    /\ ~Has(line, "long")
    /\ \/ line.url = "ok"
       \/ line.url = "https" /\ Has(line, "p")

Lines_(cond, line) == IF cond THEN <<line>> ELSE <<>>

Request(o) ==
    <<"GET">>
    \o Lines_(o.version > 0, "User-Agent")
    \o Lines_(~o.proxy /\ o.version > 0, "Host")
    \o Lines_(o.reload /\ o.proxy, "Pragma")
    \o Lines_(o.version > 1, IF o.keep THEN "keep-alive" ELSE "close")
    \o Lines_(o.version > 0, "")

BuildRequest(o) == [o EXCEPT !.version = Version(o)]

NewChild ==
    [pc |-> "none", open |-> FALSE, shut |-> FALSE, success |-> 0, failed |-> 0,
     expired |-> FALSE, hit |-> FALSE, rounds |-> 0, answered |-> 0, closed |-> 0, lost |-> 0]

BenchInit ==
    \E line \in Lines :
        /\ Acceptable(line)
        /\ opt = BuildRequest(ParseArg(line))
        /\ request = Request(opt)
        /\ clients_num = Count(line)
        /\ parent = "probe"
        /\ forked = 0
        /\ total = [success |-> 0, failed |-> 0]
        /\ pipe = <<>>
        /\ child = [c \in Clients |-> NewChild]

Child ==
    [pc : {"none", "asleep", "loop", "connect", "reconnect", "write", "shutdown", "check",
           "toread", "reading", "close", "report", "ended", "gone"},
     open : BOOLEAN, shut : BOOLEAN, expired : BOOLEAN, hit : BOOLEAN,
     success : Nat, failed : Nat, rounds : Nat, answered : Nat, closed : Nat, lost : Nat]

BenchTypeOK ==
    /\ parent \in {"probe", "fork", "read", "done", "failed", "child"}
    /\ forked \in 0..MaxClients /\ clients_num \in Int /\ clients_num <= MaxClients
    /\ {opt.force, opt.keep} \subseteq BOOLEAN
    /\ total \in [success : Nat, failed : Nat]
    /\ pipe \in Seq([success : Nat, failed : Nat])
    /\ child \in [Clients -> Child]

-----------------------------------------------------------------------------
(* A child: Worker.                                                        *)

ParentSame == UNCHANGED <<opt, request, parent, forked, clients_num, total>>

At(c, pc) == child[c].pc = pc /\ ParentSame

Local == UNCHANGED pipe

\* A call fails: because the alarm rang during it, or for a reason of its own.
Fails(c) == child[c].hit \/ child[c].lost < MaxLost

Failed(c, next) ==
    [child[c] EXCEPT !.pc = next, !.hit = FALSE, !.open = FALSE, !.shut = FALSE,
                     !.failed = @ + 1, !.lost = IF child[c].hit THEN @ ELSE @ + 1]

Goes(c, next) == [child[c] EXCEPT !.pc = next, !.hit = FALSE]

Become(c, r) == child' = [child EXCEPT ![c] = r]

\* The second after the fork, sigaction and alarm.
Start(c) ==
    /\ At(c, "asleep") /\ Local
    /\ \/ Become(c, Goes(c, IF opt.keep THEN "reconnect" ELSE "loop"))
       \/ Become(c, Goes(c, "gone"))

\* Mutant: the failure of the call that the alarm interrupted is counted.
EndCounted(c) == [child[c] EXCEPT !.pc = "report"]

\* One failure is taken back, whether the alarm caused it or not.
End(c) ==
    [child[c] EXCEPT !.pc = "report", !.failed = IF @ > 0 THEN @ - 1 ELSE @]

Loop(c) ==
    /\ At(c, "loop") /\ Local
    /\ \/ child[c].expired /\ Become(c, End(c))
       \/ /\ ~child[c].expired /\ child[c].rounds < MaxRounds
          /\ Become(c, [Goes(c, IF opt.keep THEN "write" ELSE "connect")
                           EXCEPT !.rounds = @ + 1])

\* A child connects to host, proxy or not, which is empty if there is one: no name.
Connect(c) ==
    /\ At(c, "connect") /\ Local
    /\ \/ ~opt.proxy /\ Become(c, [Goes(c, "write") EXCEPT !.open = TRUE])
       \/ (Fails(c) \/ opt.proxy) /\ Become(c, Failed(c, "loop"))

\* With keep_alive it tries until it has a connection, whatever the alarm says.
Reconnect(c) ==
    /\ At(c, "reconnect") /\ Local
    /\ \/ ~opt.proxy /\ Become(c, [Goes(c, "loop") EXCEPT !.open = TRUE])
       \/ Become(c, Goes(c, "reconnect"))

AfterWrite(c) ==
    IF ~opt.keep /\ opt.version = 0 THEN "shutdown"
    ELSE IF opt.force THEN "close" ELSE "check"

\* A write on the socket a failed read has closed fails; one on a connection the
\* server has closed may end the process (SIGPIPE).
Write(c) ==
    /\ At(c, "write") /\ Local
    /\ \/ child[c].open /\ Become(c, Goes(c, AfterWrite(c)))
       \/ child[c].open /\ Become(c, Goes(c, "gone"))
       \/ /\ Fails(c) \/ ~child[c].open
          /\ Become(c, Failed(c, IF opt.keep THEN "reconnect" ELSE "loop"))

Shutdown(c) ==
    /\ At(c, "shutdown") /\ Local
    /\ \/ Become(c, [Goes(c, IF opt.force THEN "close" ELSE "check") EXCEPT !.shut = TRUE])
       \/ Fails(c) /\ Become(c, Failed(c, "loop"))

\* The flag is read before the call is made: an alarm between the two ends nothing.
Check(c) ==
    /\ At(c, "check") /\ Local
    /\ Become(c, Goes(c, IF child[c].expired THEN "close" ELSE "toread"))

BeginRead(c) == At(c, "toread") /\ Local /\ Become(c, Goes(c, "reading"))

\* One read, of an answer or its beginning, or of none: the server has closed the
\* connection.
Read(c) ==
    /\ At(c, "reading") /\ Local
    /\ \/ Become(c, [Goes(c, "close") EXCEPT !.answered = @ + 1])
       \/ Become(c, [Goes(c, "close") EXCEPT !.closed = @ + 1])
       \/ Fails(c) /\ Become(c, Failed(c, "loop"))

\* The end of a round; a kept connection is not closed.
Close(c) ==
    /\ At(c, "close") /\ Local
    /\ \/ Become(c, [Goes(c, "loop") EXCEPT !.success = @ + 1, !.open = opt.keep,
                                            !.shut = FALSE])
       \/ ~opt.keep /\ child[c].lost < MaxLost /\ Become(c, Failed(c, "loop"))

ReportLine(c) ==
    Append(pipe, [success |-> child[c].success, failed |-> child[c].failed])

Report(c) ==
    /\ At(c, "report")
    /\ \/ Become(c, Goes(c, "ended")) /\ pipe' = ReportLine(c)
       \/ Become(c, Goes(c, "gone")) /\ Local

\* The calls the alarm interrupts.
Calls == {"connect", "reconnect", "write", "reading"}

\* Mutant: the handler is installed with SA_RESTART.
MeetsRestarted(pc) == IF pc \in Calls \ {"reading"} THEN BOOLEAN ELSE {FALSE}

\* The alarm meets the read a child is in; another call, or the code before it.
Meets(pc) ==
    IF pc = "reading" THEN {TRUE} ELSE IF pc \in Calls THEN BOOLEAN ELSE {FALSE}

AlarmHandler(c) ==
    /\ child[c].pc \notin {"none", "asleep", "ended", "gone"} /\ ~child[c].expired
    /\ \E met \in Meets(child[c].pc) :
          Become(c, [child[c] EXCEPT !.expired = TRUE, !.hit = met])
    /\ ParentSame /\ Local

ChildStep(c) ==
    \/ Start(c) \/ Loop(c) \/ Connect(c) \/ Reconnect(c) \/ Write(c) \/ Shutdown(c)
    \/ Check(c) \/ BeginRead(c) \/ Close(c) \/ Report(c)

-----------------------------------------------------------------------------
(* The parent: WebBench.                                                   *)

Probe ==
    /\ parent = "probe"
    /\ parent' \in {"fork", "failed"}
    /\ UNCHANGED <<opt, request, forked, clients_num, total, pipe, child>>

\* With less than no clients nothing is forked, and pid is 0 as in a child.
Fork ==
    /\ parent = "fork"
    /\ \/ /\ forked < clients_num
          /\ forked' = forked + 1
          /\ child' = [child EXCEPT ![forked + 1].pc = "asleep"]
          /\ parent' = parent
       \/ /\ forked < clients_num
          /\ parent' = "failed"
          /\ UNCHANGED <<forked, child>>
       \/ /\ forked = clients_num
          /\ parent' \in {"read", "failed"}
          /\ UNCHANGED <<forked, child>>
       \/ /\ clients_num < 0
          /\ parent' = "child"
          /\ child' = [child EXCEPT ![1].pc = "asleep"]
          /\ UNCHANGED forked
    /\ UNCHANGED <<opt, request, clients_num, total, pipe>>

\* fscanf: it waits while the pipe is empty, for a writing end is always open.
ReadLine ==
    /\ parent = "read" /\ pipe # <<>>
    /\ total' = [success |-> total.success + Head(pipe).success,
                 failed  |-> total.failed + Head(pipe).failed]
    /\ pipe' = Tail(pipe)
    /\ clients_num' = clients_num - 1
    /\ parent' = IF clients_num' = 0 THEN "done" ELSE "read"
    /\ UNCHANGED <<opt, request, forked, child>>

BenchNext ==
    \/ Probe \/ Fork \/ ReadLine
    \/ \E c \in Clients : ChildStep(c) \/ Read(c) \/ AlarmHandler(c)

\* Every process runs, every alarm rings, and ends the read it meets.  Nothing else
\* says that a read returns: the server may never answer.
BenchFairness ==
    /\ WF_benchVars(Probe) /\ WF_benchVars(Fork) /\ WF_benchVars(ReadLine)
    /\ \A c \in Clients :
          /\ WF_benchVars(ChildStep(c)) /\ WF_benchVars(AlarmHandler(c))
          /\ WF_benchVars(child[c].hit /\ Read(c))

BenchSpec == BenchInit /\ [][BenchNext]_benchVars /\ BenchFairness

-----------------------------------------------------------------------------
\* The totals the parent prints.  A success is a read that returned, with bytes or
\* because the server had closed the connection without any, and there is at most one
\* more for each client: the read its alarm forestalled.  No read that returned is
\* missing but where the socket could not be closed.  The failures are the calls that
\* failed of themselves, less at most one for each client, which is taken back whether
\* the alarm caused it or not (Worker, WebBench).
TotalsAreReal ==
    parent = "done" =>
        LET lost == SumFunction([c \in Clients |-> child[c].lost])
            returned == SumFunction([c \in Clients |-> child[c].answered + child[c].closed])
        IN  /\ ~opt.force => /\ total.success <= returned + forked
                             /\ returned <= total.success + lost
            /\ lost - forked <= total.failed /\ total.failed <= lost

\* The parent ends, unless a child goes without writing its line, reconnects for
\* ever, or begins a read after its alarm has rung, which waits for the server as
\* long as it likes (Worker, WebBench).
ParentEnds ==
    \/ <>(parent \in {"done", "failed", "child"})
    \/ \E c \in Clients :
          \/ <>(child[c].pc = "gone")
          \/ []<>(child[c].pc = "reconnect")
          \/ /\ <>(child[c].pc = "toread" /\ child[c].expired)
             /\ <>[](child[c].pc = "reading")
=============================================================================
