---------------------------- MODULE AsyncLogging ----------------------------
(***************************************************************************)
(* log::AsyncLogging: the double-buffered log.  Threads append records to  *)
(* current_buffer_ under mutex_; a worker thread takes the filled buffers  *)
(* and the current one, appends them to the file with the mutex free, and  *)
(* keeps two of them as the spare buffers of its next round.               *)
(*                                                                         *)
(* Records are the lines of LogLine, numbered in the order in which they   *)
(* are accepted.  Buffers are identities, because what could go wrong is   *)
(* two holders filling and writing the same one.  The log file is a stdio  *)
(* stream: what is written to it is on disk once it is flushed.            *)
(*                                                                         *)
(* The worker waits for the condition with a timeout and goes on whatever  *)
(* woke it, so the wait is only a delay before TakeBuffers.                *)
(***************************************************************************)
EXTENDS LogLine

CONSTANTS
    Writers,        \* the threads that log
    Buffers,        \* the heap's Buffer objects
    FirstBuffers,   \* the four made by the constructor and by Worker()
    NULL,           \* an empty shared_ptr
    Capacity,       \* kLargeBufferSize
    MaxBatch,       \* 25: a longer batch is cut ...
    KeptOfBatch,    \* 2: ... to its first two buffers
    FlushEvery,     \* flush_every_n_ of the log file
    DiskFull,       \* the file system may refuse some of a buffer
    Statements,     \* the LOG statements of the program, by name
    Offered         \* bound of the model: which may give each of the records

ASSUME LogAssumption ==
    /\ NULL \notin Buffers
    /\ NULL \notin Writers
    /\ FirstBuffers \in Injection(1..4, Buffers)
    /\ Capacity \in Nat /\ LineSize <= Capacity /\ FlushEvery \in Nat \ {0}
    /\ MaxBatch \in Nat /\ KeptOfBatch \in Nat
    /\ 2 <= KeptOfBatch /\ KeptOfBatch <= MaxBatch
    /\ DiskFull \in BOOLEAN
    /\ Offered \in Seq(SUBSET DOMAIN Statements)
    /\ \A s \in DOMAIN Statements :
          /\ Statements[s].pieces \in Seq(Piece)
          /\ Number(Statements[s].line) \in Piece

Lines == [s \in DOMAIN Statements |-> LineOf(Statements[s])]

VARIABLES
    current,        \* current_buffer_
    next,           \* next_buffer_
    full,           \* buffers_
    spare1,         \* new_buffer1 of the worker
    spare2,         \* new_buffer2
    taken,          \* buffers, the worker's local vector
    written,        \* how many of them are in the file
    content,        \* the records in each buffer
    file,           \* history: the records written to the file
    flushed,        \* how many of them have been flushed to the disk
    count,          \* count_: writes to the file since it flushed itself
    records,        \* history: the statements of the records accepted
    dropped,        \* history: the records cut from a batch, or refused
    wpc,            \* where Worker() is
    isRunning,      \* is_running_
    holder,         \* who holds mutex_ between two steps
    jpc             \* per thread: "idle", "join" inside Stop(), "joined"

frontVars == <<current, next, full>>
backVars  == <<spare1, spare2, taken, written>>
histVars  == <<records, dropped, file, flushed, count>>
stopVars  == <<isRunning, holder, jpc>>
vars      == <<current, next, full, spare1, spare2, taken, written, content,
               records, dropped, file, flushed, count, isRunning, holder, jpc, wpc>>

WorkerPhases == {"test", "lock", "cut", "write", "refill", "clear", "done"}

TypeOK ==
    /\ current \in Buffers
    /\ next \in Buffers \cup {NULL}
    /\ full \in Seq(Buffers)
    /\ spare1 \in Buffers \cup {NULL}
    /\ spare2 \in Buffers \cup {NULL}
    /\ taken \in Seq(Buffers)
    /\ written \in Nat
    /\ content \in [Buffers -> Seq(Nat)]
    /\ file \in Seq(Nat)
    /\ flushed \in Nat /\ count \in Nat
    /\ records \in Seq(DOMAIN Statements)
    /\ dropped \in SUBSET Nat
    /\ wpc \in WorkerPhases
    /\ isRunning \in BOOLEAN
    /\ holder \in Writers \cup {NULL}
    /\ jpc \in [Writers -> {"idle", "join", "joined"}]

\* After Start(): the worker has counted the latch down and made its buffers.
Init ==
    /\ current = FirstBuffers[1] /\ next = FirstBuffers[2]
    /\ spare1 = FirstBuffers[3] /\ spare2 = FirstBuffers[4]
    /\ full = <<>>
    /\ taken = <<>>
    /\ written = 0
    /\ content = [b \in Buffers |-> <<>>]
    /\ file = <<>>
    /\ flushed = 0 /\ count = 0
    /\ records = <<>>
    /\ dropped = {}
    /\ wpc = "test"
    /\ isRunning = TRUE
    /\ holder = NULL
    /\ jpc = [w \in Writers |-> "idle"]

Held == {current, next, spare1, spare2} \cup Range(full) \cup Range(taken)

-----------------------------------------------------------------------------
(* WriteLog, one critical section.                                         *)

Used(b) == FoldLeft(LAMBDA n, r : n + Lines[records[r]].size, 0, content[b])

Fits(used, s) == Capacity - used > Lines[s].size

\* FixedBuffer::write drops, in silence, what it has no room for.
Accept(b, used, s) ==
    /\ records' = Append(records, s)
    /\ content' = IF Fits(used, s)
                  THEN [content EXCEPT ![b] = Append(@, Len(records) + 1)]
                  ELSE content
    /\ UNCHANGED <<dropped, file, flushed, count>>

\* The next buffer, or a new one: which one the heap returns makes no difference.
Replacement == IF next # NULL THEN next ELSE CHOOSE b \in Buffers : b \notin Held

\* Bound of the model: the heap has a buffer left.
Replaceable == next # NULL \/ Buffers \ Held # {}

WriteToCurrent(s) ==
    /\ Fits(Used(current), s)
    /\ Accept(current, Used(current), s)
    /\ UNCHANGED frontVars

\* Mutant: a full current buffer is replaced without being kept.
WriteToNextLost(s) ==
    /\ ~Fits(Used(current), s)
    /\ Replaceable
    /\ current' = Replacement
    /\ Accept(Replacement, 0, s)
    /\ next' = NULL
    /\ UNCHANGED full

\* The current buffer is full: it is queued for the worker, and the next one,
\* or a new one, takes its place.  Both are empty.
WriteToNext(s) ==
    /\ ~Fits(Used(current), s)
    /\ full' = Append(full, current)
    /\ Replaceable
    /\ current' = Replacement
    /\ Accept(Replacement, 0, s)
    /\ next' = NULL

Running(w) == jpc[w] = "idle" /\ holder = NULL

\* ~Logging gives a line to the log if its level is logged.
Given ==
    {s \in IF Len(records) < Len(Offered) THEN Offered[Len(records) + 1] ELSE {} :
        Logged(Statements[s])}

WriteLog(w) ==
    /\ Running(w)
    /\ \E s \in Given :
          /\ ~IsFatal(Statements[s])
          /\ WriteToCurrent(s) \/ WriteToNext(s)
    /\ UNCHANGED <<backVars, stopVars, wpc>>

\* A fatal record: Stop() is called, and joins, with the mutex still held.  A
\* log that has been stopped is not given one: its thread is joined once.
WriteFatal(w) ==
    /\ Running(w)
    /\ isRunning
    /\ \E s \in Given :
          /\ IsFatal(Statements[s])
          /\ WriteToCurrent(s) \/ WriteToNext(s)
    /\ holder' = w
    /\ isRunning' = FALSE
    /\ jpc' = [jpc EXCEPT ![w] = "join"]
    /\ UNCHANGED <<backVars, wpc>>

\* Stop(), from the destructor or from outside, without the mutex.
Stop(w) ==
    /\ jpc[w] = "idle"
    /\ isRunning
    /\ isRunning' = FALSE
    /\ jpc' = [jpc EXCEPT ![w] = "join"]
    /\ UNCHANGED <<frontVars, backVars, content, histVars, holder, wpc>>

\* Thread::Join returns; after a fatal record the process aborts.
Joined(w) ==
    /\ jpc[w] = "join"
    /\ wpc = "done"
    /\ jpc' = [jpc EXCEPT ![w] = "joined"]
    /\ UNCHANGED <<frontVars, backVars, content, histVars, isRunning, holder, wpc>>

-----------------------------------------------------------------------------
(* Worker().                                                               *)

\* On its way out the worker flushes the file once more.
TestRunning ==
    /\ wpc = "test"
    /\ wpc' = IF isRunning THEN "lock" ELSE "done"
    /\ flushed' = IF isRunning THEN flushed ELSE Len(file)
    /\ UNCHANGED <<frontVars, backVars, content, records, dropped, file, count, stopVars>>

\* Mutant: the worker waits for a full buffer with no timeout.
TakeFullBuffers ==
    /\ wpc = "lock"
    /\ holder = NULL
    /\ full # <<>>
    /\ taken' = Append(full, current)
    /\ full' = <<>>
    /\ current' = spare1
    /\ spare1' = NULL
    /\ IF next = NULL
       THEN next' = spare2 /\ spare2' = NULL
       ELSE UNCHANGED <<next, spare2>>
    /\ wpc' = "cut"
    /\ UNCHANGED <<written, content, histVars, stopVars>>

TakeBuffers ==
    /\ wpc = "lock"
    /\ holder = NULL
    /\ taken' = Append(full, current)
    /\ full' = <<>>
    /\ current' = spare1
    /\ spare1' = NULL
    /\ IF next = NULL
       THEN next' = spare2 /\ spare2' = NULL
       ELSE UNCHANGED <<next, spare2>>
    /\ wpc' = "cut"
    /\ UNCHANGED <<written, content, histVars, stopVars>>

Emptied(bs) == [b \in Buffers |-> IF b \in Range(bs) THEN <<>> ELSE content[b]]

Cut(kept) ==
    LET lost == SubSeq(taken, kept + 1, Len(taken))
    IN  /\ taken' = SubSeq(taken, 1, kept)
        /\ dropped' = dropped \cup UNION {Range(content[b]) : b \in Range(lost)}
        /\ content' = Emptied(lost)

\* Mutant: one buffer too few is kept.
CutBatchShort ==
    /\ wpc = "cut"
    /\ IF Len(taken) > MaxBatch
       THEN Cut(KeptOfBatch - 1)
       ELSE UNCHANGED <<taken, dropped, content>>
    /\ wpc' = "write"
    /\ UNCHANGED <<frontVars, spare1, spare2, written, records, file, flushed, count, stopVars>>

\* The worker has fallen behind: what comes after the first buffers is lost.
CutBatch ==
    /\ wpc = "cut"
    /\ IF Len(taken) > MaxBatch
       THEN Cut(KeptOfBatch)
       ELSE UNCHANGED <<taken, dropped, content>>
    /\ wpc' = "write"
    /\ UNCHANGED <<frontVars, spare1, spare2, written, records, file, flushed, count, stopVars>>

\* LogFile::Write, then FileUtils::Write.  A write that the file system refuses
\* leaves the rest of the buffer out, and nobody is told.  Bound of the model: it
\* does so once at most, before anything else was lost.
WriteBuffer ==
    /\ wpc = "write"
    /\ written < Len(taken)
    /\ written' = written + 1
    /\ LET all == content[taken[written + 1]]
       IN  \/ file' = file \o all /\ UNCHANGED dropped
           \/ /\ DiskFull /\ dropped = {}
              /\ \E n \in 1..Len(all) :
                    /\ file' = file \o SubSeq(all, 1, n - 1)
                    /\ dropped' = Range(SubSeq(all, n, Len(all)))
    /\ IF count + 1 >= FlushEvery
       THEN count' = 0 /\ flushed' = Len(file')
       ELSE count' = count + 1 /\ UNCHANGED flushed
    /\ UNCHANGED <<frontVars, spare1, spare2, taken, content, records, stopVars, wpc>>

AllWritten ==
    /\ wpc = "write"
    /\ written = Len(taken)
    /\ wpc' = "refill"
    /\ UNCHANGED <<frontVars, backVars, content, histVars, stopVars>>

MakeSpare ==
    \/ /\ spare1 = NULL
       /\ spare1' = Last(taken)
       /\ UNCHANGED spare2
    \/ /\ spare1 # NULL /\ spare2 = NULL
       /\ spare2' = Last(taken)
       /\ UNCHANGED spare1

\* Mutant: the buffer is not popped from the batch.
RefillNoPop ==
    /\ wpc = "refill"
    /\ taken # <<>>
    /\ MakeSpare
    /\ content' = [content EXCEPT ![Last(taken)] = <<>>]
    /\ UNCHANGED <<frontVars, taken, written, histVars, stopVars, wpc>>

\* An empty spare takes the last buffer of the batch, emptied.
Refill ==
    /\ wpc = "refill"
    /\ taken # <<>>
    /\ MakeSpare
    /\ taken' = Front(taken)
    /\ content' = [content EXCEPT ![Last(taken)] = <<>>]
    /\ UNCHANGED <<frontVars, written, histVars, stopVars, wpc>>

Refilled ==
    /\ wpc = "refill"
    /\ spare1 # NULL /\ spare2 # NULL
    /\ wpc' = "clear"
    /\ UNCHANGED <<frontVars, backVars, content, histVars, stopVars>>

\* buffers.clear() frees the other buffers of the batch; the file is flushed.
ClearBatch ==
    /\ wpc = "clear"
    /\ content' = Emptied(taken)
    /\ taken' = <<>>
    /\ written' = 0
    /\ flushed' = Len(file)
    /\ wpc' = "test"
    /\ UNCHANGED <<frontVars, spare1, spare2, records, dropped, file, count, stopVars>>

WorkerStep ==
    \/ TestRunning \/ TakeBuffers \/ CutBatch \/ WriteBuffer \/ AllWritten
    \/ Refill \/ Refilled \/ ClearBatch

Next ==
    \/ WorkerStep
    \/ \E w \in Writers : WriteLog(w) \/ WriteFatal(w) \/ Stop(w) \/ Joined(w)

Spec == Init /\ [][Next]_vars

\* The worker is scheduled and its timed waits end; a joining thread sees it end.
FairSpec ==
    /\ Spec
    /\ WF_vars(WorkerStep)
    /\ \A w \in Writers : WF_vars(Joined(w))

-----------------------------------------------------------------------------
\* No Buffer has two holders: the one the writers fill, the ones queued, the
\* worker's batch and its spares are all different, so a record is never
\* overwritten nor written twice (shared_ptr copies followed by reset, move and
\* swap in WriteLog and Worker).
OneHolder ==
    /\ IsInjective(full) /\ IsInjective(taken)
    /\ Range(full) \cap Range(taken) = {}
    /\ {current, next, spare1, spare2} \cap (Range(full) \cup Range(taken)) = {}
    /\ current \notin {next, spare1, spare2}
    /\ next # NULL => next \notin {spare1, spare2}
    /\ spare1 # NULL => spare1 # spare2

\* The assertions of Worker() (async_logging.cpp 95-97, 114, 126, 133), which a
\* release build does not check: both spares are there and empty before a
\* round, and the batch is long enough to make them again after it.
AssertionsHold ==
    /\ wpc \in {"test", "lock"} =>
          /\ spare1 # NULL /\ content[spare1] = <<>>
          /\ spare2 # NULL /\ content[spare2] = <<>>
          /\ taken = <<>>
    /\ wpc \in {"cut", "write"} => taken # <<>>
    /\ wpc = "refill" /\ (spare1 = NULL \/ spare2 = NULL) => taken # <<>>

InBuffers(bs) == FlattenSeq([i \in DOMAIN bs |-> content[bs[i]]])

\* What is still to be written, in the order of its writing.
Unwritten ==
    (IF wpc \in {"cut", "write"}
     THEN InBuffers(SubSeq(taken, written + 1, Len(taken))) ELSE <<>>)
    \o InBuffers(full) \o content[current]

\* Records reach the file in the order in which they were accepted, each once,
\* and the only ones missing are those of the batches CutBatch shortened and of
\* a write that failed.
InOrderOnce ==
    LET all == file \o Unwritten
    IN  /\ \A i, j \in DOMAIN all : i < j => all[i] < all[j]
        /\ Range(all) \cup dropped = DOMAIN records
        /\ Range(all) \cap dropped = {}

OnDisk == Range(SubSeq(file, 1, flushed))

\* A record is on the disk within a round or two even if its buffer never fills,
\* unless it is lost with its batch or its write, or the log is stopped.
EventuallyWritten ==
    \A r \in DOMAIN Offered :
        (Len(records) >= r) ~> (r \in OnDisk \cup dropped \/ ~isRunning)

\* Stop() returns, and all that was written is then on the disk, when no thread is
\* stopping the log with the mutex held.
StopEnds ==
    \A w \in Writers :
        (jpc[w] = "join")
            ~> ((jpc[w] = "joined" /\ flushed = Len(file)) \/ holder # NULL)

\* What a reader makes of the digits of a number.
Reads(digits) == FoldLeft(LAMBDA n, d : 10 * n + d, 0, digits)

\* A line never runs past its buffer, and keeps everything its statement gave
\* it, the end of the line included, as long as the whole of it leaves room for
\* one more number; its numbers read back, but for their sign, as what they
\* were.  So no line of the file is glued to the next one unless the first is
\* within a number of the limit.  (LogStream, FixedBuffer::write, IntToString.)
LinesWhole ==
    \A r \in Range(file) \cup dropped :
        LET statement == Statements[records[r]]
            line      == Lines[records[r]]
            whole     == FoldLeft(LAMBDA n, p : n + p.size, 0, Pieces(statement))
        IN  /\ line.size < LineSize
            /\ whole + NumberSize <= LineSize => line.pieces = Pieces(statement)
            /\ \A i \in DOMAIN line.pieces :
                  LET p == line.pieces[i]
                  IN  p.kind = "number" =>
                        Reads(IntToString[p.value]) = Zero(p.value)
=============================================================================
