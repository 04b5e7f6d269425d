------------------------------ MODULE SkipList ------------------------------
(***************************************************************************)
(* SkipList<K, V>: insertElement and deleteElement hold the mutex mtx;     *)
(* searchElement and dumpFile walk the list without it.  So what a writer  *)
(* does to the pointers is one step per level, and what a walker does one  *)
(* step per node it looks at.  A search reads the pointer once more after  *)
(* its loop has compared it; it changes nothing a dump could see, so the   *)
(* two are not walked at once.  Dumps are: they share _fileWriter.         *)
(*                                                                         *)
(* A node is named by its key (memory may be used again for the same key): *)
(* the place of the key's text in the order of the keys.  The header is     *)
(* Header, nullptr is Null: they come before and after every key.          *)
(*                                                                         *)
(* STORE_FILE is text, a sequence of lines of characters.  _fileWriter      *)
(* keeps what it is given in a buffer, so a process that ends during a dump *)
(* leaves any beginning of it.                                             *)
(***************************************************************************)
EXTENDS Integers, SequencesExt, FiniteSetsExt

CONSTANTS
    Keys,       \* numbers: the places of the keys in their order
    KeyText,    \* the text of each key
    Null,       \* nullptr, behind every key
    Char,       \* the characters texts are made of
    Colon,      \* DELIMITER
    Newline,
    Values,     \* texts
    Pairs,      \* what is inserted: keys with their values
    Files,      \* contents STORE_FILE may have at the start, or after two dumps at once
    Dumpers,    \* the threads that dump
    MaxLevel    \* _maxLevel

Header == -1

Levels == 0..MaxLevel

Text == Seq(Char)

ASSUME ListAssumption ==
    /\ Null \in Nat /\ Keys \subseteq 0..(Null - 1) /\ MaxLevel \in Nat
    /\ {Colon, Newline} \subseteq Char /\ Colon # Newline
    /\ KeyText \in [Keys -> Text]
    /\ \A k, l \in Keys : KeyText[k] = KeyText[l] => k = l
    /\ Values \subseteq Text /\ <<>> \in Values
    /\ Pairs \subseteq Keys \X Values
    /\ Files \subseteq Seq(Text)

VARIABLES
    forward,    \* _forward of every node
    level,      \* _nodeLevel
    value,      \* _value
    live,       \* the nodes that are allocated
    curLevel,   \* _curLevel
    elementCount,
    writer,     \* the thread with mtx
    reader,     \* a thread in searchElement
    dumper,     \* the threads in dumpFile
    file,       \* the lines of STORE_FILE, and those in the buffer of _fileWriter
    isOpen,     \* _fileWriter.is_open()
    mixed,      \* two threads have used it since
    phase,      \* "load" in the constructor, "run"
    loading,    \* the lines loadFile has not read
    lastPair,   \* key and value of loadFile
    clean,      \* (observed) the file is as an undisturbed dump, alone, left it
    saved       \* (observed) the list at the end of that dump

list == <<forward, level, value, live, curLevel, elementCount>>
stream == <<file, isOpen, mixed, clean, saved>>
load == <<phase, loading, lastPair>>
store == <<stream, load>>
vars == <<list, writer, reader, dumper, store>>

NoWriter == [op |-> "none", key |-> Null, update |-> <<>>, at |-> 0]

Idle == [pc |-> "idle", cur |-> Header, at |-> 0, key |-> Null,
         disturbed |-> FALSE, deleted |-> FALSE, there |-> FALSE, found |-> FALSE]

InitList ==
    /\ forward = [n \in Keys \cup {Header} |-> [i \in Levels |-> Null]]
    /\ level = [k \in Keys |-> 0] /\ value = [k \in Keys |-> <<>>]
    /\ live = {} /\ curLevel = 0 /\ elementCount = 0

Init ==
    /\ InitList
    /\ writer = NoWriter /\ reader = Idle /\ dumper = [d \in Dumpers |-> Idle]
    /\ file \in Files /\ isOpen = FALSE /\ mixed = FALSE /\ clean = FALSE /\ saved = {}
    /\ phase = "load" /\ loading = file /\ lastPair = <<<<>>, <<>>>>

Writer ==
    [op : {"none", "insert", "delete", "free", "shrink"}, key : Keys \cup {Null},
     update : {<<>>} \cup [Levels -> Keys \cup {Header}], at : Levels]

Walker(states) ==
    [pc : states, cur : Keys \cup {Header, Null}, at : Levels, key : Keys \cup {Null},
     disturbed : BOOLEAN, deleted : BOOLEAN, there : BOOLEAN, found : BOOLEAN]

TypeOK ==
    /\ forward \in [Keys \cup {Header} -> [Levels -> Keys \cup {Null}]]
    /\ level \in [Keys -> Levels] /\ value \in [Keys -> Values] /\ live \subseteq Keys
    /\ curLevel \in Levels /\ elementCount \in Int
    /\ writer \in Writer
    /\ reader \in Walker({"idle", "walk", "last", "done", "undefined"})
    /\ dumper \in [Dumpers -> Walker({"idle", "walk", "undefined"})]
    /\ file \in Seq(Text) /\ isOpen \in BOOLEAN /\ mixed \in BOOLEAN
    /\ clean \in BOOLEAN /\ saved \subseteq Text \X Values
    /\ phase \in {"load", "run"} /\ loading \in Seq(Text) /\ lastPair \in Text \X Text

\* The nodes of a level, from the header on.
ChainOf(fwd, i) ==
    LET f[n \in Keys \cup {Header}] ==
            IF fwd[n][i] = Null THEN <<>> ELSE <<fwd[n][i]>> \o f[fwd[n][i]]
    IN  f[Header]

Chain(i) == ChainOf(forward, i)

Exists(key) == key \in Range(Chain(0))

\* The pairs of texts the list holds.
Contents == {<<KeyText[k], value[k]>> : k \in Range(Chain(0))}

-----------------------------------------------------------------------------
(* Writers.  While one has changed the list and not finished, or did so      *)
(* during a walk, the walk is disturbed.                                     *)

Disturbs(deletes) ==
    /\ reader' = IF reader.pc \in {"walk", "last"}
                 THEN [reader EXCEPT !.disturbed = TRUE, !.deleted = @ \/ deletes,
                                     !.there = @ \/ reader.key \in Range(ChainOf(forward', 0))]
                 ELSE reader
    /\ dumper' = [d \in Dumpers |->
                    IF dumper[d].pc = "walk"
                    THEN [dumper[d] EXCEPT !.disturbed = TRUE, !.deleted = @ \/ deletes]
                    ELSE dumper[d]]

\* Where a search for the key leaves each level.
Update(key) ==
    [i \in Levels |->
        IF i > curLevel THEN Header
        ELSE Max({Header} \cup {k \in Range(Chain(i)) : k < key})]

\* The lock, the search, and the new node, or the new value of an old one.
InsertElement(key, v) ==
    /\ writer = NoWriter
    /\ value' = [value EXCEPT ![key] = v]
    /\ IF Exists(key)
       THEN UNCHANGED <<forward, level, live, curLevel, writer>>
       ELSE \E randomLevel \in Levels :
               /\ writer' = [op |-> "insert", key |-> key, update |-> Update(key), at |-> 0]
               /\ curLevel' = IF randomLevel > curLevel THEN randomLevel ELSE curLevel
               /\ level' = [level EXCEPT ![key] = randomLevel]
               /\ live' = live \cup {key}
               /\ forward' = [forward EXCEPT ![key] = [i \in Levels |-> Null]]
    /\ UNCHANGED elementCount
    /\ Disturbs(FALSE)

\* Mutant: the new node does not take over the pointer of the one before it.
LinkedShort(w) == [forward EXCEPT ![w.update[w.at]][w.at] = w.key]

\* The pointers of one level: the node's own, then the one to it.
Linked(w) ==
    LET before == w.update[w.at]
    IN  [forward EXCEPT ![w.key][w.at] = forward[before][w.at], ![before][w.at] = w.key]

Link ==
    /\ writer.op = "insert"
    /\ forward' = Linked(writer)
    /\ IF writer.at = level[writer.key]
       THEN writer' = NoWriter /\ elementCount' = elementCount + 1
       ELSE writer' = [writer EXCEPT !.at = @ + 1] /\ UNCHANGED elementCount
    /\ UNCHANGED <<level, value, live, curLevel, store>>
    /\ Disturbs(FALSE)

\* Nothing happens when the key is not in the list.
DeleteElement(key) ==
    /\ writer = NoWriter /\ Exists(key)
    /\ writer' = [op |-> "delete", key |-> key, update |-> Update(key), at |-> 0]
    /\ UNCHANGED <<list, store>>
    /\ Disturbs(TRUE)

\* The loop ends above the current level, or where no pointer leads to the node.
ToUnlink(w) == w.at <= curLevel /\ forward[w.update[w.at]][w.at] = w.key

Unlink ==
    /\ writer.op = "delete"
    /\ IF ToUnlink(writer)
       THEN /\ forward' = [forward EXCEPT ![writer.update[writer.at]][writer.at] =
                                             forward[writer.key][writer.at]]
            /\ writer' = [writer EXCEPT !.op = IF writer.at = MaxLevel THEN "free" ELSE @,
                                        !.at = IF writer.at = MaxLevel THEN @ ELSE @ + 1]
       ELSE writer' = [writer EXCEPT !.op = "free"] /\ UNCHANGED forward
    /\ UNCHANGED <<level, value, live, curLevel, elementCount, store>>
    /\ Disturbs(TRUE)

Free ==
    /\ writer.op = "free"
    /\ live' = live \ {writer.key}
    /\ forward' = [forward EXCEPT ![writer.key] = [i \in Levels |-> Null]]
    /\ level' = [level EXCEPT ![writer.key] = 0]
    /\ value' = [value EXCEPT ![writer.key] = <<>>]
    /\ writer' = [writer EXCEPT !.op = "shrink"]
    /\ UNCHANGED <<curLevel, elementCount, store>>
    /\ Disturbs(TRUE)

Shrink ==
    /\ writer.op = "shrink"
    /\ curLevel' = Max({0} \cup {i \in 0..curLevel : forward[Header][i] # Null})
    /\ elementCount' = elementCount - 1
    /\ writer' = NoWriter
    /\ UNCHANGED <<forward, level, value, live, store>>
    /\ Disturbs(TRUE)

-----------------------------------------------------------------------------
(* A search.                                                               *)

Usable(n) == n = Header \/ n \in live

SearchElement(key) ==
    /\ reader.pc \in {"idle", "done"} /\ \A d \in Dumpers : dumper[d].pc = "idle"
    /\ phase = "run"
    /\ reader' = [Idle EXCEPT !.pc = "walk", !.at = curLevel, !.key = key,
                              !.disturbed = writer # NoWriter,
                              !.deleted = writer.op \in {"delete", "free"},
                              !.there = Exists(key)]
    /\ UNCHANGED <<list, writer, dumper, store>>

\* Mutant: the search ends at the lowest level with the node it has compared last,
\* without looking at the next one.
AfterStay(r, next) ==
    IF next < r.key THEN [r EXCEPT !.cur = next]
    ELSE IF r.at > 0 THEN [r EXCEPT !.at = @ - 1]
    ELSE [r EXCEPT !.pc = "done", !.found = r.cur = r.key]

After(r, next) ==
    IF next < r.key THEN [r EXCEPT !.cur = next]
    ELSE IF r.at > 0 THEN [r EXCEPT !.at = @ - 1]
    ELSE [r EXCEPT !.pc = "last"]

\* One comparison of the loop; a node that is gone leaves nothing defined.
Walk ==
    /\ reader.pc = "walk"
    /\ LET next == forward[reader.cur][reader.at]
       IN  reader' = IF Usable(reader.cur) /\ (next = Null \/ Usable(next))
                     THEN After(reader, next)
                     ELSE [reader EXCEPT !.pc = "undefined"]
    /\ UNCHANGED <<list, writer, dumper, store>>

\* cur = cur->_forward[0], and its key.
Last_ ==
    /\ reader.pc = "last"
    /\ LET next == forward[reader.cur][0]
       IN  reader' = IF Usable(reader.cur) /\ (next = Null \/ Usable(next))
                     THEN [reader EXCEPT !.pc = "done", !.cur = Header,
                                         !.found = next = reader.key]
                     ELSE [reader EXCEPT !.pc = "undefined"]
    /\ UNCHANGED <<list, writer, dumper, store>>

-----------------------------------------------------------------------------
(* Dumps.                                                                  *)

\* The line a place of a text is in, and the place the first n lines, with the newlines
\* that end them, go to.
LineAt(text, i) == 1 + Cardinality({j \in 1..(i - 1) : text[j] = Newline})

UpTo(text, n) == Cardinality({i \in 1..Len(text) : LineAt(text, i) <= n})

LinesOf(text) ==
    LET last == LineAt(text, Len(text) + 1)
    IN  [n \in 1..last |->
            SubSeq(text, UpTo(text, n - 1) + 1, UpTo(text, n) - IF n = last THEN 0 ELSE 1)]

\* What is written for a node, but for the newline behind it.
TextOf(key, v) == KeyText[key] \o <<Colon>> \o v

\* Mutant: the file is not emptied.
OpenedAppend == file

\* STORE_FILE is opened anew, and loses what it had.
Opened == <<>>

\* A thread that finds _fileWriter open, or opens it while another is still at its
\* walk, writes into the text of the other with no lock.
Joins(d) == isOpen \/ \E e \in Dumpers \ {d} : dumper[e].pc = "walk"

\* What two threads at once write is not followed: the stream's buffer is used in a
\* data race, and any of Files is left.
DumpFile(d) ==
    /\ dumper[d].pc = "idle" /\ reader.pc \in {"idle", "done"} /\ phase = "run"
    /\ file' = IF Joins(d) THEN <<>> ELSE Opened
    /\ isOpen' = TRUE /\ mixed' = Joins(d) /\ clean' = FALSE /\ saved' = {}
    /\ dumper' = [dumper EXCEPT ![d] =
                    [Idle EXCEPT !.pc = "walk", !.cur = forward[Header][0],
                                 !.disturbed = writer # NoWriter,
                                 !.deleted = writer.op \in {"delete", "free"}]]
    /\ reader' = Idle
    /\ UNCHANGED <<list, writer, load>>

\* A line, or more if there are newlines in it; nothing once another thread has closed
\* the stream.
Write(d) ==
    /\ dumper[d].pc = "walk" /\ dumper[d].cur \in live
    /\ file' = IF isOpen /\ ~mixed
               THEN file \o LinesOf(TextOf(dumper[d].cur, value[dumper[d].cur]))
               ELSE file
    /\ dumper' = [dumper EXCEPT ![d].cur = forward[dumper[d].cur][0]]
    /\ UNCHANGED <<list, writer, reader, isOpen, mixed, clean, saved, load>>

\* flush and close.
CloseFile(d) ==
    /\ dumper[d].pc = "walk" /\ dumper[d].cur = Null
    /\ file' \in IF isOpen /\ mixed THEN Files ELSE {file}
    /\ clean' = (isOpen /\ ~mixed /\ ~dumper[d].disturbed)
    /\ saved' = IF clean' THEN Contents ELSE {}
    /\ isOpen' = FALSE /\ mixed' = FALSE
    /\ dumper' = [dumper EXCEPT ![d] = Idle]
    /\ UNCHANGED <<list, writer, reader, load>>

\* The node is gone.
Stray(d) ==
    /\ dumper[d].pc = "walk" /\ dumper[d].cur \notin live \cup {Null}
    /\ dumper' = [dumper EXCEPT ![d].pc = "undefined"]
    /\ UNCHANGED <<list, writer, reader, store>>

DumpNext(d) == Write(d) \/ CloseFile(d) \/ Stray(d)

\* The beginnings of a text.
Torn(lines) ==
    {SubSeq(lines, 1, n) : n \in 0..Len(lines)} \cup
    UNION {{Append(SubSeq(lines, 1, n - 1), SubSeq(lines[n], 1, i)) : i \in 1..Len(lines[n])} :
              n \in 1..Len(lines)}

\* The process ends, at any point, and the constructor of the next one loads the
\* file.
Restart ==
    /\ phase = "run"
    /\ forward' = [n \in Keys \cup {Header} |-> [i \in Levels |-> Null]]
    /\ level' = [k \in Keys |-> 0] /\ value' = [k \in Keys |-> <<>>]
    /\ live' = {} /\ curLevel' = 0 /\ elementCount' = 0
    /\ writer' = NoWriter /\ reader' = Idle /\ dumper' = [d \in Dumpers |-> Idle]
    /\ file' \in IF ~isOpen THEN {file} ELSE IF mixed THEN Files ELSE Torn(file)
    /\ isOpen' = FALSE /\ mixed' = FALSE
    /\ phase' = "load" /\ loading' = file' /\ lastPair' = <<<<>>, <<>>>>
    /\ UNCHANGED <<clean, saved>>

-----------------------------------------------------------------------------
(* The load.                                                               *)

HasDelimiter(line) == Colon \in Range(line)

\* find: the first delimiter.
Delimiter(line) ==
    CHOOSE i \in DOMAIN line :
        line[i] = Colon /\ \A j \in DOMAIN line : line[j] = Colon => i <= j

\* The texts before and behind it.
Split(line) ==
    <<SubSeq(line, 1, Delimiter(line) - 1), SubSeq(line, Delimiter(line) + 1, Len(line))>>

\* A line with no delimiter leaves key and value as they are.
Pair(line) == IF HasDelimiter(line) THEN Split(line) ELSE lastPair

\* Bound: the keys and values a load meets are in Keys and Values.
Known(pair) == pair[1] \in Range(KeyText) /\ pair[2] \in Values

KeyOf(text) == CHOOSE k \in Keys : KeyText[k] = text

\* Nothing is inserted while the key or the value is empty.
LoadLine ==
    /\ phase = "load" /\ writer = NoWriter
    /\ IF loading = <<>>
       THEN phase' = "run" /\ UNCHANGED <<list, writer, reader, dumper, loading, lastPair>>
       ELSE /\ phase' = phase /\ loading' = Tail(loading)
            /\ lastPair' = Pair(Head(loading))
            /\ IF lastPair'[1] = <<>> \/ lastPair'[2] = <<>>
               THEN UNCHANGED <<list, writer, reader, dumper>>
               ELSE Known(lastPair') /\ InsertElement(KeyOf(lastPair'[1]), lastPair'[2])
    /\ UNCHANGED stream

Next ==
    \/ \E p \in Pairs : phase = "run" /\ InsertElement(p[1], p[2]) /\ UNCHANGED store
    \/ \E k \in Keys : phase = "run" /\ DeleteElement(k)
    \/ \E k \in Keys : SearchElement(k)
    \/ Link \/ Unlink \/ Free \/ Shrink
    \/ Walk \/ Last_
    \/ \E d \in Dumpers : DumpFile(d) \/ DumpNext(d)
    \/ Restart \/ LoadLine

Spec == Init /\ [][Next]_vars

-----------------------------------------------------------------------------
\* Between two writers every level is in order and a part of the level below, a
\* node is in the levels it was made for and in no other, the count is the number
\* of nodes, and no level above _curLevel is used (insertElement, deleteElement).
WellLinked ==
    writer = NoWriter =>
        /\ \A i \in Levels :
              LET c == Chain(i)
              IN  /\ \A m, n \in DOMAIN c : m < n => c[m] < c[n]
                  /\ Range(c) = {k \in live : level[k] >= i}
                  /\ i > curLevel => c = <<>>
        /\ elementCount = Cardinality(live)

\* A search that finds the key was right at some moment of its walk; one that does
\* not find it was right if no writer was in its way.  (An insert of a smaller key
\* is enough for a search to miss one that is there all the time.)  And a walk looks
\* at a node that is gone only if a delete ran during it: inserts alone never leave
\* a walker without a node (searchElement, dumpFile).
SearchIsRight ==
    /\ reader.pc = "done" =>
          /\ reader.found => reader.there
          /\ ~reader.found /\ ~reader.disturbed => ~reader.there
    /\ reader.pc = "undefined" => reader.deleted
    /\ \A d \in Dumpers : dumper[d].pc = "undefined" => dumper[d].deleted

\* A line that is a pair.
HasPair(line) == HasDelimiter(line) /\ Split(line)[1] # <<>> /\ Split(line)[2] # <<>>

\* The last pair of each key in the file.
LastPairs ==
    {Split(file[i]) : i \in {j \in DOMAIN file :
        /\ HasPair(file[j])
        /\ \A m \in (j + 1)..Len(file) :
              HasPair(file[m]) => Split(file[m])[1] # Split(file[j])[1]}}

\* What the form of the file can hold.
Plain(pair) ==
    /\ pair[1] # <<>> /\ pair[2] # <<>>
    /\ Colon \notin Range(pair[1])
    /\ Newline \notin Range(pair[1]) \cup Range(pair[2])

\* A start loads the last pair of each key from whatever text the file has, and after a
\* dump which no writer and no other dump met it loads what the list held when that
\* dump ended, whatever happened since, if no text was empty, no key had a ':' and no
\* text a newline (dumpFile, loadFile).
Reloaded ==
    /\ [][phase = "load" /\ phase' = "run" => Contents = LastPairs]_vars
    /\ [][phase = "load" /\ phase' = "run" /\ clean /\ (\A p \in saved : Plain(p)) =>
             Contents = saved]_vars
=============================================================================
