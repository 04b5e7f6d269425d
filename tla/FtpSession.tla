---------------------------- MODULE FtpSession ----------------------------
(***************************************************************************)
(* connection::ftpConnection with manager::FileOperator and UserManager:   *)
(* a session is a state machine that is run once per readable event on all *)
(* that has arrived, over a directory tree it changes as it goes.          *)
(*                                                                         *)
(* A path is written as the program writes it, by gluing pieces together:  *)
(* a sequence over names and "/".  What it denotes is Resolve of that, a   *)
(* sequence of names, a name being what stands between two slashes -- so   *)
(* <<"d", "f">> is the one name df and not the file f of the directory d.  *)
(* An action is given the messages of one readn and whether it met the     *)
(* end of the stream.  The socket, epoll and the timer of quit() belong to *)
(* the module that composes this one.                                      *)
(***************************************************************************)
EXTENDS Integers, SequencesExt, FiniteSetsExt

CONSTANTS
    Sessions,
    BlockPieces,    \* pieces of data that fill BUFFER_SIZE
    JUNK,           \* a name made of several messages read as one
    Trees           \* what may be below the root to begin with

VARIABLES
    ftp,        \* of each session: processState_, completePath_ after the
                \* root, and currentOpenFile_: the path it is open on, where
                \* in the file it is, and what its buffer holds
    tree,       \* the files below the root: what Resolve gives -> what it is
    told,       \* what the answer to the last message says of the tree:
                \* what rmdir has removed, what was downloaded
    crashed     \* the process has died

sessionVars == <<ftp, tree, told, crashed>>

CLOSED    == <<>>
UNLINKED  == <<<<"/">>>>    \* a file that is open and has no name any more
HOLE      == "hole"         \* what nobody has written
Directory == [dir |-> TRUE, data |-> <<>>]
File(data) == [dir |-> FALSE, data |-> data]
Reply == [gone |-> {}, data |-> <<>>]      \* one with nothing of the tree in it

\* A session begins in one of these trees.
SessionInit(trees) ==
    /\ ftp = [c \in Sessions |-> [state |-> "login", cwd |-> <<>>, open |-> CLOSED,
                                at |-> 0, held |-> <<>>]]
    /\ tree \in trees
    /\ told = Reply
    /\ crashed = FALSE

-----------------------------------------------------------------------------
\* The kernel's side of a path.
Resolve(path) ==
    LET Step(names, x) == IF x = "/" THEN Append(names, <<>>)
                          ELSE Append(Front(names), Append(Last(names), x))
    IN  SelectSeq(FoldLeft(Step, <<<<>>>>, path), LAMBDA name : name # <<>>)

IsDir(t, p)    == p = <<>> \/ (p \in DOMAIN t /\ t[p].dir)
IsFile(t, p)   == p \in DOMAIN t /\ ~t[p].dir
Children(t, p) == {q \in DOMAIN t : q # <<>> /\ Front(q) = p}
Without(t, p)  == [q \in DOMAIN t \ {p} |-> t[q]]
With(t, p, x)  == [q \in DOMAIN t \cup {p} |-> IF q = p THEN x ELSE t[q]]

\* open(2) for writing: it creates the file in a directory that is there.
MayOpen(t, p) == p # <<>> /\ IsDir(t, Front(p)) /\ ~IsDir(t, p)

\* write(2) of pieces, at a place in a file.
Written(data, at, pieces) ==
    LET end == at + Len(pieces)
    IN  [i \in 1 .. Max({Len(data), end}) |->
            CASE i \in at + 1 .. end -> pieces[i - at]
              [] i \notin at + 1 .. end /\ i <= Len(data) -> data[i]
              [] OTHER -> HOLE]

\* The tree once a stream has written n pieces of what it holds.
Flushed(stream, n) ==
    IF stream.open \in {CLOSED, UNLINKED} \/ n = 0 THEN tree
    ELSE [tree EXCEPT ![stream.open].data =
             Written(@, stream.at, SubSeq(stream.held, 1, n))]

\* close() of it: what it holds is written first.
Closed(stream) == [stream EXCEPT !.open = CLOSED, !.at = 0, !.held = <<>>]

\* getCurrentWorkingDir(false) with the name appended: nothing in between.
Under(c, name) == FlattenSeq(ftp[c].cwd) \o name

StripSlashes(name) == SelectSeq(name, LAMBDA x : x # "/")       \* getValidFile

-----------------------------------------------------------------------------
\* Mutant: it is on the list before it is gone.
ListFile(c, acc, name) ==
    LET p == Resolve(Under(c, name))
    IN  IF p \in DOMAIN acc.tree /\ Children(acc.tree, p) = {}
        THEN [acc EXCEPT !.tree = Without(@, p), !.gone = @ \cup {p}]
        ELSE [acc EXCEPT !.cancel = TRUE, !.gone = @ \cup {p}]

\* deleteFile: remove(3) takes a file or an empty directory.
DeleteFile(c, acc, name) ==
    LET p == Resolve(Under(c, name))
    IN  IF p \in DOMAIN acc.tree /\ Children(acc.tree, p) = {}
        THEN [acc EXCEPT !.tree = Without(@, p), !.gone = @ \cup {p}]
        ELSE [acc EXCEPT !.cancel = TRUE]

(***************************************************************************)
(* deleteDirectory.  One level of it, on the path so far, is to browse it  *)
(* (readdir of the NULL that opendir gives for a missing directory),       *)
(* remove its files, then its directories with Sub, and last the directory *)
(* itself.  Each is looked for at path and name glued together, with no    *)
(* slash.  The recursion goes to the depth the names allow: a third level  *)
(* would be a name of three pieces, which nothing here can create.         *)
(***************************************************************************)
DeleteDirectory(c, name) ==
    LET start == [tree |-> tree, gone |-> {}, cancel |-> FALSE, crash |-> FALSE]
        Level(acc, path, Sub(_, _)) ==
            LET p == Resolve(Under(c, path))
                glue(q) == path \o StripSlashes(Last(q))
                inside == Children(acc.tree, p)
                unlink(q, a) == DeleteFile(c, a, glue(q))
                descend(q, a) == IF a.cancel \/ a.crash THEN a ELSE Sub(a, glue(q))
                files == FoldSet(unlink, acc, {q \in inside : ~acc.tree[q].dir})
                dirs  == FoldSet(descend, files, {q \in inside : acc.tree[q].dir})
            IN  CASE ~IsDir(acc.tree, p) -> [acc EXCEPT !.crash = TRUE]
                  [] dirs.crash -> dirs
                  [] p \in DOMAIN dirs.tree /\ dirs.tree[p].dir /\ Children(dirs.tree, p) = {} ->
                         [dirs EXCEPT !.tree = Without(@, p), !.gone = @ \cup {p}]
                  [] OTHER -> dirs
        Missing(acc, path) == [acc EXCEPT !.crash = TRUE]
        Inner(acc, path) == Level(acc, path, Missing)
    IN  Level(start, StripSlashes(name), Inner)

-----------------------------------------------------------------------------
\* The commands.  Each leaves the session where ftp' says.
Answer(c) ==
    /\ told' = Reply
    /\ UNCHANGED <<ftp, tree, crashed>>

Crash == crashed' = TRUE /\ UNCHANGED <<ftp, told>>

\* browse: dirCanBeOpened looks at ./page/ whatever it is asked.
List(c, name) ==
    IF IsDir(tree, Resolve(Under(c, name)))
    THEN Answer(c)
    ELSE Crash /\ UNCHANGED tree

\* changeDir: up, if below the root; else down, to wherever was named.
ChangeDir(c, name) ==
    LET cwd == ftp[c].cwd
    IN  /\ ftp' = [ftp EXCEPT ![c].cwd =
               IF name = <<"..">> THEN (IF cwd = <<>> THEN cwd ELSE Front(cwd))
               ELSE Append(cwd, name)]
        /\ told' = Reply
        /\ UNCHANGED <<tree, crashed>>

MakeDir(c, name) ==
    LET p == Resolve(Under(c, name))
        fits == p # <<>> /\ IsDir(tree, Front(p)) /\ p \notin DOMAIN tree
    IN  /\ tree' = IF fits THEN With(tree, p, Directory) ELSE tree
        /\ told' = Reply
        /\ UNCHANGED <<ftp, crashed>>

\* createFile opens for append and says it did, whether it did or not.
Touch(c, name) ==
    LET p == Resolve(Under(c, StripSlashes(name)))
    IN  /\ tree' = IF MayOpen(tree, p) /\ p \notin DOMAIN tree
                   THEN With(tree, p, File(<<>>)) ELSE tree
        /\ told' = Reply
        /\ UNCHANGED <<ftp, crashed>>

RemoveDir(c, name) ==
    LET result == DeleteDirectory(c, name)
        Gone(stream) == IF stream.open \in result.gone
                        THEN [stream EXCEPT !.open = UNLINKED] ELSE stream
    IN  /\ tree' = result.tree
        /\ IF result.crash THEN Crash
           ELSE /\ told' = [Reply EXCEPT !.gone = result.gone]
                /\ ftp' = [x \in Sessions |-> Gone(ftp[x])]
                /\ UNCHANGED crashed

\* Mutant: without ios::trunc.
AppendUpload(c, name) ==
    LET p == Resolve(Under(c, name))
        opens == MayOpen(tree, p)
    IN  /\ tree' = IF opens /\ p \notin DOMAIN tree THEN With(tree, p, File(<<>>)) ELSE tree
        /\ ftp' = [ftp EXCEPT ![c].state = "upload", ![c].open = IF opens THEN p ELSE CLOSED]
        /\ told' = Reply
        /\ UNCHANGED crashed

\* Opens and truncates, says nothing, and waits for data even if it could not.
StartUpload(c, name) ==
    LET p == Resolve(Under(c, name))
        opens == MayOpen(tree, p)
    IN  /\ tree' = IF opens THEN With(tree, p, File(<<>>)) ELSE tree
        /\ ftp' = [ftp EXCEPT ![c].state = "upload", ![c].open = IF opens THEN p ELSE CLOSED]
        /\ told' = Reply
        /\ UNCHANGED crashed

\* Whole blocks are sent; read() fails on the last one if it is short.
Download(c, name) ==
    LET p == Resolve(Under(c, name))
        whole(data) == SubSeq(data, 1, Len(data) - (Len(data) % BlockPieces))
    IN  /\ told' = IF IsFile(tree, p)
                   THEN [Reply EXCEPT !.data = whole(tree[p].data)]
                   ELSE Reply
        /\ UNCHANGED <<ftp, tree, crashed>>

\* QUIT, which handleRead follows by quit() and its message: of a client that
\* has reset the connection SIGPIPE may be the answer.
Quit(c, client) ==
    /\ ftp' = [ftp EXCEPT ![c] = [Closed(@) EXCEPT !.state = "quit"]]
    /\ tree' = Flushed(ftp[c], Len(ftp[c].held))
    /\ told' = Reply
    /\ crashed' \in {FALSE, client = "reset"}

-----------------------------------------------------------------------------
(***************************************************************************)
(* The states.  Each reads all there is; msgs are the client's messages in *)
(* it, and unless the client is "open" the read meets the end of the        *)
(* stream, or an error.                                                    *)
(***************************************************************************)
\* The name and the key of a message that is two are no user's.
Login(c, msgs, client) ==
    IF client # "open" \/ msgs # <<[op |-> "login", arg |-> <<"right">>]>>
    THEN Quit(c, client)
    ELSE /\ ftp' = [ftp EXCEPT ![c].state = "parse"]
         /\ told' = Reply
         /\ UNCHANGED <<tree, crashed>>

\* One read is one command: what came after it is part of its parameter.
CommandParser(c, msgs, client) ==
    IF client # "open" THEN Quit(c, client) ELSE
    LET op  == msgs[1].op
        arg == IF Len(msgs) = 1 THEN msgs[1].arg ELSE <<JUNK>>
    IN  \/ op = "ls" /\ List(c, arg)
        \/ op = "cd" /\ ChangeDir(c, arg)
        \/ op = "mkdir" /\ MakeDir(c, arg)
        \/ op = "touch" /\ Touch(c, arg)
        \/ op = "rmdir" /\ RemoveDir(c, arg)
        \/ op = "upload" /\ StartUpload(c, arg)
        \/ op = "download" /\ Download(c, arg)
        \/ op \in {"pwd", "data", "end", "login"} /\ Answer(c)
        \/ op = "quit" /\ Quit(c, client)

\* The end of the file is a read of exactly that; with anything else in the
\* read it is data like the rest, and data read with the end of the stream
\* is not written.  The buffer goes to the file when it is full: all of it,
\* or what it held before.
Upload(c, msgs, client) ==
    LET stream == [ftp[c] EXCEPT !.held = @ \o msgs]
        n == Len(stream.held)
    IN  IF msgs = <<[op |-> "end", arg |-> <<>>]>>
        THEN /\ ftp' = [ftp EXCEPT ![c] = [Closed(@) EXCEPT !.state = "parse"]]
             /\ tree' = Flushed(ftp[c], Len(ftp[c].held))
             /\ told' = Reply
             /\ UNCHANGED crashed
        ELSE IF client # "open" \/ ftp[c].open = CLOSED THEN Quit(c, client)
        ELSE /\ \E out \in {0, n - Len(msgs), n} :
                   /\ tree' = Flushed(stream, out)
                   /\ ftp' = [ftp EXCEPT ![c] = [stream EXCEPT
                                 !.at = @ + out, !.held = SubSeq(@, out + 1, n)]]
             /\ told' = Reply
             /\ UNCHANGED crashed

\* handleRead.
SessionRead(c, msgs, client) ==
    /\ ~crashed
    /\ CASE ftp[c].state = "login"  -> Login(c, msgs, client)
         [] ftp[c].state = "parse"  -> CommandParser(c, msgs, client)
         [] ftp[c].state = "upload" -> Upload(c, msgs, client)
         [] ftp[c].state = "quit"   -> Quit(c, client)
=============================================================================
