---------------------------- MODULE MCOldServer ----------------------------
(* Two HTTP clients, of whom the first waits for its answers, or two FTP    *)
(* clients, the second with few commands, in a directory with a file and a  *)
(* neighbour named like it.                                                 *)
EXTENDS OldServer

Get     == <<"get", "blank">>
Keep    == <<"get", "keep", "blank">>
Post    == <<"post", "blank">>
Missing == <<"missing", "blank">>
Version == <<"version", "blank">>
Bad     == <<"get", "bad", "blank">>
Swallow == <<"get", "bad", "keep", "blank">>
Half    == <<"get">>

\* One of them alone, what is refused and what is asked after it; or both.
MCScripts ==
    {[c1 |-> <<Missing, Keep, Get>>, c2 |-> <<>>],
     [c1 |-> <<Missing, Version, Get>>, c2 |-> <<>>],
     [c1 |-> <<Bad, Keep, Get>>, c2 |-> <<>>],
     [c1 |-> <<Swallow, Post>>, c2 |-> <<>>],
     [c1 |-> <<>>, c2 |-> <<Get, Missing, Keep>>],
     [c1 |-> <<>>, c2 |-> <<Swallow, Missing, Bad>>],
     [c1 |-> <<Get, Keep>>, c2 |-> <<Half>>],
     [c1 |-> <<Get>>, c2 |-> <<Keep>>],
     [c1 |-> <<Get>>, c2 |-> <<Missing>>]}

Say(op, arg) == [op |-> op, arg |-> arg]

MCFtpSends ==
    [c1 |-> {Say("login", <<"right">>), Say("login", <<"wrong">>),
             Say("cd", <<"d">>), Say("cd", <<"d", "/">>), Say("cd", <<"..">>),
             Say("mkdir", <<"d">>), Say("touch", <<"f">>), Say("rmdir", <<"d">>),
             Say("ls", <<>>), Say("ls", <<"d">>), Say("download", <<"f">>),
             Say("upload", <<"f">>), Say("data", <<>>), Say("end", <<>>),
             Say("pwd", <<>>), Say("quit", <<>>)},
     c2 |-> {Say("login", <<"right">>), Say("rmdir", <<"d">>), Say("upload", <<"f">>),
             Say("data", <<>>), Say("end", <<>>)}]

MCMaxSends == [c1 |-> 4, c2 |-> 2]

\* d with a file, once with df beside it and once without; d and dd with a d.
d == <<"d">>
f == <<"f">>
MCTrees ==
    LET one == (<<d>> :> Directory) @@ (<<d, f>> :> File(<<>>))
    IN  {one, one @@ (<<d \o f>> :> File(<<>>)),
         (<<d>> :> Directory) @@ (<<d, d>> :> Directory) @@ (<<d \o d>> :> Directory)
             @@ (<<f>> :> File([i \in 1..3 |-> Say("data", <<>>)]))}
=============================================================================
