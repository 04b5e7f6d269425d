----------------------------- MODULE MCWebBench -----------------------------
(* One command line of each kind that changes what the program does.       *)
EXTENDS WebBench

Line(flags, url, count) == [flags |-> flags, url |-> url, count |-> count]

MCLines ==
    {Line(<<>>, "ok", 2), Line(<<"9">>, "ok", 0), Line(<<"k">>, "ok", 2),
     Line(<<"9", "k">>, "ok", 1), Line(<<"f", "1">>, "ok", 1),
     Line(<<"9", "r", "p">>, "https", 1), Line(<<"k", "p">>, "ok", 1),
     Line(<<"9", "long">>, "ok", 1),
     Line(<<"9", "f">>, "ok", -1), Line(<<"1">>, "https", 1)}
=============================================================================
