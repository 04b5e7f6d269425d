---------------------------- MODULE MCHttpParser ----------------------------
(***************************************************************************)
(* HttpParser for TLC: a GET that asks for a long connection, a HEAD that   *)
(* does not, and a POST with a body of two characters.                     *)
(***************************************************************************)
EXTENDS HttpParser

MCRequests ==
    LET host == [key |-> <<"Host">>, value |-> <<"h">>]
        keep == [key |-> <<"Connection">>, value |-> <<"keep", "-alive">>]
        size == [key |-> <<"Content-length">>, value |-> <<"2">>]
    IN  { [method |-> "GET", headers |-> <<host, keep>>, body |-> <<>>],
          [method |-> "HEAD", headers |-> <<host>>, body |-> <<>>],
          [method |-> "POST", headers |-> <<size>>, body |-> <<"b1", "b2">>] }
=============================================================================
