----------------------------- MODULE MCSkipList -----------------------------
(* Keys ":a", "a" and "b", the first with the delimiter in it; the value ":",   *)
(* and one with a newline and another pair behind it.  A file with a key twice,  *)
(* a line without a delimiter in front and behind one without a value.          *)
EXTENDS SkipList

MCChar == {"a", "b", ":", "newline"}

MCKeyText == <<<<":", "a">>, <<"a">>, <<"b">>>>

MCValues == {<<>>, <<":">>, <<":", ":">>, <<"newline", "a", ":", ":">>}

MCPairs == {<<1, <<":">>>>, <<2, <<":">>>>, <<3, <<"newline", "a", ":", ":">>>>}

MCFiles == {<<>>, <<<<"b">>, <<"a", ":", ":", ":">>, <<"a", ":">>, <<"b">>, <<"a", ":", ":">>>>}

Symmetry == Permutations(Dumpers)
=============================================================================
