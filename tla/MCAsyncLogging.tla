--------------------------- MODULE MCAsyncLogging ---------------------------
(* Instances of AsyncLogging for TLC. *)
EXTENDS AsyncLogging

MCFirstBuffers == <<1, 2, 3, 4>>

Statement(level, number, pieces) == [level |-> level, line |-> number, pieces |-> pieces]

\* Two short lines fit in a buffer, or one of the others: one that is whole,
\* one that has no room left for its end, and two that lose a piece.
MCStatements ==
    [short  |-> Statement(1, 7, << >>),
     signed |-> Statement(2, 40, <<Text(1), Number(-305)>>),
     brim   |-> Statement(4, 3, <<Text(9)>>),
     tight  |-> Statement(1, 8, <<Text(6), Number(10), Text(1)>>),
     long   |-> Statement(3, 9, <<Text(12), Text(2)>>),
     odd    |-> Statement(7, 1, <<Text(2)>>),
     quiet  |-> Statement(0, 1, << >>)]

MCOffered ==
    << {"short"}, {"short", "quiet", "odd"}, {"signed"}, {"brim"}, {"tight", "odd"}, {"long"} >>
=============================================================================
