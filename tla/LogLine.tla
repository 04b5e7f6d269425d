------------------------------ MODULE LogLine ------------------------------
(***************************************************************************)
(* The line a LOG statement makes: log::Logging streams a header and what   *)
(* follows the statement into the FixedBuffer of a LogStream on the stack.  *)
(* A piece that does not fit is dropped, and the next one is tried; nobody  *)
(* else sees the stream, so a line is a function of its statement.          *)
(*                                                                         *)
(* A text is its length; a number is its value, because how it is written   *)
(* is part of the code.                                                     *)
(***************************************************************************)
EXTENDS SequencesExt

CONSTANTS
    LineSize,       \* kSmallBufferSize
    NumberSize,     \* kMaxNumberSize
    TimeSize,       \* the length of time_str_ ...
    NameSize,       \* ... of the file's name ...
    LevelSize,      \* ... and of level_str_
    Levels,         \* the levels FormatLevel knows, DEBUG to FATAL
    MinLevel        \* min_log_level_

ASSUME LineAssumption ==
    /\ LineSize \in Nat \ {0} /\ NumberSize \in Nat
    /\ TimeSize \in Nat /\ NameSize \in Nat /\ LevelSize \in Nat
    /\ Levels \subseteq Nat /\ MinLevel \in Nat

-----------------------------------------------------------------------------
(* IntToString: digits from the last one up, looked up from the middle of a *)
(* table that runs both ways, since % has the sign of the number in C.       *)

Zero(index) == IF index < 0 THEN 0 - index ELSE index

Quot(number) == IF number < 0 THEN 0 - ((0 - number) \div 10) ELSE number \div 10
Rem(number)  == number - 10 * Quot(number)

\* The sign is tested after the loop, when the number is 0: it is never written.
IntToString ==
    LET digits[n \in Int] ==
            (IF Quot(n) = 0 THEN <<>> ELSE digits[Quot(n)]) \o <<Zero(Rem(n))>>
    IN  digits

-----------------------------------------------------------------------------
(* FixedBuffer and LogStream.                                              *)

Text(size)    == [kind |-> "text", size |-> size, value |-> 0]
Number(value) == [kind |-> "number", size |-> Len(IntToString[value]), value |-> value]

\* What a statement streams: kMaxNumberSize is more than any number needs.
Piece == [kind : {"text"}, size : Nat, value : {0}]
         \cup [kind : {"number"}, size : 1 .. NumberSize - 1, value : Int]

NewLine == [kind |-> "end", size |-> 1, value |-> 0]

LineCapacity(line) == LineSize - line.size

\* Mutant: a text may fill the buffer to the last byte.
HoldsToTheBrim(line, piece) ==
    IF piece.kind = "number"
    THEN LineCapacity(line) >= NumberSize
    ELSE LineCapacity(line) >= piece.size

\* A text needs one byte more than it has; a number the longest one's room.
Holds(line, piece) ==
    IF piece.kind = "number"
    THEN LineCapacity(line) >= NumberSize
    ELSE LineCapacity(line) > piece.size

Put(line, piece) ==
    IF Holds(line, piece)
    THEN [size |-> line.size + piece.size, pieces |-> Append(line.pieces, piece)]
    ELSE line

-----------------------------------------------------------------------------
(* Logging.                                                                *)

Header(statement) ==
    << Text(TimeSize), Text(1), Text(NameSize), Text(1),
       Number(statement.line), Text(LevelSize) >>

Pieces(statement) == Header(statement) \o statement.pieces \o <<NewLine>>

LineOf(statement) ==
    FoldLeft(Put, [size |-> 0, pieces |-> <<>>], Pieces(statement))

\* ~Logging: a statement below the least level leaves nothing.
Logged(statement) == statement.level >= MinLevel

\* FormatLevel: only a level it does not know is fatal, FATAL is not.
IsFatal(statement) == statement.level \notin Levels
=============================================================================
