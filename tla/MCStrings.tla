----------------------------- MODULE MCStrings -----------------------------
EXTENDS Replace, SplitMultiple

\* All sequences of up to n members of C.
Upto(n, C) == UNION {[1 .. k -> C] : k \in 0 .. n}

CONSTANTS MaxText, MaxSeparator, MaxReplacement
MCTexts        == Upto(MaxText, Chars)
MCSeparators   == Upto(MaxSeparator, Chars)
MCReplacements == Upto(MaxReplacement, Chars)

\* Lists of up to two separators of up to three characters.
MCStrings        == Upto(5, 1 .. 2)
MCSeparatorLists == Upto(2, Upto(3, 1 .. 2))

\* One of the three functions is called; the variables of the others are those of a
\* call for empty strings that has returned.  replace is the one that keeps empty
\* pieces, as it tells split_on to; when split_on is called alone they may be left out.
NotJoined == replacement = <<>> /\ out = <<>> /\ it = 0 /\ outcome = "none"

NoneSplit ==
  /\ str = <<>> /\ seq = <<>> /\ add_empty = FALSE /\ start_pos = 0
  /\ rv = <<Piece(0, 0)>> /\ pieces = rv /\ returned = TRUE

NoneRead ==
  /\ to_split = <<>> /\ seps = <<>> /\ ordered = TRUE /\ start = 0 /\ current = 0
  /\ words = <<>> /\ cuts = <<>> /\ finished = TRUE

MCInit == \/ Init /\ NoneRead
          \/ SplitInit /\ ~add_empty /\ NotJoined /\ NoneRead
          \/ NoneSplit /\ NotJoined /\ MultipleInit

Join == Reserve \/ ReserveThrows \/ AppendPiece \/ AppendLast

MCNext == \/ (SplitStep \/ (add_empty /\ Join)) /\ UNCHANGED multipleVars
          \/ MultipleNext /\ UNCHANGED vars

MCSpec == MCInit /\ [][MCNext]_<<vars, multipleVars>> /\ WF_<<vars, multipleVars>>(MCNext)

\* Every call ends, replace with a result or an exception: no separator, the empty
\* one least of all, keeps a function from getting to the end of the string.
CallsEnd == <>(returned /\ finished /\ (add_empty => outcome # "none"))
=============================================================================
