------------------------------- MODULE Split -------------------------------
(***************************************************************************)
(* util/string.hpp, split_on: a string cut at every occurrence of another. *)
(*                                                                         *)
(* A piece is a view of str, as StringType is in its use by replace: the   *)
(* position it starts at, counted from zero, and its length.  One pass of  *)
(* the loop is one action.                                                 *)
(***************************************************************************)
EXTENDS Integers, Sequences

CONSTANTS Chars,       \* the characters
          Texts,       \* the strings to split
          Separators   \* what they are split on

ASSUME SplitAssumption == Texts \subseteq Seq(Chars) /\ Separators \subseteq Seq(Chars)

VARIABLES
  str, seq, add_empty,  \* the arguments
  start_pos,            \* where the current piece starts
  rv,                   \* the pieces to return
  pieces,               \* history: all the pieces, the empty ones included
  returned              \* whether split_on has returned

splitVars == <<str, seq, add_empty, start_pos, rv, pieces, returned>>

OccursAt(p) ==
  /\ p + Len(seq) <= Len(str)
  /\ SubSeq(str, p + 1, p + Len(seq)) = seq

\* std::string::find: the first occurrence of seq from start_pos on.
IsFirst(p) == OccursAt(p) /\ \A r \in start_pos .. p - 1 : ~OccursAt(r)

NotFound == \A p \in start_pos .. Len(str) : ~OccursAt(p)

Piece(from, length) == [from |-> from, length |-> length]

\* Mutant: empty pieces are always kept.
AddAlways(from, length) ==
  /\ pieces' = Append(pieces, Piece(from, length))
  /\ rv' = Append(rv, Piece(from, length))

Add(from, length) ==
  /\ pieces' = Append(pieces, Piece(from, length))
  /\ rv' = IF length > 0 \/ add_empty THEN Append(rv, Piece(from, length)) ELSE rv

SplitInit ==
  /\ str \in Texts
  /\ seq \in Separators
  /\ add_empty \in BOOLEAN
  /\ start_pos = 0
  /\ rv = <<>>
  /\ pieces = <<>>
  /\ returned = FALSE

\* Nothing to split on: the whole string is the only piece, even an empty one.
ReturnWhole ==
  /\ ~returned
  /\ seq = <<>>
  /\ rv' = <<Piece(0, Len(str))>>
  /\ pieces' = rv'
  /\ returned' = TRUE
  /\ UNCHANGED <<str, seq, add_empty, start_pos>>

\* Mutants: a pass that finds an empty piece changes nothing; the search goes on
\* one character after.
CutSkipsEmpty ==
  /\ ~returned
  /\ seq # <<>>
  /\ start_pos < Len(str)
  /\ \E p \in start_pos + 1 .. Len(str) :
       /\ IsFirst(p)
       /\ Add(start_pos, p - start_pos)
       /\ start_pos' = p + Len(seq)
  /\ UNCHANGED <<str, seq, add_empty, returned>>

CutOverlapping ==
  /\ ~returned
  /\ seq # <<>>
  /\ start_pos < Len(str)
  /\ \E p \in start_pos .. Len(str) :
       /\ IsFirst(p)
       /\ Add(start_pos, p - start_pos)
       /\ start_pos' = p + 1
  /\ UNCHANGED <<str, seq, add_empty, returned>>

CutAtNext ==
  /\ ~returned
  /\ seq # <<>>
  /\ start_pos < Len(str)
  /\ \E p \in start_pos .. Len(str) :
       /\ IsFirst(p)
       /\ Add(start_pos, p - start_pos)
       /\ start_pos' = p + Len(seq)
  /\ UNCHANGED <<str, seq, add_empty, returned>>

\* Mutant: an occurrence at the very end is not looked for.
ReturnRestEarly ==
  /\ ~returned
  /\ seq # <<>>
  /\ start_pos + Len(seq) < Len(str) => NotFound
  /\ Add(start_pos, Len(str) - start_pos)
  /\ returned' = TRUE
  /\ UNCHANGED <<str, seq, add_empty, start_pos>>

ReturnRest ==
  /\ ~returned
  /\ seq # <<>>
  /\ start_pos < Len(str) => NotFound
  /\ Add(start_pos, Len(str) - start_pos)
  /\ returned' = TRUE
  /\ UNCHANGED <<str, seq, add_empty, start_pos>>

SplitNext == ReturnWhole \/ CutAtNext \/ ReturnRest

SplitSpec == SplitInit /\ [][SplitNext]_splitVars /\ WF_splitVars(SplitNext)

-----------------------------------------------------------------------------
End(x) == x.from + x.length

\* The variables have their types.
SplitTypeOK ==
  /\ str \in Seq(Chars)
  /\ seq \in Seq(Chars)
  /\ add_empty \in BOOLEAN
  /\ start_pos \in 0 .. Len(str)
  /\ rv \in Seq([from : 0 .. Len(str), length : 0 .. Len(str)])
  /\ pieces \in Seq([from : 0 .. Len(str), length : 0 .. Len(str)])
  /\ returned \in BOOLEAN

\* The pieces lie one after the other, seq between any two of them, and cover
\* the string: joined with seq they are the string again.
Tiles ==
  /\ pieces # <<>> => pieces[1].from = 0
  /\ \A k \in 1 .. Len(pieces) - 1 :
       OccursAt(End(pieces[k])) /\ pieces[k + 1].from = End(pieces[k]) + Len(seq)
  /\ returned => pieces # <<>> /\ End(pieces[Len(pieces)]) = Len(str)

\* Every cut is at the first occurrence that it can be at: no piece contains
\* seq, not even across its end.
CutsAreFirst ==
  seq # <<>> => \A k \in 1 .. Len(pieces) :
                  \A p \in pieces[k].from .. End(pieces[k]) - 1 : ~OccursAt(p)

\* The current piece starts after the last cut.
StartIsNext ==
  ~returned =>
    IF pieces = <<>>
    THEN start_pos = 0
    ELSE /\ seq # <<>>
         /\ OccursAt(End(pieces[Len(pieces)]))
         /\ start_pos = End(pieces[Len(pieces)]) + Len(seq)

\* Holds at every step of split_on.
SplitInv == SplitTypeOK /\ StartIsNext /\ Tiles /\ CutsAreFirst

\* What is returned, in the order of the string: all pieces, or those that are not
\* empty.
Wanted(x) == add_empty \/ x.length > 0 \/ seq = <<>>

ReturnsWanted ==
  /\ {rv[k] : k \in DOMAIN rv} = {x \in {pieces[k] : k \in DOMAIN pieces} : Wanted(x)}
  /\ \A k, m \in DOMAIN rv : k < m => rv[k].from < rv[m].from
=============================================================================
