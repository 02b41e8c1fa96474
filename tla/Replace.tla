------------------------------ MODULE Replace ------------------------------
(***************************************************************************)
(* util/string.hpp, replace: every occurrence of seq in str replaced.      *)
(* replace splits str on seq, empty pieces included (Split), reserves the  *)
(* memory for the result and joins the pieces with the replacement.        *)
(*                                                                         *)
(* The size to reserve is computed with unsigned numbers of WordSize       *)
(* values; a std::string of more than MaxString characters cannot be.      *)
(***************************************************************************)
EXTENDS Split

CONSTANTS Replacements,  \* what seq is replaced with
          WordSize,      \* how many values std::size_t has
          MaxString      \* std::string::max_size

ASSUME ReplaceAssumption ==
  /\ Replacements \subseteq Seq(Chars)
  /\ WordSize \in Nat /\ MaxString \in Nat /\ 2 * MaxString < WordSize
  /\ \A s \in Texts \cup Separators \cup Replacements : Len(s) <= MaxString

VARIABLES
  replacement,  \* the third argument
  out,          \* the result so far
  it,           \* the piece to append next; 0 before memory is reserved
  outcome       \* "none", "returned", or "threw" for std::length_error

joinVars == <<replacement, out, it, outcome>>
vars == <<splitVars, joinVars>>

Init ==
  /\ SplitInit
  /\ add_empty = TRUE
  /\ replacement \in Replacements
  /\ out = <<>>
  /\ it = 0
  /\ outcome = "none"

SplitStep == SplitNext /\ UNCHANGED joinVars

\* Mutant: as if the size were signed.
SignedCapacity == Len(str) + (Len(replacement) - Len(seq)) * Len(rv)

\* What is asked of std::string::reserve.
Capacity == (Len(str) + (Len(replacement) - Len(seq)) * Len(rv)) % WordSize

Reserve ==
  /\ returned
  /\ it = 0
  /\ outcome = "none"
  /\ Capacity <= MaxString
  /\ it' = 1
  /\ UNCHANGED <<splitVars, replacement, out, outcome>>

ReserveThrows ==
  /\ returned
  /\ it = 0
  /\ outcome = "none"
  /\ Capacity > MaxString
  /\ outcome' = "threw"
  /\ UNCHANGED <<splitVars, replacement, out, it>>

Characters(x) == SubSeq(str, x.from + 1, x.from + x.length)

AppendPiece ==
  /\ outcome = "none"
  /\ it \in 1 .. Len(rv) - 1
  /\ out' = out \o Characters(rv[it]) \o replacement
  /\ it' = it + 1
  /\ UNCHANGED <<splitVars, replacement, outcome>>

AppendLast ==
  /\ outcome = "none"
  /\ it > 0
  /\ it = Len(rv)
  /\ out' = out \o Characters(rv[it])
  /\ outcome' = "returned"
  /\ UNCHANGED <<splitVars, replacement, it>>

Next == SplitStep \/ Reserve \/ ReserveThrows \/ AppendPiece \/ AppendLast

Spec == Init /\ [][Next]_vars /\ WF_vars(Next)

-----------------------------------------------------------------------------
\* A string in which seq does not occur is returned as it is.
AbsentReturnsSame ==
  outcome # "none" /\ (\A p \in 0 .. Len(str) : ~OccursAt(p)) =>
    outcome = "returned" /\ out = str

\* The result told without pieces, from every position on: where q is next in s it
\* is replaced by r as a whole, and any other character is kept.
ReplacedFrom(s, q, r) ==
  LET rest[p \in 0 .. Len(s)] ==
        IF p = Len(s) THEN <<>>
        ELSE IF q # <<>> /\ p + Len(q) <= Len(s) /\ SubSeq(s, p + 1, p + Len(q)) = q
             THEN r \o rest[p + Len(q)]
             ELSE <<s[p + 1]>> \o rest[p + 1]
  IN rest

Replaced == ReplacedFrom(str, seq, replacement)[0]

\* What replace returns is str with every occurrence of seq replaced.
ReturnsReplaced == outcome = "returned" => out = Replaced

\* Of a result that fits, with room for one piece more, replace throws if and only
\* if it is shorter than seq is longer than the replacement: the size to reserve is
\* then less than zero.
ThrowsForShortResults ==
  outcome # "none" /\ Len(Replaced) + Len(replacement) <= MaxString + Len(seq) =>
    (outcome = "threw" <=> Len(Replaced) + Len(replacement) < Len(seq))

\* The reason: as long as the string is cut, what is cut off and the rest tell the
\* size; as long as the pieces are joined, what is joined and the rest of the string
\* make the result.
Rest(p) == ReplacedFrom(str, seq, replacement)[p]
Gain    == Len(replacement) - Len(seq)

SizeIsKnown ==
  Len(Replaced) = IF returned THEN Len(str) + Gain * (Len(pieces) - 1)
                              ELSE start_pos + Gain * Len(pieces) + Len(Rest(start_pos))

JoinsInOrder ==
  /\ it = 0 => out = <<>> /\ outcome # "returned"
  /\ it > 0 => /\ returned /\ Capacity <= MaxString
               /\ outcome = "none" => Replaced = out \o Rest(pieces[it].from)
  /\ outcome = "threw" => it = 0 /\ returned /\ Capacity > MaxString

ReplaceInv ==
  /\ SplitInv /\ str \in Texts /\ seq \in Separators
  /\ replacement \in Replacements /\ out \in Seq(Chars)
  /\ outcome \in {"none", "returned", "threw"} /\ it \in 0 .. Len(pieces)
  /\ add_empty /\ rv = pieces /\ (seq = <<>> => Len(pieces) <= 1)
  /\ SizeIsKnown /\ JoinsInOrder /\ ReturnsReplaced
=============================================================================
