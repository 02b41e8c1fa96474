----------------------------- MODULE EditMatrix -----------------------------
(***************************************************************************)
(* algorithm/string_distances.hpp, edit_matrix: the edit distance of two   *)
(* strings from a matrix whose cell p, q is the distance of the first p    *)
(* characters of the one to the first q of the other.                      *)
(*                                                                         *)
(* One action fills one cell, in the order of the two loops.  Filling row  *)
(* 0 and column 0 is part of the initial state.                            *)
(***************************************************************************)
EXTENDS Integers, Sequences, FiniteSets

CONSTANTS Chars,  \* the characters
          Texts   \* the strings that are compared

ASSUME TextsAssumption == Texts \subseteq Seq(Chars)

VARIABLES
  first, second,  \* the arguments
  matrix,         \* matrix[p][q]
  i, j            \* the loop counters

vars == <<first, second, matrix, i, j>>

items_per_col  == Len(first)
number_of_cols == Len(second)

\* Mutant: the third is not looked at.
LeastOfTwo(x, y, z) == IF x < y THEN x ELSE y

\* The least of three, by the two comparisons of algorithm::min.
Least(x, y, z) == IF x < y THEN IF x < z THEN x ELSE z
                           ELSE IF y < z THEN y ELSE z

\* Mutant: the comparison is the wrong way round.
ChangeSwapped(p, q) == IF first[p] # second[q] THEN 0 ELSE 1

\* What it costs to make character p of first character q of second.
Change(p, q) == IF first[p] = second[q] THEN 0 ELSE 1

\* Cell p, q from its three neighbours.
Cell(m, p, q) ==
  Least(m[p - 1][q] + 1, m[p][q - 1] + 1, m[p - 1][q - 1] + Change(p, q))

Borders == [p \in 0 .. items_per_col |->
              [q \in 0 .. number_of_cols |->
                 IF q = 0 THEN p ELSE IF p = 0 THEN q ELSE 0]]

Init ==
  /\ first \in Texts
  /\ second \in Texts
  /\ matrix = Borders
  /\ i = 1
  /\ j = 1

FillCell ==
  /\ j <= number_of_cols
  /\ i <= items_per_col
  /\ matrix' = [matrix EXCEPT ![i][j] = Cell(matrix, i, j)]
  /\ i' = i + 1
  /\ UNCHANGED <<first, second, j>>

NextColumn ==
  /\ j <= number_of_cols
  /\ i > items_per_col
  /\ i' = 1
  /\ j' = j + 1
  /\ UNCHANGED <<first, second, matrix>>

Next == FillCell \/ NextColumn

Spec == Init /\ [][Next]_vars

Filled == j > number_of_cols

\* What is returned once the matrix is filled.
distance == matrix[items_per_col][number_of_cols]

-----------------------------------------------------------------------------
(***************************************************************************)
(* The distance, told without a matrix: characters of the one string are   *)
(* kept for characters of the other without crossing; those kept for a     *)
(* different one are replaced, the others deleted or inserted.             *)
(***************************************************************************)
Keeps(p, q) ==
  {k \in SUBSET ((1 .. p) \X (1 .. q)) :
     \A x, y \in k : x # y => \/ x[1] < y[1] /\ x[2] < y[2]
                              \/ x[1] > y[1] /\ x[2] > y[2]}

Replaced(k) == {x \in k : first[x[1]] # second[x[2]]}

Cost(k, p, q) == (p - Cardinality(k)) + (q - Cardinality(k)) + Cardinality(Replaced(k))

\* The result is the least number of single-character edits.
DistanceIsLeast ==
  Filled => LET edits == {Cost(k, items_per_col, number_of_cols) :
                            k \in Keeps(items_per_col, number_of_cols)}
            IN  /\ distance \in edits
                /\ \A e \in edits : distance <= e

-----------------------------------------------------------------------------
Rows == 0 .. items_per_col
Cols == 0 .. number_of_cols

\* The variables have their types.
TypeOK ==
  /\ first \in Seq(Chars)
  /\ second \in Seq(Chars)
  /\ matrix \in [Rows -> [Cols -> Nat]]
  /\ i \in 1 .. items_per_col + 1
  /\ j \in 1 .. number_of_cols + 1

\* The cells whose distance is known.
Known(p, q) == p = 0 \/ q = 0 \/ q < j \/ (q = j /\ p < i)

SamePrefix(p, q) == p = q /\ \A k \in 1 .. p : first[k] = second[k]

CellInBounds(p, q) ==
  /\ p - q <= matrix[p][q]
  /\ q - p <= matrix[p][q]
  /\ matrix[p][q] <= p \/ matrix[p][q] <= q
  /\ matrix[p][q] = 0 <=> SamePrefix(p, q)

\* Holds of every cell once it is filled.
MatrixInv == TypeOK /\ \A p \in Rows, q \in Cols : Known(p, q) => CellInBounds(p, q)

\* A cell is the least cost of making the one prefix the other.
CellLeast(p, q) ==
  /\ \E k \in Keeps(p, q) : Cost(k, p, q) = matrix[p][q]
  /\ \A k \in Keeps(p, q) : matrix[p][q] <= Cost(k, p, q)

\* Holds the least cost of its prefixes: every cell once it is filled.
LeastInv == TypeOK /\ \A p \in Rows, q \in Cols : Known(p, q) => CellLeast(p, q)
=============================================================================
