------------------------------ MODULE EditFast ------------------------------
(***************************************************************************)
(* algorithm/string_distances.hpp, edit_fast: the edit distance with one   *)
(* column of the matrix, overwritten from top to bottom for every          *)
(* character of second.                                                    *)
(*                                                                         *)
(* The cells computed are kept in matrix, which the code does not have: so *)
(* that edit_fast can be compared with edit_matrix.                        *)
(***************************************************************************)
EXTENDS Integers, Sequences, FiniteSets

CONSTANTS Chars,  \* the characters
          Texts   \* the strings that are compared

ASSUME TextsAssumption == Texts \subseteq Seq(Chars)

VARIABLES
  first, second,  \* the arguments
  col,            \* the column
  last,           \* what the cell above the current one was before
  i, j,           \* the loop counters; i is 0 before the inner loop
  matrix          \* history: all the cells

vars == <<first, second, col, last, i, j, matrix>>

Matrix == INSTANCE EditMatrix WITH i <- IF i = 0 THEN 1 ELSE i

items_per_col  == Len(first)
number_of_cols == Len(second)

Init ==
  /\ first \in Texts
  /\ second \in Texts
  /\ col = [p \in 0 .. items_per_col |-> p]
  /\ last = 0
  /\ i = 0
  /\ j = 1
  /\ matrix = Matrix!Borders

\* Mutant: the first item keeps its value.
StartColumnOnly ==
  /\ i = 0
  /\ j <= number_of_cols
  /\ last' = j - 1
  /\ i' = 1
  /\ UNCHANGED <<first, second, col, j, matrix>>

StartColumn ==
  /\ i = 0
  /\ j <= number_of_cols
  /\ col' = [col EXCEPT ![0] = j]
  /\ last' = j - 1
  /\ i' = 1
  /\ UNCHANGED <<first, second, j, matrix>>

\* Mutant: last is not kept up.
UpdateItemOnly ==
  /\ i \in 1 .. items_per_col
  /\ col' = [col EXCEPT ![i] =
               Matrix!Least(col[i - 1] + 1, col[i] + 1, last + Matrix!Change(i, j))]
  /\ i' = i + 1
  /\ matrix' = [matrix EXCEPT ![i][j] = col'[i]]
  /\ UNCHANGED <<first, second, last, j>>

UpdateItem ==
  /\ i \in 1 .. items_per_col
  /\ col' = [col EXCEPT ![i] =
               Matrix!Least(col[i - 1] + 1, col[i] + 1, last + Matrix!Change(i, j))]
  /\ last' = col[i]
  /\ i' = i + 1
  /\ matrix' = [matrix EXCEPT ![i][j] = col'[i]]
  /\ UNCHANGED <<first, second, j>>

EndColumn ==
  /\ i > items_per_col
  /\ i' = 0
  /\ j' = j + 1
  /\ UNCHANGED <<first, second, col, last, matrix>>

Next == StartColumn \/ UpdateItem \/ EndColumn

Spec == Init /\ [][Next]_vars

Done == i = 0 /\ j > number_of_cols

\* What is returned.
distance == col[items_per_col]

-----------------------------------------------------------------------------
\* The variables have their types.
TypeOK ==
  /\ first \in Seq(Chars)
  /\ second \in Seq(Chars)
  /\ col \in [0 .. items_per_col -> Nat]
  /\ last \in Nat
  /\ i \in 0 .. items_per_col + 1
  /\ j \in 1 .. number_of_cols + 1
  /\ i > 0 => j <= number_of_cols
  /\ matrix \in [0 .. items_per_col -> [0 .. number_of_cols -> Nat]]

\* The matrix has column q where the items read it from.
ColumnHolds ==
  /\ \A p \in 0 .. items_per_col :
       col[p] = IF p < i THEN matrix[p][j] ELSE matrix[p][j - 1]
  /\ i > 0 => last = matrix[i - 1][j - 1]
  /\ \A p \in 0 .. items_per_col : matrix[p][0] = p
  /\ \A q \in 0 .. number_of_cols : matrix[0][q] = q

\* Holds at every step of edit_fast: which cells its column and last hold.
FastInv == TypeOK /\ ColumnHolds

\* edit_fast computes the same cells as edit_matrix, in the same order.
FastFollowsMatrix == Matrix!Spec

\* edit_fast returns what edit_matrix returns, which is the least number of
\* single-character edits that make one string the other.
ReturnsDistance ==
  Done => distance = Matrix!distance /\ Matrix!DistanceIsLeast
=============================================================================
