--------------------------- MODULE EditFastProofs ---------------------------
(***************************************************************************)
(* edit_fast computes the cells of edit_matrix in the same order, for all  *)
(* strings, and returns what edit_matrix returns: the inductive invariant  *)
(* FastInv says which cells of the matrix its column holds.                *)
(***************************************************************************)
EXTENDS EditFast, FiniteSetTheorems, SequenceTheorems, TLAPS

LEMMA LeastType ==
  ASSUME NEW x \in Nat, NEW y \in Nat, NEW z \in Nat
  PROVE  Matrix!Least(x, y, z) \in Nat
BY DEF Matrix!Least

LEMMA SizesType ==
  ASSUME TypeOK
  PROVE  items_per_col \in Nat /\ number_of_cols \in Nat
BY DEF TypeOK, items_per_col, number_of_cols

LEMMA FastInit == Init => FastInv
<1>. SUFFICES ASSUME Init PROVE FastInv
  OBVIOUS
<1>1. first \in Seq(Chars) /\ second \in Seq(Chars)
  BY TextsAssumption DEF Init
<1>2. items_per_col \in Nat /\ number_of_cols \in Nat
  BY <1>1 DEF items_per_col, number_of_cols
<1>3. matrix \in [0 .. items_per_col -> [0 .. number_of_cols -> Nat]]
  BY <1>2 DEF Init, Matrix!Borders, Matrix!items_per_col, Matrix!number_of_cols,
              items_per_col, number_of_cols
<1>4. TypeOK
  BY <1>1, <1>2, <1>3 DEF Init, TypeOK
<1>5. \A p \in 0 .. items_per_col, q \in 0 .. number_of_cols :
        matrix[p][q] = IF q = 0 THEN p ELSE IF p = 0 THEN q ELSE 0
  BY DEF Init, Matrix!Borders, Matrix!items_per_col, Matrix!number_of_cols,
         items_per_col, number_of_cols
<1>6. ColumnHolds
  BY <1>2, <1>5 DEF Init, ColumnHolds
<1>. QED
  BY <1>4, <1>6 DEF FastInv

\* The item that is updated gets the value of the cell that edit_matrix fills.
LEMMA ItemIsCell ==
  ASSUME FastInv, UpdateItem
  PROVE  /\ j \in 1 .. number_of_cols
         /\ Matrix!Change(i, j) \in Nat
         /\ col'[i] = Matrix!Cell(matrix, i, j)
         /\ col'[i] \in Nat
         /\ col' = [col EXCEPT ![i] = col'[i]]
         /\ matrix' = [matrix EXCEPT ![i][j] = Matrix!Cell(matrix, i, j)]
<1>1. items_per_col \in Nat /\ number_of_cols \in Nat
  BY SizesType DEF FastInv
<1>2. i \in 1 .. items_per_col /\ j \in 1 .. number_of_cols
        /\ i \in 0 .. items_per_col /\ i - 1 \in 0 .. items_per_col
  BY <1>1 DEF UpdateItem, FastInv, TypeOK
<1>3. Matrix!Change(i, j) \in Nat
  BY DEF Matrix!Change
<1>4. /\ col[i - 1] = matrix[i - 1][j]
      /\ col[i] = matrix[i][j - 1]
      /\ last = matrix[i - 1][j - 1]
  BY <1>1, <1>2 DEF FastInv, ColumnHolds
<1>5. /\ col \in [0 .. items_per_col -> Nat]
      /\ col[i - 1] + 1 \in Nat /\ col[i] + 1 \in Nat /\ last + Matrix!Change(i, j) \in Nat
  <2>1. col \in [0 .. items_per_col -> Nat] /\ last \in Nat
    BY DEF FastInv, TypeOK
  <2>. HIDE DEF items_per_col
  <2>. QED
    BY <1>2, <1>3, <2>1
<1>. DEFINE v == Matrix!Least(col[i - 1] + 1, col[i] + 1, last + Matrix!Change(i, j))
<1>6. v \in Nat
  BY <1>5, LeastType
<1>7. v = Matrix!Cell(matrix, i, j)
  BY <1>4 DEF Matrix!Cell
<1>8. col' = [col EXCEPT ![i] = v] /\ matrix' = [matrix EXCEPT ![i][j] = col'[i]]
  BY DEF UpdateItem
<1>. HIDE DEF v
<1>9. col'[i] = v
  BY <1>2, <1>5, <1>8
<1>. QED
  BY <1>2, <1>3, <1>6, <1>7, <1>8, <1>9

LEMMA FastStep == FastInv /\ [Next]_vars => FastInv'
<1>. SUFFICES ASSUME FastInv, [Next]_vars PROVE FastInv'
  OBVIOUS
<1>. USE DEF FastInv
<1>1. items_per_col \in Nat /\ number_of_cols \in Nat
  BY SizesType
<1>2. first' = first /\ second' = second
        /\ items_per_col' = items_per_col /\ number_of_cols' = number_of_cols
  BY DEF Next, StartColumn, UpdateItem, EndColumn, vars, items_per_col, number_of_cols
<1>3. CASE StartColumn
  <2>1. TypeOK'
    BY <1>1, <1>2, <1>3 DEF StartColumn, TypeOK
  <2>2. /\ i = 0 /\ i' = 1 /\ j' = j /\ last' = j - 1 /\ matrix' = matrix
        /\ col' = [col EXCEPT ![0] = j]
        /\ j \in 1 .. number_of_cols
        /\ col \in [0 .. items_per_col -> Nat]
    BY <1>1, <1>3 DEF StartColumn, TypeOK
  <2>3. /\ \A p \in 0 .. items_per_col : col[p] = matrix[p][j - 1]
        /\ \A p \in 0 .. items_per_col : matrix[p][0] = p
        /\ \A q \in 0 .. number_of_cols : matrix[0][q] = q
    BY <1>1, <2>2 DEF ColumnHolds
  <2>4. col'[0] = j /\ matrix[0][j] = j /\ matrix[0][j - 1] = j - 1
    BY <1>1, <2>2, <2>3
  <2>5. ASSUME NEW p \in 0 .. items_per_col
        PROVE  col'[p] = IF p < 1 THEN matrix[p][j] ELSE matrix[p][j - 1]
    <3>1. CASE p = 0
      BY <2>4, <3>1
    <3>2. CASE p # 0
      BY <1>1, <2>2, <2>3, <3>2
    <3>. QED
      BY <3>1, <3>2
  <2>6. ColumnHolds'
    BY <1>2, <2>2, <2>3, <2>4, <2>5 DEF ColumnHolds
  <2>. QED
    BY <2>1, <2>6
<1>4. CASE UpdateItem
  <2>. DEFINE v == Matrix!Cell(matrix, i, j)
  <2>1. /\ i \in 1 .. items_per_col /\ i' = i + 1 /\ last' = col[i] /\ j' = j
        /\ j \in 1 .. number_of_cols /\ v \in Nat
        /\ col' = [col EXCEPT ![i] = v]
        /\ matrix' = [matrix EXCEPT ![i][j] = v]
    BY <1>4, ItemIsCell DEF UpdateItem
  <2>. HIDE DEF v
  <2>2. matrix' \in [0 .. items_per_col -> [0 .. number_of_cols -> Nat]]
    BY <1>1, <2>1 DEF TypeOK
  <2>3. TypeOK'
    <3>1. /\ first \in Seq(Chars) /\ second \in Seq(Chars)
          /\ col \in [0 .. items_per_col -> Nat]
      BY DEF TypeOK
    <3>2. i \in 0 .. items_per_col /\ col[i] \in Nat
      BY <1>1, <2>1, <3>1
    <3>3. i' \in 0 .. items_per_col + 1 /\ j' \in 1 .. number_of_cols + 1
            /\ j' <= number_of_cols
      BY <1>1, <2>1
    <3>4. col' \in [0 .. items_per_col -> Nat] /\ last' \in Nat
      BY <2>1, <3>1, <3>2
    <3>. QED
      BY <1>2, <2>2, <3>1, <3>3, <3>4 DEF TypeOK
  <2>4. /\ matrix'[i][j] = v
        /\ \A p \in 0 .. items_per_col, q \in 0 .. number_of_cols :
             p # i \/ q # j => matrix'[p][q] = matrix[p][q]
    <3>1. matrix \in [0 .. items_per_col -> [0 .. number_of_cols -> Nat]]
      BY DEF TypeOK
    <3>2. i \in 0 .. items_per_col /\ j \in 0 .. number_of_cols
      BY <1>1, <2>1
    <3>. QED
      BY <2>1, <3>1, <3>2
  <2>5. ColumnHolds'
    <3>1. /\ i \in Nat /\ i > 0 /\ j \in Nat /\ j > 0
          /\ i - 1 \in 0 .. items_per_col /\ i \in 0 .. items_per_col
          /\ j - 1 \in 0 .. number_of_cols /\ j \in 0 .. number_of_cols
      BY <1>1, <2>1
    <3>2. ASSUME NEW p \in 0 .. items_per_col
          PROVE  col'[p] = IF p < i' THEN matrix'[p][j'] ELSE matrix'[p][j' - 1]
      <4>1. /\ p \in Nat
            /\ col[p] = IF p < i THEN matrix[p][j] ELSE matrix[p][j - 1]
            /\ matrix'[p][j - 1] = matrix[p][j - 1]
        BY <1>1, <2>4, <3>1 DEF ColumnHolds
      <4>2. CASE p = i
        <5>1. col'[p] = v
          BY <2>1, <3>1, <4>2 DEF TypeOK
        <5>. QED
          BY <2>1, <2>4, <3>1, <4>2, <5>1
      <4>3. CASE p # i
        <5>1. col'[p] = col[p] /\ matrix'[p][j] = matrix[p][j]
          BY <2>1, <2>4, <3>1, <4>3 DEF TypeOK
        <5>. QED
          BY <2>1, <3>1, <4>1, <4>3, <5>1
      <4>. QED
        BY <4>2, <4>3
    <3>3. last' = matrix'[i' - 1][j' - 1]
      <4>1. i' - 1 = i /\ j' - 1 = j - 1 /\ j - 1 # j
        BY <2>1, <3>1
      <4>2. col[i] = matrix[i][j - 1]
        BY <3>1 DEF ColumnHolds
      <4>3. matrix'[i][j - 1] = matrix[i][j - 1]
        BY <2>4, <3>1, <4>1
      <4>. QED
        BY <2>1, <4>1, <4>2, <4>3
    <3>4. ASSUME NEW p \in 0 .. items_per_col PROVE matrix'[p][0] = p
      BY <1>1, <2>4, <3>1 DEF ColumnHolds
    <3>5. ASSUME NEW q \in 0 .. number_of_cols PROVE matrix'[0][q] = q
      BY <1>1, <2>4, <3>1 DEF ColumnHolds
    <3>. QED
      BY <1>2, <3>2, <3>3, <3>4, <3>5 DEF ColumnHolds
  <2>. QED
    BY <2>3, <2>5
<1>5. CASE EndColumn
  <2>1. TypeOK'
    BY <1>1, <1>2, <1>5 DEF EndColumn, TypeOK
  <2>2. ColumnHolds'
    BY <1>1, <1>2, <1>5 DEF EndColumn, TypeOK, ColumnHolds
  <2>. QED
    BY <2>1, <2>2
<1>6. CASE UNCHANGED vars
  BY <1>2, <1>6 DEF vars, TypeOK, ColumnHolds
<1>. QED
  BY <1>3, <1>4, <1>5, <1>6 DEF Next

\* The column holds the cells of the matrix that the remaining steps read.
THEOREM FastCorrect == Spec => []FastInv
  BY FastInit, FastStep, PTL DEF Spec

-----------------------------------------------------------------------------
(***************************************************************************)
(* edit_fast implements edit_matrix.                                       *)
(***************************************************************************)
LEMMA FollowsInit == Init => Matrix!Init
  BY DEF Init, Matrix!Init

LEMMA FollowsStep == FastInv /\ [Next]_vars => [Matrix!Next]_Matrix!vars
<1>. SUFFICES ASSUME FastInv, [Next]_vars PROVE [Matrix!Next]_Matrix!vars
  OBVIOUS
<1>1. items_per_col \in Nat /\ number_of_cols \in Nat /\ i \in Nat
        /\ items_per_col = Matrix!items_per_col
        /\ number_of_cols = Matrix!number_of_cols
  BY SizesType DEF FastInv, TypeOK, items_per_col, number_of_cols,
                   Matrix!items_per_col, Matrix!number_of_cols
<1>2. CASE StartColumn
  BY <1>2 DEF StartColumn, Matrix!vars
<1>3. CASE UpdateItem
  <2>1. /\ matrix' = [matrix EXCEPT ![i][j] = Matrix!Cell(matrix, i, j)]
        /\ j <= number_of_cols /\ i <= items_per_col
        /\ i > 0 /\ i' = i + 1 /\ UNCHANGED <<first, second, j>>
    BY <1>1, <1>3, ItemIsCell DEF UpdateItem
  <2>2. (IF i = 0 THEN 1 ELSE i) = i /\ (IF i' = 0 THEN 1 ELSE i') = i + 1
    BY <1>1, <2>1
  <2>3. Matrix!FillCell
    BY <1>1, <2>1, <2>2 DEF Matrix!FillCell
  <2>. QED
    BY <2>3 DEF Matrix!Next
<1>4. CASE EndColumn
  BY <1>1, <1>4 DEF EndColumn, FastInv, TypeOK, Matrix!Next, Matrix!NextColumn
<1>5. CASE UNCHANGED vars
  BY <1>5 DEF vars, Matrix!vars
<1>. QED
  BY <1>2, <1>3, <1>4, <1>5 DEF Next

\* Every run of edit_fast fills the matrix as a run of edit_matrix does.
THEOREM FastImplementsMatrix == Spec => FastFollowsMatrix
  BY FastCorrect, FollowsInit, FollowsStep, PTL DEF Spec, FastFollowsMatrix, Matrix!Spec

-----------------------------------------------------------------------------
(***************************************************************************)
(* So what is proved of edit_matrix holds of edit_fast.                    *)
(***************************************************************************)
MatrixProofs == INSTANCE EditMatrixProofs WITH i <- IF i = 0 THEN 1 ELSE i

LEMMA SameMatrix ==
  /\ Matrix!Init => MatrixProofs!Init
  /\ [Matrix!Next]_Matrix!vars => [MatrixProofs!Next]_MatrixProofs!vars
  /\ MatrixProofs!DistanceIsLeast => Matrix!DistanceIsLeast
<1>1. Matrix!Init => MatrixProofs!Init
  BY DEF Matrix!Init, MatrixProofs!Init, Matrix!Borders, MatrixProofs!Borders,
         Matrix!items_per_col, MatrixProofs!items_per_col,
         Matrix!number_of_cols, MatrixProofs!number_of_cols
<1>2. [Matrix!Next]_Matrix!vars => [MatrixProofs!Next]_MatrixProofs!vars
  BY DEF Matrix!Next, MatrixProofs!Next, Matrix!vars, MatrixProofs!vars,
         Matrix!FillCell, MatrixProofs!FillCell, Matrix!Cell, MatrixProofs!Cell,
         Matrix!Least, MatrixProofs!Least, Matrix!Change, MatrixProofs!Change,
         Matrix!NextColumn, MatrixProofs!NextColumn,
         Matrix!items_per_col, MatrixProofs!items_per_col,
         Matrix!number_of_cols, MatrixProofs!number_of_cols
<1>3. MatrixProofs!DistanceIsLeast => Matrix!DistanceIsLeast
  <2>. DEFINE m == Len(first)
              n == Len(second)
              keeps == Matrix!Keeps(m, n)
  <2>1. ASSUME NEW k
        PROVE  MatrixProofs!Cost(k, m, n) = Matrix!Cost(k, m, n)
    <3>1. MatrixProofs!Replaced(k) = Matrix!Replaced(k)
      BY DEF Matrix!Replaced, MatrixProofs!Replaced
    <3>2. ASSUME NEW s PROVE MatrixProofs!Cardinality(s) = Matrix!Cardinality(s)
      BY Zenon DEF Matrix!Cardinality, MatrixProofs!Cardinality
    <3>. QED
      BY <3>1, <3>2 DEF Matrix!Cost, MatrixProofs!Cost
  <2>2. MatrixProofs!Keeps(m, n) = keeps
    BY DEF Matrix!Keeps, MatrixProofs!Keeps
  <2>3. MatrixProofs!Filled = Matrix!Filled /\ MatrixProofs!distance = Matrix!distance
    BY DEF Matrix!Filled, MatrixProofs!Filled, Matrix!distance, MatrixProofs!distance,
           Matrix!items_per_col, MatrixProofs!items_per_col,
           Matrix!number_of_cols, MatrixProofs!number_of_cols
  <2>. DEFINE d == Matrix!distance
              full == Matrix!Filled
              mcosts == {MatrixProofs!Cost(k, m, n) : k \in keeps}
              costs == {Matrix!Cost(k, m, n) : k \in keeps}
  <2>4. mcosts = costs
    BY <2>1
  <2>5. MatrixProofs!DistanceIsLeast <=>
          (full => d \in mcosts /\ \A e \in mcosts : d <= e)
    BY <2>2, <2>3 DEF MatrixProofs!DistanceIsLeast,
                      MatrixProofs!items_per_col, MatrixProofs!number_of_cols
  <2>6. Matrix!DistanceIsLeast <=> (full => d \in costs /\ \A e \in costs : d <= e)
    BY DEF Matrix!DistanceIsLeast, Matrix!items_per_col, Matrix!number_of_cols
  <2>. HIDE DEF d, full, mcosts, costs
  <2>. QED
    BY <2>4, <2>5, <2>6
<1>. QED
  BY <1>1, <1>2, <1>3

LEMMA DoneReturns == FastInv /\ Matrix!DistanceIsLeast => ReturnsDistance
<1>. SUFFICES ASSUME FastInv, Matrix!DistanceIsLeast, Done
     PROVE  distance = Matrix!distance /\ Matrix!DistanceIsLeast
  BY DEF ReturnsDistance
<1>1. items_per_col \in Nat /\ number_of_cols \in Nat /\ j = number_of_cols + 1 /\ i = 0
  BY SizesType DEF FastInv, TypeOK, Done
<1>2. items_per_col \in 0 .. items_per_col /\ ~(items_per_col < i)
  BY <1>1
<1>3. col[items_per_col] = matrix[items_per_col][j - 1]
  BY <1>2 DEF FastInv, ColumnHolds
<1>4. j - 1 = number_of_cols
  BY <1>1
<1>. QED
  BY <1>3, <1>4 DEF distance, Matrix!distance, Matrix!items_per_col,
                    Matrix!number_of_cols, items_per_col, number_of_cols

\* edit_fast returns the least number of single-character edits.
THEOREM FastReturnsDistance == Spec => []ReturnsDistance
<1>1. MatrixProofs!Spec => []MatrixProofs!DistanceIsLeast
  BY TextsAssumption, MatrixProofs!ResultLeast
<1>2. Spec => MatrixProofs!Spec
  BY FastImplementsMatrix, SameMatrix, PTL
     DEF FastFollowsMatrix, Matrix!Spec, MatrixProofs!Spec
<1>. QED
  BY <1>1, <1>2, FastCorrect, SameMatrix, DoneReturns, PTL
=============================================================================
