-------------------------- MODULE EditMatrixProofs --------------------------
(***************************************************************************)
(* edit_matrix returns the least number of edits, for all strings: the     *)
(* cells filled so far hold the least costs of their prefixes (LeastInv),  *)
(* because a way to keep characters of two prefixes keeps their last       *)
(* characters for one another or leaves one of them out.                   *)
(***************************************************************************)
EXTENDS EditMatrix, FiniteSetTheorems, SequenceTheorems, TLAPS

LEMMA LeastFacts ==
  ASSUME NEW x \in Nat, NEW y \in Nat, NEW z \in Nat
  PROVE  /\ Least(x, y, z) \in Nat
         /\ Least(x, y, z) \in {x, y, z}
         /\ Least(x, y, z) <= x /\ Least(x, y, z) <= y /\ Least(x, y, z) <= z
BY DEF Least

-----------------------------------------------------------------------------
(***************************************************************************)
(* Types.                                                                  *)
(***************************************************************************)
LEMMA TypeInit == Init => TypeOK
<1>. SUFFICES ASSUME Init PROVE TypeOK
  OBVIOUS
<1>1. first \in Seq(Chars) /\ second \in Seq(Chars)
  BY TextsAssumption DEF Init
<1>2. items_per_col \in Nat /\ number_of_cols \in Nat
  BY <1>1 DEF items_per_col, number_of_cols
<1>3. Borders \in [Rows -> [Cols -> Nat]]
  BY <1>2 DEF Borders, Rows, Cols
<1>. QED
  BY <1>1, <1>2, <1>3 DEF Init, TypeOK

\* What FillCell writes, and what it leaves alone.
LEMMA FillFacts ==
  ASSUME TypeOK, FillCell
  PROVE  /\ i \in 1 .. items_per_col /\ j \in 1 .. number_of_cols
         /\ items_per_col \in Nat /\ number_of_cols \in Nat
         /\ i \in Rows /\ i - 1 \in Rows /\ j \in Cols /\ j - 1 \in Cols
         /\ Change(i, j) \in {0, 1}
         /\ Cell(matrix, i, j) \in Nat
         /\ matrix' \in [Rows -> [Cols -> Nat]]
         /\ matrix'[i][j] = Cell(matrix, i, j)
         /\ \A p \in Rows, q \in Cols :
              p # i \/ q # j => matrix'[p][q] = matrix[p][q]
<1>1. items_per_col \in Nat /\ number_of_cols \in Nat
  BY DEF TypeOK, items_per_col, number_of_cols
<1>2. /\ i \in 1 .. items_per_col /\ j \in 1 .. number_of_cols
      /\ i \in Rows /\ i - 1 \in Rows /\ j \in Cols /\ j - 1 \in Cols
  BY <1>1 DEF TypeOK, FillCell, Rows, Cols
<1>3. Change(i, j) \in {0, 1}
  BY DEF Change
<1>4. /\ matrix[i - 1][j] + 1 \in Nat
      /\ matrix[i][j - 1] + 1 \in Nat
      /\ matrix[i - 1][j - 1] + Change(i, j) \in Nat
  BY <1>2, <1>3 DEF TypeOK
<1>5. Cell(matrix, i, j) \in Nat
  BY <1>4, LeastFacts DEF Cell
<1>. DEFINE c == Cell(matrix, i, j)
<1>6. matrix' = [matrix EXCEPT ![i][j] = c]
  BY DEF FillCell
<1>7. matrix \in [Rows -> [Cols -> Nat]]
  BY DEF TypeOK
<1>. HIDE DEF c
<1>8. /\ matrix' \in [Rows -> [Cols -> Nat]]
      /\ matrix'[i][j] = c
      /\ \A p \in Rows, q \in Cols :
           p # i \/ q # j => matrix'[p][q] = matrix[p][q]
  BY <1>2, <1>5, <1>6, <1>7 DEF c
<1>. QED
  BY <1>1, <1>2, <1>3, <1>5, <1>8 DEF c

LEMMA TypeStep == TypeOK /\ [Next]_vars => TypeOK'
<1>. SUFFICES ASSUME TypeOK, [Next]_vars PROVE TypeOK'
  OBVIOUS
<1>1. CASE FillCell
  BY <1>1, FillFacts DEF FillCell, TypeOK, Rows, Cols, items_per_col, number_of_cols
<1>2. CASE NextColumn
  <2>1. items_per_col \in Nat /\ number_of_cols \in Nat
    BY DEF TypeOK, items_per_col, number_of_cols
  <2>. QED
    BY <1>2, <2>1 DEF NextColumn, TypeOK, Rows, Cols, items_per_col, number_of_cols
<1>3. CASE UNCHANGED vars
  BY <1>3 DEF vars, TypeOK, Rows, Cols, items_per_col, number_of_cols
<1>. QED
  BY <1>1, <1>2, <1>3 DEF Next

\* Which cells are known after a step, and that no known cell changes.
LEMMA KnownStep ==
  ASSUME TypeOK, [Next]_vars, NEW p \in Rows, NEW q \in Cols, Known(p, q)'
  PROVE  \/ Known(p, q) /\ matrix'[p][q] = matrix[p][q]
         \/ FillCell /\ p = i /\ q = j
<1>1. p \in Nat /\ q \in Nat /\ p <= items_per_col /\ items_per_col \in Nat
        /\ number_of_cols \in Nat /\ i \in Nat /\ j \in Nat /\ i >= 1 /\ j >= 1
  BY DEF Rows, Cols, TypeOK, items_per_col, number_of_cols
<1>2. CASE FillCell
  <2>1. i' = i + 1 /\ j' = j
    BY <1>2 DEF FillCell
  <2>2. p = 0 \/ q = 0 \/ q < j \/ (q = j /\ p < i + 1)
    BY <2>1 DEF Known
  <2>3. CASE p = i /\ q = j
    BY <1>2, <2>3
  <2>4. CASE ~(p = i /\ q = j)
    <3>1. Known(p, q)
      BY <1>1, <2>2, <2>4 DEF Known
    <3>2. matrix'[p][q] = matrix[p][q]
      BY <1>2, <2>4, FillFacts
    <3>. QED
      BY <3>1, <3>2
  <2>. QED
    BY <2>3, <2>4
<1>3. CASE NextColumn
  BY <1>1, <1>3 DEF NextColumn, Known
<1>4. CASE UNCHANGED vars
  BY <1>4 DEF vars, Known
<1>. QED
  BY <1>2, <1>3, <1>4 DEF Next

\* The neighbours of the cell that is filled are known.
LEMMA NeighboursKnown ==
  ASSUME TypeOK, FillCell
  PROVE  Known(i - 1, j) /\ Known(i, j - 1) /\ Known(i - 1, j - 1)
  BY FillFacts DEF Known, TypeOK

-----------------------------------------------------------------------------
(***************************************************************************)
(* Bounds.                                                                 *)
(***************************************************************************)
LEMMA SamePrefixStep ==
  ASSUME NEW p \in Nat, NEW q \in Nat, p > 0, q > 0
  PROVE  SamePrefix(p, q) <=> SamePrefix(p - 1, q - 1) /\ Change(p, q) = 0
<1>1. p - 1 = q - 1 <=> p = q
  OBVIOUS
<1>2. (\A k \in 1 .. p : first[k] = second[k])
        <=> (\A k \in 1 .. p - 1 : first[k] = second[k]) /\ first[p] = second[p]
  <2>1. p \in 1 .. p /\ \A k \in 1 .. p : k = p \/ k \in 1 .. p - 1
    OBVIOUS
  <2>2. \A k \in 1 .. p - 1 : k \in 1 .. p
    OBVIOUS
  <2>. QED
    BY <2>1, <2>2
<1>3. Change(p, q) = 0 <=> first[p] = second[q]
  BY DEF Change
<1>. QED
  BY <1>1, <1>2, <1>3 DEF SamePrefix

LEMMA BoundsStep ==
  ASSUME MatrixInv, FillCell, NEW p \in Rows, NEW q \in Cols, p = i, q = j
  PROVE  CellInBounds(p, q)'
<1>1. /\ p \in Nat /\ q \in Nat /\ p > 0 /\ q > 0
      /\ p - 1 \in Rows /\ q - 1 \in Cols
      /\ Change(p, q) \in {0, 1}
      /\ matrix'[p][q] = Cell(matrix, p, q)
  BY FillFacts DEF MatrixInv
<1>2. CellInBounds(p - 1, q) /\ CellInBounds(p, q - 1) /\ CellInBounds(p - 1, q - 1)
  BY <1>1, NeighboursKnown DEF MatrixInv
<1>. DEFINE u == matrix[p - 1][q]
            l == matrix[p][q - 1]
            d == matrix[p - 1][q - 1]
            c == Cell(matrix, p, q)
<1>3. /\ u \in Nat /\ l \in Nat /\ d \in Nat
      /\ (p - 1) - q <= u /\ q - (p - 1) <= u
      /\ p - (q - 1) <= l /\ (q - 1) - p <= l
      /\ (p - 1) - (q - 1) <= d /\ (q - 1) - (p - 1) <= d
      /\ d <= p - 1 \/ d <= q - 1
      /\ d = 0 <=> SamePrefix(p - 1, q - 1)
  BY <1>1, <1>2 DEF CellInBounds, MatrixInv, TypeOK
<1>4. c = Least(u + 1, l + 1, d + Change(p, q))
  BY DEF Cell
<1>. HIDE DEF u, l, d, c
<1>5. /\ c \in Nat
      /\ c \in {u + 1, l + 1, d + Change(p, q)}
      /\ c <= u + 1 /\ c <= l + 1 /\ c <= d + Change(p, q)
  <2>1. u + 1 \in Nat /\ l + 1 \in Nat /\ d + Change(p, q) \in Nat
    BY <1>1, <1>3
  <2>. QED
    BY <1>4, <2>1, LeastFacts
<1>6. p - q <= c /\ q - p <= c /\ (c <= p \/ c <= q)
  BY <1>1, <1>3, <1>5
<1>7. c = 0 <=> d = 0 /\ Change(p, q) = 0
  BY <1>1, <1>3, <1>5
<1>8. c = 0 <=> SamePrefix(p, q)
  BY <1>1, <1>3, <1>7, SamePrefixStep
<1>9. SamePrefix(p, q)' <=> SamePrefix(p, q)
  BY DEF SamePrefix, FillCell
<1>10. matrix'[p][q] = c
  BY <1>1 DEF c
<1>. QED
  BY <1>6, <1>8, <1>9, <1>10 DEF CellInBounds

LEMMA MatrixInit == Init => MatrixInv
<1>. SUFFICES ASSUME Init PROVE MatrixInv
  OBVIOUS
<1>1. TypeOK
  BY TypeInit
<1>2. ASSUME NEW p \in Rows, NEW q \in Cols, Known(p, q)
      PROVE  CellInBounds(p, q)
  <2>1. p \in Nat /\ q \in Nat /\ (p = 0 \/ q = 0)
    BY <1>1, <1>2 DEF Init, Known, Rows, Cols, TypeOK
  <2>2. matrix[p][q] = IF q = 0 THEN p ELSE IF p = 0 THEN q ELSE 0
    BY DEF Init, Borders, Rows, Cols
  <2>3. matrix[p][q] = 0 <=> SamePrefix(p, q)
    BY <2>1, <2>2 DEF SamePrefix
  <2>. QED
    BY <2>1, <2>2, <2>3 DEF CellInBounds
<1>. QED
  BY <1>1, <1>2 DEF MatrixInv

LEMMA MatrixStep == MatrixInv /\ [Next]_vars => MatrixInv'
<1>. SUFFICES ASSUME MatrixInv, [Next]_vars PROVE MatrixInv'
  OBVIOUS
<1>1. TypeOK /\ TypeOK'
  BY TypeStep DEF MatrixInv
<1>2. first' = first /\ second' = second /\ Rows' = Rows /\ Cols' = Cols
  BY DEF Next, FillCell, NextColumn, vars, Rows, Cols, items_per_col, number_of_cols
<1>3. ASSUME NEW p \in Rows, NEW q \in Cols, Known(p, q)'
      PROVE  CellInBounds(p, q)'
  <2>1. CASE Known(p, q) /\ matrix'[p][q] = matrix[p][q]
    <3>1. CellInBounds(p, q)
      BY <2>1 DEF MatrixInv
    <3>. QED
      BY <1>2, <2>1, <3>1 DEF CellInBounds, SamePrefix
  <2>2. CASE FillCell /\ p = i /\ q = j
    BY <2>2, BoundsStep
  <2>. QED
    BY <1>1, <1>3, <2>1, <2>2, KnownStep
<1>. QED
  BY <1>1, <1>2, <1>3 DEF MatrixInv

\* The cells filled so far lie in their bounds, at every step.
THEOREM MatrixCorrect == Spec => []MatrixInv
  BY MatrixInit, MatrixStep, PTL DEF Spec

-----------------------------------------------------------------------------
(***************************************************************************)
(* The least cost.  First, how the ways to keep characters of two prefixes *)
(* come from those of shorter ones.                                        *)
(***************************************************************************)
NoCross(x, y) == \/ x[1] < y[1] /\ x[2] < y[2]
                 \/ x[1] > y[1] /\ x[2] > y[2]

LEMMA KeepsDef ==
  ASSUME NEW p \in Nat, NEW q \in Nat, NEW k
  PROVE  k \in Keeps(p, q) <=>
           /\ \A x \in k : x \in (1 .. p) \X (1 .. q)
           /\ \A x, y \in k : x # y => NoCross(x, y)
BY DEF Keeps, NoCross

LEMMA KeepsCounted ==
  ASSUME NEW p \in Nat, NEW q \in Nat, NEW k \in Keeps(p, q)
  PROVE  /\ IsFiniteSet(k) /\ Cardinality(k) \in Nat
         /\ IsFiniteSet(Replaced(k)) /\ Cardinality(Replaced(k)) \in Nat
         /\ Cost(k, p, q) = p + q - 2 * Cardinality(k) + Cardinality(Replaced(k))
         /\ Cost(k, p, q) \in Int
<1>1. IsFiniteSet((1 .. p) \X (1 .. q))
  <2>1. IsFiniteSet(1 .. p) /\ IsFiniteSet(1 .. q)
    BY FS_Interval
  <2>. QED
    BY <2>1, FS_Product
<1>2. IsFiniteSet(k) /\ Cardinality(k) \in Nat
  BY <1>1, FS_Subset, FS_CardinalityType DEF Keeps
<1>3. Replaced(k) \in SUBSET k
  BY DEF Replaced
<1>4. IsFiniteSet(Replaced(k)) /\ Cardinality(Replaced(k)) \in Nat
  BY <1>2, <1>3, FS_Subset, FS_CardinalityType
<1>. QED
  BY <1>2, <1>4 DEF Cost

\* Deleting the last character of first.
LEMMA DeleteLast ==
  ASSUME NEW p \in Nat, NEW q \in Nat, p > 0, NEW k
  PROVE  /\ k \in Keeps(p - 1, q) =>
              k \in Keeps(p, q) /\ Cost(k, p, q) = Cost(k, p - 1, q) + 1
         /\ k \in Keeps(p, q) /\ (\A x \in k : x[1] # p) => k \in Keeps(p - 1, q)
<1>0. p - 1 \in Nat
  OBVIOUS
<1>1. ASSUME k \in Keeps(p - 1, q)
      PROVE  k \in Keeps(p, q) /\ Cost(k, p, q) = Cost(k, p - 1, q) + 1
  <2>1. (1 .. p - 1) \X (1 .. q) \subseteq (1 .. p) \X (1 .. q)
    BY <1>0
  <2>2. k \in Keeps(p, q)
    BY <1>1, <2>1 DEF Keeps
  <2>. QED
    BY <1>0, <1>1, <2>2, KeepsCounted
<1>2. ASSUME k \in Keeps(p, q), \A x \in k : x[1] # p
      PROVE  k \in Keeps(p - 1, q)
  <2>1. ASSUME NEW x \in k PROVE x \in (1 .. p - 1) \X (1 .. q)
    <3>1. x \in (1 .. p) \X (1 .. q) /\ x[1] # p
      BY <1>2, KeepsDef
    <3>. QED
      BY <3>1
  <2>. QED
    BY <1>0, <1>2, <2>1, KeepsDef
<1>. QED
  BY <1>1, <1>2

\* Inserting the last character of second.
LEMMA InsertLast ==
  ASSUME NEW p \in Nat, NEW q \in Nat, q > 0, NEW k
  PROVE  /\ k \in Keeps(p, q - 1) =>
              k \in Keeps(p, q) /\ Cost(k, p, q) = Cost(k, p, q - 1) + 1
         /\ k \in Keeps(p, q) /\ (\A x \in k : x[2] # q) => k \in Keeps(p, q - 1)
<1>0. q - 1 \in Nat
  OBVIOUS
<1>1. ASSUME k \in Keeps(p, q - 1)
      PROVE  k \in Keeps(p, q) /\ Cost(k, p, q) = Cost(k, p, q - 1) + 1
  <2>1. (1 .. p) \X (1 .. q - 1) \subseteq (1 .. p) \X (1 .. q)
    BY <1>0
  <2>2. k \in Keeps(p, q)
    BY <1>1, <2>1 DEF Keeps
  <2>. QED
    BY <1>0, <1>1, <2>2, KeepsCounted
<1>2. ASSUME k \in Keeps(p, q), \A x \in k : x[2] # q
      PROVE  k \in Keeps(p, q - 1)
  <2>1. ASSUME NEW x \in k PROVE x \in (1 .. p) \X (1 .. q - 1)
    <3>1. x \in (1 .. p) \X (1 .. q) /\ x[2] # q
      BY <1>2, KeepsDef
    <3>. QED
      BY <3>1
  <2>. QED
    BY <1>0, <1>2, <2>1, KeepsDef
<1>. QED
  BY <1>1, <1>2

\* Keeping the last character of first for the last of second.
LEMMA KeepLast ==
  ASSUME NEW p \in Nat, NEW q \in Nat, p > 0, q > 0, NEW k \in Keeps(p - 1, q - 1)
  PROVE  /\ k \cup {<<p, q>>} \in Keeps(p, q)
         /\ Cost(k \cup {<<p, q>>}, p, q) = Cost(k, p - 1, q - 1) + Change(p, q)
<1>. DEFINE e == <<p, q>>
            kk == k \cup {e}
<1>0. p - 1 \in Nat /\ q - 1 \in Nat /\ e[1] = p /\ e[2] = q
        /\ e \in (1 .. p) \X (1 .. q)
  OBVIOUS
<1>1. ASSUME NEW x \in k
      PROVE  /\ x \in (1 .. p) \X (1 .. q)
             /\ x[1] \in Nat /\ x[2] \in Nat /\ x[1] < p /\ x[2] < q
  <2>1. x \in (1 .. p - 1) \X (1 .. q - 1)
    BY <1>0, KeepsDef
  <2>. QED
    BY <2>1
<1>2. e \notin k
  BY <1>0, <1>1
<1>. HIDE DEF e
<1>3. ASSUME NEW x \in kk, NEW y \in kk, x # y PROVE NoCross(x, y)
  <2>1. CASE x \in k /\ y \in k
    BY <1>0, <1>3, <2>1, KeepsDef
  <2>2. CASE x \in k /\ y = e
    BY <1>0, <1>1, <2>2 DEF NoCross
  <2>3. CASE x = e /\ y \in k
    BY <1>0, <1>1, <2>3 DEF NoCross
  <2>. QED
    BY <1>3, <2>1, <2>2, <2>3
<1>4. kk \in Keeps(p, q)
  BY <1>0, <1>1, <1>3, KeepsDef
<1>5. IsFiniteSet(k) /\ Cardinality(k) \in Nat /\ IsFiniteSet(Replaced(k))
        /\ Cardinality(Replaced(k)) \in Nat
        /\ Cost(k, p - 1, q - 1) =
              (p - 1) + (q - 1) - 2 * Cardinality(k) + Cardinality(Replaced(k))
  BY <1>0, KeepsCounted
<1>6. Cardinality(kk) = Cardinality(k) + 1
  BY <1>2, <1>5, FS_AddElement
<1>7. Cardinality(Replaced(kk)) = Cardinality(Replaced(k)) + Change(p, q)
  <2>1. CASE first[p] = second[q]
    <3>1. Replaced(kk) = Replaced(k)
      BY <1>0, <2>1 DEF Replaced
    <3>. QED
      BY <1>5, <2>1, <3>1 DEF Change
  <2>2. CASE first[p] # second[q]
    <3>1. Replaced(kk) = Replaced(k) \cup {e} /\ e \notin Replaced(k)
      BY <1>0, <1>2, <2>2 DEF Replaced
    <3>. QED
      BY <1>5, <2>2, <3>1, FS_AddElement DEF Change
  <2>. QED
    BY <2>1, <2>2
<1>8. Cost(kk, p, q) = p + q - 2 * Cardinality(kk) + Cardinality(Replaced(kk))
  BY <1>4, KeepsCounted
<1>9. Change(p, q) \in {0, 1}
  BY DEF Change
<1>. QED
  BY <1>4, <1>5, <1>6, <1>7, <1>8, <1>9 DEF e

\* Whoever keeps both last characters keeps them for one another.
LEMMA LastKept ==
  ASSUME NEW p \in Nat, NEW q \in Nat, p > 0, q > 0, NEW k \in Keeps(p, q),
         NEW x \in k, x[1] = p, NEW y \in k, y[2] = q
  PROVE  /\ k \ {<<p, q>>} \in Keeps(p - 1, q - 1)
         /\ k = (k \ {<<p, q>>}) \cup {<<p, q>>}
<1>. DEFINE e == <<p, q>>
<1>0. p - 1 \in Nat /\ q - 1 \in Nat /\ e[1] = p /\ e[2] = q
  OBVIOUS
<1>1. x \in (1 .. p) \X (1 .. q) /\ y \in (1 .. p) \X (1 .. q)
  BY KeepsDef
<1>2. x = y
  <2>1. SUFFICES ASSUME x # y PROVE FALSE
    OBVIOUS
  <2>2. NoCross(x, y)
    BY <2>1, KeepsDef
  <2>. QED
    BY <1>1, <2>2 DEF NoCross
<1>3. x = e
  BY <1>1, <1>2
<1>. HIDE DEF e
<1>4. ASSUME NEW z \in k \ {e} PROVE z \in (1 .. p - 1) \X (1 .. q - 1)
  <2>1. z \in (1 .. p) \X (1 .. q) /\ NoCross(z, e)
    BY <1>3, KeepsDef
  <2>. QED
    BY <1>0, <2>1 DEF NoCross
<1>5. k \ {e} \in Keeps(p - 1, q - 1)
  <2>1. \A z, w \in k \ {e} : z # w => NoCross(z, w)
    BY KeepsDef
  <2>. QED
    BY <1>0, <1>4, <2>1, KeepsDef
<1>. QED
  BY <1>3, <1>5 DEF e

LeastCost(v, p, q) == /\ \E k \in Keeps(p, q) : Cost(k, p, q) = v
                      /\ \A k \in Keeps(p, q) : v <= Cost(k, p, q)

\* One empty prefix: nothing is kept.
LEMMA LeastAtBorder ==
  ASSUME NEW p \in Nat, NEW q \in Nat, p = 0 \/ q = 0
  PROVE  LeastCost(p + q, p, q)
<1>1. (1 .. p) \X (1 .. q) = {}
  OBVIOUS
<1>2. Keeps(p, q) = {{}}
  BY <1>1 DEF Keeps
<1>3. Cardinality({}) = 0 /\ Replaced({}) = {}
  BY FS_EmptySet DEF Replaced
<1>4. Cost({}, p, q) = p + q
  BY <1>3 DEF Cost
<1>. QED
  BY <1>2, <1>4 DEF LeastCost

\* The least cost of two prefixes from those of the shorter ones.
LEMMA LeastOfNeighbours ==
  ASSUME NEW p \in Nat, NEW q \in Nat, p > 0, q > 0,
         NEW a \in Nat, NEW b \in Nat, NEW d \in Nat,
         LeastCost(a, p - 1, q), LeastCost(b, p, q - 1), LeastCost(d, p - 1, q - 1)
  PROVE  LeastCost(Least(a + 1, b + 1, d + Change(p, q)), p, q)
<1>. DEFINE c == Change(p, q)
            v == Least(a + 1, b + 1, d + c)
            e == <<p, q>>
<1>0. p - 1 \in Nat /\ q - 1 \in Nat /\ c \in Nat
  BY DEF Change
<1>1. v \in Nat /\ v \in {a + 1, b + 1, d + c} /\ v <= a + 1 /\ v <= b + 1 /\ v <= d + c
  <2>1. a + 1 \in Nat /\ b + 1 \in Nat /\ d + c \in Nat
    BY <1>0
  <2>. QED
    BY <2>1, LeastFacts
<1>2. \E k \in Keeps(p, q) : Cost(k, p, q) = a + 1
  <2>1. PICK k \in Keeps(p - 1, q) : Cost(k, p - 1, q) = a
    BY DEF LeastCost
  <2>. QED
    BY <2>1, DeleteLast
<1>3. \E k \in Keeps(p, q) : Cost(k, p, q) = b + 1
  <2>1. PICK k \in Keeps(p, q - 1) : Cost(k, p, q - 1) = b
    BY DEF LeastCost
  <2>. QED
    BY <2>1, InsertLast
<1>4. \E k \in Keeps(p, q) : Cost(k, p, q) = d + c
  <2>1. PICK k \in Keeps(p - 1, q - 1) : Cost(k, p - 1, q - 1) = d
    BY DEF LeastCost
  <2>2. k \cup {e} \in Keeps(p, q) /\ Cost(k \cup {e}, p, q) = d + c
    BY <2>1, KeepLast
  <2>. QED
    BY <2>2
<1>5. ASSUME NEW k \in Keeps(p, q) PROVE v <= Cost(k, p, q)
  <2>1. CASE \A x \in k : x[1] # p
    <3>1. k \in Keeps(p - 1, q) /\ Cost(k, p, q) = Cost(k, p - 1, q) + 1
      BY <2>1, DeleteLast
    <3>2. a <= Cost(k, p - 1, q)
      BY <3>1 DEF LeastCost
    <3>3. Cost(k, p - 1, q) \in Int
      BY <1>0, <3>1, KeepsCounted
    <3>. HIDE DEF v
    <3>. QED
      BY <1>1, <3>1, <3>2, <3>3
  <2>2. CASE \A x \in k : x[2] # q
    <3>1. k \in Keeps(p, q - 1) /\ Cost(k, p, q) = Cost(k, p, q - 1) + 1
      BY <2>2, InsertLast
    <3>2. b <= Cost(k, p, q - 1)
      BY <3>1 DEF LeastCost
    <3>3. Cost(k, p, q - 1) \in Int
      BY <1>0, <3>1, KeepsCounted
    <3>. HIDE DEF v
    <3>. QED
      BY <1>1, <3>1, <3>2, <3>3
  <2>3. ASSUME NEW x \in k, x[1] = p, NEW y \in k, y[2] = q
        PROVE  v <= Cost(k, p, q)
    <3>. DEFINE kk == k \ {e}
    <3>1. kk \in Keeps(p - 1, q - 1) /\ k = kk \cup {e}
      BY <2>3, LastKept
    <3>2. d <= Cost(kk, p - 1, q - 1)
      BY <3>1 DEF LeastCost
    <3>3. Cost(kk, p - 1, q - 1) \in Int
      BY <1>0, <3>1, KeepsCounted
    <3>4. Cost(kk \cup {e}, p, q) = Cost(kk, p - 1, q - 1) + c
      BY <3>1, KeepLast
    <3>. HIDE DEF v, c, e, kk
    <3>. QED
      BY <1>0, <1>1, <3>1, <3>2, <3>3, <3>4
  <2>. QED
    BY <2>1, <2>2, <2>3
<1>. HIDE DEF v, c
<1>6. \E k \in Keeps(p, q) : Cost(k, p, q) = v
  BY <1>1, <1>2, <1>3, <1>4
<1>7. LeastCost(v, p, q)
  BY <1>5, <1>6 DEF LeastCost
<1>. QED
  BY <1>7 DEF v, c

LEMMA LeastInit == Init => LeastInv
<1>. SUFFICES ASSUME Init PROVE LeastInv
  OBVIOUS
<1>1. TypeOK
  BY TypeInit
<1>2. items_per_col \in Nat /\ number_of_cols \in Nat
  BY <1>1 DEF TypeOK, items_per_col, number_of_cols
<1>3. ASSUME NEW p \in Rows, NEW q \in Cols, Known(p, q) PROVE CellLeast(p, q)
  <2>1. p \in Nat /\ q \in Nat /\ (p = 0 \/ q = 0)
    BY <1>2, <1>3 DEF Init, Known, Rows, Cols
  <2>2. matrix[p][q] = p + q
    BY <2>1 DEF Init, Borders, Rows, Cols
  <2>. QED
    BY <2>1, <2>2, LeastAtBorder DEF CellLeast, LeastCost
<1>. QED
  BY <1>1, <1>3 DEF LeastInv

LEMMA LeastFill ==
  ASSUME LeastInv, FillCell
  PROVE  LeastCost(Cell(matrix, i, j), i, j)
<1>1. /\ i \in Nat /\ j \in Nat /\ i > 0 /\ j > 0
      /\ i \in Rows /\ i - 1 \in Rows /\ j \in Cols /\ j - 1 \in Cols
  BY FillFacts DEF LeastInv
<1>2. /\ matrix[i - 1][j] \in Nat
      /\ matrix[i][j - 1] \in Nat
      /\ matrix[i - 1][j - 1] \in Nat
  BY <1>1 DEF LeastInv, TypeOK
<1>3. Known(i - 1, j) /\ Known(i, j - 1) /\ Known(i - 1, j - 1)
  BY NeighboursKnown DEF LeastInv
<1>4. /\ LeastCost(matrix[i - 1][j], i - 1, j)
      /\ LeastCost(matrix[i][j - 1], i, j - 1)
      /\ LeastCost(matrix[i - 1][j - 1], i - 1, j - 1)
  BY <1>1, <1>3 DEF LeastInv, CellLeast, LeastCost
<1>. QED
  BY <1>1, <1>2, <1>4, LeastOfNeighbours DEF Cell

LEMMA LeastStep == LeastInv /\ [Next]_vars => LeastInv'
<1>. SUFFICES ASSUME LeastInv, [Next]_vars PROVE LeastInv'
  OBVIOUS
<1>1. TypeOK /\ TypeOK'
  BY TypeStep DEF LeastInv
<1>2. first' = first /\ second' = second /\ Rows' = Rows /\ Cols' = Cols
  BY DEF Next, FillCell, NextColumn, vars, Rows, Cols, items_per_col, number_of_cols
<1>3. ASSUME NEW p \in Rows, NEW q \in Cols, Known(p, q)'
      PROVE  CellLeast(p, q)'
  <2>1. /\ Keeps(p, q)' = Keeps(p, q)
        /\ \A k : Cost(k, p, q)' = Cost(k, p, q)
    BY <1>2 DEF Keeps, Cost, Replaced
  <2>2. LeastCost(matrix'[p][q], p, q)
    <3>1. CASE Known(p, q) /\ matrix'[p][q] = matrix[p][q]
      BY <3>1 DEF LeastInv, CellLeast, LeastCost
    <3>2. CASE FillCell /\ p = i /\ q = j
      BY <1>1, <3>2, LeastFill, FillFacts
    <3>. QED
      BY <1>1, <1>3, <3>1, <3>2, KnownStep
  <2>. QED
    BY <2>1, <2>2 DEF CellLeast, LeastCost
<1>. QED
  BY <1>1, <1>2, <1>3 DEF LeastInv

\* The cells filled so far hold the least costs of their prefixes, at every
\* step of edit_matrix.
THEOREM CellsLeast == Spec => []LeastInv
  BY LeastInit, LeastStep, PTL DEF Spec

\* What edit_matrix returns is the least number of edits.
THEOREM ResultLeast == Spec => []DistanceIsLeast
<1>1. LeastInv => DistanceIsLeast
  <2>. SUFFICES ASSUME LeastInv, Filled PROVE DistanceIsLeast
    BY DEF DistanceIsLeast
  <2>. DEFINE m == items_per_col
              n == number_of_cols
  <2>1. m \in Rows /\ n \in Cols /\ m \in Nat /\ n \in Nat
    BY DEF LeastInv, TypeOK, items_per_col, number_of_cols, Rows, Cols
  <2>2. Known(m, n)
    BY <2>1 DEF Filled, Known, LeastInv, TypeOK
  <2>3. CellLeast(m, n)
    BY <2>1, <2>2 DEF LeastInv
  <2>. QED
    BY <2>3 DEF CellLeast, DistanceIsLeast, distance
<1>. QED
  BY <1>1, CellsLeast, PTL
=============================================================================
