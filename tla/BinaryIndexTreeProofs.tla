----------------------- MODULE BinaryIndexTreeProofs -----------------------
(***************************************************************************)
(* Proofs about BitTricks and BinaryIndexTree, for every size of the       *)
(* vector, every index and every sequence of calls.                        *)
(***************************************************************************)
EXTENDS BinaryIndexTree, WellFoundedInduction, TLAPS

(***************************************************************************)
(* Facts about powers of two and least significant bits, proved for every  *)
(* natural number: the arithmetic the tree rests on.                       *)
(***************************************************************************)
LessNat == {ss \in Nat \X Nat : ss[1] < ss[2]}

(***************************************************************************)
(* Induction on the naturals, as the existence of a least element of every *)
(* non-empty set of naturals.                                              *)
(***************************************************************************)
LEMMA NatMinimum ==
  ASSUME NEW S \in SUBSET Nat, S # {}
  PROVE  \E m \in S : \A n \in S : m <= n
<1>1. IsWellFoundedOn(LessNat, Nat)
  BY NatLessThanWellFounded DEF OpToRel, LessNat
<1>2. PICK m \in S : \A y \in S : ~ (<<y, m>> \in LessNat)
  BY <1>1, WFMin
<1>3. \A y \in S : ~ (y < m)
  BY <1>2 DEF LessNat
<1>4. QED
  BY <1>3

(***************************************************************************)
(* Divides, stated without the bound on the quotient that TLC needs.       *)
(***************************************************************************)
LEMMA DividesIntro ==
  ASSUME NEW d \in Nat, d > 0, NEW k \in Nat
  PROVE  Divides(d, d * k)
<1>1. k <= d * k
  BY SMT
<1>2. k \in 0..(d * k) /\ d * k = d * k
  BY <1>1
<1>3. QED
  BY <1>2 DEF Divides

LEMMA DividesElim ==
  ASSUME NEW d \in Nat, NEW n \in Nat, Divides(d, n)
  PROVE  \E k \in Nat : n = d * k
BY DEF Divides

LEMMA DividesRefl ==
  ASSUME NEW n \in Nat, n > 0
  PROVE  Divides(n, n)
<1>1. n = n * 1
  OBVIOUS
<1>2. QED
  BY <1>1, DividesIntro

LEMMA DividesTrans ==
  ASSUME NEW a \in Nat, a > 0, NEW b \in Nat, NEW c \in Nat,
         Divides(a, b), Divides(b, c)
  PROVE  Divides(a, c)
<1>1. PICK k \in Nat : b = a * k
  BY DividesElim
<1>2. PICK l \in Nat : c = b * l
  BY DividesElim
<1>3. c = a * (k * l) /\ k * l \in Nat
  BY <1>1, <1>2
<1>4. QED
  BY <1>3, DividesIntro

LEMMA DividesDifference ==
  ASSUME NEW d \in Nat, d > 0, NEW a \in Nat, NEW b \in Nat, b <= a,
         Divides(d, a), Divides(d, b)
  PROVE  Divides(d, a - b)
<1>1. PICK k \in Nat : a = d * k
  BY DividesElim
<1>2. PICK l \in Nat : b = d * l
  BY DividesElim
<1>3. l <= k
  BY <1>1, <1>2
<1>4. a - b = d * (k - l) /\ k - l \in Nat
  BY <1>1, <1>2, <1>3
<1>5. QED
  BY <1>4, DividesIntro

LEMMA DividesSum ==
  ASSUME NEW d \in Nat, d > 0, NEW a \in Nat, NEW b \in Nat,
         Divides(d, a), Divides(d, b)
  PROVE  Divides(d, a + b)
<1>1. PICK k \in Nat : a = d * k
  BY DividesElim
<1>2. PICK l \in Nat : b = d * l
  BY DividesElim
<1>3. a + b = d * (k + l) /\ k + l \in Nat
  BY <1>1, <1>2
<1>4. QED
  BY <1>3, DividesIntro

LEMMA DividesBound ==
  ASSUME NEW d \in Nat, NEW n \in Nat, n > 0, Divides(d, n)
  PROVE  d <= n
<1>1. PICK k \in Nat : n = d * k
  BY DividesElim
<1>2. k > 0
  BY <1>1
<1>3. QED
  BY <1>1, <1>2

LEMMA EvenHalf ==
  ASSUME NEW n \in Nat, n > 0, Divides(2, n)
  PROVE  \E h \in Nat : h > 0 /\ h < n /\ n = 2 * h
BY DividesElim

(***************************************************************************)
(* The powers of two: 1 is one, the half of another is one, the double of  *)
(* one is one.                                                             *)
(***************************************************************************)
LEMMA PowerOne == IsPowerOfTwo(1)
BY DEF IsPowerOfTwo

LEMMA PowerHalf ==
  ASSUME NEW p \in Nat, IsPowerOfTwo(p), p # 1
  PROVE  \E h \in Nat : h > 0 /\ h < p /\ p = 2 * h /\ IsPowerOfTwo(h)
<1>1. p \in 2..p /\ Divides(p, p)
  BY DividesRefl DEF IsPowerOfTwo
<1>2. Divides(2, p)
  BY <1>1 DEF IsPowerOfTwo
<1>3. PICK h \in Nat : h > 0 /\ h < p /\ p = 2 * h
  BY <1>1, <1>2, EvenHalf
<1>4. Divides(h, p)
  BY <1>3, h * 2 = p, DividesIntro
<1>5. ASSUME NEW d \in 2..h, Divides(d, h)
      PROVE  Divides(2, d)
  <2>1. Divides(d, p) /\ d \in 2..p
    BY <1>3, <1>4, <1>5, DividesTrans
  <2>2. QED
    BY <2>1 DEF IsPowerOfTwo
<1>6. QED
  BY <1>3, <1>5 DEF IsPowerOfTwo

LEMMA PowerDouble ==
  ASSUME NEW p \in Nat, IsPowerOfTwo(p)
  PROVE  IsPowerOfTwo(2 * p)
<1>0. p > 0
  BY DEF IsPowerOfTwo
<1>1. ASSUME NEW d \in 2..(2 * p), Divides(d, 2 * p), ~Divides(2, d)
      PROVE  FALSE
  <2>1. PICK k \in Nat : 2 * p = d * k
    BY <1>1, DividesElim
  <2>2. PICK a \in Nat : d = 2 * a + 1
    <3>1. d = 2 * (d \div 2) \/ d = 2 * (d \div 2) + 1
      OBVIOUS
    <3>2. d \div 2 \in Nat
      OBVIOUS
    <3>3. d # 2 * (d \div 2)
      BY <1>1, <3>2, DividesIntro
    <3>4. QED
      BY <3>1, <3>2, <3>3
  <2>3. PICK b \in Nat : k = 2 * b \/ k = 2 * b + 1
    <3>1. k = 2 * (k \div 2) \/ k = 2 * (k \div 2) + 1
      OBVIOUS
    <3>2. QED
      BY <3>1
  <2>4. CASE k = 2 * b
    <3>1. p = d * b
      BY <2>1, <2>4
    <3>2. Divides(d, p)
      BY <3>1, DividesIntro
    <3>3. d \in 2..p
      BY <1>0, <3>2, DividesBound
    <3>4. QED
      BY <1>1, <3>2, <3>3 DEF IsPowerOfTwo
  <2>5. CASE k = 2 * b + 1
    <3>1. d * k = 2 * (2 * (a * b) + a + b) + 1
      BY <2>2, <2>5
    <3>2. a * b \in Nat
      OBVIOUS
    <3>3. QED
      BY <2>1, <3>1, <3>2
  <2>6. QED
    BY <2>3, <2>4, <2>5
<1>2. QED
  BY <1>0, <1>1 DEF IsPowerOfTwo

(***************************************************************************)
(* Of two powers of two the smaller divides the larger.                    *)
(***************************************************************************)
LEMMA PowerDivides ==
  ASSUME NEW p \in Nat, NEW q \in Nat, p <= q,
         IsPowerOfTwo(p), IsPowerOfTwo(q)
  PROVE  Divides(p, q)
<1> DEFINE Bad == {r \in Nat : /\ IsPowerOfTwo(r)
                               /\ \E o \in Nat : /\ o <= r
                                                /\ IsPowerOfTwo(o)
                                                /\ ~Divides(o, r)}
<1>1. SUFFICES ASSUME Bad # {}
               PROVE  FALSE
  OBVIOUS
<1>2. PICK r \in Bad : \A n \in Bad : r <= n
  BY <1>1, NatMinimum, Bad \in SUBSET Nat
<1>3. PICK o \in Nat : o <= r /\ IsPowerOfTwo(o) /\ ~Divides(o, r)
  OBVIOUS
<1>4. o > 0
  BY <1>3 DEF IsPowerOfTwo
<1>5. o # 1
  BY <1>3, DividesIntro, r = 1 * r
<1>6. PICK h \in Nat : h > 0 /\ h < o /\ o = 2 * h /\ IsPowerOfTwo(h)
  BY <1>3, <1>5, PowerHalf
<1>7. r # 1
  BY <1>3, <1>4, <1>5
<1>8. PICK g \in Nat : g > 0 /\ g < r /\ r = 2 * g /\ IsPowerOfTwo(g)
  BY <1>7, PowerHalf
<1>9. g \notin Bad
  BY <1>2, <1>8
<1>10. Divides(h, g)
  BY <1>3, <1>6, <1>8, <1>9
<1>11. PICK k \in Nat : g = h * k
  BY <1>10, DividesElim
<1>12. r = o * k
  BY <1>6, <1>8, <1>11
<1>13. QED
  BY <1>3, <1>4, <1>12, DividesIntro

(***************************************************************************)
(* Every positive number has a least significant bit, and lsb returns it.  *)
(***************************************************************************)
LEMMA LsbExists ==
  ASSUME NEW n \in Nat, n > 0
  PROVE  \E p \in 1..n : IsPowerOfTwo(p) /\ Divides(p, n) /\ ~Divides(2 * p, n)
<1> DEFINE Cofactors == {m \in Nat : \E p \in Nat : IsPowerOfTwo(p) /\ n = p * m}
<1>1. n \in Cofactors
  BY PowerOne, n = 1 * n
<1>2. PICK m \in Cofactors : \A l \in Cofactors : m <= l
  BY <1>1, NatMinimum, Cofactors \in SUBSET Nat
<1>3. PICK p \in Nat : IsPowerOfTwo(p) /\ n = p * m
  OBVIOUS
<1>4. p > 0 /\ m > 0
  BY <1>3 DEF IsPowerOfTwo
<1>5. Divides(p, n) /\ p <= n
  BY <1>3, <1>4, DividesIntro, DividesBound
<1>6. ASSUME Divides(2 * p, n)
      PROVE  FALSE
  <2>1. PICK k \in Nat : n = (2 * p) * k
    BY <1>6, DividesElim
  <2>2. k \in Cofactors
    BY <1>3, <2>1, PowerDouble
  <2>3. m = 2 * k
    BY <1>3, <1>4, <2>1
  <2>4. k < m
    BY <1>4, <2>3
  <2>5. QED
    BY <1>2, <2>2, <2>4
<1>7. QED
  BY <1>3, <1>4, <1>5, <1>6

LEMMA LsbFacts ==
  ASSUME NEW n \in Nat, n > 0
  PROVE  /\ Lsb(n) \in 1..n
         /\ IsPowerOfTwo(Lsb(n))
         /\ Divides(Lsb(n), n)
         /\ ~Divides(2 * Lsb(n), n)
BY LsbExists DEF Lsb

(***************************************************************************)
(* Between a multiple p of a power of two q and p + q, no node reaches     *)
(* below p: its interrogation parent is p or above.                        *)
(***************************************************************************)
LEMMA NodesAboveStayAbove ==
  ASSUME NEW q \in Nat, IsPowerOfTwo(q),
         NEW p \in Nat, Divides(q, p),
         NEW i \in Nat, p < i, i < p + q
  PROVE  p <= ParentInterrogation(i)
<1> DEFINE l == Lsb(i)
<1>1. l \in 1..i /\ IsPowerOfTwo(l) /\ Divides(l, i)
  BY LsbFacts
<1>2. q > 0
  BY DEF IsPowerOfTwo
<1>3. CASE l <= q
  <2>1. Divides(l, p)
    BY <1>1, <1>2, <1>3, PowerDivides, DividesTrans
  <2>2. Divides(l, i - p)
    BY <1>1, <2>1, DividesDifference
  <2>3. l <= i - p
    BY <1>1, <2>2, DividesBound
  <2>4. QED
    BY <1>1, <2>3 DEF ParentInterrogation
<1>4. CASE q <= l
  <2>1. Divides(q, i)
    BY <1>1, <1>2, <1>4, PowerDivides, DividesTrans
  <2>2. Divides(q, i - p)
    BY <1>2, <2>1, DividesDifference
  <2>3. q <= i - p
    BY <1>2, <2>2, DividesBound
  <2>4. QED
    BY <2>3
<1>5. QED
  BY <1>1, <1>3, <1>4

(***************************************************************************)
(* The next node of the update tree covers everything the node covers.     *)
(***************************************************************************)
LEMMA UpdateParentCovers ==
  ASSUME NEW c \in Nat, c > 0
  PROVE  /\ ParentUpdate(c) \in Nat
         /\ c < ParentUpdate(c)
         /\ ParentUpdate(c) <= 2 * c
         /\ ParentInterrogation(ParentUpdate(c)) <= ParentInterrogation(c)
<1> DEFINE l == Lsb(c)
           u == ParentUpdate(c)
           m == Lsb(u)
<1>1. l \in 1..c /\ IsPowerOfTwo(l) /\ Divides(l, c) /\ ~Divides(2 * l, c)
  BY LsbFacts
<1>2. u = c + l /\ u \in Nat /\ u > 0
  BY <1>1 DEF ParentUpdate
<1>3. m \in 1..u /\ IsPowerOfTwo(m) /\ Divides(m, u) /\ ~Divides(2 * m, u)
  BY <1>2, LsbFacts
<1> l \in Nat /\ l > 0 /\ m \in Nat /\ m > 0
  BY <1>1, <1>2, <1>3
<1> HIDE DEF l, u, m
<1>4. Divides(2 * l, u)
  <2>1. PICK k \in Nat : c = l * k
    BY <1>1, DividesElim
  <2>2. PICK b \in Nat : k = 2 * b \/ k = 2 * b + 1
    <3>1. k = 2 * (k \div 2) \/ k = 2 * (k \div 2) + 1
      OBVIOUS
    <3>2. QED
      BY <3>1
  <2>3. k # 2 * b
    <3>1. ASSUME k = 2 * b
          PROVE  c = (2 * l) * b
      BY <2>1, <3>1
    <3>2. QED
      BY <1>1, <3>1, DividesIntro
  <2>4. u = (2 * l) * (b + 1)
    BY <1>2, <2>1, <2>2, <2>3
  <2>5. QED
    BY <2>4, 2 * l \in Nat, 2 * l > 0, b + 1 \in Nat, DividesIntro
<1>5. l < m
  <2>1. ASSUME m <= l
        PROVE  FALSE
    <3>1. PICK k \in Nat : l = m * k
      BY <1>1, <1>3, <2>1, PowerDivides, DividesElim
    <3>2. 2 * l = (2 * m) * k
      BY <1>1, <1>3, <3>1
    <3>3. Divides(2 * m, 2 * l)
      BY <3>2, 2 * m \in Nat, 2 * m > 0, DividesIntro
    <3>4. QED
      BY <1>1, <1>2, <1>3, <1>4, <3>3, DividesTrans
  <2>2. QED
    BY <1>1, <1>3, <2>1
<1>6. 2 * l <= m
  <2>1. m # 1
    BY <1>1, <1>5
  <2>2. PICK h \in Nat : h > 0 /\ m = 2 * h /\ IsPowerOfTwo(h)
    BY <1>3, <2>1, PowerHalf
  <2>3. ASSUME h < l
        PROVE  FALSE
    <3>1. l # 1
      BY <2>2, <2>3
    <3>2. PICK g \in Nat : g > 0 /\ l = 2 * g /\ IsPowerOfTwo(g)
      BY <1>1, <3>1, PowerHalf
    <3>3. PICK k \in Nat : l = h * k
      BY <1>1, <2>2, <2>3, PowerDivides, DividesElim
    <3>4. k # 0 /\ k # 1
      BY <1>1, <2>3, <3>3
    <3>5. 2 * h <= l
      BY <2>2, <3>3, <3>4
    <3>6. QED
      BY <1>1, <1>5, <2>2, <3>5
  <2>4. QED
    BY <1>1, <2>2, <2>3
<1>7. QED
  BY <1>1, <1>2, <1>3, <1>6 DEF l, u, m, ParentInterrogation, ParentUpdate

-----------------------------------------------------------------------------

(***************************************************************************)
(* The two trees, as the loops of the code walk them.                      *)
(***************************************************************************)
LEMMA InterrogationDescends ==
  ASSUME NEW i \in Nat, i > 0
  PROVE  ParentInterrogation(i) \in Nat /\ ParentInterrogation(i) < i
BY LsbFacts DEF ParentInterrogation

\* bit_get stops: from index - 1 the search meets the parent of index.
LEMMA SearchMeetsParent ==
  ASSUME NEW n \in Nat, n > 0,
         NEW c \in Nat, ParentInterrogation(n) < c, c < n
  PROVE  ParentInterrogation(n) <= ParentInterrogation(c)
<1>1. /\ Lsb(n) \in 1..n /\ IsPowerOfTwo(Lsb(n))
      /\ Divides(Lsb(n), n) /\ Divides(Lsb(n), Lsb(n))
  BY LsbFacts, DividesRefl
<1>2. /\ ParentInterrogation(n) \in Nat
      /\ ParentInterrogation(n) + Lsb(n) = n
      /\ Divides(Lsb(n), ParentInterrogation(n))
  BY <1>1, DividesDifference DEF ParentInterrogation
<1>3. QED
  BY <1>1, <1>2, NodesAboveStayAbove

\* bit_modify visits exactly the nodes that cover index, in increasing order.
LEMMA UpdateVisitsCover ==
  ASSUME NEW n \in Nat, n > 0, NEW c \in Nat, Covers(n, c)
  PROVE  /\ ParentUpdate(c) \in Nat
         /\ c < ParentUpdate(c)
         /\ Covers(n, ParentUpdate(c))
         /\ \A i \in Nat : Covers(n, i) /\ c < i => ParentUpdate(c) <= i
<1>1. n <= c /\ ParentInterrogation(c) < n /\ c > 0
  BY DEF Covers
<1>2. /\ ParentUpdate(c) \in Nat
      /\ c < ParentUpdate(c)
      /\ ParentInterrogation(ParentUpdate(c)) <= ParentInterrogation(c)
  BY <1>1, UpdateParentCovers
<1>3. ParentInterrogation(c) \in Nat /\ ParentInterrogation(ParentUpdate(c)) \in Nat
  BY <1>1, <1>2, InterrogationDescends
<1>4. Covers(n, ParentUpdate(c))
  BY <1>1, <1>2, <1>3 DEF Covers
<1>5. ASSUME NEW i \in Nat, Covers(n, i), c < i, i < ParentUpdate(c)
      PROVE  FALSE
  <2>1. /\ Lsb(c) \in Nat /\ IsPowerOfTwo(Lsb(c)) /\ Divides(Lsb(c), c)
        /\ ParentUpdate(c) = c + Lsb(c)
    BY <1>1, LsbFacts DEF ParentUpdate
  <2>2. c <= ParentInterrogation(i)
    BY <1>5, <2>1, NodesAboveStayAbove
  <2>3. ParentInterrogation(i) \in Nat
    BY <1>1, <1>5, InterrogationDescends
  <2>4. QED
    BY <1>1, <1>5, <2>2, <2>3 DEF Covers
<1>6. QED
  BY <1>2, <1>4, <1>5

LEMMA ParentOfPower ==
  ASSUME NEW p \in Nat, IsPowerOfTwo(p)
  PROVE  ParentInterrogation(p) = 0
<1>1. p > 0
  BY DEF IsPowerOfTwo
<1>2. /\ Lsb(p) \in 1..p /\ IsPowerOfTwo(Lsb(p)) /\ Divides(Lsb(p), p)
      /\ ~Divides(2 * Lsb(p), p)
  BY <1>1, LsbFacts
<1>3. ASSUME Lsb(p) # p
      PROVE  FALSE
  <2>1. PICK k \in Nat : p = Lsb(p) * k
    BY <1>2, Lsb(p) \in Nat, DividesElim
  <2>2. k # 0 /\ k # 1
    BY <1>1, <1>2, <1>3, <2>1
  <2>3. 2 * Lsb(p) <= p
    BY <1>2, <2>1, <2>2
  <2>4. IsPowerOfTwo(2 * Lsb(p)) /\ 2 * Lsb(p) \in Nat
    BY <1>2, PowerDouble
  <2>5. QED
    BY <1>2, <2>3, <2>4, PowerDivides
<1>4. QED
  BY <1>1, <1>3 DEF ParentInterrogation

\* A node past a full half either covers the whole half or none of it.
LEMMA CoversFirstHalf ==
  ASSUME NEW o \in Nat, IsPowerOfTwo(o), NEW i \in Nat, o <= i,
         ParentInterrogation(i) < o
  PROVE  ParentInterrogation(i) = 0
<1>1. o > 0 /\ i > 0
  BY DEF IsPowerOfTwo
<1>2. Lsb(i) \in 1..i /\ IsPowerOfTwo(Lsb(i)) /\ Divides(Lsb(i), i)
  BY <1>1, LsbFacts
<1>3. CASE i = o
  BY <1>3, ParentOfPower
<1>4. CASE i # o /\ Lsb(i) <= o
  <2>1. Divides(Lsb(i), i - o)
    BY <1>2, <1>4, PowerDivides, DividesDifference
  <2>2. Lsb(i) <= i - o
    BY <1>2, <1>4, <2>1, DividesBound
  <2>3. QED
    BY <1>2, <2>2 DEF ParentInterrogation
<1>5. CASE o < Lsb(i)
  <2>1. Divides(Lsb(i), i - Lsb(i)) /\ i - Lsb(i) \in Nat
    BY <1>2, DividesRefl, DividesDifference
  <2>2. i - Lsb(i) = 0
    BY <1>2, <1>5, <2>1, DividesBound DEF ParentInterrogation
  <2>3. QED
    BY <2>2 DEF ParentInterrogation
<1>6. QED
  BY <1>2, <1>3, <1>4, <1>5

\* new_size * 2 stays a power of two, or wraps to zero.
LEMMA DoubleWraps ==
  ASSUME NEW p \in Nat, IsPowerOfTwo(p), p < WordSize
  PROVE  (p * 2) % WordSize = 0 \/ (p * 2) % WordSize = 2 * p
<1>1. WordSize \in Nat /\ IsPowerOfTwo(WordSize) /\ p > 0
  BY WordSizeAssumption DEF IsPowerOfTwo
<1>2. PICK k \in Nat : WordSize = p * k
  BY <1>1, PowerDivides, DividesElim
<1>3. k # 0 /\ k # 1
  BY <1>1, <1>2
<1>4. 2 * p <= WordSize
  BY <1>1, <1>2, <1>3
<1>5. QED
  BY <1>1, <1>4
\* Counting a bit at least keeps 1u << msb within twice the size asked for.
LEMMA BitsBound ==
  ASSUME NEW m \in Nat, NEW c \in Nat, NEW h \in Nat, 2 * h <= c
  PROVE  (2 * m) * (2 * h) <= m * (2 * c)
<1>1. PICK r \in Nat : c = 2 * h + r
  <2>1. c - 2 * h \in Nat /\ c = 2 * h + (c - 2 * h)
    OBVIOUS
  <2>2. QED
    BY <2>1
<1>2. m * (2 * c) = (2 * m) * (2 * h) + m * (2 * r)
  BY <1>1
<1>3. m * (2 * r) \in Nat /\ (2 * m) * (2 * h) \in Nat
  OBVIOUS
<1>4. QED
  BY <1>2, <1>3

(***************************************************************************)
(* The prefix sums promised to the caller.                                 *)
(***************************************************************************)
LEMMA ValueAtType ==
  ASSUME NEW s \in [Promise!Positions -> Int], NEW i \in Promise!Positions
  PROVE  Promise!ValueAt(s, i) \in Int
BY MaxSizeAssumption DEF Promise!Positions, Promise!ValueAt

LEMMA AddedType ==
  ASSUME NEW s \in [Promise!Positions -> Int], NEW i \in Int, NEW d \in Int
  PROVE  Promise!Added(s, i, d) \in [Promise!Positions -> Int]
BY DEF Promise!Added, Promise!Positions

(***************************************************************************)
(* The inductive steps: what each action leaves of each part of TreeInv.   *)
(* First the types.                                                        *)
(***************************************************************************)
LEMMA TypeStep ==
  ASSUME TreeInv, [Next]_vars
  PROVE  TypeOK'
<1> USE DEF TreeInv, TypeOK, Begin, Return, Slots, Locations, Constructing, Call,
        Promise!Positions, Promise!Pending, Promise!Returned, Promise!Threw
<1>1. CASE CallGet
  BY <1>1 DEF CallGet
<1>2. CASE CallGetSum
  BY <1>2 DEF CallGetSum, ConstructInv
<1>3. CASE CallSet
  BY <1>3, IndexesAssumption, ValuesAssumption, WordSizeAssumption DEF CallSet
<1>4. CASE CallAdd
  <2>1. PICK i \in Indexes, v \in Values :
          Begin("add", i, v - (IF i < size THEN Promise!ValueAt(sum, i) ELSE 0),
                "grow_fill") /\ UNCHANGED <<cursor, acc>>
    BY <1>4 DEF CallAdd
  <2>2. i \in Nat /\ v \in Int
    BY IndexesAssumption, ValuesAssumption, WordSizeAssumption
  <2>3. i < size => Promise!ValueAt(sum, i) \in Int
    BY <2>2, ValueAtType, MaxSizeAssumption, i < size => i \in Promise!Positions
  <2>4. QED
    BY <2>1, <2>2, <2>3
<1>5. CASE Reset
  BY <1>5 DEF Reset, Zeros
<1>6. CASE CountBit
  BY <1>6 DEF CountBit, ConstructInv
<1>7. CASE BitsCounted
  BY <1>7 DEF BitsCounted
<1>8. CASE Allocate
  BY <1>8 DEF Allocate, ConstructInv, Zeros
<1>9. CASE IndexFits
  BY <1>9 DEF IndexFits, AfterGrow
<1>10. CASE StartGrowing
  BY <1>10 DEF StartGrowing
<1>11. CASE Double
  BY <1>11, WordSizeAssumption, WordSize > 0 DEF Double, IsPowerOfTwo
<1>12. CASE Resize
  BY <1>12 DEF Resize, GrowInv
<1>13. CASE ResizeThrows
  BY <1>13 DEF ResizeThrows, CallInv
<1>14. CASE TreeFixed
  BY <1>14 DEF TreeFixed, AfterGrow
<1>15. CASE AddToSum
  <2>1. cursor \in Slots /\ storage[cursor] \in Int
    BY <1>15 DEF AddToSum, LoopInv, CallInv
  <2>2. ParentInterrogation(cursor) \in Nat
    BY <1>15, InterrogationDescends DEF AddToSum
  <2>3. QED
    BY <1>15, <2>1, <2>2 DEF AddToSum
<1>16. CASE ReturnSum
  BY <1>16 DEF ReturnSum
<1>17. CASE ReadNode
  BY <1>17 DEF ReadNode, node, CallInv, GrowInv
<1>18. CASE SubtractPredecessor
  <2>1. node \in Nat /\ node > 0 /\ cursor < node /\ node < size
    BY <1>18 DEF SubtractPredecessor, LoopInv, CallInv, GrowInv, node
  <2>2. cursor > 0
    BY <1>18, <2>1, InterrogationDescends DEF SubtractPredecessor, LoopInv
  <2>3. ParentInterrogation(cursor) \in Nat /\ storage[cursor] \in Int
    BY <1>18, <2>1, <2>2, InterrogationDescends DEF SubtractPredecessor
  <2>4. acc' \in Int /\ cursor' \in Nat
    BY <1>18, <2>3 DEF SubtractPredecessor
  <2>5. QED
    BY <1>18, <2>4 DEF SubtractPredecessor
<1>19. CASE ReachParent
  BY <1>19 DEF ReachParent
<1>20. CASE ReturnValue
  BY <1>20 DEF ReturnValue
<1>21. CASE Difference
  BY <1>21 DEF Difference, target
<1>22. CASE ModifyZero
  BY <1>22 DEF ModifyZero, node, CallInv, GrowInv
<1>23. CASE StartModify
  BY <1>23 DEF StartModify, node
<1>24. CASE ModifyNode
  <2>1. node \in Nat /\ cursor > 0 /\ cursor \in Slots
    BY <1>24 DEF ModifyNode, LoopInv, Covers, node
  <2>2. ParentUpdate(cursor) \in Nat
    BY <2>1, UpdateParentCovers
  <2>3. QED
    BY <1>24, <2>1, <2>2 DEF ModifyNode
<1>25. CASE ReturnModified
  <2>1. call.index \in 0 .. size - 1 /\ call.op \in {"set", "add"}
    BY <1>25 DEF ReturnModified, CallInv
  <2>2. Promise!ValueAt(sum, call.index) \in Int
    BY <2>1, ValueAtType, MaxSizeAssumption, call.index \in Promise!Positions
  <2>3. \A d \in Int : Promise!Added(sum, call.index, d) \in [Promise!Positions -> Int]
    BY AddedType
  <2>4. sum' \in [Promise!Positions -> Int]
    BY <1>25, <2>2, <2>3 DEF ReturnModified
  <2>5. QED
    BY <1>25, <2>1, <2>4 DEF ReturnModified
<1>26. CASE UNCHANGED vars
  BY <1>26 DEF vars
<1>27. QED
  BY <1>1, <1>2, <1>3, <1>4, <1>5, <1>6, <1>7, <1>8, <1>9, <1>10, <1>11, <1>12, <1>13, <1>14, <1>15, <1>16, <1>17, <1>18, <1>19, <1>20, <1>21, <1>22, <1>23, <1>24, <1>25, <1>26
     DEF Next, Step, Construct, Grow, Query, Modify

(***************************************************************************)
(* Which call is where, with which arguments.                              *)
(***************************************************************************)
LEMMA CallStep ==
  ASSUME TreeInv, [Next]_vars
  PROVE  CallInv'
<1> USE DEF TreeInv, TypeOK, CallInv, Begin, Return, Slots, Constructing, Call,
        Promise!Positions, Promise!Pending, Promise!Returned, Promise!Threw
<1>1. CASE CallGet
  BY <1>1 DEF CallGet
<1>2. CASE CallGetSum
  BY <1>2 DEF CallGetSum
<1>3. CASE CallSet
  BY <1>3 DEF CallSet
<1>4. CASE CallAdd
  <2>1. PICK i \in Indexes, v \in Values :
          Begin("add", i, v - (IF i < size THEN Promise!ValueAt(sum, i) ELSE 0),
                "grow_fill") /\ UNCHANGED <<cursor, acc>>
    BY <1>4 DEF CallAdd
  <2>2. i \in Nat /\ v \in Int /\ size > 0
    BY <1>4, IndexesAssumption, ValuesAssumption, WordSizeAssumption DEF CallAdd, IsPowerOfTwo
  <2>3. i \in Promise!Positions /\ i >= size => Promise!ValueAt(sum, i) = 0
    <3>1. ~fixing /\ size \in Nat
      BY <2>1 DEF GrowInv
    <3>2. ASSUME i \in Promise!Positions, i >= size
          PROVE  sum[i] = sum[i - 1] /\ sum[i] \in Int /\ i # 0
      <4>1. sum[i] = sum[size - 1] /\ sum[i] \in Int
        BY <2>2, <3>1, <3>2 DEF TailIsFlat
      <4>2. i - 1 >= size => sum[i - 1] = sum[size - 1]
        BY <2>2, <3>1, <3>2, MaxSizeAssumption, i - 1 \in Promise!Positions DEF TailIsFlat
      <4>3. QED
        BY <2>2, <3>1, <3>2, <4>1, <4>2
    <3>3. QED
      BY <3>2 DEF Promise!ValueAt
  <2>4. i \in Promise!Positions => Promise!ValueAt(sum, i) \in Int
    BY ValueAtType
  <2>5. /\ call'.op = "add" /\ call'.index = i /\ sum' = sum
        /\ call'.value = v - (IF i < size THEN Promise!ValueAt(sum, i) ELSE 0)
        /\ pc' = "grow_fill" /\ reply' = Promise!Pending
    BY <2>1
  <2>6. i \in Promise!Positions => call'.value + Promise!ValueAt(sum, i) = v
    BY <2>2, <2>3, <2>4, <2>5
  <2>7. QED
    BY <2>2, <2>5, <2>6
<1>5. CASE Reset
  BY <1>5 DEF Reset
<1>6. CASE CountBit
  BY <1>6 DEF CountBit, ConstructInv
<1>7. CASE BitsCounted
  BY <1>7 DEF BitsCounted, ConstructInv
<1>8. CASE Allocate
  BY <1>8 DEF Allocate
<1>9. CASE IndexFits
  BY <1>9 DEF IndexFits, AfterGrow
<1>10. CASE StartGrowing
  BY <1>10 DEF StartGrowing
<1>11. CASE Double
  BY <1>11 DEF Double
<1>12. CASE Resize
  BY <1>12 DEF Resize, GrowInv
<1>13. CASE ResizeThrows
  BY <1>13 DEF ResizeThrows
<1>14. CASE TreeFixed
  BY <1>14 DEF TreeFixed, AfterGrow, GrowInv
<1>15. CASE AddToSum
  BY <1>15 DEF AddToSum
<1>16. CASE ReturnSum
  BY <1>16 DEF ReturnSum
<1>17. CASE ReadNode
  BY <1>17 DEF ReadNode
<1>18. CASE SubtractPredecessor
  BY <1>18 DEF SubtractPredecessor
<1>19. CASE ReachParent
  BY <1>19 DEF ReachParent
<1>20. CASE ReturnValue
  BY <1>20 DEF ReturnValue
<1>21. CASE Difference
  BY <1>21 DEF Difference, GrowInv
<1>22. CASE ModifyZero
  BY <1>22 DEF ModifyZero
<1>23. CASE StartModify
  BY <1>23 DEF StartModify
<1>24. CASE ModifyNode
  BY <1>24 DEF ModifyNode
<1>25. CASE ReturnModified
  BY <1>25 DEF ReturnModified, GrowInv
<1>26. CASE UNCHANGED vars
  BY <1>26 DEF vars
<1>27. QED
  BY <1>1, <1>2, <1>3, <1>4, <1>5, <1>6, <1>7, <1>8, <1>9, <1>10, <1>11, <1>12, <1>13, <1>14, <1>15, <1>16, <1>17, <1>18, <1>19, <1>20, <1>21, <1>22, <1>23, <1>24, <1>25, <1>26
     DEF Next, Step, Construct, Grow, Query, Modify

(***************************************************************************)
(* What holds while the vector grows.                                      *)
(***************************************************************************)
LEMMA GrowStep ==
  ASSUME TreeInv, [Next]_vars
  PROVE  GrowInv'
<1> USE DEF TreeInv, TypeOK, GrowInv, CallInv, Begin, Return, Call, Constructing
<1>1. CASE CallGet
  BY <1>1 DEF CallGet
<1>2. CASE CallGetSum
  BY <1>2 DEF CallGetSum
<1>3. CASE CallSet
  BY <1>3 DEF CallSet
<1>4. CASE CallAdd
  BY <1>4 DEF CallAdd
<1>5. CASE Reset
  BY <1>5 DEF Reset
<1>6. CASE CountBit
  BY <1>6 DEF CountBit
<1>7. CASE BitsCounted
  BY <1>7 DEF BitsCounted
<1>8. CASE Allocate
  BY <1>8 DEF Allocate
<1>9. CASE IndexFits
  BY <1>9 DEF IndexFits, AfterGrow
<1>10. CASE StartGrowing
  BY <1>10 DEF StartGrowing
<1>11. CASE Double
  <2>1. newSize < WordSize
    BY <1>11, IndexesAssumption, WordSizeAssumption DEF Double
  <2>2. newSize' = 0 \/ IsPowerOfTwo(newSize')
    <3>1. CASE newSize = 0
      BY <1>11, <3>1, WordSizeAssumption DEF Double, IsPowerOfTwo
    <3>2. CASE IsPowerOfTwo(newSize)
      BY <1>11, <2>1, <3>2, DoubleWraps, PowerDouble DEF Double
    <3>3. QED
      BY <1>11, <3>1, <3>2 DEF Double
  <2>3. QED
    BY <1>11, <2>2 DEF Double
<1>12. CASE Resize
  BY <1>12 DEF Resize
<1>13. CASE ResizeThrows
  BY <1>13 DEF ResizeThrows
<1>14. CASE TreeFixed
  BY <1>14 DEF TreeFixed, AfterGrow
<1>15. CASE AddToSum
  BY <1>15 DEF AddToSum
<1>16. CASE ReturnSum
  BY <1>16 DEF ReturnSum
<1>17. CASE ReadNode
  BY <1>17 DEF ReadNode
<1>18. CASE SubtractPredecessor
  BY <1>18 DEF SubtractPredecessor
<1>19. CASE ReachParent
  BY <1>19 DEF ReachParent
<1>20. CASE ReturnValue
  BY <1>20 DEF ReturnValue
<1>21. CASE Difference
  BY <1>21 DEF Difference
<1>22. CASE ModifyZero
  BY <1>22 DEF ModifyZero
<1>23. CASE StartModify
  BY <1>23 DEF StartModify
<1>24. CASE ModifyNode
  BY <1>24 DEF ModifyNode
<1>25. CASE ReturnModified
  BY <1>25 DEF ReturnModified
<1>26. CASE UNCHANGED vars
  BY <1>26 DEF vars
<1>27. QED
  BY <1>1, <1>2, <1>3, <1>4, <1>5, <1>6, <1>7, <1>8, <1>9, <1>10, <1>11, <1>12, <1>13, <1>14, <1>15, <1>16, <1>17, <1>18, <1>19, <1>20, <1>21, <1>22, <1>23, <1>24, <1>25, <1>26
     DEF Next, Step, Construct, Grow, Query, Modify

(***************************************************************************)
(* What holds during construction.                                         *)
(***************************************************************************)
LEMMA ConstructStep ==
  ASSUME TreeInv, [Next]_vars
  PROVE  ConstructInv'
<1> USE DEF TreeInv, TypeOK, ConstructInv, CallInv, GrowInv, Begin, Return, Call, Constructing
<1>1. CASE CallGet
  BY <1>1 DEF CallGet
<1>2. CASE CallGetSum
  BY <1>2 DEF CallGetSum
<1>3. CASE CallSet
  BY <1>3 DEF CallSet
<1>4. CASE CallAdd
  BY <1>4 DEF CallAdd
<1>5. CASE Reset
  BY <1>5 DEF Reset
<1>6. CASE CountBit
  <2>1. /\ pc = "count_bits" /\ pc' = pc /\ cursor # 0
        /\ cursor' = cursor \div 2 /\ newSize' = 2 * newSize
    BY <1>6 DEF CountBit
  <2>2. IsPowerOfTwo(newSize') /\ newSize * (2 * cursor) <= MaxSize
    BY <2>1, PowerDouble
  <2>3. newSize' * (IF cursor' = 0 THEN 1 ELSE 2 * cursor') <= newSize * (2 * cursor)
    <3>1. CASE cursor = 1
      BY <2>1, <3>1
    <3>2. CASE cursor >= 2
      <4>1. cursor' \in Nat /\ cursor' # 0 /\ 2 * cursor' <= cursor
        BY <2>1, <3>2
      <4>2. QED
        BY <2>1, <4>1, BitsBound
    <3>3. QED
      BY <2>1, <3>1, <3>2
  <2>4. newSize' * (IF cursor' = 0 THEN 1 ELSE 2 * cursor') \in Nat
    BY <2>1
  <2>5. newSize * (2 * cursor) \in Nat
    OBVIOUS
  <2>6. newSize' * (IF cursor' = 0 THEN 1 ELSE 2 * cursor') <= MaxSize
    BY <2>2, <2>3, <2>4, <2>5, MaxSizeAssumption
  <2>7. QED
    BY <1>6, <2>1, <2>2, <2>6 DEF CountBit
<1>7. CASE BitsCounted
  BY <1>7 DEF BitsCounted
<1>8. CASE Allocate
  BY <1>8 DEF Allocate
<1>9. CASE IndexFits
  BY <1>9 DEF IndexFits, AfterGrow
<1>10. CASE StartGrowing
  BY <1>10 DEF StartGrowing
<1>11. CASE Double
  BY <1>11 DEF Double
<1>12. CASE Resize
  BY <1>12 DEF Resize
<1>13. CASE ResizeThrows
  BY <1>13 DEF ResizeThrows
<1>14. CASE TreeFixed
  BY <1>14 DEF TreeFixed, AfterGrow
<1>15. CASE AddToSum
  BY <1>15 DEF AddToSum
<1>16. CASE ReturnSum
  BY <1>16 DEF ReturnSum
<1>17. CASE ReadNode
  BY <1>17 DEF ReadNode
<1>18. CASE SubtractPredecessor
  BY <1>18 DEF SubtractPredecessor
<1>19. CASE ReachParent
  BY <1>19 DEF ReachParent
<1>20. CASE ReturnValue
  BY <1>20 DEF ReturnValue
<1>21. CASE Difference
  BY <1>21 DEF Difference
<1>22. CASE ModifyZero
  BY <1>22 DEF ModifyZero
<1>23. CASE StartModify
  BY <1>23 DEF StartModify
<1>24. CASE ModifyNode
  BY <1>24 DEF ModifyNode
<1>25. CASE ReturnModified
  BY <1>25 DEF ReturnModified
<1>26. CASE UNCHANGED vars
  BY <1>26 DEF vars
<1>27. QED
  BY <1>1, <1>2, <1>3, <1>4, <1>5, <1>6, <1>7, <1>8, <1>9, <1>10, <1>11, <1>12, <1>13, <1>14, <1>15, <1>16, <1>17, <1>18, <1>19, <1>20, <1>21, <1>22, <1>23, <1>24, <1>25, <1>26
     DEF Next, Step, Construct, Grow, Query, Modify

(***************************************************************************)
(* Nothing is past the end of the vector.                                  *)
(***************************************************************************)
LEMMA TailStep ==
  ASSUME TreeInv, [Next]_vars
  PROVE  TailIsFlat'
<1> USE DEF TreeInv, TypeOK, TailIsFlat, ConstructInv, CallInv, GrowInv, Begin, Return,
        Promise!Positions, Constructing
<1>1. CASE CallGet
  BY <1>1 DEF CallGet
<1>2. CASE CallGetSum
  BY <1>2 DEF CallGetSum
<1>3. CASE CallSet
  BY <1>3 DEF CallSet
<1>4. CASE CallAdd
  BY <1>4 DEF CallAdd
<1>5. CASE Reset
  BY <1>5, MaxSizeAssumption DEF Reset, IsPowerOfTwo
<1>6. CASE CountBit
  BY <1>6 DEF CountBit
<1>7. CASE BitsCounted
  BY <1>7 DEF BitsCounted
<1>8. CASE Allocate
  BY <1>8, MaxSizeAssumption DEF Allocate, IsPowerOfTwo
<1>9. CASE IndexFits
  BY <1>9 DEF IndexFits
<1>10. CASE StartGrowing
  BY <1>10 DEF StartGrowing
<1>11. CASE Double
  BY <1>11 DEF Double
<1>12. CASE Resize
  BY <1>12, MaxSizeAssumption DEF Resize, IsPowerOfTwo
<1>13. CASE ResizeThrows
  BY <1>13 DEF ResizeThrows
<1>14. CASE TreeFixed
  BY <1>14, MaxSizeAssumption DEF TreeFixed, IsPowerOfTwo
<1>15. CASE AddToSum
  BY <1>15 DEF AddToSum
<1>16. CASE ReturnSum
  BY <1>16 DEF ReturnSum
<1>17. CASE ReadNode
  BY <1>17 DEF ReadNode
<1>18. CASE SubtractPredecessor
  BY <1>18 DEF SubtractPredecessor
<1>19. CASE ReachParent
  BY <1>19 DEF ReachParent
<1>20. CASE ReturnValue
  BY <1>20 DEF ReturnValue
<1>21. CASE Difference
  BY <1>21 DEF Difference
<1>22. CASE ModifyZero
  BY <1>22 DEF ModifyZero
<1>23. CASE StartModify
  BY <1>23 DEF StartModify
<1>24. CASE ModifyNode
  BY <1>24 DEF ModifyNode
<1>25. CASE ReturnModified
  <2>1. call.index \in Nat /\ call.index < size /\ size \in Nat /\ ~fixing
    BY <1>25 DEF ReturnModified
  <2>2. PICK d : sum' = Promise!Added(sum, call.index, d)
    BY <1>25 DEF ReturnModified
  <2>3. ASSUME NEW j \in Promise!Positions, j >= size
        PROVE  sum'[j] = sum'[size - 1]
    <3>1. sum[j] = sum[size - 1] /\ size - 1 \in Promise!Positions /\ size # 0
      BY <2>1, <2>3, MaxSizeAssumption
    <3>2. sum'[j] = sum[j] + d /\ sum'[size - 1] = sum[size - 1] + d
      BY <2>1, <2>2, <2>3, <3>1 DEF Promise!Added
    <3>3. QED
      BY <3>1, <3>2
  <2>4. QED
    BY <1>25, <2>1, <2>3 DEF ReturnModified
<1>26. CASE UNCHANGED vars
  BY <1>26 DEF vars
<1>27. QED
  BY <1>1, <1>2, <1>3, <1>4, <1>5, <1>6, <1>7, <1>8, <1>9, <1>10, <1>11, <1>12, <1>13, <1>14, <1>15, <1>16, <1>17, <1>18, <1>19, <1>20, <1>21, <1>22, <1>23, <1>24, <1>25, <1>26
     DEF Next, Step, Construct, Grow, Query, Modify

(***************************************************************************)
(* What the nodes hold.  Three facts first.                                *)
(***************************************************************************)
LEMMA SlotFacts ==
  ASSUME TypeOK
  PROVE  /\ Slots \subseteq Promise!Positions
         /\ \A i \in Slots : i # 0 => /\ ParentInterrogation(i) \in Slots
                                      /\ ParentInterrogation(i) < i
         /\ \A i \in Slots : RangeSum(i) \in Int
<1>1. MaxSize \in Nat /\ size \in Nat /\ size <= MaxSize
  BY MaxSizeAssumption DEF TypeOK
<1>2. Slots \subseteq Promise!Positions
  BY <1>1 DEF Slots, Promise!Positions
<1>3. \A i \in Slots : i # 0 => ParentInterrogation(i) \in Slots /\ ParentInterrogation(i) < i
  BY <1>1, InterrogationDescends DEF Slots
<1>4. \A i \in Promise!Positions : sum[i] \in Int
  BY DEF TypeOK
<1>5. QED
  BY <1>2, <1>3, <1>4 DEF RangeSum

LEMMA NodesQuiet ==
  ASSUME NodesInFlight,
         storage' = storage, size' = size, sum' = sum, fixing' = fixing,
         fixing => oldSize' = oldSize,
         pc \notin {"modify_loop", "modified"},
         pc' \notin {"modify_loop", "modified"}
  PROVE  NodesInFlight'
BY DEF NodesInFlight, Updated, RangeSum, Slots

LEMMA NodesZero ==
  ASSUME NEW n \in Nat, size' = n, storage' = Zeros(n), n <= MaxSize,
         sum' = [j \in Promise!Positions |-> 0], ~fixing', pc' = "idle"
  PROVE  NodesInFlight'
<1>1. MaxSize \in Nat
  BY MaxSizeAssumption
<1>2. ASSUME NEW i \in Slots'
      PROVE  storage'[i] = 0 /\ RangeSum(i)' = 0
  <2>1. i \in Nat /\ i < n /\ i \in Promise!Positions
    BY <1>1, <1>2 DEF Slots, Promise!Positions
  <2>2. storage'[i] = 0
    BY <2>1 DEF Zeros
  <2>3. i # 0 => ParentInterrogation(i) \in Promise!Positions
    BY <1>1, <2>1, InterrogationDescends DEF Promise!Positions
  <2>4. sum'[i] = 0 /\ (i # 0 => sum'[ParentInterrogation(i)] = 0)
    BY <2>1, <2>3
  <2>5. i = 0 => sum'[0] = 0
    BY <2>4
  <2>6. QED
    BY <2>2, <2>4, <2>5 DEF RangeSum
<1>3. QED
  BY <1>2 DEF NodesInFlight, Updated

\* The new part of the vector is zero, and the repair is still to come.
LEMMA NodesResize ==
  ASSUME TreeInv, Resize
  PROVE  NodesInFlight'
<1>1. /\ ~fixing /\ oldSize = size /\ size \in Nat /\ newSize \in Nat
      /\ fixing' /\ oldSize' = oldSize /\ size' = newSize /\ sum' = sum
      /\ pc' = "bit_get"
      /\ storage' = [i \in 0 .. newSize - 1 |-> IF i < size THEN storage[i] ELSE 0]
  BY DEF TreeInv, TypeOK, GrowInv, Resize
<1>2. \A i \in Slots : storage[i] = RangeSum(i)
  <2>1. \A i \in Slots : RangeSum(i) \in Int
    BY SlotFacts DEF TreeInv
  <2>2. QED
    BY <1>1, <2>1 DEF TreeInv, NodesInFlight, Updated, Resize
<1>3. ASSUME NEW i \in Slots'
      PROVE  storage'[i] = IF i >= size THEN 0 ELSE RangeSum(i)
  BY <1>1, <1>2, <1>3 DEF Slots
<1>4. \A i \in Slots' : RangeSum(i)' = RangeSum(i) /\ storage'[i] \in Int
  <2>1. \A i \in Slots : RangeSum(i) \in Int
    BY SlotFacts DEF TreeInv
  <2>2. \A i \in Slots' : RangeSum(i)' = RangeSum(i)
    BY <1>1 DEF RangeSum
  <2>3. QED
    BY <1>1, <1>3, <2>1, <2>2 DEF Slots
<1>5. QED
  BY <1>1, <1>3, <1>4 DEF NodesInFlight, Updated

\* set(old_size, T(0)) completes exactly the nodes the growth left short.
LEMMA NodesFixed ==
  ASSUME TreeInv, TreeFixed
  PROVE  NodesInFlight'
<1>1. /\ fixing /\ pc = "modified" /\ node = oldSize
      /\ oldSize \in Nat /\ oldSize < size /\ size \in Nat
      /\ IsPowerOfTwo(oldSize) /\ oldSize > 0
      /\ Delta = sum[oldSize - 1] - sum[0]
  <2>1. fixing /\ pc = "modified" /\ node = oldSize /\ Delta = sum[oldSize - 1] - sum[0]
    BY DEF TreeFixed, Delta, node
  <2>2. oldSize \in Nat /\ oldSize < size /\ size \in Nat /\ IsPowerOfTwo(oldSize)
    BY <2>1 DEF TreeInv, TypeOK, GrowInv
  <2>3. QED
    BY <2>1, <2>2 DEF IsPowerOfTwo
<1>2. \A j \in Slots : j >= oldSize => sum[j] = sum[oldSize - 1]
  BY <1>1, SlotFacts DEF TreeInv, TailIsFlat
<1>3. oldSize - 1 \in Slots /\ 0 \in Slots
  BY <1>1 DEF Slots
<1>4. \A j \in Slots : sum[j] \in Int
  BY SlotFacts DEF TreeInv, TypeOK
<1>5. ASSUME NEW i \in Slots
      PROVE  storage[i] = RangeSum(i)
  <2>1. storage[i] = (IF i >= oldSize THEN 0 ELSE RangeSum(i))
                       + (IF Covers(oldSize, i) THEN Delta ELSE 0)
    BY <1>1 DEF TreeInv, NodesInFlight, Updated
  <2>2. RangeSum(i) \in Int /\ Delta \in Int /\ i \in Nat
    BY <1>1, <1>3, <1>4, SlotFacts DEF TreeInv, Slots
  <2>3. i # 0 => /\ ParentInterrogation(i) \in Slots /\ ParentInterrogation(i) \in Nat
                 /\ RangeSum(i) = sum[i] - sum[ParentInterrogation(i)]
    BY SlotFacts DEF TreeInv, Slots, RangeSum
  <2>4. CASE i < oldSize
    <3>1. ~Covers(oldSize, i)
      BY <1>1, <2>2, <2>4 DEF Covers
    <3>2. QED
      BY <1>1, <2>1, <2>2, <2>4, <3>1
  <2>5. CASE i >= oldSize /\ ParentInterrogation(i) < oldSize
    <3>1. ParentInterrogation(i) = 0 /\ Covers(oldSize, i) /\ i # 0
      BY <1>1, <2>2, <2>5, CoversFirstHalf DEF Covers
    <3>2. RangeSum(i) = Delta
      BY <1>1, <1>2, <2>3, <2>5, <3>1
    <3>3. QED
      BY <2>1, <2>2, <2>5, <3>1, <3>2
  <2>6. CASE i >= oldSize /\ ~(ParentInterrogation(i) < oldSize)
    <3>1. i # 0 /\ ParentInterrogation(i) >= oldSize /\ ~Covers(oldSize, i)
      BY <1>1, <2>2, <2>3, <2>6 DEF Covers
    <3>2. sum[i] = sum[ParentInterrogation(i)]
      BY <1>2, <2>3, <2>6, <3>1
    <3>3. RangeSum(i) = 0
      BY <1>4, <2>3, <3>1, <3>2
    <3>4. QED
      BY <2>1, <2>6, <3>1, <3>3
  <2>7. QED
    BY <1>1, <2>2, <2>4, <2>5, <2>6
<1>6. /\ ~fixing' /\ pc' \notin {"modify_loop", "modified"}
      /\ storage' = storage /\ sum' = sum /\ size' = size
  BY DEF TreeFixed, AfterGrow
<1>7. \A i \in Slots : RangeSum(i) \in Int
  BY SlotFacts DEF TreeInv
<1>8. Slots' = Slots /\ \A i \in Slots : RangeSum(i)' = RangeSum(i)
  BY <1>6 DEF Slots, RangeSum
<1>9. QED
  BY <1>5, <1>6, <1>7, <1>8 DEF NodesInFlight, Updated

LEMMA NodesModifyZero ==
  ASSUME TreeInv, ModifyZero
  PROVE  NodesInFlight'
<1>1. /\ acc = Delta /\ acc \in Int /\ node = 0 /\ ~fixing /\ 0 \in Slots
  <2>1. ~fixing
    BY DEF TreeInv, TypeOK, GrowInv, ModifyZero, IsPowerOfTwo, node
  <2>2. QED
    BY <2>1 DEF TreeInv, TypeOK, LoopInv, CallInv, ModifyZero, node, Slots
<1>2. /\ storage' = [storage EXCEPT ![0] = storage[0] + acc] /\ pc' = "modified"
      /\ sum' = sum /\ size' = size /\ fixing' = fixing /\ oldSize' = oldSize
      /\ call' = call /\ pc = "bit_modify"
  BY DEF ModifyZero
<1>3. node' = node /\ Delta' = Delta /\ Slots' = Slots
      /\ \A i \in Slots : RangeSum(i)' = RangeSum(i)
  BY <1>2 DEF node, Delta, Promise!ValueAt, Slots, RangeSum
<1>4. \A i \in Slots : storage[i] = RangeSum(i) /\ RangeSum(i) \in Int
  <2>1. \A i \in Slots : RangeSum(i) \in Int
    BY SlotFacts DEF TreeInv
  <2>2. QED
    BY <1>1, <1>2, <2>1 DEF TreeInv, NodesInFlight, Updated
<1>5. \A i \in Slots : Updated(i)' <=> i = 0
  BY <1>1, <1>2, <1>3 DEF Updated, Covers
<1>6. \A i \in Slots : storage'[i] = IF i = 0 THEN storage[i] + acc ELSE storage[i]
  BY <1>1, <1>2 DEF TreeInv, TypeOK
<1>7. QED
  BY <1>1, <1>2, <1>3, <1>4, <1>5, <1>6 DEF NodesInFlight

\* One pass of the loop of bit_modify completes one more covering node.
LEMMA NodesModifyNode ==
  ASSUME TreeInv, ModifyNode
  PROVE  NodesInFlight'
<1>1. /\ acc = Delta /\ acc \in Int /\ node \in Nat /\ node > 0
      /\ cursor \in Nat /\ cursor \in Slots /\ Covers(node, cursor)
      /\ size \in Nat
  BY DEF TreeInv, TypeOK, LoopInv, ModifyNode, node, Slots
<1>2. /\ storage' = [storage EXCEPT ![cursor] = storage[cursor] + acc]
      /\ pc = "modify_loop" /\ cursor' = ParentUpdate(cursor)
      /\ pc' = IF cursor' < size THEN "modify_loop" ELSE "modified"
      /\ sum' = sum /\ size' = size /\ fixing' = fixing /\ oldSize' = oldSize
      /\ call' = call
  BY DEF ModifyNode
<1>3. node' = node /\ Delta' = Delta /\ Slots' = Slots
      /\ \A i \in Slots : RangeSum(i)' = RangeSum(i)
  BY <1>2 DEF node, Delta, Promise!ValueAt, Slots, RangeSum
<1>4. /\ cursor' \in Nat /\ cursor < cursor'
      /\ \A i \in Nat : Covers(node, i) /\ cursor < i => cursor' <= i
  BY <1>1, <1>2, UpdateVisitsCover
<1>5. Slots \subseteq Nat /\ \A i \in Slots : i < size
  BY <1>1 DEF Slots
<1>6. \A i \in Slots : Updated(i) <=> Covers(node, i) /\ i < cursor
  BY <1>2 DEF Updated
<1>7. ASSUME NEW i \in Slots
      PROVE  Updated(i)' <=> Covers(node, i) /\ i <= cursor
  <2>1. Updated(i)' <=> Covers(node, i) /\ (i < cursor' \/ ~(cursor' < size))
    BY <1>2, <1>3 DEF Updated, Covers
  <2>2. QED
    BY <1>1, <1>4, <1>5, <2>1
<1>8. \A i \in Slots : storage'[i] = IF i = cursor THEN storage[i] + acc ELSE storage[i]
  BY <1>1, <1>2 DEF TreeInv, TypeOK
<1>9. \A i \in Slots : RangeSum(i) \in Int
  BY SlotFacts DEF TreeInv
<1>10. ASSUME NEW i \in Slots
       PROVE  storage'[i] = (IF fixing /\ i >= oldSize THEN 0 ELSE RangeSum(i))
                              + (IF Updated(i)' THEN Delta ELSE 0)
  <2>1. storage[i] = (IF fixing /\ i >= oldSize THEN 0 ELSE RangeSum(i))
                       + (IF Updated(i) THEN Delta ELSE 0)
    BY DEF TreeInv, NodesInFlight
  <2>2. CASE i = cursor
    BY <1>1, <1>6, <1>7, <1>8, <1>9, <2>1, <2>2
  <2>3. CASE i # cursor
    BY <1>1, <1>5, <1>6, <1>7, <1>8, <2>1, <2>3
  <2>4. QED
    BY <2>2, <2>3
<1>11. QED
  BY <1>2, <1>3, <1>10 DEF NodesInFlight

\* When the call returns the promised sums catch up with the nodes.
LEMMA NodesReturn ==
  ASSUME TreeInv, ReturnModified
  PROVE  NodesInFlight'
<1>1. /\ ~fixing /\ pc = "modified" /\ node = call.index
      /\ call.index \in Nat /\ call.index < size
      /\ sum' = Promise!Added(sum, call.index, Delta)
      /\ storage' = storage /\ size' = size /\ ~fixing' /\ pc' = "idle"
  BY DEF TreeInv, TypeOK, CallInv, ReturnModified, Return, Delta, node
<1>2. Delta \in Int
  BY <1>1 DEF TreeInv, TypeOK, LoopInv
<1>3. \A j \in Promise!Positions :
        /\ sum[j] \in Int
        /\ sum'[j] = IF j < call.index THEN sum[j] ELSE sum[j] + Delta
  BY <1>1 DEF TreeInv, TypeOK, Promise!Added
<1>4. ASSUME NEW i \in Slots
      PROVE  storage[i] = RangeSum(i)' /\ RangeSum(i)' \in Int
  <2>1. storage[i] = RangeSum(i) + (IF Covers(call.index, i) THEN Delta ELSE 0)
    BY <1>1 DEF TreeInv, NodesInFlight, Updated
  <2>2. i \in Promise!Positions /\ i \in Nat
    BY SlotFacts DEF TreeInv, Slots
  <2>3. CASE i = 0
    <3>1. RangeSum(i)' = sum'[0] /\ RangeSum(i) = sum[0]
      BY <2>3 DEF RangeSum
    <3>2. Covers(call.index, i) <=> call.index = 0
      BY <1>1, <2>3 DEF Covers
    <3>3. QED
      BY <1>1, <1>2, <1>3, <2>1, <2>2, <2>3, <3>1, <3>2
  <2>4. CASE i # 0
    <3>1. /\ ParentInterrogation(i) \in Promise!Positions
          /\ ParentInterrogation(i) \in Nat /\ ParentInterrogation(i) < i
      BY <2>4, SlotFacts DEF TreeInv, Slots
    <3>2. /\ RangeSum(i)' = sum'[i] - sum'[ParentInterrogation(i)]
          /\ RangeSum(i) = sum[i] - sum[ParentInterrogation(i)]
      BY <2>4 DEF RangeSum
    <3>3. Covers(call.index, i)
            <=> call.index <= i /\ ParentInterrogation(i) < call.index
      BY <1>1, <2>2, <2>4, <3>1 DEF Covers
    <3>4. QED
      BY <1>1, <1>2, <1>3, <2>1, <2>2, <3>1, <3>2, <3>3
  <2>5. QED
    BY <2>3, <2>4
<1>5. Slots' = Slots
  BY <1>1 DEF Slots
<1>6. QED
  BY <1>1, <1>4, <1>5 DEF NodesInFlight, Updated

(***************************************************************************)
(* Then every action.                                                      *)
(***************************************************************************)
LEMMA NodesStep ==
  ASSUME TreeInv, [Next]_vars
  PROVE  NodesInFlight'
<1> USE DEF TreeInv
<1>1. CASE CallGet
  BY <1>1, NodesQuiet DEF CallGet, Begin
<1>2. CASE CallGetSum
  BY <1>2, NodesQuiet DEF CallGetSum, Begin
<1>3. CASE CallSet
  BY <1>3, NodesQuiet DEF CallSet, Begin
<1>4. CASE CallAdd
  BY <1>4, NodesQuiet DEF CallAdd, Begin
<1>5. CASE Reset
  BY <1>5, NodesZero DEF Reset, TypeOK, GrowInv
<1>6. CASE CountBit
  BY <1>6, NodesQuiet DEF CountBit
<1>7. CASE BitsCounted
  BY <1>7, NodesQuiet DEF BitsCounted
<1>8. CASE Allocate
  <2>1. newSize \in Nat /\ newSize <= MaxSize /\ ~fixing
        /\ sum = [j \in Promise!Positions |-> 0]
    BY <1>8 DEF Allocate, TypeOK, ConstructInv, Constructing
  <2>2. size' = newSize /\ storage' = Zeros(newSize) /\ sum' = sum
        /\ fixing' = fixing /\ pc' = "idle"
    BY <1>8 DEF Allocate, Return
  <2>3. QED
    BY <2>1, <2>2, NodesZero
<1>9. CASE IndexFits
  BY <1>9, NodesQuiet DEF IndexFits, AfterGrow
<1>10. CASE StartGrowing
  BY <1>10, NodesQuiet DEF StartGrowing, GrowInv
<1>11. CASE Double
  BY <1>11, NodesQuiet DEF Double
<1>12. CASE Resize
  BY <1>12, NodesResize
<1>13. CASE ResizeThrows
  BY <1>13, NodesQuiet DEF ResizeThrows, Return, GrowInv
<1>14. CASE TreeFixed
  BY <1>14, NodesFixed
<1>15. CASE AddToSum
  BY <1>15, NodesQuiet DEF AddToSum
<1>16. CASE ReturnSum
  BY <1>16, NodesQuiet DEF ReturnSum, Return, GrowInv
<1>17. CASE ReadNode
  BY <1>17, NodesQuiet DEF ReadNode
<1>18. CASE SubtractPredecessor
  BY <1>18, NodesQuiet DEF SubtractPredecessor
<1>19. CASE ReachParent
  BY <1>19, NodesQuiet DEF ReachParent
<1>20. CASE ReturnValue
  BY <1>20, NodesQuiet DEF ReturnValue, Return, GrowInv
<1>21. CASE Difference
  BY <1>21, NodesQuiet DEF Difference
<1>22. CASE ModifyZero
  BY <1>22, NodesModifyZero
<1>23. CASE StartModify
  BY <1>23 DEF StartModify, NodesInFlight, Updated, RangeSum, Slots, node, Covers, TypeOK
<1>24. CASE ModifyNode
  BY <1>24, NodesModifyNode
<1>25. CASE ReturnModified
  BY <1>25, NodesReturn
<1>26. CASE UNCHANGED vars
  BY <1>26 DEF vars, NodesInFlight, Updated, RangeSum, Slots, node, Delta,
     Covers, Promise!ValueAt
<1>27. QED
  BY <1>1, <1>2, <1>3, <1>4, <1>5, <1>6, <1>7, <1>8, <1>9, <1>10, <1>11, <1>12, <1>13, <1>14, <1>15, <1>16, <1>17, <1>18, <1>19, <1>20, <1>21, <1>22, <1>23, <1>24, <1>25, <1>26
     DEF Next, Step, Construct, Grow, Query, Modify

(***************************************************************************)
(* What the loops have computed so far.  First, what they read: outside    *)
(* bit_modify every node but the new ones of a growing vector is complete. *)
(***************************************************************************)
LEMMA NodesAtRest ==
  ASSUME TreeInv, pc \notin {"modify_loop", "modified"},
         NEW i \in Slots
  PROVE  storage[i] = IF fixing /\ i >= oldSize THEN 0 ELSE RangeSum(i)
<1>1. RangeSum(i) \in Int
  BY SlotFacts DEF TreeInv
<1>2. QED
  BY <1>1 DEF TreeInv, NodesInFlight, Updated

LEMMA NodeInSlots ==
  ASSUME TreeInv, pc \in {"bit_get", "get_loop", "got", "bit_modify", "modify_loop"}
  PROVE  /\ node \in Slots /\ node \in Nat /\ call.index \in Slots
         /\ fixing => node = oldSize /\ node > 0 /\ IsPowerOfTwo(node)
         /\ ~fixing => node = call.index
         /\ 0 \in Slots /\ (node > 0 => node - 1 \in Slots)
<1>1. size \in Nat /\ call.index \in Nat /\ oldSize \in Nat
  BY DEF TreeInv, TypeOK
<1>2. call.index \in Slots
  BY <1>1 DEF TreeInv, CallInv, Slots
<1>3. fixing => IsPowerOfTwo(oldSize) /\ oldSize > 0 /\ oldSize < size
  BY <1>1 DEF TreeInv, GrowInv, IsPowerOfTwo
<1>4. QED
  BY <1>1, <1>2, <1>3 DEF node, Slots

LEMMA SumOfSlots ==
  ASSUME TreeInv
  PROVE  \A j \in Slots : sum[j] \in Int
BY SlotFacts DEF TreeInv, TypeOK

LEMMA LoopCallGetSum ==
  ASSUME TreeInv, CallGetSum
  PROVE  LoopInv'
<1>1. PICK i \in Slots : /\ Begin("get_sum", i, 0, "sum_loop")
                         /\ acc' = storage[0] /\ cursor' = i
  BY DEF CallGetSum
<1>2. pc = "idle" /\ ~fixing /\ 0 \in Slots
  BY <1>1 DEF TreeInv, TypeOK, GrowInv, Begin, Slots
<1>3. storage[0] = sum[0]
  BY <1>2, NodesAtRest DEF RangeSum
<1>4. sum[0] \in Int /\ sum[i] \in Int
  BY <1>2, SumOfSlots
<1>5. pc' = "sum_loop" /\ call'.index = i /\ sum' = sum /\ i \in Int
  BY <1>1 DEF Begin, Call, Slots
<1>6. QED
  BY <1>1, <1>3, <1>4, <1>5 DEF LoopInv

LEMMA LoopAddToSum ==
  ASSUME TreeInv, AddToSum
  PROVE  LoopInv'
<1>1. /\ pc = "sum_loop" /\ pc' = pc /\ cursor > 0 /\ cursor \in Slots
      /\ cursor \in Nat /\ ~fixing /\ call.index \in Slots /\ 0 \in Slots
      /\ cursor <= call.index /\ call.index \in Nat
      /\ acc = sum[0] + sum[call.index] - sum[cursor]
  BY DEF TreeInv, TypeOK, GrowInv, CallInv, LoopInv, AddToSum, Slots
<1>2. /\ ParentInterrogation(cursor) \in Slots /\ ParentInterrogation(cursor) \in Nat
      /\ ParentInterrogation(cursor) < cursor
  BY <1>1, SlotFacts DEF TreeInv, Slots
<1>3. storage[cursor] = sum[cursor] - sum[ParentInterrogation(cursor)]
  BY <1>1, NodesAtRest DEF RangeSum
<1>4. /\ sum[0] \in Int /\ sum[call.index] \in Int /\ sum[cursor] \in Int
      /\ sum[ParentInterrogation(cursor)] \in Int
  BY <1>1, <1>2, SumOfSlots
<1>5. acc' = sum[0] + sum[call.index] - sum[ParentInterrogation(cursor)]
  BY <1>1, <1>3, <1>4 DEF AddToSum
<1>6. QED
  BY <1>1, <1>2, <1>5 DEF LoopInv, AddToSum

LEMMA LoopReadNode ==
  ASSUME TreeInv, ReadNode
  PROVE  LoopInv'
<1>1. /\ node \in Slots /\ node \in Nat /\ (fixing => node > 0)
      /\ (~fixing => node = call.index) /\ pc = "bit_get"
  BY NodeInSlots DEF ReadNode
<1>2. /\ acc' = storage[node] /\ storage' = storage /\ sum' = sum
      /\ node' = node /\ call' = call /\ fixing' = fixing
      /\ IF node > 0 THEN cursor' = node - 1 /\ pc' = "get_loop" ELSE pc' = "got"
  BY DEF ReadNode, node
<1>3. CASE node > 0
  <2>1. ParentInterrogation(node) \in Nat /\ ParentInterrogation(node) < node
    BY <1>1, <1>3, InterrogationDescends
  <2>2. node - 1 \in Slots
    BY <1>1, <1>3, NodeInSlots
  <2>3. sum[node - 1] \in Int /\ storage[node] \in Int
    BY <1>1, <2>2, SumOfSlots DEF TreeInv, TypeOK
  <2>4. acc' = storage[node] - (sum[node - 1] - sum[node - 1])
    BY <1>2, <2>3
  <2>5. QED
    BY <1>1, <1>2, <1>3, <2>1, <2>4 DEF LoopInv
<1>4. CASE node = 0
  <2>1. storage[node] = sum[0]
    BY <1>1, <1>4, NodesAtRest DEF RangeSum
  <2>2. ~fixing' /\ pc' = "got" /\ call'.index = 0
    BY <1>1, <1>2, <1>4
  <2>3. QED
    BY <1>2, <2>1, <2>2 DEF LoopInv, Promise!ValueAt
<1>5. QED
  BY <1>1, <1>3, <1>4

LEMMA LoopSubtractPredecessor ==
  ASSUME TreeInv, SubtractPredecessor
  PROVE  LoopInv'
<1>1. /\ node \in Slots /\ node \in Nat /\ node > 0 /\ pc = "get_loop"
      /\ cursor \in Nat /\ cursor \in Slots /\ cursor < node
      /\ ParentInterrogation(node) <= cursor /\ cursor # ParentInterrogation(node)
      /\ acc = storage[node] - (sum[node - 1] - sum[cursor])
      /\ (fixing => node = oldSize)
  <2>1. pc = "get_loop" /\ cursor # ParentInterrogation(node)
    BY DEF SubtractPredecessor
  <2>2. cursor \in Nat /\ size \in Nat
    BY DEF TreeInv, TypeOK
  <2>3. LoopInv
    BY DEF TreeInv
  <2>4. /\ node > 0 /\ ParentInterrogation(node) <= cursor /\ cursor < node
        /\ acc = storage[node] - (sum[node - 1] - sum[cursor])
    BY <2>1, <2>3 DEF LoopInv
  <2>5. node \in Slots /\ node \in Nat /\ (fixing => node = oldSize)
    BY <2>1, NodeInSlots
  <2>6. cursor \in Slots
    BY <2>2, <2>4, <2>5 DEF Slots
  <2>. QED
    BY <2>1, <2>2, <2>4, <2>5, <2>6
<1>2. ParentInterrogation(node) \in Nat /\ ParentInterrogation(node) < cursor
  BY <1>1, InterrogationDescends
<1>3. /\ ParentInterrogation(cursor) \in Slots /\ ParentInterrogation(cursor) \in Nat
      /\ ParentInterrogation(cursor) < cursor
  BY <1>1, <1>2, SlotFacts DEF TreeInv, Slots
<1>4. ParentInterrogation(node) <= ParentInterrogation(cursor)
  BY <1>1, <1>2, SearchMeetsParent
<1>5. storage[cursor] = sum[cursor] - sum[ParentInterrogation(cursor)]
  <2>1. ~(fixing /\ cursor >= oldSize)
    BY <1>1
  <2>2. QED
    BY <1>1, <1>2, <2>1, NodesAtRest DEF RangeSum
<1>6. /\ sum[node - 1] \in Int /\ sum[cursor] \in Int
      /\ sum[ParentInterrogation(cursor)] \in Int /\ storage[node] \in Int
  BY <1>1, <1>3, SumOfSlots, node - 1 \in Slots DEF TreeInv, TypeOK, Slots
<1>7. acc' = storage[node] - (sum[node - 1] - sum[ParentInterrogation(cursor)])
  BY <1>1, <1>5, <1>6 DEF SubtractPredecessor
<1>8. /\ pc' = "get_loop" /\ node' = node /\ storage' = storage /\ sum' = sum
      /\ cursor' = ParentInterrogation(cursor)
  BY <1>1 DEF SubtractPredecessor, node
<1>9. QED
  BY <1>1, <1>3, <1>4, <1>7, <1>8 DEF LoopInv

LEMMA LoopReachParent ==
  ASSUME TreeInv, ReachParent
  PROVE  LoopInv'
<1>1. /\ node \in Slots /\ node \in Nat /\ node > 0 /\ pc = "get_loop"
      /\ acc = storage[node] - (sum[node - 1] - sum[ParentInterrogation(node)])
      /\ (fixing => node = oldSize /\ IsPowerOfTwo(node))
      /\ (~fixing => node = call.index) /\ 0 \in Slots /\ node - 1 \in Slots
  BY NodeInSlots DEF TreeInv, LoopInv, ReachParent
<1>2. ParentInterrogation(node) \in Slots
  BY <1>1, SlotFacts DEF TreeInv
<1>3. /\ sum[node - 1] \in Int /\ sum[node] \in Int /\ sum[0] \in Int
      /\ sum[ParentInterrogation(node)] \in Int
  BY <1>1, <1>2, SumOfSlots
<1>4. /\ acc' = acc /\ pc' = "got" /\ fixing' = fixing /\ sum' = sum /\ call' = call
      /\ oldSize' = oldSize
  BY DEF ReachParent
<1>5. CASE fixing
  <2>1. storage[node] = 0 /\ ParentInterrogation(node) = 0
    BY <1>1, <1>5, NodesAtRest, ParentOfPower
  <2>2. acc = sum[0] - sum[oldSize - 1]
    BY <1>1, <1>3, <1>5, <2>1
  <2>3. QED
    BY <1>4, <1>5, <2>2 DEF LoopInv
<1>6. CASE ~fixing
  <2>1. storage[node] = sum[node] - sum[ParentInterrogation(node)]
    BY <1>1, <1>6, NodesAtRest DEF RangeSum
  <2>2. acc = sum[node] - sum[node - 1]
    BY <1>1, <1>3, <2>1
  <2>3. acc = Promise!ValueAt(sum, call.index)
    BY <1>1, <1>6, <2>2 DEF Promise!ValueAt
  <2>4. QED
    BY <1>4, <1>6, <2>3 DEF LoopInv
<1>7. QED
  BY <1>5, <1>6

LEMMA LoopDifference ==
  ASSUME TreeInv, Difference
  PROVE  LoopInv'
<1>1. /\ pc = "got" /\ pc' = "bit_modify" /\ acc' = target - acc
      /\ Delta' = Delta /\ call.op # "get"
  BY DEF Difference, Delta, Promise!ValueAt
<1>2. CASE fixing
  <2>1. acc = sum[0] - sum[oldSize - 1] /\ target = 0
    BY <1>1, <1>2 DEF TreeInv, LoopInv, target
  <2>2. 0 \in Slots /\ oldSize - 1 \in Slots
    BY <1>1, <1>2, NodeInSlots
  <2>3. acc' = Delta
    BY <1>1, <1>2, <2>1, <2>2, SumOfSlots DEF Delta
  <2>4. QED
    BY <1>1, <2>3 DEF LoopInv
<1>3. CASE ~fixing
  <2>1. acc = Promise!ValueAt(sum, call.index) /\ target = call.value /\ call.op = "set"
    BY <1>1, <1>3 DEF TreeInv, CallInv, LoopInv, target
  <2>2. acc' = Delta
    BY <1>1, <1>3, <2>1 DEF Delta
  <2>3. QED
    BY <1>1, <2>2 DEF LoopInv
<1>4. QED
  BY <1>2, <1>3

LEMMA LoopStartModify ==
  ASSUME TreeInv, StartModify
  PROVE  LoopInv'
<1>1. /\ node \in Slots /\ node \in Nat /\ node > 0 /\ acc = Delta /\ size \in Nat
  BY NodeInSlots DEF TreeInv, TypeOK, LoopInv, StartModify
<1>2. Covers(node, node) /\ node < size
  BY <1>1, InterrogationDescends DEF Covers, Slots
<1>3. /\ pc' = "modify_loop" /\ cursor' = node /\ acc' = acc /\ size' = size
      /\ node' = node /\ Delta' = Delta
  BY DEF StartModify, node, Delta, Promise!ValueAt
<1>4. QED
  BY <1>1, <1>2, <1>3 DEF LoopInv, Covers

LEMMA LoopModifyNode ==
  ASSUME TreeInv, ModifyNode
  PROVE  LoopInv'
<1>1. /\ node \in Nat /\ node > 0 /\ acc = Delta
      /\ cursor \in Nat /\ Covers(node, cursor)
  BY NodeInSlots DEF TreeInv, TypeOK, LoopInv, ModifyNode
<1>2. Covers(node, ParentUpdate(cursor))
  BY <1>1, UpdateVisitsCover
<1>3. /\ pc' = IF cursor' < size THEN "modify_loop" ELSE "modified"
      /\ cursor' = ParentUpdate(cursor) /\ acc' = acc /\ size' = size
      /\ node' = node /\ Delta' = Delta
  BY DEF ModifyNode, node, Delta, Promise!ValueAt
<1>4. QED
  BY <1>1, <1>2, <1>3 DEF LoopInv, Covers

(***************************************************************************)
(* Then every action.                                                      *)
(***************************************************************************)
LEMMA LoopStep ==
  ASSUME TreeInv, [Next]_vars
  PROVE  LoopInv'
<1> USE DEF TreeInv, LoopInv, Begin, Return
<1>1. CASE CallGet
  BY <1>1 DEF CallGet
<1>2. CASE CallGetSum
  BY <1>2, LoopCallGetSum
<1>3. CASE CallSet
  BY <1>3 DEF CallSet
<1>4. CASE CallAdd
  BY <1>4 DEF CallAdd
<1>5. CASE Reset
  BY <1>5 DEF Reset
<1>6. CASE CountBit
  BY <1>6 DEF CountBit
<1>7. CASE BitsCounted
  BY <1>7 DEF BitsCounted
<1>8. CASE Allocate
  BY <1>8 DEF Allocate
<1>9. CASE IndexFits
  BY <1>9 DEF IndexFits, AfterGrow, Delta, CallInv, GrowInv
<1>10. CASE StartGrowing
  BY <1>10 DEF StartGrowing
<1>11. CASE Double
  BY <1>11 DEF Double
<1>12. CASE Resize
  BY <1>12 DEF Resize
<1>13. CASE ResizeThrows
  BY <1>13 DEF ResizeThrows
<1>14. CASE TreeFixed
  BY <1>14 DEF TreeFixed, AfterGrow, Delta, CallInv, GrowInv
<1>15. CASE AddToSum
  BY <1>15, LoopAddToSum
<1>16. CASE ReturnSum
  BY <1>16 DEF ReturnSum
<1>17. CASE ReadNode
  BY <1>17, LoopReadNode
<1>18. CASE SubtractPredecessor
  BY <1>18, LoopSubtractPredecessor
<1>19. CASE ReachParent
  BY <1>19, LoopReachParent
<1>20. CASE ReturnValue
  BY <1>20 DEF ReturnValue
<1>21. CASE Difference
  BY <1>21, LoopDifference
<1>22. CASE ModifyZero
  BY <1>22 DEF ModifyZero, Delta, Promise!ValueAt
<1>23. CASE StartModify
  BY <1>23, LoopStartModify
<1>24. CASE ModifyNode
  BY <1>24, LoopModifyNode
<1>25. CASE ReturnModified
  BY <1>25 DEF ReturnModified
<1>26. CASE UNCHANGED vars
  BY <1>26 DEF vars, node, Delta, Covers, Promise!ValueAt
<1>27. QED
  BY <1>1, <1>2, <1>3, <1>4, <1>5, <1>6, <1>7, <1>8, <1>9, <1>10, <1>11, <1>12, <1>13, <1>14, <1>15, <1>16, <1>17, <1>18, <1>19, <1>20, <1>21, <1>22, <1>23, <1>24, <1>25, <1>26
     DEF Next, Step, Construct, Grow, Query, Modify

(***************************************************************************)
(* The theorems.                                                           *)
(***************************************************************************)
LEMMA InitInv == Init => TreeInv
<1> SUFFICES ASSUME Init
             PROVE  TreeInv
  OBVIOUS
<1>1. PICK n \in StartSizes : /\ call = Call("construct", n, 0)
                              /\ cursor = n
                              /\ RoundUp(n)
  BY DEF Init
<1>2. n \in Nat /\ 1 <= MaxSize /\ 2 * n <= MaxSize /\ MaxSize \in Nat
  BY StartSizesAssumption, MaxSizeAssumption
<1>3. /\ size = 0 /\ startSize = 0 /\ oldSize = 0 /\ acc = 0 /\ ~fixing
      /\ fixing \in BOOLEAN /\ storage = Zeros(0)
      /\ sum = [j \in Promise!Positions |-> 0] /\ reply = Promise!Pending
      /\ Constructing /\ Slots = 0 .. -1
  <2>1. /\ size = 0 /\ startSize = 0 /\ oldSize = 0 /\ acc = 0 /\ fixing = FALSE
        /\ storage = Zeros(0) /\ sum = [j \in Promise!Positions |-> 0]
        /\ reply = Promise!Pending
    BY DEF Init
  <2>2. Constructing
    BY <1>1 DEF RoundUp, Constructing
  <2>3. Slots = 0 .. -1
    BY <2>1 DEF Slots
  <2>4. QED
    BY <2>1, <2>2, <2>3
<1>4. newSize \in Nat /\ IsPowerOfTwo(newSize)
  BY <1>1, <1>2, PowerOne DEF RoundUp
<1>5. /\ pc = "allocate" => newSize <= MaxSize
      /\ pc = "count_bits" => newSize * (IF cursor = 0 THEN 1 ELSE 2 * cursor) <= MaxSize
  BY <1>1, <1>2 DEF RoundUp
<1>6. TypeOK
  BY <1>1, <1>2, <1>3, <1>4
     DEF TypeOK, Call, Zeros, Slots, Constructing, Locations, Promise!Pending,
         Promise!Returned
<1>7. NodesInFlight /\ TailIsFlat
  BY <1>3 DEF NodesInFlight, TailIsFlat
<1>8. ConstructInv
  BY <1>3, <1>4, <1>5 DEF ConstructInv
<1>9. CallInv /\ GrowInv /\ LoopInv
  BY <1>1, <1>3 DEF CallInv, GrowInv, LoopInv, Constructing, Call
<1>10. QED
  BY <1>6, <1>7, <1>8, <1>9 DEF TreeInv

(***************************************************************************)
(* TreeInv holds in every reachable state: between and inside the calls,   *)
(* while the vector grows and is repaired, the nodes, the locals and the   *)
(* promised sums agree.                                                    *)
(***************************************************************************)
THEOREM TreeInvHolds == Spec => []TreeInv
<1>1. Init => TreeInv
  BY InitInv
<1>2. TreeInv /\ [Next]_vars => TreeInv'
  BY TypeStep, NodesStep, TailStep, ConstructStep, CallStep, GrowStep, LoopStep
     DEF TreeInv
<1>3. QED
  BY <1>1, <1>2, PTL DEF Spec

(***************************************************************************)
(* The variables keep their types, and the vector's size stays a power of  *)
(* two through construction, growth and reset.                             *)
(***************************************************************************)
THEOREM TypeCorrect == Spec => []TypeOK
<1>1. TreeInv => TypeOK
  BY DEF TreeInv
<1>2. QED
  BY <1>1, TreeInvHolds, PTL

(***************************************************************************)
(* Between two calls every node holds the sum of the range of elements     *)
(* that get_sum, get and bit_modify take it to hold, whatever was written, *)
(* grown, failed or reset before.                                          *)
(***************************************************************************)
THEOREM NodesCorrect == Spec => []NodesHoldRanges
<1>1. TreeInv => NodesHoldRanges
  <2>1. SUFFICES ASSUME TreeInv, pc = "idle"
                 PROVE  /\ \A i \in Slots : storage[i] = RangeSum(i)
                        /\ \A j \in Promise!Positions : j >= size => sum[j] = sum[size - 1]
    BY DEF NodesHoldRanges
  <2>2. ~fixing /\ size # 0
    BY <2>1 DEF TreeInv, TypeOK, GrowInv, Constructing, IsPowerOfTwo
  <2>3. QED
    BY <2>1, <2>2, NodesAtRest DEF TreeInv, TailIsFlat
<1>2. QED
  BY <1>1, TreeInvHolds, PTL

(***************************************************************************)
(* The tree implements the array of elements of PrefixSums: what get and   *)
(* get_sum return, what set, add and reset do, and that a call that fails  *)
(* to grow the vector does nothing.                                        *)
(***************************************************************************)
LEMMA PromiseStep ==
  ASSUME TreeInv, Next
  PROVE  [Promise!Next]_(Promise!vars)
<1> DEFINE Same == sum' = sum /\ reply' = reply
<1>1. Same => UNCHANGED Promise!vars
  BY DEF Promise!vars
<1>2. CASE CallGet \/ CallGetSum \/ CallSet \/ CallAdd
  <2>1. pc = "idle" /\ reply' = Promise!Pending /\ sum' = sum
    BY <1>2 DEF CallGet, CallGetSum, CallSet, CallAdd, Begin
  <2>2. Promise!Call
    BY <2>1 DEF TreeInv, CallInv, Promise!Call
  <2>3. QED
    BY <2>2 DEF Promise!Next
<1>3. CASE Reset
  <2>1. Promise!Reset
    BY <1>3 DEF Reset, TreeInv, CallInv, Promise!Reset
  <2>2. QED
    BY <2>1 DEF Promise!Next
<1>4. CASE CountBit \/ BitsCounted \/ IndexFits \/ StartGrowing \/ Double \/ Resize
             \/ TreeFixed \/ AddToSum \/ ReadNode \/ SubtractPredecessor \/ ReachParent
             \/ Difference \/ ModifyZero \/ StartModify \/ ModifyNode
  <2>1. Same
    BY <1>4 DEF CountBit, BitsCounted, IndexFits, StartGrowing, Double, Resize, TreeFixed,
       AddToSum, ReadNode, SubtractPredecessor, ReachParent, Difference, ModifyZero,
       StartModify, ModifyNode
  <2>2. QED
    BY <1>1, <2>1
<1>5. CASE Allocate
  <2>1. Promise!Return
    BY <1>5 DEF Allocate, Return, TreeInv, CallInv, Promise!Return, Promise!Construct
  <2>2. QED
    BY <2>1 DEF Promise!Next
<1>6. CASE ResizeThrows
  <2>1. reply = Promise!Pending /\ call.op \in {"set", "add"} /\ call.index \in Indexes
    BY <1>6 DEF ResizeThrows, TreeInv, CallInv
  <2>2. Promise!Fail(call.op, call.index)
    BY <1>6 DEF ResizeThrows, Return, Promise!Fail
  <2>3. QED
    BY <2>1, <2>2 DEF Promise!Next, Promise!Return
<1>7. CASE ReturnSum
  <2>1. /\ reply = Promise!Pending /\ call.index \in Slots /\ 0 \in Slots
        /\ acc = sum[0] + sum[call.index] - sum[0]
    BY <1>7 DEF ReturnSum, TreeInv, TypeOK, CallInv, LoopInv, Slots
  <2>2. acc = sum[call.index] /\ call.index \in Promise!Positions
    BY <2>1, SumOfSlots, SlotFacts DEF TreeInv
  <2>3. Promise!GetSum(call.index)
    BY <1>7, <2>2 DEF ReturnSum, Return, Promise!GetSum
  <2>4. QED
    BY <2>1, <2>2, <2>3 DEF Promise!Next, Promise!Return
<1>8. CASE ReturnValue
  <2>1. /\ reply = Promise!Pending /\ call.index \in Slots
        /\ acc = Promise!ValueAt(sum, call.index)
    BY <1>8 DEF ReturnValue, TreeInv, TypeOK, CallInv, GrowInv, LoopInv, Slots
  <2>2. call.index \in Promise!Positions
    BY <2>1, SlotFacts DEF TreeInv
  <2>3. Promise!Get(call.index)
    BY <1>8, <2>1 DEF ReturnValue, Return, Promise!Get
  <2>4. QED
    BY <2>1, <2>2, <2>3 DEF Promise!Next, Promise!Return
<1>9. CASE ReturnModified
  <2>1. /\ reply = Promise!Pending /\ call.index \in Slots /\ call.op \in {"set", "add"}
        /\ call.value \in Int /\ reply' = Promise!Returned(call.op, call.index, 0)
    BY <1>9 DEF ReturnModified, Return, TreeInv, TypeOK, CallInv, Slots
  <2>2. call.index \in Promise!Positions
    BY <2>1, SlotFacts DEF TreeInv
  <2>3. CASE call.op = "set"
    <3>1. call.value \in Values
      BY <2>3 DEF TreeInv, CallInv
    <3>2. Promise!Set(call.index, call.value)
      BY <1>9, <2>1, <2>3 DEF ReturnModified, Promise!Set
    <3>3. QED
      BY <2>1, <2>2, <3>1, <3>2 DEF Promise!Next, Promise!Return
  <2>4. CASE call.op = "add"
    <3>1. PICK v \in Values : v = call.value + Promise!ValueAt(sum, call.index)
      BY <2>2, <2>4 DEF TreeInv, CallInv
    <3>2. v - Promise!ValueAt(sum, call.index) = call.value
      BY <2>1, <2>2, <3>1, ValueAtType DEF TreeInv, TypeOK
    <3>3. Promise!Add(call.index, v - Promise!ValueAt(sum, call.index))
      BY <1>9, <2>1, <2>4, <3>2 DEF ReturnModified, Promise!Add
    <3>4. QED
      BY <2>1, <2>2, <3>3 DEF Promise!Next, Promise!Return
  <2>5. QED
    BY <2>1, <2>3, <2>4
<1>10. QED
  BY <1>2, <1>3, <1>4, <1>5, <1>6, <1>7, <1>8, <1>9
     DEF Next, Step, Construct, Grow, Query, Modify

THEOREM TreeKeepsPromise == Spec => KeepsPromise
<1>1. Init => Promise!Init
  BY DEF Init, Promise!Init
<1>2. TreeInv /\ [Next]_vars => [Promise!Next]_(Promise!vars)
  <2>1. UNCHANGED vars => UNCHANGED Promise!vars
    BY DEF vars, Promise!vars
  <2>2. QED
    BY <2>1, PromiseStep
<1>3. QED
  BY <1>1, <1>2, TreeInvHolds, PTL DEF Spec, KeepsPromise, Promise!Spec

(***************************************************************************)
(* Calls end: every step of a call leaves fewer steps to take.  The        *)
(* doubling of new_size ends only if it does not wrap around to zero.      *)
(***************************************************************************)
CallsFit == \A i \in Indexes : 2 * i < WordSize

\* More than the steps of a call that need not grow the vector.
Most == 10 + 2 * MaxSize

InSet == CASE pc = "bit_get"     -> 5 + 2 * size
           [] pc = "get_loop"    -> 4 + size + cursor
           [] pc = "got"         -> 3 + size
           [] pc = "bit_modify"  -> 2 + size
           [] pc = "modify_loop" -> 1 + size - cursor
           [] OTHER              -> 1

\* A bound of the steps that are left.
Left == CASE pc = "idle"       -> 0
          [] pc = "allocate"   -> 1
          [] pc = "count_bits" -> 2 + cursor
          [] pc = "sum_loop"   -> 1 + cursor
          [] pc = "grow_fill"  -> 2 * Most + call.index + 2
          [] pc = "grow"       -> 2 * Most + (IF newSize <= call.index
                                              THEN call.index + 1 - newSize ELSE 0)
          [] OTHER             -> InSet + (IF fixing THEN Most ELSE 0)

NeverWraps == pc = "grow" => newSize > 0

StepsDescend == [][Step => Left \in Nat /\ Left' \in Nat /\ Left' < Left]_vars

LEMMA LeftIs ==
  /\ pc = "idle" => Left = 0
  /\ pc = "allocate" => Left = 1
  /\ pc = "count_bits" => Left = 2 + cursor
  /\ pc = "sum_loop" => Left = 1 + cursor
  /\ pc = "grow_fill" => Left = 2 * Most + call.index + 2
  /\ pc = "grow" => Left = 2 * Most + (IF newSize <= call.index THEN call.index + 1 - newSize ELSE 0)
  /\ pc \in {"bit_get", "get_loop", "got", "bit_modify", "modify_loop", "modified"} =>
       Left = InSet + (IF fixing THEN Most ELSE 0)
  /\ pc = "bit_get" => InSet = 5 + 2 * size
  /\ pc = "get_loop" => InSet = 4 + size + cursor
  /\ pc = "got" => InSet = 3 + size
  /\ pc = "bit_modify" => InSet = 2 + size
  /\ pc = "modify_loop" => InSet = 1 + size - cursor
  /\ pc = "modified" => InSet = 1
BY DEF Left, InSet

LEMMA LeftTyped ==
  ASSUME TreeInv
  PROVE  Left \in Nat
<1>1. /\ size \in Nat /\ size <= MaxSize /\ MaxSize \in Nat /\ cursor \in Nat /\ newSize \in Nat
      /\ call.index \in Nat /\ fixing \in BOOLEAN /\ pc \in Locations
      /\ pc = "modify_loop" => cursor < size
  BY MaxSizeAssumption DEF TreeInv, TypeOK, LoopInv
<1>2. Most \in Nat
  BY <1>1 DEF Most
<1>3. InSet \in Nat
  <2>1. CASE pc \in {"bit_get", "get_loop", "got", "bit_modify", "modify_loop"}
    BY <1>1, <2>1, LeftIs
  <2>2. CASE pc \notin {"bit_get", "get_loop", "got", "bit_modify", "modify_loop"}
    BY <2>2 DEF InSet
  <2>. QED
    BY <2>1, <2>2
<1>4. CASE pc \in {"bit_get", "get_loop", "got", "bit_modify", "modify_loop", "modified"}
  BY <1>1, <1>2, <1>3, <1>4, LeftIs
<1>5. CASE pc \in {"idle", "allocate", "count_bits", "sum_loop", "grow_fill", "grow"}
  BY <1>1, <1>2, <1>5, LeftIs
<1>. QED
  BY <1>1, <1>4, <1>5 DEF Locations

LEMMA StaysPositive ==
  ASSUME CallsFit, TreeInv, NeverWraps, [Next]_vars
  PROVE  NeverWraps'
<1>1. CASE StartGrowing
  <2>1. size > 0
    BY <1>1 DEF StartGrowing, TreeInv, TypeOK, Constructing, IsPowerOfTwo
  <2>. QED
    BY <1>1, <2>1 DEF StartGrowing, NeverWraps
<1>2. CASE Double
  <2>1. /\ newSize \in Nat /\ newSize > 0 /\ newSize <= call.index /\ call.index \in Nat
        /\ 2 * call.index < WordSize /\ WordSize \in Nat /\ newSize' = (newSize * 2) % WordSize
    BY <1>2, WordSizeAssumption DEF Double, TreeInv, TypeOK, CallInv, CallsFit, NeverWraps
  <2>2. newSize * 2 \in 1 .. WordSize - 1
    BY <2>1
  <2>3. newSize' = newSize * 2
    BY <2>1, <2>2
  <2>. QED
    BY <2>2, <2>3 DEF NeverWraps
<1>3. CASE ~StartGrowing /\ ~Double
  <2>1. pc' = "grow" => pc = "grow" /\ newSize' = newSize
    BY <1>3 DEF Next, Step, Construct, Grow, Query, Modify, CallGet, CallGetSum, CallSet, CallAdd, Begin,
       Reset, CountBit, BitsCounted, Allocate, Return, IndexFits, AfterGrow, Resize, ResizeThrows,
       TreeFixed, AddToSum, ReturnSum, ReadNode, SubtractPredecessor, ReachParent, ReturnValue, Difference,
       ModifyZero, StartModify, ModifyNode, ReturnModified, vars
  <2>. QED
    BY <2>1 DEF NeverWraps
<1>. QED
  BY <1>1, <1>2, <1>3

LEMMA StepFacts ==
  ASSUME TreeInv
  PROVE  /\ size \in Nat /\ size <= MaxSize /\ MaxSize \in Nat /\ cursor \in Nat /\ newSize \in Nat
         /\ call.index \in Nat /\ fixing \in BOOLEAN /\ Most = 10 + 2 * MaxSize
BY MaxSizeAssumption DEF TreeInv, TypeOK, Most

LEMMA ConstructDescends ==
  ASSUME TreeInv, TreeInv', Construct
  PROVE  Left' < Left
<1>1. CASE CountBit
  <2>1. cursor \in Nat /\ cursor # 0
    BY <1>1, StepFacts DEF CountBit
  <2>2. cursor \div 2 < cursor /\ cursor \div 2 \in Nat
    BY <2>1
  <2>3. Left = 2 + cursor /\ Left' = 2 + cursor'
    BY <1>1, LeftIs DEF CountBit, Left
  <2>. QED
    BY <1>1, <2>1, <2>2, <2>3 DEF CountBit
<1>2. CASE BitsCounted
  <2>1. Left = 2 + cursor /\ Left' = 1 /\ cursor \in Nat
    BY <1>2, LeftIs, StepFacts DEF BitsCounted, Left
  <2>. QED
    BY <2>1
<1>3. CASE Allocate
  <2>1. Left = 1 /\ Left' = 0
    BY <1>3, LeftIs DEF Allocate, Return, Left
  <2>. QED
    BY <2>1
<1>. QED
  BY <1>1, <1>2, <1>3 DEF Construct

LEMMA QueryDescends ==
  ASSUME TreeInv, TreeInv', Query
  PROVE  Left' < Left
<1>0. /\ size \in Nat /\ cursor \in Nat /\ node \in Nat /\ Most \in Nat /\ size' = size
      /\ (IF fixing THEN Most ELSE 0) \in Nat /\ fixing' = fixing
  BY StepFacts DEF TreeInv, TypeOK, node, Query, AddToSum, ReturnSum, ReadNode, SubtractPredecessor, ReachParent,
                   ReturnValue
<1>. DEFINE repair == IF fixing THEN Most ELSE 0
<1>1. CASE AddToSum
  <2>1. Left = 1 + cursor /\ Left' = 1 + cursor'
    BY <1>1, LeftIs DEF AddToSum, Left
  <2>2. cursor' \in Nat /\ cursor' < cursor
    BY <1>0, <1>1, InterrogationDescends DEF AddToSum
  <2>3. cursor \in Nat
    BY <1>0
  <2>4. \A x, y \in Nat : x < y => 1 + x < 1 + y
    OBVIOUS
  <2>. QED
    BY <2>1, <2>2, <2>3, <2>4, Zenon
<1>2. CASE ReturnSum
  <2>1. Left = 1 + cursor /\ Left' = 0
    BY <1>2, LeftIs DEF ReturnSum, Return, Left
  <2>. QED
    BY <1>0, <2>1
<1>3. CASE ReadNode
  <2>1. Left = 5 + 2 * size + repair
    BY <1>3, LeftIs DEF ReadNode
  <2>2. node < size
    BY <1>0, <1>3, NodeInSlots DEF ReadNode, Slots
  <2>3. CASE node > 0
    <3>1. pc' = "get_loop" /\ cursor' = node - 1
      BY <1>3, <2>3 DEF ReadNode
    <3>2. Left' = 4 + size + cursor' + repair
      BY <1>0, <3>1 DEF Left, InSet
    <3>. QED
      BY <1>0, <2>1, <2>2, <2>3, <3>1, <3>2
  <2>4. CASE ~(node > 0)
    <3>1. pc' = "got"
      BY <1>3, <2>4 DEF ReadNode
    <3>2. Left' = 3 + size + repair
      BY <1>0, <3>1 DEF Left, InSet
    <3>. QED
      BY <1>0, <2>1, <3>2
  <2>. QED
    BY <2>3, <2>4
<1>4. CASE SubtractPredecessor
  <2>1. Left = 4 + size + cursor + repair
    BY <1>4, LeftIs DEF SubtractPredecessor
  <2>2. pc' = "get_loop"
    BY <1>4 DEF SubtractPredecessor
  <2>3. Left' = 4 + size + cursor' + repair
    BY <1>0, <2>2 DEF Left, InSet
  <2>4. node > 0 /\ ParentInterrogation(node) <= cursor /\ cursor # ParentInterrogation(node)
    BY <1>4 DEF SubtractPredecessor, TreeInv, LoopInv
  <2>5. ParentInterrogation(node) \in Nat
    BY <1>0, <2>4, InterrogationDescends
  <2>6. cursor > 0
    BY <1>0, <2>4, <2>5
  <2>7. cursor' \in Nat /\ cursor' < cursor
    BY <1>0, <1>4, <2>6, InterrogationDescends DEF SubtractPredecessor
  <2>8. size \in Nat /\ cursor \in Nat /\ repair \in Nat
    BY <1>0
  <2>9. \A x, y, n, r \in Nat : x < y => 4 + n + x + r < 4 + n + y + r
    OBVIOUS
  <2>. HIDE DEF repair
  <2>. QED
    BY <2>1, <2>3, <2>7, <2>8, <2>9, Zenon
<1>5. CASE ReachParent
  <2>1. Left = 4 + size + cursor + repair
    BY <1>5, LeftIs DEF ReachParent
  <2>2. pc' = "got"
    BY <1>5 DEF ReachParent
  <2>3. Left' = 3 + size + repair
    BY <1>0, <2>2 DEF Left, InSet
  <2>. QED
    BY <1>0, <2>1, <2>3
<1>6. CASE ReturnValue
  <2>1. Left = 3 + size + repair
    BY <1>6, LeftIs DEF ReturnValue
  <2>2. Left' = 0
    BY <1>6 DEF ReturnValue, Return, Left
  <2>. QED
    BY <1>0, <2>1, <2>2
<1>. QED
  BY <1>1, <1>2, <1>3, <1>4, <1>5, <1>6 DEF Query

LEMMA ModifyDescends ==
  ASSUME TreeInv, TreeInv', Modify
  PROVE  Left' < Left
<1>0. /\ size \in Nat /\ cursor \in Nat /\ node \in Nat /\ Most \in Nat /\ size' = size
      /\ (IF fixing THEN Most ELSE 0) \in Nat /\ fixing' = fixing
  BY StepFacts DEF TreeInv, TypeOK, node, Modify, Difference, ModifyZero, StartModify, ModifyNode, ReturnModified
<1>. DEFINE repair == IF fixing THEN Most ELSE 0
<1>1. CASE Difference
  <2>1. Left = 3 + size + repair
    BY <1>1, LeftIs DEF Difference
  <2>2. pc' = "bit_modify"
    BY <1>1 DEF Difference
  <2>3. Left' = 2 + size + repair
    BY <1>0, <2>2 DEF Left, InSet
  <2>. QED
    BY <1>0, <2>1, <2>3
<1>2. CASE ModifyZero
  <2>1. Left = 2 + size + repair
    BY <1>2, LeftIs DEF ModifyZero
  <2>2. pc' = "modified"
    BY <1>2 DEF ModifyZero
  <2>3. Left' = 1 + repair
    BY <1>0, <2>2 DEF Left, InSet
  <2>. QED
    BY <1>0, <2>1, <2>3
<1>3. CASE StartModify
  <2>1. Left = 2 + size + repair
    BY <1>3, LeftIs DEF StartModify
  <2>2. pc' = "modify_loop" /\ cursor' = node /\ node # 0
    BY <1>3 DEF StartModify
  <2>3. Left' = 1 + size - node + repair
    BY <1>0, <2>2 DEF Left, InSet
  <2>. QED
    BY <1>0, <2>1, <2>2, <2>3
<1>4. CASE ModifyNode
  <2>1. Left = 1 + size - cursor + repair
    BY <1>4, LeftIs DEF ModifyNode
  <2>2. cursor < size /\ cursor > 0
    BY <1>0, <1>4, NodeInSlots DEF ModifyNode, TreeInv, LoopInv, Covers
  <2>3. cursor' \in Nat /\ cursor' > cursor
    <3>1. cursor' = cursor + Lsb(cursor)
      BY <1>4 DEF ModifyNode, ParentUpdate
    <3>2. Lsb(cursor) \in 1 .. cursor
      BY <1>0, <2>2, LsbFacts
    <3>. QED
      BY <1>0, <3>1, <3>2
  <2>4. CASE cursor' < size
    <3>1. pc' = "modify_loop"
      BY <1>4, <2>4 DEF ModifyNode
    <3>2. Left' = 1 + size - cursor' + repair
      BY <1>0, <3>1 DEF Left, InSet
    <3>3. \A x, y, n, r \in Nat : x < y => 1 + n - y + r < 1 + n - x + r
      OBVIOUS
    <3>. HIDE DEF repair
    <3>4. size \in Nat /\ cursor \in Nat /\ repair \in Nat
      BY <1>0 DEF repair
    <3>5. cursor < cursor'
      BY <1>0, <2>3
    <3>. QED
      BY <2>1, <2>3, <3>2, <3>3, <3>4, <3>5, Zenon
  <2>5. CASE ~(cursor' < size)
    <3>1. pc' = "modified"
      BY <1>4, <2>5 DEF ModifyNode
    <3>2. Left' = 1 + repair
      BY <1>0, <3>1 DEF Left, InSet
    <3>. QED
      BY <1>0, <2>1, <2>2, <3>2
  <2>. QED
    BY <2>4, <2>5
<1>5. CASE ReturnModified
  <2>1. Left = 1 + repair
    BY <1>5, LeftIs DEF ReturnModified
  <2>2. Left' = 0
    BY <1>5 DEF ReturnModified, Return, Left
  <2>. QED
    BY <1>0, <2>1, <2>2
<1>. QED
  BY <1>1, <1>2, <1>3, <1>4, <1>5 DEF Modify

\* A call of set or add goes on after it found the vector large enough.
LEMMA GoesOn ==
  ASSUME TreeInv, pc' = AfterGrow, ~fixing', size' = size
  PROVE  Left' < Most /\ Left' \in Nat
<1>1. size \in Nat /\ size <= MaxSize /\ MaxSize \in Nat /\ Most = 10 + 2 * MaxSize
  BY StepFacts
<1>2. CASE pc' = "bit_get"
  <2>1. InSet' = 5 + 2 * size
    BY <1>2 DEF InSet
  <2>2. Left' = InSet' + 0
    BY <1>2 DEF Left
  <2>. QED
    BY <1>1, <2>1, <2>2
<1>3. CASE pc' = "bit_modify"
  <2>1. InSet' = 2 + size
    BY <1>3 DEF InSet
  <2>2. Left' = InSet' + 0
    BY <1>3 DEF Left
  <2>. QED
    BY <1>1, <2>1, <2>2
<1>. QED
  BY <1>2, <1>3 DEF AfterGrow

LEMMA GrowDescends ==
  ASSUME CallsFit, TreeInv, TreeInv', NeverWraps, Grow
  PROVE  Left' < Left
<1>0. /\ size \in Nat /\ size <= MaxSize /\ MaxSize \in Nat /\ Most = 10 + 2 * MaxSize
      /\ newSize \in Nat /\ call.index \in Nat /\ Most \in Nat
  BY StepFacts
<1>1. CASE IndexFits
  <2>1. Left = 2 * Most + call.index + 2
    BY <1>1, LeftIs DEF IndexFits
  <2>2. ~fixing' /\ size' = size /\ pc' = AfterGrow
    BY <1>1 DEF IndexFits, TreeInv, GrowInv
  <2>. QED
    BY <1>0, <2>1, <2>2, GoesOn
<1>2. CASE StartGrowing
  <2>1. Left = 2 * Most + call.index + 2
    BY <1>2, LeftIs DEF StartGrowing
  <2>2. pc' = "grow" /\ newSize' \in Nat /\ call' = call
    BY <1>0, <1>2 DEF StartGrowing
  <2>3. Left' = 2 * Most + (IF newSize' <= call.index THEN call.index + 1 - newSize' ELSE 0)
    BY <2>2 DEF Left, Most
  <2>. QED
    BY <1>0, <2>1, <2>2, <2>3
<1>3. CASE Double
  <2>1. newSize <= call.index /\ pc' = "grow" /\ call' = call /\ newSize' = (newSize * 2) % WordSize
    BY <1>3 DEF Double
  <2>2. /\ newSize > 0 /\ 2 * call.index < WordSize /\ WordSize \in Nat
    BY <1>3, WordSizeAssumption DEF Double, TreeInv, CallInv, CallsFit, NeverWraps
  <2>3. newSize' = newSize * 2
    BY <1>0, <2>1, <2>2
  <2>4. Left = 2 * Most + (call.index + 1 - newSize)
    BY <1>3, <2>1, LeftIs DEF Double
  <2>5. Left' = 2 * Most + (IF newSize' <= call.index THEN call.index + 1 - newSize' ELSE 0)
    BY <2>1 DEF Left, Most
  <2>. QED
    BY <1>0, <2>1, <2>2, <2>3, <2>4, <2>5
<1>4. CASE Resize
  <2>1. Left = 2 * Most
    BY <1>0, <1>4, LeftIs DEF Resize
  <2>2. pc' = "bit_get" /\ fixing' /\ size' = newSize /\ newSize <= MaxSize
    BY <1>4 DEF Resize
  <2>3. Left' = 5 + 2 * newSize + Most
    BY <2>2 DEF Left, InSet, Most
  <2>. QED
    BY <1>0, <2>1, <2>2, <2>3
<1>5. CASE ResizeThrows
  <2>1. Left = 2 * Most
    BY <1>0, <1>5, LeftIs DEF ResizeThrows
  <2>2. Left' = 0
    BY <1>5 DEF ResizeThrows, Return, Left
  <2>. QED
    BY <1>0, <2>1, <2>2
<1>6. CASE TreeFixed
  <2>1. Left = 1 + Most
    BY <1>6, LeftIs DEF TreeFixed
  <2>2. ~fixing' /\ size' = size /\ pc' = AfterGrow
    BY <1>6 DEF TreeFixed
  <2>. QED
    BY <1>0, <2>1, <2>2, GoesOn
<1>. QED
  BY <1>1, <1>2, <1>3, <1>4, <1>5, <1>6 DEF Grow

\* Every loop of the tree ends, if twice an index is a number of the machine:
\* each step leaves fewer steps, until the call has returned.  This is the
\* reason for CallsReturn.
THEOREM LoopsEnd ==
  ASSUME CallsFit
  PROVE  Spec => StepsDescend
<1>1. Init => NeverWraps
  BY DEF Init, RoundUp, NeverWraps
<1>2. TreeInv /\ NeverWraps /\ [Next]_vars => NeverWraps'
  BY StaysPositive
<1>3. TreeInv => Left \in Nat
  BY LeftTyped
<1>4. /\ TreeInv /\ TreeInv' /\ NeverWraps /\ [Next]_vars /\ Left \in Nat /\ (Left \in Nat)'
      => [Step => Left \in Nat /\ Left' \in Nat /\ Left' < Left]_vars
  BY ConstructDescends, QueryDescends, ModifyDescends, GrowDescends DEF Step
<1>. QED
  BY <1>1, <1>2, <1>3, <1>4, TreeInvHolds, PTL DEF Spec, StepsDescend
=============================================================================
