--------------------------- MODULE TransferProofs ---------------------------
(***************************************************************************)
(* What is written on one machine is read back on another, whatever their  *)
(* byte orders and the way it was sent; damaged text is refused.  The      *)
(* bytes of all numbers are a concatenation, so the first part is about    *)
(* FlattenSeq, the second about the text of bytes.                         *)
(***************************************************************************)
EXTENDS Transfer, SequenceTheorems, WellFoundedInduction, TLAPS

LessNat == {ss \in Nat \X Nat : ss[1] < ss[2]}

\* Induction, as the existence of a least element.
LEMMA NatMinimum ==
  ASSUME NEW S \in SUBSET Nat, S # {}
  PROVE  \E m \in S : \A n \in S : m <= n
<1>1. IsWellFoundedOn(LessNat, Nat)
  BY NatLessThanWellFounded DEF OpToRel, LessNat
<1>2. PICK m \in S : \A y \in S : ~ (<<y, m>> \in LessNat)
  BY <1>1, WFMin
<1>3. \A y \in S : ~ (y < m)
  BY <1>2 DEF LessNat
<1>4. QED
  BY <1>3

\* The function that FlattenSeq defines, on the first n sequences.
Flattens(f, s, n) ==
  f = [i \in 1 .. n |-> IF i = 1 THEN s[i] ELSE f[i - 1] \o s[i]]

\* One more sequence.
LEMMA FlattensMore ==
  ASSUME NEW s, NEW n \in Nat, NEW f, Flattens(f, s, n)
  PROVE  \E g : Flattens(g, s, n + 1)
<1>. DEFINE g == [i \in 1 .. n + 1 |-> IF i = 1 THEN s[i] ELSE f[i - 1] \o s[i]]
<1>1. \A i \in 1 .. n : f[i] = IF i = 1 THEN s[i] ELSE f[i - 1] \o s[i]
  BY DEF Flattens
<1>2. \A i \in 1 .. n : g[i] = f[i]
  BY <1>1
<1>3. \A i \in 1 .. n + 1 : i # 1 => i - 1 \in 1 .. n
  OBVIOUS
<1>4. \A i \in 1 .. n + 1 : (IF i = 1 THEN s[i] ELSE f[i - 1] \o s[i])
                          = (IF i = 1 THEN s[i] ELSE g[i - 1] \o s[i])
  <2>. HIDE DEF g
  <2>. QED
    BY <1>2, <1>3
<1>5. g = [i \in 1 .. n + 1 |-> IF i = 1 THEN s[i] ELSE g[i - 1] \o s[i]]
  <2>1. g = [i \in 1 .. n + 1 |-> IF i = 1 THEN s[i] ELSE f[i - 1] \o s[i]]
    OBVIOUS
  <2>. HIDE DEF g
  <2>. QED
    BY <1>4, <2>1, Zenon
<1>. QED
  BY <1>5 DEF Flattens

LEMMA FlattensExists ==
  ASSUME NEW s, NEW n \in Nat
  PROVE  \E f : Flattens(f, s, n)
<1>. DEFINE Bad == {k \in Nat : ~\E f : Flattens(f, s, k)}
<1>. SUFFICES ASSUME Bad # {} PROVE FALSE
  OBVIOUS
<1>1. PICK k \in Bad : \A j \in Bad : k <= j
  <2>1. Bad \in SUBSET Nat
    OBVIOUS
  <2>. HIDE DEF Bad
  <2>. QED
    BY <2>1, NatMinimum
<1>2. Flattens([i \in 1 .. 0 |-> 0], s, 0)
  BY DEF Flattens
<1>3. k \in Nat /\ k # 0
  BY <1>2
<1>4. k - 1 \in Nat /\ k - 1 \notin Bad /\ (k - 1) + 1 = k
  BY <1>1, <1>3
<1>5. PICK f : Flattens(f, s, k - 1)
  BY <1>4
<1>6. \E g : Flattens(g, s, (k - 1) + 1)
  BY <1>4, <1>5, FlattensMore
<1>. QED
  BY <1>4, <1>6

\* Its values are determined by the sequences up to an index alone.
LEMMA FlattensUnique ==
  ASSUME NEW s, NEW t, NEW n \in Nat, NEW m \in Nat, n <= m, NEW f, NEW g,
         Flattens(f, s, n), Flattens(g, t, m), \A i \in 1 .. n : s[i] = t[i]
  PROVE  \A i \in 1 .. n : f[i] = g[i]
<1>. DEFINE Bad == {i \in 1 .. n : f[i] # g[i]}
<1>. SUFFICES ASSUME Bad # {} PROVE FALSE
  OBVIOUS
<1>1. PICK i \in Bad : \A j \in Bad : i <= j
  <2>1. Bad \in SUBSET Nat
    OBVIOUS
  <2>. HIDE DEF Bad
  <2>. QED
    BY <2>1, NatMinimum
<1>2. i \in 1 .. n /\ i \in 1 .. m /\ f[i] # g[i]
  OBVIOUS
<1>3. f[i] = IF i = 1 THEN s[i] ELSE f[i - 1] \o s[i]
  BY <1>2 DEF Flattens
<1>4. g[i] = IF i = 1 THEN t[i] ELSE g[i - 1] \o t[i]
  BY <1>2 DEF Flattens
<1>5. i # 1
  BY <1>2, <1>3, <1>4
<1>6. i - 1 \in 1 .. n /\ i - 1 \notin Bad
  BY <1>1, <1>2, <1>5
<1>7. f[i - 1] = g[i - 1]
  BY <1>6
<1>. QED
  BY <1>2, <1>3, <1>4, <1>5, <1>7

LEMMA FlattenIs ==
  ASSUME NEW s, NEW n \in Nat, n # 0, Len(s) = n
  PROVE  \E f : Flattens(f, s, n) /\ FlattenSeq(s) = f[n]
<1>. DEFINE f == CHOOSE g : Flattens(g, s, n)
<1>1. Flattens(f, s, n)
  BY FlattensExists
<1>2. FlattenSeq(s) = f[n]
  BY DEF FlattenSeq, Flattens
<1>. QED
  BY <1>1, <1>2

LEMMA FlattenEmpty == FlattenSeq(<<>>) = <<>>
BY DEF FlattenSeq

\* A concatenation grows at its end.
LEMMA FlattenAppends ==
  ASSUME NEW S, NEW s \in Seq(Seq(S)), NEW x \in Seq(S)
  PROVE  FlattenSeq(s) \in Seq(S) => FlattenSeq(Append(s, x)) = FlattenSeq(s) \o x
<1>. DEFINE n == Len(s)
            t == Append(s, x)
<1>1. n \in Nat /\ Len(t) = n + 1 /\ t[n + 1] = x /\ \A i \in 1 .. n : s[i] = t[i]
  OBVIOUS
<1>2. PICK g : Flattens(g, t, n + 1) /\ FlattenSeq(t) = g[n + 1]
  <2>. HIDE DEF t, n
  <2>. QED
    BY <1>1, FlattenIs
<1>3. g[n + 1] = IF n + 1 = 1 THEN t[n + 1] ELSE g[n] \o t[n + 1]
  <2>1. n + 1 \in 1 .. n + 1 /\ (n + 1) - 1 = n
    BY <1>1
  <2>. HIDE DEF t, n
  <2>. QED
    BY <1>2, <2>1 DEF Flattens
<1>4. CASE n = 0
  <2>1. s = <<>>
    BY <1>4
  <2>2. FlattenSeq(s) = <<>>
    BY <2>1, FlattenEmpty
  <2>3. FlattenSeq(t) = x
    BY <1>1, <1>2, <1>3, <1>4
  <2>. QED
    BY <2>2, <2>3
<1>5. CASE n # 0
  <2>. HIDE DEF t
  <2>1. PICK f : Flattens(f, s, n) /\ FlattenSeq(s) = f[n]
    BY <1>1, <1>5, FlattenIs
  <2>2. n \in 1 .. n /\ n <= n + 1 /\ n + 1 \in Nat
    BY <1>1, <1>5
  <2>. HIDE DEF n
  <2>3. f[n] = g[n]
    BY <1>1, <1>2, <2>1, <2>2, FlattensUnique
  <2>4. n + 1 # 1
    BY <1>1, <1>5
  <2>. QED
    BY <1>1, <1>2, <1>3, <2>1, <2>3, <2>4 DEF t
<1>. QED
  BY <1>4, <1>5

LEMMA FrontOfConcat ==
  ASSUME NEW S, NEW s \in Seq(S), NEW t \in Seq(S), NEW from \in Nat, NEW to \in 0 .. Len(s)
  PROVE  to <= Len(s \o t) /\ SubSeq(s \o t, from + 1, to) = SubSeq(s, from + 1, to)
<1>1. \A i \in 1 .. Len(s) : (s \o t)[i] = s[i]
  OBVIOUS
<1>2. SubSeq(s \o t, from + 1, to) = SubSeq(s, from + 1, to)
  BY <1>1
<1>. QED
  BY <1>2

LEMMA EndOfConcat ==
  ASSUME NEW S, NEW s \in Seq(S), NEW t \in Seq(S)
  PROVE  /\ Len(s) + Len(t) <= Len(s \o t)
         /\ SubSeq(s \o t, Len(s) + 1, Len(s) + Len(t)) = t
OBVIOUS

\* The bytes of the first k of s.
Upto(s, k) == FlattenSeq([j \in 1 .. k |-> s[j]])

LEMMA UptoNone == ASSUME NEW s PROVE Upto(s, 0) = <<>>
BY FlattenEmpty DEF Upto

LEMMA UptoNext ==
  ASSUME NEW S, NEW s \in Seq(Seq(S)), NEW k \in 0 .. Len(s) - 1, Upto(s, k) \in Seq(S)
  PROVE  Upto(s, k + 1) = Upto(s, k) \o s[k + 1]
<1>. DEFINE first == [j \in 1 .. k |-> s[j]]
<1>1. k \in Nat /\ k + 1 \in 1 .. Len(s) /\ s[k + 1] \in Seq(S)
  OBVIOUS
<1>2. first \in Seq(Seq(S)) /\ Len(first) = k
  OBVIOUS
<1>3. [j \in 1 .. k + 1 |-> s[j]] = Append(first, s[k + 1])
  BY <1>1, <1>2
<1>4. FlattenSeq(first) \in Seq(S)
  BY DEF Upto
<1>. HIDE DEF first
<1>5. FlattenSeq(Append(first, s[k + 1])) = FlattenSeq(first) \o s[k + 1]
  BY <1>1, <1>2, <1>4, FlattenAppends
<1>. QED
  BY <1>3, <1>5 DEF first, Upto

LEMMA UptoTyped ==
  ASSUME NEW S, NEW s \in Seq(Seq(S)), NEW n \in 0 .. Len(s)
  PROVE  Upto(s, n) \in Seq(S)
<1>. DEFINE Bad == {k \in 0 .. Len(s) : Upto(s, k) \notin Seq(S)}
<1>. SUFFICES ASSUME Bad # {} PROVE FALSE
  OBVIOUS
<1>1. PICK k \in Bad : \A j \in Bad : k <= j
  <2>1. Bad \in SUBSET Nat
    OBVIOUS
  <2>. HIDE DEF Bad
  <2>. QED
    BY <2>1, NatMinimum
<1>2. Upto(s, 0) \in Seq(S)
  <2>1. <<>> \in Seq(S)
    OBVIOUS
  <2>. QED
    BY <2>1, UptoNone
<1>3. k \in 0 .. Len(s) /\ k # 0
  BY <1>2
<1>4. k - 1 \in 0 .. Len(s) - 1 /\ k - 1 \in 0 .. Len(s) /\ (k - 1) + 1 = k /\ k - 1 \notin Bad
  BY <1>1, <1>3
<1>5. Upto(s, k - 1) \in Seq(S) /\ s[k] \in Seq(S)
  BY <1>3, <1>4
<1>6. Upto(s, k) = Upto(s, k - 1) \o s[k]
  BY <1>4, <1>5, UptoNext
<1>7. Upto(s, k - 1) \o s[k] \in Seq(S)
  BY <1>5, ConcatProperties
<1>. QED
  BY <1>6, <1>7

\* Where the bytes of a number are among the bytes of more.
LEMMA UptoPiece ==
  ASSUME NEW S, NEW s \in Seq(Seq(S)), NEW k \in 0 .. Len(s) - 1, NEW n \in k + 1 .. Len(s)
  PROVE  LET from == Len(Upto(s, k))
             to   == from + Len(s[k + 1])
         IN to <= Len(Upto(s, n)) /\ SubSeq(Upto(s, n), from + 1, to) = s[k + 1]
<1>. DEFINE from == Len(Upto(s, k))
            to   == from + Len(s[k + 1])
            Is(m) == to <= Len(Upto(s, m)) /\ SubSeq(Upto(s, m), from + 1, to) = s[k + 1]
            Bad == {m \in k + 1 .. Len(s) : ~Is(m)}
<1>. SUFFICES ASSUME Bad # {} PROVE FALSE
  OBVIOUS
<1>0. s[k + 1] \in Seq(S) /\ Upto(s, k) \in Seq(S) /\ k \in 0 .. Len(s)
  BY UptoTyped
<1>a. from \in Nat /\ to \in Nat /\ Len(s[k + 1]) \in Nat
  BY <1>0
<1>1. PICK m \in Bad : \A j \in Bad : m <= j
  <2>1. Bad \in SUBSET Nat
    OBVIOUS
  <2>. HIDE DEF Bad
  <2>. QED
    BY <2>1, NatMinimum
<1>2. m # k + 1
  <2>1. Upto(s, k + 1) = Upto(s, k) \o s[k + 1]
    BY <1>0, UptoNext
  <2>2. Is(k + 1)
    BY <1>0, <2>1, EndOfConcat
  <2>. QED
    BY <2>2
<1>3. m \in k + 1 .. Len(s) /\ ~Is(m)
  OBVIOUS
<1>4. /\ m - 1 \in k + 1 .. Len(s) /\ m - 1 \in 0 .. Len(s) - 1 /\ m - 1 \in 0 .. Len(s)
      /\ (m - 1) + 1 = m /\ ~(m <= m - 1)
  BY <1>2, <1>3
<1>5. Is(m - 1)
  BY <1>1, <1>4
<1>6. Upto(s, m - 1) \in Seq(S) /\ s[m] \in Seq(S)
  <2>1. \A j \in 1 .. Len(s) : s[j] \in Seq(S)
    OBVIOUS
  <2>. QED
    BY <1>3, <1>4, <2>1, UptoTyped
<1>7. Upto(s, m) = Upto(s, m - 1) \o s[m]
  BY <1>4, <1>6, UptoNext
<1>. HIDE DEF from, to
<1>8. /\ to <= Len(Upto(s, m))
      /\ SubSeq(Upto(s, m), from + 1, to) = SubSeq(Upto(s, m - 1), from + 1, to)
  <2>1. Len(Upto(s, m - 1)) \in Nat
    BY <1>6, LenProperties
  <2>2. to \in 0 .. Len(Upto(s, m - 1))
    BY <1>5, <1>a, <2>1
  <2>. QED
    <3>1. /\ to <= Len(Upto(s, m - 1) \o s[m])
          /\ SubSeq(Upto(s, m - 1) \o s[m], from + 1, to) = SubSeq(Upto(s, m - 1), from + 1, to)
      BY <1>6, <1>a, <2>2, FrontOfConcat
    <3>. QED
      BY <1>7, <3>1
<1>. QED
  BY <1>3, <1>5, <1>8

LEMMA FlattenIsUpto ==
  ASSUME NEW S, NEW s \in Seq(S)
  PROVE  FlattenSeq(s) = Upto(s, Len(s))
<1>1. s = [j \in 1 .. Len(s) |-> s[j]]
  OBVIOUS
<1>. QED
  BY <1>1 DEF Upto

-----------------------------------------------------------------------------
Byte == 0 .. 255

\* Every digit is decoded to what it was encoded from, in upper case as well.
LEMMA DigitsAreDecoded ==
  ASSUME NEW d \in 0 .. 15
  PROVE  /\ hex_values(d) \in Nat
         /\ IsHex(hex_values(d)) /\ Digit(hex_values(d)) = d
         /\ IsHex(Upper(hex_values(d))) /\ Digit(Upper(hex_values(d))) = d
<1>1. CASE d < 10
  <2>1. hex_values(d) \in 48 .. 57 /\ hex_values(d) - 48 = d
    BY <1>1 DEF hex_values
  <2>2. Upper(hex_values(d)) = hex_values(d)
    BY <2>1 DEF Upper
  <2>. QED
    BY <2>1, <2>2 DEF IsHex, Digit
<1>2. CASE ~(d < 10)
  <2>1. hex_values(d) \in 97 .. 102 /\ hex_values(d) - 87 = d
    BY <1>2 DEF hex_values
  <2>2. Upper(hex_values(d)) = hex_values(d) - 32
    BY <2>1 DEF Upper
  <2>3. Upper(hex_values(d)) \in 65 .. 70 /\ Upper(hex_values(d)) - 55 = d
    BY <2>1, <2>2
  <2>. QED
    BY <2>1, <2>3 DEF IsHex, Digit
<1>. QED
  BY <1>1, <1>2

LEMMA BytesHaveDigits ==
  ASSUME NEW b \in Byte
  PROVE  b \div 16 \in 0 .. 15 /\ b % 16 \in 0 .. 15 /\ (b \div 16) * 16 + (b % 16) = b
BY DEF Byte

\* The digits of two sequences per byte are where they are expected.
LEMMA PairsAreTwice ==
  ASSUME NEW S, NEW s \in Seq(Seq(S)), \A i \in 1 .. Len(s) : Len(s[i]) = 2,
         NEW n \in 0 .. Len(s)
  PROVE  Len(Upto(s, n)) = 2 * n
<1>. DEFINE Bad == {k \in 0 .. Len(s) : Len(Upto(s, k)) # 2 * k}
<1>. SUFFICES ASSUME Bad # {} PROVE FALSE
  OBVIOUS
<1>1. PICK k \in Bad : \A j \in Bad : k <= j
  <2>1. Bad \in SUBSET Nat
    OBVIOUS
  <2>. HIDE DEF Bad
  <2>. QED
    BY <2>1, NatMinimum
<1>2. k \in 0 .. Len(s) /\ k # 0
  <2>1. Len(Upto(s, 0)) = 0
    BY UptoNone
  <2>. QED
    BY <2>1
<1>3. k - 1 \in 0 .. Len(s) - 1 /\ k - 1 \in 0 .. Len(s) /\ (k - 1) + 1 = k /\ k - 1 \notin Bad
  BY <1>1, <1>2
<1>4. Upto(s, k - 1) \in Seq(S) /\ s[k] \in Seq(S) /\ Len(s[k]) = 2
  <2>1. Upto(s, k - 1) \in Seq(S)
    BY <1>3, UptoTyped
  <2>. QED
    BY <1>2, <2>1
<1>5. Upto(s, k) = Upto(s, k - 1) \o s[k]
  BY <1>3, <1>4, UptoNext
<1>6. Len(Upto(s, k)) = Len(Upto(s, k - 1)) + 2
  <2>1. Len(Upto(s, k - 1) \o s[k]) = Len(Upto(s, k - 1)) + Len(s[k])
    BY <1>4, ConcatProperties
  <2>. QED
    BY <1>4, <1>5, <2>1
<1>7. Len(Upto(s, k - 1)) = 2 * (k - 1)
  BY <1>3
<1>8. 2 * (k - 1) + 2 = 2 * k /\ Len(Upto(s, k)) # 2 * k
  BY <1>2
<1>. QED
  BY <1>6, <1>7, <1>8

\* The digit that stands for the offset-th half of a byte.
Nibble(bytes, o) ==
  LET b == bytes[o \div 2 + 1] IN IF o % 2 = 0 THEN b \div 16 ELSE b % 16

LEMMA NibbleIsDigit ==
  ASSUME NEW bytes \in Seq(Byte), NEW o \in 0 .. 2 * Len(bytes) - 1
  PROVE  o \div 2 + 1 \in 1 .. Len(bytes) /\ Nibble(bytes, o) \in 0 .. 15
<1>1. o \div 2 + 1 \in 1 .. Len(bytes)
  OBVIOUS
<1>. DEFINE b == bytes[o \div 2 + 1]
<1>2. b \in Byte
  BY <1>1
<1>. HIDE DEF b
<1>3. b \div 16 \in 0 .. 15 /\ b % 16 \in 0 .. 15
  BY <1>2, BytesHaveDigits
<1>. QED
  BY <1>1, <1>3 DEF b, Nibble

LEMMA EncodeIs ==
  ASSUME NEW bytes \in Seq(Byte)
  PROVE  /\ encode_hex(bytes) \in Seq(Nat)
         /\ Len(encode_hex(bytes)) = 2 * Len(bytes)
         /\ \A o \in 0 .. 2 * Len(bytes) - 1 : encode_hex(bytes)[o + 1] = hex_values(Nibble(bytes, o))
<1>. DEFINE n == Len(bytes)
            pair(k) == <<hex_values(bytes[k] \div 16), hex_values(bytes[k] % 16)>>
            s == [k \in DOMAIN bytes |-> pair(k)]
<1>1. n \in Nat /\ DOMAIN bytes = 1 .. n
  OBVIOUS
<1>2. \A k \in 1 .. n : pair(k) \in Seq(Nat) /\ Len(pair(k)) = 2
  <2>. SUFFICES ASSUME NEW k \in 1 .. n PROVE pair(k) \in Seq(Nat) /\ Len(pair(k)) = 2
    OBVIOUS
  <2>1. bytes[k] \in Byte
    OBVIOUS
  <2>2. hex_values(bytes[k] \div 16) \in Nat /\ hex_values(bytes[k] % 16) \in Nat
    BY <2>1, BytesHaveDigits, DigitsAreDecoded
  <2>. QED
    BY <2>2
<1>. HIDE DEF n, pair
<1>3. /\ s \in Seq(Seq(Nat)) /\ Len(s) = n
      /\ \A k \in 1 .. Len(s) : Len(s[k]) = 2 /\ s[k] = pair(k)
  BY <1>1, <1>2
<1>. HIDE DEF s
<1>4. encode_hex(bytes) = Upto(s, n)
  <2>1. encode_hex(bytes) = FlattenSeq(s)
    BY DEF encode_hex, s, pair
  <2>. QED
    BY <1>3, <2>1, FlattenIsUpto
<1>5. n \in 0 .. Len(s)
  BY <1>1, <1>3
<1>6. Upto(s, n) \in Seq(Nat) /\ Len(Upto(s, n)) = 2 * n
  BY <1>3, <1>5, UptoTyped, PairsAreTwice
<1>7. ASSUME NEW o \in 0 .. 2 * n - 1
      PROVE  Upto(s, n)[o + 1] = hex_values(Nibble(bytes, o))
  <2>. DEFINE k == o \div 2
  <2>1. /\ k \in 0 .. Len(s) - 1 /\ k \in 0 .. Len(s) /\ n \in k + 1 .. Len(s)
        /\ k \in Nat /\ k + 1 \in 1 .. Len(s)
        /\ (o % 2 = 0 => o + 1 = 2 * k + 1) /\ (o % 2 # 0 => o + 1 = 2 * k + 2)
    BY <1>1, <1>3
  <2>. HIDE DEF k
  <2>2. Len(Upto(s, k)) = 2 * k
    BY <1>3, <2>1, PairsAreTwice
  <2>3. Len(s[k + 1]) = 2 /\ s[k + 1] = pair(k + 1)
    BY <1>3, <2>1
  <2>4. SubSeq(Upto(s, n), 2 * k + 1, 2 * k + 2) = pair(k + 1)
    BY <1>3, <2>1, <2>2, <2>3, UptoPiece
  <2>. DEFINE t == Upto(s, n)
  <2>. HIDE DEF t
  <2>5. SubSeq(t, 2 * k + 1, 2 * k + 2)[1] = t[2 * k + 1] /\ SubSeq(t, 2 * k + 1, 2 * k + 2)[2] = t[2 * k + 2]
    BY <2>1
  <2>6. t[2 * k + 1] = pair(k + 1)[1] /\ t[2 * k + 2] = pair(k + 1)[2]
    BY <2>4, <2>5 DEF t
  <2>7. pair(k + 1)[1] = hex_values(bytes[k + 1] \div 16) /\ pair(k + 1)[2] = hex_values(bytes[k + 1] % 16)
    BY DEF pair
  <2>8. CASE o % 2 = 0
    BY <2>1, <2>6, <2>7, <2>8 DEF t, k, Nibble
  <2>9. CASE o % 2 # 0
    BY <2>1, <2>6, <2>7, <2>9 DEF t, k, Nibble
  <2>. QED
    BY <2>8, <2>9
<1>. QED
  BY <1>4, <1>6, <1>7 DEF n

UpperCase(t) == [i \in DOMAIN t |-> Upper(t[i])]

\* A text as it may arrive.
Arrived(t, s) ==
  t \in {s, UpperCase(s), SubSeq(s, 1, Len(s) - 1)}
          \cup {[s EXCEPT ![i] = c] : i \in DOMAIN s, c \in Wrong}

\* A character either is a digit, of the value that was encoded, or was damaged.
IsRead(t, s, bytes, o) ==
  IF IsHex(t[o + 1]) THEN Digit(t[o + 1]) = Nibble(bytes, o) ELSE t[o + 1] # s[o + 1]

LEMMA ArrivedIs ==
  ASSUME NEW bytes \in Seq(Byte), NEW t, Arrived(t, encode_hex(bytes))
  PROVE  LET s == encode_hex(bytes)
         IN /\ Len(t) \in Nat /\ Len(t) \in {Len(s), Len(s) - 1}
            /\ \A o \in 0 .. Len(t) - 1 : IsRead(t, s, bytes, o)
            /\ Len(t) = Len(s) /\ (\A o \in 0 .. Len(t) - 1 : IsHex(t[o + 1])) => t \in {s, UpperCase(s)}
<1>. DEFINE s == encode_hex(bytes)
            n == 2 * Len(bytes)
<1>1. /\ n \in Nat /\ s \in Seq(Nat) /\ Len(s) = n
      /\ \A o \in 0 .. n - 1 : Nibble(bytes, o) \in 0 .. 15 /\ s[o + 1] = hex_values(Nibble(bytes, o))
  <2>1. n \in Nat
    OBVIOUS
  <2>2. \A o \in 0 .. n - 1 : Nibble(bytes, o) \in 0 .. 15
    BY NibbleIsDigit
  <2>. QED
    BY <2>1, <2>2, EncodeIs
<1>. HIDE DEF s, n
<1>2. \A o \in 0 .. n - 1 : /\ IsHex(s[o + 1]) /\ Digit(s[o + 1]) = Nibble(bytes, o)
                            /\ IsHex(Upper(s[o + 1])) /\ Digit(Upper(s[o + 1])) = Nibble(bytes, o)
  <2>. SUFFICES ASSUME NEW o \in 0 .. n - 1
                PROVE  /\ IsHex(s[o + 1]) /\ Digit(s[o + 1]) = Nibble(bytes, o)
                       /\ IsHex(Upper(s[o + 1])) /\ Digit(Upper(s[o + 1])) = Nibble(bytes, o)
    OBVIOUS
  <2>1. Nibble(bytes, o) \in 0 .. 15 /\ s[o + 1] = hex_values(Nibble(bytes, o))
    BY <1>1
  <2>. QED
    BY <2>1, DigitsAreDecoded
<1>a. DOMAIN s = 1 .. n /\ \A o \in 0 .. n - 1 : o + 1 \in 1 .. n
  BY <1>1
<1>3. CASE t = s
  BY <1>1, <1>2, <1>3 DEF IsRead, s
<1>4. CASE t = UpperCase(s)
  <2>1. Len(t) = n /\ \A o \in 0 .. n - 1 : t[o + 1] = Upper(s[o + 1])
    BY <1>1, <1>4, <1>a DEF UpperCase
  <2>. QED
    BY <1>1, <1>2, <1>4, <2>1 DEF IsRead, s
<1>5. CASE t = SubSeq(s, 1, Len(s) - 1) /\ t # s
  <2>0. n # 0
    <3>1. CASE n = 0
      <4>1. s = <<>> /\ SubSeq(s, 1, Len(s) - 1) = <<>>
        BY <1>1, <3>1
      <4>. QED
        BY <1>5, <4>1
    <3>. QED
      BY <3>1
  <2>1. Len(t) = n - 1 /\ n - 1 \in Nat /\ \A i \in 1 .. n - 1 : t[i] = s[i]
    BY <1>1, <1>5, <2>0
  <2>2. \A o \in 0 .. Len(t) - 1 : t[o + 1] = s[o + 1] /\ o \in 0 .. n - 1
    BY <2>1, <1>1
  <2>3. Len(t) # Len(s) /\ Len(t) \in {Len(s), Len(s) - 1}
    BY <1>1, <2>1
  <2>4. \A o \in 0 .. Len(t) - 1 : IsRead(t, s, bytes, o)
    BY <1>2, <2>2 DEF IsRead
  <2>. QED
    BY <2>1, <2>3, <2>4 DEF s
<1>6. CASE \E i \in DOMAIN s, c \in Wrong : t = [s EXCEPT ![i] = c]
  <2>1. PICK i \in 1 .. n, c \in Wrong : t = [s EXCEPT ![i] = c]
    BY <1>6, <1>a
  <2>2. Len(t) = n /\ t[i] = c /\ \A j \in 1 .. n : j # i => t[j] = s[j]
    BY <1>1, <1>a, <2>1
  <2>3. ~IsHex(c)
    BY <2>1, WrongAssumption
  <2>4. \A o \in 0 .. n - 1 : IsRead(t, s, bytes, o)
    <3>. SUFFICES ASSUME NEW o \in 0 .. n - 1 PROVE IsRead(t, s, bytes, o)
      OBVIOUS
    <3>1. CASE o + 1 = i
      BY <1>2, <2>2, <2>3, <3>1 DEF IsRead
    <3>2. CASE o + 1 # i
      BY <1>2, <1>a, <2>2, <3>2 DEF IsRead
    <3>. QED
      BY <3>1, <3>2
  <2>5. i - 1 \in 0 .. Len(t) - 1 /\ ~IsHex(t[(i - 1) + 1])
    BY <1>1, <2>1, <2>2, <2>3
  <2>. QED
    BY <1>1, <2>2, <2>4, <2>5 DEF s
<1>. QED
  BY <1>3, <1>4, <1>5, <1>6 DEF Arrived, s

-----------------------------------------------------------------------------
\* What the code stores and makes of it, of numbers that are taken apart as well.
Arriving(k) == IF TakenApart THEN Reverse(ins[k]) ELSE ins[k]
StoredAs(k) == InOrder(Arriving(k))

\* The bytes that are to be sent, number by number and together.
Stores  == [k \in 1 .. Len(ins) |-> StoredAs(k)]
Payload == Upto(Stores, Len(ins))

CallOK ==
  /\ ins \in Seq(Numbers) /\ <<form, order>> \in Forms
  /\ writer \in Machines /\ reader \in Machines
  /\ hex \in BOOLEAN /\ throws \in BOOLEAN /\ stage \in {"write", "send", "decode", "read"}
  /\ form = "number" => hex /\ Len(ins) = 1

\* Nothing is sent before all of it is written.
WrittenOK ==
  /\ written \in 0 .. Len(ins)
  /\ buffer = IF throws /\ stage = "write" /\ form = "array" THEN <<>> ELSE Upto(Stores, written)
  /\ stage # "write" /\ form # "number" => written = Len(ins)
  /\ form = "number" => written = 0
  /\ stage \in {"send", "decode"} => ~throws

\* Only the way changes a text.
SentOK ==
  /\ stage # "write" /\ hex /\ ~Lost => sent = encode_hex(Payload)
  /\ stage = "send" => text = sent
  /\ stage \in {"send", "decode"} => hex
  /\ stage \in {"decode", "read"} /\ hex => Arrived(text, sent)

\* Nothing is decoded before it arrived, nothing read before all is decoded.
DecodedOK ==
  /\ decoding \in {"no", "loop", "returned", "invalid_argument", "logic_error"}
  /\ decoding = "no" => offset = 0 /\ rv = <<>>
  /\ decoding # "no" => stage \in {"decode", "read"} /\ hex
  /\ stage = "read" /\ hex <=> decoding = "returned"

\* What was read of the text so far, and why it was not read on.
DigitsOK ==
  /\ offset \in 0 .. 2 * Len(Payload)
  /\ rv = SubSeq(Payload, 1, offset \div 2)
  /\ offset % 2 = 1 => insert_char = 16 * (Payload[offset \div 2 + 1] \div 16)
  /\ decoding \in {"loop", "returned"} =>
       Len(text) = 2 * Len(Payload) /\ \A o \in 0 .. offset - 1 : IsHex(text[o + 1])
  /\ decoding = "returned" => offset = Len(text)
  /\ decoding = "invalid_argument" => Len(text) # Len(sent)
  /\ decoding = "logic_error" => text[offset + 1] # sent[offset + 1]

\* The cursor is behind the numbers that were read.
ReadOK ==
  /\ stage # "read" => outs = <<>> /\ cursor = 0
  /\ Lost => outs = <<>> \/ Len(outs) = 1
  /\ ~Lost => /\ outs \in Seq(Seq(Byte)) /\ Len(outs) <= Len(ins)
              /\ \A k \in 1 .. Len(outs) : outs[k] = Arriving(k)
              /\ ~throws => cursor = Len(Upto(Stores, Len(outs)))

IInv ==
  CallOK /\ WrittenOK /\ SentOK /\ DecodedOK /\ (hex /\ ~Lost => DigitsOK) /\ ReadOK

-----------------------------------------------------------------------------
LEMMA ReverseIs ==
  ASSUME NEW S, NEW s \in Seq(S)
  PROVE  /\ Reverse(s) \in Seq(S) /\ Len(Reverse(s)) = Len(s)
         /\ Reverse(Reverse(s)) = s
         /\ Len(s) = 1 => Reverse(s) = s
<1>1. Reverse(s) \in Seq(S) /\ Len(Reverse(s)) = Len(s)
  BY DEF Reverse
<1>2. \A i \in 1 .. Len(s) : Reverse(s)[i] = s[(Len(s) - i) + 1]
  BY DEF Reverse
<1>3. Reverse(Reverse(s)) = s
  <2>1. Reverse(Reverse(s)) = [i \in 1 .. Len(s) |-> Reverse(s)[(Len(s) - i) + 1]]
    BY <1>1 DEF Reverse
  <2>2. \A i \in 1 .. Len(s) : Reverse(s)[(Len(s) - i) + 1] = s[i]
    <3>1. \A i \in 1 .. Len(s) : /\ (Len(s) - i) + 1 \in 1 .. Len(s)
                                 /\ (Len(s) - ((Len(s) - i) + 1)) + 1 = i
      OBVIOUS
    <3>. QED
      BY <1>2, <3>1
  <2>3. s = [i \in 1 .. Len(s) |-> s[i]]
    OBVIOUS
  <2>. QED
    BY <2>1, <2>2, <2>3
<1>4. Len(s) = 1 => Reverse(s) = s
  BY <1>1, <1>2
<1>. QED
  BY <1>1, <1>3, <1>4

LEMMA NumbersAre ==
  ASSUME CallOK, NEW k \in 1 .. Len(ins)
  PROVE  /\ ins[k] \in Seq(Byte) /\ Len(ins[k]) \in {1, 2, 4, 8}
         /\ Arriving(k) \in Seq(Byte) /\ Len(Arriving(k)) = Len(ins[k])
         /\ StoredAs(k) \in Seq(Byte) /\ Len(StoredAs(k)) = Len(ins[k])
<1>1. ins[k] \in Seq(Byte) /\ Len(ins[k]) \in {1, 2, 4, 8}
  BY NumbersAssumption DEF CallOK, Byte
<1>2. Arriving(k) \in Seq(Byte) /\ Len(Arriving(k)) = Len(ins[k])
  BY <1>1, ReverseIs DEF Arriving
<1>3. StoredAs(k) \in Seq(Byte) /\ Len(StoredAs(k)) = Len(ins[k])
  BY <1>1, <1>2, ReverseIs DEF StoredAs, InOrder
<1>. QED
  BY <1>1, <1>2, <1>3

LEMMA StoresAre ==
  ASSUME CallOK
  PROVE  /\ Len(ins) \in Nat /\ Stores \in Seq(Seq(Byte)) /\ Len(Stores) = Len(ins)
         /\ \A k \in 1 .. Len(ins) : Stores[k] = StoredAs(k)
         /\ \A k \in 0 .. Len(ins) : Upto(Stores, k) \in Seq(Byte)
         /\ Payload \in Seq(Byte)
<1>1. Len(ins) \in Nat
  BY DEF CallOK
<1>2. \A k \in 1 .. Len(ins) : StoredAs(k) \in Seq(Byte)
  BY NumbersAre
<1>3. /\ Stores \in Seq(Seq(Byte)) /\ Len(Stores) = Len(ins)
      /\ \A k \in 1 .. Len(ins) : Stores[k] = StoredAs(k)
  BY <1>1, <1>2 DEF Stores
<1>4. \A k \in 0 .. Len(ins) : Upto(Stores, k) \in Seq(Byte)
  BY <1>3, UptoTyped
<1>5. Payload \in Seq(Byte)
  BY <1>1, <1>4 DEF Payload
<1>. QED
  BY <1>1, <1>3, <1>4, <1>5

\* Both ways to store a number, and to restore it, undo the order of the host.
LEMMA StoresByMemory ==
  ASSUME NEW m \in Machines, NEW v \in Seq(Byte)
  PROVE  /\ Memory(m, host_to_little(m, v)) = v
         /\ Memory(m, host_to_big(m, v)) = Reverse(v)
         /\ little_to_host(m, Memory(m, v)) = v
         /\ big_to_host(m, Memory(m, Reverse(v))) = v
         /\ host_to_little(m, v) = IF m.order = "big" THEN Reverse(v) ELSE v
<1>1. Reverse(Reverse(v)) = v
  BY ReverseIs
<1>2. /\ m.os \in {"unix", "windows"} /\ m.order \in {"little", "big"}
      /\ m.os = "windows" => m.order = "little"
  BY MachinesAssumption, WindowsAssumption
<1>. QED
  BY <1>1, <1>2 DEF Memory, host_to_little, host_to_big, little_to_host, big_to_host, is_little, byte_swap

LEMMA WritesStored ==
  ASSUME CallOK, form # "number", written \in 0 .. Len(ins), written < Len(ins)
  PROVE  /\ order = "little" /\ form # "string" =>
              Memory(writer, host_to_little(writer, current)) = StoredAs(written + 1)
         /\ order = "big" => Memory(writer, host_to_big(writer, current)) = StoredAs(written + 1)
         /\ form = "string" => host_to_little(writer, current) = StoredAs(written + 1)
<1>. DEFINE k == written + 1
<1>1. k \in 1 .. Len(ins) /\ current = ins[k] /\ ins[k] \in Seq(Byte)
  <2>1. k \in 1 .. Len(ins)
    BY StoresAre
  <2>. QED
    BY <2>1, NumbersAre DEF current
<1>2. writer \in Machines /\ (form = "string" => order = "little") /\ order \in {"little", "big"}
  BY DEF CallOK, Forms
<1>. HIDE DEF k
<1>3. /\ Memory(writer, host_to_little(writer, ins[k])) = ins[k]
      /\ Memory(writer, host_to_big(writer, ins[k])) = Reverse(ins[k])
      /\ host_to_little(writer, ins[k]) = IF writer.order = "big" THEN Reverse(ins[k]) ELSE ins[k]
  BY <1>1, <1>2, StoresByMemory
<1>. QED
  BY <1>1, <1>2, <1>3 DEF k, StoredAs, InOrder, Arriving, TakenApart

LEMMA ReadsArrived ==
  ASSUME CallOK, NEW k \in 1 .. Len(ins)
  PROVE  LET raw == Memory(reader, StoredAs(k))
         IN /\ order = "little" => little_to_host(reader, raw) = Arriving(k)
            /\ order # "little" => big_to_host(reader, raw) = Arriving(k)
            /\ ~Converts(reader, raw) => raw = Arriving(k)
<1>1. /\ Arriving(k) \in Seq(Byte) /\ Len(Arriving(k)) \in {1, 2, 4, 8}
      /\ StoredAs(k) \in Seq(Byte) /\ Len(StoredAs(k)) = Len(Arriving(k))
  BY NumbersAre
<1>2. reader \in Machines
  BY DEF CallOK
<1>3. order = "little" => StoredAs(k) = Arriving(k)
  BY DEF StoredAs, InOrder
<1>4. order # "little" => StoredAs(k) = Reverse(Arriving(k))
  BY DEF StoredAs, InOrder
<1>5. ASSUME ~Converts(reader, Memory(reader, StoredAs(k)))
      PROVE  Memory(reader, StoredAs(k)) = Arriving(k)
  <2>1. Len(Memory(reader, StoredAs(k))) = Len(Arriving(k))
    BY <1>1, ReverseIs DEF Memory
  <2>2. Len(Arriving(k)) = 1
    BY <1>1, <1>5, <2>1 DEF Converts
  <2>3. StoredAs(k) = Arriving(k)
    BY <1>1, <1>3, <1>4, <2>2, ReverseIs
  <2>. QED
    BY <1>1, <2>2, <2>3, ReverseIs DEF Memory
<1>. QED
  BY <1>1, <1>2, <1>3, <1>4, <1>5, StoresByMemory

-----------------------------------------------------------------------------
LEMMA TransferStarts == Init => IInv
<1>. SUFFICES ASSUME Init PROVE IInv
  OBVIOUS
<1>1. CallOK
  <2>1. PICK n \in Nat : ins \in [1 .. n -> Numbers] /\ (form = "number" => n = 1)
    <3>1. CASE form = "number"
      BY <3>1 DEF Init
    <3>2. CASE form = "string"
      BY <3>2, MaxNumbersAssumption DEF Init
    <3>3. CASE form # "number" /\ form # "string"
      BY <3>3, MaxNumbersAssumption DEF Init
    <3>. QED
      BY <3>1, <3>2, <3>3
  <2>2. ins \in Seq(Numbers) /\ Len(ins) = n
    BY <2>1
  <2>3. <<form, order>> \in Forms
    BY DEF Init, Forms
  <2>4. hex \in BOOLEAN /\ (form = "number" => hex)
    BY DEF Init
  <2>. QED
    BY <2>1, <2>2, <2>3, <2>4 DEF Init, CallOK
<1>2. Len(ins) \in Nat /\ Upto(Stores, 0) = <<>> /\ Payload \in Seq(Byte)
  BY <1>1, StoresAre, UptoNone
<1>3. WrittenOK
  BY <1>2 DEF Init, WrittenOK
<1>4. SentOK /\ DecodedOK
  BY DEF Init, HexInit, SentOK, DecodedOK
<1>5. DigitsOK
  <2>1. SubSeq(Payload, 1, 0) = <<>> /\ 0 \in 0 .. 2 * Len(Payload) /\ 0 \div 2 = 0 /\ 0 % 2 = 0
    BY <1>2
  <2>. QED
    BY <2>1 DEF Init, HexInit, DigitsOK
<1>6. ReadOK
  <2>1. outs \in Seq(Seq(Byte)) /\ Len(outs) = 0 /\ outs = <<>> /\ cursor = 0
    BY DEF Init
  <2>2. cursor = Len(Upto(Stores, Len(outs)))
    BY <1>2, <2>1
  <2>. QED
    BY <1>2, <2>1, <2>2 DEF ReadOK
<1>. QED
  BY <1>1, <1>3, <1>4, <1>5, <1>6 DEF IInv

SameCall == UNCHANGED <<ins, order, form, writer, reader, hex>>

LEMMA CallStays ==
  ASSUME SameCall
  PROVE  /\ Stores' = Stores /\ Payload' = Payload /\ (Lost' <=> Lost)
         /\ \A k \in 1 .. Len(ins) : Arriving(k)' = Arriving(k)
<1>1. \A k : Arriving(k)' = Arriving(k)
  BY DEF SameCall, Arriving, TakenApart
<1>2. \A k : StoredAs(k)' = StoredAs(k)
  BY <1>1 DEF SameCall, StoredAs, InOrder
<1>3. Stores' = Stores
  BY <1>2 DEF Stores, SameCall
<1>4. Payload' = Payload
  BY <1>3 DEF Payload, Upto, SameCall
<1>. QED
  BY <1>1, <1>3, <1>4 DEF Lost, SameCall

LEMMA SameCallAlways == Next => SameCall
BY DEF Next, SameCall, WriteStep, Write, to_little_storage_advance, Encode, Send, Decode, ReadStep, Read,
       storageVars, hexVars

LEMMA WriteKeeps ==
  ASSUME IInv, WriteStep
  PROVE  IInv'
<1>. USE DEF IInv
<1>1. /\ stage = "write" /\ form # "number" /\ ~throws /\ written < Len(ins) /\ SameCall
      /\ UNCHANGED <<outs, cursor, hexVars, stage, sent>>
  BY DEF WriteStep, Write, SameCall
<1>2. /\ Stores' = Stores /\ Payload' = Payload /\ (Lost' <=> Lost) /\ ins' = ins
      /\ \A k \in 1 .. Len(ins) : Arriving(k)' = Arriving(k)
  BY <1>1, CallStays DEF SameCall
<1>3. \/ throws' = TRUE /\ written' = written /\ buffer' = IF form = "array" THEN <<>> ELSE buffer
      \/ throws' = throws /\ written' = written + 1 /\ buffer' = buffer \o StoredAs(written + 1)
  <2>1. written \in 0 .. Len(ins)
    BY DEF WrittenOK
  <2>2. order \in {"little", "big"}
    BY DEF CallOK, Forms
  <2>. QED
    BY <1>1, <2>1, <2>2, WritesStored
       DEF WriteStep, Write, to_little_storage_advance, to_big_storage_advance, to_little_storage_string,
           Put, ThrowsNotImplemented
<1>4. CallOK'
  BY <1>1, <1>3 DEF CallOK, SameCall
<1>5. WrittenOK'
  <2>1. /\ written \in 0 .. Len(ins) /\ Len(ins) \in Nat /\ written + 1 \in 0 .. Len(ins)
        /\ written \in 0 .. Len(Stores) - 1 /\ Stores[written + 1] = StoredAs(written + 1)
        /\ Stores \in Seq(Seq(Byte)) /\ Upto(Stores, written) \in Seq(Byte)
    BY <1>1, StoresAre DEF WrittenOK
  <2>2. Upto(Stores, written + 1) = Upto(Stores, written) \o StoredAs(written + 1)
    BY <2>1, UptoNext
  <2>3. buffer = Upto(Stores, written)
    BY <1>1 DEF WrittenOK
  <2>4. CASE throws' = TRUE /\ written' = written /\ buffer' = IF form = "array" THEN <<>> ELSE buffer
    BY <1>1, <1>2, <2>1, <2>3, <2>4 DEF WrittenOK, SameCall
  <2>5. CASE throws' = throws /\ written' = written + 1 /\ buffer' = buffer \o StoredAs(written + 1)
    BY <1>1, <1>2, <2>1, <2>2, <2>3, <2>5 DEF WrittenOK, SameCall
  <2>. QED
    BY <1>3, <2>4, <2>5
<1>6. SentOK' /\ DecodedOK'
  BY <1>1, <1>2 DEF SentOK, DecodedOK, hexVars, SameCall
<1>7. (hex /\ ~Lost => DigitsOK)'
  BY <1>1, <1>2 DEF DigitsOK, hexVars, SameCall
<1>8. ReadOK'
  BY <1>1, <1>2 DEF ReadOK
<1>. QED
  BY <1>4, <1>5, <1>6, <1>7, <1>8

\* The payload of a number alone is the number, the most significant byte first.
LEMMA PayloadOfOne ==
  ASSUME CallOK, Len(ins) = 1
  PROVE  Payload = StoredAs(1)
<1>1. /\ Stores \in Seq(Seq(Byte)) /\ Len(Stores) = 1 /\ Stores[1] = StoredAs(1)
      /\ StoredAs(1) \in Seq(Byte) /\ Upto(Stores, 0) = <<>>
  BY StoresAre, NumbersAre, UptoNone
<1>2. 0 \in 0 .. Len(Stores) - 1 /\ <<>> \in Seq(Byte)
  BY <1>1
<1>3. Upto(Stores, 0 + 1) = Upto(Stores, 0) \o Stores[0 + 1]
  BY <1>1, <1>2, UptoNext
<1>4. Upto(Stores, 1) = <<>> \o StoredAs(1)
  <2>1. 0 + 1 = 1
    OBVIOUS
  <2>. QED
    BY <1>1, <1>3, <2>1, Zenon
<1>. QED
  BY <1>1, <1>4 DEF Payload

LEMMA EncodeKeeps ==
  ASSUME IInv, Encode
  PROVE  IInv'
<1>. USE DEF IInv
<1>1. /\ stage = "write" /\ ~throws /\ SameCall
      /\ form = "number" \/ written = Len(ins)
      /\ stage' = (IF hex THEN "send" ELSE "read") /\ sent' = text'
      /\ UNCHANGED <<storageVars, offset, insert_char, rv, decoding>>
  BY DEF Encode, SameCall, storageVars
<1>2. /\ Stores' = Stores /\ Payload' = Payload /\ (Lost' <=> Lost) /\ ins' = ins
      /\ \A k \in 1 .. Len(ins) : Arriving(k)' = Arriving(k)
  BY <1>1, CallStays DEF SameCall
<1>3. decoding = "no"
  BY <1>1 DEF DecodedOK
<1>4. ASSUME hex, ~Lost PROVE text' = encode_hex(Payload)
  <2>1. CASE form = "number"
    <3>1. Len(ins) = 1 /\ order = "big"
      BY <2>1 DEF CallOK, Forms
    <3>2. Len(ins[1]) \in {1, 2, 4, 8} /\ Len(ins[1]) # 1
      BY <1>4, <2>1, <3>1, NumbersAre DEF Lost
    <3>3. text' = encode_hex(Reverse(ins[1]))
      <4>1. text' = encode_hex_number(ins[1])
        BY <1>4, <2>1 DEF Encode
      <4>2. \A n \in {1, 2, 4, 8} : n # 1 => n > 1
        OBVIOUS
      <4>3. Len(ins[1]) > 1
        BY <3>2, <4>2, Zenon
      <4>. QED
        BY <4>1, <4>3 DEF encode_hex_number
    <3>4. StoredAs(1) = Reverse(ins[1])
      BY <2>1, <3>1 DEF StoredAs, InOrder, Arriving, TakenApart
    <3>. QED
      BY <3>1, <3>3, <3>4, PayloadOfOne
  <2>2. CASE form # "number"
    <3>1. text' = encode_hex(buffer)
      BY <1>4, <2>2 DEF Encode
    <3>2. buffer = Payload
      BY <1>1, <2>2 DEF WrittenOK, Payload
    <3>. QED
      BY <3>1, <3>2
  <2>. QED
    BY <2>1, <2>2
<1>5. CallOK'
  BY <1>1 DEF CallOK, SameCall, storageVars
<1>6. WrittenOK'
  BY <1>1, <1>2 DEF WrittenOK, SameCall, storageVars
<1>7. SentOK'
  BY <1>1, <1>2, <1>4 DEF SentOK, SameCall
<1>8. DecodedOK'
  BY <1>1, <1>3 DEF DecodedOK, SameCall
<1>9. (hex /\ ~Lost => DigitsOK)'
  BY <1>1, <1>2, <1>3 DEF DigitsOK, SameCall
<1>10. ReadOK'
  BY <1>1, <1>2 DEF ReadOK, storageVars
<1>. QED
  BY <1>5, <1>6, <1>7, <1>8, <1>9, <1>10

LEMMA SendKeeps ==
  ASSUME IInv, Send
  PROVE  IInv'
<1>. USE DEF IInv
<1>1. /\ stage = "send" /\ stage' = "decode" /\ SameCall
      /\ UNCHANGED <<storageVars, offset, insert_char, rv, decoding, sent>>
  BY DEF Send, SameCall, storageVars
<1>2. /\ Stores' = Stores /\ Payload' = Payload /\ (Lost' <=> Lost) /\ ins' = ins
      /\ \A k \in 1 .. Len(ins) : Arriving(k)' = Arriving(k)
  BY <1>1, CallStays DEF SameCall
<1>3. decoding = "no" /\ hex /\ text = sent
  BY <1>1 DEF DecodedOK, SentOK
<1>4. Arrived(text', sent')
  BY <1>1, <1>3 DEF Send, Arrivals, Arrived, UpperCase
<1>5. CallOK' /\ WrittenOK'
  BY <1>1, <1>2 DEF CallOK, WrittenOK, SameCall, storageVars
<1>6. SentOK' /\ DecodedOK'
  BY <1>1, <1>2, <1>3, <1>4 DEF SentOK, DecodedOK, SameCall
<1>7. (hex /\ ~Lost => DigitsOK)'
  BY <1>1, <1>2, <1>3 DEF DigitsOK, SameCall
<1>8. ReadOK'
  BY <1>1, <1>2 DEF ReadOK, storageVars
<1>. QED
  BY <1>5, <1>6, <1>7, <1>8

\* What is known of a text that arrived.
LEMMA TextIsRead ==
  ASSUME IInv, stage \in {"decode", "read"}, hex, ~Lost
  PROVE  /\ Len(sent) = 2 * Len(Payload) /\ Len(Payload) \in Nat
         /\ Len(text) \in Nat /\ Len(text) \in {Len(sent), Len(sent) - 1}
         /\ \A o \in 0 .. Len(text) - 1 : IsRead(text, sent, Payload, o)
         /\ Len(text) = Len(sent) /\ (\A o \in 0 .. Len(text) - 1 : IsHex(text[o + 1])) =>
              text \in {sent, UpperCase(sent)}
<1>1. Payload \in Seq(Byte) /\ sent = encode_hex(Payload) /\ Arrived(text, sent)
  BY StoresAre DEF IInv, SentOK
<1>2. Len(sent) = 2 * Len(Payload) /\ Len(Payload) \in Nat
  BY <1>1, EncodeIs
<1>. QED
  BY <1>1, <1>2, ArrivedIs

\* A pass of the loop over a digit.
LEMMA DigitKeeps ==
  ASSUME NEW P \in Seq(Byte), NEW o \in 0 .. 2 * Len(P) - 1, NEW i, NEW digit,
         o % 2 = 1 => i = 16 * (P[o \div 2 + 1] \div 16),
         digit = Nibble(P, o) + IF o % 2 = 0 THEN 0 ELSE i
  PROVE  /\ o % 2 = 0 => /\ (o + 1) % 2 = 1 /\ (o + 1) \div 2 = o \div 2
                         /\ digit * 16 = 16 * (P[o \div 2 + 1] \div 16)
         /\ o % 2 # 0 => /\ (o + 1) % 2 = 0
                         /\ Append(SubSeq(P, 1, o \div 2), digit) = SubSeq(P, 1, (o + 1) \div 2)
<1>. DEFINE k == o \div 2 + 1
            b == P[k]
<1>1. k \in 1 .. Len(P) /\ Nibble(P, o) \in 0 .. 15
  BY NibbleIsDigit
<1>2. b \in Byte
  BY <1>1
<1>. HIDE DEF b
<1>3. b \div 16 \in 0 .. 15 /\ b % 16 \in 0 .. 15 /\ (b \div 16) * 16 + (b % 16) = b
  BY <1>2, BytesHaveDigits
<1>4. CASE o % 2 = 0
  <2>1. (o + 1) % 2 = 1 /\ (o + 1) \div 2 = o \div 2
    BY <1>4
  <2>2. digit = (b \div 16) + 0
    BY <1>4 DEF Nibble, b
  <2>3. digit * 16 = 16 * (b \div 16)
    <3>1. \A x \in 0 .. 15 : (x + 0) * 16 = 16 * x
      OBVIOUS
    <3>. QED
      BY <1>3, <2>2, <3>1
  <2>. QED
    BY <1>4, <2>1, <2>3 DEF b
<1>5. CASE o % 2 # 0
  <2>1. (o + 1) % 2 = 0 /\ (o + 1) \div 2 = k /\ o \div 2 = k - 1 /\ o % 2 = 1
    BY <1>5
  <2>2. digit = (b % 16) + i
    BY <1>5 DEF Nibble, b
  <2>3. i = 16 * (b \div 16)
    BY <2>1 DEF b
  <2>4. digit = b
    <3>1. \A x, y \in 0 .. 15 : y + 16 * x = x * 16 + y
      OBVIOUS
    <3>. QED
      BY <1>3, <2>2, <2>3, <3>1
  <2>. HIDE DEF k
  <2>5. Append(SubSeq(P, 1, k - 1), P[k]) = SubSeq(P, 1, k)
    <3>1. k - 1 \in Nat /\ k \in Nat
      BY <1>1
    <3>. QED
      BY <1>1, <3>1
  <2>. QED
    BY <1>5, <2>1, <2>4, <2>5 DEF b
<1>. QED
  BY <1>4, <1>5

LEMMA EnterKeeps ==
  ASSUME IInv, Decode, EnterDecode, hex, ~Lost
  PROVE  DigitsOK'
<1>1. /\ SameCall /\ stage = "decode" /\ decoding = "no" /\ sent' = sent
      /\ UNCHANGED <<text, offset, insert_char, rv>>
      /\ decoding' = CASE text = <<>>       -> "returned"
                       [] Len(text) % 2 = 1 -> "invalid_argument"
                       [] OTHER             -> "loop"
  BY DEF Decode, EnterDecode, SameCall, storageVars
<1>2. Payload' = Payload
  BY <1>1, CallStays
<1>3. /\ Len(sent) = 2 * Len(Payload) /\ Len(Payload) \in Nat
      /\ Len(text) \in Nat /\ Len(text) \in {Len(sent), Len(sent) - 1}
  BY <1>1, TextIsRead
<1>4. DigitsOK /\ offset = 0 /\ rv = <<>>
  BY <1>1 DEF IInv, DecodedOK
<1>5. CASE text = <<>>
  <2>1. Len(text) = 0 /\ decoding' = "returned"
    BY <1>1, <1>5
  <2>2. Len(text) = 2 * Len(Payload)
    BY <1>3, <2>1
  <2>3. UNCHANGED <<Payload, text, sent, offset, insert_char, rv>>
    BY <1>1, <1>2
  <2>4. \A o \in 0 .. offset - 1 : IsHex(text[o + 1])
    BY <1>4
  <2>5. offset = Len(text)
    BY <1>4, <2>1
  <2>. QED
    BY <1>4, <2>1, <2>2, <2>3, <2>4, <2>5 DEF DigitsOK
<1>6. CASE text # <<>> /\ Len(text) % 2 = 1
  <2>1. decoding' = "invalid_argument"
    BY <1>1, <1>6
  <2>2. Len(text) # Len(sent)
    BY <1>3, <1>6
  <2>3. UNCHANGED <<Payload, text, sent, offset, insert_char, rv>>
    BY <1>1, <1>2
  <2>. QED
    BY <1>4, <2>1, <2>2, <2>3 DEF DigitsOK
<1>7. CASE text # <<>> /\ Len(text) % 2 # 1
  <2>1. decoding' = "loop"
    BY <1>1, <1>7
  <2>2. Len(text) = 2 * Len(Payload)
    BY <1>3, <1>7
  <2>. QED
    BY <1>1, <1>2, <1>4, <2>1, <2>2 DEF DigitsOK
<1>. QED
  BY <1>5, <1>6, <1>7

LEMMA CharKeeps ==
  ASSUME IInv, Decode, DecodeChar, hex, ~Lost
  PROVE  DigitsOK'
<1>. DEFINE c == text[offset + 1]
            digit == Digit(c) + IF offset % 2 = 0 THEN 0 ELSE insert_char
<1>1. SameCall /\ stage = "decode" /\ decoding = "loop" /\ sent' = sent /\ text' = text /\ offset < Len(text)
  BY DEF Decode, DecodeChar, SameCall, storageVars
<1>2. Payload' = Payload
  BY <1>1, CallStays
<1>3. Payload \in Seq(Byte) /\ Len(Payload) \in Nat
  BY StoresAre DEF IInv
<1>4. /\ DigitsOK /\ Len(text) = 2 * Len(Payload) /\ offset \in 0 .. 2 * Len(Payload) - 1
      /\ rv = SubSeq(Payload, 1, offset \div 2)
      /\ offset % 2 = 1 => insert_char = 16 * (Payload[offset \div 2 + 1] \div 16)
      /\ \A o \in 0 .. offset - 1 : IsHex(text[o + 1])
  BY <1>1, <1>3 DEF IInv, DigitsOK
<1>5. IsRead(text, sent, Payload, offset)
  BY <1>1, <1>3, <1>4, TextIsRead
<1>6. CASE IsHex(c)
  <2>1. Digit(c) = Nibble(Payload, offset)
    BY <1>5, <1>6 DEF IsRead
  <2>2. /\ insert_char' = IF offset % 2 = 0 THEN digit * 16 ELSE digit
        /\ rv' = IF offset % 2 = 0 THEN rv ELSE Append(rv, digit)
        /\ offset' = offset + 1 /\ decoding' = decoding
    BY <1>6 DEF DecodeChar
  <2>3. /\ offset % 2 = 0 => /\ (offset + 1) % 2 = 1 /\ (offset + 1) \div 2 = offset \div 2
                             /\ digit * 16 = 16 * (Payload[offset \div 2 + 1] \div 16)
        /\ offset % 2 # 0 => /\ (offset + 1) % 2 = 0
                             /\ Append(SubSeq(Payload, 1, offset \div 2), digit) = SubSeq(Payload, 1, (offset + 1) \div 2)
    <3>1. digit = Nibble(Payload, offset) + IF offset % 2 = 0 THEN 0 ELSE insert_char
      BY <2>1
    <3>. HIDE DEF digit
    <3>. QED
      BY <1>3, <1>4, <3>1, DigitKeeps
  <2>. HIDE DEF digit
  <2>4. offset' \in 0 .. 2 * Len(Payload)
    BY <1>3, <1>4, <2>2
  <2>5. \A o \in 0 .. offset' - 1 : IsHex(text[o + 1])
    <3>1. \A o \in 0 .. offset' - 1 : o \in 0 .. offset - 1 \/ o = offset
      BY <1>4, <2>2
    <3>. QED
      BY <1>4, <1>6, <3>1
  <2>6. rv' = SubSeq(Payload, 1, offset' \div 2)
    BY <1>4, <2>2, <2>3
  <2>7. offset' % 2 = 1 => insert_char' = 16 * (Payload[offset' \div 2 + 1] \div 16)
    BY <2>2, <2>3
  <2>8. decoding' = "loop"
    BY <1>1, <2>2
  <2>. QED
    BY <1>1, <1>2, <1>4, <2>4, <2>5, <2>6, <2>7, <2>8 DEF DigitsOK
<1>7. CASE ~IsHex(c)
  <2>1. /\ decoding' = "logic_error" /\ UNCHANGED <<rv, offset>>
        /\ insert_char' = IF offset % 2 = 0 THEN 0 ELSE insert_char
    BY <1>7 DEF DecodeChar
  <2>2. c # sent[offset + 1]
    BY <1>5, <1>7 DEF IsRead
  <2>3. offset % 2 = 1 => insert_char' = insert_char
    BY <2>1
  <2>. QED
    BY <1>1, <1>2, <1>4, <2>1, <2>2, <2>3 DEF DigitsOK
<1>. QED
  BY <1>6, <1>7

LEMMA ReturnKeeps ==
  ASSUME IInv, Decode, ReturnDecoded, hex, ~Lost
  PROVE  DigitsOK'
<1>1. /\ SameCall /\ decoding = "loop" /\ decoding' = "returned" /\ offset = Len(text) /\ sent' = sent
      /\ UNCHANGED <<text, offset, insert_char, rv>>
  BY DEF Decode, ReturnDecoded, SameCall, storageVars
<1>2. Payload' = Payload
  BY <1>1, CallStays
<1>. QED
  BY <1>1, <1>2 DEF IInv, DigitsOK

LEMMA DecodeKeeps ==
  ASSUME IInv, Decode
  PROVE  IInv'
<1>. USE DEF IInv
<1>1. /\ stage = "decode" /\ stage' = (IF decoding' = "returned" THEN "read" ELSE stage)
      /\ SameCall /\ UNCHANGED <<storageVars, sent, text>>
  BY DEF Decode, SameCall, storageVars, decode_hex, EnterDecode, DecodeChar, ReturnDecoded
<1>2. /\ Stores' = Stores /\ Payload' = Payload /\ (Lost' <=> Lost) /\ ins' = ins
      /\ \A k \in 1 .. Len(ins) : Arriving(k)' = Arriving(k)
  BY <1>1, CallStays DEF SameCall
<1>3. hex /\ ~throws
  BY <1>1 DEF SentOK, WrittenOK
<1>4. decoding' \in {"loop", "returned", "invalid_argument", "logic_error"}
  BY DEF Decode, decode_hex, EnterDecode, DecodeChar, ReturnDecoded
<1>5. CallOK' /\ WrittenOK'
  BY <1>1, <1>2, <1>3 DEF CallOK, WrittenOK, SameCall, storageVars
<1>6. SentOK' /\ DecodedOK'
  BY <1>1, <1>2, <1>3, <1>4 DEF SentOK, DecodedOK, SameCall
<1>7. ~Lost => DigitsOK'
  BY <1>3, EnterKeeps, CharKeeps, ReturnKeeps DEF Decode, decode_hex
<1>8. ReadOK'
  BY <1>1, <1>2 DEF ReadOK, storageVars
<1>. QED
  BY <1>2, <1>5, <1>6, <1>7, <1>8

LEMMA ReadsNext ==
  ASSUME IInv, ReadStep, ~Lost
  PROVE  /\ outs' = Append(outs, Arriving(Len(outs) + 1))
         /\ ~throws' => cursor' = Len(Upto(Stores, Len(outs) + 1))
<1>. USE DEF IInv
<1>. DEFINE k == Len(outs) + 1
            n == Len(ins[k])
            raw == Memory(reader, SubSeq(Received, cursor + 1, cursor + n))
            out == IF order = "little" THEN little_to_host(reader, raw) ELSE big_to_host(reader, raw)
<1>1. /\ stage = "read" /\ ~throws /\ Len(outs) < Len(ins)
      /\ IF Converts(reader, raw)
           THEN outs' = Append(outs, out) /\ cursor' = cursor + n /\ UNCHANGED throws
           ELSE outs' = Append(outs, raw) /\ throws' = TRUE /\ UNCHANGED cursor
  BY DEF ReadStep, Read, Take
<1>2. /\ outs \in Seq(Seq(Byte)) /\ Len(outs) \in Nat /\ Len(ins) \in Nat
      /\ cursor = Len(Upto(Stores, Len(outs)))
  BY <1>1, StoresAre DEF ReadOK
<1>3. /\ k \in 1 .. Len(ins) /\ Len(outs) \in 0 .. Len(Stores) - 1 /\ Len(Stores) \in k .. Len(Stores)
      /\ Stores \in Seq(Seq(Byte)) /\ Stores[k] = StoredAs(k) /\ Len(Stores) = Len(ins)
  BY <1>1, <1>2, StoresAre
<1>4. Len(StoredAs(k)) = n
  BY <1>3, NumbersAre
<1>5. Received = Payload
  <2>1. CASE hex
    <3>1. decoding = "returned"
      BY <1>1, <2>1 DEF DecodedOK
    <3>2. offset = 2 * Len(Payload) /\ rv = SubSeq(Payload, 1, offset \div 2)
      BY <2>1, <3>1 DEF DigitsOK
    <3>3. Payload \in Seq(Byte) /\ Len(Payload) \in Nat
      BY StoresAre
    <3>4. offset \div 2 = Len(Payload)
      BY <3>2, <3>3
    <3>. QED
      BY <2>1, <3>2, <3>3, <3>4, SubSeqFull DEF Received
  <2>2. CASE ~hex
    BY <1>1, <2>2 DEF Received, WrittenOK, CallOK, Payload
  <2>. QED
    BY <2>1, <2>2
<1>. HIDE DEF k, n
<1>6. SubSeq(Payload, cursor + 1, cursor + n) = StoredAs(k)
  <2>. DEFINE j == Len(outs)
  <2>1. j + 1 = k /\ cursor = Len(Upto(Stores, j))
    BY <1>2 DEF k
  <2>2. j \in 0 .. Len(Stores) - 1 /\ Len(Stores) \in j + 1 .. Len(Stores)
    BY <1>3 DEF k
  <2>. HIDE DEF j
  <2>3. SubSeq(Upto(Stores, Len(Stores)), Len(Upto(Stores, j)) + 1, Len(Upto(Stores, j)) + Len(Stores[j + 1]))
          = Stores[j + 1]
    BY <1>3, <2>2, UptoPiece
  <2>. QED
    BY <1>3, <1>4, <2>1, <2>3 DEF Payload
<1>7. raw = Memory(reader, StoredAs(k))
  BY <1>5, <1>6
<1>. HIDE DEF raw
<1>8. /\ order = "little" => little_to_host(reader, raw) = Arriving(k)
      /\ order # "little" => big_to_host(reader, raw) = Arriving(k)
      /\ ~Converts(reader, raw) => raw = Arriving(k)
  BY <1>3, <1>7, ReadsArrived
<1>9. outs' = Append(outs, Arriving(k))
  BY <1>1, <1>8
<1>10. ~throws' => cursor' = Len(Upto(Stores, k))
  <2>1. Upto(Stores, Len(outs)) \in Seq(Byte) /\ StoredAs(k) \in Seq(Byte)
    BY <1>2, <1>3, UptoTyped, NumbersAre
  <2>2. Upto(Stores, k) = Upto(Stores, Len(outs)) \o StoredAs(k)
    BY <1>3, <2>1, UptoNext DEF k
  <2>3. Len(Upto(Stores, Len(outs)) \o StoredAs(k)) = cursor + n
    BY <1>2, <1>4, <2>1, ConcatProperties
  <2>. QED
    BY <1>1, <2>2, <2>3
<1>. QED
  BY <1>9, <1>10 DEF k

LEMMA ReadKeeps ==
  ASSUME IInv, ReadStep
  PROVE  IInv'
<1>. USE DEF IInv
<1>1. /\ stage = "read" /\ ~throws /\ Len(outs) < Len(ins) /\ SameCall /\ throws' \in BOOLEAN
      /\ UNCHANGED <<buffer, written, hexVars, stage, sent>>
  BY DEF ReadStep, Read, Take, SameCall, CallOK
<1>2. /\ Stores' = Stores /\ Payload' = Payload /\ (Lost' <=> Lost) /\ ins' = ins
      /\ \A k \in 1 .. Len(ins) : Arriving(k)' = Arriving(k)
  BY <1>1, CallStays DEF SameCall
<1>3. CallOK' /\ WrittenOK'
  BY <1>1, <1>2 DEF CallOK, WrittenOK, SameCall
<1>4. SentOK' /\ DecodedOK'
  BY <1>1, <1>2 DEF SentOK, DecodedOK, SameCall, hexVars
<1>5. (hex /\ ~Lost => DigitsOK)'
  BY <1>1, <1>2 DEF DigitsOK, SameCall, hexVars
<1>6. ReadOK'
  <2>1. CASE Lost
    <3>1. Len(ins) = 1 /\ (outs = <<>> \/ Len(outs) = 1)
      BY <2>1 DEF CallOK, ReadOK, Lost
    <3>2. outs = <<>>
      BY <1>1, <3>1
    <3>3. PICK x : outs' = Append(outs, x)
      BY DEF ReadStep, Read, Take
    <3>4. Len(outs') = 1
      BY <3>2, <3>3
    <3>. QED
      BY <1>1, <1>2, <2>1, <3>4 DEF ReadOK
  <2>2. CASE ~Lost
    <3>. DEFINE k == Len(outs) + 1
    <3>1. /\ outs' = Append(outs, Arriving(k))
          /\ ~throws' => cursor' = Len(Upto(Stores, k))
      BY <2>2, ReadsNext
    <3>2. /\ outs \in Seq(Seq(Byte)) /\ Len(outs) \in Nat /\ Len(ins) \in Nat /\ k \in 1 .. Len(ins)
          /\ \A j \in 1 .. Len(outs) : outs[j] = Arriving(j)
      BY <1>1, <2>2, StoresAre DEF ReadOK
    <3>3. Arriving(k) \in Seq(Byte)
      BY <3>2, NumbersAre
    <3>4. /\ outs' \in Seq(Seq(Byte)) /\ Len(outs') = k /\ outs'[k] = Arriving(k)
          /\ \A j \in 1 .. Len(outs) : outs'[j] = outs[j]
      BY <3>1, <3>2, <3>3, AppendProperties
    <3>5. \A j \in 1 .. k : outs'[j] = Arriving(j)
      <4>1. \A j \in 1 .. k : j \in 1 .. Len(outs) \/ j = k
        BY <3>2
      <4>. QED
        BY <3>2, <3>4, <4>1
    <3>. HIDE DEF k
    <3>6. \A j \in 1 .. k : j \in 1 .. Len(ins)
      BY <3>2
    <3>. QED
      BY <1>1, <1>2, <2>2, <3>1, <3>2, <3>4, <3>5, <3>6 DEF ReadOK
  <2>. QED
    BY <2>1, <2>2
<1>. QED
  BY <1>3, <1>4, <1>5, <1>6

LEMMA TransferKeeps == IInv /\ [Next]_vars => IInv'
<1>. SUFFICES ASSUME IInv, [Next]_vars PROVE IInv'
  OBVIOUS
<1>1. CASE WriteStep
  BY <1>1, WriteKeeps
<1>2. CASE Encode
  BY <1>2, EncodeKeeps
<1>3. CASE Send
  BY <1>3, SendKeeps
<1>4. CASE Decode
  BY <1>4, DecodeKeeps
<1>5. CASE ReadStep
  BY <1>5, ReadKeeps
<1>6. CASE UNCHANGED vars
  <2>1. UNCHANGED <<ins, order, form, writer, reader, buffer, written, outs, cursor, throws,
                    text, offset, insert_char, rv, decoding, hex, stage, sent>>
    BY <1>6 DEF vars, storageVars, hexVars
  <2>2. /\ Stores' = Stores /\ Payload' = Payload /\ (Lost' <=> Lost)
        /\ \A k \in 1 .. Len(ins) : Arriving(k)' = Arriving(k)
    BY <2>1, CallStays DEF SameCall
  <2>3. CallOK' /\ WrittenOK' /\ SentOK' /\ DecodedOK'
    BY <2>1, <2>2 DEF IInv, CallOK, WrittenOK, SentOK, DecodedOK
  <2>4. (hex /\ ~Lost => DigitsOK)' /\ ReadOK'
    BY <2>1, <2>2 DEF IInv, DigitsOK, ReadOK
  <2>. QED
    BY <2>3, <2>4 DEF IInv
<1>. QED
  BY <1>1, <1>2, <1>3, <1>4, <1>5, <1>6 DEF Next

LEMMA TransferIInv == Spec => []IInv
BY TransferStarts, TransferKeeps, PTL DEF Spec

-----------------------------------------------------------------------------
\* What was written and not dropped by an exception, and what decode_hex put
\* together, stand for the first numbers, at any time, but for numbers that a
\* string of a big-endian host holds.
THEOREM BytesAreNumbers == Spec => []TransferInv
<1>1. IInv => TransferInv
  <2>. SUFFICES ASSUME IInv PROVE TransferInv
    OBVIOUS
  <2>1. /\ Len(ins) \in Nat /\ Payload \in Seq(Byte)
        /\ \A k \in 1 .. Len(ins) : Stores[k] = StoredAs(k)
    BY StoresAre DEF IInv
  <2>2. Len(outs) <= Len(ins)
    <3>1. CASE Lost
      <4>1. Len(ins) = 1 /\ (Len(outs) = 0 \/ Len(outs) = 1)
        BY <3>1 DEF IInv, CallOK, ReadOK, Lost
      <4>2. 0 <= 1 /\ 1 <= 1
        OBVIOUS
      <4>. QED
        BY <4>1, <4>2, Zenon
    <3>2. CASE ~Lost
      BY <3>2 DEF IInv, ReadOK
    <3>. QED
      BY <3>1, <3>2
  <2>3. ASSUME ~TakenApart
        PROVE  Upto(Stores, written) = FlattenSeq([k \in 1 .. written |-> InOrder(ins[k])])
    <3>1. \A k \in 1 .. written : k \in 1 .. Len(ins)
      BY <2>1 DEF IInv, WrittenOK
    <3>2. [k \in 1 .. written |-> Stores[k]] = [k \in 1 .. written |-> InOrder(ins[k])]
      BY <2>1, <2>3, <3>1 DEF StoredAs, Arriving
    <3>. QED
      BY <3>2 DEF Upto
  <2>4. ASSUME form # "number", hex
        PROVE  /\ rv = SubSeq(buffer, 1, offset \div 2)
               /\ offset % 2 = 1 => insert_char = 16 * (buffer[offset \div 2 + 1] \div 16)
    <3>1. ~Lost /\ DigitsOK
      BY <2>4 DEF IInv, Lost
    <3>2. CASE decoding = "no"
      <4>1. offset = 0 /\ rv = <<>>
        BY <3>2 DEF IInv, DecodedOK
      <4>2. SubSeq(buffer, 1, 0) = <<>> /\ 0 \div 2 = 0 /\ 0 % 2 = 0
        BY SubSeqEmpty
      <4>. QED
        BY <4>1, <4>2
    <3>3. CASE decoding # "no"
      <4>1. stage \in {"decode", "read"}
        BY <3>3 DEF IInv, DecodedOK
      <4>2. buffer = Payload
        BY <2>4, <4>1 DEF IInv, WrittenOK, Payload
      <4>. QED
        BY <3>1, <4>2 DEF DigitsOK
    <3>. QED
      BY <3>2, <3>3
  <2>5. /\ written \in 0 .. Len(ins) /\ throws \in BOOLEAN
        /\ decoding \in {"no", "loop", "returned", "invalid_argument", "logic_error"}
        /\ buffer = IF throws /\ stage = "write" /\ form = "array" THEN <<>> ELSE Upto(Stores, written)
    BY DEF IInv, CallOK, WrittenOK, DecodedOK
  <2>. QED
    BY <2>2, <2>3, <2>4, <2>5 DEF TransferInv
<1>. QED
  BY <1>1, TransferIInv, PTL

\* What is written on any machine is read back on any other, whichever the byte
\* orders, the function that writes and the way it is sent, but for a byte that is
\* printed as a character (Lost) and for a string on a big-endian host (TakenApart).
THEOREM NumbersReadBack == Spec => []OthersReadBack
<1>1. IInv => OthersReadBack
  <2>. SUFFICES ASSUME IInv, ~TakenApart, ~Lost, NEW k \in DOMAIN outs PROVE outs[k] = ins[k]
    BY DEF OthersReadBack, ReadsBack
  <2>1. outs \in Seq(Seq(Byte)) /\ \A j \in 1 .. Len(outs) : outs[j] = Arriving(j)
    BY DEF IInv, ReadOK
  <2>2. k \in 1 .. Len(outs) /\ Arriving(k) = ins[k]
    BY <2>1 DEF Arriving
  <2>. QED
    BY <2>1, <2>2
<1>. QED
  BY <1>1, TransferIInv, PTL

\* decode_hex returns for no text but the one that was sent, in either case, and
\* throws at the character that differs.
THEOREM DamageIsRefused == Spec => []RefusesDamaged
<1>1. IInv => RefusesDamaged
  <2>. SUFFICES ASSUME IInv, ~Lost
                PROVE  /\ stage = "read" /\ hex => text \in {sent, UpperCase(sent)}
                       /\ decoding = "invalid_argument" => Len(text) # Len(sent)
                       /\ decoding = "logic_error" => text[offset + 1] # sent[offset + 1]
    BY DEF RefusesDamaged, UpperCase
  <2>1. ASSUME stage = "read", hex PROVE text \in {sent, UpperCase(sent)}
    <3>1. decoding = "returned" /\ DigitsOK
      BY <2>1 DEF IInv, DecodedOK
    <3>2. Len(text) = Len(sent) /\ \A o \in 0 .. Len(text) - 1 : IsHex(text[o + 1])
      BY <2>1, <3>1, TextIsRead DEF DigitsOK
    <3>. QED
      BY <2>1, <3>2, TextIsRead
  <2>2. decoding \in {"invalid_argument", "logic_error"} => DigitsOK
    BY DEF IInv, DecodedOK
  <2>. QED
    BY <2>1, <2>2 DEF DigitsOK
<1>. QED
  BY <1>1, TransferIInv, PTL
=============================================================================
