---------------------------- MODULE SplitProofs ----------------------------
(***************************************************************************)
(* split_on cuts a string of any length into pieces that tile it, at the   *)
(* first occurrence each time: SplitInv is inductive.  replace joins them  *)
(* to the string with every occurrence replaced: ReplaceInv is inductive.  *)
(* split_on_multiple cuts a string at every separator it meets, and loses  *)
(* nothing: so is MultipleInv.                                             *)
(***************************************************************************)
EXTENDS Replace, SplitMultiple, SequenceTheorems, WellFoundedInduction, TLAPS

Views == [from : 0 .. Len(str), length : 0 .. Len(str)]

LEMMA SplitTyped == SplitInit => SplitInv
<1>. SUFFICES ASSUME SplitInit PROVE SplitInv
  OBVIOUS
<1>1. str \in Seq(Chars) /\ seq \in Seq(Chars)
  BY SplitAssumption DEF SplitInit
<1>2. SplitTypeOK
  <2>1. Len(str) \in Nat /\ 0 \in 0 .. Len(str)
    BY <1>1
  <2>2. rv \in Seq(Views) /\ pieces \in Seq(Views)
    BY DEF SplitInit
  <2>. QED
    BY <1>1, <2>1, <2>2 DEF SplitInit, SplitTypeOK, Views
<1>3. StartIsNext /\ Tiles /\ CutsAreFirst
  BY DEF SplitInit, StartIsNext, Tiles, CutsAreFirst
<1>. QED
  BY <1>2, <1>3 DEF SplitInv

\* What a step that adds a piece does to the pieces.
LEMMA AddFacts ==
  ASSUME SplitTypeOK, NEW from \in 0 .. Len(str), NEW length \in 0 .. Len(str),
         Add(from, length)
  PROVE  /\ pieces' = Append(pieces, Piece(from, length))
         /\ Len(pieces) \in Nat /\ Len(pieces') = Len(pieces) + 1
         /\ pieces' # <<>>
         /\ pieces' \in Seq(Views) /\ rv' \in Seq(Views)
         /\ pieces'[Len(pieces) + 1].from = from
         /\ End(pieces'[Len(pieces) + 1]) = from + length
         /\ \A k \in 1 .. Len(pieces) : pieces'[k] = pieces[k]
<1>1. Piece(from, length) \in Views
  BY DEF Piece, Views
<1>2. pieces \in Seq(Views) /\ rv \in Seq(Views)
  BY DEF SplitTypeOK, Views
<1>3. pieces' = Append(pieces, Piece(from, length))
  BY DEF Add
<1>4. rv' \in Seq(Views)
  BY <1>1, <1>2 DEF Add
<1>. HIDE DEF Views
<1>5. /\ Len(pieces) \in Nat /\ Len(pieces') = Len(pieces) + 1
      /\ pieces' # <<>> /\ pieces' \in Seq(Views)
      /\ pieces'[Len(pieces) + 1] = Piece(from, length)
      /\ \A k \in 1 .. Len(pieces) : pieces'[k] = pieces[k]
  BY <1>1, <1>2, <1>3
<1>. QED
  BY <1>3, <1>4, <1>5 DEF Piece, End

\* Adding a piece that starts where it must and holds no occurrence of seq
\* keeps the pieces in place; the last of them ends where the new one does.
LEMMA AddPiece ==
  ASSUME SplitInv, ~returned, seq # <<>>,
         str' = str, seq' = seq, add_empty' = add_empty,
         NEW length \in 0 .. Len(str), start_pos + length <= Len(str),
         \A p \in start_pos .. start_pos + length - 1 : ~OccursAt(p),
         Add(start_pos, length),
         returned' => start_pos + length = Len(str)
  PROVE  Tiles' /\ CutsAreFirst'
<1>1. /\ start_pos \in 0 .. Len(str) /\ start_pos \in Nat /\ length \in Nat
      /\ Len(str) \in Nat /\ Len(seq) \in Nat
  BY DEF SplitInv, SplitTypeOK
<1>. DEFINE n == Len(pieces)
<1>2. /\ n \in Nat /\ Len(pieces') = n + 1 /\ pieces' # <<>>
      /\ pieces'[n + 1].from = start_pos
      /\ End(pieces'[n + 1]) = start_pos + length
      /\ \A k \in 1 .. n : pieces'[k] = pieces[k]
  BY <1>1, AddFacts DEF SplitInv
<1>3. /\ n = 0 => start_pos = 0
      /\ n > 0 => OccursAt(End(pieces[n])) /\ start_pos = End(pieces[n]) + Len(seq)
  <2>1. pieces \in Seq(Views)
    BY DEF SplitInv, SplitTypeOK, Views
  <2>2. n = 0 <=> pieces = <<>>
    BY <2>1
  <2>. QED
    BY <1>2, <2>2 DEF SplitInv, StartIsNext
<1>4. \A p : OccursAt(p)' <=> OccursAt(p)
  BY DEF OccursAt
<1>. HIDE DEF n
<1>5. pieces'[1].from = 0
  <2>1. CASE n = 0
    BY <1>2, <1>3, <2>1
  <2>2. CASE n > 0
    <3>1. pieces # <<>>
      BY <2>2 DEF n
    <3>2. pieces[1].from = 0
      BY <3>1 DEF SplitInv, Tiles
    <3>. QED
      BY <1>2, <2>2, <3>2
  <2>. QED
    BY <1>2, <2>1, <2>2
<1>6. ASSUME NEW k \in 1 .. n
      PROVE  /\ OccursAt(End(pieces'[k]))
             /\ pieces'[k + 1].from = End(pieces'[k]) + Len(seq)
  <2>1. CASE k = n
    BY <1>2, <1>3, <2>1
  <2>2. CASE k < n
    <3>1. k \in 1 .. n - 1 /\ k + 1 \in 1 .. n
      BY <1>2, <2>2
    <3>2. OccursAt(End(pieces[k])) /\ pieces[k + 1].from = End(pieces[k]) + Len(seq)
      BY <3>1 DEF SplitInv, Tiles, n
    <3>. QED
      BY <1>2, <3>1, <3>2
  <2>. QED
    BY <1>2, <2>1, <2>2
<1>7. ASSUME NEW k \in 1 .. n + 1,
             NEW p \in pieces'[k].from .. End(pieces'[k]) - 1
      PROVE  ~OccursAt(p)
  <2>1. CASE k = n + 1
    <3>. DEFINE f == pieces'[k].from
                e == End(pieces'[k])
    <3>1. f = start_pos /\ e = start_pos + length
      BY <1>2, <2>1
    <3>2. p \in f .. e - 1
      BY <1>7
    <3>. HIDE DEF f, e
    <3>3. p \in start_pos .. start_pos + length - 1
      BY <1>1, <3>1, <3>2
    <3>. QED
      BY <3>3
  <2>2. CASE k \in 1 .. n
    <3>1. pieces'[k] = pieces[k]
      BY <1>2, <2>2
    <3>. QED
      BY <1>7, <2>2, <3>1 DEF SplitInv, CutsAreFirst, n
  <2>. QED
    BY <1>2, <2>1, <2>2
<1>8. Len(pieces') - 1 = n /\ Len(str)' = Len(str) /\ Len(seq)' = Len(seq)
  BY <1>2
<1>9. Tiles'
  <2>1. returned' => End(pieces'[n + 1]) = Len(str)
    BY <1>2
  <2>2. \A k : End(pieces[k])' = End(pieces'[k])
    BY DEF End
  <2>. QED
    BY <1>2, <1>4, <1>5, <1>6, <1>8, <2>1, <2>2 DEF Tiles
<1>10. CutsAreFirst'
  <2>2. \A k : End(pieces[k])' = End(pieces'[k])
    BY DEF End
  <2>. QED
    BY <1>2, <1>4, <1>7, <2>2 DEF CutsAreFirst
<1>. QED
  BY <1>9, <1>10

LEMMA SplitKeeps == SplitInv /\ [SplitNext]_splitVars => SplitInv'
<1>. SUFFICES ASSUME SplitInv, [SplitNext]_splitVars PROVE SplitInv'
  OBVIOUS
<1>1. /\ SplitTypeOK /\ start_pos \in 0 .. Len(str) /\ start_pos \in Nat
      /\ Len(str) \in Nat /\ Len(seq) \in Nat
  BY DEF SplitInv, SplitTypeOK
<1>2. CASE ReturnWhole
  <2>1. /\ rv' = <<[from |-> 0, length |-> Len(str)]>> /\ pieces' = rv'
        /\ seq = <<>> /\ returned' /\ str' = str /\ seq' = seq
        /\ add_empty' = add_empty /\ start_pos' = start_pos
    BY <1>2 DEF ReturnWhole, Piece
  <2>2. SplitTypeOK'
    BY <1>1, <2>1 DEF SplitTypeOK
  <2>3. StartIsNext' /\ CutsAreFirst'
    BY <2>1 DEF StartIsNext, CutsAreFirst
  <2>4. Len(pieces') = 1 /\ pieces' # <<>> /\ pieces'[1].from = 0
          /\ End(pieces'[1]) = Len(str)
    BY <1>1, <2>1 DEF End
  <2>5. Tiles'
    BY <2>1, <2>4 DEF Tiles, End
  <2>. QED
    BY <2>2, <2>3, <2>5 DEF SplitInv
<1>3. CASE CutAtNext
  <2>1. /\ ~returned /\ returned' = returned /\ seq # <<>>
        /\ str' = str /\ seq' = seq /\ add_empty' = add_empty
    BY <1>3 DEF CutAtNext
  <2>2. PICK p \in start_pos .. Len(str) :
          IsFirst(p) /\ Add(start_pos, p - start_pos) /\ start_pos' = p + Len(seq)
    BY <1>3 DEF CutAtNext
  <2>3. /\ p \in Nat /\ p - start_pos \in 0 .. Len(str)
        /\ start_pos + (p - start_pos) = p /\ p <= Len(str)
    BY <1>1, <2>2
  <2>4. OccursAt(p) /\ p + Len(seq) <= Len(str)
          /\ \A r \in start_pos .. p - 1 : ~OccursAt(r)
    BY <2>2 DEF IsFirst, OccursAt
  <2>5. Tiles' /\ CutsAreFirst'
    <3>. DEFINE length == p - start_pos
    <3>1. /\ length \in 0 .. Len(str) /\ start_pos + length <= Len(str)
          /\ start_pos + length - 1 = p - 1
      BY <1>1, <2>3
    <3>2. Add(start_pos, length)
      BY <2>2
    <3>. HIDE DEF length
    <3>3. \A r \in start_pos .. start_pos + length - 1 : ~OccursAt(r)
      BY <2>4, <3>1
    <3>. QED
      BY <2>1, <3>1, <3>2, <3>3, AddPiece
  <2>6. /\ Len(pieces) \in Nat /\ Len(pieces') = Len(pieces) + 1
        /\ pieces' # <<>> /\ pieces' \in Seq(Views) /\ rv' \in Seq(Views)
        /\ End(pieces'[Len(pieces) + 1]) = p
    BY <1>1, <2>2, <2>3, AddFacts
  <2>7. SplitTypeOK'
    BY <1>1, <2>1, <2>2, <2>3, <2>4, <2>6 DEF SplitTypeOK, Views
  <2>8. StartIsNext'
    <3>1. End(pieces[Len(pieces)])' = p /\ OccursAt(p)'
      BY <2>1, <2>4, <2>6 DEF End, OccursAt
    <3>. QED
      BY <2>1, <2>2, <2>4, <2>6, <3>1 DEF StartIsNext, OccursAt, End
  <2>. QED
    BY <2>5, <2>7, <2>8 DEF SplitInv
<1>4. CASE ReturnRest
  <2>. DEFINE rest == Len(str) - start_pos
  <2>1. /\ ~returned /\ returned' /\ seq # <<>>
        /\ str' = str /\ seq' = seq /\ add_empty' = add_empty /\ start_pos' = start_pos
        /\ Add(start_pos, rest)
        /\ start_pos < Len(str) => NotFound
    BY <1>4 DEF ReturnRest
  <2>2. rest \in 0 .. Len(str) /\ start_pos + rest = Len(str)
    BY <1>1
  <2>. HIDE DEF rest
  <2>3. \A p \in start_pos .. start_pos + rest - 1 : ~OccursAt(p)
    <3>1. CASE start_pos < Len(str)
      BY <1>1, <2>1, <2>2, <3>1 DEF NotFound
    <3>2. CASE start_pos = Len(str)
      BY <1>1, <2>2, <3>2
    <3>. QED
      BY <1>1, <3>1, <3>2
  <2>4. Tiles' /\ CutsAreFirst'
    BY <1>1, <2>1, <2>2, <2>3, AddPiece
  <2>5. pieces' \in Seq(Views) /\ rv' \in Seq(Views)
    BY <1>1, <2>1, <2>2, AddFacts
  <2>6. SplitTypeOK'
    BY <1>1, <2>1, <2>5 DEF SplitTypeOK, Views
  <2>7. StartIsNext'
    BY <2>1 DEF StartIsNext
  <2>. QED
    BY <2>4, <2>6, <2>7 DEF SplitInv
<1>5. CASE UNCHANGED splitVars
  BY <1>5 DEF splitVars, SplitInv, SplitTypeOK, StartIsNext, Tiles, CutsAreFirst,
              OccursAt, End
<1>. QED
  BY <1>2, <1>3, <1>4, <1>5 DEF SplitNext

\* The inductive invariant of split_on.
THEOREM SplitCorrect == SplitSpec => []SplitInv
  BY SplitTyped, SplitKeeps, PTL DEF SplitSpec

\* The pieces, joined with the separator, are the string.
THEOREM PiecesTile == SplitSpec => []Tiles
  BY SplitCorrect, PTL DEF SplitInv

\* Every cut is at the first occurrence of the separator.
THEOREM CutsFirst == SplitSpec => []CutsAreFirst
  BY SplitCorrect, PTL DEF SplitInv

-----------------------------------------------------------------------------
\* While a string is cut every piece starts before the current one.
PiecesBefore == ~returned => \A k \in DOMAIN pieces : pieces[k].from < start_pos

Among(y, s) == \E k \in DOMAIN s : s[k] = y

LEMMA AmongAppended ==
  ASSUME NEW S, NEW s \in Seq(S), NEW x \in S, NEW y
  PROVE  Among(y, Append(s, x)) <=> Among(y, s) \/ y = x
<1>1. /\ Len(s) \in Nat /\ DOMAIN s = 1 .. Len(s) /\ DOMAIN Append(s, x) = 1 .. Len(s) + 1
      /\ Append(s, x)[Len(s) + 1] = x /\ \A k \in 1 .. Len(s) : Append(s, x)[k] = s[k]
  OBVIOUS
<1>2. 1 .. Len(s) + 1 = 1 .. Len(s) \cup {Len(s) + 1}
  BY <1>1
<1>. QED
  BY <1>1, <1>2 DEF Among

LEMMA AddWanted ==
  ASSUME SplitInv, ReturnsWanted, PiecesBefore, ~returned, seq # <<>>,
         seq' = seq, add_empty' = add_empty,
         NEW length \in 0 .. Len(str), Add(start_pos, length),
         ~returned' => start_pos < start_pos' /\ start_pos' \in Nat
  PROVE  ReturnsWanted' /\ PiecesBefore'
<1>. DEFINE x == Piece(start_pos, length)
            W == {y \in Views : Wanted(y)}
<1>1. /\ start_pos \in 0 .. Len(str) /\ start_pos \in Nat /\ length \in Nat /\ Len(str) \in Nat
      /\ pieces \in Seq(Views) /\ rv \in Seq(Views)
  BY DEF SplitInv, SplitTypeOK, Views
<1>2. x \in Views /\ (x \in W <=> Wanted(x)) /\ x.from = start_pos
  BY <1>1 DEF Piece, Views
<1>3. pieces' = Append(pieces, x) /\ rv' = IF x \in W THEN Append(rv, x) ELSE rv
  BY <1>2 DEF Add, Wanted, Piece
<1>4. \A y : Wanted(y)' <=> Wanted(y)
  BY DEF Wanted
<1>5. \A k \in DOMAIN pieces : pieces[k] \in Views /\ pieces[k].from < start_pos
  <2>. HIDE DEF Views
  <2>. QED
    BY <1>1 DEF PiecesBefore
<1>6. \A k \in DOMAIN rv : rv[k].from < start_pos /\ rv[k] \in Views
  BY <1>5 DEF ReturnsWanted
<1>. HIDE DEF x, Views
<1>7. /\ Len(rv) \in Nat /\ DOMAIN rv = 1 .. Len(rv) /\ DOMAIN Append(rv, x) = 1 .. Len(rv) + 1
      /\ Append(rv, x)[Len(rv) + 1] = x /\ \A k \in 1 .. Len(rv) : Append(rv, x)[k] = rv[k]
      /\ Len(pieces) \in Nat /\ DOMAIN pieces = 1 .. Len(pieces)
      /\ DOMAIN Append(pieces, x) = 1 .. Len(pieces) + 1
      /\ Append(pieces, x)[Len(pieces) + 1] = x
      /\ \A k \in 1 .. Len(pieces) : Append(pieces, x)[k] = pieces[k]
  BY <1>1, <1>2
<1>8. {rv'[k] : k \in DOMAIN rv'} = {y \in {pieces'[k] : k \in DOMAIN pieces'} : Wanted(y)'}
  <2>1. \A y : Among(y, rv) <=> Among(y, pieces) /\ Wanted(y)
    BY DEF ReturnsWanted, Among
  <2>2. /\ \A y : Among(y, Append(rv, x)) <=> Among(y, rv) \/ y = x
        /\ \A y : Among(y, Append(pieces, x)) <=> Among(y, pieces) \/ y = x
    BY <1>1, <1>2, AmongAppended
  <2>3. \A y : Among(y, rv') <=> Among(y, pieces') /\ Wanted(y)
    <3>. HIDE DEF W
    <3>1. CASE Wanted(x)
      BY <1>2, <1>3, <2>1, <2>2, <3>1
    <3>2. CASE ~Wanted(x)
      BY <1>2, <1>3, <2>1, <2>2, <3>2
    <3>. QED
      BY <3>1, <3>2
  <2>. QED
    BY <1>4, <2>3 DEF Among
<1>9. \A k, m \in DOMAIN rv' : k < m => rv'[k].from < rv'[m].from
  <2>1. CASE x \in W
    <3>1. ASSUME NEW k \in DOMAIN rv', NEW m \in DOMAIN rv', k < m
          PROVE  rv'[k].from < rv'[m].from
      <4>1. rv' = Append(rv, x) /\ k \in 1 .. Len(rv) /\ m \in 1 .. Len(rv) + 1
        BY <1>3, <1>7, <2>1, <3>1
      <4>2. CASE m = Len(rv) + 1
        BY <1>2, <1>6, <1>7, <4>1, <4>2
      <4>3. CASE m \in 1 .. Len(rv)
        BY <1>7, <3>1, <4>1, <4>3 DEF ReturnsWanted
      <4>. QED
        BY <1>7, <4>1, <4>2, <4>3
    <3>. QED
      BY <3>1
  <2>2. CASE x \notin W
    BY <1>3, <2>2 DEF ReturnsWanted
  <2>. QED
    BY <2>1, <2>2
<1>10. ReturnsWanted'
  BY <1>8, <1>9 DEF ReturnsWanted
<1>11. PiecesBefore'
  <2>1. SUFFICES ASSUME ~returned', NEW k \in DOMAIN pieces'
                 PROVE  pieces'[k].from < start_pos'
    BY DEF PiecesBefore
  <2>2. CASE k = Len(pieces) + 1
    BY <1>1, <1>2, <1>3, <1>7, <2>1, <2>2
  <2>3. CASE k \in 1 .. Len(pieces)
    <3>1. pieces'[k] = pieces[k] /\ pieces[k].from < start_pos /\ pieces[k].from \in Nat
      BY <1>3, <1>5, <1>7, <2>3 DEF Views
    <3>. QED
      BY <1>1, <2>1, <3>1
  <2>. QED
    BY <1>3, <1>7, <2>1, <2>2, <2>3
<1>. QED
  BY <1>10, <1>11

LEMMA WantedKept ==
  SplitInv /\ ReturnsWanted /\ PiecesBefore /\ [SplitNext]_splitVars
    => ReturnsWanted' /\ PiecesBefore'
<1>. SUFFICES ASSUME SplitInv, ReturnsWanted, PiecesBefore, [SplitNext]_splitVars
              PROVE  ReturnsWanted' /\ PiecesBefore'
  OBVIOUS
<1>1. start_pos \in Nat /\ start_pos \in 0 .. Len(str) /\ Len(str) \in Nat /\ Len(seq) \in Nat
  BY DEF SplitInv, SplitTypeOK
<1>2. CASE ReturnWhole
  <2>1. /\ rv' = <<Piece(0, Len(str))>> /\ pieces' = rv' /\ returned' /\ seq' = <<>>
    BY <1>2 DEF ReturnWhole
  <2>2. DOMAIN rv' = {1}
    BY <2>1
  <2>. QED
    BY <2>1, <2>2 DEF ReturnsWanted, PiecesBefore, Wanted
<1>3. CASE CutAtNext
  <2>1. PICK p \in start_pos .. Len(str) :
          Add(start_pos, p - start_pos) /\ start_pos' = p + Len(seq)
    BY <1>3 DEF CutAtNext
  <2>2. PICK length \in 0 .. Len(str) : length = p - start_pos
    BY <1>1, <2>1
  <2>3. seq # <<>> /\ Len(seq) > 0
    <3>1. seq # <<>> /\ seq \in Seq(Chars)
      BY <1>3 DEF CutAtNext, SplitInv, SplitTypeOK
    <3>. QED
      BY <3>1
  <2>4. start_pos < start_pos' /\ start_pos' \in Nat
    BY <1>1, <2>1, <2>3
  <2>. QED
    BY <1>3, <2>1, <2>2, <2>4, AddWanted DEF CutAtNext
<1>4. CASE ReturnRest
  <2>1. PICK length \in 0 .. Len(str) : length = Len(str) - start_pos
    BY <1>1
  <2>. QED
    BY <1>4, <2>1, AddWanted DEF ReturnRest
<1>5. CASE UNCHANGED splitVars
  BY <1>5 DEF splitVars, ReturnsWanted, PiecesBefore, Wanted
<1>. QED
  BY <1>2, <1>3, <1>4, <1>5 DEF SplitNext

\* Of the pieces that tile the string those are returned that are not empty, or all,
\* in the order of the string.
THEOREM PiecesReturned == SplitSpec => []ReturnsWanted
<1>1. SplitInit => ReturnsWanted /\ PiecesBefore
  BY DEF SplitInit, ReturnsWanted, PiecesBefore
<1>. QED
  BY <1>1, WantedKept, SplitCorrect, PTL DEF SplitSpec

-----------------------------------------------------------------------------
LessNat == {ss \in Nat \X Nat : ss[1] < ss[2]}

\* Induction, as the existence of a least element.
LEMMA NatMinimum ==
  ASSUME NEW S \in SUBSET Nat, S # {}
  PROVE  \E m \in S : \A n \in S : m <= n
<1>1. IsWellFoundedOn(LessNat, Nat)
  BY NatLessThanWellFounded DEF OpToRel, LessNat
<1>2. PICK m \in S : \A y \in S : ~ (<<y, m>> \in LessNat)
  BY <1>1, WFMin
<1>3. \A y \in S : ~ (y < m)
  BY <1>2 DEF LessNat
<1>4. QED
  BY <1>3

\* Induction from the end of a string to its start.
LEMMA FromTheEnd ==
  ASSUME NEW n \in Nat, NEW S, n \in S,
         \A m \in 1 .. n : (\A k \in m .. n : k \in S) => m - 1 \in S
  PROVE  \A k \in 0 .. n : k \in S
<1>1. SUFFICES ASSUME NEW j \in 0 .. n, j \notin S PROVE FALSE
  OBVIOUS
<1>. DEFINE Out == {i \in 0 .. n : n - i \notin S}
<1>2. Out \in SUBSET Nat /\ n - j \in Out
  BY <1>1
<1>3. PICK i \in Out : \A h \in Out : i <= h
  BY <1>2, NatMinimum
<1>4. i \in 1 .. n /\ n - i \notin S
  BY <1>3
<1>5. ASSUME NEW k \in n - i + 1 .. n PROVE k \in S
  <2>1. n - k \in 0 .. n /\ n - k < i /\ n - (n - k) = k
    BY <1>4
  <2>. QED
    BY <1>3, <1>4, <2>1
<1>6. n - i + 1 \in 1 .. n /\ (n - i + 1) - 1 = n - i
  BY <1>4
<1>. QED
  BY <1>4, <1>5, <1>6

\* Concatenation associates.
LEMMA Regroup ==
  \A x, u, w \in Seq(Chars) : x \o (u \o w) = (x \o u) \o w
BY ConcatAssociative

Begins(s, q, p) == q # <<>> /\ p + Len(q) <= Len(s) /\ SubSeq(s, p + 1, p + Len(q)) = q

\* What the result is from p on, if f is what it is behind p.
RestAt(s, q, r, f, p) ==
  IF p = Len(s) THEN <<>>
  ELSE IF Begins(s, q, p) THEN r \o f[p + Len(q)]
       ELSE <<s[p + 1]>> \o f[p + 1]

\* There is a function as ReplacedFrom says.
LEMMA RestExists ==
  ASSUME NEW s \in Seq(Chars), NEW q \in Seq(Chars), NEW r
  PROVE  \E f : f = [p \in 0 .. Len(s) |-> RestAt(s, q, r, f, p)]
<1>. DEFINE n == Len(s)
            From(m) == \E f : f = [p \in m .. n |-> RestAt(s, q, r, f, p)]
            S == {m \in 0 .. n : From(m)}
<1>1. n \in Nat /\ Len(q) \in Nat /\ (q # <<>> => Len(q) > 0)
  OBVIOUS
<1>2. From(n)
  <2>1. [p \in n .. n |-> <<>>] = [p \in n .. n |-> RestAt(s, q, r, [o \in n .. n |-> <<>>], p)]
    BY <1>1 DEF RestAt
  <2>. QED
    BY <2>1
<1>3. ASSUME NEW m \in 1 .. n, From(m) PROVE From(m - 1)
  <2>1. PICK f : f = [p \in m .. n |-> RestAt(s, q, r, f, p)]
    BY <1>3
  <2>. DEFINE g == [p \in m - 1 .. n |-> IF p = m - 1 THEN RestAt(s, q, r, f, m - 1) ELSE f[p]]
  <2>2. \A p \in m .. n : g[p] = f[p] /\ f[p] = RestAt(s, q, r, f, p)
    <3>. HIDE DEF n
    <3>1. \A p \in m .. n : f[p] = RestAt(s, q, r, f, p)
      BY <2>1, Zenon
    <3>2. \A p \in m .. n : p \in m - 1 .. n /\ p # m - 1
      BY <1>1
    <3>. QED
      BY <3>1, <3>2
  <2>3. ASSUME NEW p \in m - 1 .. n PROVE RestAt(s, q, r, g, p) = RestAt(s, q, r, f, p)
    <3>1. p # n => p + 1 \in m .. n
      BY <1>1
    <3>2. Begins(s, q, p) => p + Len(q) \in m .. n
      BY <1>1 DEF Begins
    <3>. HIDE DEF g, n
    <3>. QED
      BY <2>2, <3>1, <3>2 DEF RestAt, n
  <2>4. g = [p \in m - 1 .. n |-> RestAt(s, q, r, g, p)]
    <3>1. \A p \in m - 1 .. n : g[p] = RestAt(s, q, r, g, p)
      <4>1. TAKE p \in m - 1 .. n
      <4>2. CASE p = m - 1
        BY <2>3, <4>2
      <4>3. CASE p # m - 1
        <5>1. p \in m .. n
          BY <1>1, <4>3
        <5>. QED
          BY <2>2, <2>3, <5>1
      <4>. QED
        BY <4>2, <4>3
    <3>2. g = [p \in m - 1 .. n |-> g[p]]
      OBVIOUS
    <3>. HIDE DEF g
    <3>. QED
      BY <3>1, <3>2
  <2>. QED
    BY <2>4
<1>4. n \in S /\ \A m \in 1 .. n : (\A k \in m .. n : k \in S) => m - 1 \in S
  <2>. HIDE DEF From
  <2>1. \A m \in 1 .. n : m \in S => m - 1 \in S
    BY <1>1, <1>3
  <2>. QED
    BY <1>1, <1>2, <2>1
<1>5. 0 \in S
  <2>. HIDE DEF S, n
  <2>1. \A k \in 0 .. n : k \in S
    BY <1>1, <1>4, FromTheEnd
  <2>. QED
    BY <1>1, <2>1
<1>. QED
  BY <1>5 DEF S

\* ReplacedFrom is what it is defined by, and its values are strings.
LEMMA RestIs ==
  ASSUME NEW s \in Seq(Chars), NEW q \in Seq(Chars), NEW r \in Seq(Chars)
  PROVE  \A p \in 0 .. Len(s) :
           /\ ReplacedFrom(s, q, r)[p] = RestAt(s, q, r, ReplacedFrom(s, q, r), p)
           /\ ReplacedFrom(s, q, r)[p] \in Seq(Chars)
<1>. DEFINE n == Len(s)
            F == ReplacedFrom(s, q, r)
            Is(f) == f = [p \in 0 .. n |-> RestAt(s, q, r, f, p)]
<1>1. n \in Nat /\ Len(q) \in Nat /\ (q # <<>> => Len(q) > 0)
  OBVIOUS
<1>2. F = CHOOSE f : Is(f)
  BY DEF ReplacedFrom, RestAt, Begins
<1>3. \E f : Is(f)
  BY RestExists
<1>4. Is(F)
  <2>. HIDE DEF Is, F
  <2>. QED
    BY <1>2, <1>3
<1>. HIDE DEF F
<1>5. \A p \in 0 .. n : F[p] = RestAt(s, q, r, F, p)
  BY <1>4
<1>. DEFINE Str == Seq(Chars)
            S == {p \in 0 .. n : F[p] \in Str}
<1>6. n \in S
  <2>1. RestAt(s, q, r, F, n) = <<>>
    BY DEF RestAt
  <2>2. n \in 0 .. n /\ F[n] = RestAt(s, q, r, F, n)
    <3>. HIDE DEF n
    <3>. QED
      BY <1>1, <1>5
  <2>3. F[n] \in Str
    BY <2>1, <2>2
  <2>. QED
    BY <2>2, <2>3
<1>7. ASSUME NEW m \in 1 .. n, \A k \in m .. n : k \in S PROVE m - 1 \in S
  <2>. DEFINE p == m - 1
  <2>1. p \in 0 .. n /\ p # n /\ p + 1 = m /\ s[p + 1] \in Chars
    BY <1>1
  <2>2. CASE Begins(s, q, p)
    <3>1. F[p] = r \o F[p + Len(q)] /\ p + Len(q) \in m .. n
      <4>. HIDE DEF p
      <4>1. F[p] = r \o F[p + Len(q)]
        BY <1>5, <2>1, <2>2 DEF RestAt
      <4>2. q # <<>> /\ p + Len(q) <= n
        BY <2>2 DEF Begins
      <4>. QED
        BY <1>1, <2>1, <4>1, <4>2
    <3>2. F[p + Len(q)] \in Seq(Chars)
      BY <1>7, <3>1
    <3>. QED
      BY <2>1, <3>1, <3>2, ConcatProperties
  <2>3. CASE ~Begins(s, q, p)
    <3>1. F[p] = <<s[p + 1]>> \o F[p + 1]
      BY <1>1, <1>5, <2>1, <2>3 DEF RestAt
    <3>2. F[p + 1] \in Seq(Chars) /\ <<s[p + 1]>> \in Seq(Chars)
      BY <1>7, <2>1
    <3>. QED
      BY <2>1, <3>1, <3>2, ConcatProperties
  <2>. QED
    BY <2>2, <2>3
<1>. HIDE DEF S
<1>8. \A p \in 0 .. n : p \in S
  BY <1>1, <1>6, <1>7, FromTheEnd
<1>. QED
  BY <1>5, <1>8 DEF S, F

\* At an occurrence the replacement comes next.
LEMMA RestReplaces ==
  ASSUME NEW s \in Seq(Chars), NEW q \in Seq(Chars), NEW r \in Seq(Chars),
         NEW p \in 0 .. Len(s), Begins(s, q, p)
  PROVE  /\ ReplacedFrom(s, q, r)[p] = r \o ReplacedFrom(s, q, r)[p + Len(q)]
         /\ p + Len(q) \in 0 .. Len(s)
<1>1. Len(s) \in Nat /\ Len(q) \in Nat /\ Len(q) > 0 /\ p # Len(s) /\ p + Len(q) \in 0 .. Len(s)
  BY DEF Begins
<1>. QED
  BY <1>1, RestIs DEF RestAt

\* As long as there is no occurrence the string is kept.
LEMMA RestKeeps ==
  ASSUME NEW s \in Seq(Chars), NEW q \in Seq(Chars), NEW r \in Seq(Chars),
         NEW b \in 0 .. Len(s), NEW a \in 0 .. b,
         \A p \in a .. b - 1 : ~Begins(s, q, p)
  PROVE  ReplacedFrom(s, q, r)[a] = SubSeq(s, a + 1, b) \o ReplacedFrom(s, q, r)[b]
<1>. DEFINE F == ReplacedFrom(s, q, r)
            Keeps(p) == F[p] = SubSeq(s, p + 1, b) \o F[b]
            S == {p \in 0 .. b : p >= a => Keeps(p)}
<1>1. Len(s) \in Nat /\ a \in Nat /\ b \in Nat
  OBVIOUS
<1>2. \A p \in 0 .. Len(s) : F[p] = RestAt(s, q, r, F, p) /\ F[p] \in Seq(Chars)
  BY RestIs
<1>. HIDE DEF F
<1>3. b \in S
  <2>1. SubSeq(s, b + 1, b) = <<>>
    BY <1>1, SubSeqEmpty
  <2>. QED
    BY <1>1, <1>2, <2>1, ConcatEmptySeq
<1>4. ASSUME NEW m \in 1 .. b, \A k \in m .. b : k \in S PROVE m - 1 \in S
  <2>1. SUFFICES ASSUME m - 1 >= a PROVE Keeps(m - 1)
    <3>. HIDE DEF Keeps
    <3>. QED
      BY <1>1
  <2>2. /\ m - 1 \in a .. b - 1 /\ m - 1 \in 0 .. Len(s) /\ m - 1 # Len(s)
        /\ (m - 1) + 1 = m /\ m \in 1 .. Len(s)
    BY <1>1, <2>1
  <2>3. F[m - 1] = <<s[m]>> \o F[m]
    BY <1>2, <2>2 DEF RestAt
  <2>4. Keeps(m)
    <3>. HIDE DEF Keeps
    <3>. QED
      BY <1>1, <1>4, <2>1
  <2>5. SubSeq(s, m, b) = <<s[m]>> \o SubSeq(s, m + 1, b)
    BY <1>1, <2>2, SubSeqRecursiveFirst
  <2>6. /\ <<s[m]>> \in Seq(Chars) /\ F[b] \in Seq(Chars)
        /\ SubSeq(s, m + 1, b) \in Seq(Chars)
    <3>1. \A i \in m + 1 .. b : s[i] \in Chars
      BY <1>1
    <3>. QED
      BY <1>1, <1>2, <2>2, <3>1, SubSeqProperties
  <2>7. F[m - 1] = SubSeq(s, m, b) \o F[b]
    <3>1. <<s[m]>> \o (SubSeq(s, m + 1, b) \o F[b]) = (<<s[m]>> \o SubSeq(s, m + 1, b)) \o F[b]
      <4>1. SubSeq(s, m + 1, b) \in Seq(Chars)
        BY <2>6, Zenon
      <4>2. <<s[m]>> \in Seq(Chars)
        BY <2>6, Zenon
      <4>3. F[b] \in Seq(Chars)
        BY <2>6, Zenon
      <4>. QED
        BY <4>1, <4>2, <4>3, Regroup, Zenon
    <3>2. F[m] = SubSeq(s, m + 1, b) \o F[b]
      BY <2>4
    <3>. QED
      BY <2>3, <2>5, <3>1, <3>2, Zenon
  <2>. QED
    BY <2>2, <2>7
<1>5. Keeps(a)
  <2>. HIDE DEF S, Keeps
  <2>1. \A k \in 0 .. b : k \in S
    BY <1>1, <1>3, <1>4, FromTheEnd
  <2>. QED
    BY <1>1, <2>1 DEF S
<1>. QED
  BY <1>5 DEF F

-----------------------------------------------------------------------------
LEMMA ReplaceStart == Init => ReplaceInv
<1>. SUFFICES ASSUME Init PROVE ReplaceInv
  OBVIOUS
<1>1. SplitInv
  BY SplitTyped DEF Init
<1>2. /\ str \in Texts /\ seq \in Separators /\ replacement \in Replacements
      /\ add_empty /\ rv = <<>> /\ pieces = <<>> /\ out = <<>> /\ it = 0 /\ outcome = "none"
      /\ start_pos = 0 /\ ~returned
  BY DEF Init, SplitInit
<1>3. /\ str \in Seq(Chars) /\ seq \in Seq(Chars) /\ replacement \in Seq(Chars)
      /\ Len(str) \in Nat /\ Len(seq) \in Nat /\ Len(replacement) \in Nat
  BY <1>2, SplitAssumption, ReplaceAssumption
<1>4. SizeIsKnown
  <2>1. Replaced = Rest(0)
    BY DEF Replaced, Rest
  <2>2. Replaced \in Seq(Chars)
    BY <1>3, RestIs DEF Replaced
  <2>3. Len(Replaced) \in Nat
    BY <2>2
  <2>. QED
    BY <1>2, <1>3, <2>1, <2>3 DEF SizeIsKnown, Gain
<1>5. JoinsInOrder /\ ReturnsReplaced
  BY <1>2 DEF JoinsInOrder, ReturnsReplaced
<1>. QED
  BY <1>1, <1>2, <1>4, <1>5 DEF ReplaceInv

\* What the invariant says about types.
LEMMA ReplaceTypes ==
  ASSUME ReplaceInv
  PROVE  /\ str \in Seq(Chars) /\ seq \in Seq(Chars) /\ replacement \in Seq(Chars)
         /\ Len(str) \in Nat /\ Len(seq) \in Nat /\ Len(replacement) \in Nat
         /\ Gain \in Int /\ start_pos \in Nat /\ start_pos \in 0 .. Len(str)
         /\ pieces \in Seq(Views) /\ Len(pieces) \in Nat
         /\ \A k \in 1 .. Len(pieces) : pieces[k] \in Views
         /\ seq # <<>> => Len(seq) > 0
         /\ Replaced \in Seq(Chars) /\ Len(Replaced) \in Nat
         /\ \A p \in 0 .. Len(str) : Rest(p) \in Seq(Chars) /\ Len(Rest(p)) \in Nat
<1>1. /\ str \in Seq(Chars) /\ seq \in Seq(Chars) /\ replacement \in Seq(Chars)
      /\ start_pos \in 0 .. Len(str) /\ pieces \in Seq(Views)
  BY ReplaceAssumption DEF ReplaceInv, SplitInv, SplitTypeOK, Views
<1>2. /\ Len(str) \in Nat /\ Len(seq) \in Nat /\ Len(replacement) \in Nat
      /\ Gain \in Int /\ start_pos \in Nat /\ (seq # <<>> => Len(seq) > 0)
  BY <1>1 DEF Gain
<1>3. \A p \in 0 .. Len(str) : Rest(p) \in Seq(Chars)
  BY <1>1, RestIs DEF Rest
<1>4. Replaced \in Seq(Chars)
  BY <1>2, <1>3 DEF Replaced, Rest
<1>5. Len(pieces) \in Nat /\ \A k \in 1 .. Len(pieces) : pieces[k] \in Views
  <2>. HIDE DEF Views
  <2>. QED
    BY <1>1
<1>. QED
  BY <1>1, <1>2, <1>3, <1>4, <1>5

\* What is left of the result as long as seq does not occur, and where it does.
LEMMA RestOfPiece ==
  ASSUME ReplaceInv, NEW b \in 0 .. Len(str), NEW a \in 0 .. b,
         seq = <<>> \/ \A p \in a .. b - 1 : ~OccursAt(p)
  PROVE  /\ Rest(a) = SubSeq(str, a + 1, b) \o Rest(b)
         /\ SubSeq(str, a + 1, b) \in Seq(Chars)
         /\ Len(Rest(a)) = (b - a) + Len(Rest(b))
<1>1. str \in Seq(Chars) /\ seq \in Seq(Chars) /\ replacement \in Seq(Chars) /\ Len(str) \in Nat
  BY ReplaceTypes
<1>2. \A p \in a .. b - 1 : ~Begins(str, seq, p)
  BY DEF Begins, OccursAt
<1>3. Rest(a) = SubSeq(str, a + 1, b) \o Rest(b)
  BY <1>1, <1>2, RestKeeps DEF Rest
<1>4. SubSeq(str, a + 1, b) \in Seq(Chars) /\ Len(SubSeq(str, a + 1, b)) = b - a
  <2>1. \A i \in a + 1 .. b : str[i] \in Chars
    BY <1>1
  <2>. QED
    BY <1>1, <2>1, SubSeqProperties
<1>5. Rest(b) \in Seq(Chars)
  BY ReplaceTypes
<1>6. Len(SubSeq(str, a + 1, b) \o Rest(b)) = (b - a) + Len(Rest(b))
  BY <1>4, <1>5, ConcatProperties
<1>. QED
  BY <1>3, <1>4, <1>6

LEMMA RestOfOccurrence ==
  ASSUME ReplaceInv, NEW p \in 0 .. Len(str), seq # <<>>, OccursAt(p)
  PROVE  /\ Rest(p) = replacement \o Rest(p + Len(seq))
         /\ p + Len(seq) \in 0 .. Len(str)
         /\ Len(Rest(p)) = Len(replacement) + Len(Rest(p + Len(seq)))
<1>1. str \in Seq(Chars) /\ seq \in Seq(Chars) /\ replacement \in Seq(Chars)
  BY ReplaceTypes
<1>2. Begins(str, seq, p)
  BY DEF Begins, OccursAt
<1>3. Rest(p) = replacement \o Rest(p + Len(seq)) /\ p + Len(seq) \in 0 .. Len(str)
  BY <1>1, <1>2, RestReplaces DEF Rest
<1>4. Rest(p + Len(seq)) \in Seq(Chars)
  BY <1>3, ReplaceTypes
<1>5. Len(replacement \o Rest(p + Len(seq))) = Len(replacement) + Len(Rest(p + Len(seq)))
  BY <1>1, <1>4, ConcatProperties
<1>. QED
  BY <1>3, <1>5

LEMMA RestAtEnd == ReplaceInv => Rest(Len(str)) = <<>>
<1>. SUFFICES ASSUME ReplaceInv PROVE Rest(Len(str)) = <<>>
  OBVIOUS
<1>1. str \in Seq(Chars) /\ seq \in Seq(Chars) /\ replacement \in Seq(Chars)
      /\ Len(str) \in 0 .. Len(str)
  BY ReplaceTypes
<1>2. Rest(Len(str)) = RestAt(str, seq, replacement, ReplacedFrom(str, seq, replacement), Len(str))
  BY <1>1, RestIs DEF Rest
<1>. QED
  BY <1>2 DEF RestAt

-----------------------------------------------------------------------------
\* While the string is cut, the size of the result stays known.
LEMMA SizeKept ==
  ASSUME ReplaceInv, SplitNext, UNCHANGED joinVars
  PROVE  SizeIsKnown' /\ rv' = pieces' /\ (seq = <<>> => Len(pieces') <= 1)
<1>1. /\ Len(str) \in Nat /\ Len(seq) \in Nat /\ Len(replacement) \in Nat
      /\ Gain \in Int /\ start_pos \in 0 .. Len(str) /\ start_pos \in Nat
      /\ Len(pieces) \in Nat /\ Len(Replaced) \in Nat /\ (seq # <<>> => Len(seq) > 0)
      /\ \A p \in 0 .. Len(str) : Len(Rest(p)) \in Nat
  BY ReplaceTypes
<1>2. str' = str /\ seq' = seq /\ replacement' = replacement /\ add_empty /\ rv = pieces
  BY DEF SplitNext, ReturnWhole, CutAtNext, ReturnRest, joinVars, ReplaceInv
<1>3. Replaced' = Replaced /\ Gain' = Gain /\ \A p : Rest(p)' = Rest(p)
  BY <1>2 DEF Replaced, Gain, Rest
<1>4. ~returned
        => Len(Replaced) = start_pos + Gain * Len(pieces) + Len(Rest(start_pos))
  BY DEF ReplaceInv, SizeIsKnown
<1>5. Rest(Len(str)) = <<>>
  BY RestAtEnd
<1>6. \A from, length : Add(from, length) =>
         Len(pieces') = Len(pieces) + 1 /\ rv' = pieces'
  <2>1. ASSUME NEW from, NEW length, Add(from, length)
        PROVE  pieces' = Append(pieces, Piece(from, length)) /\ rv' = Append(rv, Piece(from, length))
    BY <1>2, <2>1 DEF Add
  <2>2. \A x : Len(Append(pieces, x)) = Len(pieces) + 1
    BY ReplaceTypes
  <2>. QED
    BY <1>2, <2>1, <2>2
<1>7. CASE ReturnWhole
  <2>1. rv' = <<Piece(0, Len(str))>> /\ pieces' = rv' /\ returned' /\ ~returned /\ seq = <<>>
    BY <1>7 DEF ReturnWhole
  <2>2. Len(pieces') = 1
    BY <2>1
  <2>3. pieces = <<>> /\ start_pos = 0
    BY <2>1 DEF ReplaceInv, SplitInv, StartIsNext
  <2>4. Len(Rest(0)) = (Len(str) - 0) + Len(Rest(Len(str)))
    <3>1. PICK b \in 0 .. Len(str) : b = Len(str)
      BY <1>1
    <3>2. 0 \in 0 .. b
      BY <1>1, <3>1
    <3>3. Len(Rest(0)) = (b - 0) + Len(Rest(b))
      BY <2>1, <3>2, RestOfPiece
    <3>. QED
      BY <3>1, <3>3
  <2>5. Len(Replaced) = Len(str)
    BY <1>1, <1>4, <1>5, <2>1, <2>3, <2>4
  <2>. QED
    BY <1>1, <1>2, <1>3, <2>1, <2>2, <2>5 DEF SizeIsKnown
<1>8. CASE CutAtNext
  <2>1. PICK p \in start_pos .. Len(str) :
          IsFirst(p) /\ Add(start_pos, p - start_pos) /\ start_pos' = p + Len(seq)
    BY <1>8 DEF CutAtNext
  <2>2. ~returned /\ ~returned' /\ seq # <<>>
    BY <1>8 DEF CutAtNext
  <2>3. p \in 0 .. Len(str) /\ start_pos \in 0 .. p /\ OccursAt(p)
        /\ \A r \in start_pos .. p - 1 : ~OccursAt(r)
    BY <1>1, <2>1 DEF IsFirst
  <2>4. Len(Rest(start_pos)) = (p - start_pos) + Len(Rest(p))
    BY <2>3, RestOfPiece
  <2>5. /\ Len(Rest(p)) = Len(replacement) + Len(Rest(p + Len(seq)))
        /\ p + Len(seq) \in 0 .. Len(str)
    BY <2>2, <2>3, RestOfOccurrence
  <2>6. Len(pieces') = Len(pieces) + 1 /\ rv' = pieces'
    BY <1>6, <2>1
  <2>7. Len(Replaced) = (p + Len(seq)) + Gain * (Len(pieces) + 1) + Len(Rest(p + Len(seq)))
    <3>1. Gain * (Len(pieces) + 1) = Gain * Len(pieces) + Gain /\ Gain * Len(pieces) \in Int
      BY <1>1
    <3>2. Gain = Len(replacement) - Len(seq)
      BY DEF Gain
    <3>. HIDE DEF Gain
    <3>. QED
      BY <1>1, <1>4, <2>2, <2>3, <2>4, <2>5, <3>1, <3>2
  <2>. QED
    BY <1>2, <1>3, <2>1, <2>2, <2>6, <2>7 DEF SizeIsKnown
<1>9. CASE ReturnRest
  <2>1. ~returned /\ returned' /\ seq # <<>> /\ Add(start_pos, Len(str) - start_pos)
        /\ (start_pos < Len(str) => NotFound)
    BY <1>9 DEF ReturnRest
  <2>2. \A p \in start_pos .. Len(str) - 1 : ~OccursAt(p)
    BY <1>1, <2>1 DEF NotFound
  <2>3. Len(Rest(start_pos)) = (Len(str) - start_pos) + Len(Rest(Len(str)))
    <3>1. PICK b \in 0 .. Len(str) : b = Len(str)
      BY <1>1
    <3>2. start_pos \in 0 .. b
      BY <1>1, <3>1
    <3>3. Len(Rest(start_pos)) = (b - start_pos) + Len(Rest(b))
      BY <2>2, <3>1, <3>2, RestOfPiece
    <3>. QED
      BY <3>1, <3>3
  <2>4. Len(pieces') = Len(pieces) + 1 /\ rv' = pieces'
    BY <1>6, <2>1
  <2>5. Gain * Len(pieces) \in Int /\ (Len(pieces) + 1) - 1 = Len(pieces)
    BY <1>1
  <2>6. Len(Replaced) = Len(str) + Gain * Len(pieces)
    BY <1>1, <1>4, <1>5, <2>1, <2>3, <2>5
  <2>. QED
    BY <1>2, <1>3, <2>1, <2>4, <2>5, <2>6 DEF SizeIsKnown
<1>. QED
  BY <1>7, <1>8, <1>9 DEF SplitNext

LEMMA SplitStepKeeps ==
  ASSUME ReplaceInv, SplitStep
  PROVE  ReplaceInv'
<1>1. SplitInv'
  BY SplitKeeps DEF ReplaceInv, SplitStep
<1>2. SizeIsKnown' /\ rv' = pieces' /\ (seq = <<>> => Len(pieces') <= 1)
  BY SizeKept DEF SplitStep
<1>3. /\ str' = str /\ seq' = seq /\ add_empty' = add_empty /\ ~returned
      /\ replacement' = replacement /\ out' = out /\ it' = it /\ outcome' = outcome
  BY DEF SplitStep, SplitNext, ReturnWhole, CutAtNext, ReturnRest, joinVars
<1>4. it = 0 /\ outcome = "none"
  BY <1>3 DEF ReplaceInv, JoinsInOrder
<1>5. Len(pieces') \in Nat
  BY <1>1 DEF SplitInv, SplitTypeOK
<1>6. JoinsInOrder' /\ ReturnsReplaced'
  BY <1>3, <1>4 DEF ReplaceInv, JoinsInOrder, ReturnsReplaced
<1>. QED
  BY <1>1, <1>2, <1>3, <1>4, <1>5, <1>6 DEF ReplaceInv

-----------------------------------------------------------------------------
\* The pieces as they are joined: each starts and ends in the string and contains no
\* seq, and behind every one but the last seq follows.
LEMMA PieceFacts ==
  ASSUME ReplaceInv, NEW k \in 1 .. Len(pieces)
  PROVE  /\ pieces[k].from \in 0 .. End(pieces[k])
         /\ Characters(pieces[k]) = SubSeq(str, pieces[k].from + 1, End(pieces[k]))
         /\ seq = <<>> \/ \A p \in pieces[k].from .. End(pieces[k]) - 1 : ~OccursAt(p)
         /\ k < Len(pieces) => /\ seq # <<>> /\ OccursAt(End(pieces[k]))
                               /\ End(pieces[k]) \in 0 .. Len(str)
                               /\ pieces[k + 1].from = End(pieces[k]) + Len(seq)
         /\ returned /\ k = Len(pieces) => End(pieces[k]) = Len(str)
<1>1. /\ Len(pieces) \in Nat /\ pieces[k] \in Views /\ Len(str) \in Nat /\ Len(seq) \in Nat
  BY ReplaceTypes
<1>2. pieces[k].from \in Nat /\ pieces[k].length \in Nat
  BY <1>1 DEF Views
<1>3. pieces[k].from \in 0 .. End(pieces[k]) /\ End(pieces[k]) \in Nat
  BY <1>2 DEF End
<1>4. Characters(pieces[k]) = SubSeq(str, pieces[k].from + 1, End(pieces[k]))
  BY DEF Characters, End
<1>5. seq = <<>> \/ \A p \in pieces[k].from .. End(pieces[k]) - 1 : ~OccursAt(p)
  BY DEF ReplaceInv, SplitInv, CutsAreFirst
<1>6. ASSUME k < Len(pieces)
      PROVE  /\ seq # <<>> /\ OccursAt(End(pieces[k])) /\ End(pieces[k]) \in 0 .. Len(str)
             /\ pieces[k + 1].from = End(pieces[k]) + Len(seq)
  <2>1. k \in 1 .. Len(pieces) - 1
    BY <1>1, <1>6
  <2>2. seq # <<>>
    BY <1>1, <1>6 DEF ReplaceInv
  <2>3. OccursAt(End(pieces[k])) /\ pieces[k + 1].from = End(pieces[k]) + Len(seq)
    BY <2>1 DEF ReplaceInv, SplitInv, Tiles
  <2>4. End(pieces[k]) <= Len(str)
    BY <1>1, <1>3, <2>3 DEF OccursAt
  <2>. QED
    BY <1>1, <1>3, <2>2, <2>3, <2>4
<1>7. returned => End(pieces[Len(pieces)]) = Len(str)
  BY DEF ReplaceInv, SplitInv, Tiles
<1>. QED
  BY <1>3, <1>4, <1>5, <1>6, <1>7

\* The steps that leave the pieces alone keep what is said of them.
LEMMA PiecesStay ==
  ASSUME ReplaceInv, UNCHANGED splitVars, replacement' = replacement
  PROVE  /\ SplitInv' /\ SizeIsKnown'
         /\ Replaced' = Replaced /\ (\A p : Rest(p)' = Rest(p)) /\ Capacity' = Capacity
         /\ UNCHANGED <<str, seq, add_empty, start_pos, rv, pieces, returned>>
<1>1. UNCHANGED <<str, seq, add_empty, start_pos, rv, pieces, returned>>
  BY DEF splitVars
<1>2. Replaced' = Replaced /\ Gain' = Gain /\ (\A p : Rest(p)' = Rest(p)) /\ Capacity' = Capacity
  BY <1>1 DEF Replaced, Gain, Rest, Capacity
<1>3. SplitInv'
  BY SplitKeeps DEF ReplaceInv
<1>4. SizeIsKnown'
  BY <1>1, <1>2 DEF ReplaceInv, SizeIsKnown
<1>. QED
  BY <1>1, <1>2, <1>3, <1>4

LEMMA ReserveKeeps ==
  ASSUME ReplaceInv, Reserve
  PROVE  ReplaceInv'
<1>1. UNCHANGED splitVars /\ replacement' = replacement /\ out' = out /\ outcome' = outcome
      /\ it' = 1 /\ it = 0 /\ outcome = "none" /\ returned /\ Capacity <= MaxString
  BY DEF Reserve
<1>2. /\ SplitInv' /\ SizeIsKnown' /\ Replaced' = Replaced /\ (\A p : Rest(p)' = Rest(p))
      /\ Capacity' = Capacity
      /\ UNCHANGED <<str, seq, add_empty, start_pos, rv, pieces, returned>>
  BY <1>1, PiecesStay
<1>3. out = <<>> /\ pieces # <<>> /\ pieces[1].from = 0 /\ 1 \in 0 .. Len(pieces)
  <2>1. out = <<>> /\ pieces # <<>> /\ pieces[1].from = 0
    BY <1>1 DEF ReplaceInv, JoinsInOrder, SplitInv, Tiles
  <2>. QED
    BY <2>1, ReplaceTypes
<1>4. Replaced = out \o Rest(pieces[1].from)
  <2>1. Replaced = Rest(0) /\ Rest(0) \in Seq(Chars)
    BY ReplaceTypes DEF Replaced, Rest
  <2>2. <<>> \o Rest(0) = Rest(0)
    BY <2>1, ConcatEmptySeq
  <2>. QED
    BY <1>3, <2>1, <2>2
<1>5. JoinsInOrder'
  BY <1>1, <1>2, <1>4 DEF JoinsInOrder
<1>. QED
  BY <1>1, <1>2, <1>3, <1>5 DEF ReplaceInv, ReturnsReplaced

LEMMA ReserveThrowsKeeps ==
  ASSUME ReplaceInv, ReserveThrows
  PROVE  ReplaceInv'
<1>1. UNCHANGED splitVars /\ replacement' = replacement /\ out' = out /\ outcome' = "threw"
      /\ it' = it /\ it = 0 /\ returned /\ Capacity > MaxString
  BY DEF ReserveThrows
<1>2. /\ SplitInv' /\ SizeIsKnown' /\ Capacity' = Capacity
      /\ UNCHANGED <<str, seq, add_empty, start_pos, rv, pieces, returned>>
  BY <1>1, PiecesStay
<1>3. JoinsInOrder' /\ ReturnsReplaced'
  BY <1>1, <1>2 DEF ReplaceInv, JoinsInOrder, ReturnsReplaced
<1>. QED
  BY <1>1, <1>2, <1>3 DEF ReplaceInv

LEMMA AppendPieceKeeps ==
  ASSUME ReplaceInv, AppendPiece
  PROVE  ReplaceInv'
<1>1. /\ UNCHANGED splitVars /\ replacement' = replacement /\ outcome' = outcome
      /\ outcome = "none" /\ rv = pieces /\ it \in 1 .. Len(pieces) - 1 /\ it' = it + 1
      /\ out' = out \o Characters(pieces[it]) \o replacement
  BY DEF AppendPiece, ReplaceInv
<1>2. /\ SplitInv' /\ SizeIsKnown' /\ Replaced' = Replaced /\ (\A p : Rest(p)' = Rest(p))
      /\ Capacity' = Capacity
      /\ UNCHANGED <<str, seq, add_empty, start_pos, rv, pieces, returned>>
  BY <1>1, PiecesStay
<1>3. /\ Len(pieces) \in Nat /\ it \in 1 .. Len(pieces) /\ it < Len(pieces)
      /\ out \in Seq(Chars) /\ replacement \in Seq(Chars)
  BY <1>1, ReplaceTypes DEF ReplaceInv
<1>. DEFINE a == pieces[it].from
            e == End(pieces[it])
            v == Characters(pieces[it])
            w == Rest(e + Len(seq))
<1>4. /\ a \in 0 .. e /\ e \in 0 .. Len(str) /\ v = SubSeq(str, a + 1, e)
      /\ seq = <<>> \/ \A p \in a .. e - 1 : ~OccursAt(p)
      /\ seq # <<>> /\ OccursAt(e) /\ pieces[it + 1].from = e + Len(seq)
  BY <1>3, PieceFacts
<1>5. Replaced = out \o Rest(a)
  BY <1>1 DEF ReplaceInv, JoinsInOrder
<1>. HIDE DEF a, e, v
<1>6. Rest(a) = v \o Rest(e) /\ v \in Seq(Chars)
  BY <1>4, RestOfPiece
<1>7. Rest(e) = replacement \o w /\ w \in Seq(Chars)
  BY <1>4, RestOfOccurrence, ReplaceTypes
<1>. HIDE DEF w
<1>8. out' \in Seq(Chars) /\ Replaced = out' \o w
  <2>1. out \o (v \o (replacement \o w)) = ((out \o v) \o replacement) \o w
        /\ (out \o v) \o replacement \in Seq(Chars)
    <3>1. /\ replacement \o w \in Seq(Chars) /\ out \o v \in Seq(Chars)
          /\ (out \o v) \o replacement \in Seq(Chars)
      BY <1>3, <1>6, <1>7, ConcatProperties
    <3>2. out \o (v \o (replacement \o w)) = (out \o v) \o (replacement \o w)
      BY <1>3, <1>6, <3>1, Regroup, Zenon
    <3>3. (out \o v) \o (replacement \o w) = ((out \o v) \o replacement) \o w
      BY <1>3, <1>7, <3>1, Regroup, Zenon
    <3>. QED
      BY <3>1, <3>2, <3>3, Zenon
  <2>2. out' = (out \o v) \o replacement
    BY <1>1 DEF v
  <2>. QED
    BY <1>5, <1>6, <1>7, <2>1, <2>2
<1>9. JoinsInOrder'
  <2>1. w = Rest(pieces[it + 1].from)
    BY <1>4 DEF w
  <2>2. Replaced' = out' \o Rest(pieces[it].from)'
    BY <1>1, <1>2, <1>8, <2>1
  <2>3. it > 0 /\ it' > 0 /\ it' # 0
    BY <1>1
  <2>. QED
    BY <1>1, <1>2, <2>2, <2>3 DEF ReplaceInv, JoinsInOrder
<1>10. it' \in 0 .. Len(pieces)
  BY <1>1, <1>3
<1>. QED
  BY <1>1, <1>2, <1>8, <1>9, <1>10 DEF ReplaceInv, ReturnsReplaced

LEMMA AppendLastKeeps ==
  ASSUME ReplaceInv, AppendLast
  PROVE  ReplaceInv'
<1>1. /\ UNCHANGED splitVars /\ replacement' = replacement /\ outcome' = "returned"
      /\ outcome = "none" /\ rv = pieces /\ it > 0 /\ it = Len(pieces) /\ it' = it
      /\ out' = out \o Characters(pieces[it])
  BY DEF AppendLast, ReplaceInv
<1>2. /\ SplitInv' /\ SizeIsKnown' /\ Replaced' = Replaced /\ Capacity' = Capacity
      /\ UNCHANGED <<str, seq, add_empty, start_pos, rv, pieces, returned>>
  BY <1>1, PiecesStay
<1>3. /\ Len(pieces) \in Nat /\ it \in 1 .. Len(pieces) /\ out \in Seq(Chars) /\ returned
      /\ Len(str) \in 0 .. Len(str)
  BY <1>1, ReplaceTypes DEF ReplaceInv, JoinsInOrder
<1>. DEFINE a == pieces[it].from
            e == End(pieces[it])
            v == Characters(pieces[it])
<1>4. /\ a \in 0 .. e /\ e = Len(str) /\ v = SubSeq(str, a + 1, e)
      /\ seq = <<>> \/ \A p \in a .. e - 1 : ~OccursAt(p)
  BY <1>1, <1>3, PieceFacts
<1>5. Replaced = out \o Rest(a)
  BY <1>1 DEF ReplaceInv, JoinsInOrder
<1>. HIDE DEF a, e, v
<1>6. Rest(a) = v \o Rest(e) /\ v \in Seq(Chars)
  BY <1>3, <1>4, RestOfPiece
<1>7. Rest(a) = v
  BY <1>4, <1>6, RestAtEnd, ConcatEmptySeq
<1>8. out' = Replaced /\ out' \in Seq(Chars)
  BY <1>1, <1>3, <1>5, <1>6, <1>7, ConcatProperties DEF v
<1>9. JoinsInOrder' /\ ReturnsReplaced'
  BY <1>1, <1>2, <1>8 DEF ReplaceInv, JoinsInOrder, ReturnsReplaced
<1>. QED
  BY <1>1, <1>2, <1>8, <1>9 DEF ReplaceInv

LEMMA ReplaceKeeps == ReplaceInv /\ [Next]_vars => ReplaceInv'
<1>. SUFFICES ASSUME ReplaceInv, [Next]_vars PROVE ReplaceInv'
  OBVIOUS
<1>1. CASE UNCHANGED vars
  <2>1. UNCHANGED splitVars /\ UNCHANGED joinVars
    BY <1>1 DEF vars
  <2>2. UNCHANGED <<replacement, out, it, outcome>>
    BY <2>1 DEF joinVars
  <2>3. /\ SplitInv' /\ SizeIsKnown' /\ Replaced' = Replaced /\ (\A p : Rest(p)' = Rest(p))
        /\ Capacity' = Capacity
        /\ UNCHANGED <<str, seq, add_empty, start_pos, rv, pieces, returned>>
    BY <2>1, <2>2, PiecesStay
  <2>4. JoinsInOrder' /\ ReturnsReplaced'
    BY <2>2, <2>3 DEF ReplaceInv, JoinsInOrder, ReturnsReplaced
  <2>. QED
    BY <2>2, <2>3, <2>4 DEF ReplaceInv
<1>. QED
  BY <1>1, SplitStepKeeps, ReserveKeeps, ReserveThrowsKeeps, AppendPieceKeeps, AppendLastKeeps
     DEF Next

\* The inductive invariant of replace.
THEOREM ReplaceCorrect == Spec => []ReplaceInv
  BY ReplaceStart, ReplaceKeeps, PTL DEF Spec

\* What replace returns is the string with every occurrence replaced.
THEOREM ReplacesAll == Spec => []ReturnsReplaced
<1>1. ReplaceInv => ReturnsReplaced
  BY DEF ReplaceInv
<1>. QED
  BY <1>1, ReplaceCorrect, PTL

-----------------------------------------------------------------------------
\* A number modulo WordSize is the number, or, if it is negative, WordSize more.
LEMMA WrapsOnce ==
  ASSUME NEW n \in Nat, n > 0, NEW x \in Int
  PROVE  /\ 0 <= x /\ x < n => x % n = x
         /\ -n < x /\ x < 0 => x % n = x + n
BY SMT

\* replace throws for results that are shorter than seq is longer than the
\* replacement, and of those that fit for no others.
THEOREM ThrowsWhenShort == Spec => []ThrowsForShortResults
<1>1. ReplaceInv => ThrowsForShortResults
  <2>. DEFINE x == Len(Replaced) + Gain
  <2>1. SUFFICES ASSUME ReplaceInv, outcome # "none",
                        Len(Replaced) + Len(replacement) <= MaxString + Len(seq)
                 PROVE  outcome = "threw" <=> Len(Replaced) + Len(replacement) < Len(seq)
    BY DEF ThrowsForShortResults
  <2>2. /\ Len(replacement) \in Nat /\ Len(seq) \in Nat /\ Len(str) \in Nat
        /\ Len(Replaced) \in Nat /\ Gain \in Int /\ Len(pieces) \in Nat
    BY <2>1, ReplaceTypes
  <2>3. /\ WordSize \in Nat /\ MaxString \in Nat /\ 2 * MaxString < WordSize
        /\ Len(seq) <= MaxString
    BY <2>1, ReplaceAssumption DEF ReplaceInv
  <2>4. returned /\ (outcome = "returned" => Capacity <= MaxString)
                 /\ (outcome = "threw" => Capacity > MaxString)
    BY <2>1 DEF ReplaceInv, JoinsInOrder
  <2>5. x \in Int /\ x >= -MaxString /\ x <= MaxString
        /\ (x < 0 <=> Len(Replaced) + Len(replacement) < Len(seq))
    BY <2>1, <2>2, <2>3 DEF Gain
  <2>6. x = Len(str) + Gain * Len(pieces)
    <3>1. Len(Replaced) = Len(str) + Gain * (Len(pieces) - 1)
      BY <2>1, <2>4 DEF ReplaceInv, SizeIsKnown
    <3>2. Gain * (Len(pieces) - 1) = Gain * Len(pieces) - Gain /\ Gain * Len(pieces) \in Int
      BY <2>2
    <3>. QED
      BY <2>2, <3>1, <3>2
  <2>7. Capacity = x % WordSize
    BY <2>1, <2>6 DEF Capacity, Gain, ReplaceInv
  <2>. HIDE DEF x
  <2>8. (x < 0 => Capacity > MaxString) /\ (x >= 0 => Capacity <= MaxString)
    BY <2>3, <2>5, <2>7, WrapsOnce
  <2>9. outcome \in {"returned", "threw"} /\ Capacity \in Int
    BY <2>1, <2>3, <2>5, <2>7 DEF ReplaceInv
  <2>. QED
    BY <2>3, <2>4, <2>5, <2>8, <2>9
<1>. QED
  BY <1>1, ReplaceCorrect, PTL

-----------------------------------------------------------------------------
View == [from : Nat, length : Nat]

\* Sorting gives a list of the same kind, without a separator before a lesser one.
LEMMA SortedIsList ==
  ASSUME NEW list \in Seq(Seq(Nat)), NEW sorted \in Sorted(list)
  PROVE  /\ sorted \in Seq(Seq(Nat))
         /\ \A i, j \in DOMAIN sorted : i < j => ~Less(sorted[j], sorted[i])
<1>1. PICK p \in [DOMAIN list -> DOMAIN list] : sorted = [i \in DOMAIN list |-> list[p[i]]]
  BY DEF Sorted
<1>3. /\ Len(list) \in Nat /\ DOMAIN list = 1 .. Len(list)
      /\ \A i \in DOMAIN list : list[i] \in Seq(Nat)
  OBVIOUS
<1> DEFINE Str == Seq(Nat)
<1>4. sorted \in [1 .. Len(list) -> Str]
  BY <1>1, <1>3
<1>5. sorted \in Seq(Str) /\ DOMAIN sorted = DOMAIN list
  <2> HIDE DEF Str
  <2>1. Seq(Str) = UNION {[1 .. n -> Str] : n \in Nat}
    BY SeqDef
  <2> QED
    BY <1>3, <1>4, <2>1
<1> QED
  BY <1>5 DEF Sorted

LEMMA MultipleStart == MultipleInit => MultipleInv
<1> SUFFICES ASSUME MultipleInit PROVE MultipleInv
  OBVIOUS
<1>1. PICK list \in SeparatorLists : seps \in IF ordered THEN Sorted(list) ELSE {list}
  BY DEF MultipleInit
<1>2. list \in Seq(Seq(Nat)) /\ to_split \in Seq(Nat)
  BY MultipleAssumption DEF MultipleInit
<1>3. /\ seps \in Seq(Seq(Nat))
      /\ ordered => \A i, j \in DOMAIN seps : i < j => ~Less(seps[j], seps[i])
  <2>1. CASE ordered
    BY <1>1, <1>2, <2>1, SortedIsList
  <2>2. CASE ~ordered
    BY <1>1, <1>2, <2>2
  <2> QED
    BY <2>1, <2>2
<1>4. words = <<>> /\ cuts = <<>> /\ start = 0 /\ current = 0 /\ finished = FALSE
  BY DEF MultipleInit
<1>5. MultipleTypeOK
  <2>1. words \in Seq([from : Nat, length : Nat]) /\ cuts \in Seq(Seq(Nat))
    BY <1>4, EmptySeq
  <2>2. ordered \in BOOLEAN
    BY DEF MultipleInit
  <2> QED
    BY <1>2, <1>3, <1>4, <2>1, <2>2 DEF MultipleTypeOK
<1>6. MultipleTiles
  BY <1>2, <1>4 DEF MultipleTiles
<1>7. CutsAtSeparators /\ NoneBegins(start, current)
  BY <1>4 DEF CutsAtSeparators, NoneBegins
<1> QED
  BY <1>4, <1>5, <1>6, <1>7 DEF MultipleInv

-----------------------------------------------------------------------------
\* A separator of the list, as MultipleTypeOK describes it.
LEMMA SeparatorsAreStrings ==
  ASSUME MultipleTypeOK
  PROVE  /\ \A i \in DOMAIN seps : seps[i] \in Seq(Nat) /\ Len(seps[i]) \in Nat
         /\ DOMAIN seps \subseteq Nat
         /\ Len(to_split) \in Nat
         /\ \A s \in Separator : s \in Seq(Nat) /\ Len(s) \in Nat /\ Len(s) > 0
BY DEF MultipleTypeOK, Separator

\* Who begins here is among the candidates.
LEMMA BeginsIsCandidate ==
  ASSUME MultipleTypeOK, NEW i \in DOMAIN seps, seps[i] # <<>>, starts_with(current, seps[i])
  PROVE  i \in candidates
<1>1. seps[i] \in Seq(Nat) /\ Len(seps[i]) \in Nat /\ Len(seps[i]) > 0
  BY DEF MultipleTypeOK
<1>2. to_split[current + 1] = seps[i][1]
  BY <1>1 DEF starts_with
<1> QED
  BY <1>2 DEF candidates

\* Of two strings that begin at one place the shorter comes first.
LEMMA ShorterIsLess ==
  ASSUME NEW a \in Seq(Nat), NEW b \in Seq(Nat), NEW p \in Nat,
         starts_with(p, a), starts_with(p, b), Len(a) < Len(b)
  PROVE  Less(a, b)
<1>1. Len(a) + 1 \in 1 .. Len(b)
  OBVIOUS
<1>2. \A j \in 1 .. Len(a) : a[j] = b[j]
  BY DEF starts_with
<1> QED
  BY <1>1, <1>2 DEF Less

\* A step over one character at which no separator begins.
LEMMA AdvanceKeeps ==
  ASSUME MultipleInv, Reading, Advance(1), NoneBegins(current, current + 1)
  PROVE  MultipleInv'
<1> USE DEF MultipleInv
<1>1. /\ current \in Nat /\ start \in Nat /\ Len(to_split) \in Nat
      /\ current < Len(to_split)
  BY DEF Reading, MultipleTypeOK
<1>2. MultipleTypeOK'
  BY <1>1 DEF Advance, MultipleTypeOK
<1>3. MultipleTiles'
  BY <1>1 DEF Advance, MultipleTiles, Separator, starts_with, WordEnd
<1>4. CutsAtSeparators'
  BY DEF Advance, CutsAtSeparators, NoneBegins, RightCut, Separator, starts_with, WordEnd
<1>5. NoneBegins(start, current)'
  <2>1. \A p \in start .. current : \A s \in Separator : ~starts_with(p, s)
    BY <1>1 DEF NoneBegins
  <2> QED
    BY <1>1, <2>1 DEF Advance, NoneBegins, Separator, starts_with
<1> QED
  BY <1>2, <1>3, <1>4, <1>5 DEF Advance

\* A cut at the right separator.
LEMMA CutKeeps ==
  ASSUME MultipleInv, Reading, NEW s \in Separator, Cut(s),
         starts_with(current, s), RightCut(current, s)
  PROVE  MultipleInv'
<1> USE DEF MultipleInv
<1>0. PICK n \in Nat : n = Len(cuts)
  BY DEF MultipleTypeOK
<1>1. /\ current \in Nat /\ start \in Nat /\ Len(to_split) \in Nat /\ start <= current
      /\ s \in Seq(Nat) /\ Len(s) \in Nat /\ Len(s) > 0
      /\ current + Len(s) <= Len(to_split)
  BY SeparatorsAreStrings DEF MultipleTypeOK, MultipleTiles, starts_with
<1>2. Word \in View /\ Word.from = start /\ Word.length = current - start
  BY <1>1 DEF Word, View
<1>3. words \in Seq(View) /\ cuts \in Seq(Seq(Nat)) /\ Len(cuts) = n /\ Len(words) = n
  BY <1>0 DEF Reading, MultipleTypeOK, View
<1>4. /\ words' \in Seq(View) /\ Len(words') = n + 1
      /\ words'[n + 1] = Word
      /\ \A k \in 1 .. n : words'[k] = words[k]
  <2> HIDE DEF View
  <2> QED
    BY <1>2, <1>3 DEF Cut
<1>5. /\ cuts' \in Seq(Seq(Nat)) /\ Len(cuts') = n + 1
      /\ cuts'[n + 1] = s
      /\ \A k \in 1 .. n : cuts'[k] = cuts[k]
  <2> DEFINE Str == Seq(Nat)
  <2>1. cuts \in Seq(Str) /\ s \in Str /\ cuts' = Append(cuts, s)
    BY <1>1, <1>3 DEF Cut
  <2> HIDE DEF Str
  <2>2. /\ cuts' \in Seq(Str) /\ Len(cuts') = n + 1
        /\ cuts'[n + 1] = s
        /\ \A k \in 1 .. n : cuts'[k] = cuts[k]
    BY <1>3, <2>1, AppendProperties
  <2> QED
    BY <2>2 DEF Str
<1>6. /\ DOMAIN words = 1 .. n /\ DOMAIN cuts = 1 .. n
      /\ DOMAIN words' = 1 .. n + 1 /\ DOMAIN cuts' = 1 .. n + 1
  BY <1>3, <1>4, <1>5
<1>7. WordEnd(n + 1)' = current /\ \A k \in 1 .. n : WordEnd(k)' = WordEnd(k)
  BY <1>1, <1>2, <1>4 DEF WordEnd
<1>8. /\ current' = current + Len(s) /\ start' = current' /\ ~finished'
      /\ UNCHANGED <<to_split, seps, ordered, finished>>
  BY DEF Cut, Reading
<1>9. MultipleTypeOK'
  <2>1. /\ to_split \in Seq(Nat) /\ seps \in Seq(Seq(Nat)) /\ ordered \in BOOLEAN
        /\ ordered => \A i, j \in DOMAIN seps : i < j => ~Less(seps[j], seps[i])
    BY DEF MultipleTypeOK
  <2>2. start' \in Nat /\ current' \in Nat /\ finished' \in BOOLEAN
    BY <1>1, <1>8 DEF MultipleTypeOK
  <2> QED
    BY <1>4, <1>5, <1>8, <2>1, <2>2 DEF MultipleTypeOK, View
<1>10. ASSUME NEW a, NEW b
       PROVE  /\ starts_with(a, b)' <=> starts_with(a, b)
              /\ NoneBegins(a, b)' <=> NoneBegins(a, b)
              /\ RightCut(a, b)' <=> RightCut(a, b)
  BY <1>8 DEF NoneBegins, RightCut, Separator, starts_with
<1>11. MultipleTiles'
  <2>1. \A k \in 1 .. n + 1 : cuts'[k] \in Separator' /\ starts_with(WordEnd(k), cuts[k])'
    <3>1. \A k \in 1 .. n : cuts[k] \in Separator /\ starts_with(WordEnd(k), cuts[k])
      BY <1>6 DEF MultipleTiles
    <3>2. cuts'[n + 1] \in Separator' /\ starts_with(WordEnd(n + 1), cuts[n + 1])'
      BY <1>5, <1>7, <1>8 DEF Separator, starts_with
    <3>3. ASSUME NEW k \in 1 .. n
          PROVE  cuts'[k] \in Separator' /\ starts_with(WordEnd(k), cuts[k])'
      <4>1. PICK p, c : p = WordEnd(k) /\ c = cuts[k]
        OBVIOUS
      <4>2. c \in Separator' /\ starts_with(p, c)'
        BY <1>8, <1>10, <3>1, <4>1 DEF Separator
      <4> QED
        BY <1>5, <1>7, <4>1, <4>2 DEF starts_with
    <3> QED
      BY <3>2, <3>3
  <2>2. start = IF n = 0 THEN 0 ELSE WordEnd(n) + Len(cuts[n])
    BY <1>3 DEF MultipleTiles
  <2>3. \A k \in 1 .. n + 1 :
          words'[k].from = IF k = 1 THEN 0 ELSE WordEnd(k - 1)' + Len(cuts'[k - 1])
    <3>1. \A k \in 1 .. n : words[k].from = IF k = 1 THEN 0 ELSE WordEnd(k - 1) + Len(cuts[k - 1])
      BY <1>6 DEF MultipleTiles
    <3>2. \A k \in 1 .. n :
            words'[k].from = IF k = 1 THEN 0 ELSE WordEnd(k - 1)' + Len(cuts'[k - 1])
      <4> TAKE k \in 1 .. n
      <4>1. CASE k = 1
        BY <1>4, <3>1, <4>1
      <4>2. CASE k # 1
        <5>1. k - 1 \in 1 .. n
          BY <1>3, <4>2
        <5> QED
          BY <1>4, <1>5, <1>7, <3>1, <4>2, <5>1
      <4> QED
        BY <4>1, <4>2
    <3>3. words'[n + 1].from = IF n + 1 = 1 THEN 0 ELSE WordEnd(n)' + Len(cuts'[n])
      BY <1>2, <1>3, <1>4, <1>5, <1>7, <2>2
    <3> QED
      <4> TAKE k \in 1 .. n + 1
      <4>1. CASE k \in 1 .. n
        BY <3>2, <4>1
      <4>2. CASE k = n + 1
        <5>1. k - 1 = n
          BY <4>2
        <5> QED
          BY <3>3, <4>2, <5>1
      <4> QED
        BY <4>1, <4>2
  <2>4. start' = IF cuts' = <<>> THEN 0 ELSE WordEnd(Len(cuts))' + Len(cuts'[Len(cuts')])
    BY <1>5, <1>7, <1>8 DEF WordEnd
  <2>5. 0 <= start' /\ start' <= current' /\ current' <= Len(to_split')
    BY <1>1, <1>8
  <2>6. Len(words') \in Len(cuts') .. Len(cuts') + 1
    BY <1>4, <1>5
  <2> QED
    BY <1>6, <1>8, <2>1, <2>3, <2>4, <2>5, <2>6 DEF MultipleTiles
<1>12. CutsAtSeparators'
  <2>1. \A k \in 1 .. n + 1 : NoneBegins(words[k].from, WordEnd(k))'
    <3>1. \A k \in 1 .. n : NoneBegins(words[k].from, WordEnd(k))
      BY <1>6 DEF CutsAtSeparators
    <3>2. ASSUME NEW k \in 1 .. n PROVE NoneBegins(words[k].from, WordEnd(k))'
      <4>1. PICK a, b : a = words[k].from /\ b = WordEnd(k)
        OBVIOUS
      <4>2. NoneBegins(a, b)'
        BY <1>10, <3>1, <4>1
      <4> QED
        BY <1>4, <1>7, <4>1, <4>2 DEF NoneBegins
    <3>3. NoneBegins(words[n + 1].from, WordEnd(n + 1))'
      <4>1. PICK a, b : a = start /\ b = current
        OBVIOUS
      <4>2. NoneBegins(a, b)'
        BY <1>10, <4>1
      <4> QED
        BY <1>2, <1>4, <1>7, <4>1, <4>2 DEF NoneBegins
    <3> QED
      BY <1>3, <3>2, <3>3
  <2>2. \A k \in 1 .. n + 1 : RightCut(WordEnd(k), cuts[k])'
    <3>1. \A k \in 1 .. n : RightCut(WordEnd(k), cuts[k])
      BY <1>6 DEF CutsAtSeparators
    <3>2. ASSUME NEW k \in 1 .. n PROVE RightCut(WordEnd(k), cuts[k])'
      <4>1. PICK p, c : p = WordEnd(k) /\ c = cuts[k]
        OBVIOUS
      <4>2. RightCut(p, c)'
        BY <1>10, <3>1, <4>1
      <4> QED
        BY <1>5, <1>7, <4>1, <4>2 DEF RightCut
    <3>3. RightCut(WordEnd(n + 1), cuts[n + 1])'
      <4>1. PICK p : p = current
        OBVIOUS
      <4>2. RightCut(p, s)'
        BY <1>10, <4>1
      <4> QED
        BY <1>5, <1>7, <4>1, <4>2 DEF RightCut
    <3> QED
      BY <1>3, <3>2, <3>3
  <2> QED
    BY <1>6, <2>1, <2>2 DEF CutsAtSeparators
<1>13. NoneBegins(start, current)'
  BY <1>1, <1>8 DEF NoneBegins
<1> QED
  BY <1>4, <1>5, <1>9, <1>11, <1>12, <1>13

-----------------------------------------------------------------------------
\* No match, no candidate that begins here: no separator does.
LEMMA NoneHere ==
  ASSUME MultipleInv, \A i \in candidates : ~starts_with(current, seps[i])
  PROVE  NoneBegins(current, current + 1)
<1>1. \A s \in Separator : ~starts_with(current, s)
  BY BeginsIsCandidate DEF MultipleInv, Separator
<1>2. current \in Nat
  BY DEF MultipleInv, MultipleTypeOK
<1> QED
  BY <1>1, <1>2 DEF NoneBegins

\* The character is one of the separators, and the right one.
LEMMA SingleIsRight ==
  ASSUME MultipleInv, Reading, Single
  PROVE  LET s == <<to_split[current + 1]>>
         IN s \in Separator /\ starts_with(current, s) /\ RightCut(current, s)
<1> DEFINE s == <<to_split[current + 1]>>
<1> USE DEF MultipleInv
<1>1. MultipleTypeOK /\ current \in Nat /\ current < Len(to_split) /\ Len(to_split) \in Nat
  BY DEF Reading, MultipleTypeOK
<1>2. PICK i \in candidates : Len(seps[i]) = 1
  BY DEF Single
<1>3. i \in DOMAIN seps /\ seps[i] \in Seq(Nat) /\ seps[i][1] = to_split[current + 1]
  BY <1>1, SeparatorsAreStrings DEF candidates
<1>4. seps[i] = s
  BY <1>2, <1>3
<1>5. s \in Separator
  BY <1>2, <1>3, <1>4 DEF Separator
<1>6. Len(s) = 1 /\ s[1] = to_split[current + 1]
  OBVIOUS
<1>7. starts_with(current, s)
  BY <1>1, <1>6 DEF starts_with
<1>8. \A j \in DOMAIN seps : seps[j] # <<>> => Len(seps[j]) \in Nat /\ Len(seps[j]) >= 1
  BY <1>1, SeparatorsAreStrings
<1>9. seps[i] # <<>>
  BY <1>2
<1>10. RightCut(current, s)
  <2> HIDE DEF s
  <2> QED
    BY <1>2, <1>3, <1>4, <1>6, <1>7, <1>8, <1>9 DEF RightCut
<1> QED
  BY <1>5, <1>7, <1>10

\* The first candidate that begins here is the right one: in a sorted list a shorter
\* one would come before it.
LEMMA FirstIsRight ==
  ASSUME MultipleInv, Several, NEW i \in candidates, starts_with(current, seps[i]),
         \A j \in candidates : j < i => ~starts_with(current, seps[j])
  PROVE  seps[i] \in Separator /\ RightCut(current, seps[i])
<1> USE DEF MultipleInv
<1> DEFINE Here == {j \in DOMAIN seps : seps[j] # <<>> /\ starts_with(current, seps[j])}
<1>1. /\ MultipleTypeOK /\ current \in Nat /\ i \in DOMAIN seps /\ seps[i] # <<>>
      /\ i \in Nat /\ DOMAIN seps \subseteq Nat
  BY SeparatorsAreStrings DEF MultipleTypeOK, candidates
<1>2. \A j \in Here : i <= j
  BY <1>1, BeginsIsCandidate
<1>3. ASSUME ordered, NEW j \in Here PROVE Len(seps[i]) <= Len(seps[j])
  <2>1. /\ seps[i] \in Seq(Nat) /\ seps[j] \in Seq(Nat)
        /\ Len(seps[i]) \in Nat /\ Len(seps[j]) \in Nat
    BY <1>1, SeparatorsAreStrings
  <2>2. CASE Len(seps[j]) < Len(seps[i])
    <3>1. Less(seps[j], seps[i])
      BY <1>1, <2>1, <2>2, ShorterIsLess
    <3>2. i # j
      BY <2>1, <2>2
    <3>3. i < j
      BY <1>1, <1>2, <3>2
    <3> QED
      BY <1>1, <1>3, <3>1, <3>3 DEF MultipleTypeOK
  <2> QED
    BY <2>1, <2>2
<1>4. ~ordered => \A j \in Here : Len(seps[j]) # 1
  BY <1>1, BeginsIsCandidate DEF Several, Single
<1>5. RightCut(current, seps[i])
  <2>1. CASE ordered
    BY <1>3, <2>1 DEF RightCut
  <2>2. CASE ~ordered
    BY <1>1, <1>2, <1>4, <2>2 DEF RightCut
  <2> QED
    BY <2>1, <2>2
<1> QED
  BY <1>1, <1>5 DEF Separator

\* The last word, if it is not empty.
LEMMA FinishKeeps ==
  ASSUME MultipleInv, Finish
  PROVE  MultipleInv'
<1> USE DEF MultipleInv
<1>0. PICK n \in Nat : n = Len(cuts)
  BY DEF MultipleTypeOK
<1>1. /\ current \in Nat /\ start \in Nat /\ start <= current /\ current = Len(to_split)
      /\ words \in Seq(View) /\ Len(words) = n /\ Len(cuts) = n
      /\ cuts \in Seq(Seq(Nat))
  BY <1>0 DEF Finish, MultipleTypeOK, MultipleTiles, View
<1>2. /\ finished' /\ UNCHANGED <<to_split, seps, ordered, start, current, cuts>>
  BY DEF Finish
<1>3. CASE start = current
  <2>1. words' = words
    BY <1>3 DEF Finish
  <2>2. MultipleTypeOK'
    BY <1>2, <2>1 DEF MultipleTypeOK
  <2>3. MultipleTiles'
    <3>1. /\ Len(words) \in Len(cuts) .. Len(cuts) + 1
          /\ \A k \in DOMAIN cuts : cuts[k] \in Separator /\ starts_with(WordEnd(k), cuts[k])
          /\ \A k \in DOMAIN words :
               words[k].from = IF k = 1 THEN 0 ELSE WordEnd(k - 1) + Len(cuts[k - 1])
          /\ start = IF cuts = <<>> THEN 0 ELSE WordEnd(Len(cuts)) + Len(cuts[Len(cuts)])
      BY DEF MultipleTiles
    <3>2. (/\ Len(words) \in Len(cuts) .. Len(cuts) + 1
           /\ \A k \in DOMAIN cuts : cuts[k] \in Separator /\ starts_with(WordEnd(k), cuts[k])
           /\ \A k \in DOMAIN words :
                words[k].from = IF k = 1 THEN 0 ELSE WordEnd(k - 1) + Len(cuts[k - 1])
           /\ start = IF cuts = <<>> THEN 0 ELSE WordEnd(Len(cuts)) + Len(cuts[Len(cuts)]))'
      BY <1>2, <2>1, <3>1 DEF Separator, starts_with, WordEnd
    <3>3. (/\ 0 <= start /\ start <= current /\ current <= Len(to_split)
           /\ Len(words) = Len(cuts) /\ start = Len(to_split))'
      BY <1>1, <1>2, <1>3, <2>1
    <3> QED
      BY <1>1, <1>2, <2>1, <3>2, <3>3 DEF MultipleTiles
  <2>4. CutsAtSeparators' /\ NoneBegins(start, current)'
    BY <1>2, <2>1 DEF CutsAtSeparators, NoneBegins, RightCut, Separator, starts_with, WordEnd
  <2> QED
    BY <1>2, <2>2, <2>3, <2>4
<1>4. CASE start # current
  <2>1. Word \in View /\ Word.from = start /\ Word.length = current - start
    BY <1>1 DEF Word, View
  <2>2. /\ words' \in Seq(View) /\ Len(words') = n + 1
        /\ words'[n + 1] = Word
        /\ \A k \in 1 .. n : words'[k] = words[k]
    <3> HIDE DEF View
    <3> QED
      BY <1>1, <1>4, <2>1 DEF Finish
  <2>3. WordEnd(n + 1)' = current /\ \A k \in 1 .. n : WordEnd(k)' = WordEnd(k)
    BY <1>1, <2>1, <2>2 DEF WordEnd
  <2>4. /\ DOMAIN words = 1 .. n /\ DOMAIN cuts = 1 .. n /\ DOMAIN words' = 1 .. n + 1
    BY <1>1, <2>2
  <2>5. MultipleTypeOK'
    BY <1>2, <2>2 DEF MultipleTypeOK, View
  <2>6. ASSUME NEW a, NEW b
        PROVE  /\ starts_with(a, b)' <=> starts_with(a, b)
               /\ NoneBegins(a, b)' <=> NoneBegins(a, b)
               /\ RightCut(a, b)' <=> RightCut(a, b)
    BY <1>2 DEF NoneBegins, RightCut, Separator, starts_with
  <2>7. MultipleTiles'
    <3>1. ASSUME NEW k \in 1 .. n
          PROVE  cuts'[k] \in Separator' /\ starts_with(WordEnd(k), cuts[k])'
      <4>1. PICK p, c : p = WordEnd(k) /\ c = cuts[k]
        OBVIOUS
      <4>2. c \in Separator' /\ starts_with(p, c)'
        BY <1>2, <2>4, <2>6, <4>1 DEF MultipleTiles, Separator
      <4> QED
        BY <1>2, <2>3, <4>1, <4>2 DEF starts_with
    <3>2. \A k \in 1 .. n + 1 :
            words'[k].from = IF k = 1 THEN 0 ELSE WordEnd(k - 1)' + Len(cuts'[k - 1])
      <4>1. \A k \in 1 .. n :
              words[k].from = IF k = 1 THEN 0 ELSE WordEnd(k - 1) + Len(cuts[k - 1])
        BY <2>4 DEF MultipleTiles
      <4>2. start = IF n = 0 THEN 0 ELSE WordEnd(n) + Len(cuts[n])
        BY <1>1 DEF MultipleTiles
      <4>3. ASSUME NEW k \in 1 .. n
            PROVE  words'[k].from = IF k = 1 THEN 0 ELSE WordEnd(k - 1)' + Len(cuts'[k - 1])
        <5>1. CASE k = 1
          BY <2>2, <4>1, <5>1
        <5>2. CASE k # 1
          <6>1. k - 1 \in 1 .. n
            BY <5>2
          <6> QED
            BY <1>2, <2>2, <2>3, <4>1, <5>2, <6>1
        <5> QED
          BY <5>1, <5>2
      <4>4. words'[n + 1].from = IF n + 1 = 1 THEN 0 ELSE WordEnd(n)' + Len(cuts'[n])
        BY <1>2, <2>1, <2>2, <2>3, <4>2
      <4> TAKE k \in 1 .. n + 1
      <4>5. CASE k \in 1 .. n
        BY <4>3, <4>5
      <4>6. CASE k = n + 1
        <5>1. k - 1 = n
          BY <4>6
        <5> QED
          BY <4>4, <4>6, <5>1
      <4> QED
        BY <4>5, <4>6
    <3>3. start' = IF cuts' = <<>> THEN 0 ELSE WordEnd(Len(cuts))' + Len(cuts'[Len(cuts')])
      <4>1. start = IF cuts = <<>> THEN 0 ELSE WordEnd(n) + Len(cuts[n])
        BY <1>1 DEF MultipleTiles
      <4>2. CASE cuts = <<>>
        BY <1>2, <4>1, <4>2
      <4>3. CASE cuts # <<>>
        BY <1>1, <1>2, <2>2, <4>1, <4>3 DEF WordEnd
      <4> QED
        BY <4>2, <4>3
    <3>4. WordEnd(Len(words))' = Len(to_split)'
      BY <1>1, <1>2, <2>1, <2>2 DEF WordEnd
    <3>5. 0 <= start' /\ start' <= current' /\ current' <= Len(to_split')
      BY <1>1, <1>2
    <3>6. Len(words') \in Len(cuts') .. Len(cuts') + 1
      BY <1>1, <1>2, <2>2
    <3>7. DOMAIN cuts' = 1 .. n
      BY <1>2, <2>4
    <3>8. Len(words') > Len(cuts')
      BY <1>1, <1>2, <2>2
    <3> QED
      BY <2>4, <3>1, <3>2, <3>3, <3>4, <3>5, <3>6, <3>7, <3>8 DEF MultipleTiles
  <2>8. CutsAtSeparators'
    <3>1. ASSUME NEW k \in 1 .. n + 1 PROVE NoneBegins(words[k].from, WordEnd(k))'
      <4>1. PICK a, b : a = words'[k].from /\ b = WordEnd(k)'
        OBVIOUS
      <4>2. CASE k = n + 1
        BY <2>1, <2>2, <2>3, <2>6, <4>1, <4>2
      <4>3. CASE k \in 1 .. n
        BY <2>2, <2>3, <2>4, <2>6, <4>1, <4>3 DEF CutsAtSeparators
      <4>4. NoneBegins(a, b)'
        BY <2>6, <4>1, <4>2, <4>3
      <4> QED
        BY <4>1, <4>4 DEF NoneBegins
    <3>2. ASSUME NEW k \in 1 .. n PROVE RightCut(WordEnd(k), cuts[k])'
      <4>1. PICK p, c : p = WordEnd(k) /\ c = cuts[k]
        OBVIOUS
      <4>2. RightCut(p, c)'
        BY <2>4, <2>6, <4>1 DEF CutsAtSeparators
      <4> QED
        BY <1>2, <2>3, <4>1, <4>2 DEF RightCut
    <3> QED
      BY <1>2, <2>4, <3>1, <3>2 DEF CutsAtSeparators
  <2>9. NoneBegins(start, current)'
    <3>1. PICK a, b : a = start /\ b = current
      OBVIOUS
    <3>2. NoneBegins(a, b)'
      BY <2>6, <3>1
    <3> QED
      BY <1>2, <3>1, <3>2 DEF NoneBegins
  <2> QED
    BY <1>2, <2>5, <2>7, <2>8, <2>9
<1> QED
  BY <1>3, <1>4

LEMMA MultipleStep == MultipleInv /\ [MultipleNext]_multipleVars => MultipleInv'
<1> SUFFICES ASSUME MultipleInv, [MultipleNext]_multipleVars PROVE MultipleInv'
  OBVIOUS
<1>1. CASE UNCHANGED multipleVars
  <2>1. UNCHANGED <<to_split, seps, ordered, start, current, words, cuts, finished>>
    BY <1>1 DEF multipleVars
  <2>2. MultipleTypeOK'
    BY <2>1 DEF MultipleInv, MultipleTypeOK
  <2>3. MultipleTiles'
    BY <2>1 DEF MultipleInv, MultipleTiles, Separator, starts_with, WordEnd
  <2>4. CutsAtSeparators' /\ NoneBegins(start, current)'
    BY <2>1 DEF MultipleInv, CutsAtSeparators, NoneBegins, RightCut, Separator,
                starts_with, WordEnd
  <2>. QED
    BY <2>1, <2>2, <2>3, <2>4 DEF MultipleInv
<1>2. CASE NoMatch
  BY <1>2, NoneHere, AdvanceKeeps DEF NoMatch
<1>3. CASE CutSingle
  BY <1>3, SingleIsRight, CutKeeps DEF CutSingle
<1>4. CASE CutFirst
  <2>1. PICK i \in candidates :
          /\ starts_with(current, seps[i])
          /\ \A j \in candidates : j < i => ~starts_with(current, seps[j])
          /\ Cut(seps[i])
    BY <1>4 DEF CutFirst
  <2>2. seps[i] \in Separator /\ RightCut(current, seps[i])
    BY <1>4, <2>1, FirstIsRight DEF CutFirst
  <2> QED
    BY <1>4, <2>1, <2>2, CutKeeps DEF CutFirst
<1>5. CASE NotMatched
  BY <1>5, NoneHere, AdvanceKeeps DEF NotMatched
<1>6. CASE Finish
  BY <1>6, FinishKeeps
<1> QED
  BY <1>1, <1>2, <1>3, <1>4, <1>5, <1>6 DEF MultipleNext

\* The inductive invariant of split_on_multiple.
THEOREM MultipleCorrect == MultipleSpec => []MultipleInv
BY MultipleStart, MultipleStep, PTL DEF MultipleSpec

\* The words and the separators between them are the string.
THEOREM WordsTile == MultipleSpec => []MultipleTiles
<1>1. MultipleInv => MultipleTiles
  BY DEF MultipleInv
<1> QED
  BY <1>1, MultipleCorrect, PTL

\* Every separator cuts, and of several that begin at one place the right one.
THEOREM CutsRight == MultipleSpec => []CutsAtSeparators
<1>1. MultipleInv => CutsAtSeparators
  BY DEF MultipleInv
<1> QED
  BY <1>1, MultipleCorrect, PTL

-----------------------------------------------------------------------------
\* What is left to split: the characters behind the last cut, and the return.
SplitLeft == IF returned THEN 0 ELSE Len(str) + 1 - start_pos

\* Each step of split_on leaves less.
SplitDescends ==
  [][SplitNext => SplitLeft \in Nat /\ SplitLeft' \in Nat /\ SplitLeft' < SplitLeft]_splitVars

\* split_on ends: each pass leaves fewer characters to look at.
LEMMA SplitShortens ==
  ASSUME SplitInv, SplitInv', SplitNext
  PROVE  /\ ~returned /\ str' = str /\ SplitLeft \in Nat /\ SplitLeft' \in Nat
         /\ SplitLeft' < SplitLeft
<1>1. /\ Len(str) \in Nat /\ Len(seq) \in Nat /\ start_pos \in 0 .. Len(str)
      /\ start_pos' \in 0 .. Len(str')
  BY DEF SplitInv, SplitTypeOK
<1>2. ~returned /\ str' = str
  BY DEF SplitNext, ReturnWhole, CutAtNext, ReturnRest
<1>3. returned' \/ start_pos' > start_pos
  <2>1. CASE CutAtNext
    <3>1. seq # <<>> /\ \E p \in start_pos .. Len(str) : start_pos' = p + Len(seq)
      BY <2>1 DEF CutAtNext
    <3>2. Len(seq) > 0
      BY <1>1, <3>1, EmptySeq DEF SplitInv, SplitTypeOK
    <3>. QED
      BY <1>1, <3>1, <3>2
  <2>. QED
    BY <2>1 DEF SplitNext, ReturnWhole, ReturnRest
<1>4. SplitLeft = Len(str) + 1 - start_pos
  BY <1>2 DEF SplitLeft
<1>5. SplitLeft' = IF returned' THEN 0 ELSE Len(str) + 1 - start_pos'
  BY <1>2 DEF SplitLeft
<1>. QED
  BY <1>1, <1>2, <1>3, <1>4, <1>5

\* The loop of split_on ends: each pass leaves less of the string to cut.  This is
\* the reason for CallsEnd.
THEOREM SplitEnds == SplitSpec => SplitDescends
<1>1. SplitInv /\ SplitInv'
      => [SplitNext => SplitLeft \in Nat /\ SplitLeft' \in Nat /\ SplitLeft' < SplitLeft]_splitVars
  BY SplitShortens
<1>. QED
  BY <1>1, SplitCorrect, PTL DEF SplitDescends

-----------------------------------------------------------------------------
\* Of replace: each character left to split adds at most one piece to join.
ReplaceLeft ==
  CASE outcome # "none" -> 0
    [] outcome = "none" /\ ~returned -> 2 * SplitLeft + Len(rv) + 2
    [] outcome = "none" /\ returned  -> Len(rv) + 2 - it

\* Each step of replace leaves less.
ReplaceDescends ==
  [][Next => ReplaceLeft \in Nat /\ ReplaceLeft' \in Nat /\ ReplaceLeft' < ReplaceLeft]_vars

\* A pass of split_on returns at most one piece more.
LEMMA OneMorePiece ==
  ASSUME ReplaceInv, ReplaceInv', SplitNext
  PROVE  Len(rv) \in Nat /\ Len(rv') \in Nat /\ Len(rv') <= Len(rv) + 1
<1>1. Len(rv) \in Nat /\ Len(rv') \in Nat /\ rv \in Seq(Views)
  BY DEF ReplaceInv, SplitInv, SplitTypeOK, Views
<1>2. CASE ReturnWhole
  BY <1>1, <1>2 DEF ReturnWhole
<1>3. ASSUME NEW a, NEW b, Add(a, b) PROVE Len(rv') <= Len(rv) + 1
  BY <1>1, <1>3 DEF Add
<1>. QED
  BY <1>1, <1>2, <1>3 DEF SplitNext, CutAtNext, ReturnRest

\* Each step of replace leaves fewer: a pass of split_on takes a character and adds
\* at most one piece, and a pass of the joining takes a piece.
LEMMA ReplaceShortens ==
  ASSUME ReplaceInv, ReplaceInv', Next
  PROVE  ReplaceLeft \in Nat /\ ReplaceLeft' \in Nat /\ ReplaceLeft' < ReplaceLeft
<1>1. /\ Len(rv) \in Nat /\ it \in 0 .. Len(rv) /\ Len(rv') \in Nat /\ it' \in 0 .. Len(rv')
      /\ returned \in BOOLEAN /\ SplitInv /\ SplitInv' /\ (it > 0 => returned)
      /\ (outcome # "none" => returned)
  BY DEF ReplaceInv, SplitInv, SplitTypeOK, JoinsInOrder
<1>2. CASE SplitStep
  <2>1. outcome = "none" /\ outcome' = "none" /\ it = 0 /\ it' = 0
    BY <1>1, <1>2, SplitShortens DEF SplitStep, joinVars
  <2>2. /\ ~returned /\ SplitLeft \in Nat /\ SplitLeft' \in Nat /\ SplitLeft' < SplitLeft
        /\ Len(rv') <= Len(rv) + 1 /\ SplitLeft > 0
    BY <1>1, <1>2, SplitShortens, OneMorePiece DEF SplitStep
  <2>3. ReplaceLeft = 2 * SplitLeft + Len(rv) + 2
    BY <2>1, <2>2 DEF ReplaceLeft
  <2>4. ReplaceLeft' = IF returned' THEN Len(rv') + 2 ELSE 2 * SplitLeft' + Len(rv') + 2
    BY <1>1, <2>1 DEF ReplaceLeft
  <2>. QED
    BY <1>1, <2>2, <2>3, <2>4
<1>3. CASE Reserve \/ AppendPiece
  <2>1. /\ outcome = "none" /\ outcome' = "none" /\ returned /\ returned'
        /\ rv' = rv /\ it' = it + 1
    BY <1>1, <1>3 DEF Reserve, AppendPiece, splitVars
  <2>2. ReplaceLeft = Len(rv) + 2 - it /\ ReplaceLeft' = Len(rv) + 2 - (it + 1)
    BY <2>1 DEF ReplaceLeft
  <2>. QED
    BY <1>1, <2>1, <2>2
<1>4. CASE ReserveThrows \/ AppendLast
  <2>1. outcome = "none" /\ outcome' # "none" /\ returned
    BY <1>1, <1>4 DEF ReserveThrows, AppendLast
  <2>2. ReplaceLeft = Len(rv) + 2 - it /\ ReplaceLeft' = 0
    BY <2>1 DEF ReplaceLeft
  <2>. QED
    BY <1>1, <2>2
<1>. QED
  BY <1>2, <1>3, <1>4 DEF Next

\* The loops of replace end: every step leaves fewer.  This is the reason for
\* CallsEnd.
THEOREM JoiningEnds == Spec => ReplaceDescends
<1>1. ReplaceInv /\ ReplaceInv'
      => [Next => ReplaceLeft \in Nat /\ ReplaceLeft' \in Nat /\ ReplaceLeft' < ReplaceLeft]_vars
  BY ReplaceShortens
<1>. QED
  BY <1>1, ReplaceCorrect, PTL DEF ReplaceDescends

-----------------------------------------------------------------------------
\* Of split_on_multiple: the characters not yet read.
MultipleLeft == IF finished THEN 0 ELSE Len(to_split) + 1 - current

\* Each step of split_on_multiple leaves less.
MultipleDescends ==
  [][MultipleNext => /\ MultipleLeft \in Nat /\ MultipleLeft' \in Nat
                     /\ MultipleLeft' < MultipleLeft]_multipleVars

\* Every pass reads a character at least: no separator that cuts is empty.
LEMMA MultipleShortens ==
  ASSUME MultipleInv, MultipleInv', MultipleNext
  PROVE  MultipleLeft \in Nat /\ MultipleLeft' \in Nat /\ MultipleLeft' < MultipleLeft
<1>1. /\ Len(to_split) \in Nat /\ current \in Nat /\ current' \in Nat /\ seps \in Seq(Seq(Nat))
      /\ current <= Len(to_split) /\ current' <= Len(to_split')
  BY DEF MultipleInv, MultipleTypeOK, MultipleTiles
<1>2. ~finished /\ to_split' = to_split
  BY DEF MultipleNext, Reading, NoMatch, CutSingle, CutFirst, NotMatched, Finish, Advance, Cut
<1>3. finished' \/ current' > current
  <2>1. CASE CutFirst
    <3>1. PICK i \in candidates : Cut(seps[i])
      BY <2>1 DEF CutFirst
    <3>2. seps[i] \in Seq(Nat) /\ seps[i] # <<>>
      BY <1>1, <3>1 DEF candidates
    <3>3. Len(seps[i]) \in Nat /\ Len(seps[i]) > 0
      BY <3>2, EmptySeq
    <3>4. current' = current + Len(seps[i])
      BY <3>1 DEF Cut
    <3>. QED
      BY <1>1, <3>3, <3>4
  <2>2. CASE CutSingle
    <3>1. Cut(<<to_split[current + 1]>>)
      BY <2>2 DEF CutSingle
    <3>2. current' = current + 1
      BY <3>1 DEF Cut
    <3>. QED
      BY <1>1, <3>2
  <2>3. CASE NoMatch \/ NotMatched
    BY <1>1, <2>3 DEF NoMatch, NotMatched, Advance
  <2>. QED
    BY <2>1, <2>2, <2>3 DEF MultipleNext, Finish
<1>4. MultipleLeft = Len(to_split) + 1 - current
  BY <1>2 DEF MultipleLeft
<1>5. MultipleLeft' = IF finished' THEN 0 ELSE Len(to_split) + 1 - current'
  BY <1>2 DEF MultipleLeft
<1>. QED
  BY <1>1, <1>2, <1>3, <1>4, <1>5

\* The loop of split_on_multiple ends: each pass reads a character at least.
THEOREM ReadingEnds == MultipleSpec => MultipleDescends
<1>1. MultipleInv /\ MultipleInv'
      => [MultipleNext => /\ MultipleLeft \in Nat /\ MultipleLeft' \in Nat
                          /\ MultipleLeft' < MultipleLeft]_multipleVars
  BY MultipleShortens
<1>. QED
  BY <1>1, MultipleCorrect, PTL DEF MultipleDescends
=============================================================================
