------------------------- MODULE TaggedPointerProofs -------------------------
(***************************************************************************)
(* The words of TaggedPointer behave as pairs, whatever the alignment and  *)
(* however many threads replace the pointer.                               *)
(***************************************************************************)
EXTENDS TaggedPointer, Integers, TLAPS

\* A remainder is the only number below the divisor that a multiple of it leaves.
LEMMA RemainderUnique ==
  ASSUME NEW q \in Int, NEW r \in Nat, r < Alignment
  PROVE  (Alignment * q + r) % Alignment = r
BY AlignmentAssumption

LEMMA SmallRemainder ==
  ASSUME NEW r \in Nat, r < Alignment
  PROVE  r % Alignment = r
<1>1. (Alignment * 0 + r) % Alignment = r
  BY RemainderUnique
<1> QED
  BY <1>1, AlignmentAssumption

LEMMA Division ==
  ASSUME NEW n \in Nat
  PROVE  \E q \in Nat, r \in Nat : n = Alignment * q + r /\ r < Alignment /\ n % Alignment = r
<1> DEFINE q == n \div Alignment
           r == n % Alignment
<1>1. q \in Nat /\ r \in Nat /\ n = Alignment * q + r /\ r < Alignment
  BY AlignmentAssumption
<1> QED
  BY <1>1

\* Counting modulo Alignment: the remainder may be taken before the next step.
LEMMA StepAfterRemainder ==
  ASSUME NEW n \in Nat
  PROVE  ((n % Alignment) + 1) % Alignment = (n + 1) % Alignment
<1>1. PICK q \in Nat, r \in Nat : n = Alignment * q + r /\ r < Alignment /\ n % Alignment = r
  BY Division
<1>2. CASE r + 1 < Alignment
  <2>1. (Alignment * q + (r + 1)) % Alignment = r + 1
    BY <1>2, RemainderUnique
  <2>2. (r + 1) % Alignment = r + 1
    BY <1>2, SmallRemainder
  <2>3. n + 1 = Alignment * q + (r + 1)
    BY <1>1, AlignmentAssumption
  <2> QED
    BY <1>1, <2>1, <2>2, <2>3
<1>3. CASE r + 1 = Alignment
  <2>1. (Alignment * (q + 1) + 0) % Alignment = 0
    BY RemainderUnique, AlignmentAssumption
  <2>2. (Alignment * 1 + 0) % Alignment = 0
    BY RemainderUnique, AlignmentAssumption
  <2>3. n + 1 = Alignment * (q + 1) + 0 /\ r + 1 = Alignment * 1 + 0
    BY <1>1, <1>3, AlignmentAssumption
  <2> QED
    BY <1>1, <2>1, <2>2, <2>3
<1> QED
  BY <1>1, <1>2, <1>3, AlignmentAssumption

\* create keeps both its arguments, the tag as far as the mask lets it.
LEMMA CreateKeepsBoth ==
  ASSUME NEW p \in Addresses, NEW tag \in Nat
  PROVE  /\ create(p, tag) \in Words
         /\ get_pointer(create(p, tag)) = p
         /\ get_tag(create(p, tag)) = tag % Alignment
<1> DEFINE r == tag % Alignment
<1>1. r \in Tags /\ r \in Nat /\ r < Alignment /\ p \in Nat /\ p % Alignment = 0
  BY AlignmentAssumption, PointersAssumption DEF Tags
<1>2. PICK q \in Nat : p = Alignment * q
  <2>1. PICK q \in Nat, s \in Nat : p = Alignment * q + s /\ p % Alignment = s
    BY <1>1, Division
  <2> QED
    BY <1>1, <2>1, AlignmentAssumption
<1>3. (p + r) % Alignment = r
  BY <1>1, <1>2, RemainderUnique
<1>4. r % Alignment = r
  BY <1>1, SmallRemainder
<1>5. create(p, tag) = p + r /\ create(p, r) = p + r
  BY <1>1, <1>4, AlignmentAssumption DEF create
<1> QED
  BY <1>1, <1>3, <1>5 DEF Words, get_pointer, get_tag

\* Every word is a pointer and a tag, and no other word has the same.
LEMMA WordIsPair ==
  ASSUME NEW w \in Words
  PROVE  /\ w \in Nat
         /\ get_pointer(w) \in Addresses
         /\ get_tag(w) \in Tags /\ get_tag(w) \in Nat
         /\ w = get_pointer(w) + get_tag(w)
         /\ get_tag(w) % Alignment = get_tag(w)
<1>1. PICK p \in Addresses, tag \in Tags : w = create(p, tag)
  BY DEF Words
<1>2. tag \in Nat /\ tag < Alignment /\ p \in Nat
  BY AlignmentAssumption, PointersAssumption DEF Tags
<1>4. tag % Alignment = tag
  BY <1>2, SmallRemainder
<1>5. get_pointer(w) = p /\ get_tag(w) = tag
  BY <1>1, <1>2, <1>4, CreateKeepsBoth
<1> QED
  BY <1>1, <1>2, <1>4, <1>5 DEF create

\* The next tag is a tag.
LEMMA NextIsTag ==
  ASSUME NEW w \in Words
  PROVE  /\ tag_next(w) \in Nat
         /\ tag_next(w) % Alignment = tag_next(w)
<1>1. tag_next(w) \in Nat /\ tag_next(w) < Alignment
  BY WordIsPair, AlignmentAssumption DEF tag_next
<1> QED
  BY <1>1, SmallRemainder

\* Setting the pointer keeps the tag, setting the tag keeps the pointer.
LEMMA SettersKeepRest ==
  ASSUME NEW w \in Words, NEW p \in Addresses, NEW v \in Words
  PROVE  /\ SetPointer(w, p) \in Words
         /\ get_pointer(SetPointer(w, p)) = p
         /\ get_tag(SetPointer(w, p)) = get_tag(w)
         /\ SetTag(w, tag_next(v)) \in Words
         /\ get_pointer(SetTag(w, tag_next(v))) = get_pointer(w)
         /\ get_tag(SetTag(w, tag_next(v))) = tag_next(v)
<1>1. SetPointer(w, p) \in Words /\ get_pointer(SetPointer(w, p)) = p
  BY WordIsPair, CreateKeepsBoth DEF SetPointer
<1>2. get_tag(SetPointer(w, p)) = get_tag(w)
  BY WordIsPair, CreateKeepsBoth DEF SetPointer
<1>3. SetTag(w, tag_next(v)) \in Words /\ get_pointer(SetTag(w, tag_next(v))) = get_pointer(w)
  BY WordIsPair, NextIsTag, CreateKeepsBoth DEF SetTag
<1>4. get_tag(SetTag(w, tag_next(v))) = tag_next(v)
  BY WordIsPair, NextIsTag, CreateKeepsBoth DEF SetTag
<1> QED
  BY <1>1, <1>2, <1>3, <1>4

-----------------------------------------------------------------------------
LEMMA ZeroIsWord == 0 \in Words
<1>1. 0 \in Tags /\ 0 % Alignment = 0 /\ 0 \in Addresses
  BY AlignmentAssumption, PointersAssumption DEF Tags
<1>2. create(0, 0) = 0
  BY <1>1 DEF create
<1> QED
  BY <1>1, <1>2 DEF Words

LEMMA TaggedInvInit == Init => TaggedInv
<1> SUFFICES ASSUME Init PROVE TaggedInv
  OBVIOUS
<1>1. shared \in Words
  BY PointersAssumption DEF Init, Words
<1>2. TypeOK
  BY <1>1, ZeroIsWord DEF Init, TypeOK
<1>3. TagsCount
  BY DEF Init, TagsCount
<1> QED
  BY <1>2, <1>3 DEF TaggedInv

LEMMA TaggedInvStep == TaggedInv /\ [Next]_vars => TaggedInv'
<1> SUFFICES ASSUME TaggedInv, [Next]_vars PROVE TaggedInv'
  OBVIOUS
<1> USE DEF TaggedInv
<1>1. CASE UNCHANGED vars
  BY <1>1 DEF vars, TypeOK, TagsCount
<1>2. ASSUME NEW t \in Threads, Load(t) PROVE TaggedInv'
  <2>1. TypeOK'
    BY <1>2 DEF Load, TypeOK
  <2>2. get_tag(shared) = (get_tag(shared) + 0) % Alignment
    BY WordIsPair, AlignmentAssumption DEF TypeOK
  <2>3. TagsCount'
    BY <1>2, <2>2 DEF Load, TagsCount, TypeOK
  <2> QED
    BY <2>1, <2>3
<1>3. ASSUME NEW t \in Threads, CallSetPointer(t) PROVE TaggedInv'
  <2>1. PICK p \in Pointers : desired' = [desired EXCEPT ![t] = SetPointer(@, p)]
    BY <1>3 DEF CallSetPointer
  <2>2. /\ SetPointer(desired[t], p) \in Words
        /\ get_tag(SetPointer(desired[t], p)) = get_tag(desired[t])
    BY PointersAssumption, SettersKeepRest DEF TypeOK
  <2>3. TypeOK'
    BY <1>3, <2>1, <2>2 DEF CallSetPointer, TypeOK
  <2>4. TagsCount'
    BY <1>3, <2>1, <2>2 DEF CallSetPointer, TagsCount, TypeOK
  <2> QED
    BY <2>3, <2>4
<1>4. ASSUME NEW t \in Threads, CallSetTag(t) PROVE TaggedInv'
  <2>1. /\ SetTag(desired[t], tag_next(expected[t])) \in Words
        /\ get_tag(SetTag(desired[t], tag_next(expected[t]))) = tag_next(expected[t])
    BY PointersAssumption, SettersKeepRest DEF TypeOK
  <2>2. TypeOK'
    BY <1>4, <2>1 DEF CallSetTag, TypeOK
  <2>3. TagsCount'
    BY <1>4, <2>1 DEF CallSetTag, TagsCount, TypeOK
  <2> QED
    BY <2>2, <2>3
<1>5. ASSUME NEW t \in Threads, Exchange(t) PROVE TaggedInv'
  <2>1. get_tag(desired[t]) = (get_tag(shared) + 1) % Alignment
    BY <1>5 DEF Exchange, TagsCount, tag_next
  <2>2. TypeOK'
    BY <1>5, ZeroIsWord DEF Exchange, TypeOK
  <2>3. ASSUME NEW u \in active \ {t}
        PROVE  get_tag(desired[t]) = (get_tag(expected[u]) + (since[u] + 1)) % Alignment
    <3>1. get_tag(expected[u]) \in Nat /\ since[u] \in Nat
      BY WordIsPair DEF TypeOK
    <3>2. get_tag(shared) = (get_tag(expected[u]) + since[u]) % Alignment
      BY DEF TagsCount
    <3>3. (((get_tag(expected[u]) + since[u]) % Alignment) + 1) % Alignment
            = ((get_tag(expected[u]) + since[u]) + 1) % Alignment
      BY <3>1, StepAfterRemainder
    <3> QED
      BY <2>1, <3>1, <3>2, <3>3
  <2>4. TagsCount'
    BY <1>5, <2>3 DEF Exchange, TagsCount, TypeOK
  <2> QED
    BY <2>2, <2>4
<1>6. ASSUME NEW t \in Threads, ExchangeFails(t) PROVE TaggedInv'
  <2>1. get_tag(shared) = (get_tag(shared) + 0) % Alignment
    BY WordIsPair, AlignmentAssumption DEF TypeOK
  <2>2. TypeOK'
    BY <1>6 DEF ExchangeFails, TypeOK
  <2>3. TagsCount'
    BY <1>6, <2>1 DEF ExchangeFails, TagsCount, TypeOK
  <2> QED
    BY <2>2, <2>3
<1> QED
  BY <1>1, <1>2, <1>3, <1>4, <1>5, <1>6 DEF Next

\* The inductive invariant: the words are pointers and tags, and the tag counts the
\* updates since a thread has loaded the word.
THEOREM TaggedCorrect == Spec => []TaggedInv
BY TaggedInvInit, TaggedInvStep, PTL DEF Spec

\* An update is missed only after full rounds of the tags: were the count of updates
\* no multiple of Alignment, the tags would differ.
THEOREM TagsDetect == Spec => []OnlyFullRounds
<1>1. ASSUME TaggedInv, NEW t \in active, shared = expected[t]
      PROVE  since[t] % Alignment = 0
  <2>1. /\ get_tag(shared) \in Nat /\ get_tag(shared) < Alignment /\ since[t] \in Nat
        /\ get_tag(shared) = (get_tag(shared) + since[t]) % Alignment
    BY <1>1, WordIsPair, AlignmentAssumption DEF TaggedInv, TypeOK, TagsCount, Tags
  <2>2. PICK q \in Nat, r \in Nat :
          since[t] = Alignment * q + r /\ r < Alignment /\ since[t] % Alignment = r
    BY <2>1, Division
  <2>3. CASE get_tag(shared) + r < Alignment
    <3>1. (Alignment * q + (get_tag(shared) + r)) % Alignment = get_tag(shared) + r
      BY <2>1, <2>3, RemainderUnique
    <3>2. get_tag(shared) + since[t] = Alignment * q + (get_tag(shared) + r)
      BY <2>1, <2>2, AlignmentAssumption
    <3> QED
      BY <2>1, <2>2, <3>1, <3>2
  <2>4. CASE get_tag(shared) + r >= Alignment
    <3> DEFINE s == get_tag(shared) + r - Alignment
    <3>0. get_tag(shared) \in Nat /\ r \in Nat /\ Alignment \in Nat
      BY <2>1, AlignmentAssumption
    <3>1. s \in Nat /\ s < Alignment /\ s # get_tag(shared)
      BY <2>1, <2>2, <2>4, AlignmentAssumption
    <3>2. (Alignment * (q + 1) + s) % Alignment = s
      BY <2>2, <3>1, RemainderUnique
    <3>3. Alignment * (q + 1) = Alignment * q + Alignment /\ Alignment * q \in Nat
      BY AlignmentAssumption
    <3>4. get_tag(shared) + since[t] = Alignment * (q + 1) + s
      <4>1. PICK m \in Nat : m = Alignment * q
        BY <3>3
      <4>2. since[t] = m + r /\ Alignment * (q + 1) = m + Alignment
        BY <2>2, <3>3, <4>1
      <4>3. get_tag(shared) + (m + r) = (m + Alignment) + s
        BY <3>0
      <4> QED
        BY <4>2, <4>3
    <3> QED
      BY <2>1, <3>1, <3>2, <3>4
  <2> QED
    BY <2>1, <2>2, <2>3, <2>4, AlignmentAssumption
<1>2. TaggedInv => OnlyFullRounds
  BY <1>1 DEF OnlyFullRounds
<1> QED
  BY <1>2, TaggedCorrect, PTL

-----------------------------------------------------------------------------
\* Two words are equal exactly if both of their parts are.
LEMMA PairsEqual ==
  ASSUME NEW v \in Words, NEW w \in Words
  PROVE  (v = w) <=> (Both(v) = Both(w))
BY WordIsPair DEF Both

LEMMA PairOfWord ==
  ASSUME NEW w \in Words
  PROVE  Both(w) \in Pair!Pairs
BY WordIsPair DEF Both, Pair!Pairs, Pair!Tags, Tags

LEMMA PairOfZero == Both(0) = Pair!Nothing
<1>1. 0 % Alignment = 0
  BY SmallRemainder, AlignmentAssumption
<1> QED
  BY <1>1 DEF Both, get_pointer, get_tag, Pair!Nothing

LEMMA PairInit == Init => Pair!Init
<1> SUFFICES ASSUME Init PROVE Pair!Init
  OBVIOUS
<1>1. PICK p \in Pointers, tag \in Tags : shared = create(p, tag)
  BY DEF Init
<1>2. tag \in Nat /\ p \in Addresses /\ tag % Alignment = tag
  BY PointersAssumption, AlignmentAssumption, SmallRemainder DEF Tags
<1>3. Both(shared) \in [pointer : Pointers, tag : 0 .. Alignment - 1]
  BY <1>1, <1>2, CreateKeepsBoth DEF Both, Tags
<1> QED
  BY <1>3, PairOfZero DEF Init, Pair!Init, Pair!Tags

LEMMA PairStep == TaggedInv /\ [Next]_vars =>
  [\E t \in Threads : Pair!Step(t)]_<<Both(shared), active, [t \in Threads |-> Both(expected[t])],
                                     [t \in Threads |-> Both(desired[t])], unset>>
<1> DEFINE pairs(f) == [t \in Threads |-> Both(f[t])]
<1> SUFFICES ASSUME TaggedInv, [Next]_vars
             PROVE  \/ \E t \in Threads : Pair!Step(t)
                    \/ UNCHANGED <<Both(shared), active, pairs(expected), pairs(desired), unset>>
  OBVIOUS
<1> USE DEF TaggedInv, TypeOK
<1>1. CASE UNCHANGED vars
  BY <1>1 DEF vars
<1>2. ASSUME NEW t \in Threads, Load(t) PROVE Pair!Begin(t)
  <2>1. PICK w \in Words : desired' = [desired EXCEPT ![t] = w]
    BY <1>2 DEF Load
  <2>2. Both(w) \in Pair!Pairs
    BY PairOfWord
  <2>3. pairs(desired)' = [pairs(desired) EXCEPT ![t] = Both(w)]
    BY <2>1
  <2>4. pairs(expected)' = [pairs(expected) EXCEPT ![t] = Both(shared)]
    BY <1>2 DEF Load
  <2> QED
    BY <1>2, <2>2, <2>3, <2>4 DEF Load, Pair!Begin
<1>3. ASSUME NEW t \in Threads, CallSetPointer(t)
      PROVE  \E p \in Pointers : Pair!Put(t, "pointer", p)
  <2>1. PICK p \in Pointers : desired' = [desired EXCEPT ![t] = SetPointer(@, p)]
    BY <1>3 DEF CallSetPointer
  <2>2. Both(SetPointer(desired[t], p)) = [Both(desired[t]) EXCEPT !["pointer"] = p]
    BY PointersAssumption, SettersKeepRest DEF Both
  <2>3. pairs(desired)' = [pairs(desired) EXCEPT ![t]["pointer"] = p]
    BY <2>1, <2>2
  <2> QED
    BY <1>3, <2>3 DEF CallSetPointer, Pair!Put
<1>4. ASSUME NEW t \in Threads, CallSetTag(t)
      PROVE  Pair!Put(t, "tag", (pairs(expected)[t].tag + 1) % Alignment)
  <2> DEFINE tag == tag_next(expected[t])
  <2>1. tag = (pairs(expected)[t].tag + 1) % Alignment
    BY DEF Both, tag_next
  <2>2. Both(SetTag(desired[t], tag)) = [Both(desired[t]) EXCEPT !["tag"] = tag]
    BY PointersAssumption, SettersKeepRest DEF Both
  <2>3. pairs(desired)' = [pairs(desired) EXCEPT ![t]["tag"] = tag]
    BY <1>4, <2>2 DEF CallSetTag
  <2> QED
    BY <1>4, <2>1, <2>3 DEF CallSetTag, Pair!Put
<1>5. ASSUME NEW t \in Threads, Exchange(t) PROVE Pair!Replace(t)
  <2>1. /\ pairs(expected)' = [pairs(expected) EXCEPT ![t] = Pair!Nothing]
        /\ pairs(desired)' = [pairs(desired) EXCEPT ![t] = Pair!Nothing]
    BY <1>5, PairOfZero DEF Exchange
  <2>2. Both(shared) = pairs(expected)[t] /\ Both(shared)' = pairs(desired)[t]
    BY <1>5 DEF Exchange
  <2> QED
    BY <1>5, <2>1, <2>2 DEF Exchange, Pair!Replace
<1>6. ASSUME NEW t \in Threads, ExchangeFails(t) PROVE Pair!Retry(t)
  <2>1. pairs(expected)' = [pairs(expected) EXCEPT ![t] = Both(shared)]
    BY <1>6 DEF ExchangeFails
  <2>2. Both(shared) # pairs(expected)[t]
    BY <1>6, PairsEqual DEF ExchangeFails
  <2> QED
    BY <1>6, <2>1, <2>2 DEF ExchangeFails, Pair!Retry
<1> QED
  BY <1>1, <1>2, <1>3, <1>4, <1>5, <1>6 DEF Next, Pair!Step

\* The words implement the pairs.
THEOREM ImplementsPair == Spec => LooksLikePair
BY PairInit, PairStep, TaggedCorrect, PTL DEF Spec, LooksLikePair, Pair!Spec
=============================================================================
