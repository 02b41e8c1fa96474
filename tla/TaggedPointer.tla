---------------------------- MODULE TaggedPointer ----------------------------
(***************************************************************************)
(* memory/tagged_pointer.hpp: an aligned pointer, and a tag in the bits of *)
(* the word that its alignment leaves free.  It is held in a std::atomic,  *)
(* as in examples/tagged_pointer.cpp; the threads, which are external, set *)
(* the tag that tag_next returns whenever they replace the pointer.        *)
(*                                                                         *)
(* Addresses are multiples of Alignment, so or-ing a tag into one adds     *)
(* the tag.                                                                *)
(***************************************************************************)
EXTENDS Naturals

CONSTANTS Alignment,            \* a power of two
          Pointers,             \* the addresses the threads put in
          Addresses,            \* what an uninitialized word may hold as well
          Threads,
          MaxSince              \* bound: updates during one replacement

ASSUME AlignmentAssumption == Alignment \in Nat \ {0}
ASSUME PointersAssumption ==
  0 \in Addresses /\ Pointers \subseteq Addresses /\ \A p \in Addresses : p \in Nat /\ p % Alignment = 0

VARIABLES
  shared,               \* the word in the std::atomic
  active,               \* the threads between their load and their exchange
  expected, desired,    \* their tagged pointers
  unset,                \* what they have not set in desired yet
  since                 \* history: updates of shared since they loaded it

vars == <<shared, active, expected, desired, unset, since>>

Tags == 0 .. Alignment - 1

get_pointer(w) == w - (w % Alignment)
get_tag(w)     == w % Alignment
create(p, tag) == p + (tag % Alignment)

\* Mutant: the tag starts again at one.
TagNextSkipsZero(w) == (get_tag(w) % (Alignment - 1)) + 1

tag_next(w) == (get_tag(w) + 1) % Alignment

\* Mutant: a new pointer begins with tag zero.
SetPointerClears(w, p) == create(p, 0)

\* Mutant: the old tag stays in the word.
SetTagOnTop(w, tag) == create(w, tag)

SetPointer(w, p) == create(p, get_tag(w))
SetTag(w, tag)   == create(get_pointer(w), tag)

\* A default constructed tagged_pointer is uninitialized.
Words == {create(p, tag) : p \in Addresses, tag \in Tags}

Init ==
  /\ shared \in {create(p, tag) : p \in Pointers, tag \in Tags}
  /\ active = {}
  /\ expected = [t \in Threads |-> 0] /\ desired = [t \in Threads |-> 0]
  /\ unset = [t \in Threads |-> {}]
  /\ since = [t \in Threads |-> 0]

Load(t) ==
  /\ t \notin active /\ active' = active \union {t}
  /\ expected' = [expected EXCEPT ![t] = shared]
  /\ \E w \in Words : desired' = [desired EXCEPT ![t] = w]
  /\ unset' = [unset EXCEPT ![t] = {"pointer", "tag"}]
  /\ UNCHANGED <<shared, since>>

CallSetPointer(t) ==
  /\ t \in active /\ "pointer" \in unset[t]
  /\ \E p \in Pointers : desired' = [desired EXCEPT ![t] = SetPointer(@, p)]
  /\ unset' = [unset EXCEPT ![t] = @ \ {"pointer"}]
  /\ UNCHANGED <<shared, active, expected, since>>

CallSetTag(t) ==
  /\ t \in active /\ "tag" \in unset[t]
  /\ desired' = [desired EXCEPT ![t] = SetTag(@, tag_next(expected[t]))]
  /\ unset' = [unset EXCEPT ![t] = @ \ {"tag"}]
  /\ UNCHANGED <<shared, active, expected, since>>

\* compare_exchange: the thread is done, or has loaded the word again.
Exchange(t) ==
  /\ t \in active /\ unset[t] = {} /\ shared = expected[t]
  /\ \A u \in active : since[u] < MaxSince
  /\ shared' = desired[t] /\ active' = active \ {t}
  /\ since' = [u \in Threads |-> IF u \in active \ {t} THEN since[u] + 1 ELSE 0]
  /\ expected' = [expected EXCEPT ![t] = 0] /\ desired' = [desired EXCEPT ![t] = 0]
  /\ UNCHANGED unset

ExchangeFails(t) ==
  /\ t \in active /\ unset[t] = {} /\ shared # expected[t]
  /\ expected' = [expected EXCEPT ![t] = shared]
  /\ unset' = [unset EXCEPT ![t] = {"pointer", "tag"}]
  /\ since' = [since EXCEPT ![t] = 0]
  /\ UNCHANGED <<shared, active, desired>>

Next ==
  \E t \in Threads :
    Load(t) \/ CallSetPointer(t) \/ CallSetTag(t) \/ Exchange(t) \/ ExchangeFails(t)

Spec == Init /\ [][Next]_vars

-----------------------------------------------------------------------------
Both(w) == [pointer |-> get_pointer(w), tag |-> get_tag(w)]

Pair == INSTANCE TaggedPair
  WITH NumTags  <- Alignment,
       shared   <- Both(shared),
       expected <- [t \in Threads |-> Both(expected[t])],
       desired  <- [t \in Threads |-> Both(desired[t])]

\* To its users the word is a pointer and a tag: setting either leaves the other
\* alone, in whatever order an uninitialized one is set, and two words are equal
\* exactly if both parts are.
LooksLikePair == Pair!Spec

\* If a thread finds the word it has loaded, then either no thread has updated it
\* in between or the tags have gone round, all of them, any number of times: the
\* exchange is not deceived by a pointer that comes back sooner.
OnlyFullRounds ==
  \A t \in active : shared = expected[t] => since[t] % Alignment = 0

TypeOK ==
  /\ shared \in Words /\ active \subseteq Threads
  /\ expected \in [Threads -> Words] /\ desired \in [Threads -> Words]
  /\ unset \in [Threads -> SUBSET {"pointer", "tag"}]
  /\ since \in [Threads -> Nat]

\* The reason: the tag counts the updates since a thread has loaded the word, and
\* the word it is about to put there has the tag that follows.
TagsCount ==
  /\ \A t \in active :
       /\ get_tag(shared) = (get_tag(expected[t]) + since[t]) % Alignment
       /\ "tag" \notin unset[t] => get_tag(desired[t]) = tag_next(expected[t])
  /\ \A t \in Threads \ active : since[t] = 0

TaggedInv == TypeOK /\ TagsCount
=============================================================================
