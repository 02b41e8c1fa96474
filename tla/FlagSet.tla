------------------------------ MODULE FlagSet ------------------------------
(***************************************************************************)
(* util/flag_set.hpp: a set of flags of an enumeration, kept in one number *)
(* of the enumeration's underlying type.  A number is the set of its bits; *)
(* an enumerator may stand for any bits, for none or for several too.      *)
(***************************************************************************)
EXTENDS Naturals

CONSTANTS Bits,        \* the bits of the underlying type
          Enumerators  \* the enumerators, as sets of bits

VARIABLE flags

Numbers == SUBSET Bits

Init == flags \in {{}} \cup Enumerators

\* f is the flags of another set or an enumerator.
Add(f)    == flags' = flags \cup f
Remove(f) == flags' = flags \ f

\* The operators &=, |=, ^= and an assignment of ~.
And(f)     == flags' = flags \cap f
Or(f)      == flags' = flags \cup f
Xor(f)     == flags' = (flags \ f) \cup (f \ flags)
Complement == flags' = Bits \ flags

Next ==
  \/ \E f \in Numbers : Add(f) \/ Remove(f) \/ And(f) \/ Or(f) \/ Xor(f)
  \/ Complement

Spec == Init /\ [][Next]_flags

Contains(f) == flags \cap f = f

\* == and != of two sets, of a set and an enumerator, and of an enumerator and
\* a set.
EqualSets(f)       == flags = f
UnequalSets(f)     == flags # f
EqualSetToOne(e)   == flags = e
UnequalSetToOne(e) == flags # e
EqualOneToSet(e)   == e = flags
UnequalOneToSet(e) == e = flags

-----------------------------------------------------------------------------
\* A set and an enumerator differ, in either order of the operands, if and only
\* if they are not equal.
UnequalNegatesEqual ==
  /\ \A f \in Numbers : UnequalSets(f) <=> ~EqualSets(f)
  /\ \A e \in Enumerators : /\ UnequalSetToOne(e) <=> ~EqualSetToOne(e)
                            /\ UnequalOneToSet(e) <=> ~EqualOneToSet(e)
=============================================================================
