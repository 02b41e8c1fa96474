----------------------------- MODULE BitTricks -----------------------------
(***************************************************************************)
(* util/bit_tricks.hpp and the two parent functions of the binary index    *)
(* tree, on the natural numbers below the sign bit.  The code computes     *)
(* them with two's complement arithmetic; here they are stated by what     *)
(* they return.                                                            *)
(***************************************************************************)
EXTENDS Naturals

Divides(d, n) == \E k \in 0..n : n = d * k

\* Mutant: zero is not told apart.
IsPowerOfTwoOrZero(n) == \A d \in 2..n : Divides(d, n) => Divides(2, d)

\* is_power_of_two: exactly one bit is set, i.e. no odd number but 1 divides n.
IsPowerOfTwo(n) ==
  /\ n > 0
  /\ \A d \in 2..n : Divides(d, n) => Divides(2, d)

\* lsb: the number stripped of all bits but the least significant, i.e. the
\* power of two that divides n an odd number of times.
Lsb(n) ==
  CHOOSE p \in 1..n : /\ IsPowerOfTwo(p)
                      /\ Divides(p, n)
                      /\ ~Divides(2 * p, n)

\* The parents of a node in the interrogation and in the update tree.
ParentInterrogation(n) == n - Lsb(n)
ParentUpdate(n) == n + Lsb(n)
=============================================================================
