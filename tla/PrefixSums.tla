----------------------------- MODULE PrefixSums -----------------------------
(***************************************************************************)
(* What a binary index tree promises to its caller: an array of integers,  *)
(* all zero at first, that is kept as its prefix sums.  Every call takes   *)
(* effect in one step and leaves its outcome in reply.                     *)
(*                                                                         *)
(* The array has no size of its own: positions never written hold zero, so *)
(* growing is invisible.  MaxSize only bounds the positions.               *)
(***************************************************************************)
EXTENDS Integers

CONSTANTS MaxSize,  \* the longest vector that can be allocated
          Indexes,  \* the indexes callers write to
          Values    \* the element values callers write

VARIABLES sum,      \* sum[i] is the sum of the elements 0 to i
          reply     \* outcome of the last call that returned

vars == <<sum, reply>>

Positions == 0 .. MaxSize - 1

\* The element at position i of the array with prefix sums s.
ValueAt(s, i) == IF i = 0 THEN s[0] ELSE s[i] - s[i - 1]

\* The prefix sums once d is added to the element at position i.
Added(s, i, d) == [j \in DOMAIN s |-> IF j < i THEN s[j] ELSE s[j] + d]

Returned(op, i, r) == [op |-> op, index |-> i, result |-> r, threw |-> FALSE]
Threw(op, i)       == [op |-> op, index |-> i, result |-> 0, threw |-> TRUE]
Pending            == Returned("pending", 0, 0)

Init == /\ sum = [j \in Positions |-> 0]
        /\ reply = Pending

Construct == /\ reply' = Returned("construct", 0, 0)
             /\ UNCHANGED sum

Get(i) == /\ reply' = Returned("get", i, ValueAt(sum, i))
          /\ UNCHANGED sum

GetSum(i) == /\ reply' = Returned("get_sum", i, sum[i])
             /\ UNCHANGED sum

Set(i, v) == /\ sum' = Added(sum, i, v - ValueAt(sum, i))
             /\ reply' = Returned("set", i, 0)

Add(i, d) == /\ sum' = Added(sum, i, d)
             /\ reply' = Returned("add", i, 0)

\* A call that would have to grow the vector fails and changes nothing.
Fail(op, i) == /\ reply' = Threw(op, i)
               /\ UNCHANGED sum

Call == /\ reply # Pending
        /\ reply' = Pending
        /\ UNCHANGED sum

Return == /\ reply = Pending
          /\ \/ Construct
             \/ \E i \in Positions :
                  \/ Get(i) \/ GetSum(i)
                  \/ \E v \in Values : Set(i, v) \/ Add(i, v - ValueAt(sum, i))
             \/ \E op \in {"set", "add"}, i \in Indexes : Fail(op, i)

\* reset is one step: nothing happens between its call and its return.
Reset == /\ reply # Pending
         /\ sum' = [j \in Positions |-> 0]
         /\ reply' = Returned("reset", 0, 0)

Next == Call \/ Return \/ Reset

Spec == Init /\ [][Next]_vars
=============================================================================
