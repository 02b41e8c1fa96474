----------------------------- MODULE TaggedPair -----------------------------
(***************************************************************************)
(* What tagged_pointer promises: an atomic variable that holds a pointer   *)
(* and a tag, each set without a change to the other, compared together.   *)
(* Every thread that replaces the pointer moves the tag on to the next.    *)
(***************************************************************************)
EXTENDS Naturals

CONSTANTS Threads, Pointers, Addresses,
          NumTags               \* the tags are 0 to NumTags - 1, in turn

VARIABLES shared,               \* the variable
          active,               \* the threads that are replacing the pointer
          expected, desired,    \* what each has seen, and what it puts there
          unset                 \* the parts of desired it has yet to set

Tags    == 0 .. NumTags - 1
Pairs   == [pointer : Addresses, tag : Tags]
Nothing == [pointer |-> 0, tag |-> 0]

Init ==
  /\ shared \in [pointer : Pointers, tag : Tags]
  /\ active = {}
  /\ expected = [t \in Threads |-> Nothing] /\ desired = [t \in Threads |-> Nothing]
  /\ unset = [t \in Threads |-> {}]

Begin(t) ==
  /\ t \notin active /\ active' = active \union {t}
  /\ expected' = [expected EXCEPT ![t] = shared]
  /\ \E pair \in Pairs : desired' = [desired EXCEPT ![t] = pair]
  /\ unset' = [unset EXCEPT ![t] = {"pointer", "tag"}]
  /\ UNCHANGED shared

Put(t, part, value) ==
  /\ t \in active /\ part \in unset[t]
  /\ desired' = [desired EXCEPT ![t][part] = value]
  /\ unset' = [unset EXCEPT ![t] = @ \ {part}]
  /\ UNCHANGED <<shared, active, expected>>

Replace(t) ==
  /\ t \in active /\ unset[t] = {} /\ shared = expected[t]
  /\ shared' = desired[t] /\ active' = active \ {t}
  /\ expected' = [expected EXCEPT ![t] = Nothing] /\ desired' = [desired EXCEPT ![t] = Nothing]
  /\ UNCHANGED unset

Retry(t) ==
  /\ t \in active /\ unset[t] = {} /\ shared # expected[t]
  /\ expected' = [expected EXCEPT ![t] = shared]
  /\ unset' = [unset EXCEPT ![t] = {"pointer", "tag"}]
  /\ UNCHANGED <<shared, active, desired>>

Step(t) ==
  \/ Begin(t)
  \/ \E p \in Pointers : Put(t, "pointer", p)
  \/ Put(t, "tag", (expected[t].tag + 1) % NumTags)
  \/ Replace(t)
  \/ Retry(t)

Spec == Init /\ [][\E t \in Threads : Step(t)]_<<shared, active, expected, desired, unset>>
=============================================================================
