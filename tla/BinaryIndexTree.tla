-------------------------- MODULE BinaryIndexTree --------------------------
(***************************************************************************)
(* structures/binary_index_tree.hpp: prefix sums in a vector whose element *)
(* 0 stands alone and whose element i > 0 holds the sum of the elements    *)
(* after parent_interrogation(i) up to i.                                  *)
(*                                                                         *)
(* One action is one pass of a loop, one call or one return of the code.   *)
(* A caller may construct, get, get_sum, set, add and reset in any order;  *)
(* the vector may fail to grow.  An index past the end is only passed to   *)
(* set and add: get and get_sum assert that it is in range.                *)
(***************************************************************************)
EXTENDS Integers, BitTricks

CONSTANTS MaxSize,     \* the longest vector that can be allocated
          WordSize,    \* 2^w where std::size_t has w bits
          StartSizes,  \* sizes passed to the constructor
          Indexes,     \* indexes passed to set and add
          Values       \* element values written, as in PrefixSums

ASSUME MaxSizeAssumption    == MaxSize \in Nat
ASSUME WordSizeAssumption   == WordSize \in Nat /\ IsPowerOfTwo(WordSize)
ASSUME StartSizesAssumption ==
  StartSizes \subseteq Nat /\ \A n \in StartSizes : 1 <= MaxSize /\ 2 * n <= MaxSize
ASSUME IndexesAssumption    == Indexes \subseteq 0 .. WordSize - 1
ASSUME ValuesAssumption     == Values \subseteq Int

VARIABLES
  storage,    \* _storage, a function from 0 .. size - 1
  size,       \* _storage.size()
  startSize,  \* _start_size
  pc,         \* where the code is; "idle" between two calls
  call,       \* the call in progress and its arguments
  fixing,     \* inside set(old_size, T(0)) of grow_fill
  oldSize,    \* old_size
  newSize,    \* new_size
  cursor,     \* the index or search_index a loop runs on
  acc,        \* sum, rv, then mod_value
  sum,        \* history: the prefix sums promised to the caller
  reply       \* outcome of the last call that returned

vars == <<storage, size, startSize, pc, call, fixing, oldSize, newSize,
          cursor, acc, sum, reply>>

Promise == INSTANCE PrefixSums

Slots == 0 .. size - 1

Zeros(n) == [i \in 0 .. n - 1 |-> 0]

Call(op, i, v) == [op |-> op, index |-> i, value |-> v]

\* A call returns r and its locals are gone.
Return(r) ==
  /\ reply' = r
  /\ pc' = "idle"
  /\ call' = Call("none", 0, 0)
  /\ oldSize' = 0
  /\ newSize' = 0
  /\ cursor' = 0
  /\ acc' = 0

\* The index and value the bit_ functions work on: set(old_size, T(0)) while
\* grow_fill repairs the tree, the caller's otherwise.
node   == IF fixing THEN oldSize ELSE call.index
target == IF fixing THEN 0 ELSE call.value

\* Where a call of set and where a call of add go on after grow_fill.
AfterGrow == IF call.op = "set" THEN "bit_get" ELSE "bit_modify"

(***************************************************************************)
(* Construction: the size is rounded up to a power of two by counting its  *)
(* bits; newSize stands for 1u << msb.                                     *)
(***************************************************************************)
\* Mutant: a size that is no power of two is taken as it is.
RoundNothing(n) == pc = "allocate" /\ newSize = n

RoundUp(n) == IF IsPowerOfTwo(n) THEN pc = "allocate" /\ newSize = n
                                 ELSE pc = "count_bits" /\ newSize = 1

Init ==
  /\ \E n \in StartSizes :
       /\ call = Call("construct", n, 0)
       /\ cursor = n
       /\ RoundUp(n)
  /\ storage = Zeros(0)
  /\ size = 0
  /\ startSize = 0
  /\ fixing = FALSE
  /\ oldSize = 0
  /\ acc = 0
  /\ sum = [j \in Promise!Positions |-> 0]
  /\ reply = Promise!Pending

CountBit ==
  /\ pc = "count_bits"
  /\ cursor # 0
  /\ cursor' = cursor \div 2
  /\ newSize' = 2 * newSize
  /\ UNCHANGED <<storage, size, startSize, pc, call, fixing, oldSize, acc, sum,
                 reply>>

BitsCounted ==
  /\ pc = "count_bits"
  /\ cursor = 0
  /\ pc' = "allocate"
  /\ UNCHANGED <<storage, size, startSize, call, fixing, oldSize, newSize,
                 cursor, acc, sum, reply>>

Allocate ==
  /\ pc = "allocate"
  /\ storage' = Zeros(newSize)
  /\ size' = newSize
  /\ startSize' = newSize
  /\ Return(Promise!Returned("construct", 0, 0))
  /\ UNCHANGED <<fixing, sum>>

(***************************************************************************)
(* The calls.                                                              *)
(***************************************************************************)
Begin(op, i, v, where) ==
  /\ pc = "idle"
  /\ call' = Call(op, i, v)
  /\ pc' = where
  /\ reply' = Promise!Pending
  /\ UNCHANGED <<storage, size, startSize, fixing, oldSize, newSize, sum>>

CallGet == \E i \in Slots : Begin("get", i, 0, "bit_get") /\ UNCHANGED <<cursor, acc>>

\* bit_get_sum starts from *begin and walks down from index.
CallGetSum ==
  \E i \in Slots :
    /\ Begin("get_sum", i, 0, "sum_loop")
    /\ acc' = storage[0]
    /\ cursor' = i

CallSet ==
  \E i \in Indexes, v \in Values :
    Begin("set", i, v, "grow_fill") /\ UNCHANGED <<cursor, acc>>

\* Callers keep the elements within Values, so that TLC has finitely many.
CallAdd ==
  \E i \in Indexes, v \in Values :
    LET held == IF i < size THEN Promise!ValueAt(sum, i) ELSE 0
    IN  Begin("add", i, v - held, "grow_fill") /\ UNCHANGED <<cursor, acc>>

\* Mutant: resize without clear keeps the old elements.
ResetOnlyResizes ==
  /\ pc = "idle"
  /\ storage' = [i \in 0 .. startSize - 1 |-> IF i < size THEN storage[i] ELSE 0]
  /\ size' = startSize
  /\ sum' = [j \in Promise!Positions |-> 0]
  /\ reply' = Promise!Returned("reset", 0, 0)
  /\ UNCHANGED <<startSize, pc, call, fixing, oldSize, newSize, cursor, acc>>

\* clear and resize(_start_size): the old elements are gone.
Reset ==
  /\ pc = "idle"
  /\ storage' = Zeros(startSize)
  /\ size' = startSize
  /\ sum' = [j \in Promise!Positions |-> 0]
  /\ reply' = Promise!Returned("reset", 0, 0)
  /\ UNCHANGED <<startSize, pc, call, fixing, oldSize, newSize, cursor, acc>>

(***************************************************************************)
(* grow_fill: double the size until the index fits, resize, and let        *)
(* set(old_size, T(0)) repair the sums of the new part.                    *)
(***************************************************************************)
IndexFits ==
  /\ pc = "grow_fill"
  /\ call.index < size
  /\ pc' = AfterGrow
  /\ acc' = call.value
  /\ UNCHANGED <<storage, size, startSize, call, fixing, oldSize, newSize,
                 cursor, sum, reply>>

StartGrowing ==
  /\ pc = "grow_fill"
  /\ call.index >= size
  /\ oldSize' = size
  /\ newSize' = size
  /\ pc' = "grow"
  /\ UNCHANGED <<storage, size, startSize, call, fixing, cursor, acc, sum,
                 reply>>

Double ==
  /\ pc = "grow"
  /\ newSize <= call.index
  /\ newSize' = (newSize * 2) % WordSize
  /\ UNCHANGED <<storage, size, startSize, pc, call, fixing, oldSize, cursor,
                 acc, sum, reply>>

\* Mutant: the new part is not repaired.
ResizeAndGoOn ==
  /\ pc = "grow"
  /\ newSize > call.index
  /\ newSize <= MaxSize
  /\ storage' = [i \in 0 .. newSize - 1 |-> IF i < size THEN storage[i] ELSE 0]
  /\ size' = newSize
  /\ fixing' = FALSE
  /\ pc' = AfterGrow
  /\ acc' = call.value
  /\ UNCHANGED <<startSize, call, oldSize, newSize, cursor, sum, reply>>

Resize ==
  /\ pc = "grow"
  /\ newSize > call.index
  /\ newSize <= MaxSize
  /\ storage' = [i \in 0 .. newSize - 1 |-> IF i < size THEN storage[i] ELSE 0]
  /\ size' = newSize
  /\ fixing' = TRUE
  /\ pc' = "bit_get"
  /\ UNCHANGED <<startSize, call, oldSize, newSize, cursor, acc, sum, reply>>

\* resize throws when memory runs out, and always beyond MaxSize.
ResizeThrows ==
  /\ pc = "grow"
  /\ newSize > call.index
  /\ Return(Promise!Threw(call.op, call.index))
  /\ UNCHANGED <<storage, size, startSize, fixing, sum>>

\* The repair is done; the caller's set or add goes on.
TreeFixed ==
  /\ pc = "modified"
  /\ fixing
  /\ fixing' = FALSE
  /\ pc' = AfterGrow
  /\ acc' = call.value
  /\ UNCHANGED <<storage, size, startSize, call, oldSize, newSize, cursor, sum,
                 reply>>

(***************************************************************************)
(* bit_get_sum                                                             *)
(***************************************************************************)
AddToSum ==
  /\ pc = "sum_loop"
  /\ cursor > 0
  /\ acc' = acc + storage[cursor]
  /\ cursor' = ParentInterrogation(cursor)
  /\ UNCHANGED <<storage, size, startSize, pc, call, fixing, oldSize, newSize,
                 sum, reply>>

ReturnSum ==
  /\ pc = "sum_loop"
  /\ cursor = 0
  /\ Return(Promise!Returned("get_sum", call.index, acc))
  /\ UNCHANGED <<storage, size, startSize, fixing, sum>>

(***************************************************************************)
(* bit_get, for get and for bit_set                                        *)
(***************************************************************************)
ReadNode ==
  /\ pc = "bit_get"
  /\ acc' = storage[node]
  /\ IF node > 0 THEN cursor' = node - 1 /\ pc' = "get_loop"
                 ELSE cursor' = cursor /\ pc' = "got"
  /\ UNCHANGED <<storage, size, startSize, call, fixing, oldSize, newSize, sum,
                 reply>>

SubtractPredecessor ==
  /\ pc = "get_loop"
  /\ cursor # ParentInterrogation(node)
  /\ acc' = acc - storage[cursor]
  /\ cursor' = ParentInterrogation(cursor)
  /\ UNCHANGED <<storage, size, startSize, pc, call, fixing, oldSize, newSize,
                 sum, reply>>

ReachParent ==
  /\ pc = "get_loop"
  /\ cursor = ParentInterrogation(node)
  /\ pc' = "got"
  /\ UNCHANGED <<storage, size, startSize, call, fixing, oldSize, newSize,
                 cursor, acc, sum, reply>>

ReturnValue ==
  /\ pc = "got"
  /\ call.op = "get"
  /\ Return(Promise!Returned("get", call.index, acc))
  /\ UNCHANGED <<storage, size, startSize, fixing, sum>>

\* Mutant: mod_value = current - value
DifferenceSwapped ==
  /\ pc = "got"
  /\ call.op # "get"
  /\ acc' = acc - target
  /\ pc' = "bit_modify"
  /\ UNCHANGED <<storage, size, startSize, call, fixing, oldSize, newSize,
                 cursor, sum, reply>>

\* mod_value = value - current
Difference ==
  /\ pc = "got"
  /\ call.op # "get"
  /\ acc' = target - acc
  /\ pc' = "bit_modify"
  /\ UNCHANGED <<storage, size, startSize, call, fixing, oldSize, newSize,
                 cursor, sum, reply>>

(***************************************************************************)
(* bit_modify                                                              *)
(***************************************************************************)
ModifyZero ==
  /\ pc = "bit_modify"
  /\ node = 0
  /\ storage' = [storage EXCEPT ![0] = @ + acc]
  /\ pc' = "modified"
  /\ UNCHANGED <<size, startSize, call, fixing, oldSize, newSize, cursor, acc,
                 sum, reply>>

StartModify ==
  /\ pc = "bit_modify"
  /\ node # 0
  /\ cursor' = node
  /\ pc' = "modify_loop"
  /\ UNCHANGED <<storage, size, startSize, call, fixing, oldSize, newSize, acc,
                 sum, reply>>

ModifyNode ==
  /\ pc = "modify_loop"
  /\ storage' = [storage EXCEPT ![cursor] = @ + acc]
  /\ cursor' = ParentUpdate(cursor)
  /\ pc' = IF cursor' < size THEN "modify_loop" ELSE "modified"
  /\ UNCHANGED <<size, startSize, call, fixing, oldSize, newSize, acc, sum,
                 reply>>

ReturnModified ==
  /\ pc = "modified"
  /\ ~fixing
  /\ sum' = Promise!Added(sum, call.index,
                          IF call.op = "set"
                          THEN call.value - Promise!ValueAt(sum, call.index)
                          ELSE call.value)
  /\ Return(Promise!Returned(call.op, call.index, 0))
  /\ UNCHANGED <<storage, size, startSize, fixing>>

Construct == CountBit \/ BitsCounted \/ Allocate
Grow      == IndexFits \/ StartGrowing \/ Double \/ Resize \/ ResizeThrows \/ TreeFixed
Query     == AddToSum \/ ReturnSum \/ ReadNode \/ SubtractPredecessor \/ ReachParent
               \/ ReturnValue
Modify    == Difference \/ ModifyZero \/ StartModify \/ ModifyNode \/ ReturnModified

Step == Construct \/ Grow \/ Query \/ Modify
Next == CallGet \/ CallGetSum \/ CallSet \/ CallAdd \/ Reset \/ Step

\* The code of a call runs on; nothing obliges the caller to call.
Spec     == Init /\ [][Next]_vars
FairSpec == Spec /\ WF_vars(Step)
-----------------------------------------------------------------------------
Locations ==
  {"count_bits", "allocate", "idle", "grow_fill", "grow", "sum_loop",
   "bit_get", "get_loop", "got", "bit_modify", "modify_loop", "modified"}

Constructing == pc \in {"count_bits", "allocate"}

\* The variables have their types, and once the tree is constructed the size of
\* its vector is a power of two ("size must be a power of 2" at _storage).
TypeOK ==
  /\ size \in 0 .. MaxSize
  /\ ~Constructing => IsPowerOfTwo(size) /\ IsPowerOfTwo(startSize)
  /\ storage \in [Slots -> Int]
  /\ startSize \in 0 .. MaxSize
  /\ pc \in Locations
  /\ call \in [op : {"construct", "none", "get", "get_sum", "set", "add"},
               index : Nat, value : Int]
  /\ fixing \in BOOLEAN
  /\ oldSize \in Nat
  /\ newSize \in Nat
  /\ cursor \in Nat
  /\ acc \in Int
  /\ sum \in [Promise!Positions -> Int]
  /\ reply \in [op : {"pending", "construct", "reset", "get", "get_sum", "set", "add"},
                index : Nat, result : Int, threw : BOOLEAN]

\* The sum of the elements a node stands for, by the prefix sums promised.
RangeSum(i) == IF i = 0 THEN sum[0] ELSE sum[i] - sum[ParentInterrogation(i)]

\* Between two calls every node holds the sum of the elements after its
\* interrogation parent up to itself, whatever was written, grown, reset or
\* failed before, and the positions past the end hold nothing.
NodesHoldRanges ==
  pc = "idle" =>
    /\ \A i \in Slots : storage[i] = RangeSum(i)
    /\ \A j \in Promise!Positions : j >= size => sum[j] = sum[size - 1]

\* get, get_sum, set, add and reset behave as on an array of elements; a call
\* that throws because the vector cannot grow leaves the array as it was.
KeepsPromise == Promise!Spec

\* Every loop ends: a call returns or throws.
CallsReturn == pc # "idle" ~> pc = "idle"

-----------------------------------------------------------------------------
(***************************************************************************)
(* The inductive invariant: what the vector and the locals hold inside the *)
(* calls.                                                                  *)
(***************************************************************************)
\* Node i has to change when the element at n changes.
Covers(n, i) == IF n = 0 THEN i = 0 ELSE n <= i /\ ParentInterrogation(i) < n

\* What bit_modify adds to the nodes that cover node.
Delta == IF fixing THEN sum[oldSize - 1] - sum[0]
         ELSE IF call.op = "set"
              THEN call.value - Promise!ValueAt(sum, call.index)
              ELSE call.value

Updated(i) == \/ pc = "modify_loop" /\ Covers(node, i) /\ i < cursor
              \/ pc = "modified" /\ Covers(node, i)

\* The new part of a vector that just grew is zero until bit_modify repairs it.
NodesInFlight ==
  \A i \in Slots :
    storage[i] = (IF fixing /\ i >= oldSize THEN 0 ELSE RangeSum(i))
                   + (IF Updated(i) THEN Delta ELSE 0)

TailIsFlat ==
  \A j \in Promise!Positions :
    IF fixing THEN j >= oldSize => sum[j] = sum[oldSize - 1]
              ELSE j >= size => size = 0 \/ sum[j] = sum[size - 1]

ConstructInv ==
  Constructing =>
    /\ size = 0 /\ ~fixing
    /\ sum = [j \in Promise!Positions |-> 0]
    /\ IsPowerOfTwo(newSize)
    /\ pc = "allocate" => newSize <= MaxSize
    /\ pc = "count_bits" =>
         newSize * (IF cursor = 0 THEN 1 ELSE 2 * cursor) <= MaxSize

CallInv ==
  /\ pc = "idle" <=> reply # Promise!Pending
  /\ pc = "idle" => call.op = "none"
  /\ Constructing => call.op = "construct"
  /\ call.op \in {"set", "add"} => call.index \in Indexes
  /\ call.op = "set" => call.value \in Values
  /\ call.op = "add" /\ call.index \in Promise!Positions =>
       call.value + Promise!ValueAt(sum, call.index) \in Values
  /\ pc \in {"grow_fill", "grow", "bit_modify", "modify_loop", "modified"} =>
       call.op \in {"set", "add"}
  /\ pc \in {"bit_get", "get_loop", "got"} =>
       call.op \in {"get", "set"} \/ fixing
  /\ pc = "sum_loop" => call.op = "get_sum"
  /\ pc \in {"sum_loop", "bit_get", "get_loop", "got", "bit_modify",
             "modify_loop", "modified"} => call.index < size

GrowInv ==
  /\ fixing => /\ pc \in {"bit_get", "get_loop", "got", "bit_modify",
                          "modify_loop", "modified"}
               /\ call.op \in {"set", "add"}
               /\ IsPowerOfTwo(oldSize) /\ oldSize < size
  /\ pc = "grow" => /\ oldSize = size /\ call.index >= size
                    /\ newSize = 0 \/ IsPowerOfTwo(newSize)

LoopInv ==
  /\ pc = "sum_loop" => /\ cursor <= call.index
                        /\ acc = sum[0] + sum[call.index] - sum[cursor]
  /\ pc = "get_loop" => /\ node > 0
                        /\ ParentInterrogation(node) <= cursor /\ cursor < node
                        /\ acc = storage[node] - (sum[node - 1] - sum[cursor])
  /\ pc = "got" => acc = IF fixing THEN sum[0] - sum[oldSize - 1]
                                   ELSE Promise!ValueAt(sum, call.index)
  /\ pc \in {"bit_modify", "modify_loop", "modified"} => acc = Delta
  /\ pc = "modify_loop" => node > 0 /\ Covers(node, cursor) /\ cursor < size

\* Holds at every step of every call; NodesHoldRanges is its idle case.
TreeInv ==
  TypeOK /\ NodesInFlight /\ TailIsFlat /\ ConstructInv /\ CallInv /\ GrowInv /\ LoopInv
=============================================================================
