# libext in TLA+

This directory holds a formal model of *libext* (the header-only C++17 library
"basics", `src/include/ext`): TLA+ modules translated from the headers, TLC
configurations that check them on small instances, and theorems about them that
TLAPS proves for every value of the constants.

The library is a collection: its headers hardly call one another, keep no global
state and start no threads. What is hard in it is inside single components:
loops whose invariants are nowhere written down, objects that must survive long
sequences of legal calls, exceptions that arrive between two steps, unsigned
arithmetic at its borders, and a word that several threads may exchange. The modules
follow these components one by one.

## Inventory

| Part (under `include/ext`) | State | Operations | What is hard | What makes it correct |
|---|---|---|---|---|
| `structures/binary_index_tree.hpp`, `util/bit_tricks.hpp` | a vector of partial sums, its first size | construct, `get`, `get_sum`, `set`, `add`, `reset`, growth inside `set` and `add` | growth leaves nodes stale until one more `set` repairs them; growth may throw; sizes double in a machine word | behaves like an array of elements through every sequence of calls; every loop ends |
| `util/scope_guard.hpp` | per guard: callback, policy, active flag, exceptions in flight at construction | construct, `deactivate`, destroy | guards inside callbacks that run during unwinding; callbacks that throw; order of destructors | a callback runs exactly when the scope is left the way its policy names; no exception leaves a destructor during unwinding |
| `algorithm/string_distances.hpp` (with `min` of `algorithm/basic.hpp`) | one matrix, or one column of it | `length`, `edit_fast`, `edit_matrix`, `edit` | a value is overwritten before it is read for the last time | both return the least number of edits |
| `util/string.hpp` | the pieces so far | `split_on`, `replace`, `split_on_multiple`, prefixes, case | overlapping and adjacent occurrences, the empty separator, separators that begin with one another, a size computed with unsigned numbers | pieces joined are the string; the right separator cuts; every occurrence is replaced; calls return |
| `util/flag_set.hpp` | one number | `add`, `remove`, `contains`, operators for sets and enumerators | some thirty overloads that must agree | `!=` negates `==`, in every combination of operands |
| `util/result.hpp`, `util/stat.hpp` | code, lazily made message, value | construct, copy, move, `reset`, `get_message`, conversions, in two versions | the cached message against the code; moved-from objects; overloads chosen by what the value's type has deleted | the message is that of the code; a value is copied only where it must be |
| `util/tracing_classes.hpp` | six counters | special member functions | which of them are deleted | a value knows how it was made |
| `util/serialization.hpp`, `util/endian.hpp`, `util/cast.hpp` | a cursor into a buffer | to and from little and big storage, of pointers, arrays and strings | byte order of the host, widths without a conversion, an exception between two numbers | what was written is read back, on either host |
| `util/hex.hpp` | the text and the byte being put together | encode, decode | odd length, invalid characters, numbers of one byte | decode inverts encode; damaged text is refused |
| `util/scoped_timer.hpp` | time points, memory reserved for them, two switches | `init`, `add_step`, `set_name`, `run`, `run_external`, `to_string`, `dismiss`, destroy, copy | early runs, then the destructor, which needs memory and calls back; a clock that is set back | the destructor reports exactly what was not dismissed |
| `memory/tagged_pointer.hpp`, `memory/align.hpp` | one word, in a `std::atomic` | `get`, `tag`, `tag_next`, `set` | the tag wraps; another thread brings the pointer back between a load and an exchange | a pointer and a tag; an exchange is deceived only after full rounds of the tags |
| `algorithm/basic.hpp` | none | `partition_out`, `count_occurrences`, `merge_maps` | | as `std::partition` and `std::map` |
| `util/regex.hpp` | a list of expressions | `match` | "all" of an empty list | quantifiers over the list |
| `util/load_library.hpp` | the operating system's reference counts | open, look up, close | errors reported in different ways | as the system's functions |
| everything else | none | traits, macros, formatting, conversions | compile time only, or pure output | not modelled |

Interactions. `edit_fast` and `edit_matrix` use `algorithm::min`; the binary
index tree uses `lsb` and `is_power_of_two` of `util/bit_tricks.hpp`, whose
unsigned version uses the checked casts of `util/cast.hpp`; `replace` is built on
`split_on`; `split_on_multiple` on `starts_with`; `serialization.hpp` on
`endian.hpp`; `get_stat` returns a `typed_result`; the tests put tracing objects into
results and send stored numbers as hexadecimal text; guards and timers call their
owner's callback, which may use other guards. Components are composed by modules
only where the code composes them: `Replace` with `Split`, `Result` with `Tracing`,
`Transfer` with `Storage` and `Hex`.

## Modules

| Module | Stands for |
|---|---|
| `BitTricks` | `lsb`, `is_power_of_two` and the two parent functions of the tree, as operators |
| `PrefixSums` | abstract specification: an array of integers and calls that take effect in one step |
| `BinaryIndexTree` | the tree, one action per pass of a loop, call or return |
| `ScopeGuard` | guards in the nested scopes and callbacks of one thread |
| `EditMatrix` | `edit_matrix`, one cell per action; the distance told without a matrix |
| `EditFast` | `edit_fast`, one item of the column per action |
| `Split` | `split_on`, one pass of its loop per action |
| `SplitMultiple` | `split_on_multiple`, likewise |
| `Replace` | `replace`: `Split` and what is done with the pieces |
| `FlagSet` | `flag_set` and its comparison operators |
| `Tracing` | the counting classes of `tracing_classes.hpp`: values, and what a class has deleted |
| `Outcome` | abstract specification of results: a code and a text |
| `Result`, `ResultV2` | `result` and `typed_result` of namespaces `v1` and `v2`, and `get_stat` |
| `Storage` | numbers to and from bytes, on hosts of either byte order |
| `Hex` | `encode_hex` and the loop of `decode_hex` |
| `Transfer` | numbers written on one host, sent, perhaps as text, and read on another |
| `ScopedTimer` | timers, their memory, the clock and the destructor |
| `TaggedPair` | abstract specification: an atomic pair of a pointer and a tag |
| `TaggedPointer` | the same in one word, with threads that exchange it |
| `MCStrings` | one call of `split_on`, `replace` or `split_on_multiple` |
| `MCDestructors` | a program that uses guards or one that uses timers |
| other `MC...` | the texts, indexes, programs and numbers of the runs |
| `...Proofs` | theorems and proofs about the module of that name (`SplitProofs`: also about `Replace` and `SplitMultiple`; `ResultProofs`: about `ResultV2`, which extends `Result`; `BinaryIndexTreeProofs`: also about `BitTricks`; `TransferProofs`: also about `Storage` and `Hex`) |
| `DestructorProofs` | the same for `ScopeGuard` and `ScopedTimer`, the two components that act in destructors |

### Binary index tree

`storage`, `size` and `startSize` are `_storage`, its size and `_start_size`; `pc`,
`call`, `oldSize`, `newSize`, `cursor` and `acc` are the control and the locals of
the call in progress. `sum` is a history variable: the prefix sums the calls so
far have promised. Every pass of the loops in `bit_get`, `bit_get_sum`,
`bit_modify`, the constructor and `grow_fill` is an action; so are the start of a
call and its return. `ResizeThrows` is `std::vector::resize` running out of memory,
which may happen at any growth and always beyond `MaxSize`. `set(old_size, T(0))`
inside `grow_fill` runs the same actions with `fixing` set. `newSize` is computed
modulo `WordSize`. `Lsb` is given by the number it returns and not by two's
complement; `get` and `get_sum` are called with indexes the tree has, as their
assertions ask.

`PrefixSums` is the promise: an array that has no size. `KeepsPromise` says the
tree implements it; a call between its start and its return changes nothing the
caller sees, and a call that throws changes nothing at all.

### Scope guards

A thread is a stack of frames: plain blocks, `try` blocks and bodies of callbacks.
The running frame enters others, makes guards, deactivates guards, throws or ends;
a frame that is left destroys its guards, last first, and each destructor is
`Execute` (the callback's frame is entered) or `Skip`. What C++ does (counting
exceptions in flight, unwinding, terminating) is external and follows the
standard. The handler of `execute_and_terminate_on_exception` is the `catch` of a
callback of an "always" or "on_exception" guard.

### Edit distances

`EditMatrix` fills the matrix cell by cell in the order of the loops. The
specification of its result, `DistanceIsLeast`, knows no matrix: characters of the
one string are kept for characters of the other without crossing (`Keeps`), those
kept for a different one are replaced, the rest deleted or inserted (`Cost`); the
distance is the least cost. `EditFast` has the column and `last`, and the history
variable `matrix` that records every cell it computes; `FastFollowsMatrix` says that
the record is a run of `EditMatrix`. The lengths are natural numbers: no value is
larger than the sum of the two lengths, so `std::size_t` does not overflow.

### Splitting and replacing

A piece is a view, a position and a length, as in `replace`, which splits into
`std::string_view`. `std::string_view::find` is external: the first position at or
after `start_pos` where `seq` occurs. `pieces` is a history variable with the empty
pieces that `rv` leaves out. `Replace` runs `Split` with `add_empty` and then asks for
`Capacity` characters, a `std::size_t`: `str.size() + (replacement.size() -
seq.size()) * tmp.size()` modulo `WordSize`. More than `MaxString` (`max_size()`)
makes `reserve` throw; memory that runs out below that limit is not modelled here.

`SplitMultiple` has the locals of `split_on_multiple`: `start` and `current` bound the word being
read, `words` are the views to return. `seps` is what `std::stable_sort` makes of the
caller's list when the call is an ordered one (`Sorted`). `Single` and `Several` are the
answers of `first_char_matches`; the loop over several candidates takes the first that
the rest of the string starts with (`CutFirst`). The history `cuts` holds the separator
behind each word. The separator that should cut is defined without the loop
(`RightCut`): the shortest that begins there if the list was sorted, otherwise a single
character if there is one, otherwise the caller's first.

### Flag sets

A number of the underlying type is the set of its bits, so `|`, `&`, `^` and `~` are
the operations on sets. The six comparisons are operators of their own because the
code writes each of them out.

### Results

`res` is the code and the message field of each object, `value` the counters of its
value, `class` the type of the values of a program, told by the special member
functions it has not deleted. Besides the tracing classes a value may be a reference or
a `stat`, which has no counters. Every constructor, copy, move, `reset`, conversion and
`get_message` of both versions is an action; which constructor takes part is `Stored`, from
the `enable_if` conditions. A string that was moved from is empty, as the standard
libraries have it. `written` is a history variable: the objects whose code comes from a
write to the public field, directly or through a copy; only they may show a message
that belongs to another code. `DefaultV2` leaves the code undetermined and `get_stat` copies
its buffer even when the system call failed: both are choices, as is whether the compiler leaves
out the move in `success`.

`Outcome` is the promise: a code and the text that `get_message` would return, made at once.
`LooksEager` says that the code and the message field, seen through `Report`, are a run of it,
and that reading a message changes nothing that is reported.

### Storage and hexadecimal text

A number is the sequence of its bytes, the least significant first. A host has an
operating system and a byte order; on Linux and Apple hosts only widths of 2, 4 and 8
bytes have a conversion, others throw `not_implemented`. `Memory` is `memcpy`. Each
overload of `to_little_storage`, `to_big_storage` and their `_advance` forms writes one number
per action, as the fold over its arguments does. What is conspicuous in the code is in
the model:

- `is_little()` is a constant expression over the low byte of a number and true on every
  host; only the Windows branch asks it, and Windows hosts are little-endian.
- `to_little_storage` to a string swaps the number on a big-endian host and then takes it
  apart by value: the bytes come out in the wrong order (`TakenApart`). That the numbers are
  read back is therefore checked twice: `ReadsBack`, in the run `storage_string`, is violated;
  `OthersReadBack`, in the run `transfer`, is the same for all other ways to write.
- `encode_hex` of a number of one byte prints the byte as a character (`Lost`); such a text
  is not decodable.

`Hex` has one action per character of `decode_hex`. `Transfer` composes the two: the text may
arrive in upper case, one character short, or with one character replaced by one next
to the digits in the code table.

### Timers

`timer` holds per timer the time points, the capacity of their vector and the two
switches; `report` is what the callback got in the last step. `Started` is what `init` and the
constructors leave. `InitFails` is memory that runs out in `init` after the time points were
cleared, or a size that the vector refuses: the timer then has none, contrary to the comment at
`util/scoped_timer.hpp:42`, and `run` or `set_name` read the first one (`Undefined`). A callback
that throws in `run` leaves the timer as it was dismissed; an exception in the destructor
ends the program (`DtorThrows`). A timer declares a destructor, so the compiler declares
copies and no moves; a copy reserves only what it needs. `TimerInv` allows a timer without
a time point after a failed `init` and only then; that there is none at all is
`FirstPointExists`, which the run `timer_empty` refutes. Durations are unsigned, modulo
`Width`: a clock that is set back gives a large number.

### Tagged pointers

A word is an address plus a tag below the alignment, held in a `std::atomic` as in
`examples/tagged_pointer.cpp`. The threads are external, their protocol is the one that
`tag_next` is for: load the word, set pointer and tag of an uninitialized
word in either order (the comment at `memory/tagged_pointer.hpp:35` asks for the tag first,
but either works), `compare_exchange`, and start again from the word they found if that
fails. `since` is a history variable: the updates since a thread's load. `TaggedPair` is the
promise; `LooksLikePair` the refinement, with `Both` as the mapping.

## Runs

| Run | Question | Instance | Why it is enough |
|---|---|---|---|
| `tree` | does the tree keep the promise of `PrefixSums`, does every call return? | vectors up to 8, words of 32, start sizes 0, 1, 3, 4, indexes 0 to 8, values 0 and 1 | three doublings in one call, an index that never fits, nodes of four levels; values only add up |
| `destructors` | do guards run as declared? do a timer's reports add up, does its destructor report what was not dismissed, what ends the program? | guards: 4 frames, 2 waiting guards; timers: two of them, two times, durations modulo 5, 1 or 2 points reserved, up to 2 taken | guards: an exception in a callback that runs during unwinding, with guards on both sides, needs three frames and two guards; timers: more steps than reserved, equal times and a clock set back, a copy of a timer |
| `edit_matrix` | does each cell hold the least cost? | all pairs of strings up to 3 of 3 characters | insertion, deletion, replacement and matches in every order, both strings empty |
| `edit_fast` | does one column compute the same? | the same | the same |
| `strings` | are cuts first and complete, does the right one of several separators cut, is the result of `replace` the string with every occurrence replaced, when does it throw, do all three functions end? | `split_on` and `replace`: all strings up to 6, separators up to 3, replacements up to 2 of 2 characters, words of 64, `max_size` 31; `split_on_multiple`: all strings up to 5, all lists of up to 2 separators of up to 3, ordered or not | overlapping, adjacent, leading, trailing and no occurrences; the empty separator; separators equal to, or the beginning of, one another; sizes stay below 31 in absolute value, so that the sign decides as with 64 bits |
| `results` | does a message fit its code, is a value copied only where it must be, are late messages invisible? | two objects at a time, of different classes for every value type, of the same class for two; codes ok, fail and network error; one message | a function involves at most two objects; the codes are those with and without a text and the one that is ok |
| `transfer` | do numbers arrive (but for strings of a big-endian host), is damaged text refused? | up to two numbers of 1, 2, 4 and 8 bytes, every pair of three hosts, every form, every single damage of the text | the cursor matters from the second number on; no number is its own reverse |
| `tagged` | is a word a pair, when is an exchange deceived? | alignment 4, two pointers and null, two threads, 9 updates | more than two full rounds of the tags behind a sleeping thread's back |
| `replace_absent` (violation) | is a string without the separator returned as it is? | as `strings` | |
| `flags_unequal` (violation) | is `!=` the negation of `==`? | 4 bits, the enumeration of the tests | |
| `storage_string` (violation) | do numbers that are written to a string arrive from a big-endian host? | as `transfer`, with that host alone | |
| `timer_empty` (violation) | has a timer a first time point whenever one is read? | the timers of `destructors` | |

`MaxSize`, `WordSize`, `Width`, `MaxString` are limits of the machine. `MaxDepth`, `MaxGuards` bound
the stack of the model, `MaxOps` the special member functions a value has been through,
`MaxPoints` the steps of a timer, `MaxSince` the updates behind a thread's back; each guards the
actions that would exceed it and nothing else. `MaxNumbers` bounds the
arguments of one call that writes numbers. The edit and string modules have no bounds:
their texts are finite sets given by the configuration.

Deadlock is checked for the tree, results, flag sets and tagged pointers, which can always
be called again. A thread whose outermost scope is left, a function that has returned, a
transfer that is over and a program that was terminated stop: there `CHECK_DEADLOCK FALSE`
is right, and `CallsEnd` says that the functions on strings do not stop early.

### Liveness and fairness

- `CallsReturn`: weak fairness of the steps of a call in progress (`Step`), none of the
  calls: a thread in a call goes on, a caller need not call.
- `CallsEnd`: weak fairness of the next step of the function that was called.

Guards, results, timers and transfers are called by their owners, who may stop at any time,
and have no loop that could go on for ever.
A replacement of a tagged pointer need not end: another thread may always be faster. So
there is nothing that must happen in these modules.

### Disagreements found

- `replace` throws `std::length_error` for short strings when the separator is longer
  than the replacement (`util/string.hpp:114`): one piece more than there are
  occurrences is counted, and the unsigned size wraps around. `replace("", "x", "")` and
  `replace("a", "bcd", "")` throw although nothing is to be replaced.
  `ThrowsForShortResults` says exactly when.
- `operator!=` with an enumerator on the left and a set on the right returns `==`
  (`util/flag_set.hpp:166`).
- `to_little_storage` to a `std::string` stores the bytes in the wrong order on a big-endian
  host (`util/serialization.hpp:32`): it swaps them and then takes the number apart by value,
  which is in little order already. `tests/util_serialization.cpp:29` asks for what the
  overload with a pointer stores.
- `init` of a timer clears the time points before it reserves memory for new ones
  (`util/scoped_timer.hpp:110`). If `reserve` throws, the timer has no time point, and
  `set_name`, `run` or the destructor read the first element of an empty vector, although
  "init pushes the first element" (`util/scoped_timer.hpp:42`).

All but the third happen with the real headers, the fourth after `init("x", size_t(-1))` whose
exception was caught; the third needs a big-endian host and was found by reading.

## Theorems

All theorems hold for every value of the constants that satisfies the assumptions
beside their declaration.

**Tree** (`BinaryIndexTreeProofs`, which begins with facts on `Lsb` and powers of two).
`NodesHoldRanges` speaks of the tree between calls only and is not
inductive. `TreeInv` adds what holds inside them: which nodes `bit_modify` has updated
(those that cover the index and lie below the cursor), that the new part of a grown
vector is zero until it is repaired, and what `acc` has collected. The arithmetic it
rests on: the update chain of an index visits exactly the nodes that cover it, and
the interrogation chain of `i - 1` reaches the parent of `i`. Proved: `TypeCorrect`,
`TreeInvHolds`, `NodesCorrect` and the refinement `TreeKeepsPromise`.

`LoopsEnd`: each step of a call makes `Left`, a natural number, smaller. `Left` counts the
steps to come: to build, to grow, to repair each node of the new part, to follow a chain.
It needs `CallsFit`, that twice an index is a number of the machine: for an index with the
highest bit set `new_size * 2` wraps to zero and `grow` never ends (a hazard listed, no bug of any
tree that memory can hold).

**Guards** (`DestructorProofs`). `ScopeInv`: each frame was entered with as many
exceptions in flight as the frames below are unwinding, each guard recorded that
number, and a callback runs only above a frame that is left in its policy's way.
From it follow `GuardsCount`, `NoSecondException` and the action property `GuardsRun`,
for stacks of any depth and any number of guards.

**Edit distances** (`EditMatrixProofs`, `EditFastProofs`). `LeastInv`: every filled cell is
the least cost of its prefixes. A way to keep characters either leaves out the last
character of one prefix (`DeleteLast`, `InsertLast`) or keeps the two last ones for
one another (`LastKept`), and each of these can be undone (`KeepLast`); so the least
cost of two prefixes is the least of the three neighbours' (`LeastOfNeighbours`).
`MatrixInv` bounds each cell by the lengths of its prefixes. `FastInv` says which cells of the matrix
the column holds; with it each step of `edit_fast` fills the next cell of
`edit_matrix` (`FastImplementsMatrix`), and so `FastReturnsDistance` follows from
`ResultLeast`, instantiated.

**Splitting and replacing** (`SplitProofs`). `SplitInv` adds to `Tiles` and `CutsAreFirst` where the
current piece starts. Proved: `SplitCorrect`, `PiecesTile`, `CutsFirst` and `PiecesReturned`: what
is returned is every piece, or every piece that is not empty, in its order. `MultipleInv`
adds to `MultipleTiles` and `CutsAtSeparators` that no separator begins in the word being
read: a pass of the loop moves past a position only after every candidate was compared
there. In ordered mode a prefix sorts before what it begins, so the first candidate that
matches is the shortest. Proved: `MultipleCorrect`, `WordsTile`, `CutsRight`.

The loops end: each pass takes a character of the string, or a piece to join (`SplitEnds`,
`ReadingEnds`, `JoiningEnds`, with what is left as a natural number: `SplitLeft`, `MultipleLeft`,
`ReplaceLeft`). No empty separator keeps a loop where it is: `split_on` returns before its
loop, `split_on_multiple` never takes an empty candidate.

`ReplaceInv` adds to `SplitInv` the pieces already joined, the characters still to be joined
(`JoinsInOrder`) and the size that was asked for (`SizeIsKnown`). That the result is the
string with every first occurrence replaced (`ReplacesAll`) compares two recursive
definitions from their ends, one piece at a time. `ThrowsWhenShort` says for which calls
`replace` throws if the result fits: those for which the unsigned size wraps below zero. It
needs `2 * MaxString < WordSize`, which holds of `std::string`: its `max_size()` is below half of
the values of `std::size_t`. Proved besides: `ReplaceCorrect`.

**Results** (`ResultProofs`). Every action of both versions has one of five effects on codes and
messages (set, copy, move, read, write of the code; `Effect`), and one on the values.
`ResultInv` is kept by each effect, and each is a step of `Outcome`, or changes nothing that
is reported. Proved: `ResultCorrect`, the refinement `LazyLooksEager`, and `ResultCosts`: the copies
and moves that a function makes of a value are those its signature needs, for every class
of values. The last needs the kinds of values to be told apart (`KindsAssumption`).

**Tagged pointers** (`TaggedPointerProofs`). `TaggedInv`: the tag of the word is that of a
thread's load plus the updates since, modulo the alignment; an exchange adds one to
both because the tag it brings is `tag_next` of the word it replaces. Proved:
`TaggedCorrect`, `TagsDetect` (an exchange is deceived only after full rounds) and the
refinement `ImplementsPair`, for every alignment and number of threads.

**Transfers** (`TransferProofs`). `IInv` ties the stages together: `buffer` is the first `written` numbers
as the code stores them (reversed for strings of a big-endian host), what is sent is the text of all of them, what arrives was
damaged in one of the modelled ways, the digits decoded so far are those of the payload,
and the cursor is behind the numbers that were read. It rests on three groups of lemmas:
where a part is in a concatenation of any number of parts (`UptoPiece`), the digits of a byte
in either case (`EncodeIs`, `DigitsAreDecoded`, `ArrivedIs`), and the conversions of two hosts that
undo one another (`WritesStored`, `ReadsArrived`). Proved, for any number of arguments and any
bytes: `BytesAreNumbers` and `NumbersReadBack`, which leave out strings of a big-endian host
(`TakenApart`), and `DamageIsRefused`. `NumbersAssumption` is needed: of a
width that only Windows converts, as three bytes would be, the exception on another host
would leave the raw bytes in `out`; the integral types have 1, 2, 4 or 8.

**Timers** (`DestructorProofs`). `TimersOK`: the callback is enabled exactly when the report was not
dismissed, and a timer that is no copy has the memory it reserved. Proved: `TimersCorrect`,
`ReportsAddUp` (the steps of a report telescope, modulo `Width`) and the action properties
`ReportsOnce` and `DismissedEndsQuietly`, for any number of timers and any clock.

Where a property compares with a definition by recursion over the data (`Replaced`, `StepsOf`,
`FlattenSeq`), the definition is a recursive function and not a `RECURSIVE` operator. The proofs
show that a function with its equation exists, and then argue from a least index at which
the claim fails (`NatMinimum`), which is induction without its scheme.

Inductive invariants that are not among the properties of a run (`ReplaceInv`, `MultipleInv`,
`IInv`, `SplitInv`) were checked by TLC on the same instances before they were proved.

Only model-checked: the liveness properties `CallsReturn` and `CallsEnd` (fairness and `ENABLED`
are beyond the provers here). The proofs give the half of them that is safety, that no loop
goes on for ever; that a step can be taken until the end is shown by TLC. Every safety
property and refinement of a passing run is a theorem. The four findings are counterexamples
of TLC.

## Plan

The modules that were planned are written, and what their runs check of safety is proved.
What could follow: that the guards of the loops' steps leave no state out in which a call
is in progress, which with the variants is the argument for the liveness properties; for
flag sets, that the operators on enumerators and on sets agree.

## Not modelled

- `algorithm/basic.hpp` but for `min`: `partition_out`, `count_occurrences` and `merge_maps` are single
  passes of `std::partition` and `std::map` that keep nothing between calls; a model would
  restate the loop as its own specification. `util/regex.hpp` likewise: `match` is a
  conjunction or disjunction of `std::regex_match`.
- `util/load_library.hpp` passes its arguments to the operating system, where the state is.
- `util/enum.hpp`, `util/enum_operations.hpp`: conversions and operators without state; what they
  compute is what flag sets compute.
- `util/windows_strings.hpp`, `io.hpp`, `pretty.hpp`, `term.hpp`, `type_to_string.hpp`,
  `to_str_eam.hpp`, `forward_std_string.hpp`: formatting, input, output and conversions of the
  operating system.
- Traits, macros, `meta/`, `container_*.hpp`, `lazy.hpp`, `basic.hpp`, `except.hpp`, `benchmark.h`: compile-time
  code and wrappers of one line.
- Of the components that are modelled: `uncaught_exception_counter::count` (no caller);
  `ends_with` and the conversions of case; `valid` and the boolean value of `v2::result`;
  `tracing_class`, which prints; of `cast.hpp` the checked conversions and those by `memcpy`;
  of `tagged_pointer` what cannot be instantiated (`set` with two arguments, `*`, `->` and the
  conversion to `bool` do not compile); `to_string` of a timer, which does not compile when it is
  used (`to_string_stream` is not found), and the names it gives its steps; `length` of two
  strings, the difference of their lengths; and the types of characters, elements and callbacks.
- Limits without a property: `1u << msb` in the tree's constructor for start sizes of
  `2^31` and more, a growth to an index of the word's highest bit, and a callback whose copy throws (`CopyThrows` is
  an action, but nothing promises that it is survived).
