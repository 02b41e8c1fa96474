----------------------------- MODULE ScopeGuard -----------------------------
(***************************************************************************)
(* util/scope_guard.hpp: guards that run a callback when their scope is    *)
(* left, always, only by an exception, or only without one.  A guard knows *)
(* how its scope is left from std::uncaught_exceptions() alone, compared   *)
(* with its value at the guard's construction.                             *)
(*                                                                         *)
(* The module models one thread as a stack of frames: plain blocks, try    *)
(* blocks with a catch (...) handler, and the bodies of callbacks.  Each   *)
(* frame may enter others, make guards, deactivate any guard it can reach, *)
(* throw, or come to its end; what the language does with exceptions       *)
(* (unwinding, counting, terminating) is external and follows the C++17    *)
(* standard.                                                               *)
(***************************************************************************)
EXTENDS Integers, Sequences, FiniteSets

CONSTANTS MaxDepth,   \* bound on the frames of the stack: the innermost of
                      \* so many enters no frame and makes no guard
          MaxGuards   \* bound on the guards that wait for their destructors

ASSUME BoundsAssumption == MaxDepth \in Nat /\ MaxGuards \in Nat

VARIABLES
  stack,       \* the frames, innermost last
  uncaught,    \* std::uncaught_exceptions()
  terminated   \* why std::terminate was called, or "no"

vars == <<stack, uncaught, terminated>>

\* scope_guard_execution_policy
Policies == {"always", "on_no_exception", "on_exception"}

Frame(kind, policy, n) ==
  [kind |-> kind, policy |-> policy, mode |-> "run", guards |-> <<>>, entered |-> n]

\* Mutants: exceptions_on_enter_scope is not initialised; it starts at zero.
UncountedGuard(policy, n) == [policy |-> policy, counter |-> -1, active |-> TRUE]
GuardFromZero(policy, n)  == [policy |-> policy, counter |-> 0, active |-> TRUE]

Guard(policy, n) == [policy |-> policy, counter |-> n, active |-> TRUE]

depth == Len(stack)
top   == stack[depth]
Pop(s) == SubSeq(s, 1, Len(s) - 1)

\* The frame and the place in it of every guard.
Places == UNION {{i} \X (1 .. Len(stack[i].guards)) : i \in 1 .. depth}

Running == terminated = "no" /\ depth > 0 /\ top.mode = "run"
Leaving == terminated = "no" /\ depth > 0 /\ top.mode # "run"

\* The exception finds a handler: a try block, or the catch (...) of
\* execute_and_terminate_on_exception around a callback.
Handler(f) == \/ f.kind = "try"
              \/ f.kind = "callback" /\ f.policy # "on_no_exception"

(***************************************************************************)
(* What the code of a scope, or of a callback, does.                       *)
(***************************************************************************)
Init ==
  /\ stack = <<Frame("block", "none", 0)>>
  /\ uncaught = 0
  /\ terminated = "no"

Enter(kind) ==
  /\ Running
  /\ depth < MaxDepth
  /\ stack' = Append(stack, Frame(kind, "none", uncaught))
  /\ UNCHANGED <<uncaught, terminated>>

\* The constructor of a guard records the exceptions in flight.
MakeGuard(policy) ==
  /\ Running
  /\ depth < MaxDepth
  /\ Cardinality(Places) < MaxGuards
  /\ stack' = [stack EXCEPT ![depth].guards = Append(@, Guard(policy, uncaught))]
  /\ UNCHANGED <<uncaught, terminated>>

Deactivate(i, j) ==
  /\ Running
  /\ stack' = [stack EXCEPT ![i].guards[j].active = FALSE]
  /\ UNCHANGED <<uncaught, terminated>>

Leave ==
  /\ Running
  /\ stack' = [stack EXCEPT ![depth].mode = "leave"]
  /\ UNCHANGED <<uncaught, terminated>>

Throw ==
  /\ Running
  /\ stack' = [stack EXCEPT ![depth].mode = "unwind"]
  /\ uncaught' = uncaught + 1
  /\ UNCHANGED terminated

\* Without a handler the stack need not be unwound before std::terminate.
ThrowUnhandled ==
  /\ Running
  /\ \A i \in 1 .. depth : ~Handler(stack[i])
  /\ terminated' = "unhandled"
  /\ UNCHANGED <<stack, uncaught>>

\* Copying the callback throws inside the noexcept constructor.
CopyThrows ==
  /\ Running
  /\ terminated' = "noexcept"
  /\ UNCHANGED <<stack, uncaught>>

(***************************************************************************)
(* The destructor of the last guard of a scope that is being left.         *)
(***************************************************************************)
\* Mutant: any exception in flight counts, as with std::uncaught_exception().
AnyException(g) == uncaught > 0

ExceptionOccurred(g) == uncaught > g.counter

\* Mutant: deactivate has no effect.
ExecutesAlways(g) ==
  \/ g.policy = "always"
  \/ g.policy = "on_exception" /\ ExceptionOccurred(g)
  \/ g.policy = "on_no_exception" /\ ~ExceptionOccurred(g)

\* Mutant: an on_no_exception callback does not look at the counter.
ExecutesUnasked(g) ==
  /\ g.active
  /\ g.policy = "on_exception" => ExceptionOccurred(g)

Executes(g) ==
  /\ g.active
  /\ \/ g.policy = "always"
     \/ g.policy = "on_exception" /\ ExceptionOccurred(g)
     \/ g.policy = "on_no_exception" /\ ~ExceptionOccurred(g)

last == top.guards[Len(top.guards)]

Destroyed == [stack EXCEPT ![depth].guards = Pop(@)]

Execute ==
  /\ Leaving
  /\ top.guards # <<>>
  /\ Executes(last)
  /\ stack' = Append(Destroyed, Frame("callback", last.policy, uncaught))
  /\ UNCHANGED <<uncaught, terminated>>

Skip ==
  /\ Leaving
  /\ top.guards # <<>>
  /\ ~Executes(last)
  /\ stack' = Destroyed
  /\ UNCHANGED <<uncaught, terminated>>

(***************************************************************************)
(* The end of a frame whose guards are destroyed.                          *)
(***************************************************************************)
Ending(mode) == Leaving /\ top.guards = <<>> /\ top.mode = mode

\* The frame below goes on: with its code, or with its destructors.
Return ==
  /\ Ending("leave")
  /\ stack' = Pop(stack)
  /\ UNCHANGED <<uncaught, terminated>>

Catch ==
  /\ Ending("unwind")
  /\ top.kind = "try"
  /\ stack' = Pop(stack)
  /\ uncaught' = uncaught - 1
  /\ UNCHANGED terminated

\* An exception leaves a block, or a callback through the destructor of an
\* on_no_exception guard, and unwinds the frame below.
Propagate ==
  /\ Ending("unwind")
  /\ ~Handler(top)
  /\ depth > 1
  /\ stack[depth - 1].mode # "unwind"
  /\ stack' = [Pop(stack) EXCEPT ![depth - 1].mode = "unwind"]
  /\ UNCHANGED <<uncaught, terminated>>

\* execute_and_terminate_on_exception, a destructor that throws while another
\* exception unwinds its scope, and the end of the outermost frame.
Terminate ==
  /\ Ending("unwind")
  /\ \/ /\ top.kind = "callback" /\ Handler(top)
        /\ terminated' = "callback"
     \/ /\ ~Handler(top) /\ depth > 1 /\ stack[depth - 1].mode = "unwind"
        /\ terminated' = "two exceptions"
     \/ /\ ~Handler(top) /\ depth = 1
        /\ terminated' = "unhandled"
  /\ UNCHANGED <<stack, uncaught>>

Code == \/ \E kind \in {"block", "try"} : Enter(kind)
        \/ \E policy \in Policies : MakeGuard(policy)
        \/ \E place \in Places : Deactivate(place[1], place[2])
        \/ Leave
        \/ Throw
        \/ ThrowUnhandled
        \/ CopyThrows

Unwind == Execute \/ Skip \/ Return \/ Catch \/ Propagate \/ Terminate

Next == Code \/ Unwind

Spec == Init /\ [][Next]_vars

-----------------------------------------------------------------------------
Guards == [policy : Policies, counter : Nat, active : BOOLEAN]

Frames == [kind : {"block", "try", "callback"},
           policy : Policies \cup {"none"},
           mode : {"run", "leave", "unwind"},
           guards : Seq(Guards),
           entered : Nat]

\* The variables have their types.
TypeOK ==
  /\ stack \in Seq(Frames)
  /\ uncaught \in Nat
  /\ terminated \in {"no", "callback", "noexcept", "two exceptions", "unhandled"}

\* Exceptions in flight above a frame with n of them at its entry.
Unwinding(f) == IF f.mode = "unwind" THEN f.entered + 1 ELSE f.entered

\* Every frame entered while the frames below were unwinding counts their
\* exceptions and no more, and so does every guard of the frame.
CountersAgree ==
  /\ depth > 0 => stack[1].entered = 0
  /\ \A i \in 1 .. depth - 1 : stack[i + 1].entered = Unwinding(stack[i])
  /\ \A i \in 1 .. depth : \A j \in 1 .. Len(stack[i].guards) :
       stack[i].guards[j].counter = stack[i].entered
  /\ uncaught = IF depth > 0 THEN Unwinding(top) ELSE 0

\* Below the innermost frame every frame waits: for a frame it entered, or for
\* the callback of a guard, which only runs as the guard's policy says.
Waits ==
  \A i \in 1 .. depth - 1 :
    IF stack[i + 1].kind = "callback"
    THEN \/ stack[i].mode = "leave" /\ stack[i + 1].policy \in {"always", "on_no_exception"}
         \/ stack[i].mode = "unwind" /\ stack[i + 1].policy \in {"always", "on_exception"}
    ELSE stack[i].mode = "run"

\* The inductive invariant: the types, the counters, and that only the callback
\* the policy names runs above a frame that is being left.
ScopeInv == TypeOK /\ CountersAgree /\ Waits /\ (depth > 0 => stack[1].kind = "block")

\* The policy of a guard, for a scope that is left by an exception or without.
Declared(policy, mode) ==
  \/ policy = "always"
  \/ policy = "on_exception" /\ mode = "unwind"
  \/ policy = "on_no_exception" /\ mode = "leave"

\* Whether the scope is left by its own exception, however many others are in
\* flight below it, decides which guards run: a guard of a scope entered by a
\* callback during unwinding is not misled by the exception that runs it, and
\* when an on_no_exception callback throws, the guards before it see that.
GuardsRunAsDeclared ==
  [][Leaving /\ top.guards # <<>> =>
       (Len(stack') > Len(stack) <=> last.active /\ Declared(last.policy, top.mode))]_vars

\* on_no_exception guards may throw, and never do it during unwinding: the
\* program is never terminated for a second exception leaving a destructor.
NeverTwoExceptions == terminated # "two exceptions"
=============================================================================
