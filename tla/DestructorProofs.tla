-------------------------- MODULE DestructorProofs --------------------------
(***************************************************************************)
(* What runs at the end of a scope.  The guards of ScopeGuard run as       *)
(* declared, and no guard throws during unwinding, for stacks of any       *)
(* depth: ScopeInv is inductive.  The timers of ScopedTimer report once    *)
(* and add up, for any number of them, any clock and any number of steps:  *)
(* TimerInv is inductive.                                                  *)
(*                                                                         *)
(* The invariant of the guards is restated for a stack s and a count u     *)
(* that need not be the variables, so that a step can be taken apart:      *)
(* first a frame is amended, then a frame is pushed or popped.             *)
(***************************************************************************)
EXTENDS ScopeGuard, ScopedTimer, SequenceTheorems, WellFoundedInduction, TLAPS

Modes == {"run", "leave", "unwind"}

WaitsFor(f, g) ==
  IF g.kind = "callback"
  THEN \/ f.mode = "leave" /\ g.policy \in {"always", "on_no_exception"}
       \/ f.mode = "unwind" /\ g.policy \in {"always", "on_exception"}
  ELSE f.mode = "run"

Counted(f) == \A j \in 1 .. Len(f.guards) : f.guards[j].counter = f.entered

StackOK(s, u) ==
  /\ s \in Seq(Frames)
  /\ u \in Nat
  /\ Len(s) > 0 => s[1].entered = 0 /\ s[1].kind = "block"
  /\ \A i \in 1 .. Len(s) - 1 :
       s[i + 1].entered = Unwinding(s[i]) /\ WaitsFor(s[i], s[i + 1])
  /\ \A i \in 1 .. Len(s) : Counted(s[i])
  /\ u = IF Len(s) > 0 THEN Unwinding(s[Len(s)]) ELSE 0

Reasons == {"no", "callback", "noexcept", "two exceptions", "unhandled"}

LEMMA InvIsStackOK ==
  ScopeInv <=> StackOK(stack, uncaught) /\ terminated \in Reasons
BY DEF ScopeInv, TypeOK, CountersAgree, Waits, StackOK, WaitsFor, Counted, Reasons,
       depth, top

LEMMA InvIsStackOKNext ==
  ScopeInv' <=> StackOK(stack', uncaught') /\ terminated' \in Reasons
BY DEF ScopeInv, TypeOK, CountersAgree, Waits, StackOK, WaitsFor, Counted, Reasons,
       depth, top, Unwinding

-----------------------------------------------------------------------------
\* What Pop returns.
LEMMA PopFacts ==
  ASSUME NEW S, NEW s \in Seq(S), Len(s) > 0
  PROVE  /\ Pop(s) \in Seq(S)
         /\ Len(Pop(s)) = Len(s) - 1
         /\ \A i \in 1 .. Len(s) - 1 : Pop(s)[i] = s[i]
<1>1. Len(s) \in Nat /\ \A i \in 1 .. Len(s) - 1 : s[i] \in S
  BY ElementOfSeq
<1>. DEFINE n == Len(s) - 1
<1>2. 1 \in Int /\ n \in Int /\ n >= 0
  BY <1>1
<1>3. \A i \in 1 .. n : s[i] \in S
  BY <1>1
<1>. HIDE DEF n
<1>4. /\ SubSeq(s, 1, n) \in Seq(S)
      /\ Len(SubSeq(s, 1, n)) = IF 1 <= n THEN n - 1 + 1 ELSE 0
      /\ \A i \in 1 .. n - 1 + 1 : SubSeq(s, 1, n)[i] = s[1 + i - 1]
  BY <1>2, <1>3, SubSeqProperties
<1>5. /\ Len(SubSeq(s, 1, n)) = n
      /\ \A i \in 1 .. n : SubSeq(s, 1, n)[i] = s[i]
  BY <1>2, <1>4
<1>. QED
  BY <1>4, <1>5 DEF Pop, n

\* A frame is replaced by one that differs in its guards, or in its mode when
\* it is the innermost.
LEMMA Amended ==
  ASSUME NEW s, NEW u, StackOK(s, u),
         NEW i \in 1 .. Len(s), NEW f \in Frames, NEW v \in Nat,
         f.kind = s[i].kind, f.entered = s[i].entered, f.policy = s[i].policy,
         i < Len(s) => f.mode = s[i].mode,
         v = IF i < Len(s) THEN u ELSE Unwinding(f),
         Counted(f)
  PROVE  StackOK([s EXCEPT ![i] = f], v)
<1>. DEFINE t == [s EXCEPT ![i] = f]
<1>1. s \in Seq(Frames) /\ Len(s) \in Nat
  BY DEF StackOK
<1>2. /\ t \in Seq(Frames)
      /\ Len(t) = Len(s)
      /\ \A j \in 1 .. Len(s) : t[j] = IF j = i THEN f ELSE s[j]
  BY <1>1, ExceptSeq
<1>. HIDE DEF t
<1>3. \A j \in 1 .. Len(s) :
        /\ t[j].kind = s[j].kind
        /\ t[j].entered = s[j].entered
        /\ t[j].policy = s[j].policy
        /\ j < Len(s) => t[j].mode = s[j].mode
        /\ Counted(t[j])
  BY <1>2 DEF StackOK
<1>4. Len(t) > 0 => t[1].entered = 0 /\ t[1].kind = "block"
  BY <1>1, <1>2, <1>3 DEF StackOK
<1>5. ASSUME NEW j \in 1 .. Len(t) - 1
      PROVE  t[j + 1].entered = Unwinding(t[j]) /\ WaitsFor(t[j], t[j + 1])
  <2>1. /\ j \in 1 .. Len(s) - 1
        /\ j \in 1 .. Len(s) /\ j < Len(s)
        /\ j + 1 \in 1 .. Len(s)
    BY <1>1, <1>2
  <2>2. s[j + 1].entered = Unwinding(s[j]) /\ WaitsFor(s[j], s[j + 1])
    BY <2>1 DEF StackOK
  <2>3. Unwinding(t[j]) = Unwinding(s[j])
    BY <1>3, <2>1 DEF Unwinding
  <2>4. WaitsFor(t[j], t[j + 1])
    BY <1>3, <2>1, <2>2 DEF WaitsFor
  <2>. QED
    BY <1>3, <2>1, <2>2, <2>3, <2>4
<1>6. v = IF Len(t) > 0 THEN Unwinding(t[Len(t)]) ELSE 0
  BY <1>1, <1>2 DEF StackOK, Unwinding
<1>. QED
  BY <1>2, <1>3, <1>4, <1>5, <1>6 DEF StackOK, t

\* A frame is entered.
LEMMA Pushed ==
  ASSUME NEW s, NEW u, StackOK(s, u), Len(s) > 0,
         NEW f \in Frames, f.entered = u, f.mode = "run", f.guards = <<>>,
         WaitsFor(s[Len(s)], f)
  PROVE  StackOK(Append(s, f), u)
<1>. DEFINE t == Append(s, f)
<1>1. s \in Seq(Frames) /\ Len(s) \in Nat
  BY DEF StackOK
<1>2. /\ t \in Seq(Frames)
      /\ Len(t) = Len(s) + 1
      /\ \A j \in 1 .. Len(s) : t[j] = s[j]
      /\ t[Len(s) + 1] = f
  BY <1>1, AppendProperties
<1>. HIDE DEF t
<1>3. t[1].entered = 0 /\ t[1].kind = "block"
  BY <1>1, <1>2 DEF StackOK
<1>4. ASSUME NEW j \in 1 .. Len(t) - 1
      PROVE  t[j + 1].entered = Unwinding(t[j]) /\ WaitsFor(t[j], t[j + 1])
  BY <1>1, <1>2 DEF StackOK
<1>5. Counted(f) /\ Unwinding(f) = u
  BY DEF Counted, Unwinding
<1>. QED
  BY <1>1, <1>2, <1>3, <1>4, <1>5 DEF StackOK, t

\* The innermost frame ends.
LEMMA Popped ==
  ASSUME NEW s, NEW u, StackOK(s, u), Len(s) > 0
  PROVE  StackOK(Pop(s), s[Len(s)].entered)
<1>. DEFINE t == Pop(s)
<1>1. s \in Seq(Frames) /\ Len(s) \in Nat /\ s[Len(s)].entered \in Nat
  <2>1. s \in Seq(Frames) /\ Len(s) \in Nat
    BY DEF StackOK
  <2>2. Len(s) \in 1 .. Len(s)
    BY <2>1
  <2>3. s[Len(s)] \in Frames
    BY <2>1, <2>2, ElementOfSeq
  <2>. QED
    BY <2>1, <2>3 DEF Frames
<1>2. /\ t \in Seq(Frames)
      /\ Len(t) = Len(s) - 1
      /\ \A j \in 1 .. Len(s) - 1 : t[j] = s[j]
  BY <1>1, PopFacts
<1>. HIDE DEF t
<1>3. s[Len(s)].entered = IF Len(t) > 0 THEN Unwinding(t[Len(t)]) ELSE 0
  <2>1. CASE Len(s) = 1
    BY <1>1, <1>2, <2>1 DEF StackOK
  <2>2. CASE Len(s) > 1
    <3>1. Len(s) - 1 \in 1 .. Len(s) - 1 /\ (Len(s) - 1) + 1 = Len(s)
      BY <1>1, <2>2
    <3>2. s[(Len(s) - 1) + 1].entered = Unwinding(s[Len(s) - 1])
      BY <3>1 DEF StackOK
    <3>. QED
      BY <1>1, <1>2, <2>2, <3>1, <3>2
  <2>3. Len(s) = 1 \/ Len(s) > 1
    <3>. DEFINE n == Len(s)
    <3>1. n \in Nat /\ n > 0
      BY <1>1
    <3>. HIDE DEF n
    <3>2. n = 1 \/ n > 1
      BY <3>1
    <3>. QED
      BY <3>2 DEF n
  <2>. QED
    BY <2>1, <2>2, <2>3
<1>4. ASSUME NEW j \in 1 .. Len(t) - 1
      PROVE  t[j + 1].entered = Unwinding(t[j]) /\ WaitsFor(t[j], t[j + 1])
  <2>1. /\ j \in 1 .. Len(s) - 1
        /\ t[j] = s[j] /\ t[j + 1] = s[j + 1]
    BY <1>1, <1>2
  <2>. QED
    BY <2>1 DEF StackOK
<1>5. /\ Len(t) > 0 => t[1].entered = 0 /\ t[1].kind = "block"
      /\ \A j \in 1 .. Len(t) : Counted(t[j])
  BY <1>1, <1>2 DEF StackOK
<1>. QED
  BY <1>1, <1>2, <1>3, <1>4, <1>5 DEF StackOK, t

-----------------------------------------------------------------------------
\* What holds of the innermost frame.
LEMMA TopFacts ==
  ASSUME StackOK(stack, uncaught), depth > 0
  PROVE  /\ depth \in Nat /\ depth \in 1 .. Len(stack)
         /\ stack \in Seq(Frames)
         /\ top \in Frames
         /\ top = stack[Len(stack)]
         /\ uncaught = Unwinding(top)
         /\ Counted(top)
         /\ depth = 1 => top.kind = "block"
<1>1. depth \in Nat /\ depth \in 1 .. Len(stack) /\ stack \in Seq(Frames)
  BY DEF StackOK, depth
<1>2. top \in Frames /\ top = stack[Len(stack)]
  BY <1>1, ElementOfSeq DEF top, depth
<1>. QED
  BY <1>1, <1>2 DEF StackOK, depth

\* The mode or the guards of a frame change.
LEMMA AmendTop ==
  ASSUME StackOK(stack, uncaught), depth > 0,
         NEW m \in Modes, NEW v \in Nat,
         v = IF m = "unwind" THEN top.entered + 1 ELSE top.entered
  PROVE  StackOK([stack EXCEPT ![depth].mode = m], v)
<1>. DEFINE f == [top EXCEPT !.mode = m]
<1>1. f \in Frames /\ f.kind = top.kind /\ f.entered = top.entered
        /\ f.policy = top.policy /\ f.mode = m /\ f.guards = top.guards
  BY TopFacts DEF Frames, Modes
<1>2. Counted(f) /\ v = Unwinding(f)
  BY <1>1, TopFacts DEF Counted, Unwinding
<1>3. [stack EXCEPT ![depth].mode = m] = [stack EXCEPT ![depth] = f]
  BY DEF top
<1>. HIDE DEF f
<1>4. StackOK([stack EXCEPT ![depth] = f], v)
  BY <1>1, <1>2, TopFacts, Amended DEF top, depth
<1>. QED
  BY <1>3, <1>4

LEMMA AmendGuards ==
  ASSUME StackOK(stack, uncaught), NEW i \in 1 .. depth, NEW gs \in Seq(Guards),
         \A j \in 1 .. Len(gs) : gs[j].counter = stack[i].entered
  PROVE  StackOK([stack EXCEPT ![i].guards = gs], uncaught)
<1>. DEFINE f == [stack[i] EXCEPT !.guards = gs]
<1>1. stack[i] \in Frames /\ i \in 1 .. Len(stack) /\ Len(stack) \in Nat
        /\ uncaught \in Nat
  BY ElementOfSeq DEF StackOK, depth
<1>2. f \in Frames /\ f.kind = stack[i].kind /\ f.entered = stack[i].entered
        /\ f.policy = stack[i].policy /\ f.mode = stack[i].mode /\ f.guards = gs
  BY <1>1 DEF Frames
<1>3. Counted(f)
  BY <1>2 DEF Counted
<1>4. uncaught = IF i < Len(stack) THEN uncaught ELSE Unwinding(f)
  <2>1. CASE i < Len(stack)
    BY <2>1
  <2>2. CASE ~(i < Len(stack))
    <3>1. i = Len(stack) /\ Len(stack) > 0
      BY <1>1, <2>2
    <3>2. uncaught = Unwinding(stack[i])
      BY <3>1 DEF StackOK
    <3>. QED
      BY <1>2, <2>2, <3>2 DEF Unwinding
  <2>. QED
    BY <2>1, <2>2
<1>5. [stack EXCEPT ![i].guards = gs] = [stack EXCEPT ![i] = f]
  OBVIOUS
<1>. HIDE DEF f
<1>6. StackOK([stack EXCEPT ![i] = f], uncaught)
  BY <1>1, <1>2, <1>3, <1>4, Amended
<1>. QED
  BY <1>5, <1>6

\* The last guard is gone.
LEMMA DestroyedOK ==
  ASSUME StackOK(stack, uncaught), depth > 0, top.guards # <<>>
  PROVE  /\ StackOK(Destroyed, uncaught)
         /\ Len(Destroyed) = Len(stack)
         /\ Destroyed[Len(stack)].mode = top.mode
<1>. DEFINE gs == Pop(top.guards)
<1>1. top \in Frames /\ depth \in 1 .. depth /\ depth \in 1 .. Len(stack)
        /\ depth = Len(stack) /\ stack \in Seq(Frames) /\ Counted(top)
  BY TopFacts DEF depth
<1>2. top.guards \in Seq(Guards) /\ Len(top.guards) > 0 /\ Len(top.guards) \in Nat
  BY <1>1, EmptySeq DEF Frames
<1>3. /\ gs \in Seq(Guards)
      /\ Len(gs) = Len(top.guards) - 1
      /\ \A j \in 1 .. Len(top.guards) - 1 : gs[j] = top.guards[j]
  BY <1>2, PopFacts
<1>4. Destroyed = [stack EXCEPT ![depth].guards = gs]
  BY DEF Destroyed, top
<1>. HIDE DEF gs
<1>5. \A j \in 1 .. Len(gs) : gs[j].counter = stack[depth].entered
  BY <1>1, <1>2, <1>3 DEF Counted, top
<1>6. StackOK(Destroyed, uncaught)
  BY <1>1, <1>3, <1>4, <1>5, AmendGuards
<1>7. Len(Destroyed) = Len(stack) /\ Destroyed[Len(stack)].mode = top.mode
  BY <1>1, <1>4 DEF top, Frames
<1>. QED
  BY <1>6, <1>7

\* A guard knows how its scope is left.
LEMMA GuardKnows ==
  ASSUME StackOK(stack, uncaught), Leaving, top.guards # <<>>
  PROVE  /\ last.policy \in Policies
         /\ ExceptionOccurred(last) <=> top.mode = "unwind"
         /\ top.mode \in {"leave", "unwind"}
<1>1. /\ top \in Frames /\ Counted(top) /\ uncaught = Unwinding(top)
      /\ top.mode \in {"leave", "unwind"}
  BY TopFacts DEF Leaving, Frames
<1>2. top.guards \in Seq(Guards) /\ Len(top.guards) \in 1 .. Len(top.guards)
  BY <1>1, EmptySeq DEF Frames
<1>3. last \in Guards /\ last.counter = top.entered
  BY <1>1, <1>2, ElementOfSeq DEF last, Counted
<1>4. last.policy \in Policies /\ top.entered \in Nat
  BY <1>1, <1>3 DEF Guards, Frames
<1>5. ExceptionOccurred(last) <=> top.mode = "unwind"
  BY <1>1, <1>3, <1>4 DEF ExceptionOccurred, Unwinding
<1>. QED
  BY <1>1, <1>4, <1>5

-----------------------------------------------------------------------------
(***************************************************************************)
(* The steps.  Safe is what every step preserves.                          *)
(***************************************************************************)
Safe == StackOK(stack, uncaught) /\ terminated \in Reasons \ {"two exceptions"}

LEMMA CodeStep ==
  ASSUME Safe, Code
  PROVE  Safe'
<1>1. Running /\ StackOK(stack, uncaught) /\ depth > 0 /\ top.mode = "run"
        /\ uncaught = top.entered /\ uncaught \in Nat
  BY TopFacts DEF Safe, Code, Enter, MakeGuard, Deactivate, Leave, Throw,
     ThrowUnhandled, CopyThrows, Running, Unwinding, StackOK
<1>2. ASSUME NEW kind \in {"block", "try"}, Enter(kind)
      PROVE  Safe'
  <2>. DEFINE f == Frame(kind, "none", uncaught)
  <2>1. f \in Frames /\ f.entered = uncaught /\ f.mode = "run" /\ f.guards = <<>>
          /\ f.kind # "callback"
    BY <1>1 DEF Frame, Frames
  <2>2. WaitsFor(stack[Len(stack)], f)
    BY <1>1, <2>1, TopFacts DEF WaitsFor
  <2>. HIDE DEF f
  <2>3. StackOK(Append(stack, f), uncaught)
    BY <1>1, <2>1, <2>2, Pushed DEF depth
  <2>. QED
    BY <1>2, <2>3 DEF Safe, Enter, f
<1>3. ASSUME NEW policy \in Policies, MakeGuard(policy)
      PROVE  Safe'
  <2>. DEFINE g == Guard(policy, uncaught)
              gs == Append(top.guards, g)
  <2>1. g \in Guards /\ g.counter = uncaught
    BY <1>1 DEF Guard, Guards
  <2>2. top.guards \in Seq(Guards) /\ Len(top.guards) \in Nat /\ Counted(top)
    BY <1>1, TopFacts DEF Frames
  <2>. HIDE DEF g
  <2>3. /\ gs \in Seq(Guards)
        /\ \A j \in 1 .. Len(gs) : gs[j].counter = stack[depth].entered
    BY <1>1, <2>1, <2>2, AppendProperties DEF Counted, top
  <2>. HIDE DEF gs
  <2>4. StackOK([stack EXCEPT ![depth].guards = gs], uncaught)
    BY <1>1, <2>3, TopFacts, AmendGuards DEF depth
  <2>5. stack' = [stack EXCEPT ![depth].guards = gs]
    BY <1>3 DEF MakeGuard, gs, g, top
  <2>. QED
    BY <1>3, <2>4, <2>5 DEF Safe, MakeGuard
<1>4. ASSUME NEW place \in Places, Deactivate(place[1], place[2])
      PROVE  Safe'
  <2>1. PICK i \in 1 .. depth : place \in {i} \X (1 .. Len(stack[i].guards))
    BY DEF Places
  <2>2. place[1] = i /\ place[2] \in 1 .. Len(stack[i].guards)
    BY <2>1
  <2>. DEFINE j == place[2]
              g == [stack[i].guards[j] EXCEPT !.active = FALSE]
              gs == [stack[i].guards EXCEPT ![j] = g]
  <2>3. stack[i] \in Frames /\ Counted(stack[i])
    BY <1>1, ElementOfSeq DEF StackOK, depth
  <2>4. stack[i].guards \in Seq(Guards) /\ j \in 1 .. Len(stack[i].guards)
    BY <2>2, <2>3 DEF Frames
  <2>5. g \in Guards /\ g.counter = stack[i].guards[j].counter
    <3>1. stack[i].guards[j] \in Guards
      BY <2>4, ElementOfSeq
    <3>. QED
      BY <3>1 DEF Guards
  <2>6. /\ gs \in Seq(Guards)
        /\ \A k \in 1 .. Len(gs) : gs[k].counter = stack[i].entered
    <3>. HIDE DEF g, j
    <3>. QED
      BY <2>3, <2>4, <2>5, ExceptSeq DEF Counted
  <2>7. stack' = [stack EXCEPT ![i].guards = gs]
    BY <1>4, <2>2 DEF Deactivate
  <2>. HIDE DEF gs
  <2>8. StackOK([stack EXCEPT ![i].guards = gs], uncaught)
    BY <1>1, <2>1, <2>6, AmendGuards
  <2>. QED
    BY <1>4, <2>7, <2>8 DEF Safe, Deactivate
<1>5. CASE Leave
  <2>1. StackOK([stack EXCEPT ![depth].mode = "leave"], uncaught)
    BY <1>1, AmendTop DEF Modes
  <2>. QED
    BY <1>5, <2>1 DEF Leave, Safe
<1>6. CASE Throw
  <2>. DEFINE v == uncaught + 1
  <2>0. "unwind" \in Modes /\ v \in Nat /\ v = top.entered + 1
    BY <1>1 DEF Modes
  <2>. HIDE DEF v
  <2>1. StackOK([stack EXCEPT ![depth].mode = "unwind"], v)
    BY <1>1, <2>0, AmendTop
  <2>. QED
    BY <1>6, <2>1 DEF Throw, Safe, v
<1>7. CASE ThrowUnhandled
  BY <1>7 DEF ThrowUnhandled, Safe, Reasons
<1>8. CASE CopyThrows
  BY <1>8 DEF CopyThrows, Safe, Reasons
<1>. QED
  BY <1>2, <1>3, <1>4, <1>5, <1>6, <1>7, <1>8 DEF Code

LEMMA UnwindStep ==
  ASSUME Safe, Unwind
  PROVE  Safe'
<1>1. /\ Leaving /\ StackOK(stack, uncaught) /\ depth > 0
      /\ depth = Len(stack) /\ depth \in Nat /\ depth \in 1 .. Len(stack)
      /\ stack \in Seq(Frames) /\ top \in Frames /\ top = stack[Len(stack)]
      /\ uncaught = Unwinding(top) /\ uncaught \in Nat /\ top.entered \in Nat
  <2>1. Leaving /\ StackOK(stack, uncaught) /\ depth > 0
    BY DEF Safe, Unwind, Execute, Skip, Return, Catch, Propagate, Terminate,
           Ending, Leaving
  <2>. QED
    BY <2>1, TopFacts DEF depth, Frames, StackOK
<1>2. CASE Execute
  <2>. DEFINE f == Frame("callback", last.policy, uncaught)
  <2>1. top.guards # <<>> /\ Executes(last)
    BY <1>2 DEF Execute
  <2>2. /\ StackOK(Destroyed, uncaught) /\ Len(Destroyed) = Len(stack)
        /\ Destroyed[Len(stack)].mode = top.mode
    BY <1>1, <2>1, DestroyedOK
  <2>3. /\ last.policy \in Policies
        /\ ExceptionOccurred(last) <=> top.mode = "unwind"
        /\ top.mode \in {"leave", "unwind"}
    BY <1>1, <2>1, GuardKnows
  <2>4. /\ f \in Frames /\ f.entered = uncaught /\ f.mode = "run"
        /\ f.guards = <<>> /\ f.kind = "callback" /\ f.policy = last.policy
    BY <1>1, <2>3 DEF Frame, Frames
  <2>. HIDE DEF f
  <2>5. WaitsFor(Destroyed[Len(Destroyed)], f)
    BY <2>1, <2>2, <2>3, <2>4 DEF WaitsFor, Executes, Policies
  <2>6. StackOK(Append(Destroyed, f), uncaught)
    BY <1>1, <2>2, <2>4, <2>5, Pushed
  <2>. QED
    BY <1>2, <2>6 DEF Safe, Execute, f
<1>3. CASE Skip
  BY <1>1, <1>3, DestroyedOK DEF Skip, Safe
<1>4. StackOK(Pop(stack), top.entered)
  BY <1>1, Popped
<1>5. CASE Return
  <2>1. uncaught = top.entered
    BY <1>1, <1>5 DEF Return, Ending, Unwinding
  <2>. QED
    BY <1>4, <1>5, <2>1 DEF Return, Safe
<1>6. CASE Catch
  <2>1. uncaught - 1 = top.entered
    BY <1>1, <1>6 DEF Catch, Ending, Unwinding
  <2>. QED
    BY <1>4, <1>6, <2>1 DEF Catch, Safe
<1>7. CASE Propagate
  <2>. DEFINE t == Pop(stack)
  <2>1. /\ depth > 1 /\ stack[depth - 1].mode # "unwind" /\ top.mode = "unwind"
        /\ stack' = [t EXCEPT ![depth - 1].mode = "unwind"]
        /\ uncaught' = uncaught /\ terminated' = terminated
    BY <1>7 DEF Propagate, Ending
  <2>2. /\ t \in Seq(Frames) /\ Len(t) = depth - 1 /\ depth - 1 \in 1 .. Len(t)
        /\ t[depth - 1] = stack[depth - 1]
    <3>1. Len(stack) > 0
      BY <1>1
    <3>2. /\ t \in Seq(Frames) /\ Len(t) = Len(stack) - 1
          /\ \A i \in 1 .. Len(stack) - 1 : t[i] = stack[i]
      BY <1>1, <3>1, PopFacts
    <3>. HIDE DEF t
    <3>. QED
      BY <1>1, <2>1, <3>2
  <2>3. StackOK(t, top.entered)
    BY <1>4
  <2>. HIDE DEF t
  <2>. DEFINE f == [t[depth - 1] EXCEPT !.mode = "unwind"]
  <2>4. t[depth - 1] \in Frames /\ Counted(t[depth - 1])
          /\ top.entered = Unwinding(t[depth - 1])
    BY <1>1, <2>1, <2>2, <2>3, ElementOfSeq DEF StackOK
  <2>5. f \in Frames /\ f.kind = t[depth - 1].kind /\ f.entered = t[depth - 1].entered
          /\ f.policy = t[depth - 1].policy /\ f.mode = "unwind"
          /\ f.guards = t[depth - 1].guards
    BY <2>4 DEF Frames
  <2>6. uncaught = Unwinding(f) /\ Counted(f)
    BY <1>1, <2>1, <2>2, <2>4, <2>5 DEF Unwinding, Counted
  <2>7. stack' = [t EXCEPT ![depth - 1] = f]
    BY <2>1
  <2>. HIDE DEF f
  <2>8. StackOK([t EXCEPT ![depth - 1] = f], uncaught)
    <3>. DEFINE i == depth - 1
    <3>1. i \in 1 .. Len(t) /\ ~(i < Len(t))
      BY <1>1, <2>2
    <3>2. t[i] = t[depth - 1]
      OBVIOUS
    <3>. HIDE DEF i
    <3>3. StackOK([t EXCEPT ![i] = f], uncaught)
      BY <1>1, <2>3, <2>5, <2>6, <3>1, <3>2, Amended
    <3>. QED
      BY <3>3 DEF i
  <2>. QED
    BY <2>1, <2>7, <2>8 DEF Safe
<1>8. CASE Terminate
  <2>1. ~(~Handler(top) /\ depth > 1 /\ stack[depth - 1].mode = "unwind")
    <3>1. SUFFICES ASSUME depth > 1, stack[depth - 1].mode = "unwind"
                   PROVE  Handler(top)
      OBVIOUS
    <3>2. depth - 1 \in 1 .. Len(stack) - 1 /\ (depth - 1) + 1 = depth
      BY <1>1, <3>1
    <3>3. WaitsFor(stack[depth - 1], stack[(depth - 1) + 1])
      BY <1>1, <3>2 DEF StackOK
    <3>4. WaitsFor(stack[depth - 1], top)
      BY <3>2, <3>3 DEF top
    <3>. QED
      BY <3>1, <3>4 DEF WaitsFor, Handler
  <2>2. terminated' \in {"callback", "unhandled"} /\ stack' = stack /\ uncaught' = uncaught
    BY <1>8, <2>1 DEF Terminate
  <2>. QED
    BY <2>2 DEF Safe, Reasons
<1>. QED
  BY <1>2, <1>3, <1>5, <1>6, <1>7, <1>8 DEF Unwind

LEMMA SafeInit == Init => Safe
<1>. SUFFICES ASSUME Init PROVE Safe
  OBVIOUS
<1>. DEFINE f == Frame("block", "none", 0)
<1>1. f \in Frames /\ f.entered = 0 /\ f.kind = "block" /\ f.guards = <<>>
        /\ f.mode = "run"
  BY DEF Frame, Frames
<1>. HIDE DEF f
<1>2. stack = <<f>> /\ uncaught = 0 /\ terminated = "no"
  BY DEF Init, f
<1>3. stack \in Seq(Frames) /\ Len(stack) = 1 /\ stack[1] = f
  BY <1>1, <1>2
<1>4. Counted(f) /\ Unwinding(f) = 0
  BY <1>1 DEF Counted, Unwinding
<1>. QED
  BY <1>1, <1>2, <1>3, <1>4 DEF Safe, StackOK, Reasons

LEMMA SafeAlways == Spec => []Safe
<1>1. Safe /\ [Next]_vars => Safe'
  BY CodeStep, UnwindStep DEF Next, vars, Safe
<1>. QED
  BY <1>1, SafeInit, PTL DEF Spec

-----------------------------------------------------------------------------
\* What relates the frames, their guards and std::uncaught_exceptions() holds
\* at every step, and never do two exceptions meet in a destructor.
THEOREM ScopesCorrect == Spec => [](ScopeInv /\ NeverTwoExceptions)
<1>1. Safe => ScopeInv /\ NeverTwoExceptions
  BY InvIsStackOK DEF Safe, NeverTwoExceptions
<1>. QED
  BY <1>1, SafeAlways, PTL

\* The variables of the thread have their types.
THEOREM ScopeTypes == Spec => []TypeOK
<1>1. ScopeInv => TypeOK
  BY DEF ScopeInv
<1>. QED
  BY <1>1, ScopesCorrect, PTL

\* Every guard compares with the exceptions in flight at its scope's entry.
THEOREM GuardsCount == Spec => []CountersAgree
<1>1. ScopeInv => CountersAgree
  BY DEF ScopeInv
<1>. QED
  BY <1>1, ScopesCorrect, PTL

\* on_no_exception callbacks never throw into an unwinding stack.
THEOREM NoSecondException == Spec => []NeverTwoExceptions
  BY ScopesCorrect, PTL

\* A guard's callback runs if and only if its scope is left the way its policy
\* names and it was not deactivated.
THEOREM GuardsRun == Spec => GuardsRunAsDeclared
<1>. DEFINE Right == Leaving /\ top.guards # <<>> =>
       (Len(stack') > Len(stack) <=> last.active /\ Declared(last.policy, top.mode))
<1>1. ASSUME Safe, Next
      PROVE  Right
  <2>1. SUFFICES ASSUME Leaving, top.guards # <<>>
                 PROVE  Len(stack') > Len(stack) <=>
                          last.active /\ Declared(last.policy, top.mode)
    OBVIOUS
  <2>2. /\ StackOK(stack, uncaught) /\ depth > 0
        /\ Destroyed \in Seq(Frames) /\ Len(Destroyed) = Len(stack)
        /\ Len(stack) \in Nat /\ uncaught \in Nat
    <3>1. StackOK(stack, uncaught) /\ depth > 0
      BY <1>1, <2>1 DEF Safe, Leaving
    <3>. QED
      BY <2>1, <3>1, DestroyedOK DEF StackOK
  <2>3. /\ last.policy \in Policies
        /\ ExceptionOccurred(last) <=> top.mode = "unwind"
        /\ top.mode \in {"leave", "unwind"}
    BY <2>1, <2>2, GuardKnows
  <2>4. Executes(last) <=> last.active /\ Declared(last.policy, top.mode)
    BY <2>3 DEF Executes, Declared, Policies
  <2>5. Execute \/ Skip
    BY <1>1, <2>1 DEF Next, Code, Unwind, Enter, MakeGuard, Deactivate, Leave, Throw,
       ThrowUnhandled, CopyThrows, Running, Leaving, Return, Catch, Propagate,
       Terminate, Ending
  <2>6. CASE Execute
    <3>. DEFINE f == Frame("callback", last.policy, uncaught)
    <3>1. f \in Frames
      BY <2>2, <2>3 DEF Frame, Frames
    <3>. HIDE DEF f
    <3>2. Len(Append(Destroyed, f)) = Len(stack) + 1
      BY <2>2, <3>1, AppendProperties
    <3>3. stack' = Append(Destroyed, f) /\ Executes(last)
      BY <2>6 DEF Execute, f
    <3>. QED
      BY <2>2, <2>4, <3>2, <3>3
  <2>7. CASE Skip
    <3>1. stack' = Destroyed /\ ~Executes(last)
      BY <2>7 DEF Skip
    <3>. QED
      BY <2>2, <2>4, <3>1
  <2>. QED
    BY <2>5, <2>6, <2>7
<1>2. Safe /\ [Next]_vars => [Right]_vars
  BY <1>1
<1>. QED
  BY <1>2, SafeAlways, PTL DEF Spec, GuardsRunAsDeclared

-----------------------------------------------------------------------------
(***************************************************************************)
(* The timers.                                                             *)
(***************************************************************************)
LEMMA NoneOK == TimerOK(None)
<1>1. <<>> \in Seq(Times)
  BY EmptySeq
<1> QED
  BY <1>1 DEF TimerOK, TimerRecords, None

\* init and the constructors start a measurement with room for what they reserve.
LEMMA StartedOK ==
  ASSUME NEW r \in TimerRecords, NEW now \in Times, NEW n \in Sizes
  PROVE  TimerOK(Started(r, now, n)) /\ Started(r, now, n).alive
<1>1. n \in Nat /\ r.capacity \in Nat
  BY TimerAssumption DEF TimerRecords
<1>2. <<now>> \in Seq(Times)
  OBVIOUS
<1> DEFINE room   == Larger(r.capacity, n)
           points == <<now>>
<1>3. room \in Nat /\ n <= room
  BY <1>1 DEF Larger
<1>4. Started(r, now, n) =
        [r EXCEPT !.alive = TRUE, !.points = points, !.capacity = room, !.enabled = TRUE,
                  !.entry = TRUE, !.dismissed = FALSE, !.size = n, !.failed = FALSE,
                  !.copy = FALSE]
  BY DEF Started
<1> HIDE DEF room, points
<1>5. /\ Started(r, now, n) \in TimerRecords
      /\ Started(r, now, n).alive = TRUE /\ Started(r, now, n).enabled = TRUE
      /\ Started(r, now, n).dismissed = FALSE /\ Started(r, now, n).size = n
      /\ Started(r, now, n).capacity = room
  BY <1>1, <1>2, <1>3, <1>4 DEF TimerRecords, points
<1> QED
  BY <1>3, <1>5 DEF TimerOK

\* A further time point may take more memory, never less.
LEMMA PushOK ==
  ASSUME NEW r, TimerOK(r), NEW now \in Times
  PROVE  /\ TimerOK(Push(r, now)) /\ Push(r, now).alive = r.alive
         /\ Push(r, now).enabled = r.enabled /\ Push(r, now).points # <<>>
<1>1. r \in TimerRecords /\ r.points \in Seq(Times) /\ r.capacity \in Nat
  BY DEF TimerOK, TimerRecords
<1>2. Append(r.points, now) \in Seq(Times) /\ Append(r.points, now) # <<>>
  BY <1>1, AppendProperties
<1> DEFINE room == IF HasRoom(r) THEN r.capacity ELSE Larger(1, 2 * r.capacity)
<1>3. room \in Nat /\ r.capacity <= room
  BY <1>1 DEF Larger
<1>4. Push(r, now) = [r EXCEPT !.points = Append(r.points, now), !.capacity = room]
  BY DEF Push
<1> DEFINE points == Append(r.points, now)
<1> HIDE DEF room, points
<1>5. /\ Push(r, now) \in TimerRecords
      /\ Push(r, now).alive = r.alive /\ Push(r, now).enabled = r.enabled
      /\ Push(r, now).dismissed = r.dismissed /\ Push(r, now).copy = r.copy
      /\ Push(r, now).size = r.size /\ Push(r, now).capacity = room
      /\ Push(r, now).points = points
  BY <1>1, <1>2, <1>3, <1>4 DEF TimerRecords, points
<1>6. r.size \in Nat
  BY <1>1 DEF TimerRecords
<1> QED
  BY <1>1, <1>2, <1>3, <1>5, <1>6 DEF TimerOK, points

LEMMA TimersInit == TimerInit => TimersOK
BY NoneOK DEF TimerInit, TimersOK, TimerOK

\* A step that gives one timer a record that is right.
LEMMA SetOK ==
  ASSUME TimersOK, NEW o \in Timers, NEW r, TimerOK(r), timer' = [timer EXCEPT ![o] = r]
  PROVE  TimersOK'
BY DEF TimersOK, TimerOK

\* The steps that do not end a timer.
LivesOn(o) ==
  \/ init(o) \/ InitFails(o) \/ add_step(o) \/ set_name(o) \/ dismiss(o)
  \/ disable_dtor_entry(o) \/ \E disable \in BOOLEAN : run(o, disable)

\* One timer is set to a record that is right and alive.
LEMMA SetAlive ==
  ASSUME TimersOK, NEW o \in Timers, NEW r, TimerOK(r), r.alive,
         timer' = [timer EXCEPT ![o] = r]
  PROVE  TimersOK' /\ \A p \in Timers : timer[p].alive => timer'[p].alive
<1>1. timer \in [Timers -> TimerRecords]
  BY DEF TimersOK
<1> QED
  BY <1>1, SetOK

LEMMA LivesOnOK ==
  ASSUME TimersOK, NEW o \in Timers, LivesOn(o)
  PROVE  TimersOK' /\ \A p \in Timers : timer[p].alive => timer'[p].alive
<1>1. /\ timer \in [Timers -> TimerRecords] /\ TimerOK(timer[o])
      /\ timer[o] \in TimerRecords /\ timer[o].points \in Seq(Times)
  BY DEF TimersOK, TimerRecords
<1>2. timer[o].alive
  BY DEF LivesOn, init, InitFails, add_step, set_name, dismiss, disable_dtor_entry, run, Alive
<1>3. CASE timer' = timer
  BY <1>3 DEF TimersOK, TimerOK
<1>4. CASE init(o)
  <2>1. PICK now \in Times, n \in Sizes : timer' = [timer EXCEPT ![o] = Started(timer[o], now, n)]
    BY <1>4 DEF init, Silently
  <2> QED
    BY <1>1, <2>1, StartedOK, SetAlive
<1>5. CASE InitFails(o)
  <2> DEFINE r == [timer[o] EXCEPT !.points = <<>>, !.enabled = TRUE, !.entry = TRUE,
                                   !.dismissed = FALSE, !.failed = TRUE]
  <2>1. <<>> \in Seq(Times)
    BY EmptySeq
  <2>2. TimerOK(r) /\ r.alive
    BY <1>1, <1>2, <2>1 DEF TimerOK, TimerRecords
  <2>3. timer' = [timer EXCEPT ![o] = r]
    BY <1>5 DEF InitFails, Silently
  <2> QED
    BY <2>2, <2>3, SetAlive
<1>6. CASE add_step(o)
  <2>1. PICK now \in Times : timer' = [timer EXCEPT ![o] = Push(timer[o], now)]
    BY <1>6 DEF add_step, Silently
  <2>2. TimerOK(Push(timer[o], now)) /\ Push(timer[o], now).alive
    BY <1>1, <1>2, PushOK
  <2> QED
    BY <2>1, <2>2, SetAlive
<1>7. CASE set_name(o)
  <2>1. timer' = timer \/ timer' = [timer EXCEPT ![o] = timer[o]]
    BY <1>7 DEF set_name, Undefined, Silently
  <2> QED
    BY <1>1, <1>2, <1>3, <2>1, SetAlive
<1>8. TimerOK(Dismissed(timer[o])) /\ Dismissed(timer[o]).alive
  BY <1>1, <1>2 DEF Dismissed, TimerOK, TimerRecords
<1>9. CASE dismiss(o)
  BY <1>8, <1>9, SetAlive DEF dismiss, Silently
<1>10. CASE disable_dtor_entry(o)
  <2> DEFINE r == [timer[o] EXCEPT !.entry = FALSE]
  <2>1. TimerOK(r) /\ r.alive
    BY <1>1, <1>2 DEF TimerOK, TimerRecords
  <2>2. timer' = [timer EXCEPT ![o] = r]
    BY <1>10 DEF disable_dtor_entry, Silently
  <2> QED
    BY <2>1, <2>2, SetAlive
<1>11. ASSUME NEW disable \in BOOLEAN, run(o, disable)
       PROVE  TimersOK' /\ \A p \in Timers : timer[p].alive => timer'[p].alive
  <2>1. \/ timer' = timer
        \/ timer' = [timer EXCEPT ![o] = Dismissed(timer[o])]
        \/ timer' = [timer EXCEPT ![o] = timer[o]]
    BY <1>11 DEF run, Undefined
  <2> QED
    BY <1>1, <1>2, <1>3, <1>8, <2>1, SetAlive
<1> QED
  BY <1>4, <1>5, <1>6, <1>7, <1>9, <1>10, <1>11 DEF LivesOn

-----------------------------------------------------------------------------
\* What each step does to the timers: it ends at most the one it destroys.
LEMMA StepOK ==
  ASSUME TimersOK, [TimerNext]_timerVars
  PROVE  /\ TimersOK'
         /\ \A p \in Timers : timer[p].alive /\ ~timer'[p].alive => Destroy(p)
<1>1. /\ timer \in [Timers -> TimerRecords]
      /\ \A o \in Timers : TimerOK(timer[o]) /\ timer[o] \in TimerRecords
  BY DEF TimersOK
<1>2. CASE timer' = timer
  BY <1>2 DEF TimersOK, TimerOK
<1>3. ASSUME NEW o \in Timers, LivesOn(o)
      PROVE  TimersOK' /\ \A p \in Timers : timer[p].alive => timer'[p].alive
  BY <1>3, LivesOnOK
<1>4. ASSUME NEW o \in Timers, Construct(o)
      PROVE  TimersOK' /\ \A p \in Timers : timer[p].alive => timer'[p].alive
  <2>1. PICK now \in Times, n \in Sizes : timer' = [timer EXCEPT ![o] = Started(None, now, n)]
    BY <1>4 DEF Construct, Silently
  <2>2. None \in TimerRecords
    BY NoneOK DEF TimerOK
  <2> QED
    BY <2>1, <2>2, StartedOK, SetAlive
<1>5. ASSUME NEW o \in Timers, NEW p \in Timers, CopyTimer(o, p) \/ Assign(o, p)
      PROVE  TimersOK' /\ \A q \in Timers : timer[q].alive => timer'[q].alive
  <2>1. PICK n : timer' = [timer EXCEPT ![o] = [timer[p] EXCEPT !.capacity = n, !.copy = TRUE]]
                 /\ n \in Nat
    <3>1. Len(timer[p].points) \in Nat /\ timer[o].capacity \in Nat
      BY <1>1 DEF TimerRecords
    <3>2. Larger(timer[o].capacity, Len(timer[p].points)) \in Nat
      BY <3>1 DEF Larger
    <3> QED
      BY <1>5, <3>1, <3>2 DEF CopyTimer, Assign, Silently
  <2> DEFINE r == [timer[p] EXCEPT !.capacity = n, !.copy = TRUE]
  <2>2. timer[p].alive /\ TimerOK(timer[p]) /\ timer[p] \in TimerRecords
    BY <1>1, <1>5 DEF CopyTimer, Assign, Alive
  <2>3. TimerOK(r) /\ r.alive
    BY <2>1, <2>2 DEF TimerOK, TimerRecords
  <2> QED
    BY <2>1, <2>3, SetAlive
<1>6. ASSUME NEW o \in Timers, Destroy(o)
      PROVE  /\ TimersOK'
             /\ \A p \in Timers : timer[p].alive /\ ~timer'[p].alive => p = o
  <2>1. timer' = timer \/ timer' = [timer EXCEPT ![o] = None]
    BY <1>6 DEF Destroy, Silently, Undefined
  <2> QED
    BY <1>1, <1>2, <2>1, NoneOK, SetOK
<1>7. ASSUME NEW o \in Timers, DtorThrows(o) PROVE timer' = timer
  BY <1>7 DEF DtorThrows
<1>8. CASE TimerNext
  <2>1. PICK o \in Timers :
          \/ LivesOn(o) \/ Construct(o) \/ Destroy(o) \/ DtorThrows(o)
          \/ \E p \in Timers : CopyTimer(o, p) \/ Assign(o, p)
    BY <1>8 DEF TimerNext, LivesOn
  <2> QED
    BY <1>2, <1>3, <1>4, <1>5, <1>6, <1>7, <2>1
<1> QED
  BY <1>2, <1>8 DEF timerVars

\* The inductive invariant.
THEOREM TimersCorrect == TimerSpec => []TimersOK
<1>1. TimersOK /\ [TimerNext]_timerVars => TimersOK'
  BY StepOK
<1> QED
  BY <1>1, TimersInit, PTL DEF TimerSpec

-----------------------------------------------------------------------------
LessNat == {ss \in Nat \X Nat : ss[1] < ss[2]}

\* Induction, as the existence of a least element.
LEMMA NatMinimum ==
  ASSUME NEW S \in SUBSET Nat, S # {}
  PROVE  \E m \in S : \A n \in S : m <= n
<1>1. IsWellFoundedOn(LessNat, Nat)
  BY NatLessThanWellFounded DEF OpToRel, LessNat
<1>2. PICK m \in S : \A y \in S : ~ (<<y, m>> \in LessNat)
  BY <1>1, WFMin
<1>3. \A y \in S : ~ (y < m)
  BY <1>2 DEF LessNat
<1>4. QED
  BY <1>3

\* Arithmetic modulo Width.
LEMMA WidthIs == Width \in Nat /\ Width > 0
BY TimerAssumption

LEMMA Division ==
  ASSUME NEW a \in Int
  PROVE  \E q \in Int : a = Width * q + (a % Width)
<1>1. a \div Width \in Int /\ a = Width * (a \div Width) + (a % Width)
  BY WidthIs
<1> QED
  BY <1>1

LEMMA RemainderUnique ==
  ASSUME NEW q \in Int, NEW r \in Nat, r < Width
  PROVE  (Width * q + r) % Width = r
BY WidthIs

LEMMA Multiples ==
  ASSUME NEW a \in Int, NEW q \in Int
  PROVE  (Width * q + a) % Width = a % Width
<1>1. PICK p \in Int : a = Width * p + (a % Width)
  BY Division
<1>2. PICK r \in Nat : r = a % Width /\ r < Width
  BY WidthIs
<1>3. Width * q + a = Width * (q + p) + r
  <2>1. Width * (q + p) = Width * q + Width * p
    BY WidthIs
  <2>2. Width * q \in Int /\ Width * p \in Int /\ a = Width * p + r
    BY <1>1, <1>2, WidthIs
  <2> QED
    BY <1>2, <2>1, <2>2
<1>4. (Width * (q + p) + r) % Width = r
  BY <1>2, RemainderUnique
<1> QED
  BY <1>2, <1>3, <1>4

LEMMA AddRemainders ==
  ASSUME NEW a \in Int, NEW b \in Int
  PROVE  ((a % Width) + (b % Width)) % Width = (a + b) % Width
<1>1. PICK q \in Int : a = Width * q + (a % Width)
  BY Division
<1>2. PICK r \in Int : b = Width * r + (b % Width)
  BY Division
<1>3. a % Width \in Int /\ b % Width \in Int
  BY WidthIs
<1>4. PICK c \in Int : c = (a % Width) + (b % Width)
  BY <1>3
<1>5. a + b = Width * (q + r) + c
  <2>1. Width * (q + r) = Width * q + Width * r
    BY WidthIs
  <2> QED
    BY <1>1, <1>2, <1>3, <1>4, <2>1, WidthIs
<1>6. (Width * (q + r) + c) % Width = c % Width
  BY Multiples
<1> QED
  BY <1>4, <1>5, <1>6

\* A report: the total, then one step for every two time points.
LEMMA ReportIs ==
  ASSUME NEW points \in Seq(Times), points # <<>>
  PROVE  /\ Len(points) \in Nat /\ Len(points) > 0
         /\ \A i \in 1 .. Len(points) : points[i] \in Int
         /\ calculate(points) \in Seq(Int) /\ Len(calculate(points)) = Len(points)
         /\ calculate(points)[1] = get_time_diff(points[1], points[Len(points)])
         /\ \A k \in 2 .. Len(points) :
              calculate(points)[k] = get_time_diff(points[k - 1], points[k])
<1> DEFINE total == get_time_diff(points[1], points[Len(points)])
           steps == [i \in 1 .. Len(points) - 1 |-> get_time_diff(points[i], points[i + 1])]
<1>1. /\ Len(points) \in Nat /\ Len(points) > 0 /\ Len(points) - 1 \in Nat
      /\ \A i \in 1 .. Len(points) : points[i] \in Int
  <2>1. Len(points) \in Nat /\ Len(points) # 0
    OBVIOUS
  <2>2. \A i \in 1 .. Len(points) : points[i] \in Times
    OBVIOUS
  <2>3. \A i \in 1 .. Len(points) : points[i] \in Int
    BY <2>2, TimerAssumption
  <2> QED
    BY <2>1, <2>3
<1>2. \A t0, t1 \in Int : get_time_diff(t0, t1) \in Int
  BY TimerAssumption DEF get_time_diff
<1>3. total \in Int /\ steps \in [1 .. Len(points) - 1 -> Int]
  <2>1. 1 \in 1 .. Len(points) /\ Len(points) \in 1 .. Len(points)
    BY <1>1
  <2>2. \A i \in 1 .. Len(points) - 1 : i \in 1 .. Len(points) /\ i + 1 \in 1 .. Len(points)
    BY <1>1
  <2>3. total \in Int
    BY <1>1, <1>2, <2>1
  <2>4. \A i \in 1 .. Len(points) - 1 : get_time_diff(points[i], points[i + 1]) \in Int
    BY <1>1, <1>2, <2>2
  <2> QED
    BY <2>3, <2>4
<1>4. <<total>> \in Seq(Int) /\ Len(<<total>>) = 1
  BY <1>3
<1>5. steps \in Seq(Int) /\ Len(steps) = Len(points) - 1
  <2>1. DOMAIN steps = 1 .. Len(points) - 1
    OBVIOUS
  <2> HIDE DEF steps
  <2>2. Seq(Int) = UNION {[1 .. n -> Int] : n \in Nat}
    BY SeqDef
  <2>3. steps \in Seq(Int)
    BY <1>1, <1>3, <2>2
  <2> QED
    BY <1>1, <2>1, <2>3, LenProperties
<1>6. calculate(points) = <<total>> \o steps
  BY DEF calculate
<1>7. \A k \in 2 .. Len(points) : steps[k - 1] = get_time_diff(points[k - 1], points[k])
  <2> TAKE k \in 2 .. Len(points)
  <2>1. k - 1 \in 1 .. Len(points) - 1 /\ (k - 1) + 1 = k
    BY <1>1
  <2> QED
    BY <2>1
<1>8. <<total>>[1] = total
  OBVIOUS
<1> HIDE DEF total, steps
<1>9. /\ <<total>> \o steps \in Seq(Int) /\ Len(<<total>> \o steps) = Len(points)
      /\ (<<total>> \o steps)[1] = total
      /\ \A k \in 2 .. Len(points) : (<<total>> \o steps)[k] = steps[k - 1]
  BY <1>1, <1>4, <1>5, <1>8, ConcatProperties
<1> QED
  BY <1>1, <1>6, <1>7, <1>9 DEF total

\* Added up modulo Width, the steps to a time point are the time since the first.
LEMMA StepsAddUp ==
  ASSUME NEW points \in Seq(Times), points # <<>>
  PROVE  calculate(points)[1] = StepsOf(calculate(points))
<1> DEFINE r == calculate(points)
           n == Len(points)
           Add(f) == f = [k \in 1 .. n |-> IF k = 1 THEN 0 ELSE (f[k - 1] + r[k]) % Width]
           since == [k \in 1 .. n |-> (points[k] - points[1]) % Width]
           sum == CHOOSE f : Add(f)
<1>1. /\ n \in Nat /\ n > 0 /\ \A i \in 1 .. n : points[i] \in Int
      /\ Len(r) = n /\ r[1] = (points[n] - points[1]) % Width
      /\ \A k \in 2 .. n : r[k] = (points[k] - points[k - 1]) % Width
  BY ReportIs DEF get_time_diff
<1> HIDE DEF r, n
<1>2. ASSUME NEW k \in 2 .. n
      PROVE  (((points[k - 1] - points[1]) % Width) + r[k]) % Width = (points[k] - points[1]) % Width
  <2>1. k \in 1 .. n /\ k - 1 \in 1 .. n /\ 1 \in 1 .. n
    BY <1>1
  <2>2. PICK a \in Int, b \in Int : a = points[k - 1] - points[1] /\ b = points[k] - points[k - 1]
                                     /\ a + b = points[k] - points[1]
    <3>1. points[k] \in Int /\ points[k - 1] \in Int /\ points[1] \in Int
      BY <1>1, <2>1
    <3>2. (points[k - 1] - points[1]) + (points[k] - points[k - 1]) = points[k] - points[1]
      BY <3>1
    <3> QED
      BY <3>1, <3>2
  <2>3. ((a % Width) + (b % Width)) % Width = (a + b) % Width
    BY AddRemainders
  <2> QED
    BY <1>1, <2>2, <2>3
<1>3. (points[1] - points[1]) % Width = 0
  <2>1. points[1] - points[1] = Width * 0 + 0 /\ 0 % Width = 0
    BY <1>1, WidthIs
  <2> QED
    BY <2>1, WidthIs
<1>4. Add(since)
  <2>1. \A k \in 1 .. n : since[k] = IF k = 1 THEN 0 ELSE (since[k - 1] + r[k]) % Width
    <3> TAKE k \in 1 .. n
    <3>1. CASE k = 1
      BY <1>3, <3>1
    <3>2. CASE k # 1
      <4>1. k \in 2 .. n /\ k - 1 \in 1 .. n
        BY <1>1, <3>2
      <4> QED
        BY <1>2, <3>2, <4>1
    <3> QED
      BY <3>1, <3>2
  <2>2. since = [k \in 1 .. n |-> since[k]]
    OBVIOUS
  <2> HIDE DEF since
  <2> QED
    BY <2>1, <2>2
<1>5. Add(sum)
  <2> HIDE DEF Add, since
  <2> QED
    BY <1>4
<1>6. StepsOf(r) = sum[n]
  BY <1>1 DEF StepsOf
<1> HIDE DEF sum
<1>7. \A k \in 1 .. n : sum[k] = IF k = 1 THEN 0 ELSE (sum[k - 1] + r[k]) % Width
  BY <1>5, Zenon
<1>8. \A k \in 1 .. n : sum[k] = (points[k] - points[1]) % Width
  <2> DEFINE Wrong == {k \in 1 .. n : sum[k] # (points[k] - points[1]) % Width}
  <2>1. SUFFICES ASSUME Wrong # {} PROVE FALSE
    OBVIOUS
  <2>2. Wrong \in SUBSET Nat
    BY <1>1
  <2>3. PICK k \in Wrong : \A j \in Wrong : k <= j
    <3> HIDE DEF Wrong
    <3> QED
      BY <2>1, <2>2, NatMinimum
  <2>4. k # 1
    BY <1>3, <1>7, <2>3
  <2>5. k \in 2 .. n /\ k - 1 \in 1 .. n /\ ~(k <= k - 1)
    BY <1>1, <2>3, <2>4
  <2>6. sum[k - 1] = (points[k - 1] - points[1]) % Width
    BY <2>3, <2>5
  <2>7. sum[k] = (sum[k - 1] + r[k]) % Width
    BY <1>7, <2>3, <2>4
  <2> QED
    BY <1>2, <2>3, <2>5, <2>6, <2>7
<1> QED
  BY <1>1, <1>6, <1>8 DEF r

-----------------------------------------------------------------------------
\* The rest of what holds of timers besides their records.
LEMMA TimerStep == TimerInv /\ [TimerNext]_timerVars => TimerInv'
<1> SUFFICES ASSUME TimerInv, [TimerNext]_timerVars PROVE TimerInv'
  OBVIOUS
<1> DEFINE Empty(t) == \A p \in Timers : t[p].alive /\ t[p].points = <<>> => t[p].failed
           Rest == /\ ended' \in {"no", "terminated", "undefined"}
                   /\ report' # <<>> => report'[1] = StepsOf(report')
                   /\ Empty(timer')
                   /\ ended' = "undefined" => \E o \in Timers : timer'[o].failed
<1>1. TimersOK /\ TimersOK'
  BY StepOK DEF TimerInv
<1>2. /\ timer \in [Timers -> TimerRecords]
      /\ \A o \in Timers : TimerOK(timer[o]) /\ timer[o].points \in Seq(Times)
      /\ Empty(timer)
  BY <1>1 DEF TimersOK, TimerRecords, TimerInv
<1>3. SUFFICES Rest
  BY <1>1 DEF TimerInv, StepsOf
<1>4. CASE UNCHANGED timerVars
  BY <1>4 DEF timerVars, TimerInv, StepsOf
\* Of the timers one is set to a record that is not without time points.
<1>5. ASSUME NEW o \in Timers, ended = "no", NEW r, Silently(o, r),
             r.alive /\ r.points = <<>> => r.failed
      PROVE  /\ ended' \in {"no", "terminated", "undefined"} /\ ended' # "undefined"
             /\ report' = <<>> /\ Empty(timer')
  BY <1>2, <1>5 DEF Silently
<1>6. ASSUME NEW o \in Timers, ended = "no", Undefined, timer[o].alive, timer[o].points = <<>>
      PROVE  /\ ended' \in {"no", "terminated", "undefined"}
             /\ report' = <<>> /\ Empty(timer') /\ timer'[o].failed
  BY <1>2, <1>6 DEF Undefined
<1>7. ASSUME NEW o \in Timers, NEW now \in Times, NEW n \in Sizes, NEW r \in TimerRecords
      PROVE  Started(r, now, n).points # <<>>
  BY <1>7 DEF Started, TimerRecords
<1>8. ASSUME NEW o \in Timers, NEW now \in Times
      PROVE  Push(timer[o], now).points # <<>>
  BY <1>2, PushOK
<1>9. \A o \in Timers : Alive(o) => ended = "no" /\ timer[o].alive
  BY DEF Alive
<1>10. ASSUME NEW o \in Timers, Construct(o) \/ init(o)
       PROVE  ended' = "no" /\ report' = <<>> /\ Empty(timer')
  <2>1. None \in TimerRecords
    BY NoneOK DEF TimerOK
  <2>2. PICK now \in Times, n \in Sizes :
          ended = "no" /\ (Silently(o, Started(None, now, n)) \/ Silently(o, Started(timer[o], now, n)))
    BY <1>10 DEF Construct, init, Alive
  <2>3. ended' = "no"
    BY <2>2 DEF Silently
  <2> QED
    BY <1>2, <1>5, <1>7, <2>1, <2>2, <2>3
<1>11. ASSUME NEW o \in Timers, InitFails(o) \/ dismiss(o) \/ disable_dtor_entry(o)
       PROVE  ended' = "no" /\ report' = <<>> /\ Empty(timer')
  <2>1. PICK r : ended = "no" /\ Silently(o, r) /\ (r.failed \/ r.points = timer[o].points)
                  /\ (r.failed \/ r.failed = timer[o].failed)
    <3>1. timer[o] \in TimerRecords
      BY <1>2
    <3>2. CASE InitFails(o)
      <4> DEFINE r == [timer[o] EXCEPT !.points = <<>>, !.enabled = TRUE, !.entry = TRUE,
                                       !.dismissed = FALSE, !.failed = TRUE]
      <4>1. r.failed /\ ended = "no" /\ Silently(o, r)
        BY <3>1, <3>2 DEF InitFails, Alive, TimerRecords
      <4> HIDE DEF r
      <4> QED
        BY <4>1
    <3>3. CASE dismiss(o)
      <4>1. /\ Dismissed(timer[o]).points = timer[o].points
            /\ Dismissed(timer[o]).failed = timer[o].failed
        BY <3>1 DEF Dismissed, TimerRecords
      <4> QED
        BY <3>3, <4>1 DEF dismiss, Alive
    <3>4. CASE disable_dtor_entry(o)
      <4> DEFINE r == [timer[o] EXCEPT !.entry = FALSE]
      <4>1. /\ r.points = timer[o].points /\ r.failed = timer[o].failed
            /\ ended = "no" /\ Silently(o, r)
        BY <3>1, <3>4 DEF disable_dtor_entry, Alive, TimerRecords
      <4> HIDE DEF r
      <4> QED
        BY <4>1
    <3> QED
      BY <1>11, <3>2, <3>3, <3>4
  <2>2. timer[o].alive
    BY <1>11 DEF InitFails, dismiss, disable_dtor_entry, Alive
  <2>3. ended' = "no"
    BY <2>1 DEF Silently
  <2> QED
    BY <1>2, <1>5, <2>1, <2>2, <2>3
<1>12. ASSUME NEW o \in Timers, add_step(o)
       PROVE  ended' = "no" /\ report' = <<>> /\ Empty(timer')
  <2>1. PICK now \in Times : ended = "no" /\ Silently(o, Push(timer[o], now))
    BY <1>12 DEF add_step, Alive
  <2>2. ended' = "no"
    BY <2>1 DEF Silently
  <2> QED
    BY <1>5, <1>8, <2>1, <2>2
<1>13. ASSUME NEW o \in Timers, set_name(o) PROVE Rest
  <2>1. ended = "no" /\ timer[o].alive
    BY <1>13 DEF set_name, Alive
  <2>2. CASE timer[o].points = <<>>
    BY <1>6, <1>13, <2>1, <2>2 DEF set_name
  <2>3. CASE timer[o].points # <<>>
    BY <1>5, <1>13, <2>1, <2>3 DEF set_name
  <2> QED
    BY <2>2, <2>3
<1>14. ASSUME NEW o \in Timers, NEW disable \in BOOLEAN, run(o, disable) PROVE Rest
  <2> DEFINE r == IF disable THEN Dismissed(timer[o]) ELSE timer[o]
  <2>1. /\ ended = "no" /\ timer[o].alive /\ timer[o] \in TimerRecords
    BY <1>2, <1>14 DEF run, Alive
  <2>2. r.points = timer[o].points /\ r.failed = timer[o].failed /\ r.points \in Seq(Times)
    BY <2>1 DEF Dismissed, TimerRecords
  <2>3. IF r.points = <<>>
          THEN Undefined
          ELSE /\ timer' = [timer EXCEPT ![o] = r]
               /\ report' \in {calculate(r.points), <<>>}
               /\ UNCHANGED ended
    BY <1>14 DEF run
  <2> HIDE DEF r
  <2>4. CASE r.points = <<>>
    BY <1>6, <2>1, <2>2, <2>3, <2>4
  <2>5. CASE r.points # <<>>
    <3>1. calculate(r.points)[1] = StepsOf(calculate(r.points))
      BY <2>2, <2>5, StepsAddUp
    <3>2. report' = <<>> \/ report'[1] = StepsOf(report')
      BY <2>3, <2>5, <3>1
    <3>3. Empty(timer')
      BY <1>2, <2>2, <2>3, <2>5
    <3> QED
      BY <2>1, <2>3, <2>5, <3>2, <3>3
  <2> QED
    BY <2>4, <2>5
<1>15. ASSUME NEW o \in Timers, Destroy(o) PROVE Rest
  <2>1. PICK now \in Times :
          LET r == AtEnd(timer[o], now)
          IN CASE ~r.enabled -> Silently(o, None)
               [] r.enabled /\ r.points = <<>> -> Undefined
               [] OTHER -> /\ timer' = [timer EXCEPT ![o] = None]
                           /\ report' = calculate(r.points)
                           /\ UNCHANGED ended
    BY <1>15 DEF Destroy
  <2> DEFINE r == AtEnd(timer[o], now)
  <2>2. /\ ended = "no" /\ timer[o].alive /\ TimerOK(r)
        /\ r.points = <<>> => timer[o].points = <<>>
    BY <1>2, <1>8, <1>15, PushOK DEF Destroy, Alive, AtEnd
  <2>3. r.enabled \in BOOLEAN /\ r.points \in Seq(Times)
    BY <2>2 DEF TimerOK, TimerRecords
  <2>4. ~None.alive
    BY DEF None
  <2> HIDE DEF r
  <2>5. CASE ~r.enabled
    <3>1. Silently(o, None)
      BY <2>1, <2>5 DEF r
    <3> QED
      BY <1>5, <2>2, <2>4, <3>1
  <2>6. CASE r.enabled /\ r.points = <<>>
    <3>1. Undefined
      BY <2>1, <2>6 DEF r
    <3> QED
      BY <1>6, <2>2, <2>6, <3>1
  <2>7. CASE r.enabled /\ r.points # <<>>
    <3>1. timer' = [timer EXCEPT ![o] = None] /\ report' = calculate(r.points) /\ ended' = ended
      BY <2>1, <2>7 DEF r
    <3>2. report'[1] = StepsOf(report')
      BY <2>3, <2>7, <3>1, StepsAddUp
    <3>3. Empty(timer')
      BY <1>2, <2>4, <3>1
    <3> QED
      BY <2>2, <3>1, <3>2, <3>3
  <2> QED
    BY <2>3, <2>5, <2>6, <2>7
<1>16. ASSUME NEW o \in Timers, DtorThrows(o) PROVE Rest
  BY <1>2, <1>16 DEF DtorThrows
<1>17. ASSUME NEW o \in Timers, NEW p \in Timers, CopyTimer(o, p) \/ Assign(o, p)
       PROVE  ended' = "no" /\ report' = <<>> /\ Empty(timer')
  <2>1. PICK n : ended = "no" /\ Silently(o, [timer[p] EXCEPT !.capacity = n, !.copy = TRUE])
    BY <1>17 DEF CopyTimer, Assign, Alive
  <2>2. timer[p] \in TimerRecords
    BY <1>2
  <2> DEFINE r == [timer[p] EXCEPT !.capacity = n, !.copy = TRUE]
  <2>3. r.alive = timer[p].alive /\ r.points = timer[p].points /\ r.failed = timer[p].failed
    BY <2>2 DEF TimerRecords
  <2>4. ended' = "no"
    BY <2>1 DEF Silently
  <2> HIDE DEF r
  <2>5. Silently(o, r)
    BY <2>1 DEF r
  <2> QED
    BY <1>2, <1>5, <2>1, <2>3, <2>4, <2>5
<1>18. CASE TimerNext
  <2>1. PICK o \in Timers :
          \/ Construct(o) \/ init(o) \/ InitFails(o) \/ add_step(o) \/ set_name(o)
          \/ dismiss(o) \/ disable_dtor_entry(o) \/ Destroy(o) \/ DtorThrows(o)
          \/ \E disable \in BOOLEAN : run(o, disable)
          \/ \E p \in Timers : CopyTimer(o, p) \/ Assign(o, p)
    BY <1>18 DEF TimerNext
  <2> QED
    BY <1>10, <1>11, <1>12, <1>13, <1>14, <1>15, <1>16, <1>17, <2>1
<1> QED
  BY <1>4, <1>18

\* The steps of every report add up to its total, and only a timer whose init failed
\* leads to undefined behaviour.
THEOREM ReportsAddUp == TimerSpec => []TimerInv
<1>1. TimerInit => TimerInv
  BY TimersInit DEF TimerInit, TimerInv, None
<1> QED
  BY <1>1, TimerStep, PTL DEF TimerSpec

-----------------------------------------------------------------------------
\* A report is never empty: it begins with the total.
LEMMA ReportNotEmpty ==
  ASSUME NEW points \in Seq(Times), points # <<>>
  PROVE  calculate(points) # <<>>
<1>1. Len(calculate(points)) > 0
  BY ReportIs
<1> QED
  BY <1>1

\* A timer that goes out of scope reports its measurement unless it was dismissed.
THEOREM ReportsOnce == TimerSpec => DestructorReports
<1>1. ASSUME TimersOK, TimerNext, NEW o \in Timers, Alive(o), ~timer'[o].alive
      PROVE  report' = <<>> <=> timer[o].dismissed
  <2>1. Destroy(o) /\ TimerOK(timer[o]) /\ timer[o].alive
    BY <1>1, StepOK DEF TimersOK, Alive
  <2>2. timer[o].enabled <=> ~timer[o].dismissed
    BY <2>1 DEF TimerOK
  <2>3. PICK now \in Times :
          LET r == AtEnd(timer[o], now)
          IN CASE ~r.enabled -> Silently(o, None)
               [] r.enabled /\ r.points = <<>> -> Undefined
               [] OTHER -> /\ timer' = [timer EXCEPT ![o] = None]
                           /\ report' = calculate(r.points)
                           /\ UNCHANGED ended
    BY <2>1 DEF Destroy
  <2> DEFINE r == AtEnd(timer[o], now)
  <2>4. r.enabled = timer[o].enabled /\ TimerOK(r)
    BY <2>1, PushOK DEF AtEnd
  <2>5. r.enabled \in BOOLEAN /\ r.points \in Seq(Times)
    BY <2>4 DEF TimerOK, TimerRecords
  <2> HIDE DEF r
  <2>6. CASE ~r.enabled
    <3>1. report' = <<>>
      BY <2>3, <2>6 DEF Silently, r
    <3> QED
      BY <2>2, <2>4, <2>6, <3>1
  <2>7. CASE r.enabled /\ r.points # <<>>
    <3>1. report' = calculate(r.points)
      BY <2>3, <2>7 DEF r
    <3> QED
      BY <2>2, <2>4, <2>5, <2>7, <3>1, ReportNotEmpty
  <2>8. CASE r.enabled /\ r.points = <<>>
    <3>1. timer' = timer
      BY <2>3, <2>8 DEF Undefined, r
    <3> QED
      BY <1>1, <3>1 DEF Alive
  <2> QED
    BY <2>5, <2>6, <2>7, <2>8
<1>2. ASSUME TimersOK, [TimerNext]_timerVars
      PROVE  [\A o \in Timers : Alive(o) /\ ~timer'[o].alive =>
                report' = <<>> <=> timer[o].dismissed]_timerVars
  BY <1>1, <1>2
<1> QED
  BY <1>2, TimersCorrect, PTL DEF TimerSpec, DestructorReports

\* A dismissed timer with room for its last entry ends without an exception.
THEOREM DismissedEndsQuietly == TimerSpec => EndsQuietly
<1>1. ASSUME TimersOK, NEW o \in Timers, DtorThrows(o), timer[o].dismissed
      PROVE  Len(timer[o].points) >= timer[o].size \/ timer[o].copy
  <2>1. /\ TimerOK(timer[o]) /\ timer[o].alive /\ timer[o] \in TimerRecords
        /\ Len(timer[o].points) \in Nat
    BY <1>1 DEF DtorThrows, Alive, TimersOK, TimerOK, TimerRecords
  <2>2. ~timer[o].enabled /\ (timer[o].size <= timer[o].capacity \/ timer[o].copy)
    BY <1>1, <2>1 DEF TimerOK
  <2>3. ~HasRoom(timer[o])
    BY <1>1, <2>2 DEF DtorThrows
  <2>4. timer[o].size \in Nat /\ timer[o].capacity \in Nat
    BY <2>1 DEF TimerRecords
  <2> QED
    BY <2>1, <2>2, <2>3, <2>4 DEF HasRoom
<1>2. ASSUME TimersOK
      PROVE  [\A o \in Timers : DtorThrows(o) /\ timer[o].dismissed =>
                Len(timer[o].points) >= timer[o].size \/ timer[o].copy]_timerVars
  BY <1>1, <1>2
<1> QED
  BY <1>2, TimersCorrect, PTL DEF TimerSpec, EndsQuietly
=============================================================================
