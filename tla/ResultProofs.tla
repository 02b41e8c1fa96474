---------------------------- MODULE ResultProofs ----------------------------
(***************************************************************************)
(* Results of both versions, any number of them, with any codes, messages  *)
(* and types of values: whatever is copied, moved, reset and read, an      *)
(* object reports what it was given or the text of its code.               *)
(***************************************************************************)
EXTENDS ResultV2, Integers, TLAPS

Counters == [Operations -> Nat]
Own      == Given \cup {""}

\* What a step does to codes and messages, to the object o.
Effect(o) ==
  \/ \E c \in Codes, m \in Own : SetTo(o, c, m)
  \/ \E p \in used : CopyTo(o, p) \/ MoveTo(o, p)
  \/ ReadMessage(o)
  \/ \E c \in Codes : /\ res' = [res EXCEPT ![o].code = c]
                      /\ written' = written \cup {o}

\* What a step does to the values.
ValueEffect == value' = value \/ \E o \in Valued, v \in Counters : value' = [value EXCEPT ![o] = v]

-----------------------------------------------------------------------------
LEMMA CountIsCounters ==
  ASSUME NEW v \in Counters, NEW op \in Operations
  PROVE  Count(v, op) \in Counters /\ Call(v, op) \in Counters
<1>1. Count(v, op) \in Counters
  BY DEF Count, Counters
<1> QED
  BY <1>1 DEF Call

LEMMA StartsAreCounters ==
  /\ Fresh \in Counters /\ Undetermined \in Counters
  /\ Argument \in Counters /\ Start \in Counters
<1>1. Fresh \in Counters /\ Undetermined \in Counters
  BY DEF Fresh, Undetermined, Counters
<1>2. New(class) \in Counters
  BY <1>1, CountIsCounters DEF New, Operations
<1>3. Argument \in Counters
  BY <1>1, <1>2 DEF Argument
<1>4. Call(Argument, "move_ctor") \in Counters
  BY <1>3, CountIsCounters DEF Operations
<1> QED
  BY <1>1, <1>3, <1>4 DEF Start

LEMMA StoredAreCounters ==
  ASSUME NEW rvalue \in BOOLEAN, NEW v \in Stored(Argument, rvalue)
  PROVE  v \in Counters
<1>1. \A op \in {"copy_ctor", "move_ctor", "move_assign"} : Call(Argument, op) \in Counters
  BY StartsAreCounters, CountIsCounters DEF Operations
<1>2. v \in {Call(Argument, "move_ctor"), Call(Argument, "move_assign"), Call(Argument, "copy_ctor")}
  BY DEF Stored
<1> QED
  BY <1>1, <1>2

\* The operations that make values give them counters.
LEMMA SetValueEffect ==
  ASSUME NEW o \in Valued, NEW v \in Counters, SetValue(o, v)
  PROVE  ValueEffect /\ used' = used /\ class' = class
BY DEF SetValue, ValueEffect, Same

LEMMA KeepEffect ==
  ASSUME Keep
  PROVE  ValueEffect /\ used' = used /\ class' = class
BY DEF Keep, Same, ValueEffect

LEMMA OwnOrOtherEffect ==
  ASSUME NEW o, OwnOrOther(o)
  PROVE  Effect(o)
BY DEF OwnOrOther, CopyOrMove, Effect, Own

LEMMA OwnCodeEffect ==
  ASSUME NEW o, OwnCode(o)
  PROVE  Effect(o)
BY DEF OwnCode, Effect, Own

LEMMA NoMessage ==
  ASSUME NEW o, NEW c \in Codes, SetTo(o, c, "")
  PROVE  Effect(o)
BY DEF Effect, Own

LEMMA StandardCodes == EXT_OK \in Codes /\ EXT_FAIL \in Codes /\ StatFailed \in Own
BY CodesAssumption, GivenAssumption DEF Own

LEMMA DefaultValueEffect ==
  ASSUME NEW o \in Valued, DefaultValue(o)
  PROVE  ValueEffect /\ used' = used /\ class' = class
BY StartsAreCounters, SetValueEffect DEF DefaultValue

-----------------------------------------------------------------------------
Good == ValueEffect /\ used' = used /\ class' = class

\* Every operation of version v1 has one of the effects.
LEMMA StepV1 ==
  ASSUME ResultInv, NextV1
  PROVE  Good /\ \E o \in used : Effect(o)
<1>1. /\ value \in [Valued -> Counters] /\ used \subseteq Objects
      /\ Typed \subseteq Valued /\ Second \subseteq Valued
  BY ProgramsAssumption DEF ResultInv, Counters, Valued
<1>2. ASSUME NEW o \in used, NEW c \in Codes, NEW m \in Own, Create(o, c, m) \/ reset(o, c, m)
      PROVE  Good /\ Effect(o)
  BY <1>2, KeepEffect DEF Create, reset, Good, Effect
<1>3. ASSUME NEW o \in used, NEW p \in used,
             CopyResult(o, p) \/ MoveResult(o, p) \/ reset_to(o, p) \/ TakeResult(o, p)
      PROVE  Good /\ Effect(o)
  BY <1>3, KeepEffect DEF CopyResult, MoveResult, reset_to, TakeResult, CopyOrMove, Good, Effect
<1>4. ASSUME NEW o \in used, NEW p \in used, CopyTyped(o, p)
      PROVE  Good /\ Effect(o)
  <2>1. PICK op \in {"copy_ctor", "copy_assign"} : SetValue(o, Call(value[p], op))
    BY <1>4 DEF CopyTyped
  <2>2. o \in Valued /\ p \in Valued /\ CopyTo(o, p)
    BY <1>1, <1>4 DEF CopyTyped
  <2>3. Call(value[p], op) \in Counters
    BY <1>1, <2>2, CountIsCounters DEF Operations
  <2> QED
    BY <2>1, <2>2, <2>3, SetValueEffect DEF Good, Effect
<1>5. ASSUME NEW o \in used, NEW p \in used, MoveTyped(o, p)
      PROVE  Good /\ Effect(o)
  <2>1. PICK op \in {"copy_ctor", "move_ctor", "move_assign"} : SetValue(o, Call(value[p], op))
    BY <1>5 DEF MoveTyped
  <2>2. o \in Valued /\ p \in Valued /\ (CopyTo(o, p) \/ MoveTo(o, p))
    BY <1>1, <1>5 DEF MoveTyped
  <2>3. Call(value[p], op) \in Counters
    BY <1>1, <2>2, CountIsCounters DEF Operations
  <2> QED
    BY <2>1, <2>2, <2>3, SetValueEffect DEF Good, Effect
<1>6. ASSUME NEW o \in used, get_message(o) \/ message(o)
      PROVE  Good /\ Effect(o)
  BY <1>6, KeepEffect DEF get_message, message, Good, Effect
<1>7. ASSUME NEW o \in used, NEW c \in Codes, AssignCode(o, c)
      PROVE  Good /\ Effect(o)
  BY <1>7, KeepEffect DEF AssignCode, Good, Effect
<1>8. ASSUME NEW o \in used, NEW rvalue \in BOOLEAN, MakeTyped(o, rvalue)
      PROVE  Good /\ Effect(o)
  <2>1. PICK v \in Stored(Argument, rvalue) : SetValue(o, v)
    BY <1>8 DEF MakeTyped
  <2>2. v \in Counters /\ o \in Valued
    BY <1>1, <1>8, StoredAreCounters DEF MakeTyped
  <2> QED
    BY <1>8, <2>1, <2>2, SetValueEffect, OwnOrOtherEffect DEF MakeTyped, Good
<1>9. ASSUME NEW o \in used, DefaultTyped(o) PROVE Good /\ Effect(o)
  BY <1>1, <1>9, DefaultValueEffect, NoMessage, StandardCodes DEF DefaultTyped, Good
<1>10. ASSUME NEW o \in used, ResetTyped(o) PROVE Good /\ Effect(o)
  BY <1>10, KeepEffect, OwnOrOtherEffect DEF ResetTyped, Good
<1>11. ASSUME NEW o \in used, get_stat(o) PROVE Good /\ Effect(o)
  <2>1. o \in Valued /\ Fresh \in Counters /\ Undetermined \in Counters
    BY <1>1, <1>11, StartsAreCounters DEF get_stat
  <2>2. Good
    BY <1>11, <2>1, SetValueEffect DEF get_stat, Good
  <2>3. Effect(o)
    <3>1. SetTo(o, EXT_OK, "") \/ SetTo(o, EXT_FAIL, StatFailed)
      BY <1>11 DEF get_stat
    <3> QED
      BY <3>1, NoMessage, StandardCodes DEF Effect
  <2> QED
    BY <2>2, <2>3
<1> QED
  BY <1>2, <1>3, <1>4, <1>5, <1>6, <1>7, <1>8, <1>9, <1>10, <1>11 DEF NextV1, Own

\* Every operation of version v2.
LEMMA StepV2 ==
  ASSUME ResultInv, NextV2
  PROVE  Good /\ \E o \in used : Effect(o)
<1>1. value \in [Valued -> Counters] /\ Second \subseteq Valued
  BY DEF ResultInv, Counters, Valued
<1>2. ASSUME NEW o \in used, DefaultV2(o) PROVE Good /\ Effect(o)
  BY <1>1, <1>2, DefaultValueEffect, KeepEffect, NoMessage DEF DefaultV2, Good
<1>3. ASSUME NEW o \in used, success(o) PROVE Good /\ Effect(o)
  <2>1. PICK v \in {Argument, Call(Argument, IF "move_ctor" \in class THEN "move_ctor"
                                                                    ELSE "copy_ctor")} :
          SetValue(o, v)
    BY <1>3 DEF success
  <2>2. v \in Counters /\ o \in Valued
    BY <1>1, <1>3, StartsAreCounters, CountIsCounters DEF success, Operations
  <2> QED
    BY <1>3, <2>1, <2>2, SetValueEffect, NoMessage, StandardCodes DEF success, Good
<1>4. ASSUME NEW o \in used, error(o) PROVE Good /\ Effect(o)
  <2>1. PICK v \in Stored(Argument, TRUE) : SetValue(o, v)
    BY <1>4 DEF error
  <2>2. v \in Counters /\ o \in Valued
    BY <1>1, <1>4, StoredAreCounters DEF error
  <2> QED
    BY <1>4, <2>1, <2>2, SetValueEffect, OwnCodeEffect DEF error, Good
<1>5. ASSUME NEW o \in used, resetV2(o) \/ get_messageV2(o) PROVE Good /\ Effect(o)
  BY <1>5, KeepEffect, OwnCodeEffect DEF resetV2, get_messageV2, Good, Effect
<1>6. ASSUME NEW o \in used, NEW rvalue \in BOOLEAN, MakeV2(o, rvalue)
      PROVE  Good /\ Effect(o)
  <2>1. Effect(o)
    BY <1>6, OwnCodeEffect DEF MakeV2
  <2>2. CASE o \in Bools
    BY <1>6, <2>1, <2>2, KeepEffect DEF MakeV2, Good
  <2>3. CASE o \notin Bools
    <3>1. PICK v \in Stored(Argument, rvalue) : SetValue(o, v)
      BY <1>6, <2>3 DEF MakeV2
    <3>2. v \in Counters /\ o \in Valued
      BY <1>1, <1>6, <2>3, StoredAreCounters DEF MakeV2, V2
    <3> QED
      BY <2>1, <3>1, <3>2, SetValueEffect DEF Good
  <2> QED
    BY <2>2, <2>3
<1>7. ASSUME NEW o \in used, NEW p \in used, MakeFrom(o, p) PROVE Good /\ Effect(o)
  <2>1. Effect(o)
    BY <1>7 DEF MakeFrom, Effect
  <2>2. Call(Argument, "copy_ctor") \in Counters
    BY StartsAreCounters, CountIsCounters DEF Operations
  <2>3. Keep \/ (o \in Second /\ SetValue(o, Call(Argument, "copy_ctor")))
    BY <1>7 DEF MakeFrom
  <2> QED
    BY <1>1, <2>1, <2>2, <2>3, KeepEffect, SetValueEffect DEF Good
<1>8. ASSUME NEW o \in used, NEW p \in used,
             CopyBool(o, p) \/ MoveBool(o, p) \/ to_result(o, p) \/ resetV2_to(o, p)
      PROVE  Good /\ Effect(o)
  BY <1>8, KeepEffect DEF CopyBool, MoveBool, to_result, resetV2_to, CopyOrMove, Good, Effect
<1> QED
  BY <1>2, <1>3, <1>4, <1>5, <1>6, <1>7, <1>8 DEF NextV2

-----------------------------------------------------------------------------
LEMMA ResultStart == Init => ResultInv
<1> SUFFICES ASSUME Init PROVE ResultInv
  OBVIOUS
<1>1. <<used, class>> \in Programs
  <2>1. PICK q \in Programs : used = q[1] /\ class = q[2]
    BY DEF Init
  <2>2. q = <<q[1], q[2]>>
    BY ProgramsAssumption
  <2> QED
    BY <2>1, <2>2
<1>2. res \in [Objects -> [code : Codes, message : Texts]]
  BY StandardCodes DEF Init, Texts
<1>3. value \in [Valued -> [Operations -> Nat]]
  BY StartsAreCounters DEF Init, Counters
<1>4. \A o \in Objects : res[o].message = ""
  BY DEF Init
<1> QED
  BY <1>1, <1>2, <1>3, <1>4 DEF Init, ResultInv

\* The effects keep messages that were given, or that belong to their code.
LEMMA EffectKeeps ==
  ASSUME ResultInv, Good, NEW o \in used, Effect(o)
  PROVE  ResultInv'
<1>1. /\ used \subseteq Objects /\ o \in Objects
      /\ res \in [Objects -> [code : Codes, message : Texts]]
      /\ <<used, class>> \in Programs /\ written \subseteq used
  BY ProgramsAssumption DEF ResultInv
<1>2. \A q \in Objects \ written :
        res[q].message \in {"", error_code_vo_string(res[q].code)} \cup Given
  BY DEF ResultInv
<1>3. \A c : error_code_vo_string(c) \in Texts
  BY DEF error_code_vo_string, Texts
<1>4. value' \in [Valued -> [Operations -> Nat]]
  BY DEF Good, ValueEffect, Counters, ResultInv
<1>5. (<<used, class>> \in Programs)'
  BY <1>1 DEF Good
<1> DEFINE Fits == \A q \in Objects \ written :
                     res[q].message \in {"", error_code_vo_string(res[q].code)} \cup Given
           Typed_ == /\ written \subseteq used
                     /\ res \in [Objects -> [code : Codes, message : Texts]]
<1>6. CASE \E c \in Codes, m \in Own : SetTo(o, c, m)
  <2>1. PICK c \in Codes, m \in Own : SetTo(o, c, m)
    BY <1>6
  <2>2. Typed_'
    BY <1>1, <2>1 DEF SetTo, Own, Texts, Good
  <2>3. Fits'
    BY <1>1, <1>2, <2>1 DEF SetTo, Own
  <2> QED
    BY <1>4, <1>5, <2>2, <2>3 DEF ResultInv
<1>7. ASSUME NEW p \in used, CopyTo(o, p) PROVE ResultInv'
  <2>1. Typed_'
    BY <1>1, <1>7 DEF CopyTo, WrittenLike, Good
  <2>2. Fits'
    BY <1>1, <1>2, <1>7 DEF CopyTo, WrittenLike
  <2> QED
    BY <1>4, <1>5, <2>1, <2>2 DEF ResultInv
<1>8. ASSUME NEW p \in used, MoveTo(o, p) PROVE ResultInv'
  <2>1. "" \in Texts
    BY DEF Texts
  <2>2. Typed_'
    BY <1>1, <1>8, <2>1 DEF MoveTo, WrittenLike, Good
  <2>3. Fits'
    BY <1>1, <1>2, <1>8 DEF MoveTo, WrittenLike
  <2> QED
    BY <1>4, <1>5, <2>2, <2>3 DEF ResultInv
<1>9. CASE ReadMessage(o)
  <2>1. Typed_'
    BY <1>1, <1>3, <1>9 DEF ReadMessage, Good
  <2>2. Fits'
    BY <1>1, <1>2, <1>9 DEF ReadMessage
  <2> QED
    BY <1>4, <1>5, <2>1, <2>2 DEF ResultInv
<1>10. ASSUME NEW c \in Codes, res' = [res EXCEPT ![o].code = c], written' = written \cup {o}
       PROVE  ResultInv'
  <2>1. Typed_'
    BY <1>1, <1>10 DEF Good
  <2>2. Fits'
    BY <1>1, <1>2, <1>10
  <2> QED
    BY <1>4, <1>5, <2>1, <2>2 DEF ResultInv
<1> QED
  BY <1>6, <1>7, <1>8, <1>9, <1>10 DEF Effect

LEMMA ResultStep == ResultInv /\ [Next]_vars => ResultInv'
<1> SUFFICES ASSUME ResultInv, [Next]_vars PROVE ResultInv'
  OBVIOUS
<1>1. CASE Next
  BY <1>1, StepV1, StepV2, EffectKeeps DEF Next
<1>2. CASE UNCHANGED vars
  BY <1>2 DEF vars, ResultInv
<1> QED
  BY <1>1, <1>2

\* A message is one that was given or the text of the code it is returned with.
THEOREM ResultCorrect == Spec => []ResultInv
BY ResultStart, ResultStep, PTL DEF Spec

-----------------------------------------------------------------------------
\* What an object reports, and how it changes when its code and message do.
Told(c, m)  == [code |-> c, text |-> IF m = "" /\ c # EXT_OK THEN error_code_vo_string(c) ELSE m]
Standards == [c \in Codes |-> error_code_vo_string(c)]

LEMMA ReportIsTold == Report = [q \in used |-> Told(res[q].code, res[q].message)]
BY DEF Report, Text, Ok, Told

\* Without a message of its own an object reports the text of its code: that of
\* EXT_OK is empty.
LEMMA ToldStandard ==
  ASSUME NEW c \in Codes
  PROVE  Told(c, "") = [code |-> c, text |-> Standards[c]]
<1>1. Standards[c] = error_code_vo_string(c)
  BY DEF Standards
<1>2. CASE c = EXT_OK
  <2>1. error_code_vo_string(c) = ""
    BY <1>2 DEF error_code_vo_string, EXT_OK, EXT_ERROR_NET
  <2> QED
    BY <1>1, <1>2, <2>1 DEF Told
<1>3. CASE c # EXT_OK
  BY <1>1, <1>3 DEF Told
<1> QED
  BY <1>2, <1>3

LEMMA ToldGiven ==
  ASSUME NEW c \in Codes, NEW m, m # ""
  PROVE  Told(c, m) = [code |-> c, text |-> m]
BY DEF Told

LEMMA EagerInit == Init => Eager!Init
<1> SUFFICES ASSUME Init PROVE Eager!Init
  OBVIOUS
<1>1. used \in SUBSET Objects
  BY ProgramsAssumption DEF Init
<1>2. Told(0, "") = [code |-> 0, text |-> Standards[0]]
  BY ToldStandard, StandardCodes DEF EXT_OK
<1>3. Report = [q \in used |-> [code |-> 0, text |-> Standards[0]]]
  BY <1>1, <1>2, ReportIsTold DEF Init, EXT_OK
<1> QED
  BY <1>1, <1>3 DEF Eager!Init, Standards

\* Reading a message changes nothing that is reported.
LEMMA ReadReports ==
  ASSUME ResultInv, used' = used, NEW o \in used, ReadMessage(o)
  PROVE  Report' = Report
<1>1. /\ used \subseteq Objects
      /\ res \in [Objects -> [code : Codes, message : Texts]]
  BY ProgramsAssumption DEF ResultInv
<1>2. CASE res[o].message = "" /\ ~Ok(o)
  <2> DEFINE c == res[o].code
  <2>1. res' = [res EXCEPT ![o].message = error_code_vo_string(c)]
    BY <1>2 DEF ReadMessage
  <2>2. Told(c, error_code_vo_string(c)) = Told(c, "")
    <3>1. c # EXT_OK
      BY <1>2 DEF Ok
    <3> QED
      BY <3>1 DEF Told
  <2>3. \A q \in used : Told(res'[q].code, res'[q].message) = Told(res[q].code, res[q].message)
    BY <1>1, <1>2, <2>1, <2>2
  <2>4. Report' = [q \in used |-> Told(res'[q].code, res'[q].message)]
    BY ReportIsTold DEF Report, Text, Ok, Told
  <2> QED
    BY <2>3, <2>4, ReportIsTold
<1>3. CASE ~(res[o].message = "" /\ ~Ok(o))
  BY <1>3 DEF ReadMessage, Report, Text, Ok
<1> QED
  BY <1>2, <1>3

LEMMA EffectIsEager ==
  ASSUME ResultInv, used' = used, NEW o \in used, Effect(o)
  PROVE  Eager!Next \/ Report' = Report
<1>1. /\ used \subseteq Objects /\ o \in Objects
      /\ res \in [Objects -> [code : Codes, message : Texts]]
      /\ \A q \in used : res[q].code \in Codes /\ res[q].message \in Texts
  BY ProgramsAssumption DEF ResultInv
<1>2. /\ Report = [q \in used |-> Told(res[q].code, res[q].message)]
      /\ Report' = [q \in used |-> Told(res'[q].code, res'[q].message)]
      /\ DOMAIN Report = used
  BY ReportIsTold DEF Report, Text, Ok, Told
<1>3. ASSUME NEW c \in Codes, NEW m \in Own, SetTo(o, c, m) PROVE Eager!Set(o, c)
  <2>1. Report' = [Report EXCEPT ![o] = Told(c, m)]
    BY <1>1, <1>2, <1>3 DEF SetTo
  <2>2. PICK t \in Given \cup {Standards[c]} : Told(c, m) = [code |-> c, text |-> t]
    BY ToldStandard, ToldGiven DEF Own
  <2> QED
    BY <2>1, <2>2 DEF Eager!Set, Standards
<1>4. ASSUME NEW p \in used, CopyTo(o, p) PROVE Eager!Copy(o, p)
  BY <1>1, <1>2, <1>4 DEF CopyTo, Eager!Copy
<1>5. ASSUME NEW p \in used, MoveTo(o, p) PROVE Eager!Move(o, p)
  <2>1. Told(res[p].code, "") = [code |-> res[p].code, text |-> Standards[res[p].code]]
    BY <1>1, ToldStandard
  <2>2. /\ Report[p] = Told(res[p].code, res[p].message) /\ Report[p].code = res[p].code
        /\ [Report[p] EXCEPT !.text = Standards[res[p].code]] = Told(res[p].code, "")
    <3>1. Report[p] = Told(res[p].code, res[p].message)
      BY <1>2
    <3>2. PICK t : Told(res[p].code, res[p].message) = [code |-> res[p].code, text |-> t]
      BY DEF Told
    <3>3. Report[p] = [code |-> res[p].code, text |-> t]
      BY <3>1, <3>2
    <3>4. [Report[p] EXCEPT !.text = Standards[res[p].code]]
            = [code |-> res[p].code, text |-> Standards[res[p].code]]
      BY <3>3
    <3> QED
      BY <2>1, <3>1, <3>3, <3>4
  <2>3. \A q \in used :
          res'[q] = IF q = p THEN [res[p] EXCEPT !.message = ""]
                             ELSE IF q = o THEN res[p] ELSE res[q]
    BY <1>1, <1>5 DEF MoveTo
  <2>4. \A q \in used :
          Told(res'[q].code, res'[q].message)
            = IF q = p THEN Told(res[p].code, "")
                       ELSE IF q = o THEN Report[p] ELSE Report[q]
    <3>1. \A q \in used : Report[q] = Told(res[q].code, res[q].message)
      BY <1>2
    <3>2. ASSUME NEW q \in used
          PROVE  Told(res'[q].code, res'[q].message)
                   = IF q = p THEN Told(res[p].code, "")
                              ELSE IF q = o THEN Report[p] ELSE Report[q]
      <4>1. CASE q = p
        <5>1. res'[q] = [res[p] EXCEPT !.message = ""]
          BY <2>3, <4>1
        <5>2. res'[q].code = res[p].code /\ res'[q].message = ""
          BY <1>1, <5>1
        <5> QED
          BY <4>1, <5>2
      <4>2. CASE q # p /\ q = o
        BY <2>3, <3>1, <4>2
      <4>3. CASE q # p /\ q # o
        BY <2>3, <3>1, <4>3
      <4> QED
        BY <4>1, <4>2, <4>3
    <3> QED
      BY <3>2
  <2> DEFINE moved == [Report EXCEPT ![o] = Report[p], ![p].text = Standards[Report[p].code]]
  <2>5. moved = [q \in used |-> IF q = p THEN Told(res[p].code, "")
                                 ELSE IF q = o THEN Report[p] ELSE Report[q]]
    BY <1>2, <2>1, <2>2
  <2>6. Report' = moved
    BY <1>2, <2>4, <2>5
  <2> QED
    BY <2>6 DEF Eager!Move, Standards
<1>6. CASE ReadMessage(o)
  BY <1>6, ReadReports
<1>7. ASSUME NEW c \in Codes, res' = [res EXCEPT ![o].code = c] PROVE Eager!AssignCode(o, c)
  <2>1. Report' = [Report EXCEPT ![o] = Told(c, res[o].message)]
    BY <1>1, <1>2, <1>7
  <2>2. PICK t \in {Report[o].text, Standards[c]} :
          Told(c, res[o].message) = [code |-> c, text |-> t]
    <3>1. CASE res[o].message = ""
      BY <3>1, ToldStandard
    <3>2. CASE res[o].message # ""
      <4>1. Report[o] = [code |-> res[o].code, text |-> res[o].message]
        BY <1>1, <1>2, <3>2, ToldGiven
      <4>2. Told(c, res[o].message) = [code |-> c, text |-> Report[o].text]
        <5>1. Report[o].text = res[o].message
          BY <4>1
        <5>2. Told(c, res[o].message) = [code |-> c, text |-> res[o].message]
          BY <3>2, <1>7, ToldGiven
        <5> QED
          BY <5>1, <5>2
      <4> QED
        BY <4>2
    <3> QED
      BY <3>1, <3>2
  <2> QED
    BY <2>1, <2>2 DEF Eager!AssignCode, Standards
<1> QED
  BY <1>2, <1>3, <1>4, <1>5, <1>6, <1>7 DEF Effect, Eager!Next

LEMMA EagerStep == ResultInv /\ [Next]_vars => [Eager!Next]_Report
<1> SUFFICES ASSUME ResultInv, [Next]_vars PROVE Eager!Next \/ Report' = Report
  OBVIOUS
<1>1. CASE Next
  BY <1>1, StepV1, StepV2, EffectIsEager DEF Next, Good
<1>2. CASE UNCHANGED vars
  BY <1>2 DEF vars, Report, Text, Ok
<1> QED
  BY <1>1, <1>2

\* Messages that are made when they are asked for are not told from messages that
\* are made at once.
THEOREM LazyLooksEager == Spec => LooksEager
<1>1. ASSUME ResultInv, NEW o \in used, Read(o) PROVE Report' = Report
  <2>1. ReadMessage(o) /\ used' = used
    BY <1>1 DEF Read, get_message, message, get_messageV2, Keep, Same
  <2> QED
    BY <1>1, <2>1, ReadReports
<1>2. ResultInv => [(\E o \in used : Read(o)) => UNCHANGED Report]_vars
  BY <1>1
<1> QED
  BY <1>2, EagerInit, EagerStep, ResultCorrect, PTL DEF Spec, LooksEager, Eager!Spec

-----------------------------------------------------------------------------
\* Counting adds one to one of the counters, and an argument has counted once.
LEMMA CountAdds ==
  ASSUME NEW v \in Counters, NEW op \in Operations
  PROVE  /\ opearations(Count(v, op)) = opearations(v) + 1
         /\ Copies(Count(v, op)) = IF op \in {"copy_ctor", "copy_assign"} THEN Copies(v) + 1
                                                                        ELSE Copies(v)
<1>1. \A o \in Operations : v[o] \in Nat /\ Count(v, op)[o] = IF o = op THEN v[o] + 1 ELSE v[o]
  BY DEF Counters, Count
<1>2. op \in {"default_ctor", "non_default_ctor", "copy_ctor", "copy_assign", "move_ctor",
              "move_assign"}
  BY DEF Operations
<1> HIDE DEF Counters, Count
<1>3. CASE op = "default_ctor"
  BY <1>1, <1>3 DEF Operations, opearations, Copies
<1>4. CASE op = "non_default_ctor"
  BY <1>1, <1>4 DEF Operations, opearations, Copies
<1>5. CASE op = "copy_ctor"
  BY <1>1, <1>5 DEF Operations, opearations, Copies
<1>6. CASE op = "copy_assign"
  BY <1>1, <1>6 DEF Operations, opearations, Copies
<1>7. CASE op = "move_ctor"
  BY <1>1, <1>7 DEF Operations, opearations, Copies
<1>8. CASE op = "move_assign"
  BY <1>1, <1>8 DEF Operations, opearations, Copies
<1> QED
  BY <1>2, <1>3, <1>4, <1>5, <1>6, <1>7, <1>8

LEMMA ArgumentCost ==
  ASSUME class \in Classes
  PROVE  Argument \in Counters /\ opearations(Argument) = 1 /\ Copies(Argument) = 0
<1>1. Fresh \in Counters /\ Argument \in Counters
  BY StartsAreCounters
<1>2. opearations(Fresh) = 0 /\ Copies(Fresh) = 0
  BY DEF Fresh, Operations, opearations, Copies
<1>3. Argument = Count(Fresh, "default_ctor") \/ Argument = Count(Fresh, "non_default_ctor")
  BY DEF Argument, New
<1>4. /\ "default_ctor" \in Operations /\ "non_default_ctor" \in Operations
      /\ "default_ctor" \notin {"copy_ctor", "copy_assign"}
      /\ "non_default_ctor" \notin {"copy_ctor", "copy_assign"}
  BY DEF Operations
<1> QED
  BY <1>1, <1>2, <1>3, <1>4, CountAdds

\* Whatever T has deleted, one call makes the value, which copies only an lvalue or
\* what cannot be moved.
LEMMA StoredCost ==
  ASSUME class \in Classes, NEW rvalue \in BOOLEAN, NEW v \in Stored(Argument, rvalue)
  PROVE  /\ opearations(v) = 2
         /\ Copies(v) = IF rvalue /\ class # no_move THEN 0 ELSE 1
<1>1. \A op \in Operations : Call(Argument, op) = Count(Argument, op)
  BY DEF Call
<1>2. {"copy_ctor", "move_ctor", "move_assign"} \subseteq Operations
  BY DEF Operations
<1>3. rvalue /\ class # no_move => "move_ctor" \in class \/ "move_assign" \in class
  BY DEF Classes, all, no_default, no_move, no_move_ctor, no_move_assign, no_copy,
         no_copy_ctor, no_copy_assign, Operations
<1>4. class = no_move => "move_ctor" \notin class /\ "move_assign" \notin class
  BY DEF no_move
<1>5. CASE rvalue /\ class # no_move
  <2>1. v = Count(Argument, "move_ctor") \/ v = Count(Argument, "move_assign")
    BY <1>1, <1>2, <1>3, <1>5 DEF Stored
  <2>2. "move_ctor" \notin {"copy_ctor", "copy_assign"}
        /\ "move_assign" \notin {"copy_ctor", "copy_assign"}
    OBVIOUS
  <2> QED
    BY <1>2, <1>5, <2>1, <2>2, ArgumentCost, CountAdds
<1>6. CASE ~(rvalue /\ class # no_move)
  <2>1. v = Count(Argument, "copy_ctor")
    BY <1>1, <1>2, <1>4, <1>6 DEF Stored
  <2> QED
    BY <1>2, <1>6, <2>1, ArgumentCost, CountAdds
<1> QED
  BY <1>5, <1>6

\* A value is made with one call, and copied only where it has to be.
THEOREM ResultCosts == Spec => CostsAsStated
<1>1. ASSUME ResultInv, [Next]_vars, NEW o \in Valued, NEW rvalue \in BOOLEAN,
             class \in Classes, MakeTyped(o, rvalue) \/ MakeV2(o, rvalue)
      PROVE  /\ opearations(value'[o]) = 2
             /\ Copies(value'[o]) = IF rvalue /\ class # no_move THEN 0 ELSE 1
  <2>1. o \notin Bools
    BY KindsAssumption DEF Valued
  <2>2. PICK v \in Stored(Argument, rvalue) : SetValue(o, v)
    BY <1>1, <2>1 DEF MakeTyped, MakeV2
  <2>3. value'[o] = v
    BY <1>1, <2>2 DEF SetValue, ResultInv
  <2> QED
    BY <1>1, <2>2, <2>3, StoredCost
<1>2. ResultInv /\ [Next]_vars =>
        [\A o \in Valued, rvalue \in BOOLEAN :
           class \in Classes /\ (MakeTyped(o, rvalue) \/ MakeV2(o, rvalue)) =>
             /\ opearations(value'[o]) = 2
             /\ Copies(value'[o]) = IF rvalue /\ class # no_move THEN 0 ELSE 1]_vars
  BY <1>1
<1> QED
  BY <1>2, ResultCorrect, PTL DEF Spec, CostsAsStated
=============================================================================
