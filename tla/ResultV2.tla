------------------------------ MODULE ResultV2 ------------------------------
(***************************************************************************)
(* util/result.hpp, version v2: one class, whose code, message and value   *)
(* are public, and v2::result, the same with a bool for value, which is    *)
(* left out.  Below: what both versions promise.                           *)
(***************************************************************************)
EXTENDS Result

V2 == Second \cup Bools

\* A code of its own, and a message or none.
OwnCode(o) == \E c \in Codes, m \in Given \cup {""} : SetTo(o, c, m)

\* The default constructor leaves the code undetermined.
DefaultV2(o) ==
  /\ IF o \in Second THEN DefaultValue(o) ELSE o \in Bools /\ Keep
  /\ \E c \in Codes : SetTo(o, c, "")

\* From a value: the overloads are chosen as in v1.
MakeV2(o, rvalue) ==
  /\ o \in V2
  /\ IF o \in Bools THEN Keep
                    ELSE \E v \in Stored(Argument, rvalue) : SetValue(o, v)
  /\ OwnCode(o)

\* From a value and the result of another type, which is moved from.
MakeFrom(o, p) ==
  /\ \/ o \in Bools /\ p \in Second /\ Keep
     \/ /\ o \in Second /\ p \in Bools
        /\ class # reference /\ "copy_ctor" \in class
        /\ SetValue(o, Call(Argument, "copy_ctor"))
  /\ MoveTo(o, p)

CopyBool(o, p) == {o, p} \subseteq Bools /\ CopyTo(o, p) /\ Keep
MoveBool(o, p) == {o, p} \subseteq Bools /\ MoveTo(o, p) /\ Keep

get_messageV2(o) == o \in V2 /\ ReadMessage(o) /\ Keep

\* to_result and the conversion, of an rvalue too: the constructor copies the
\* message that is moved to it.
to_result(o, p) == o \in Bools /\ p \in V2 /\ CopyTo(o, p) /\ Keep

\* A new object from a default constructed one that is moved, or copied where it
\* cannot be; compilers may leave that call out, and g++ does.
success(o) ==
  /\ o \in Second /\ class # reference /\ "default_ctor" \in class
  /\ \E v \in {Argument, Call(Argument, IF "move_ctor" \in class THEN "move_ctor"
                                                                 ELSE "copy_ctor")} :
       SetValue(o, v)
  /\ SetTo(o, EXT_OK, "")

\* A new object whose value is made from a default constructed one.
error(o) ==
  /\ o \in Second /\ class # reference /\ "default_ctor" \in class
  /\ \E v \in Stored(Argument, TRUE) : SetValue(o, v)
  /\ OwnCode(o)

resetV2(o) == o \in V2 /\ OwnCode(o) /\ Keep

\* To the code and the message of an object of any type.
resetV2_to(o, p) == {o, p} \subseteq V2 /\ CopyOrMove(o, p) /\ Keep

NextV2 ==
  \E o \in used :
    \/ DefaultV2(o) \/ success(o) \/ error(o) \/ resetV2(o) \/ get_messageV2(o)
    \/ \E rvalue \in BOOLEAN : MakeV2(o, rvalue)
    \/ \E p \in used : \/ MakeFrom(o, p) \/ CopyBool(o, p) \/ MoveBool(o, p)
                       \/ to_result(o, p) \/ resetV2_to(o, p)

Next == NextV1 \/ NextV2
Spec == Init /\ [][Next]_vars

-----------------------------------------------------------------------------
Texts == Given \cup {"", NetworkError}

\* A message is one that was given or the standard text of the code that it is
\* returned with, whatever was copied, moved or reset, unless the code was
\* written past all functions; a value knows how it was made.
ResultInv ==
  /\ <<used, class>> \in Programs /\ written \subseteq used
  /\ res \in [Objects -> [code : Codes, message : Texts]]
  /\ value \in [Valued -> [Operations -> Nat]]
  /\ \A o \in Objects \ written :
       res[o].message \in {"", error_code_vo_string(res[o].code)} \cup Given

\* "0 copy" and "1 copy": a typed_result that is made takes its argument with one
\* call of a special member function of T, which copies only an lvalue or what
\* cannot be moved at all.
CostsAsStated ==
  [][\A o \in Valued, rvalue \in BOOLEAN :
       class \in Classes /\ (MakeTyped(o, rvalue) \/ MakeV2(o, rvalue)) =>
         /\ opearations(value'[o]) = 2
         /\ Copies(value'[o]) = IF rvalue /\ class # no_move THEN 0 ELSE 1]_vars

\* That messages are made late, and kept, is not to be seen: reading one changes
\* nothing, and each object reports its own message or the text of its code.
Text(o) == IF res[o].message = "" /\ ~Ok(o) THEN error_code_vo_string(res[o].code)
                                            ELSE res[o].message
Report == [o \in used |-> [code |-> res[o].code, text |-> Text(o)]]

Eager == INSTANCE Outcome WITH
           Standard <- [c \in Codes |-> error_code_vo_string(c)], report <- Report

Read(o) == get_message(o) \/ message(o) \/ get_messageV2(o)

LooksEager == Eager!Spec /\ [][(\E o \in used : Read(o)) => UNCHANGED Report]_vars
=============================================================================
