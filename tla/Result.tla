------------------------------- MODULE Result -------------------------------
(***************************************************************************)
(* util/result.hpp, version v1: result, a code with a message that is made *)
(* when it is first asked for, and typed_result, which adds a value; and   *)
(* get_stat of util/stat.hpp, which returns one.  The values are those of  *)
(* Tracing, of a reference or a pointer to one, or the numbers of a stat.  *)
(* A string that was moved from is empty, as the standard libraries have   *)
(* it.  "valid" is true as long as nobody writes it and is left out.       *)
(***************************************************************************)
EXTENDS Tracing

CONSTANTS Plain, Typed,  \* objects of v1::result and of v1::typed_result<T>
          Second, Bools, \* objects of v2::typed_result<T> and of v2::result
          Programs,      \* the objects of a program, and what T is
          Codes, Given,  \* codes and messages that callers give
          MaxOps         \* bound: special member functions called for a value

EXT_OK        == 0
EXT_FAIL      == 1
EXT_ERROR_NET == 10
NetworkError  == "network error"
StatFailed    == "failed to get stat"

ASSUME CodesAssumption == {EXT_OK, EXT_FAIL, EXT_ERROR_NET} \subseteq Codes
ASSUME GivenAssumption == /\ {"", NetworkError} \cap Given = {}
                          /\ StatFailed \in Given

VARIABLES used,    \* the objects of this program
          class,   \* what T is: its special member functions
          res,     \* code and message of each object
          value,   \* value of each typed object
          written  \* history: objects whose code comes from a write to the field

vars == <<used, class, res, value, written>>

Valued  == Typed \cup Second
Objects == Plain \cup Typed \cup Second \cup Bools

\* T besides the classes of Tracing, with every operation and no counters.
reference == Operations \cup {"reference"}
stat      == Operations \cup {"stat"}
Types     == Classes \cup {reference, stat}

\* An object is of one class.
ASSUME KindsAssumption == Bools \cap (Typed \cup Second) = {}

ASSUME ProgramsAssumption == Programs \subseteq (SUBSET Objects) \X Types

error_code_vo_string(c) == IF c = EXT_ERROR_NET THEN NetworkError ELSE ""

Ok(o) == res[o].code = EXT_OK

Call(v, op)  == IF class \in Classes THEN Count(v, op) ELSE v
Argument     == IF class \in Classes THEN New(class) ELSE Fresh
Undetermined == [op \in Operations |-> 99]

\* What a typed object starts with: the default, else an argument moved in.
Start == CASE class = stat              -> Undetermined
           [] "default_ctor" \in class -> Argument
           [] OTHER                   -> Call(Argument, "move_ctor")

Init ==
  /\ \E p \in Programs : used = p[1] /\ class = p[2]
  /\ res = [o \in Objects |-> [code |-> EXT_OK, message |-> ""]]
  /\ value = [o \in Valued |-> Start]
  /\ written = {}

-----------------------------------------------------------------------------
\* How codes and messages change; the history with them.

SetTo(o, c, m) ==
  /\ res' = [res EXCEPT ![o] = [code |-> c, message |-> m]]
  /\ written' = written \ {o}

WrittenLike(o, p) ==
  written' = IF p \in written THEN written \cup {o} ELSE written \ {o}

CopyTo(o, p) == res' = [res EXCEPT ![o] = res[p]] /\ WrittenLike(o, p)

MoveTo(o, p) ==
  /\ res' = [res EXCEPT ![o] = res[p], ![p].message = ""]
  /\ WrittenLike(o, p)

CopyOrMove(o, p) == CopyTo(o, p) \/ MoveTo(o, p)

\* Mutant: the message that was given is not looked at.
ReadStandard(o) ==
  /\ res' = IF ~Ok(o) THEN [res EXCEPT ![o].message = error_code_vo_string(res[o].code)]
                      ELSE res
  /\ UNCHANGED written

ReadMessage(o) ==
  /\ res' = IF res[o].message = "" /\ ~Ok(o)
              THEN [res EXCEPT ![o].message = error_code_vo_string(res[o].code)]
              ELSE res
  /\ UNCHANGED written

\* Values.
Same == UNCHANGED <<used, class>>
Keep == Same /\ UNCHANGED value

SetValue(o, v) ==
  /\ v = Undetermined \/ opearations(v) <= MaxOps
  /\ value' = [value EXCEPT ![o] = v]
  /\ Same

-----------------------------------------------------------------------------
\* v1::result

Create(o, c, m) == o \in Plain /\ SetTo(o, c, m) /\ Keep

CopyResult(o, p) == {o, p} \subseteq Plain /\ CopyTo(o, p) /\ Keep
MoveResult(o, p) == {o, p} \subseteq Plain /\ MoveTo(o, p) /\ Keep

get_message(o) == o \in Plain /\ ReadMessage(o) /\ Keep

\* Mutant: reset to a code alone does not clear the message.
ResetCode(o, c, m) ==
  /\ o \in Plain
  /\ SetTo(o, c, IF m = "" THEN res[o].message ELSE m)
  /\ Keep

reset(o, c, m) == o \in Plain /\ SetTo(o, c, m) /\ Keep

reset_to(o, p) == {o, p} \subseteq Plain /\ CopyOrMove(o, p) /\ Keep

\* The code is public, or reached through get_result.
AssignCode(o, c) ==
  /\ res' = [res EXCEPT ![o].code = c]
  /\ written' = written \cup {o}
  /\ Keep

-----------------------------------------------------------------------------
\* v1::typed_result

\* Mutant: the rvalue constructors ask for move assignment only.
StoredAssigned(v, rvalue) ==
  IF rvalue /\ "move_assign" \in class
  THEN {Call(v, "move_assign")}
  ELSE {Call(v, "copy_ctor") : op \in class \cap {"copy_ctor"}}

\* The value made from the argument by the constructor that takes part for it: a
\* reference is bound; an lvalue is copied; an rvalue is moved if T can be move
\* constructed, else assigned to a default constructed value if T can be move
\* assigned, else copied as an lvalue is.
Stored(v, rvalue) ==
  CASE rvalue /\ "move_ctor" \in class   -> {Call(v, "move_ctor")}
    [] rvalue /\ "move_ctor" \notin class /\ "move_assign" \in class
                                            -> {Call(v, "move_assign")}
    [] OTHER -> {Call(v, "copy_ctor") : op \in class \cap {"copy_ctor"}}

\* The result inside: one of its own, or another's, copied or moved from.
OwnOrOther(o) ==
  \/ \E c \in Codes, m \in Given \cup {""} : SetTo(o, c, m)
  \/ \E p \in (Plain \cup Typed) \cap used : CopyOrMove(o, p)

MakeTyped(o, rvalue) ==
  /\ o \in Typed
  /\ \E v \in Stored(Argument, rvalue) : SetValue(o, v)
  /\ OwnOrOther(o)

DefaultValue(o) ==
  /\ class # reference /\ "default_ctor" \in class
  /\ SetValue(o, Start)

DefaultTyped(o) == o \in Typed /\ DefaultValue(o) /\ SetTo(o, EXT_OK, "")

\* The copy and move operations the compiler declares, member by member.  Where T
\* has no move constructor, moving copies.
CopyTyped(o, p) ==
  /\ \E S \in {Typed, Second} : {o, p} \subseteq S
  /\ \E op \in class \cap {"copy_ctor", "copy_assign"} :
       SetValue(o, Call(value[p], op))
  /\ CopyTo(o, p)

MoveTyped(o, p) ==
  /\ \E S \in {Typed, Second} : {o, p} \subseteq S
  /\ \/ /\ \E op \in class \cap {"move_ctor", "move_assign"} :
             SetValue(o, Call(value[p], op))
        /\ MoveTo(o, p)
     \/ /\ "move_ctor" \notin class /\ "copy_ctor" \in class
        /\ SetValue(o, Call(value[p], "copy_ctor"))
        /\ CopyTo(o, p)

message(o) == o \in Typed /\ ReadMessage(o) /\ Keep

\* reset of the result inside, which leaves the value alone.
ResetTyped(o) == o \in Typed /\ OwnOrOther(o) /\ Keep

\* copy_result and take_result.
TakeResult(o, p) == o \in Plain /\ p \in Typed /\ CopyOrMove(o, p) /\ Keep

\* get_stat: what the system call left in its buffer is copied even if it failed.
get_stat(o) ==
  /\ o \in Typed /\ class = stat
  /\ \/ SetValue(o, Fresh) /\ SetTo(o, EXT_OK, "")
     \/ SetValue(o, Undetermined) /\ SetTo(o, EXT_FAIL, StatFailed)

-----------------------------------------------------------------------------
NextV1 ==
  \E o \in used :
    \/ \E c \in Codes, m \in Given \cup {""} : Create(o, c, m) \/ reset(o, c, m)
    \/ \E p \in used : \/ CopyResult(o, p) \/ MoveResult(o, p) \/ reset_to(o, p)
                       \/ CopyTyped(o, p) \/ MoveTyped(o, p) \/ TakeResult(o, p)
    \/ get_message(o) \/ message(o)
    \/ \E c \in Codes : AssignCode(o, c)
    \/ \E rvalue \in BOOLEAN : MakeTyped(o, rvalue)
    \/ DefaultTyped(o) \/ ResetTyped(o) \/ get_stat(o)
=============================================================================
