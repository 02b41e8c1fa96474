------------------------------ MODULE Outcome ------------------------------
(***************************************************************************)
(* What the results of util/result.hpp promise: an object is a code and    *)
(* the text that get_message returns for it, which is the message that was *)
(* given or, without one, the standard text of the code.  When texts are   *)
(* made, and where they are kept, is not to be seen here.                  *)
(***************************************************************************)
CONSTANTS Objects,   \* result objects
          Codes,
          Standard,  \* the text of each code
          Given      \* texts that callers give

VARIABLE report  \* code and text of the objects of a program

Init == \E S \in SUBSET Objects :
          report = [o \in S |-> [code |-> 0, text |-> Standard[0]]]

\* An object is made or reset with a message of its own, or without one.
Set(o, c) ==
  \E t \in Given \cup {Standard[c]} :
    report' = [report EXCEPT ![o] = [code |-> c, text |-> t]]

Copy(o, p) == report' = [report EXCEPT ![o] = report[p]]

\* The source keeps its code and no message of its own.
Move(o, p) ==
  report' = [report EXCEPT ![o] = report[p], ![p].text = Standard[report[p].code]]

\* A caller writes the code, past every function: the text may be the old one.
AssignCode(o, c) ==
  \E t \in {report[o].text, Standard[c]} :
    report' = [report EXCEPT ![o] = [code |-> c, text |-> t]]

Next ==
  \E o \in DOMAIN report :
    \/ \E c \in Codes : Set(o, c) \/ AssignCode(o, c)
    \/ \E p \in DOMAIN report : Copy(o, p) \/ Move(o, p)

Spec == Init /\ [][Next]_report
=============================================================================
