------------------------------ MODULE Tracing ------------------------------
(***************************************************************************)
(* util/tracing_classes.hpp: classes that count how they were made.  Their *)
(* values are the counters of struct base; a class is the set of the       *)
(* special member functions it has not deleted.  Every copy or move takes  *)
(* over the counters of its source and adds one of its own.                *)
(***************************************************************************)
EXTENDS Naturals

Operations == {"default_ctor", "non_default_ctor", "copy_ctor", "copy_assign",
               "move_ctor", "move_assign"}

Fresh == [op \in Operations |-> 0]

\* copy_values, or the copy of a base, and one more call.
Count(counters, op) == [counters EXCEPT ![op] = @ + 1]

opearations(c) == c["default_ctor"] + c["non_default_ctor"] + c["copy_ctor"]
                    + c["copy_assign"] + c["move_ctor"] + c["move_assign"]

all            == Operations
no_default     == Operations \ {"default_ctor"}
no_move        == Operations \ {"move_ctor", "move_assign"}
no_move_ctor   == Operations \ {"move_ctor"}
no_move_assign == Operations \ {"move_assign"}
no_copy        == Operations \ {"copy_ctor", "copy_assign"}
no_copy_ctor   == Operations \ {"copy_ctor"}
no_copy_assign == Operations \ {"copy_assign"}

Classes == {all, no_default, no_move, no_move_ctor, no_move_assign, no_copy,
            no_copy_ctor, no_copy_assign}

\* A new object: default constructed where the class allows it, else from a base.
New(class) == Count(Fresh, IF "default_ctor" \in class THEN "default_ctor"
                                                       ELSE "non_default_ctor")

Copies(counters) == counters["copy_ctor"] + counters["copy_assign"]
=============================================================================
