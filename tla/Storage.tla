------------------------------ MODULE Storage ------------------------------
(***************************************************************************)
(* util/serialization.hpp and util/endian.hpp: integers written to bytes   *)
(* in little or big order, on one machine, and read back on another.       *)
(*                                                                         *)
(* A number is the sequence of its bytes, the least significant first; a   *)
(* signed one is converted to unsigned and back, which keeps them.  The    *)
(* memory behind a pointer is what was written before the cursor.  Several *)
(* arguments are written, or read, one after the other: one of them is one *)
(* action.                                                                 *)
(***************************************************************************)
EXTENDS Naturals, SequencesExt

CONSTANTS Numbers,  \* numbers to write, of any width
          Machines  \* operating system and byte order of hosts

ASSUME NumbersAssumption ==  \* the widths of the integral types
  \A v \in Numbers : v \in Seq(0 .. 255) /\ Len(v) \in {1, 2, 4, 8}
ASSUME MachinesAssumption ==
  Machines \subseteq [os : {"unix", "windows"}, order : {"little", "big"}]
ASSUME WindowsAssumption ==  \* Windows runs on little-endian hosts only
  \A m \in Machines : m.os = "windows" => m.order = "little"

VARIABLES
  ins, order, form,  \* what is written, in which order and by which function
  writer, reader,    \* the machines
  buffer, written,   \* the bytes before the cursor, and how many numbers they are
  outs, cursor,      \* what is read, and the cursor in the bytes it is read from
  throws             \* whether a function threw

storageVars == <<ins, order, form, writer, reader, buffer, written, outs, cursor, throws>>

byte_swap(v) == Reverse(v)

\* A constant expression: the low byte of the number, on every host.
is_little == TRUE

\* Linux and Apple hosts have no conversion for other widths; unsigned char has one.
Converts(m, v) == m.os = "windows" \/ Len(v) \in {2, 4, 8}

host_to_little(m, v) == IF m.os = "windows" THEN IF is_little THEN v ELSE byte_swap(v)
                        ELSE IF m.order = "little" THEN v ELSE Reverse(v)

\* Mutant: the numbers are taken as the host's.
AsIs(m, v) == v

little_to_host(m, v) == IF m.os = "windows" THEN IF is_little THEN v ELSE byte_swap(v)
                        ELSE IF m.order = "little" THEN v ELSE Reverse(v)

host_to_big(m, v) == IF m.os = "windows" THEN IF is_little THEN byte_swap(v) ELSE v
                     ELSE IF m.order = "big" THEN v ELSE Reverse(v)

big_to_host(m, v) == IF m.os = "windows" THEN IF is_little THEN byte_swap(v) ELSE v
                     ELSE IF m.order = "big" THEN v ELSE Reverse(v)

\* memcpy from a number of the host to memory, or back.
Memory(m, v) == IF m.order = "little" THEN v ELSE Reverse(v)

current == ins[written + 1]

\* An array is not returned when an exception leaves the function.
ThrowsNotImplemented ==
  /\ throws' = TRUE
  /\ buffer' = IF form = "array" THEN <<>> ELSE buffer
  /\ UNCHANGED written

Put(bytes) ==
  /\ buffer' = buffer \o bytes
  /\ written' = written + 1
  /\ UNCHANGED throws

\* to_little_storage and to_little_storage_advance with pointers and arrays.
to_little_storage_advance ==
  /\ form # "string" /\ order = "little"
  /\ IF Converts(writer, current)
       THEN Put(Memory(writer, host_to_little(writer, current)))
       ELSE ThrowsNotImplemented

to_big_storage_advance ==
  /\ form # "string" /\ order = "big"
  /\ IF Converts(writer, current)
       THEN Put(Memory(writer, host_to_big(writer, current)))
       ELSE ThrowsNotImplemented

\* Mutant: the bytes are pushed before the width is looked at.
push_back_first ==
  /\ form = "string" /\ order = "little"
  /\ buffer' = buffer \o current
  /\ IF Converts(writer, current)
       THEN written' = written + 1 /\ UNCHANGED throws
       ELSE throws' = TRUE /\ UNCHANGED written

\* With a string: the converted number is taken apart by value.
to_little_storage_string ==
  /\ form = "string" /\ order = "little"
  /\ IF Converts(writer, current)
       THEN Put(host_to_little(writer, current))
       ELSE ThrowsNotImplemented

Write ==
  /\ ~throws /\ written < Len(ins)
  /\ to_little_storage_advance \/ to_big_storage_advance \/ to_little_storage_string
  /\ UNCHANGED <<ins, order, form, writer, reader, outs, cursor>>

\* The bytes are copied to out first; then out is converted, or the width is refused.
Take(bytes) ==
  LET n   == Len(ins[Len(outs) + 1])
      raw == Memory(reader, SubSeq(bytes, cursor + 1, cursor + n))
      out == IF order = "little" THEN little_to_host(reader, raw)
                                 ELSE big_to_host(reader, raw)
  IN IF Converts(reader, raw)
     THEN outs' = Append(outs, out) /\ cursor' = cursor + n /\ UNCHANGED throws
     ELSE outs' = Append(outs, raw) /\ throws' = TRUE /\ UNCHANGED cursor

Read(bytes) ==
  /\ ~throws /\ Len(outs) < Len(ins)
  /\ Take(bytes)
  /\ UNCHANGED <<ins, order, form, writer, reader, buffer, written>>
=============================================================================
