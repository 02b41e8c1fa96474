------------------------------ MODULE Transfer ------------------------------
(***************************************************************************)
(* Storage and Hex together, as the tests use them: numbers are written on *)
(* one machine, sent as they are or as hexadecimal text, which may arrive  *)
(* in upper case, too short or with a wrong character, and read on another *)
(* machine.                                                                *)
(***************************************************************************)
EXTENDS Storage, Hex

CONSTANTS Wrong,      \* codes of characters that are no digits
          MaxNumbers  \* arguments of one call

ASSUME WrongAssumption == Wrong \subseteq Nat /\ \A c \in Wrong : ~IsHex(c)
ASSUME MaxNumbersAssumption == MaxNumbers \in Nat

VARIABLES
  hex,    \* whether the bytes are sent as text
  stage,  \* "write", "send", "decode", "read"
  sent    \* history: the text before it was sent

vars == <<storageVars, hexVars, hex, stage, sent>>

Forms == {<<"pointer", "little">>, <<"pointer", "big">>, <<"array", "little">>,
          <<"array", "big">>, <<"string", "little">>, <<"number", "big">>}

Init ==
  /\ \E f \in Forms : form = f[1] /\ order = f[2]
  /\ \E n \in CASE form = "number" -> {1}
                [] form = "string" -> 0 .. MaxNumbers
                [] OTHER -> 1 .. MaxNumbers :
       ins \in [1 .. n -> Numbers]
  /\ hex \in IF form = "number" THEN {TRUE} ELSE BOOLEAN
  /\ writer \in Machines /\ reader \in Machines
  /\ buffer = <<>> /\ written = 0 /\ outs = <<>> /\ cursor = 0 /\ throws = FALSE
  /\ HexInit
  /\ stage = "write" /\ sent = <<>>

WriteStep == stage = "write" /\ form # "number" /\ Write /\ UNCHANGED <<hexVars, hex, stage, sent>>

\* The text of all that was written, or of a number without any storage.
Encode ==
  /\ stage = "write" /\ ~throws
  /\ form = "number" \/ written = Len(ins)
  /\ stage' = IF hex THEN "send" ELSE "read"
  /\ text' = CASE ~hex            -> <<>>
               [] form = "number" -> encode_hex_number(ins[1])
               [] OTHER           -> encode_hex(buffer)
  /\ sent' = text'
  /\ UNCHANGED <<storageVars, offset, insert_char, rv, decoding, hex>>

\* How a text may arrive.
Arrivals ==
  {text, [i \in DOMAIN text |-> Upper(text[i])], SubSeq(text, 1, Len(text) - 1)}
    \cup {[text EXCEPT ![i] = c] : i \in DOMAIN text, c \in Wrong}

Send ==
  /\ stage = "send"
  /\ stage' = "decode"
  /\ text' \in Arrivals
  /\ UNCHANGED <<storageVars, offset, insert_char, rv, decoding, hex, sent>>

Decode ==
  /\ stage = "decode"
  /\ decode_hex
  /\ stage' = IF decoding' = "returned" THEN "read" ELSE stage
  /\ UNCHANGED <<storageVars, hex, sent>>

\* The caller asks for the size of the text's bytes before it reads them.
Received == IF hex THEN rv ELSE buffer

ReadStep ==
  /\ stage = "read"
  /\ Len(Received) = Len(FlattenSeq(ins))
  /\ Read(Received)
  /\ UNCHANGED <<hexVars, hex, stage, sent>>

Next == WriteStep \/ Encode \/ Send \/ Decode \/ ReadStep
Spec == Init /\ [][Next]_vars

-----------------------------------------------------------------------------
\* A byte that encode_hex prints as a character is no text of a number.
Lost == form = "number" /\ Len(ins[1]) = 1

\* The bytes of a number in the order that was asked for.
InOrder(v) == IF order = "little" THEN v ELSE Reverse(v)

\* Numbers arrive as they were written, whatever the byte orders of the two
\* machines, the order asked for, the function that writes and the way they are
\* sent.
ReadsBack == ~Lost => \A k \in DOMAIN outs : outs[k] = ins[k]

\* Where they do not: the overload with a string swaps the bytes on a big-endian
\* host and then takes the number apart by value.
TakenApart == form = "string" /\ writer.order = "big"

\* Everywhere else they do.
OthersReadBack == ~TakenApart => ReadsBack

\* What the bytes before the cursor stand for, also after an exception: exactly
\* the numbers that were written before it, in the order that was asked for, but
\* for numbers that were taken apart.  What decode_hex has put together are the
\* first of these bytes.
TransferInv ==
  /\ written \in 0 .. Len(ins) /\ Len(outs) <= Len(ins) /\ throws \in BOOLEAN
  /\ decoding \in {"no", "loop", "returned", "invalid_argument", "logic_error"}
  /\ ~TakenApart =>
       buffer = IF throws /\ stage = "write" /\ form = "array" THEN <<>>
                ELSE FlattenSeq([k \in 1 .. written |-> InOrder(ins[k])])
  /\ form # "number" /\ hex =>
       /\ rv = SubSeq(buffer, 1, offset \div 2)
       /\ offset % 2 = 1 => insert_char = 16 * (buffer[offset \div 2 + 1] \div 16)

\* A text that was damaged is refused before anything is read from it, for its
\* length or its characters; upper case is no damage.
RefusesDamaged ==
  /\ stage = "read" /\ hex /\ ~Lost => text \in {sent, [i \in DOMAIN sent |-> Upper(sent[i])]}
  /\ ~Lost => (decoding = "invalid_argument" => Len(text) # Len(sent))
  /\ ~Lost => (decoding = "logic_error" => text[offset + 1] # sent[offset + 1])
=============================================================================
