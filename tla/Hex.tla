-------------------------------- MODULE Hex --------------------------------
(***************************************************************************)
(* util/hex.hpp: bytes as hexadecimal text and back.  Characters are their *)
(* codes.  One pass of the loop of decode_hex is one action.               *)
(***************************************************************************)
EXTENDS Naturals, SequencesExt

VARIABLES
  text,         \* the text to decode
  offset,       \* characters read so far
  insert_char,  \* the byte being put together
  rv,           \* the bytes to return
  decoding      \* "no", "loop", "returned" or the exception

hexVars == <<text, offset, insert_char, rv, decoding>>

hex_values(d) == IF d < 10 THEN 48 + d ELSE 87 + d

encode_hex(bytes) ==
  FlattenSeq([i \in DOMAIN bytes |-> <<hex_values(bytes[i] \div 16), hex_values(bytes[i] % 16)>>])

\* Of a number: its digits, but a byte is printed as the character it is, after a
\* fill character; a NUL ends the text.
encode_hex_number(v) ==
  IF Len(v) > 1 THEN encode_hex(Reverse(v))
  ELSE <<48>> \o SelectSeq(v, LAMBDA c : c # 0)

\* to_upper of util/string.hpp
Upper(c) == IF c \in 97 .. 122 THEN c - 32 ELSE c

IsHex(c) == c \in (48 .. 57) \cup (97 .. 102) \cup (65 .. 70)
Digit(c) == CASE c \in 48 .. 57  -> c - 48
              [] c \in 97 .. 102 -> c - 87
              [] c \in 65 .. 70  -> c - 55

HexInit ==
  text = <<>> /\ offset = 0 /\ insert_char = 0 /\ rv = <<>> /\ decoding = "no"

\* Mutant: texts of an odd length are decoded too.
EnterAny ==
  /\ decoding = "no"
  /\ decoding' = IF text = <<>> THEN "returned" ELSE "loop"
  /\ UNCHANGED <<text, offset, insert_char, rv>>

EnterDecode ==
  /\ decoding = "no"
  /\ decoding' = CASE text = <<>>       -> "returned"
                   [] Len(text) % 2 = 1 -> "invalid_argument"
                   [] OTHER             -> "loop"
  /\ UNCHANGED <<text, offset, insert_char, rv>>

DecodeChar ==
  /\ decoding = "loop" /\ offset < Len(text)
  /\ LET even  == offset % 2 = 0
         c     == text[offset + 1]
         digit == Digit(c) + IF even THEN 0 ELSE insert_char
     IN IF IsHex(c)
        THEN /\ insert_char' = IF even THEN digit * 16 ELSE digit
             /\ rv' = IF even THEN rv ELSE Append(rv, digit)
             /\ offset' = offset + 1
             /\ UNCHANGED decoding
        ELSE /\ decoding' = "logic_error"
             /\ insert_char' = IF even THEN 0 ELSE insert_char
             /\ UNCHANGED <<rv, offset>>
  /\ UNCHANGED text

ReturnDecoded ==
  /\ decoding = "loop" /\ offset = Len(text)
  /\ decoding' = "returned"
  /\ UNCHANGED <<text, offset, insert_char, rv>>

decode_hex == EnterDecode \/ DecodeChar \/ ReturnDecoded
=============================================================================
