----------------------------- MODULE MCEditFast -----------------------------
EXTENDS EditFast

\* All strings of up to MaxLength characters.
CONSTANT MaxLength
MCTexts == UNION {[1 .. n -> Chars] : n \in 0 .. MaxLength}
=============================================================================
