----------------------------- MODULE MCTransfer -----------------------------
EXTENDS Transfer

\* Numbers of one, two, four and eight bytes that are not the same reversed, with
\* all digits; bytes that encode_hex prints as a digit, as none and as the end.
MCNumbers == {<<0>>, <<7>>, <<52>>, <<1, 240>>, <<35, 69, 103, 137>>,
              <<171, 205, 239, 0, 0, 0, 16, 1>>}

MCMachines == {[os |-> "unix", order |-> "little"], [os |-> "unix", order |-> "big"],
               [os |-> "windows", order |-> "little"]}

\* One host whose byte order is big.
MCBigEndian == {[os |-> "unix", order |-> "big"]}

\* The characters next to those that are digits.
MCWrong == {47, 58, 64, 71, 96, 103}
=============================================================================
