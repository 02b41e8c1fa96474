----------------------------- MODULE MCFlagSet -----------------------------
EXTENDS FlagSet

\* The enumeration of the tests: none, foo, bar and baz.
MCBits        == 0 .. 3
MCEnumerators == {{}, {0}, {1}, {2}}
=============================================================================
