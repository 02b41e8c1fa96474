------------------------- MODULE MCBinaryIndexTree -------------------------
EXTENDS BinaryIndexTree

(***************************************************************************)
(* The callers of MCBinaryIndexTree.cfg may write every index up to the    *)
(* largest vector and one past it, which never fits.                       *)
(***************************************************************************)
MCIndexes == 0 .. MaxSize
=============================================================================
