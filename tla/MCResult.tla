------------------------------ MODULE MCResult ------------------------------
EXTENDS ResultV2

\* Two objects at a time: of different classes, for every T (for v2: one of
\* each kind), and of the same class, for a T that moves and one that can only be
\* move assigned.
CONSTANTS r, s, t, b, u, w
MCPrograms == {{r, t}} \X Types
         \cup {{b, u}} \X {all, no_default, no_move, no_copy, reference}
         \cup {<<{s, t}, no_move_ctor>>, <<{u, w}, all>>}
=============================================================================
