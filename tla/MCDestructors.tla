--------------------------- MODULE MCDestructors ---------------------------
EXTENDS ScopeGuard, ScopedTimer

\* The program uses guards or timers, which know nothing of one another: those that
\* it does not use stay as they are at the start.
MCInit == Init /\ TimerInit
MCNext == \/ Next /\ TimerInit /\ UNCHANGED timerVars
          \/ TimerNext /\ Init /\ UNCHANGED vars

MCSpec == MCInit /\ [][MCNext]_<<vars, timerVars>>
=============================================================================
