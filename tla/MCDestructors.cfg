SPECIFICATION MCSpec
CONSTANTS
  MaxDepth = 4
  MaxGuards = 2
  Timers = {a, b}
  Times = {0, 3}
  Width = 5
  Sizes = {1, 2}
  MaxPoints = 2
INVARIANTS
  TypeOK
  CountersAgree
  ScopeInv
  NeverTwoExceptions
  TimerInv
PROPERTIES
  GuardsRunAsDeclared
  DestructorReports
  EndsQuietly
CHECK_DEADLOCK FALSE
