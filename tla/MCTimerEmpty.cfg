SPECIFICATION TimerSpec
CONSTANTS
  Timers = {a, b}
  Times = {0, 3}
  Width = 5
  Sizes = {1, 2}
  MaxPoints = 2
INVARIANTS
  FirstPointExists
CHECK_DEADLOCK FALSE
