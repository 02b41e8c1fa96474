SPECIFICATION MCSpec
CONSTANTS
  Chars = {a, b}
  MaxText = 6
  MaxSeparator = 3
  MaxReplacement = 2
  Texts <- MCTexts
  Separators <- MCSeparators
  Replacements <- MCReplacements
  WordSize = 64
  MaxString = 31
  Strings <- MCStrings
  SeparatorLists <- MCSeparatorLists
INVARIANTS
  AbsentReturnsSame
CHECK_DEADLOCK FALSE
