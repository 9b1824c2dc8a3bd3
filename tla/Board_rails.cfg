\* One line and no restart: the first message shows it.
CONSTANTS
  Lines <- MCLines
  MaxLines = 1
  MaxCuts = 0
SPECIFICATION BoardSpec
INVARIANT CurrentsAreDifferences
CHECK_DEADLOCK FALSE
