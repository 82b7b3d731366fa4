CONSTANTS
  Editor = {"dashboard", "bot"}
  MaxEdits = 2
  MaxTime = 2
SPECIFICATION Spec
INVARIANT RelayValid
CHECK_DEADLOCK FALSE
