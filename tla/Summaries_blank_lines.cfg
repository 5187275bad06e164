\* A line with a blank line in it.
CONSTANTS
  Recorders = {"a"}
  LineBreaks = TRUE
INIT Init
NEXT Next
INVARIANT ReadBack
CHECK_DEADLOCK FALSE
