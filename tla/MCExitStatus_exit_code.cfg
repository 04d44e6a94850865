\* ExitStatus: exit_code
CONSTANTS
  Codes = {0, 1, 255}
  Signals = {9, 11}
  Namespaces = FALSE
SPECIFICATION Spec
\* reverie itself has exited in the final states.
CHECK_DEADLOCK FALSE
INVARIANT ExitCodePropagated
