\* A wake, and a command answered over its embodiment.  The callers end and the bridge rests: no deadlock check.
SPECIFICATION Spec
CONSTANTS
  Caller = {a, b}
PROPERTY ReliedStays
CHECK_DEADLOCK FALSE
