SPECIFICATION Spec
CONSTANTS
  Events = {e1, e2, e3}
  NULL = NULL
  MaxInterval = 2
  UintMax = 3
INVARIANTS
  TypeOK
  OnceATick
PROPERTIES
  TickAdvances
  TickEnds
CHECK_DEADLOCK FALSE
