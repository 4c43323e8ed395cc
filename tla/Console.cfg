SPECIFICATION Spec
CONSTANTS
  Letters = {"a"}
  BCON_KBD_QUEUE_LEN = 2
  TERM_COLS = 10
  TERM_LINES = 2
  OffsetRange = 64
INVARIANTS
  TypeOK
  CursorOnScreen
  NoStuckModifier
  LinesReachTheirHandlers
PROPERTIES
  RebootsOnlyOnCtlMetaDel
  ImplementsTypeAhead
CHECK_DEADLOCK FALSE
