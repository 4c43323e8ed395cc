SPECIFICATION Spec
CONSTANTS
  Letters = {1, 2}
  EFS_FILE_NAME_LEN = 3
  MaxFiles = 2
INVARIANTS
  FindsTheFile
CHECK_DEADLOCK FALSE
