SPECIFICATION FairSpec
CONSTANTS
  MaxProcs = 4
  InitProcs = 4
  Interval = 2
INVARIANTS
  TypeOK
  ServiceDiscipline
  EoiRetiresOwnIrq
  CurrentIsLive
  KendOnce
PROPERTIES
  DeadStaysDead
  ImplementsRoundRobin
  EveryProcessRuns
  KeyIsHandled
CHECK_DEADLOCK FALSE
