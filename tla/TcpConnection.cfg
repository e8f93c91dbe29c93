CONSTANTS
  OpenLimit = 2
  WaitLimit = 3
  IdleLimit = 5
  CloseLimit = 1
  Header = 2
  MaxBody = 2
  MaxWaits = 3
SPECIFICATION Spec
INVARIANTS
  TypeOK
  OnePipe
  AnswersIntact
  NothingHereIsAwaited
PROPERTIES
  CutForAReason
  EveryWaitEnds
  EveryConnectionEnds
CHECK_DEADLOCK FALSE
