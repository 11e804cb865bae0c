SPECIFICATION FairSpec
CONSTANTS
  t1 = t1
  t2 = t2
  Thread = {t1, t2}
  ETP_RETRY_COUNT = 2
  PowerTree = TRUE
CHECK_DEADLOCK FALSE
INVARIANTS
  IInv
  FaultHasACause
  SleepsWhenOff
  InitialisedOrGivenUp
PROPERTY
  PowerChangesEnd
