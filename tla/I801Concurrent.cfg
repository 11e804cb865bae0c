SPECIFICATION OverlapSpec
CONSTANTS
  n1 = n1
  d1 = d1
  d2 = d2
  NoCall = NoCall
  Call = {n1,d1,d2}
  NotifyCall = {n1}
  Protocol = {"readBlockData", "writeByte"}
  Retries = 1
  SleepTimesOut = TRUE
  PowerManaged = FALSE
  BiosNotify = FALSE
  Garbage = {{}, {"BUS_ERR"}}
SYMMETRY CallSymmetry
INVARIANTS
  FlagsAreOfThisTransaction
  SuccessAfterCompletion
  BlockBufferScoped
  StalePecErrorNotBlamed
  WakeUpIsComing
PROPERTIES
  ImplementsShared
