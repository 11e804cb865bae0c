SPECIFICATION FairOverlapSpec
CONSTANTS
  n1 = n1
  d1 = d1
  NoCall = NoCall
  Call = {n1,d1}
  NotifyCall = {n1}
  Protocol = {"readBlockData", "writeByte"}
  Retries = 1
  SleepTimesOut = TRUE
  PowerManaged = TRUE
  BiosNotify = FALSE
  Garbage = {{}, {"BUS_ERR"}}
INVARIANT
  IInv
PROPERTIES
  ImplementsGateCalls
  LoneCallReturns
