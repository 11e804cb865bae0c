SPECIFICATION FairSpec
CONSTANTS
  n1 = n1
  d1 = d1
  NoCall = NoCall
  Call = {n1,d1}
  NotifyCall = {n1}
  Protocol = {"readBlockData", "writeByte"}
  Retries = 1
  SleepTimesOut = FALSE
  PowerManaged = FALSE
  BiosNotify = FALSE
  Garbage = {{}}
PROPERTY
  EveryCallReturns
