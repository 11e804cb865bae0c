SPECIFICATION FairSerialSpec
CONSTANTS
  n1 = n1
  d1 = d1
  d2 = d2
  NoCall = NoCall
  Call = {n1,d1,d2}
  NotifyCall = {n1}
  Protocol = {"readBlockData", "writeBlockData"}
  Retries = 1
  SleepTimesOut = FALSE
  PowerManaged = FALSE
  BiosNotify = FALSE
  Garbage = {{}, {"BUS_ERR"}}
INVARIANTS
  BlockBufferOnInFlight
PROPERTIES
  SendsOwnRequest
  EveryCallReturns
