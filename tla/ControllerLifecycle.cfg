SPECIFICATION FairSpec
CONSTANTS
  s1 = s1
  w1 = w1
  c1 = c1
  Caller = {s1, w1}
  Starter = s1
  MaxLoops = 2
  Call = {c1}
CHECK_DEADLOCK FALSE
INVARIANTS
  IInv
  OneWorkLoop
  MisuseHasACause
  NubKept
  FailedStartLeavesNothing
  LeavesNotifyAsFound
  NotifyFollowsPower
PROPERTY
  ReleaseEnds
