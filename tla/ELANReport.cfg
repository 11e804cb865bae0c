SPECIFICATION Spec
CONSTANTS
  t1 = t1
  t2 = t2
  Thread = {t1, t2}
  ETP_MAX_FINGERS = 2
  Reports <- MCReports
SYMMETRY ThreadSymmetry
INVARIANTS
  IInv
  EventIsReport
  OnPad
  MovementIsSigned
