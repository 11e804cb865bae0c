SPECIFICATION Spec
CONSTANTS
  t1 = t1
  t2 = t2
  k1 = k1
  k2 = k2
  Thread = {t1, t2}
  Press = {k1, k2}
  Boot = 2
  MaxTime = 4
  Word = 16
  DisableWhileTypingTimeout = 2
  DisableWhileTrackpointTimeout = 2
  DisableWhileTyping = TRUE
  DisableWhileTrackpoint = TRUE
  IgnoreSetTouchpadStatus = FALSE
SYMMETRY Symmetry
VIEW Live
INVARIANTS
  IInv
  KeyPressDeactivates
  TrackpointDeactivates
  ScrollsWithMiddleButton
