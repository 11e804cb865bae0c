SPECIFICATION Spec
CONSTANTS
  t1 = t1
  k1 = k1
  Thread = {t1}
  Press = {k1}
  Boot = 2
  MaxTime = 4
  Word = 16
  DisableWhileTypingTimeout = 2
  DisableWhileTrackpointTimeout = 2
  DisableWhileTyping = TRUE
  DisableWhileTrackpoint = TRUE
  IgnoreSetTouchpadStatus = FALSE
INVARIANT
  TypingDeactivates
