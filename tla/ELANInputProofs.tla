--------------------------- MODULE ELANInputProofs ---------------------------
(***************************************************************************)
(* Theorems about ELANInput, for any number of threads and key presses,    *)
(* any time-outs and any length of time.                                   *)
(***************************************************************************)
EXTENDS ELANInput, TLAPS

(* The driver starts with no time stamp, and no thread. *)
LEMMA InitIInv == Init => IInv
<1> SUFFICES ASSUME Init PROVE IInv
  OBVIOUS
<1>1. TypeOK
  <2>1. Invalid \in Report
    BY DEF Report
  <2>2. 0 \in Time /\ Boot \in Time
    BY TimeAssumption DEF Time
  <2>3. pc \in [Thread -> Stage]
    BY DEF Init, Stage
  <2> QED BY <2>1, <2>2, <2>3 DEF Init, TypeOK
<1>2. ClockOrder /\ LatestPress /\ EventIsLast /\ PassedFilter /\ Alone /\ LatestMove
  BY TimeAssumption DEF Init, ClockOrder, LatestPress, EventIsLast, PassedFilter, Passed, Alone, Active, LatestMove
<1>3. LoneStamp /\ LoneOrder /\ TouchFiltered /\ MiddleOnly
  BY DEF Init, LoneStamp, LoneOrder, TouchFiltered, MiddleOnly
<1> QED BY <1>1, <1>2, <1>3 DEF IInv

(* A host notify starts a thread. *)
LEMMA messageKeepsIInv ==
  ASSUME IInv, NEW t \in Thread, message(t) PROVE IInv'
<1> USE TimeAssumption DEF IInv, TypeOK, Time
<1>1. TypeOK'
  BY DEF message, notices, members, Move, Stage
<1>2. ClockOrder' /\ LatestPress' /\ EventIsLast'
  BY DEF message, notices, members, Move, ClockOrder, LatestPress, EventIsLast
<1>3. PassedFilter'
  BY DEF message, notices, members, Move, PassedFilter, Passed, NotOvertaken
<1>4. Alone' /\ LatestMove'
  BY DEF message, notices, members, Move, Alone, Active, LatestMove
<1>5. LoneStamp' /\ LoneOrder'
  BY DEF message, notices, members, Move, Active, LoneStamp, LoneOrder
<1>6. TouchFiltered' /\ MiddleOnly'
  BY DEF message, notices, members, Move, EventIsLast, Active, TouchFiltered, MiddleOnly
<1> QED BY <1>1, <1>2, <1>3, <1>4, <1>5, <1>6

(* A thread reads its report. *)
LEMMA getReportKeepsIInv ==
  ASSUME IInv, NEW t \in Thread, getReport(t) PROVE IInv'
<1> USE TimeAssumption DEF IInv, TypeOK, Time
<1>1. TypeOK'
  BY DEF getReport, notices, members, history, Move, Stage
<1>2. ClockOrder' /\ LatestPress' /\ EventIsLast'
  BY DEF getReport, notices, members, history, Move, ClockOrder, LatestPress, EventIsLast
<1>3. PassedFilter'
  BY DEF getReport, notices, members, history, Move, PassedFilter, Passed, NotOvertaken
<1>4. Alone' /\ LatestMove'
  BY DEF getReport, notices, members, history, Move, Alone, Active, LatestMove
<1>5. LoneStamp' /\ LoneOrder'
  BY DEF getReport, notices, members, history, Move, LoneStamp, LoneOrder
<1>6. TouchFiltered' /\ MiddleOnly'
  BY DEF getReport, notices, members, history, Move, EventIsLast, TouchFiltered, MiddleOnly
<1> QED BY <1>1, <1>2, <1>3, <1>4, <1>5, <1>6

(* A thread looks whether the touchpad is switched off. *)
LEMMA CheckIgnoreKeepsIInv ==
  ASSUME IInv, NEW t \in Thread, CheckIgnore(t) PROVE IInv'
<1> USE TimeAssumption DEF IInv, TypeOK, Time
<1>1. TypeOK'
  BY DEF CheckIgnore, notices, members, history, Move, Stage
<1>2. ClockOrder' /\ LatestPress' /\ EventIsLast'
  BY DEF CheckIgnore, notices, members, history, Move, ClockOrder, LatestPress, EventIsLast
<1>3. PassedFilter'
  BY DEF CheckIgnore, notices, members, history, Move, PassedFilter, Passed, NotOvertaken
<1>4. Alone' /\ LatestMove'
  BY DEF CheckIgnore, notices, members, history, Move, Alone, Active, LatestMove
<1>5. LoneStamp' /\ LoneOrder'
  BY DEF CheckIgnore, notices, members, history, Move, LoneStamp, LoneOrder
<1>6. TouchFiltered' /\ MiddleOnly'
  BY DEF CheckIgnore, notices, members, history, Move, TouchFiltered, MiddleOnly
<1> QED BY <1>1, <1>2, <1>3, <1>4, <1>5, <1>6

(* A thread reads the clock. *)
LEMMA ReadClockKeepsIInv ==
  ASSUME IInv, NEW t \in Thread, ReadClock(t) PROVE IInv'
<1> USE TimeAssumption DEF IInv, TypeOK, Time
<1>1. TypeOK'
  BY DEF ReadClock, notices, members, history, Move, Stage
<1>2. ClockOrder' /\ LatestPress' /\ EventIsLast'
  BY DEF ReadClock, notices, members, history, Move, ClockOrder, LatestPress, EventIsLast
<1>3. PassedFilter'
  BY DEF ReadClock, notices, members, history, Move, EventIsLast, PassedFilter, Passed,
    NotOvertaken
<1>4. Alone' /\ LatestMove'
  BY DEF ReadClock, notices, members, history, Move, Alone, Active, LatestMove
<1>5. LoneStamp' /\ LoneOrder'
  BY DEF ReadClock, notices, members, history, Move, ClockOrder, Alone, Active, LoneStamp, LoneOrder
<1>6. TouchFiltered' /\ MiddleOnly'
  BY DEF ReadClock, notices, members, history, Move, EventIsLast, TouchFiltered, MiddleOnly
<1> QED BY <1>1, <1>2, <1>3, <1>4, <1>5, <1>6

(* A report meets the filter on typing. *)
LEMMA FilterTypingKeepsIInv ==
  ASSUME IInv, NEW t \in Thread, FilterTyping(t) PROVE IInv'
<1> USE TimeAssumption DEF IInv, TypeOK, Time
<1>1. TypeOK'
  BY DEF FilterTyping, WhileTyping, Minus, notices, members, Move, Stage
<1>2. ClockOrder' /\ LatestPress' /\ EventIsLast'
  BY DEF FilterTyping, WhileTyping, Minus, notices, members, Move, ClockOrder, LatestPress,
    EventIsLast
<1>3. PassedFilter'
  <2> SUFFICES ASSUME DisableWhileTyping, NEW s \in Thread, Passed(s)', NotOvertaken(s)',
                      NEW p \in known'[s]
               PROVE timestamp_ns[s] - p >= DisableWhileTypingTimeout
    BY DEF FilterTyping, PassedFilter
  <2>1. CASE s # t
    BY <2>1 DEF FilterTyping, Move, PassedFilter, Passed, NotOvertaken
  <2>2. CASE s = t
    <3>1. ~ WhileTyping(t)
      BY <2>2 DEF FilterTyping, Move, EventIsLast, Passed
    <3>2. known'[s] = told /\ \A q \in told : q <= timestamp_ns[t]
      BY <2>2 DEF FilterTyping, NotOvertaken
    <3>3. p <= ts_last_keyboard /\ ts_last_keyboard <= timestamp_ns[t]
      BY <3>2 DEF LatestPress
    <3>4. p \in Nat /\ ts_last_keyboard \in Nat /\ timestamp_ns[t] \in Nat
      <4>1. p \in 0..MaxTime
        BY <3>2
      <4>2. timestamp_ns[t] \in 0..MaxTime
        OBVIOUS
      <4> QED BY <4>1, <4>2
    <3>5. timestamp_ns[t] - ts_last_keyboard >= DisableWhileTypingTimeout
      <4>1. ~ (Minus(timestamp_ns[t], ts_last_keyboard) < DisableWhileTypingTimeout)
        BY <3>1, Zenon DEF WhileTyping
      <4>2. Minus(timestamp_ns[t], ts_last_keyboard) = timestamp_ns[t] - ts_last_keyboard
        BY <3>3 DEF Minus
      <4> QED BY <4>1, <4>2, <3>3, <3>4
    <3> QED BY <2>2, <3>3, <3>4, <3>5
  <2> QED BY <2>1, <2>2
<1>4. Alone' /\ LatestMove'
  BY DEF FilterTyping, WhileTyping, Minus, notices, members, Move, Alone, Active, LatestMove
<1>5. LoneStamp' /\ LoneOrder'
  BY DEF FilterTyping, WhileTyping, Minus, notices, members, Move, LoneStamp, LoneOrder
<1>6. TouchFiltered' /\ MiddleOnly'
  BY DEF FilterTyping, WhileTyping, Minus, notices, members, Move, TouchFiltered, MiddleOnly
<1> QED BY <1>1, <1>2, <1>3, <1>4, <1>5, <1>6

(* A touch meets the filter on the trackpoint. *)
LEMMA FilterTrackpointKeepsIInv ==
  ASSUME IInv, NEW t \in Thread, FilterTrackpoint(t) PROVE IInv'
<1> USE TimeAssumption DEF IInv, TypeOK, Time
<1>1. TypeOK'
  BY DEF FilterTrackpoint, WhileTrackpoint, Minus, notices, members, history, Move, Stage
<1>2. ClockOrder' /\ LatestPress' /\ EventIsLast'
  BY DEF FilterTrackpoint, WhileTrackpoint, Minus, notices, members, history, Move, ClockOrder,
    LatestPress, EventIsLast
<1>3. PassedFilter'
  BY DEF FilterTrackpoint, WhileTrackpoint, Minus, notices, members, history, Move, PassedFilter,
    Passed, NotOvertaken
<1>4. Alone' /\ LatestMove'
  BY DEF FilterTrackpoint, WhileTrackpoint, Minus, notices, members, history, Move, Alone, Active,
    LatestMove
<1>5. LoneStamp' /\ LoneOrder'
  BY DEF FilterTrackpoint, WhileTrackpoint, Minus, notices, members, history, Move, LoneStamp,
    LoneOrder
<1>6. TouchFiltered' /\ MiddleOnly'
  BY DEF FilterTrackpoint, WhileTrackpoint, Minus, notices, members, history, Move, LatestMove,
    LoneStamp, TouchFiltered, MiddleOnly
<1> QED BY <1>1, <1>2, <1>3, <1>4, <1>5, <1>6

(* A touch is passed on. *)
LEMMA reportAbsoluteKeepsIInv ==
  ASSUME IInv, NEW t \in Thread, reportAbsolute(t) PROVE IInv'
<1> USE TimeAssumption DEF IInv, TypeOK, Time
<1>1. TypeOK'
  BY DEF reportAbsolute, notices, members, history, Move, Stage
<1>2. ClockOrder' /\ LatestPress' /\ EventIsLast'
  BY DEF reportAbsolute, notices, members, history, Move, ClockOrder, LatestPress, EventIsLast
<1>3. PassedFilter'
  BY DEF reportAbsolute, notices, members, history, Move, PassedFilter, Passed, NotOvertaken
<1>4. Alone' /\ LatestMove'
  BY DEF reportAbsolute, notices, members, history, Move, Alone, Active, LatestMove
<1>5. LoneStamp' /\ LoneOrder'
  BY DEF reportAbsolute, notices, members, history, Move, Alone, Active, LoneStamp, LoneOrder
<1>6. TouchFiltered' /\ MiddleOnly'
  BY DEF reportAbsolute, notices, members, history, Move, TouchFiltered, MiddleOnly
<1> QED BY <1>1, <1>2, <1>3, <1>4, <1>5, <1>6

(* A thread reads the clock for a movement. *)
LEMMA ReadUseKeepsIInv ==
  ASSUME IInv, NEW t \in Thread, ReadUse(t) PROVE IInv'
<1> USE TimeAssumption DEF IInv, TypeOK, Time
<1>1. TypeOK'
  BY DEF ReadUse, notices, members, history, Move, Stage
<1>2. ClockOrder' /\ LatestPress' /\ EventIsLast'
  BY DEF ReadUse, notices, members, history, Move, ClockOrder, LatestPress, EventIsLast
<1>3. PassedFilter'
  BY DEF ReadUse, notices, members, history, Move, PassedFilter, Passed, NotOvertaken
<1>4. Alone' /\ LatestMove'
  BY DEF ReadUse, notices, members, history, Move, ClockOrder, Alone, Active, LatestMove
<1>5. LoneStamp' /\ LoneOrder'
  BY DEF ReadUse, notices, members, history, Move, ClockOrder, LoneStamp, LoneOrder
<1>6. TouchFiltered' /\ MiddleOnly'
  BY DEF ReadUse, notices, members, history, Move, TouchFiltered, MiddleOnly
<1> QED BY <1>1, <1>2, <1>3, <1>4, <1>5, <1>6

(* A thread stores the time of a movement. *)
LEMMA StoreUseKeepsIInv ==
  ASSUME IInv, NEW t \in Thread, StoreUse(t) PROVE IInv'
<1> USE TimeAssumption DEF IInv, TypeOK, Time
<1>1. TypeOK'
  BY DEF StoreUse, StoreTime, notices, Move, Stage
<1>2. ClockOrder' /\ LatestPress' /\ EventIsLast'
  BY DEF StoreUse, StoreTime, notices, Move, ClockOrder, LatestPress, EventIsLast
<1>3. PassedFilter'
  BY DEF StoreUse, StoreTime, notices, Move, PassedFilter, Passed, NotOvertaken
<1>4. Alone' /\ LatestMove'
  BY DEF StoreUse, StoreTime, notices, Move, Alone, Active, LatestMove
<1>5. LoneStamp' /\ LoneOrder'
  BY DEF StoreUse, StoreTime, notices, Move, Alone, Active, LoneStamp, LoneOrder
<1>6. TouchFiltered' /\ MiddleOnly'
  BY DEF StoreUse, StoreTime, notices, Move, EventIsLast, Alone, Active, LoneOrder, TouchFiltered, MiddleOnly
<1> QED BY <1>1, <1>2, <1>3, <1>4, <1>5, <1>6

(* A thread may turn the scrolling mode on. *)
LEMMA EnableScrollingKeepsIInv ==
  ASSUME IInv, NEW t \in Thread, EnableScrolling(t) PROVE IInv'
<1> USE TimeAssumption DEF IInv, TypeOK, Time
<1>1. TypeOK'
  BY DEF EnableScrolling, BothMoved, notices, history, Move, Stage
<1>2. ClockOrder' /\ LatestPress' /\ EventIsLast'
  BY DEF EnableScrolling, BothMoved, notices, history, Move, ClockOrder, LatestPress, EventIsLast
<1>3. PassedFilter'
  BY DEF EnableScrolling, BothMoved, notices, history, Move, PassedFilter, Passed, NotOvertaken
<1>4. Alone' /\ LatestMove'
  BY DEF EnableScrolling, BothMoved, notices, history, Move, Alone, Active, LatestMove
<1>5. LoneStamp' /\ LoneOrder'
  BY DEF EnableScrolling, BothMoved, notices, history, Move, LoneStamp, LoneOrder
<1>6. TouchFiltered' /\ MiddleOnly'
  BY DEF EnableScrolling, BothMoved, notices, history, Move, Alone, Active, TouchFiltered, MiddleOnly
<1> QED BY <1>1, <1>2, <1>3, <1>4, <1>5, <1>6

(* A thread may turn the scrolling mode off. *)
LEMMA DisableScrollingKeepsIInv ==
  ASSUME IInv, NEW t \in Thread, DisableScrolling(t) PROVE IInv'
<1> USE TimeAssumption DEF IInv, TypeOK, Time
<1>1. TypeOK'
  BY DEF DisableScrolling, Released, notices, history, Move, Stage
<1>2. ClockOrder' /\ LatestPress' /\ EventIsLast'
  BY DEF DisableScrolling, Released, notices, history, Move, ClockOrder, LatestPress, EventIsLast
<1>3. PassedFilter'
  BY DEF DisableScrolling, Released, notices, history, Move, PassedFilter, Passed, NotOvertaken
<1>4. Alone' /\ LatestMove'
  BY DEF DisableScrolling, Released, notices, history, Move, Alone, Active, LatestMove
<1>5. LoneStamp' /\ LoneOrder'
  BY DEF DisableScrolling, Released, notices, history, Move, LoneStamp, LoneOrder
<1>6. TouchFiltered' /\ MiddleOnly'
  BY DEF DisableScrolling, Released, notices, history, Move, TouchFiltered, MiddleOnly
<1> QED BY <1>1, <1>2, <1>3, <1>4, <1>5, <1>6

(* A movement or a scroll is passed on. *)
LEMMA SendKeepsIInv ==
  ASSUME IInv, NEW t \in Thread, Send(t) PROVE IInv'
<1> USE TimeAssumption DEF IInv, TypeOK, Time
<1>1. TypeOK'
  BY DEF Send, notices, members, history, Move, Stage
<1>2. ClockOrder' /\ LatestPress' /\ EventIsLast'
  BY DEF Send, notices, members, history, Move, ClockOrder, LatestPress, EventIsLast
<1>3. PassedFilter'
  BY DEF Send, notices, members, history, Move, PassedFilter, Passed, NotOvertaken
<1>4. Alone' /\ LatestMove'
  BY DEF Send, notices, members, history, Move, Alone, Active, LatestMove
<1>5. LoneStamp' /\ LoneOrder'
  BY DEF Send, notices, members, history, Move, LoneStamp, LoneOrder
<1>6. TouchFiltered' /\ MiddleOnly'
  BY DEF Send, notices, members, history, Move, TouchFiltered, MiddleOnly
<1> QED BY <1>1, <1>2, <1>3, <1>4, <1>5, <1>6

(* A key is pressed. *)
LEMMA PressKeyKeepsIInv ==
  ASSUME IInv, NEW k \in Press, PressKey(k) PROVE IInv'
<1> USE TimeAssumption DEF IInv, TypeOK, Time
<1>1. TypeOK'
  BY DEF PressKey, members, history, Stage
<1>2. ClockOrder' /\ LatestPress' /\ EventIsLast'
  BY DEF PressKey, members, history, ClockOrder, LatestPress, EventIsLast
<1>3. PassedFilter'
  BY DEF PressKey, members, history, PassedFilter, Passed, NotOvertaken
<1>4. Alone' /\ LatestMove'
  BY DEF PressKey, members, history, Alone, Active, LatestMove
<1>5. LoneStamp' /\ LoneOrder'
  BY DEF PressKey, members, history, LoneStamp, LoneOrder
<1>6. TouchFiltered' /\ MiddleOnly'
  BY DEF PressKey, members, history, TouchFiltered, MiddleOnly
<1> QED BY <1>1, <1>2, <1>3, <1>4, <1>5, <1>6

(* The driver is told of a key press. *)
LEMMA KeyPressKeepsIInv ==
  ASSUME IInv, NEW k \in Press, KeyPress(k) PROVE IInv'
<1> USE TimeAssumption DEF IInv, TypeOK, Time
<1>1. TypeOK'
  BY DEF KeyPress, RememberPress, Stage
<1>2. ClockOrder' /\ LatestPress' /\ EventIsLast'
  BY DEF KeyPress, RememberPress, ClockOrder, LatestPress, EventIsLast
<1>3. PassedFilter'
  BY DEF KeyPress, RememberPress, ClockOrder, PassedFilter, Passed, NotOvertaken
<1>4. Alone' /\ LatestMove'
  BY DEF KeyPress, RememberPress, Alone, Active, LatestMove
<1>5. LoneStamp' /\ LoneOrder'
  BY DEF KeyPress, RememberPress, LoneStamp, LoneOrder
<1>6. TouchFiltered' /\ MiddleOnly'
  BY DEF KeyPress, RememberPress, TouchFiltered, MiddleOnly
<1> QED BY <1>1, <1>2, <1>3, <1>4, <1>5, <1>6

(* The touchpad is switched on or off. *)
LEMMA SetTouchStatusKeepsIInv ==
  ASSUME IInv, SetTouchStatus PROVE IInv'
<1> USE TimeAssumption DEF IInv, TypeOK, Time
<1>1. TypeOK'
  BY DEF SetTouchStatus, notices, history, Stage
<1>2. ClockOrder' /\ LatestPress' /\ EventIsLast'
  BY DEF SetTouchStatus, notices, history, ClockOrder, LatestPress, EventIsLast
<1>3. PassedFilter'
  BY DEF SetTouchStatus, notices, history, PassedFilter, Passed, NotOvertaken
<1>4. Alone' /\ LatestMove'
  BY DEF SetTouchStatus, notices, history, Alone, Active, LatestMove
<1>5. LoneStamp' /\ LoneOrder'
  BY DEF SetTouchStatus, notices, history, LoneStamp, LoneOrder
<1>6. TouchFiltered' /\ MiddleOnly'
  BY DEF SetTouchStatus, notices, history, TouchFiltered, MiddleOnly
<1> QED BY <1>1, <1>2, <1>3, <1>4, <1>5, <1>6

(* Time passes. *)
LEMMA TickKeepsIInv ==
  ASSUME IInv, Tick PROVE IInv'
<1> USE TimeAssumption DEF IInv, TypeOK, Time
<1>1. TypeOK'
  BY DEF Tick, notices, members, history, Stage
<1>2. ClockOrder' /\ LatestPress' /\ EventIsLast'
  BY DEF Tick, notices, members, history, ClockOrder, LatestPress, EventIsLast
<1>3. PassedFilter'
  BY DEF Tick, notices, members, history, PassedFilter, Passed, NotOvertaken
<1>4. Alone' /\ LatestMove'
  BY DEF Tick, notices, members, history, Alone, Active, LatestMove
<1>5. LoneStamp' /\ LoneOrder'
  BY DEF Tick, notices, members, history, LoneStamp, LoneOrder
<1>6. TouchFiltered' /\ MiddleOnly'
  BY DEF Tick, notices, members, history, TouchFiltered, MiddleOnly
<1> QED BY <1>1, <1>2, <1>3, <1>4, <1>5, <1>6

(* No variable changes. *)
LEMMA StutterKeepsIInv ==
  ASSUME IInv, UNCHANGED vars PROVE IInv'
<1> USE TimeAssumption DEF IInv, TypeOK, Time
<1>1. TypeOK'
  BY DEF vars, notices, members, history, Stage
<1>2. ClockOrder' /\ LatestPress' /\ EventIsLast'
  BY DEF vars, notices, members, history, ClockOrder, LatestPress, EventIsLast
<1>3. PassedFilter'
  BY DEF vars, notices, members, history, PassedFilter, Passed, NotOvertaken
<1>4. Alone' /\ LatestMove'
  BY DEF vars, notices, members, history, Alone, Active, LatestMove
<1>5. LoneStamp' /\ LoneOrder'
  BY DEF vars, notices, members, history, LoneStamp, LoneOrder
<1>6. TouchFiltered' /\ MiddleOnly'
  BY DEF vars, notices, members, history, TouchFiltered, MiddleOnly
<1> QED BY <1>1, <1>2, <1>3, <1>4, <1>5, <1>6

-----------------------------------------------------------------------------

(* The inductive invariant. *)
THEOREM Invariance == Spec => []IInv
<1>1. Init => IInv
  BY InitIInv
<1>2. IInv /\ [Next]_vars => IInv'
  <2> SUFFICES ASSUME IInv, [Next]_vars PROVE IInv'
    OBVIOUS
  <2>1. ASSUME NEW t \in Thread, message(t) PROVE IInv'
    BY <2>1, messageKeepsIInv
  <2>2. ASSUME NEW t \in Thread, handleHostNotify(t) PROVE IInv'
    BY <2>2, getReportKeepsIInv, CheckIgnoreKeepsIInv, ReadClockKeepsIInv, FilterTypingKeepsIInv,
      FilterTrackpointKeepsIInv, reportAbsoluteKeepsIInv, ReadUseKeepsIInv, StoreUseKeepsIInv,
      EnableScrollingKeepsIInv, DisableScrollingKeepsIInv, SendKeepsIInv DEF handleHostNotify
  <2>3. ASSUME NEW k \in Press, PressKey(k) \/ KeyPress(k) PROVE IInv'
    BY <2>3, PressKeyKeepsIInv, KeyPressKeepsIInv
  <2>4. CASE SetTouchStatus
    BY <2>4, SetTouchStatusKeepsIInv
  <2>5. CASE Tick
    BY <2>5, TickKeepsIInv
  <2>6. CASE UNCHANGED vars
    BY <2>6, StutterKeepsIInv
  <2> QED BY <2>1, <2>2, <2>3, <2>4, <2>5, <2>6 DEF Next
<1> QED BY <1>1, <1>2, PTL DEF Spec

(* A report read within the timeout of a key press the driver has been     *)
(* told of in time is not passed on, unless another press overtakes it.    *)
THEOREM KeyPressesDeactivate == Spec => []KeyPressDeactivates
<1>1. IInv => KeyPressDeactivates
  BY DEF IInv, PassedFilter, Passed, KeyPressDeactivates
<1>2. Spec => []IInv
  BY Invariance
<1> QED BY <1>1, <1>2, PTL

(* A touch within the timeout of a movement of the trackpoint is not       *)
(* passed on.                                                              *)
THEOREM MovementsDeactivate == Spec => []TrackpointDeactivates
<1>1. IInv => TrackpointDeactivates
  BY DEF IInv, TouchFiltered, TrackpointDeactivates
<1>2. Spec => []IInv
  BY Invariance
<1> QED BY <1>1, <1>2, PTL

(* No scrolling without the middle button.                                 *)
THEOREM ScrollingNeedsMiddleButton == Spec => []ScrollsWithMiddleButton
<1>1. IInv => ScrollsWithMiddleButton
  BY DEF IInv, MiddleOnly, ScrollsWithMiddleButton
<1>2. Spec => []IInv
  BY Invariance
<1> QED BY <1>1, <1>2, PTL
=============================================================================
