----------------------------- MODULE ELANInput -----------------------------
(***************************************************************************)
(* What ELANTouchpadDriver does with a report of the touchpad: the filters *)
(* of handleHostNotify, the trackpoint's scrolling mode, and the messages  *)
(* of the keyboard driver.                                                 *)
(*                                                                         *)
(* Every host notify gets a thread of its own (VoodooSMBusDeviceNub), and  *)
(* keyboard drivers send their messages from others.  A message about a    *)
(* key press carries the time its sender read when the key was pressed: it *)
(* may arrive late, and after one about a later press on another keyboard. *)
(* No lock is held: a step of this module reads or writes one of the       *)
(* driver's members or the clock once.  Reports are read from the touchpad *)
(* one by one; that is I801Controller's concern.                           *)
(***************************************************************************)
EXTENDS Naturals

CONSTANTS
  Thread,     \* the host-notify threads, each handles one report
  Press,      \* the presses of a key, each has one message about it
  Boot,       \* the uptime when the driver starts
  MaxTime,    \* bounds the clock
  Word,       \* 2^64 in the source
  DisableWhileTypingTimeout, DisableWhileTrackpointTimeout,
  DisableWhileTyping, DisableWhileTrackpoint, IgnoreSetTouchpadStatus

ASSUME TimeAssumption ==
  /\ Boot \in Nat /\ MaxTime \in Nat /\ Word \in Nat
  /\ DisableWhileTypingTimeout \in Nat /\ DisableWhileTrackpointTimeout \in Nat
  /\ DisableWhileTypingTimeout <= Boot /\ DisableWhileTrackpointTimeout <= Boot
  /\ Boot <= MaxTime /\ MaxTime < Word
ASSUME SwitchAssumption ==
  DisableWhileTyping \in BOOLEAN /\ DisableWhileTrackpoint \in BOOLEAN /\ IgnoreSetTouchpadStatus \in BOOLEAN

VARIABLES
  now,                \* the uptime, in units of the timeouts
  (* members of ELANTouchpadDriver *)
  ignoreall, ts_last_keyboard, ts_last_trackpoint, trackpointScrolling,
  (* the messages about key presses *)
  notice,             \* where each is
  argument,           \* the time it carries
  (* the threads *)
  pc,                 \* where each is, see Stage
  report,             \* its local variables
  timestamp_ns,
  use,                \* the clock as read for ts_last_trackpoint
  event,              \* what it passed on to the system
  (* history *)
  told,               \* the key presses the driver knows of, see KeyPress
  known,              \* what it knew when each thread was in the typing filter
  passed,             \* when that was
  lone,               \* has each thread had the driver to itself so far?
  moved               \* when the trackpoint was moved, as such threads noted it

members == <<ignoreall, ts_last_keyboard, ts_last_trackpoint, trackpointScrolling>>
notices == <<notice, argument>>
history == <<told, known, passed, lone, moved>>
vars == <<now, members, notices, pc, report, timestamp_ns, use, event, history>>

Time == 0..MaxTime

(* A report without its coordinates: they are zero or not.  Of the buttons *)
(* the driver looks at the middle one.                                     *)
Touch      == [kind |-> "touch", x |-> FALSE, y |-> FALSE, middle |-> FALSE]
Invalid    == [Touch EXCEPT !.kind = "invalid"]
Trackpoint == [kind : {"trackpoint"}, x : BOOLEAN, y : BOOLEAN, middle : BOOLEAN]
Report     == {Touch, Invalid} \cup Trackpoint

(* getReport, the test of ignoreall, the reading of the clock, the two     *)
(* filters, reportAbsolute; and of reportTrackpoint the reading of the     *)
(* clock, its store, the three tests of trackpointScrolling.               *)
Stage == {"new", "getReport", "ignoreall", "clock", "typing", "trackpoint", "absolute",
          "use", "store", "enable", "disable", "send", "done"}

Active(t) == pc[t] \notin {"new", "done"}

TypeOK ==
  /\ now \in Time
  /\ ignoreall \in BOOLEAN
  /\ ts_last_keyboard \in Time
  /\ ts_last_trackpoint \in Time
  /\ trackpointScrolling \in BOOLEAN
  /\ pc \in [Thread -> Stage]
  /\ report \in [Thread -> Report]
  /\ timestamp_ns \in [Thread -> Time]
  /\ use \in [Thread -> Time]
  /\ event \in [Thread -> {"none", "touch", "pointer", "scroll"}]
  /\ notice \in [Press -> {"none", "sent", "received"}]
  /\ argument \in [Press -> Time]
  /\ told \in SUBSET Time
  /\ known \in [Thread -> SUBSET Time]
  /\ passed \in [Thread -> Time]
  /\ lone \in [Thread -> BOOLEAN]
  /\ moved \in SUBSET Time

Init ==
  /\ now = Boot
  /\ ignoreall = FALSE /\ trackpointScrolling = FALSE
  /\ ts_last_keyboard = 0 /\ ts_last_trackpoint = 0
  /\ pc = [t \in Thread |-> "new"]
  /\ report = [t \in Thread |-> Invalid]
  /\ timestamp_ns = [t \in Thread |-> 0]
  /\ use = [t \in Thread |-> 0]
  /\ event = [t \in Thread |-> "none"]
  /\ notice = [k \in Press |-> "none"] /\ argument = [k \in Press |-> 0]
  /\ told = {} /\ moved = {}
  /\ known = [t \in Thread |-> {}]
  /\ passed = [t \in Thread |-> 0]
  /\ lone = [t \in Thread |-> TRUE]

-----------------------------------------------------------------------------
(* handleHostNotify *)

Move(t, from, to) == pc[t] = from /\ pc' = [pc EXCEPT ![t] = to]

(* A host notify starts a thread, and that reads the report first. *)
message(t) ==
  /\ Move(t, "new", "getReport")
  /\ lone' = [s \in Thread |->
                IF s = t THEN \A r \in Thread \ {t} : ~ Active(r) ELSE lone[s] /\ ~ Active(s)]
  /\ UNCHANGED <<now, notices, members, report, timestamp_ns, use, event, told, known, passed, moved>>

(* A report that cannot be read, or has the wrong length, is given up. *)
getReport(t) ==
  /\ \/ Move(t, "getReport", "done") /\ UNCHANGED report
     \/ Move(t, "getReport", "ignoreall") /\ \E r \in Report : report' = [report EXCEPT ![t] = r]
  /\ UNCHANGED <<now, notices, members, timestamp_ns, use, event, history>>

CheckIgnore(t) ==
  /\ IF ignoreall /\ ~ IgnoreSetTouchpadStatus
       THEN Move(t, "ignoreall", "done")
       ELSE Move(t, "ignoreall", "clock")
  /\ UNCHANGED <<now, notices, members, report, timestamp_ns, use, event, history>>

ReadClock(t) ==
  /\ Move(t, "clock", "typing")
  /\ timestamp_ns' = [timestamp_ns EXCEPT ![t] = now]
  /\ UNCHANGED <<now, notices, members, report, use, event, history>>

(* uint64_t subtraction. *)
Minus(a, b) == IF b <= a THEN a - b ELSE Word - (b - a)

LateByOne(t) ==
  DisableWhileTyping /\ Minus(timestamp_ns[t], ts_last_keyboard) + 1 < DisableWhileTypingTimeout

WhileTyping(t) ==
  DisableWhileTyping /\ Minus(timestamp_ns[t], ts_last_keyboard) < DisableWhileTypingTimeout

WhileTrackpoint(t) ==
  DisableWhileTrackpoint /\ Minus(timestamp_ns[t], ts_last_trackpoint) < DisableWhileTrackpointTimeout

(* The filter on typing, and the switch on the kind of report. *)
FilterTyping(t) ==
  /\ IF WhileTyping(t) \/ report[t].kind = "invalid" THEN Move(t, "typing", "done")
     ELSE IF report[t].kind = "touch" THEN Move(t, "typing", "trackpoint")
     ELSE Move(t, "typing", "use")
  /\ passed' = [passed EXCEPT ![t] = now]
  /\ known' = [known EXCEPT ![t] = told]
  /\ UNCHANGED <<now, notices, members, report, timestamp_ns, use, event, told, lone, moved>>

FilterTrackpoint(t) ==
  /\ IF WhileTrackpoint(t) THEN Move(t, "trackpoint", "done") ELSE Move(t, "trackpoint", "absolute")
  /\ UNCHANGED <<now, notices, members, report, timestamp_ns, use, event, history>>

reportAbsolute(t) ==
  /\ Move(t, "absolute", "done")
  /\ event' = [event EXCEPT ![t] = "touch"]
  /\ UNCHANGED <<now, notices, members, report, timestamp_ns, use, history>>

-----------------------------------------------------------------------------
(* reportTrackpoint *)

BothMoved(t) == report[t].x /\ report[t].y
Moved(t)     == report[t].x \/ report[t].y

(* The trackpoint was used: the clock is read... *)
ReadUse(t) ==
  /\ \/ Moved(t) /\ Move(t, "use", "store") /\ use' = [use EXCEPT ![t] = now]
     \/ ~ Moved(t) /\ Move(t, "use", "enable") /\ UNCHANGED use
  /\ UNCHANGED <<now, notices, members, report, timestamp_ns, event, history>>

(* ... and stored. *)
StoreStamp(t) == ts_last_trackpoint' = timestamp_ns[t]
StoreTime(t) == ts_last_trackpoint' = use[t]

StoreUse(t) ==
  /\ Move(t, "store", "enable")
  /\ StoreTime(t)
  /\ moved' = IF lone[t] THEN moved \cup {use[t]} ELSE moved
  /\ UNCHANGED <<now, notices, ignoreall, ts_last_keyboard, trackpointScrolling, report, timestamp_ns, use,
                 event, told, known, passed, lone>>

(* The middle button down and the trackpoint moved both ways: scrolling. *)
EnableScrolling(t) ==
  /\ Move(t, "enable", "disable")
  /\ trackpointScrolling' = (trackpointScrolling \/ (report[t].middle /\ BothMoved(t)))
  /\ UNCHANGED <<now, notices, ignoreall, ts_last_keyboard, ts_last_trackpoint, report, timestamp_ns, use,
                 event, history>>

OnlyWhenStill(t) == trackpointScrolling' = (trackpointScrolling /\ (report[t].middle \/ Moved(t)))
Released(t) == trackpointScrolling' = (trackpointScrolling /\ report[t].middle)

DisableScrolling(t) ==
  /\ Move(t, "disable", "send")
  /\ Released(t)
  /\ UNCHANGED <<now, notices, ignoreall, ts_last_keyboard, ts_last_trackpoint, report, timestamp_ns, use,
                 event, history>>

(* updateScrollwheel or updateRelativePointer. *)
Send(t) ==
  /\ Move(t, "send", "done")
  /\ event' = [event EXCEPT ![t] = IF trackpointScrolling THEN "scroll" ELSE "pointer"]
  /\ UNCHANGED <<now, notices, members, report, timestamp_ns, use, history>>

-----------------------------------------------------------------------------
(* The messages of the keyboard drivers *)

(* A key is pressed: its driver reads the clock and sends a message. *)
PressKey(k) ==
  /\ notice[k] = "none"
  /\ notice' = [notice EXCEPT ![k] = "sent"]
  /\ argument' = [argument EXCEPT ![k] = now]
  /\ UNCHANGED <<now, members, pc, report, timestamp_ns, use, event, history>>

RememberFirst(k) ==
  ts_last_keyboard' =
    IF Minus(argument[k], ts_last_keyboard) < DisableWhileTypingTimeout
      THEN ts_last_keyboard ELSE argument[k]

RememberPress(k) == ts_last_keyboard' = argument[k]

(* kKeyboardKeyPressTime.  A message that comes after one about a later    *)
(* press makes the driver forget the later one: ts_last_keyboard goes back.*)
KeyPress(k) ==
  /\ notice[k] = "sent"
  /\ notice' = [notice EXCEPT ![k] = "received"]
  /\ RememberPress(k)
  /\ told' = {p \in told : p <= argument[k]} \cup {argument[k]}
  /\ UNCHANGED <<now, ignoreall, ts_last_trackpoint, trackpointScrolling, argument, pc, report,
                 timestamp_ns, use, event, known, passed, lone, moved>>

(* kKeyboardSetTouchStatus *)
SetTouchStatus ==
  /\ \E enable \in BOOLEAN : ignoreall' = IF enable = ignoreall THEN ~ enable ELSE ignoreall
  /\ UNCHANGED <<now, notices, ts_last_keyboard, ts_last_trackpoint, trackpointScrolling, pc, report,
                 timestamp_ns, use, event, history>>

Tick ==
  /\ now < MaxTime
  /\ now' = now + 1
  /\ UNCHANGED <<notices, members, pc, report, timestamp_ns, use, event, history>>

handleHostNotify(t) ==
  \/ getReport(t) \/ CheckIgnore(t) \/ ReadClock(t) \/ FilterTyping(t) \/ FilterTrackpoint(t)
  \/ reportAbsolute(t)
  \/ ReadUse(t) \/ StoreUse(t) \/ EnableScrolling(t) \/ DisableScrolling(t) \/ Send(t)

Next ==
  \/ \E t \in Thread : message(t) \/ handleHostNotify(t)
  \/ \E k \in Press : PressKey(k) \/ KeyPress(k)
  \/ SetTouchStatus
  \/ Tick

Spec == Init /\ [][Next]_vars

-----------------------------------------------------------------------------
(* Properties *)

(* No press is later than the thread's reading of the clock, which its     *)
(* filter on typing compares with the latest press.                        *)
NotOvertaken(t) == \A p \in known[t] : p <= timestamp_ns[t]

(* A report read within the timeout of a key press, of any the driver has  *)
(* been told of by then and not of the latest only, is not passed on,      *)
(* unless the filter is overtaken by another press.  (Of a press whose     *)
(* message is still on its way it cannot know, and it forgets one when a   *)
(* message about an earlier one comes after it.)                           *)
KeyPressDeactivates ==
  DisableWhileTyping =>
    \A t \in Thread : event[t] # "none" /\ NotOvertaken(t) =>
      \A p \in known[t] : timestamp_ns[t] - p >= DisableWhileTypingTimeout

(* A touch that is reported within the timeout of a movement of the        *)
(* trackpoint is not passed on, as long as reports come one at a time.     *)
TrackpointDeactivates ==
  DisableWhileTrackpoint =>
    \A t \in Thread : event[t] = "touch" /\ lone[t] =>
      \A m \in moved : m < timestamp_ns[t] => timestamp_ns[t] - m >= DisableWhileTrackpointTimeout

(* A report that has the driver to itself scrolls only with the middle     *)
(* button down, whatever the reports before it have left behind: those     *)
(* the filters dropped, and those whose threads ran into each other.       *)
ScrollsWithMiddleButton ==
  \A t \in Thread : event[t] = "scroll" /\ lone[t] => report[t].middle

(* "After a key press the touchpad is deactivated for a certain amount of  *)
(* time" (README.md:26): no touch passes a filter within the timeout after *)
(* a key press the driver has been told of, by the time it is in the       *)
(* filter.                                                                 *)
TypingDeactivates ==
  DisableWhileTyping =>
    \A t \in Thread : event[t] = "touch" =>
      \A p \in known[t] : p < passed[t] => passed[t] - p >= DisableWhileTypingTimeout

-----------------------------------------------------------------------------
(* The inductive invariant *)

(* No time stamp is of the future. *)
ClockOrder ==
  /\ ts_last_keyboard <= now /\ ts_last_trackpoint <= now
  /\ \A k \in Press : argument[k] <= now
  /\ \A t \in Thread : timestamp_ns[t] <= now /\ use[t] <= now /\ passed[t] <= now

(* ts_last_keyboard is the latest of the key presses the driver knows of. *)
LatestPress ==
  /\ ts_last_keyboard \in told \cup {0}
  /\ \A p \in told : p <= ts_last_keyboard

(* A report is passed on once, last. *)
EventIsLast == \A t \in Thread : event[t] # "none" => pc[t] = "done"

(* The reports that got through the filter on typing. *)
Passed(t) ==
  event[t] # "none" \/ pc[t] \in {"trackpoint", "absolute", "use", "store", "enable", "disable", "send"}

PassedFilter ==
  DisableWhileTyping =>
    \A t \in Thread : Passed(t) /\ NotOvertaken(t) =>
      \A p \in known[t] : timestamp_ns[t] - p >= DisableWhileTypingTimeout

(* Who is lone is alone. *)
Alone == \A s, t \in Thread : Active(s) /\ Active(t) /\ lone[t] => s = t

(* ts_last_trackpoint never falls behind a movement that a lone thread has *)
(* noted, although other threads may store older times over newer ones.    *)
LatestMove ==
  \A m \in moved :
    /\ m <= ts_last_trackpoint
    /\ \A s \in Thread : pc[s] = "store" => m <= use[s]

(* A lone thread's reading of the clock is after all that was stored... *)
LoneStamp ==
  \A t \in Thread : lone[t] /\ pc[t] \in {"typing", "trackpoint"} => ts_last_trackpoint <= timestamp_ns[t]

(* ... and before what the next lone thread will store. *)
LoneOrder ==
  \A s, t \in Thread :
    s # t /\ lone[s] /\ pc[s] = "store" /\ lone[t] /\ event[t] = "touch" => timestamp_ns[t] <= use[s]

TouchFiltered ==
  DisableWhileTrackpoint =>
    \A t \in Thread : lone[t] /\ (pc[t] = "absolute" \/ event[t] = "touch") =>
      \A m \in moved : m < timestamp_ns[t] => timestamp_ns[t] - m >= DisableWhileTrackpointTimeout

MiddleOnly ==
  \A t \in Thread : lone[t] /\ ~ report[t].middle =>
    event[t] # "scroll" /\ (pc[t] = "send" => ~ trackpointScrolling)

IInv ==
  /\ TypeOK
  /\ ClockOrder /\ LatestPress /\ EventIsLast /\ PassedFilter
  /\ Alone /\ LatestMove /\ LoneStamp /\ LoneOrder /\ TouchFiltered /\ MiddleOnly
=============================================================================
