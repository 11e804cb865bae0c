----------------------------- MODULE ELANReport -----------------------------
(***************************************************************************)
(* How ELANTouchpadDriver decodes a report: getReport, reportAbsolute with *)
(* reportContact, and the movement in reportTrackpoint.                    *)
(*                                                                         *)
(* Every host notify has a thread of its own, and all threads fill the     *)
(* same transducers without a lock: a step reads or writes one field of a  *)
(* transducer (the two stores before reportContact are one step).  The     *)
(* filters a report goes through first are ELANInput.  reportContact works *)
(* out areas and a pressure too, and uses them for nothing.                *)
(***************************************************************************)
EXTENDS Integers, FiniteSets

CONSTANTS
  Thread,          \* host-notify threads that run at a time
  ETP_MAX_FINGERS, \* 5 in the source
  Reports          \* the reports of the touchpad, with their length

ASSUME FingerAssumption == ETP_MAX_FINGERS \in 1..5

ETP_REPORT_ID_OFFSET   == 2
ETP_TOUCH_INFO_OFFSET  == 3
ETP_FINGER_DATA_OFFSET == 4
ETP_FINGER_DATA_LEN    == 5
ETP_SMBUS_REPORT_LEN   == 32
ETP_SMBUS_REPORT_OFFSET == 2
ETP_REPORT_ID          == 93
ETP_TP_REPORT_ID       == 94

Byte   == 0..255
Offset == ETP_SMBUS_REPORT_OFFSET..ETP_SMBUS_REPORT_OFFSET + ETP_SMBUS_REPORT_LEN - 1
Finger == 0..ETP_MAX_FINGERS - 1

(* What readBlockData puts into the report from ETP_SMBUS_REPORT_OFFSET on,*)
(* and the length it returns; the bytes before stay what the stack held.   *)
ASSUME ReportsAssumption ==
  \A r \in Reports : r.len \in Int /\ r.bytes \in [Offset -> Byte]

VARIABLES
  transducers,     \* shared: for each finger its state as the system sees it
  pc,              \* where each thread is, see Stage
  packet,          \* its report
  i,               \* the finger it is at
  contact_count,   \* event.contact_count
  value,           \* the argument of the update under way
  lone,            \* history: it has had the driver to itself so far
  before           \* history: the transducers when it started

locals  == <<packet, i, contact_count, value>>
history == <<lone, before>>
vars == <<transducers, pc, locals, history>>

(* data->max_x, data->max_y and the interface's logical_max_x and -_y.     *)
max_x == 3052
max_y == 1888
logical_max_y == max_y

Transducer ==
  [x : 0..max_x, y : 0..max_y,
   tip_switch : BOOLEAN, is_valid : BOOLEAN, physical_button : BOOLEAN]

(* The assignments to a transducer in reportAbsolute; of reportContact the *)
(* arguments and the stores of its three updates; the hand-over.           *)
Stage == {"idle", "getReport", "mark", "x", "putX", "y", "putY", "tip", "next", "send",
          "trackpoint"}

Active(t) == pc[t] # "idle"

TypeOK ==
  /\ transducers \in [Finger -> Transducer]
  /\ pc \in [Thread -> Stage]
  /\ packet \in [Thread -> [Offset -> Byte]]
  /\ i \in [Thread -> 0..ETP_MAX_FINGERS]
  /\ contact_count \in [Thread -> 0..ETP_MAX_FINGERS]
  /\ value \in [Thread -> Nat]
  /\ lone \in [Thread -> BOOLEAN]
  /\ before \in [Thread -> [Finger -> Transducer]]

Untouched ==
  [x |-> 0, y |-> 0, tip_switch |-> FALSE, is_valid |-> FALSE, physical_button |-> FALSE]

NoContacts == [f \in Finger |-> Untouched]
NoPacket   == [o \in Offset |-> 0]

Init ==
  /\ transducers = NoContacts
  /\ pc = [t \in Thread |-> "idle"]
  /\ packet = [t \in Thread |-> NoPacket]
  /\ i = [t \in Thread |-> 0]
  /\ contact_count = [t \in Thread |-> 0]
  /\ value = [t \in Thread |-> 0]
  /\ lone = [t \in Thread |-> FALSE]
  /\ before = [t \in Thread |-> NoContacts]

-----------------------------------------------------------------------------
(* The layout of a report *)

Bit(byte, n) == (byte \div 2^n) % 2 = 1

contact_valid(p, f) == Bit(p[ETP_TOUCH_INFO_OFFSET], 3 + f)

(* The k-th contact of a report, of twelve bits each way. *)
FingerData(k) == ETP_FINGER_DATA_OFFSET + ETP_FINGER_DATA_LEN * k

pos_x(p, d) == (p[d] \div 16) * 256 + p[d + 1]
pos_y(p, d) == (p[d] % 16) * 256 + p[d + 2]

OverMaxX(p, d) == pos_x(p, d) > max_x

OverMax(p, d) == pos_x(p, d) > max_x \/ pos_y(p, d) > max_y

-----------------------------------------------------------------------------
(* handleHostNotify *)

Move(t, from, to) == pc[t] = from /\ pc' = [pc EXCEPT ![t] = to]

(* The locals of a thread end with it; what they hold then is forgotten.   *)
Ends(t, from) ==
  /\ Move(t, from, "idle")
  /\ packet' = [packet EXCEPT ![t] = NoPacket]
  /\ i' = [i EXCEPT ![t] = 0]
  /\ contact_count' = [contact_count EXCEPT ![t] = 0]
  /\ value' = [value EXCEPT ![t] = 0]
  /\ lone' = [lone EXCEPT ![t] = FALSE]
  /\ before' = [before EXCEPT ![t] = NoContacts]
  /\ UNCHANGED transducers

(* A host notify starts a thread. *)
message(t) ==
  /\ Move(t, "idle", "getReport")
  /\ lone' = [s \in Thread |-> s = t /\ \A r \in Thread \ {t} : ~ Active(r)]
  /\ before' = [s \in Thread |-> NoContacts]
  /\ UNCHANGED <<transducers, locals>>

(* A report that cannot be read, or of the wrong length, is given up, and  *)
(* the filters may drop any other.                                         *)
getReport(t) ==
  \/ Ends(t, "getReport")
  \/ \E r \in Reports :
       /\ r.len = ETP_SMBUS_REPORT_LEN
       /\ LET id == r.bytes[ETP_REPORT_ID_OFFSET]
          IN \/ id = ETP_REPORT_ID /\ Move(t, "getReport", "mark")
             \/ id = ETP_TP_REPORT_ID /\ Move(t, "getReport", "trackpoint")
       /\ packet' = [packet EXCEPT ![t] = r.bytes]
       /\ i' = [i EXCEPT ![t] = 0]
       /\ contact_count' = [contact_count EXCEPT ![t] = 0]
       /\ before' = [before EXCEPT ![t] = IF lone[t] THEN transducers ELSE NoContacts]
       /\ UNCHANGED <<transducers, value, lone>>

-----------------------------------------------------------------------------
(* reportAbsolute and reportContact, for one finger after the other *)

InContact(t) == contact_valid(packet[t], i[t])
DataOfFinger(t) == FingerData(i[t])

(* finger_data and event.contact_count advance together. *)
finger_data(t) == FingerData(contact_count[t])

(* A contact over the maximum leaves the coordinates and the tip switch as *)
(* they are, is_valid and the count do not take note of it.                *)
MarkContact(t) ==
  /\ Move(t, "mark", IF InContact(t) /\ OverMax(packet[t], finger_data(t)) THEN "next" ELSE "x")
  /\ transducers' = [transducers EXCEPT
       ![i[t]].physical_button = Bit(packet[t][ETP_TOUCH_INFO_OFFSET], 0),
       ![i[t]].is_valid = InContact(t)]
  /\ UNCHANGED <<locals, history>>

(* The new coordinate, or of a finger that is not there the last one.      *)
TakeX(t) ==
  /\ Move(t, "x", "putX")
  /\ value' = [value EXCEPT ![t] =
       IF InContact(t) THEN pos_x(packet[t], finger_data(t)) ELSE transducers[i[t]].x]
  /\ UNCHANGED <<transducers, packet, i, contact_count, history>>

PutX(t) ==
  /\ Move(t, "putX", "y")
  /\ transducers' = [transducers EXCEPT ![i[t]].x = value[t]]
  /\ value' = [value EXCEPT ![t] = 0]
  /\ UNCHANGED <<packet, i, contact_count, history>>

(* The touchpad counts from the bottom, the system from the top. *)
TakeY(t) ==
  /\ Move(t, "y", "putY")
  /\ value' = [value EXCEPT ![t] =
       IF InContact(t) THEN logical_max_y - pos_y(packet[t], finger_data(t))
                       ELSE transducers[i[t]].y]
  /\ UNCHANGED <<transducers, packet, i, contact_count, history>>

PutY(t) ==
  /\ Move(t, "putY", "tip")
  /\ transducers' = [transducers EXCEPT ![i[t]].y = value[t]]
  /\ value' = [value EXCEPT ![t] = 0]
  /\ UNCHANGED <<packet, i, contact_count, history>>

TipStaysDown(t) ==
  /\ Move(t, "tip", "next")
  /\ transducers' = [transducers EXCEPT ![i[t]].tip_switch = @ \/ InContact(t)]
  /\ UNCHANGED <<locals, history>>

PutTip(t) ==
  /\ Move(t, "tip", "next")
  /\ transducers' = [transducers EXCEPT ![i[t]].tip_switch = InContact(t)]
  /\ UNCHANGED <<locals, history>>

NextFinger(t) ==
  /\ Move(t, "next", IF i[t] + 1 < ETP_MAX_FINGERS THEN "mark" ELSE "send")
  /\ i' = [i EXCEPT ![t] = @ + 1]
  /\ contact_count' = [contact_count EXCEPT ![t] = IF InContact(t) THEN @ + 1 ELSE @]
  /\ UNCHANGED <<transducers, packet, value, history>>

(* handleInterruptReport: the count and the shared transducers are handed  *)
(* over as they are now.                                                   *)
SendEvent(t) ==
  Ends(t, "send")

reportAbsolute(t) ==
  \/ MarkContact(t) \/ TakeX(t) \/ PutX(t) \/ TakeY(t) \/ PutY(t) \/ PutTip(t)
  \/ NextFinger(t) \/ SendEvent(t)

-----------------------------------------------------------------------------
(* reportTrackpoint *)

XorSign(byte) == (byte + 128) % 256      \* byte ^ 0x80

(* How the trackpoint was moved, which updateRelativePointer gets, or      *)
(* updateScrollwheel with both signs changed.                              *)
UnshiftedMovement(p) ==
  IF p[6] % 16 = 6 THEN <<p[7] - XorSign(p[4]), XorSign(p[5]) - p[8]>> ELSE <<0, 0>>

Movement(p) ==
  IF p[6] % 16 = 6 THEN <<p[7] - 2 * XorSign(p[4]), 2 * XorSign(p[5]) - p[8]>> ELSE <<0, 0>>

reportTrackpoint(t) ==
  Ends(t, "trackpoint")

Next == \E t \in Thread : message(t) \/ getReport(t) \/ reportAbsolute(t) \/ reportTrackpoint(t)

Spec == Init /\ [][Next]_vars

-----------------------------------------------------------------------------
(* Properties *)

(* The contacts of a report before finger f. *)
Contacts(p, f) == {g \in 0..f - 1 : contact_valid(p, g)}

(* Where its data is, if it is there: after that of the contacts before it.*)
DataAt(p, f) == FingerData(Cardinality(Contacts(p, f)))
IsOnPad(p, f) == contact_valid(p, f) /\ ~ OverMax(p, DataAt(p, f))

(* What a report means for finger f whose transducer was in state old: it  *)
(* is where its data says, or keeps where it was.                          *)
Decoded(p, f, old) ==
  [x |-> IF IsOnPad(p, f) THEN pos_x(p, DataAt(p, f)) ELSE old.x,
   y |-> IF IsOnPad(p, f) THEN logical_max_y - pos_y(p, DataAt(p, f)) ELSE old.y,
   tip_switch |-> IsOnPad(p, f) \/ (contact_valid(p, f) /\ old.tip_switch),
   is_valid |-> contact_valid(p, f),
   physical_button |-> Bit(p[ETP_TOUCH_INFO_OFFSET], 0)]

(* When a thread that had the driver to itself hands the transducers over, *)
(* they say what its report says of every finger, with as many contacts as *)
(* the count it hands over, whatever the threads before it, which may have *)
(* run into each other, have left in them.                                 *)
EventIsReport ==
  \A t \in Thread : pc[t] = "send" /\ lone[t] =>
    /\ \A f \in Finger : transducers[f] = Decoded(packet[t], f, before[t][f])
    /\ contact_count[t] = Cardinality({f \in Finger : transducers[f].is_valid})

(* However many threads write the transducers at once, no finger is ever   *)
(* off the pad: a position of 12 bits may be, and a subtraction may wrap.  *)
OnPad == \A f \in Finger : transducers[f].x \in 0..max_x /\ transducers[f].y \in 0..max_y

(* A movement comes as its low byte and, in the top bit of another, the    *)
(* complement of its sign: it is the signed number of nine bits these make *)
(* up, y counted downwards; whatever a report says it has ten bits, well   *)
(* within the shorts of the wheel.                                         *)
Signed(complement, low) == IF Bit(complement, 7) THEN low ELSE low - 256
TenBits == -511..511

MovementIsSigned ==
  \A t \in Thread : pc[t] = "trackpoint" =>
    LET p == packet[t]
        m == Movement(p)
    IN /\ m[1] \in TenBits /\ m[2] \in TenBits
       /\ p[6] % 16 = 6 /\ p[4] % 128 = 0 => m[1] = Signed(p[4], p[7])
       /\ p[6] % 16 = 6 /\ p[5] % 128 = 0 => m[2] = - Signed(p[5], p[8])

-----------------------------------------------------------------------------
(* The inductive invariant *)

(* A value about to be stored is on the pad. *)
ValueOnPad ==
  \A t \in Thread : /\ pc[t] = "putX" => value[t] \in 0..max_x
                    /\ pc[t] = "putY" => value[t] \in 0..max_y

Decoding(t) == pc[t] \in Stage \ {"idle", "getReport", "trackpoint"}

(* A thread that is not done is at one of its fingers. *)
AtFinger ==
  \A t \in Thread : Decoding(t) =>
    IF pc[t] = "send" THEN i[t] = ETP_MAX_FINGERS ELSE i[t] \in Finger

(* The contact is within the maximum once its coordinates are taken. *)
WithinMax ==
  \A t \in Thread : pc[t] \in {"x", "putX", "y", "putY", "tip"} =>
    ~ (InContact(t) /\ OverMax(packet[t], finger_data(t)))

Counted ==
  \A t \in Thread : Decoding(t) => contact_count[t] = Cardinality(Contacts(packet[t], i[t]))

Alone == \A s, t \in Thread : Active(s) /\ Active(t) /\ lone[t] => s = t

(* How much of a finger a lone thread has written: all of those before it, *)
(* none of those after it, and of the finger it is at what it got to.      *)
Written(t, f, field) ==
  \/ f < i[t]
  \/ f = i[t] /\ \/ pc[t] = "next"
                 \/ field = "mark" /\ pc[t] # "mark"
                 \/ field = "x" /\ pc[t] \in {"y", "putY", "tip"}
                 \/ field = "y" /\ pc[t] = "tip"

WrittenSoFar(t, f, now, old, new) ==
  /\ now.x = IF Written(t, f, "x") THEN new.x ELSE old.x
  /\ now.y = IF Written(t, f, "y") THEN new.y ELSE old.y
  /\ now.tip_switch = IF Written(t, f, "tip") THEN new.tip_switch ELSE old.tip_switch
  /\ now.is_valid = IF Written(t, f, "mark") THEN new.is_valid ELSE old.is_valid
  /\ now.physical_button =
       IF Written(t, f, "mark") THEN new.physical_button ELSE old.physical_button

LoneWrites ==
  \A t \in Thread : Decoding(t) /\ lone[t] => \A f \in Finger :
    WrittenSoFar(t, f, transducers[f], before[t][f], Decoded(packet[t], f, before[t][f]))

LoneValue ==
  \A t \in Thread : lone[t] =>
    /\ pc[t] = "putX" => value[t] = Decoded(packet[t], i[t], before[t][i[t]]).x
    /\ pc[t] = "putY" => value[t] = Decoded(packet[t], i[t], before[t][i[t]]).y

IInv ==
  /\ TypeOK
  /\ ValueOnPad /\ AtFinger /\ WithinMax /\ Counted /\ Alone /\ LoneWrites /\ LoneValue

=============================================================================
