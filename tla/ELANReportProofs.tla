-------------------------- MODULE ELANReportProofs --------------------------
(***************************************************************************)
(* Theorems about ELANReport, for any number of threads and any reports.   *)
(***************************************************************************)
EXTENDS ELANReport, FiniteSetTheorems, TLAPS

-----------------------------------------------------------------------------
(* The layout of a report *)

(* The data of a contact are bytes of the report. *)
LEMMA Layout ==
  ASSUME NEW k \in 0..5
  PROVE  FingerData(k) \in Offset /\ FingerData(k) + 1 \in Offset /\ FingerData(k) + 2 \in Offset
BY DEF FingerData, Offset, ETP_FINGER_DATA_OFFSET, ETP_FINGER_DATA_LEN,
  ETP_SMBUS_REPORT_OFFSET, ETP_SMBUS_REPORT_LEN

(* Twelve bits, and a position counted from the other end. *)
LEMMA TwelveBits == ASSUME NEW h \in 0..15, NEW l \in 0..255 PROVE h * 256 + l \in Nat
OBVIOUS

LEMMA Flip ==
  ASSUME NEW m \in Nat, NEW v \in Nat, v <= m PROVE v \in 0..m /\ m - v \in 0..m
OBVIOUS

(* A contact that is not over the maximum is on the pad, both ways up. *)
LEMMA Position ==
  ASSUME NEW p \in [Offset -> Byte], NEW k \in 0..5, ~ OverMax(p, FingerData(k))
  PROVE  /\ pos_x(p, FingerData(k)) \in 0..max_x
         /\ logical_max_y - pos_y(p, FingerData(k)) \in 0..max_y
<1> DEFINE d == FingerData(k)
<1>1. d \in Offset /\ d + 1 \in Offset /\ d + 2 \in Offset
  BY Layout
<1> HIDE DEF d
<1>2. p[d] \in 0..255 /\ p[d + 1] \in 0..255 /\ p[d + 2] \in 0..255
  BY <1>1 DEF Byte
<1>3. p[d] \div 16 \in 0..15 /\ p[d] % 16 \in 0..15
  BY <1>2
<1>4. pos_x(p, d) \in Nat /\ pos_y(p, d) \in Nat
  <2>1. pos_x(p, d) \in Nat
    BY <1>2, <1>3, TwelveBits, Zenon DEF pos_x
  <2>2. pos_y(p, d) \in Nat
    BY <1>2, <1>3, TwelveBits, Zenon DEF pos_y
  <2> QED BY <2>1, <2>2
<1>5. ~ OverMax(p, d)
  BY DEF d
<1>6. pos_x(p, d) <= max_x /\ pos_y(p, d) <= max_y
  BY <1>4, <1>5 DEF OverMax, max_x, max_y
<1>7. max_x \in Nat /\ max_y \in Nat /\ logical_max_y = max_y
  BY DEF logical_max_y, max_x, max_y
<1>8. pos_x(p, d) \in 0..max_x /\ logical_max_y - pos_y(p, d) \in 0..max_y
  BY <1>4, <1>6, <1>7, Flip
<1> QED BY <1>8 DEF d

(* There are at most as many contacts before a finger as fingers. *)
LEMMA ContactsBound ==
  ASSUME NEW p, NEW f \in 0..5
  PROVE  IsFiniteSet(Contacts(p, f)) /\ Cardinality(Contacts(p, f)) \in 0..f
<1>1. IsFiniteSet(0..f - 1) /\ Cardinality(0..f - 1) = f
  BY FS_Interval
<1>2. Contacts(p, f) \subseteq 0..f - 1
  BY DEF Contacts
<1>3. IsFiniteSet(Contacts(p, f)) /\ Cardinality(Contacts(p, f)) <= f
  BY <1>1, <1>2, FS_Subset
<1> QED BY <1>3, FS_CardinalityType

(* A contact moves the data of the fingers after it. *)
LEMMA NextContact ==
  ASSUME NEW p, NEW f \in 0..4
  PROVE  Cardinality(Contacts(p, f + 1)) =
           IF contact_valid(p, f) THEN Cardinality(Contacts(p, f)) + 1
                                  ELSE Cardinality(Contacts(p, f))
<1>1. Contacts(p, f + 1) = IF contact_valid(p, f) THEN Contacts(p, f) \cup {f} ELSE Contacts(p, f)
  BY DEF Contacts
<1>2. f \notin Contacts(p, f)
  BY DEF Contacts
<1>3. CASE contact_valid(p, f)
  BY <1>1, <1>2, <1>3, ContactsBound, FS_AddElement
<1>4. CASE ~ contact_valid(p, f)
  BY <1>1, <1>4
<1> QED BY <1>3, <1>4

(* There is no contact before the first finger. *)
LEMMA FirstContact == ASSUME NEW p PROVE Cardinality(Contacts(p, 0)) = 0
BY FS_EmptySet DEF Contacts

-----------------------------------------------------------------------------

(* What a thread starts and ends with. *)
LEMMA InitialTypes == NoContacts \in [Finger -> Transducer] /\ NoPacket \in [Offset -> Byte]
<1>1. Untouched \in Transducer
  BY DEF Untouched, Transducer, max_x, max_y
<1> QED BY <1>1 DEF NoContacts, NoPacket, Byte

(* The stores into a transducer. *)
LEMMA StoreX ==
  ASSUME NEW r \in Transducer, NEW x \in 0..max_x PROVE [r EXCEPT !.x = x] \in Transducer
BY DEF Transducer

LEMMA StoreY ==
  ASSUME NEW r \in Transducer, NEW y \in 0..max_y PROVE [r EXCEPT !.y = y] \in Transducer
BY DEF Transducer

LEMMA StoreTip ==
  ASSUME NEW r \in Transducer, NEW b \in BOOLEAN PROVE [r EXCEPT !.tip_switch = b] \in Transducer
BY DEF Transducer

LEMMA StoreMark ==
  ASSUME NEW r \in Transducer, NEW b \in BOOLEAN, NEW c \in BOOLEAN
  PROVE  [[r EXCEPT !.physical_button = b] EXCEPT !.is_valid = c] \in Transducer
BY DEF Transducer

(* The tests of a report give truth values. *)
LEMMA TestTypes ==
  ASSUME NEW p, NEW b, NEW n PROVE Bit(b, n) \in BOOLEAN /\ contact_valid(p, n) \in BOOLEAN
BY DEF Bit, contact_valid

(* Of a thread that decodes a finger, the contact its data is taken from.  *)
LEMMA AtContact ==
  ASSUME IInv, NEW t \in Thread, Decoding(t), pc[t] # "send"
  PROVE  /\ i[t] \in Finger /\ packet[t] \in [Offset -> Byte]
         /\ contact_count[t] \in 0..5
         /\ finger_data(t) = DataAt(packet[t], i[t])
         /\ InContact(t) = contact_valid(packet[t], i[t])
         /\ transducers[i[t]] \in Transducer
         /\ InContact(t) \in BOOLEAN
<1>1. i[t] \in Finger /\ packet[t] \in [Offset -> Byte] /\ contact_count[t] \in 0..5
  <2>1. t \in Thread /\ i[t] \in Finger
    BY DEF IInv, AtFinger
  <2>2. packet[t] \in [Offset -> Byte] /\ contact_count[t] \in 0..ETP_MAX_FINGERS
    BY DEF IInv, TypeOK
  <2> QED BY <2>1, <2>2, FingerAssumption
<1>2. contact_count[t] = Cardinality(Contacts(packet[t], i[t]))
  BY DEF IInv, Counted
<1>3. transducers[i[t]] \in Transducer
  BY <1>1 DEF IInv, TypeOK
<1> QED BY <1>1, <1>2, <1>3, TestTypes DEF finger_data, DataAt, InContact

(* No thread, and no finger seen yet. *)
LEMMA InitIInv == Init => IInv
<1> SUFFICES ASSUME Init PROVE IInv
  OBVIOUS
<1> USE FingerAssumption DEF Init
<1>2. TypeOK
  BY InitialTypes DEF TypeOK, Stage
<1>3. ValueOnPad /\ AtFinger /\ WithinMax /\ Counted /\ Alone
  BY DEF ValueOnPad, AtFinger, WithinMax, Counted, Decoding, Alone, Active
<1>4. LoneWrites /\ LoneValue
  BY DEF LoneWrites, LoneValue
<1> QED BY <1>2, <1>3, <1>4 DEF IInv

(* A host notify starts a thread. *)
LEMMA messageKeepsIInv ==
  ASSUME IInv, NEW t \in Thread, message(t) PROVE IInv'
<1> USE FingerAssumption DEF IInv
<1>1. TypeOK'
  <2>1. pc' \in [Thread -> Stage]
    BY DEF TypeOK, message, Move, Stage
  <2>2. lone' \in [Thread -> BOOLEAN]
    BY DEF TypeOK, message, Active
  <2>3. before' \in [Thread -> [Finger -> Transducer]]
    BY InitialTypes DEF message
  <2> QED BY <2>1, <2>2, <2>3 DEF TypeOK, message, locals
<1>2. ValueOnPad'
  BY DEF message, TypeOK, ValueOnPad, Move, Active, locals, Finger, Stage
<1>3. AtFinger'
  BY DEF message, TypeOK, AtFinger, Move, Active, locals, Finger, Stage, Decoding
<1>4. WithinMax'
  BY DEF message, TypeOK, WithinMax, Move, Active, locals, Finger, Stage, InContact,
    finger_data
<1>5. Counted'
  BY DEF message, TypeOK, Counted, Move, Active, locals, Finger, Stage, Decoding
<1>6. Alone'
  BY DEF message, TypeOK, Alone, Move, Active, locals, Finger, Stage
<1>7. LoneWrites'
  BY DEF message, TypeOK, LoneWrites, Move, Active, locals, Finger, Stage, Decoding,
    WrittenSoFar, Written
<1>8. LoneValue'
  BY DEF message, TypeOK, LoneValue, Move, Active, locals, Finger, Stage
<1> QED BY <1>1, <1>2, <1>3, <1>4, <1>5, <1>6, <1>7, <1>8 DEF IInv

(* A thread reads its report. *)
LEMMA getReportKeepsIInv ==
  ASSUME IInv, NEW t \in Thread, getReport(t) PROVE IInv'
<1> USE FingerAssumption DEF IInv
<1>1. TypeOK'
  <2>1. CASE Ends(t, "getReport")
    <3>1. pc' \in [Thread -> Stage]
      BY <2>1 DEF TypeOK, Ends, Move, Stage
    <3>2. packet' \in [Thread -> [Offset -> Byte]] /\ before' \in [Thread -> [Finger -> Transducer]]
      BY <2>1, InitialTypes DEF TypeOK, Ends
    <3>3. lone' \in [Thread -> BOOLEAN]
      BY <2>1 DEF TypeOK, Ends
    <3> QED BY <2>1, <3>1, <3>2, <3>3 DEF TypeOK, Ends
  <2>2. CASE ~ Ends(t, "getReport")
    <3>1. PICK r \in Reports : packet' = [packet EXCEPT ![t] = r.bytes]
      BY <2>2 DEF getReport
    <3>2. packet' \in [Thread -> [Offset -> Byte]]
      BY <3>1, ReportsAssumption DEF TypeOK
    <3>3. pc' \in [Thread -> Stage]
      BY <2>2 DEF TypeOK, getReport, Move, Stage
    <3>4. before' \in [Thread -> [Finger -> Transducer]]
      <4>1. (IF lone[t] THEN transducers ELSE NoContacts) \in [Finger -> Transducer]
        BY InitialTypes DEF TypeOK
      <4> QED BY <2>2, <4>1 DEF TypeOK, getReport
    <3>5. i' \in [Thread -> 0..ETP_MAX_FINGERS]
      BY <2>2 DEF TypeOK, getReport
    <3>6. contact_count' \in [Thread -> 0..ETP_MAX_FINGERS]
      BY <2>2 DEF TypeOK, getReport
    <3> QED BY <2>2, <3>2, <3>3, <3>4, <3>5, <3>6 DEF TypeOK, getReport
  <2> QED BY <2>1, <2>2
<1>2. ValueOnPad'
  BY DEF getReport, TypeOK, ValueOnPad, Ends, Move, Finger, Stage
<1>3. AtFinger'
  BY DEF getReport, TypeOK, ValueOnPad, AtFinger, WithinMax, Counted, Alone, LoneWrites,
    LoneValue, Ends, Move, Finger, Stage, Decoding, InContact, finger_data, Active,
    WrittenSoFar, Written
<1>4. WithinMax'
  <2>1. CASE Ends(t, "getReport")
    BY <2>1 DEF TypeOK, Ends, Move, WithinMax, InContact, finger_data
  <2>2. CASE ~ Ends(t, "getReport")
    BY <2>2 DEF getReport, TypeOK, Move, WithinMax, InContact, finger_data
  <2> QED BY <2>1, <2>2
<1>5. Counted'
  <2>1. ASSUME NEW s \in Thread, s # t, Decoding(s)'
        PROVE  contact_count'[s] = Cardinality(Contacts(packet'[s], i'[s]))
    BY <2>1 DEF TypeOK, getReport, Ends, Move, Counted, Decoding
  <2>2. ASSUME Decoding(t)' PROVE contact_count'[t] = 0 /\ i'[t] = 0
    BY <2>2 DEF TypeOK, getReport, Ends, Move, Decoding
  <2> QED BY <2>1, <2>2, FirstContact DEF Counted
<1>6. Alone'
  <2>1. CASE Ends(t, "getReport")
    BY <2>1 DEF TypeOK, Ends, Move, Alone, Active
  <2>2. CASE ~ Ends(t, "getReport")
    <3>1. /\ pc[t] = "getReport" /\ lone' = lone
          /\ \A s \in Thread : s # t => pc'[s] = pc[s]
      BY <2>2 DEF getReport, TypeOK, Move
    <3> QED BY <3>1 DEF Alone, Active
  <2> QED BY <2>1, <2>2
<1>7. LoneWrites'
  <2> SUFFICES ASSUME NEW s \in Thread, Decoding(s)', lone'[s], NEW f \in Finger
               PROVE  WrittenSoFar(s, f, transducers[f], before[s][f],
                                   Decoded(packet[s], f, before[s][f]))'
    BY DEF LoneWrites
  <2>1. CASE s # t
    BY <2>1 DEF TypeOK, getReport, Ends, Move, Decoding, LoneWrites, WrittenSoFar, Written
  <2>2. CASE s = t
    <3>1. pc'[t] = "mark" /\ i'[t] = 0 /\ before'[t] = transducers /\ transducers' = transducers
      BY <2>2 DEF TypeOK, getReport, Ends, Move, Decoding, Stage
    <3>2. ~ (f < i'[t])
      BY <3>1 DEF Finger
    <3> QED BY <2>2, <3>1, <3>2 DEF WrittenSoFar, Written
  <2> QED BY <2>1, <2>2
<1>8. LoneValue'
  <2>1. CASE Ends(t, "getReport")
    BY <2>1 DEF TypeOK, Ends, Move, LoneValue
  <2>2. CASE ~ Ends(t, "getReport")
    <3>1. pc'[t] \in {"mark", "trackpoint"} /\ lone' = lone /\ value' = value
      BY <2>2 DEF getReport, TypeOK, Move
    <3>2. ASSUME NEW s \in Thread, s # t
          PROVE  /\ pc'[s] = pc[s] /\ packet'[s] = packet[s] /\ i'[s] = i[s]
                 /\ before'[s] = before[s]
      BY <2>2, <3>2 DEF getReport, TypeOK, Move
    <3> QED BY <3>1, <3>2 DEF LoneValue
  <2> QED BY <2>1, <2>2
<1> QED BY <1>1, <1>2, <1>3, <1>4, <1>5, <1>6, <1>7, <1>8 DEF IInv

(* A finger is marked as there or not. *)
LEMMA MarkContactKeepsIInv ==
  ASSUME IInv, NEW t \in Thread, MarkContact(t) PROVE IInv'
<1> USE FingerAssumption DEF IInv
<1>1. TypeOK'
  <2>1. i[t] \in Finger /\ Bit(packet[t][ETP_TOUCH_INFO_OFFSET], 0) \in BOOLEAN /\ InContact(t) \in BOOLEAN
    BY TestTypes DEF TypeOK, MarkContact, Move, AtFinger, Decoding, Stage, InContact
  <2>2. transducers' \in [Finger -> Transducer]
    <3>1. [[transducers[i[t]] EXCEPT !.physical_button = Bit(packet[t][ETP_TOUCH_INFO_OFFSET], 0)]
             EXCEPT !.is_valid = InContact(t)] \in Transducer
      BY <2>1, StoreMark DEF TypeOK
    <3> QED BY <2>1, <3>1 DEF TypeOK, MarkContact
  <2>3. pc' \in [Thread -> Stage]
    BY DEF TypeOK, MarkContact, Move, Stage
  <2> QED BY <2>2, <2>3 DEF TypeOK, MarkContact, locals, history
<1>2. ValueOnPad'
  BY DEF MarkContact, TypeOK, ValueOnPad, Move, InContact, finger_data, locals, history,
    Finger, Stage
<1>3. AtFinger'
  BY DEF MarkContact, TypeOK, AtFinger, Move, InContact, finger_data, locals, history,
    Finger, Stage, Decoding
<1>4. WithinMax'
  BY DEF MarkContact, TypeOK, WithinMax, Move, InContact, finger_data, locals, history,
    Finger, Stage
<1>5. Counted'
  BY DEF MarkContact, TypeOK, Counted, Move, InContact, finger_data, locals, history,
    Finger, Stage, Decoding
<1>6. Alone'
  BY DEF MarkContact, TypeOK, Alone, Move, InContact, finger_data, locals, history, Finger,
    Stage, Active
<1>7. LoneWrites'
  <2> SUFFICES ASSUME NEW s \in Thread, Decoding(s)', lone'[s], NEW f \in Finger
               PROVE  WrittenSoFar(s, f, transducers[f], before[s][f],
                                   Decoded(packet[s], f, before[s][f]))'
    BY DEF LoneWrites
  <2> DEFINE new == Decoded(packet[t], f, before[t][f])
  <2>1. s = t /\ lone[t] /\ i[t] \in Finger
    BY AtContact DEF TypeOK, MarkContact, Move, history, Alone, Active, Decoding, Stage
  <2>2. /\ WrittenSoFar(t, f, transducers[f], before[t][f], new)
        /\ transducers[f] \in Transducer /\ f \in Nat /\ i[t] \in Nat
    <3>1. Decoding(t)
      BY DEF MarkContact, Move, Decoding, Stage
    <3>2. WrittenSoFar(t, f, transducers[f], before[t][f], new)
      BY <2>1, <3>1 DEF LoneWrites
    <3> QED BY <2>1, <3>2 DEF TypeOK, Finger
  <2>3. i' = i /\ packet' = packet /\ before' = before
    BY DEF MarkContact, locals, history
  <2> SUFFICES WrittenSoFar(t, f, transducers[f], before[t][f], new)'
    BY <2>1
  <2>4. CASE f # i[t]
    <3>1. transducers'[f] = transducers[f]
      BY <2>4 DEF TypeOK, MarkContact
    <3> QED BY <2>2, <2>3, <2>4, <3>1 DEF WrittenSoFar, Written
  <2>5. CASE f = i[t]
    <3> DEFINE button == Bit(packet[t][ETP_TOUCH_INFO_OFFSET], 0)
    <3>1. /\ transducers'[f].x = transducers[f].x /\ transducers'[f].y = transducers[f].y
          /\ transducers'[f].tip_switch = transducers[f].tip_switch
          /\ transducers'[f].is_valid = InContact(t)
          /\ transducers'[f].physical_button = button
      BY <2>2, <2>5 DEF TypeOK, MarkContact, Transducer
    <3>2. /\ transducers[f].x = before[t][f].x /\ transducers[f].y = before[t][f].y
          /\ transducers[f].tip_switch = before[t][f].tip_switch
      BY <2>2, <2>5 DEF MarkContact, Move, WrittenSoFar, Written
    <3>3. new.is_valid = InContact(t) /\ new.physical_button = button
      BY <2>5, AtContact DEF MarkContact, Move, Decoding, Stage, Decoded
    <3>4. InContact(t) /\ OverMax(packet[t], finger_data(t)) =>
            /\ new.x = before[t][f].x /\ new.y = before[t][f].y
            /\ new.tip_switch = before[t][f].tip_switch
      BY <2>2, <2>5, <3>2, AtContact DEF MarkContact, Move, Decoding, Stage, Decoded, IsOnPad, Transducer
    <3>5. pc'[t] = IF InContact(t) /\ OverMax(packet[t], finger_data(t)) THEN "next" ELSE "x"
      BY DEF TypeOK, MarkContact, Move
    <3> HIDE DEF new, button
    <3>6. CASE pc'[t] = "next"
      BY <2>2, <2>3, <2>5, <3>1, <3>2, <3>3, <3>4, <3>5, <3>6 DEF WrittenSoFar, Written, new
    <3>7. CASE pc'[t] = "x"
      BY <2>2, <2>3, <2>5, <3>1, <3>2, <3>3, <3>5, <3>7 DEF WrittenSoFar, Written, new
    <3> QED BY <3>5, <3>6, <3>7
  <2> QED BY <2>4, <2>5
<1>8. LoneValue'
  BY DEF MarkContact, TypeOK, LoneValue, Move, InContact, finger_data, locals, history,
    Finger, Stage
<1> QED BY <1>1, <1>2, <1>3, <1>4, <1>5, <1>6, <1>7, <1>8 DEF IInv

(* The x coordinate is taken. *)
LEMMA TakeXKeepsIInv ==
  ASSUME IInv, NEW t \in Thread, TakeX(t) PROVE IInv'
<1> USE FingerAssumption DEF IInv
<1>1. TypeOK'
  <2>1. i[t] \in Finger /\ transducers[i[t]].x \in 0..max_x
    BY AtContact DEF TakeX, Move, Decoding, Stage, Transducer
  <2>2. InContact(t) => ~ OverMax(packet[t], finger_data(t))
    BY DEF TakeX, Move, WithinMax
  <2>3. InContact(t) => pos_x(packet[t], finger_data(t)) \in 0..max_x
    BY <2>2, AtContact, Position DEF TakeX, Move, Decoding, Stage, finger_data
  <2>4. value'[t] \in 0..max_x
    BY <2>1, <2>3 DEF TypeOK, TakeX
  <2>5. 0..max_x \subseteq Nat
    BY DEF max_x
  <2>6. value' \in [Thread -> Nat]
    BY <2>4, <2>5 DEF TypeOK, TakeX
  <2>7. pc' \in [Thread -> Stage]
    BY DEF TypeOK, TakeX, Move, Stage
  <2> QED BY <2>6, <2>7 DEF TypeOK, TakeX, history
<1>2. ValueOnPad'
  <2>1. i[t] \in Finger /\ transducers[i[t]].x \in 0..max_x
    BY AtContact DEF TakeX, Move, Decoding, Stage, Transducer
  <2>2. InContact(t) => ~ OverMax(packet[t], finger_data(t))
    BY DEF TakeX, Move, WithinMax
  <2>3. InContact(t) => pos_x(packet[t], finger_data(t)) \in 0..max_x
    BY <2>2, AtContact, Position DEF TakeX, Move, Decoding, Stage, finger_data
  <2>4. value'[t] \in 0..max_x
    BY <2>1, <2>3 DEF TypeOK, TakeX
  <2> QED BY <2>4 DEF TypeOK, ValueOnPad, TakeX, Move
<1>3. AtFinger'
  BY DEF TakeX, TypeOK, AtFinger, Move, InContact, finger_data, history, Finger, Stage,
    Decoding
<1>4. WithinMax'
  BY DEF TakeX, TypeOK, WithinMax, Move, InContact, finger_data, history, Finger, Stage
<1>5. Counted'
  BY DEF TakeX, TypeOK, Counted, Move, InContact, finger_data, history, Finger, Stage,
    Decoding
<1>6. Alone'
  BY DEF TakeX, TypeOK, Alone, Move, InContact, finger_data, history, Finger, Stage, Active
<1>7. LoneWrites'
  BY DEF TakeX, TypeOK, LoneWrites, Move, InContact, finger_data, history, Finger, Stage,
    Decoding, WrittenSoFar, Written
<1>8. LoneValue'
  <2>1. ASSUME lone[t] PROVE value'[t] = Decoded(packet[t], i[t], before[t][i[t]]).x
    <3> USE <2>1
    <3>1. i[t] \in Finger /\ (InContact(t) <=> IsOnPad(packet[t], i[t]))
      BY AtContact DEF TakeX, Move, Decoding, Stage, IsOnPad, WithinMax
    <3>2. transducers[i[t]].x = before[t][i[t]].x
      BY <3>1 DEF TakeX, Move, Decoding, Stage, LoneWrites, WrittenSoFar, Written, Finger
    <3>3. value'[t] = IF InContact(t) THEN pos_x(packet[t], finger_data(t)) ELSE transducers[i[t]].x
      BY DEF TypeOK, TakeX
    <3>4. finger_data(t) = DataAt(packet[t], i[t])
      BY AtContact DEF TakeX, Move, Decoding, Stage
    <3> QED BY <3>1, <3>2, <3>3, <3>4 DEF Decoded
  <2> QED BY <2>1 DEF TypeOK, TakeX, Move, history, LoneValue
<1> QED BY <1>1, <1>2, <1>3, <1>4, <1>5, <1>6, <1>7, <1>8 DEF IInv

(* It is stored. *)
LEMMA PutXKeepsIInv ==
  ASSUME IInv, NEW t \in Thread, PutX(t) PROVE IInv'
<1> USE FingerAssumption DEF IInv
<1>1. TypeOK'
  <2>1. i[t] \in Finger /\ value[t] \in 0..max_x
    BY DEF TypeOK, PutX, Move, AtFinger, Decoding, Stage, ValueOnPad
  <2>2. transducers' \in [Finger -> Transducer]
    <3>1. [transducers[i[t]] EXCEPT !.x = value[t]] \in Transducer
      BY <2>1, StoreX DEF TypeOK
    <3> QED BY <2>1, <3>1 DEF TypeOK, PutX
  <2>3. pc' \in [Thread -> Stage]
    BY DEF TypeOK, PutX, Move, Stage
  <2> QED BY <2>2, <2>3 DEF TypeOK, PutX, history
<1>2. ValueOnPad'
  BY DEF PutX, TypeOK, ValueOnPad, Move, history, Finger, Stage
<1>3. AtFinger'
  BY DEF PutX, TypeOK, AtFinger, Move, history, Finger, Stage, Decoding
<1>4. WithinMax'
  BY DEF PutX, TypeOK, WithinMax, Move, history, Finger, Stage, InContact, finger_data
<1>5. Counted'
  BY DEF PutX, TypeOK, Counted, Move, history, Finger, Stage, Decoding
<1>6. Alone'
  BY DEF PutX, TypeOK, Alone, Move, history, Finger, Stage, Active
<1>7. LoneWrites'
  BY DEF PutX, TypeOK, ValueOnPad, AtFinger, WithinMax, Counted, Alone, LoneWrites,
    LoneValue, Move, history, Finger, Stage, Decoding, InContact, finger_data, Active,
    WrittenSoFar, Written
<1>8. LoneValue'
  BY DEF PutX, TypeOK, LoneValue, Move, history, Finger, Stage
<1> QED BY <1>1, <1>2, <1>3, <1>4, <1>5, <1>6, <1>7, <1>8 DEF IInv

(* The y coordinate is taken. *)
LEMMA TakeYKeepsIInv ==
  ASSUME IInv, NEW t \in Thread, TakeY(t) PROVE IInv'
<1> USE FingerAssumption DEF IInv
<1>1. TypeOK'
  <2>1. i[t] \in Finger /\ transducers[i[t]].y \in 0..max_y
    BY AtContact DEF TakeY, Move, Decoding, Stage, Transducer
  <2>2. InContact(t) => ~ OverMax(packet[t], finger_data(t))
    BY DEF TakeY, Move, WithinMax
  <2>3. InContact(t) => logical_max_y - pos_y(packet[t], finger_data(t)) \in 0..max_y
    BY <2>2, AtContact, Position DEF TakeY, Move, Decoding, Stage, finger_data
  <2>4. value'[t] \in 0..max_y
    BY <2>1, <2>3 DEF TypeOK, TakeY
  <2>5. 0..max_y \subseteq Nat
    BY DEF max_y
  <2>6. value' \in [Thread -> Nat]
    BY <2>4, <2>5 DEF TypeOK, TakeY
  <2>7. pc' \in [Thread -> Stage]
    BY DEF TypeOK, TakeY, Move, Stage
  <2> QED BY <2>6, <2>7 DEF TypeOK, TakeY, history
<1>2. ValueOnPad'
  <2>1. i[t] \in Finger /\ transducers[i[t]].y \in 0..max_y
    BY AtContact DEF TakeY, Move, Decoding, Stage, Transducer
  <2>2. InContact(t) => ~ OverMax(packet[t], finger_data(t))
    BY DEF TakeY, Move, WithinMax
  <2>3. InContact(t) => logical_max_y - pos_y(packet[t], finger_data(t)) \in 0..max_y
    BY <2>2, AtContact, Position DEF TakeY, Move, Decoding, Stage, finger_data
  <2>4. value'[t] \in 0..max_y
    BY <2>1, <2>3 DEF TypeOK, TakeY
  <2> QED BY <2>4 DEF TypeOK, ValueOnPad, TakeY, Move
<1>3. AtFinger'
  BY DEF TakeY, TypeOK, AtFinger, Move, InContact, finger_data, history, Finger, Stage,
    Decoding
<1>4. WithinMax'
  BY DEF TakeY, TypeOK, WithinMax, Move, InContact, finger_data, history, Finger, Stage
<1>5. Counted'
  BY DEF TakeY, TypeOK, Counted, Move, InContact, finger_data, history, Finger, Stage,
    Decoding
<1>6. Alone'
  BY DEF TakeY, TypeOK, Alone, Move, InContact, finger_data, history, Finger, Stage, Active
<1>7. LoneWrites'
  BY DEF TakeY, TypeOK, LoneWrites, Move, InContact, finger_data, history, Finger, Stage,
    Decoding, WrittenSoFar, Written
<1>8. LoneValue'
  <2>1. ASSUME lone[t] PROVE value'[t] = Decoded(packet[t], i[t], before[t][i[t]]).y
    <3> USE <2>1
    <3>1. i[t] \in Finger /\ (InContact(t) <=> IsOnPad(packet[t], i[t]))
      BY AtContact DEF TakeY, Move, Decoding, Stage, IsOnPad, WithinMax
    <3>2. transducers[i[t]].y = before[t][i[t]].y
      BY <3>1 DEF TakeY, Move, Decoding, Stage, LoneWrites, WrittenSoFar, Written, Finger
    <3>3. value'[t] = IF InContact(t) THEN logical_max_y - pos_y(packet[t], finger_data(t)) ELSE transducers[i[t]].y
      BY DEF TypeOK, TakeY
    <3>4. finger_data(t) = DataAt(packet[t], i[t])
      BY AtContact DEF TakeY, Move, Decoding, Stage
    <3> QED BY <3>1, <3>2, <3>3, <3>4 DEF Decoded
  <2> QED BY <2>1 DEF TypeOK, TakeY, Move, history, LoneValue
<1> QED BY <1>1, <1>2, <1>3, <1>4, <1>5, <1>6, <1>7, <1>8 DEF IInv

(* It is stored. *)
LEMMA PutYKeepsIInv ==
  ASSUME IInv, NEW t \in Thread, PutY(t) PROVE IInv'
<1> USE FingerAssumption DEF IInv
<1>1. TypeOK'
  <2>1. i[t] \in Finger /\ value[t] \in 0..max_y
    BY DEF TypeOK, PutY, Move, AtFinger, Decoding, Stage, ValueOnPad
  <2>2. transducers' \in [Finger -> Transducer]
    <3>1. [transducers[i[t]] EXCEPT !.y = value[t]] \in Transducer
      BY <2>1, StoreY DEF TypeOK
    <3> QED BY <2>1, <3>1 DEF TypeOK, PutY
  <2>3. pc' \in [Thread -> Stage]
    BY DEF TypeOK, PutY, Move, Stage
  <2> QED BY <2>2, <2>3 DEF TypeOK, PutY, history
<1>2. ValueOnPad'
  BY DEF PutY, TypeOK, ValueOnPad, Move, history, Finger, Stage
<1>3. AtFinger'
  BY DEF PutY, TypeOK, AtFinger, Move, history, Finger, Stage, Decoding
<1>4. WithinMax'
  BY DEF PutY, TypeOK, WithinMax, Move, history, Finger, Stage, InContact, finger_data
<1>5. Counted'
  BY DEF PutY, TypeOK, Counted, Move, history, Finger, Stage, Decoding
<1>6. Alone'
  BY DEF PutY, TypeOK, Alone, Move, history, Finger, Stage, Active
<1>7. LoneWrites'
  BY DEF PutY, TypeOK, ValueOnPad, AtFinger, WithinMax, Counted, Alone, LoneWrites,
    LoneValue, Move, history, Finger, Stage, Decoding, InContact, finger_data, Active,
    WrittenSoFar, Written
<1>8. LoneValue'
  BY DEF PutY, TypeOK, LoneValue, Move, history, Finger, Stage
<1> QED BY <1>1, <1>2, <1>3, <1>4, <1>5, <1>6, <1>7, <1>8 DEF IInv

(* The tip switch is stored. *)
LEMMA PutTipKeepsIInv ==
  ASSUME IInv, NEW t \in Thread, PutTip(t) PROVE IInv'
<1> USE FingerAssumption DEF IInv
<1>1. TypeOK'
  <2>1. i[t] \in Finger /\ InContact(t) \in BOOLEAN
    BY TestTypes DEF TypeOK, PutTip, Move, AtFinger, Decoding, Stage, InContact
  <2>2. transducers' \in [Finger -> Transducer]
    <3>1. [transducers[i[t]] EXCEPT !.tip_switch = InContact(t)] \in Transducer
      BY <2>1, StoreTip DEF TypeOK
    <3> QED BY <2>1, <3>1 DEF TypeOK, PutTip
  <2>3. pc' \in [Thread -> Stage]
    BY DEF TypeOK, PutTip, Move, Stage
  <2> QED BY <2>2, <2>3 DEF TypeOK, PutTip, locals, history
<1>2. ValueOnPad'
  BY DEF PutTip, TypeOK, ValueOnPad, Move, InContact, locals, history, Finger, Stage
<1>3. AtFinger'
  BY DEF PutTip, TypeOK, AtFinger, Move, InContact, locals, history, Finger, Stage, Decoding
<1>4. WithinMax'
  BY DEF PutTip, TypeOK, WithinMax, Move, InContact, locals, history, Finger, Stage,
    finger_data
<1>5. Counted'
  BY DEF PutTip, TypeOK, Counted, Move, InContact, locals, history, Finger, Stage, Decoding
<1>6. Alone'
  BY DEF PutTip, TypeOK, Alone, Move, InContact, locals, history, Finger, Stage, Active
<1>7. LoneWrites'
  <2> SUFFICES ASSUME NEW s \in Thread, Decoding(s)', lone'[s], NEW f \in Finger
               PROVE  WrittenSoFar(s, f, transducers[f], before[s][f],
                                   Decoded(packet[s], f, before[s][f]))'
    BY DEF LoneWrites
  <2> DEFINE new == Decoded(packet[t], f, before[t][f])
  <2>1. s = t /\ lone[t] /\ i[t] \in Finger
    BY AtContact DEF TypeOK, PutTip, Move, history, Alone, Active, Decoding, Stage
  <2>2. /\ WrittenSoFar(t, f, transducers[f], before[t][f], new)
        /\ transducers[f] \in Transducer /\ f \in Nat /\ i[t] \in Nat
    <3>1. Decoding(t)
      BY DEF PutTip, Move, Decoding, Stage
    <3>2. WrittenSoFar(t, f, transducers[f], before[t][f], new)
      BY <2>1, <3>1 DEF LoneWrites
    <3> QED BY <2>1, <3>2 DEF TypeOK, Finger
  <2>3. i' = i /\ packet' = packet /\ before' = before
    BY DEF PutTip, locals, history
  <2> SUFFICES WrittenSoFar(t, f, transducers[f], before[t][f], new)'
    BY <2>1
  <2>4. CASE f # i[t]
    <3>1. transducers'[f] = transducers[f]
      BY <2>4 DEF TypeOK, PutTip
    <3> QED BY <2>2, <2>3, <2>4, <3>1 DEF WrittenSoFar, Written
  <2>5. CASE f = i[t]
    <3>1. /\ transducers'[f].x = transducers[f].x /\ transducers'[f].y = transducers[f].y
          /\ transducers'[f].tip_switch = InContact(t)
          /\ transducers'[f].is_valid = transducers[f].is_valid
          /\ transducers'[f].physical_button = transducers[f].physical_button
      BY <2>2, <2>5 DEF TypeOK, PutTip, Transducer
    <3>2. /\ transducers[f].x = new.x /\ transducers[f].y = new.y
          /\ transducers[f].is_valid = new.is_valid
          /\ transducers[f].physical_button = new.physical_button
      BY <2>2, <2>5 DEF PutTip, Move, WrittenSoFar, Written
    <3>3. new.tip_switch = InContact(t)
      BY <2>5, AtContact DEF PutTip, Move, Decoding, Stage, Decoded, IsOnPad, WithinMax
    <3>4. pc'[t] = "next"
      BY DEF TypeOK, PutTip, Move
    <3> HIDE DEF new
    <3> QED BY <2>3, <2>5, <3>1, <3>2, <3>3, <3>4 DEF WrittenSoFar, Written, new
  <2> QED BY <2>4, <2>5
<1>8. LoneValue'
  BY DEF PutTip, TypeOK, LoneValue, Move, InContact, locals, history, Finger, Stage
<1> QED BY <1>1, <1>2, <1>3, <1>4, <1>5, <1>6, <1>7, <1>8 DEF IInv

(* The next finger is looked at. *)
LEMMA NextFingerKeepsIInv ==
  ASSUME IInv, NEW t \in Thread, NextFinger(t) PROVE IInv'
<1> USE FingerAssumption DEF IInv
<1>1. TypeOK'
  <2>1. i[t] \in 0..4 /\ i[t] \in Finger
    BY AtContact DEF NextFinger, Move, Decoding, Stage, Finger
  <2>2. contact_count[t] = Cardinality(Contacts(packet[t], i[t]))
    BY DEF TypeOK, NextFinger, Move, Counted, Decoding, Stage
  <2>3. i'[t] = i[t] + 1 /\ contact_count'[t] = Cardinality(Contacts(packet[t], i[t] + 1))
    BY <2>1, <2>2, NextContact DEF TypeOK, NextFinger, InContact
  <2>4. contact_count'[t] \in 0..i[t] + 1
    BY <2>1, <2>3, ContactsBound
  <2>5. contact_count' \in [Thread -> 0..ETP_MAX_FINGERS] /\ i' \in [Thread -> 0..ETP_MAX_FINGERS]
    BY <2>1, <2>4 DEF TypeOK, NextFinger, Finger
  <2>6. pc' \in [Thread -> Stage]
    BY DEF TypeOK, NextFinger, Move, Stage
  <2> QED BY <2>5, <2>6 DEF TypeOK, NextFinger, history
<1>2. ValueOnPad'
  BY DEF NextFinger, TypeOK, ValueOnPad, Move, InContact, history, Finger, Stage
<1>3. AtFinger'
  BY DEF NextFinger, TypeOK, AtFinger, Move, InContact, history, Finger, Stage, Decoding
<1>4. WithinMax'
  BY DEF NextFinger, TypeOK, WithinMax, Move, InContact, history, Finger, Stage, finger_data
<1>5. Counted'
  <2>1. i[t] \in 0..4 /\ i[t] \in Finger
    BY AtContact DEF NextFinger, Move, Decoding, Stage, Finger
  <2>2. contact_count[t] = Cardinality(Contacts(packet[t], i[t]))
    BY DEF TypeOK, NextFinger, Move, Counted, Decoding, Stage
  <2>3. i'[t] = i[t] + 1 /\ contact_count'[t] = Cardinality(Contacts(packet[t], i[t] + 1))
    BY <2>1, <2>2, NextContact DEF TypeOK, NextFinger, InContact
  <2> QED BY <2>3 DEF TypeOK, NextFinger, Move, Counted, Decoding, Stage
<1>6. Alone'
  BY DEF NextFinger, TypeOK, Alone, Move, InContact, history, Finger, Stage, Active
<1>7. LoneWrites'
  BY DEF NextFinger, TypeOK, LoneWrites, Move, InContact, history, Finger, Stage, Decoding,
    WrittenSoFar, Written
<1>8. LoneValue'
  BY DEF NextFinger, TypeOK, LoneValue, Move, InContact, history, Finger, Stage
<1> QED BY <1>1, <1>2, <1>3, <1>4, <1>5, <1>6, <1>7, <1>8 DEF IInv

(* The event is handed over. *)
LEMMA SendEventKeepsIInv ==
  ASSUME IInv, NEW t \in Thread, SendEvent(t) PROVE IInv'
<1> USE FingerAssumption DEF IInv
<1>1. TypeOK'
  <2>1. pc' \in [Thread -> Stage]
    BY DEF TypeOK, SendEvent, Ends, Move, Stage
  <2>2. packet' \in [Thread -> [Offset -> Byte]]
    BY InitialTypes DEF TypeOK, SendEvent, Ends
  <2>3. lone' \in [Thread -> BOOLEAN]
    BY DEF TypeOK, SendEvent, Ends
  <2>4. before' \in [Thread -> [Finger -> Transducer]]
    BY InitialTypes DEF TypeOK, SendEvent, Ends
  <2> QED BY <2>1, <2>2, <2>3, <2>4 DEF TypeOK, SendEvent, Ends
<1>2. ValueOnPad'
  BY DEF SendEvent, TypeOK, ValueOnPad, Ends, Finger, Stage, Move
<1>3. AtFinger'
  BY DEF SendEvent, TypeOK, AtFinger, Ends, Finger, Stage, Decoding, Move
<1>4. WithinMax'
  BY DEF SendEvent, TypeOK, WithinMax, Ends, Finger, Stage, InContact, finger_data, Move
<1>5. Counted'
  BY DEF SendEvent, TypeOK, Counted, Ends, Finger, Stage, Decoding, Move
<1>6. Alone'
  BY DEF SendEvent, TypeOK, Alone, Ends, Finger, Stage, Active, Move
<1>7. LoneWrites'
  BY DEF SendEvent, TypeOK, LoneWrites, Ends, Finger, Stage, Decoding, WrittenSoFar, Move,
    Written
<1>8. LoneValue'
  BY DEF SendEvent, TypeOK, LoneValue, Ends, Finger, Stage, Move
<1> QED BY <1>1, <1>2, <1>3, <1>4, <1>5, <1>6, <1>7, <1>8 DEF IInv

(* A movement is reported. *)
LEMMA reportTrackpointKeepsIInv ==
  ASSUME IInv, NEW t \in Thread, reportTrackpoint(t) PROVE IInv'
<1> USE FingerAssumption DEF IInv
<1>1. TypeOK'
  <2>1. pc' \in [Thread -> Stage]
    BY DEF TypeOK, reportTrackpoint, Ends, Move, Stage
  <2>2. packet' \in [Thread -> [Offset -> Byte]]
    BY InitialTypes DEF TypeOK, reportTrackpoint, Ends
  <2>3. lone' \in [Thread -> BOOLEAN]
    BY DEF TypeOK, reportTrackpoint, Ends
  <2>4. before' \in [Thread -> [Finger -> Transducer]]
    BY InitialTypes DEF TypeOK, reportTrackpoint, Ends
  <2> QED BY <2>1, <2>2, <2>3, <2>4 DEF TypeOK, reportTrackpoint, Ends
<1>2. ValueOnPad'
  BY DEF reportTrackpoint, TypeOK, ValueOnPad, Ends, Finger, Stage, Move
<1>3. AtFinger'
  BY DEF reportTrackpoint, TypeOK, AtFinger, Ends, Finger, Stage, Decoding, Move
<1>4. WithinMax'
  BY DEF reportTrackpoint, TypeOK, WithinMax, Ends, Finger, Stage, InContact, finger_data,
    Move
<1>5. Counted'
  BY DEF reportTrackpoint, TypeOK, Counted, Ends, Finger, Stage, Decoding, Move
<1>6. Alone'
  BY DEF reportTrackpoint, TypeOK, Alone, Ends, Finger, Stage, Active, Move
<1>7. LoneWrites'
  BY DEF reportTrackpoint, TypeOK, LoneWrites, Ends, Finger, Stage, Decoding, WrittenSoFar,
    Move, Written
<1>8. LoneValue'
  BY DEF reportTrackpoint, TypeOK, LoneValue, Ends, Finger, Stage, Move
<1> QED BY <1>1, <1>2, <1>3, <1>4, <1>5, <1>6, <1>7, <1>8 DEF IInv

(* Nothing changes. *)
LEMMA StutterKeepsIInv == ASSUME IInv, UNCHANGED vars PROVE IInv'
<1> USE DEF IInv, vars, locals, history
<1>1. TypeOK' /\ ValueOnPad' /\ Alone'
  BY DEF TypeOK, ValueOnPad, Alone, Active
<1>2. AtFinger' /\ WithinMax' /\ Counted'
  BY DEF AtFinger, WithinMax, Counted, Decoding, InContact, finger_data
<1>3. LoneWrites'
  BY DEF LoneWrites, Decoding, WrittenSoFar, Written
<1>4. LoneValue'
  BY DEF LoneValue
<1> QED BY <1>1, <1>2, <1>3, <1>4

(* However the threads run into each other, the types hold, a value about  *)
(* to be stored is on the pad, the data a thread looks at is that of its   *)
(* finger, and a thread that is alone has written what its report says.    *)
THEOREM Invariance == Spec => []IInv
<1>1. Init => IInv
  BY InitIInv
<1>2. IInv /\ [Next]_vars => IInv'
  <2> SUFFICES ASSUME IInv, Next PROVE IInv'
    BY StutterKeepsIInv
  <2>1. PICK t \in Thread : message(t) \/ getReport(t) \/ reportAbsolute(t) \/ reportTrackpoint(t)
    BY DEF Next
  <2> QED
    BY <2>1, messageKeepsIInv, getReportKeepsIInv, MarkContactKeepsIInv, TakeXKeepsIInv,
       PutXKeepsIInv, TakeYKeepsIInv, PutYKeepsIInv, PutTipKeepsIInv, NextFingerKeepsIInv,
       SendEventKeepsIInv, reportTrackpointKeepsIInv DEF reportAbsolute
<1> QED BY <1>1, <1>2, PTL DEF Spec

(* A thread that decodes its report alone hands over what the report says, *)
(* and the count is that of the contacts it handed over.                   *)
THEOREM EventsAreReports == Spec => []EventIsReport
<1>1. IInv => EventIsReport
  <2> SUFFICES ASSUME IInv, NEW t \in Thread, pc[t] = "send", lone[t]
               PROVE  /\ \A f \in Finger : transducers[f] = Decoded(packet[t], f, before[t][f])
                      /\ contact_count[t] = Cardinality({f \in Finger : transducers[f].is_valid})
    BY DEF EventIsReport
  <2>1. Decoding(t) /\ i[t] = ETP_MAX_FINGERS
    BY DEF IInv, AtFinger, Decoding, Stage
  <2>2. ASSUME NEW f \in Finger
        PROVE  transducers[f] = Decoded(packet[t], f, before[t][f])
    <3> DEFINE new == Decoded(packet[t], f, before[t][f])
    <3>1. f < i[t]
      BY <2>1, FingerAssumption DEF Finger
    <3>2. WrittenSoFar(t, f, transducers[f], before[t][f], new)
      BY <2>1 DEF IInv, LoneWrites
    <3>3. /\ transducers[f].x = new.x /\ transducers[f].y = new.y
          /\ transducers[f].tip_switch = new.tip_switch
          /\ transducers[f].is_valid = new.is_valid
          /\ transducers[f].physical_button = new.physical_button
      BY <3>1, <3>2 DEF WrittenSoFar, Written
    <3>4. transducers[f] \in Transducer
      BY DEF IInv, TypeOK
    <3> QED BY <3>3, <3>4 DEF Decoded, Transducer
  <2>3. ASSUME NEW f \in Finger PROVE transducers[f].is_valid = contact_valid(packet[t], f)
    <3>1. transducers[f] = Decoded(packet[t], f, before[t][f])
      BY <2>2
    <3>2. Decoded(packet[t], f, before[t][f]).is_valid = contact_valid(packet[t], f)
      BY DEF Decoded
    <3> QED BY <3>1, <3>2
  <2>4. {f \in Finger : transducers[f].is_valid} = Contacts(packet[t], i[t])
    BY <2>1, <2>3 DEF Contacts, Finger
  <2> QED BY <2>1, <2>2, <2>4 DEF IInv, Counted
<1> QED BY <1>1, Invariance, PTL

(* Whatever the touchpad reports and however threads run into each other,  *)
(* no finger is handed over, nor ever stored, off the pad.                 *)
THEOREM FingersOnPad == Spec => []OnPad
<1>1. IInv => OnPad
  BY DEF IInv, TypeOK, OnPad, Transducer
<1> QED BY <1>1, Invariance, PTL

(* What a report says of the movement of the trackpoint. *)
LEMMA MovementOfReport ==
  ASSUME NEW p \in [Offset -> Byte]
  PROVE  /\ Movement(p)[1] \in TenBits /\ Movement(p)[2] \in TenBits
         /\ p[6] % 16 = 6 /\ p[4] % 128 = 0 => Movement(p)[1] = Signed(p[4], p[7])
         /\ p[6] % 16 = 6 /\ p[5] % 128 = 0 => Movement(p)[2] = - Signed(p[5], p[8])
<1>1. ASSUME NEW a \in Byte, NEW l \in Byte
      PROVE  /\ XorSign(a) \in 0..255
             /\ l - 2 * XorSign(a) \in -510..255 /\ 2 * XorSign(a) - l \in -255..510
             /\ a % 128 = 0 => /\ l - 2 * XorSign(a) = Signed(a, l)
                               /\ 2 * XorSign(a) - l = - Signed(a, l)
  BY DEF XorSign, Signed, Bit, Byte
<1>2. p[4] \in Byte /\ p[5] \in Byte /\ p[6] \in Byte /\ p[7] \in Byte /\ p[8] \in Byte
  BY DEF Offset, ETP_SMBUS_REPORT_OFFSET, ETP_SMBUS_REPORT_LEN
<1>3. CASE p[6] % 16 = 6
  <2>1. /\ Movement(p)[1] = p[7] - 2 * XorSign(p[4])
        /\ Movement(p)[2] = 2 * XorSign(p[5]) - p[8]
    BY <1>3 DEF Movement
  <2>2. /\ p[7] - 2 * XorSign(p[4]) \in -510..255
        /\ p[4] % 128 = 0 => p[7] - 2 * XorSign(p[4]) = Signed(p[4], p[7])
    BY <1>1, <1>2
  <2>3. /\ 2 * XorSign(p[5]) - p[8] \in -255..510
        /\ p[5] % 128 = 0 => 2 * XorSign(p[5]) - p[8] = - Signed(p[5], p[8])
    BY <1>1, <1>2
  <2>4. ASSUME NEW n PROVE (n \in -510..255 => n \in TenBits) /\ (n \in -255..510 => n \in TenBits)
    BY DEF TenBits
  <2>5. Movement(p)[1] \in TenBits
    BY <2>1, <2>2, <2>4, Zenon
  <2>6. Movement(p)[2] \in TenBits
    <3>1. 2 * XorSign(p[5]) - p[8] \in -255..510
      BY <2>3, Zenon
    <3>2. 2 * XorSign(p[5]) - p[8] \in TenBits
      BY <3>1, <2>4, Zenon
    <3> QED BY <2>1, <3>2, Zenon
  <2> QED BY <2>1, <2>2, <2>3, <2>5, <2>6, Zenon
<1>4. CASE ~ (p[6] % 16 = 6)
  <2>1. Movement(p)[1] = 0 /\ Movement(p)[2] = 0
    BY <1>4 DEF Movement
  <2>2. 0 \in TenBits
    BY DEF TenBits
  <2> QED BY <1>4, <2>1, <2>2, Zenon
<1> QED BY <1>3, <1>4, Zenon

(* Every movement of the trackpoint is the signed number it stands for.    *)
THEOREM MovementsAreSigned == Spec => []MovementIsSigned
<1>1. IInv => MovementIsSigned
  <2>1. ASSUME IInv, NEW t \in Thread PROVE packet[t] \in [Offset -> Byte]
    BY <2>1 DEF IInv, TypeOK
  <2> QED BY <2>1, MovementOfReport, Zenon DEF MovementIsSigned
<1> QED BY <1>1, Invariance, PTL

=============================================================================
