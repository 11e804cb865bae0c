------------------------ MODULE I801ByteByByteProofs ------------------------
(***************************************************************************)
(* Theorems about I801ByteByByte, for every block size: what a block holds *)
(* at every interrupt, and that a message is moved whole.                  *)
(***************************************************************************)
EXTENDS I801ByteByByte, TLAPS

(* A message is a function into the lengths, which bound its bytes. *)
LEMMA MessageType == ASSUME NEW n \in Length PROVE Message(n) \in [Legal -> Length]
BY BlockMaxAssumption DEF Message, Legal, Length

LEMMA NothingSent == Message(0) \in [Legal -> Length]
BY MessageType, BlockMaxAssumption DEF Length

(* The values the registers, counters and buffers start from. *)
LEMMA InitIInv == Init => IInv
<1> SUFFICES ASSUME Init PROVE IInv
  OBVIOUS
<1> USE BlockMaxAssumption
<1>1. TypeOK
  <2>2. /\ len \in Legal /\ count \in 0..len
        /\ dat0 \in Length /\ blkdat \in Length /\ told \in Length /\ moved \in Length
        /\ block \in [Legal \cup {0} -> Length]
    BY DEF Init, Legal, Length
  <2> QED BY NothingSent, <2>2 DEF Init, TypeOK
<1>2. /\ ReadProgress /\ WriteProgress /\ NothingStarted /\ HostProgress /\ QuietAfterWake
      /\ SleeperIsServed
  BY DEF Init, ReadProgress, WriteProgress, NothingStarted, HostProgress, QuietAfterWake,
         SleeperIsServed
<1> QED BY <1>1, <1>2 DEF IInv

(* A block read is started. *)
LEMMA StartReadKeepsIInv ==
  ASSUME IInv, StartRead PROVE IInv'
<1> USE BlockMaxAssumption DEF IInv, Legal, Length
<1>1. TypeOK'
  <2>1. sent' \in [Legal -> Length]
    <3>1. sent' = Message(0)
      BY DEF StartRead, START
    <3> QED BY NothingSent, <3>1
  <2>2. len' \in Legal /\ count' \in 0..len' /\ block' \in [Legal \cup {0} -> Length]
    BY DEF StartRead, START
  <2>3. moved' \in Length /\ told' \in Length /\ dat0' \in Length /\ blkdat' \in Length
    BY DEF StartRead, START, TypeOK
  <2>4. /\ pc' \in {"idle", "sleep", "wake", "gone"} /\ ret' \in {"ok", "error"}
        /\ hststs' \in SUBSET {"BYTE_DONE", "INTR", "ERROR"} /\ fate' \in {"none", "ok", "failed"}
    BY DEF StartRead, START, TypeOK
  <2>5. is_read' \in BOOLEAN /\ busy' \in BOOLEAN /\ last' \in BOOLEAN /\ final' \in BOOLEAN
    BY DEF StartRead, START
  <2> QED BY <2>1, <2>2, <2>3, <2>4, <2>5 DEF TypeOK
<1>2. ReadProgress'
  BY DEF StartRead, START, TypeOK, ReadProgress, Handled, SmallerOf, Message
<1>3. WriteProgress'
  BY DEF StartRead, START, WriteProgress, Handled, SmallerOf, Message
<1>4. NothingStarted'
  BY DEF StartRead, START, NothingStarted, Message
<1>5. HostProgress'
  BY DEF StartRead, START, HostProgress, Message
<1>6. QuietAfterWake'
  BY DEF StartRead, START, QuietAfterWake, Message
<1>7. SleeperIsServed'
  BY DEF StartRead, START, SleeperIsServed, TransactionResult
<1> QED BY <1>1, <1>2, <1>3, <1>4, <1>5, <1>6, <1>7

(* A block write is started. *)
LEMMA StartWriteKeepsIInv ==
  ASSUME NEW n \in Legal, IInv, StartWrite(n) PROVE IInv'
<1> USE BlockMaxAssumption DEF IInv, Legal, Length
<1>1. TypeOK'
  <2>1. sent' \in [Legal -> Length]
    <3>1. sent' = Message(0)
      BY DEF StartWrite, START
    <3> QED BY NothingSent, <3>1
  <2>2. len' \in Legal /\ count' \in 0..len'
    BY DEF StartWrite, START
  <2>3. block' \in [Legal \cup {0} -> Length]
    BY DEF StartWrite, Message
  <2>4. moved' \in Length /\ told' \in Length /\ dat0' \in Length /\ blkdat' \in Length
    BY DEF StartWrite, START
  <2>5. /\ pc' \in {"idle", "sleep", "wake", "gone"} /\ ret' \in {"ok", "error"}
        /\ hststs' \in SUBSET {"BYTE_DONE", "INTR", "ERROR"} /\ fate' \in {"none", "ok", "failed"}
    BY DEF StartWrite, START, TypeOK
  <2>6. is_read' \in BOOLEAN /\ busy' \in BOOLEAN /\ last' \in BOOLEAN /\ final' \in BOOLEAN
    BY DEF StartWrite, START
  <2> QED BY <2>1, <2>2, <2>3, <2>4, <2>5, <2>6 DEF TypeOK
<1>2. ReadProgress'
  BY DEF StartWrite, START, ReadProgress, Handled, SmallerOf, Message
<1>3. WriteProgress'
  BY DEF StartWrite, START, WriteProgress, Handled, SmallerOf, Message
<1>4. NothingStarted'
  BY DEF StartWrite, START, NothingStarted, Message
<1>5. HostProgress'
  BY DEF StartWrite, START, HostProgress, Message
<1>6. QuietAfterWake'
  BY DEF StartWrite, START, QuietAfterWake, Message
<1>7. SleeperIsServed'
  BY DEF StartWrite, START, SleeperIsServed, TransactionResult
<1> QED BY <1>1, <1>2, <1>3, <1>4, <1>5, <1>6, <1>7

(* A woken caller returns. *)
LEMMA ReturnKeepsIInv ==
  ASSUME IInv, Return PROVE IInv'
<1> USE BlockMaxAssumption DEF IInv, Legal, Length
<1>1. TypeOK'
  BY DEF Return, cmdVars, hostVars, TypeOK
<1>2. ReadProgress'
  BY DEF Return, cmdVars, hostVars, ReadProgress, QuietAfterWake, Handled, SmallerOf
<1>3. WriteProgress'
  BY DEF Return, cmdVars, hostVars, WriteProgress, QuietAfterWake, Handled, SmallerOf,
    Message
<1>4. NothingStarted'
  BY DEF Return, cmdVars, hostVars, NothingStarted
<1>5. HostProgress'
  BY DEF Return, cmdVars, hostVars, HostProgress
<1>6. QuietAfterWake'
  BY DEF Return, cmdVars, hostVars, QuietAfterWake
<1>7. SleeperIsServed'
  BY DEF Return, SleeperIsServed, TransactionResult
<1> QED BY <1>1, <1>2, <1>3, <1>4, <1>5, <1>6, <1>7

(* A caller is timed out. *)
LEMMA TimeOutKeepsIInv ==
  ASSUME IInv, TimeOut PROVE IInv'
<1> USE BlockMaxAssumption DEF IInv, Legal, Length
<1>1. TypeOK'
  BY DEF TimeOut, cmdVars, hostVars, TypeOK
<1>2. ReadProgress'
  BY DEF TimeOut, cmdVars, hostVars, ReadProgress, Handled, SmallerOf
<1>3. WriteProgress'
  BY DEF TimeOut, cmdVars, hostVars, WriteProgress, Handled, SmallerOf, Message
<1>4. NothingStarted'
  BY DEF TimeOut, cmdVars, hostVars, NothingStarted
<1>5. HostProgress'
  BY DEF TimeOut, cmdVars, hostVars, HostProgress
<1>6. QuietAfterWake'
  BY DEF TimeOut, cmdVars, hostVars, QuietAfterWake
<1>7. SleeperIsServed'
  BY DEF TimeOut, SleeperIsServed, TransactionResult
<1> QED BY <1>1, <1>2, <1>3, <1>4, <1>5, <1>6, <1>7

(* A byte of a read is stored behind the others, within the block. *)
LEMMA ByteIsRead ==
  ASSUME IInv, handleInterrupt, "BYTE_DONE" \in hststs, is_read
  PROVE  /\ len' = TakeLength /\ len' \in Legal
         /\ \/ count < len' /\ count' = count + 1 /\ block' = [block EXCEPT ![0] = len', ![count + 1] = blkdat]
            \/ ~ (count < len') /\ count' = count /\ block' = block
         /\ count' \in 0..len'
         /\ last' = (last \/ count' = len' - 1)
         /\ blkdat' = blkdat
<1> USE BlockMaxAssumption DEF IInv, TypeOK, Legal, Length
<1>1. len' = TakeLength /\ ReadNextByte /\ SetLastByte /\ blkdat' = blkdat
  BY DEF handleInterrupt, i801_isr_byte_done
<1>2. len' \in Legal /\ count \in Nat /\ (~ (count < len') => count = len')
  BY <1>1 DEF TakeLength
<1>3. \/ count < len' /\ count' = count + 1 /\ block' = [block EXCEPT ![0] = len', ![count + 1] = blkdat]
      \/ ~ (count < len') /\ count' = count /\ block' = block
  BY <1>1 DEF ReadNextByte
<1>4. count' \in 0..len'
  BY <1>2, <1>3
<1>5. last' = (last \/ count' = len' - 1)
  BY <1>1 DEF SetLastByte
<1> QED BY <1>1, <1>2, <1>3, <1>4, <1>5

(* The next byte of a write is put into SMBBLKDAT, unless there is none. *)
LEMMA ByteIsWritten ==
  ASSUME IInv, handleInterrupt, "BYTE_DONE" \in hststs, ~ is_read
  PROVE  /\ len' = len /\ block' = block /\ last' = last
         /\ \/ count < len - 1 /\ count' = count + 1 /\ blkdat' = block[count + 2]
            \/ ~ (count < len - 1) /\ count' = count /\ blkdat' = blkdat
<1>1. len' = TakeLength /\ WriteNextByte /\ UNCHANGED <<block, last>>
  BY DEF handleInterrupt, i801_isr_byte_done
<1>2. count \in Nat
  BY BlockMaxAssumption DEF IInv, TypeOK, Legal
<1>3. count + 1 + 1 = count + 2
  BY <1>2
<1> QED BY <1>1, <1>3 DEF TakeLength, WriteNextByte

(* An interrupt is served. *)
LEMMA handleInterruptKeepsIInv ==
  ASSUME IInv, handleInterrupt PROVE IInv'
<1> USE BlockMaxAssumption DEF IInv, Legal, Length
<1>0. /\ hststs # {} /\ hststs' = {}
      /\ UNCHANGED <<ret, is_read, busy, dat0, told, moved, final, sent, fate>>
      /\ pc' = IF pc = "sleep" /\ TransactionResult THEN "wake" ELSE pc
  BY DEF handleInterrupt, ClearFlags, hostVars
<1>a. CASE "BYTE_DONE" \notin hststs
  <2>1. UNCHANGED <<is_read, len, count, block, last, blkdat>>
    BY <1>a DEF handleInterrupt, cmdVars
  <2>2. Handled' = Handled
    BY <1>0, <1>a DEF Handled
  <2>3. TypeOK'
    BY <1>0, <2>1 DEF TypeOK
  <2>4. ReadProgress'
    BY <1>0, <2>1, <2>2 DEF ReadProgress
  <2>5. WriteProgress'
    BY <1>0, <2>1, <2>2 DEF WriteProgress
  <2>6. NothingStarted' /\ HostProgress' /\ QuietAfterWake' /\ SleeperIsServed'
    BY <1>0, <2>1 DEF TypeOK, NothingStarted, HostProgress,
             QuietAfterWake, SleeperIsServed, TransactionResult
  <2> QED BY <2>3, <2>4, <2>5, <2>6
<1>b. CASE "BYTE_DONE" \in hststs /\ is_read
  <2>1. TypeOK'
    <3>1. block' \in [Legal \cup {0} -> Length]
      <4>1. block \in [Legal \cup {0} -> Length] /\ blkdat \in Length /\ len' \in Length
        <5>1. len' \in Legal
          BY <1>b, ByteIsRead
        <5> QED BY <5>1 DEF TypeOK
      <4>2. CASE block' = block
        BY <4>1, <4>2
      <4>3. CASE block' = [block EXCEPT ![0] = len', ![count + 1] = blkdat]
        <5> DEFINE once == [block EXCEPT ![0] = len']
        <5>1. once \in [Legal \cup {0} -> Length]
          BY <4>1
        <5>2. block' = [once EXCEPT ![count + 1] = blkdat]
          BY <4>3
        <5> HIDE DEF once
        <5> QED BY <5>1, <5>2, <4>1
      <4> QED BY <1>b, <4>2, <4>3, ByteIsRead
    <3>2. last' \in BOOLEAN
      BY <1>b, ByteIsRead DEF TypeOK
    <3>3. pc' \in {"idle", "sleep", "wake", "gone"}
      BY <1>0 DEF TypeOK
    <3> QED BY <1>0, <1>b, <3>1, <3>2, <3>3, ByteIsRead DEF TypeOK
  <2>2. ReadProgress'
    <3> SUFFICES ASSUME told \in Legal PROVE ReadProgress'
      BY <1>0 DEF ReadProgress
    <3> USE <1>b
    <3>1. /\ moved > 0 /\ blkdat = moved /\ dat0 = told
          /\ count = SmallerOf(moved - 1, told)
          /\ IF count = 0 THEN len = I2C_SMBUS_BLOCK_MAX ELSE len = told /\ block[0] = told
          /\ \A i \in Legal : block[i] = IF i <= count THEN i ELSE 0
      BY DEF ReadProgress, Handled
    <3>2. /\ told > 1 => moved <= told /\ (final <=> moved = told) /\ (last <=> count + 1 >= told)
          /\ final \/ fate = "ok" => moved >= told
      BY DEF ReadProgress
    <3>3. len' = told
      <4>1. len' = TakeLength
        BY ByteIsRead
      <4>2. CASE count = 0
        BY <3>1, <4>1, <4>2 DEF TakeLength
      <4>3. CASE count # 0
        BY <3>1, <4>1, <4>3 DEF TakeLength, TypeOK
      <4> QED BY <4>2, <4>3
    <3>4. moved \in Nat /\ count \in Nat
      BY DEF TypeOK
    <3>5. count' = SmallerOf(moved, told) /\ count' > 0
      BY <3>1, <3>3, <3>4, ByteIsRead DEF SmallerOf
    <3>6. Handled' = moved
      BY <1>0 DEF Handled
    <3>7. block'[0] = told /\ \A i \in Legal : block'[i] = IF i <= count' THEN i ELSE 0
      <4>1. CASE count < told
        <5>1. blkdat = count + 1 /\ count + 1 \in Legal
          BY <4>1, <3>1, <3>4 DEF SmallerOf
        <5>2. count' = count + 1 /\ block' = [block EXCEPT ![0] = told, ![count + 1] = blkdat]
          BY <4>1, <3>3, <3>4, ByteIsRead
        <5>3. block \in [Legal \cup {0} -> Length]
          BY DEF TypeOK
        <5>4. block'[0] = told
          BY <5>1, <5>2, <5>3
        <5>5. \A i \in Legal : block'[i] = IF i = count + 1 THEN count + 1 ELSE block[i]
          BY <5>1, <5>2, <5>3
        <5>6. \A i \in Legal : block'[i] = IF i <= count' THEN i ELSE 0
          <6> SUFFICES ASSUME NEW i \in Legal
                       PROVE  block'[i] = IF i <= count + 1 THEN i ELSE 0
            BY <5>2
          <6>1. block[i] = IF i <= count THEN i ELSE 0
            BY <3>1
          <6>2. block'[i] = IF i = count + 1 THEN count + 1 ELSE block[i]
            BY <5>5
          <6>3. i <= count + 1 <=> i <= count \/ i = count + 1
            BY <3>4
          <6> QED BY <6>1, <6>2, <6>3
        <5> QED BY <5>4, <5>6
      <4>2. CASE ~ (count < told)
        BY <4>2, <3>1, <3>3, <3>4, ByteIsRead
      <4> QED BY <4>1, <4>2
    <3>8. told > 1 => (last' <=> count' + 1 >= told)
      <4> SUFFICES ASSUME told > 1 PROVE last' <=> count' + 1 >= told
        OBVIOUS
      <4>1. (count' = told - 1) \/ (count + 1 >= told) <=> count' + 1 >= told
        BY <3>1, <3>3, <3>4, <3>5, ByteIsRead DEF SmallerOf
      <4> QED BY <3>2, <3>3, <4>1, ByteIsRead
    <3> QED BY <1>0, <3>2, <3>3, <3>5, <3>6, <3>7, <3>8 DEF ReadProgress
  <2>3. WriteProgress' /\ NothingStarted' /\ HostProgress' /\ QuietAfterWake' /\ SleeperIsServed'
    BY <1>0, <1>b DEF TypeOK, WriteProgress, NothingStarted, HostProgress,
             QuietAfterWake, SleeperIsServed, TransactionResult
  <2> QED BY <2>1, <2>2, <2>3
<1>c. CASE "BYTE_DONE" \in hststs /\ ~ is_read
  <2> USE <1>c
  <2>1. told \in Legal /\ told > 0
    BY DEF TypeOK, WriteProgress, NothingStarted
  <2>2. /\ len = told /\ moved > 0 /\ blkdat = count + 1 /\ count = SmallerOf(moved - 1, told - 1)
        /\ \A i \in Legal : block[i] = Message(told)[i]
        /\ moved <= told /\ ~ final /\ sent = Message(moved)
        /\ fate = "ok" => moved = told
    BY <2>1 DEF WriteProgress, Handled
  <2>3. moved \in Nat /\ count \in Nat /\ Handled' = moved
    BY <1>0 DEF TypeOK, Handled
  <2>4. count' = SmallerOf(moved, told - 1)
    BY <2>1, <2>2, <2>3, ByteIsWritten DEF SmallerOf
  <2>5. blkdat' = count' + 1
    <3>1. count + 2 <= told => block[count + 2] = count + 2
      BY <2>1, <2>2, <2>3 DEF Message
    <3> QED BY <2>1, <2>2, <2>3, <3>1, ByteIsWritten
  <2>6. TypeOK'
    <3>1. count' \in 0..len' /\ blkdat' \in Length /\ len' \in Legal
      BY <2>1, <2>2, <2>3, <2>4, <2>5, ByteIsWritten DEF SmallerOf
    <3>2. pc' \in {"idle", "sleep", "wake", "gone"}
      BY <1>0 DEF TypeOK
    <3> QED BY <1>0, <3>1, <3>2, ByteIsWritten DEF TypeOK
  <2>7. WriteProgress'
    BY <1>0, <2>1, <2>2, <2>3, <2>4, <2>5, ByteIsWritten DEF WriteProgress
  <2>8. ReadProgress' /\ NothingStarted' /\ HostProgress' /\ QuietAfterWake' /\ SleeperIsServed'
    BY <1>0, <2>1 DEF TypeOK, ReadProgress, NothingStarted, HostProgress,
             QuietAfterWake, SleeperIsServed, TransactionResult
  <2> QED BY <2>6, <2>7, <2>8
<1> QED BY <1>a, <1>b, <1>c

(* The host has received a byte. *)
LEMMA HostReadsByteKeepsIInv ==
  ASSUME IInv, HostReadsByte PROVE IInv'
<1> USE BlockMaxAssumption DEF IInv, Legal, Length
<1>1. TypeOK'
  BY DEF HostReadsByte, cmdVars, TypeOK
<1>2. ReadProgress'
  BY DEF HostReadsByte, cmdVars, TypeOK, ReadProgress, Handled, SmallerOf
<1>3. WriteProgress'
  BY DEF HostReadsByte, cmdVars, WriteProgress, Handled, SmallerOf, Message
<1>4. NothingStarted'
  BY DEF HostReadsByte, cmdVars, NothingStarted
<1>5. HostProgress'
  BY DEF HostReadsByte, cmdVars, HostProgress
<1>6. QuietAfterWake'
  BY DEF HostReadsByte, cmdVars, QuietAfterWake
<1>7. SleeperIsServed'
  BY DEF HostReadsByte, SleeperIsServed, TransactionResult
<1> QED BY <1>1, <1>2, <1>3, <1>4, <1>5, <1>6, <1>7

(* The host has sent a byte. *)
LEMMA HostWritesByteKeepsIInv ==
  ASSUME IInv, HostWritesByte PROVE IInv'
<1> USE BlockMaxAssumption DEF IInv, Legal, Length
<1>1. TypeOK'
  BY DEF HostWritesByte, cmdVars, TypeOK, WriteProgress, Handled, SmallerOf, Message
<1>2. ReadProgress'
  BY DEF HostWritesByte, cmdVars, ReadProgress, Handled, SmallerOf
<1>3. WriteProgress'
  <2>1. CASE ~ told > 0
    BY <2>1 DEF HostWritesByte, TypeOK, WriteProgress
  <2>2. CASE told > 0
    <3>1. /\ told \in Legal /\ len = told /\ count = SmallerOf(moved, told - 1)
          /\ blkdat = count + 1 /\ ~ final /\ sent = Message(moved)
          /\ \A i \in Legal : block[i] = Message(told)[i]
      BY <2>2 DEF HostWritesByte, WriteProgress, Handled
    <3>2. moved \in Nat /\ moved < told /\ moved' = moved + 1 /\ moved' \in Legal
      BY <3>1 DEF HostWritesByte, TypeOK
    <3>3. blkdat = moved'
      BY <3>1, <3>2 DEF SmallerOf
    <3>4. sent' = Message(moved')
      BY <3>1, <3>2, <3>3 DEF HostWritesByte, Message
    <3>5. Handled' = moved /\ moved' > 0 /\ moved' <= told
      BY <3>1, <3>2 DEF HostWritesByte, Handled
    <3>6. fate' # "ok"
      BY DEF HostWritesByte, HostProgress
    <3> QED BY <3>1, <3>4, <3>5, <3>6 DEF HostWritesByte, WriteProgress, cmdVars
  <2> QED BY <2>1, <2>2
<1>4. NothingStarted'
  BY DEF HostWritesByte, cmdVars, NothingStarted
<1>5. HostProgress'
  BY DEF HostWritesByte, cmdVars, HostProgress
<1>6. QuietAfterWake'
  BY DEF HostWritesByte, cmdVars, QuietAfterWake
<1>7. SleeperIsServed'
  BY DEF HostWritesByte, SleeperIsServed, TransactionResult
<1> QED BY <1>1, <1>2, <1>3, <1>4, <1>5, <1>6, <1>7

(* The transaction ends. *)
LEMMA HostEndsKeepsIInv ==
  ASSUME IInv, HostEnds PROVE IInv'
<1> USE BlockMaxAssumption DEF IInv, Legal, Length
<1>1. TypeOK'
  BY DEF HostEnds, cmdVars, TypeOK
<1>2. ReadProgress'
  BY DEF HostEnds, cmdVars, ReadProgress, Handled, SmallerOf
<1>3. WriteProgress'
  BY DEF HostEnds, cmdVars, TypeOK, WriteProgress, Handled, SmallerOf, Message
<1>4. NothingStarted'
  BY DEF HostEnds, cmdVars, NothingStarted
<1>5. HostProgress'
  BY DEF HostEnds, cmdVars, HostProgress
<1>6. QuietAfterWake'
  BY DEF HostEnds, cmdVars, QuietAfterWake
<1>7. SleeperIsServed'
  BY DEF HostEnds, SleeperIsServed, TransactionResult
<1> QED BY <1>1, <1>2, <1>3, <1>4, <1>5, <1>6, <1>7

(* The transaction fails. *)
LEMMA HostFailsKeepsIInv ==
  ASSUME IInv, HostFails PROVE IInv'
<1> USE BlockMaxAssumption DEF IInv, Legal, Length
<1>1. TypeOK'
  BY DEF HostFails, cmdVars, TypeOK
<1>2. ReadProgress'
  BY DEF HostFails, cmdVars, ReadProgress, Handled, SmallerOf
<1>3. WriteProgress'
  BY DEF HostFails, cmdVars, WriteProgress, Handled, SmallerOf, Message
<1>4. NothingStarted'
  BY DEF HostFails, cmdVars, NothingStarted
<1>5. HostProgress'
  BY DEF HostFails, cmdVars, HostProgress
<1>6. QuietAfterWake'
  BY DEF HostFails, cmdVars, QuietAfterWake
<1>7. SleeperIsServed'
  BY DEF HostFails, SleeperIsServed, TransactionResult
<1> QED BY <1>1, <1>2, <1>3, <1>4, <1>5, <1>6, <1>7

(* A step that changes no variable. *)
LEMMA StutterKeepsIInv ==
  ASSUME IInv, UNCHANGED vars PROVE IInv'
BY DEF IInv, vars, cmdVars, hostVars, TypeOK, ReadProgress, WriteProgress, NothingStarted,
  HostProgress, QuietAfterWake, SleeperIsServed, TransactionResult, Handled

-----------------------------------------------------------------------------

(* The inductive invariant: at every interrupt the driver has moved on as  *)
(* many bytes as the host has, less the one BYTE_DONE announces, and count *)
(* and data->block stay within the bounds of a block.                      *)
THEOREM Invariance == Spec => []IInv
<1>1. Init => IInv
  BY InitIInv
<1>2. IInv /\ [Next]_vars => IInv'
  <2> SUFFICES ASSUME IInv, [Next]_vars PROVE IInv'
    OBVIOUS
  <2>1. CASE StartRead
    BY <2>1, StartReadKeepsIInv
  <2>2. ASSUME NEW n \in Legal, StartWrite(n) PROVE IInv'
    BY <2>2, StartWriteKeepsIInv
  <2>3. CASE Return
    BY <2>3, ReturnKeepsIInv
  <2>4. CASE TimeOut
    BY <2>4, TimeOutKeepsIInv
  <2>5. CASE handleInterrupt
    BY <2>5, handleInterruptKeepsIInv
  <2>6. CASE HostReadsByte
    BY <2>6, HostReadsByteKeepsIInv
  <2>7. CASE HostWritesByte
    BY <2>7, HostWritesByteKeepsIInv
  <2>8. CASE HostEnds
    BY <2>8, HostEndsKeepsIInv
  <2>9. CASE HostFails
    BY <2>9, HostFailsKeepsIInv
  <2>10. CASE UNCHANGED vars
    BY <2>10, StutterKeepsIInv
  <2> QED BY <2>1, <2>2, <2>3, <2>4, <2>5, <2>6, <2>7, <2>8, <2>9, <2>10 DEF Next
<1> QED BY <1>1, <1>2, PTL DEF Spec

(* A legal block read that ends without an error is in data->block, whole. *)
THEOREM ReadsAreWhole == Spec => []ReadIsWhole
<1>1. IInv => ReadIsWhole
  <2> SUFFICES ASSUME IInv, pc = "wake", is_read, fate = "ok", told \in Legal
               PROVE  block = [i \in Legal \cup {0} |-> IF i = 0 THEN told ELSE Message(told)[i]]
    BY DEF ReadIsWhole
  <2>1. moved \in Nat /\ told \in Nat /\ told > 0 /\ block \in [Legal \cup {0} -> Length] /\ 0 \notin Legal
    BY BlockMaxAssumption DEF IInv, TypeOK, Length, Legal
  <2>2. Handled = moved /\ moved >= told
    BY DEF IInv, HostProgress, ReadProgress, Handled
  <2>3. count = told
    BY <2>1, <2>2 DEF IInv, ReadProgress, SmallerOf
  <2>4. block[0] = told
    BY <2>1, <2>3 DEF IInv, ReadProgress
  <2>5. \A i \in Legal : block[i] = Message(told)[i]
    BY <2>3 DEF IInv, ReadProgress, Message
  <2> QED BY <2>1, <2>4, <2>5
<1>2. Spec => []IInv
  BY Invariance
<1> QED BY <1>1, <1>2, PTL

(* A block write that ends without an error has sent the caller's bytes.   *)
THEOREM WritesAreWhole == Spec => []WriteIsWhole
<1>1. IInv => WriteIsWhole
  <2> SUFFICES ASSUME IInv, ~ is_read, fate = "ok" PROVE sent = Message(told)
    BY DEF WriteIsWhole
  <2>1. told > 0
    BY DEF IInv, TypeOK, Length, NothingStarted
  <2> QED BY <2>1 DEF IInv, WriteProgress
<1>2. Spec => []IInv
  BY Invariance
<1> QED BY <1>1, <1>2, PTL

(* The host is told in time which byte is the last.                        *)
THEOREM LastByteIsInTime == Spec => []LastByteInTime
<1>1. IInv => LastByteInTime
  BY BlockMaxAssumption DEF IInv, TypeOK, ReadProgress, LastByteInTime, Legal, Length
<1>2. Spec => []IInv
  BY Invariance
<1> QED BY <1>1, <1>2, PTL

(* No interrupt uses the block of a caller that has been woken.            *)
THEOREM WokenIsQuiet == Spec => []QuietAfterWake
<1>1. IInv => QuietAfterWake
  BY DEF IInv
<1>2. Spec => []IInv
  BY Invariance
<1> QED BY <1>1, <1>2, PTL

(* A caller that sleeps always has something to wait for, ... *)
THEOREM SleepersAreServed == Spec => []SleeperIsServed
<1>1. IInv => SleeperIsServed
  BY DEF IInv
<1>2. Spec => []IInv
  BY Invariance
<1> QED BY <1>1, <1>2, PTL

(* ... and every step until it is woken is one nearer to that.             *)
THEOREM SleepsAdvance == Spec => SleepAdvances
<1>1. IInv /\ [Next]_vars => [pc = "sleep" /\ pc' = "sleep" => StepsLeft' < StepsLeft]_vars
  <2> SUFFICES ASSUME IInv, Next, pc = "sleep", pc' = "sleep" PROVE StepsLeft' < StepsLeft
    OBVIOUS
  <2>1. I2C_SMBUS_BLOCK_MAX \in Nat /\ moved \in Nat /\ busy \in BOOLEAN
    BY BlockMaxAssumption DEF IInv, TypeOK, Length
  <2>2. handleInterrupt \/ HostReadsByte \/ HostWritesByte \/ HostEnds \/ HostFails
    BY DEF Next, StartRead, StartWrite, START, Return, TimeOut
  <2>3. CASE handleInterrupt
    BY <2>1, <2>3 DEF handleInterrupt, ClearFlags, hostVars, StepsLeft
  <2>4. CASE HostReadsByte \/ HostWritesByte
    BY <2>1, <2>4 DEF HostReadsByte, HostWritesByte, StepsLeft
  <2>5. CASE HostEnds \/ HostFails
    BY <2>1, <2>5 DEF HostEnds, HostFails, StepsLeft
  <2> QED BY <2>2, <2>3, <2>4, <2>5
<1>2. Spec => []IInv
  BY Invariance
<1> QED BY <1>1, <1>2, PTL DEF Spec, SleepAdvances
=============================================================================
