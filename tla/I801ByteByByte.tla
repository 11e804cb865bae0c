--------------------------- MODULE I801ByteByByte ---------------------------
(***************************************************************************)
(* The byte-by-byte form of a block operation, which the i801 driver falls *)
(* back on when the host controller has no 32-byte buffer: the caller      *)
(* starts the transaction and sleeps, and handleInterrupt moves one byte   *)
(* per BYTE_DONE between SMBBLKDAT and the caller's data->block.           *)
(*                                                                         *)
(* One caller at a time, one block operation after another.  Byte i of a   *)
(* message is the number i, and 0 is a byte nobody has written.            *)
(***************************************************************************)
EXTENDS Naturals

CONSTANT I2C_SMBUS_BLOCK_MAX  \* 32 in the source

ASSUME BlockMaxAssumption == I2C_SMBUS_BLOCK_MAX \in Nat \ {0}

Legal == 1..I2C_SMBUS_BLOCK_MAX
(* The lengths a device may claim: 0 and one too many stand for all the    *)
(* illegal ones.                                                           *)
Length == 0..(I2C_SMBUS_BLOCK_MAX + 1)

VARIABLES
  (* the caller and the adapter *)
  pc,       \* the caller: idle, sleep, wake, or gone: it returned by a time-out
  ret,      \* what it returned
  is_read, len, count,   \* the state of the command in struct i801_adapter
  block,    \* the caller's data->block; priv->data points to block[1]
  (* the host controller *)
  busy,     \* SMBHSTSTS_HOST_BUSY
  hststs,   \* the other flags of SMBHSTSTS
  last,     \* SMBHSTCNT_LAST_BYTE
  dat0,     \* SMBHSTDAT0: the length
  blkdat,   \* SMBBLKDAT: one byte
  (* the wire, since the latest START *)
  told,     \* the length of the message, as its sender claims it
  moved,    \* how many bytes have been moved
  final,    \* the host has refused the bytes after this one
  sent,     \* the bytes a write has sent
  fate      \* how the transaction ended

cmdVars  == <<is_read, len, count, block>>
hostVars == <<busy, dat0, told, moved, final, sent, fate>>
vars == <<pc, ret, cmdVars, hostVars, hststs, last, blkdat>>

TypeOK ==
  /\ pc \in {"idle", "sleep", "wake", "gone"}
  /\ ret \in {"ok", "error"}
  /\ is_read \in BOOLEAN
  /\ len \in Legal
  /\ count \in 0..len
  /\ block \in [Legal \cup {0} -> Length]
  /\ busy \in BOOLEAN
  /\ hststs \in SUBSET {"BYTE_DONE", "INTR", "ERROR"}
  /\ last \in BOOLEAN
  /\ dat0 \in Length
  /\ blkdat \in Length
  /\ told \in Length
  /\ moved \in Length
  /\ final \in BOOLEAN
  /\ sent \in [Legal -> Length]
  /\ fate \in {"none", "ok", "failed"}

Message(n) == [i \in Legal |-> IF i <= n THEN i ELSE 0]

Init ==
  /\ pc = "idle" /\ ret = "ok"
  /\ is_read = FALSE /\ len = 1 /\ count = 0
  /\ block = [i \in Legal \cup {0} |-> 0]
  /\ busy = FALSE /\ hststs = {} /\ last = FALSE
  /\ dat0 = 0 /\ blkdat = 0
  /\ told = 0 /\ moved = 0 /\ final = FALSE
  /\ sent = Message(0) /\ fate = "none"

-----------------------------------------------------------------------------
(* i801_block_transaction and i801_block_transaction_byte_by_byte *)

(* Nobody sleeps and i801_check_pre, which clears the flags, finds the host*)
(* idle.  If it does not the call returns EBUSY and nothing changes.       *)
START ==
  /\ pc \in {"idle", "gone"} /\ ~ busy
  /\ pc' = "sleep"
  /\ count' = 0
  /\ hststs' = {}
  /\ busy' = TRUE /\ moved' = 0 /\ final' = FALSE /\ sent' = Message(0) /\ fate' = "none"
  /\ UNCHANGED ret

(* A block read: the length asked for is the maximum. *)
StartRead ==
  /\ START
  /\ is_read' = TRUE /\ len' = I2C_SMBUS_BLOCK_MAX
  /\ block' = [i \in Legal \cup {0} |-> IF i = 0 THEN I2C_SMBUS_BLOCK_MAX ELSE 0]
  /\ last' = (I2C_SMBUS_BLOCK_MAX = 1)
  /\ told' \in Length
  /\ UNCHANGED <<dat0, blkdat>>

(* A block write of n bytes: length and first byte go into the registers.  *)
StartWrite(n) ==
  /\ START
  /\ is_read' = FALSE /\ len' = n
  /\ block' = [i \in Legal \cup {0} |-> IF i = 0 THEN n ELSE Message(n)[i]]
  /\ last' = FALSE
  /\ told' = n
  /\ dat0' = n /\ blkdat' = 1

(* The caller has the gate back and returns what i801_check_post makes of  *)
(* the local variable status, which nobody has assigned: any result, and   *)
(* any flags of SMBHSTSTS cleared.                                         *)
Return ==
  /\ pc = "wake"
  /\ pc' = "idle"
  /\ ret' \in {"ok", "error"}
  /\ hststs' \in SUBSET hststs
  /\ UNCHANGED <<cmdVars, hostVars, last, blkdat>>

(* commandSleep times out: the caller returns and takes its block with it, *)
(* the transaction goes on.                                                *)
TimeOut ==
  /\ pc = "sleep"
  /\ pc' = "gone" /\ ret' = "error"
  /\ UNCHANGED <<cmdVars, hostVars, hststs, last, blkdat>>

-----------------------------------------------------------------------------
(* handleInterrupt *)

(* With the first byte of a read comes the length. *)
LengthUnchecked == IF is_read /\ count = 0 THEN dat0 ELSE len

TakeLength ==
  IF ~ is_read \/ count > 0 THEN len
  ELSE IF dat0 \in Legal THEN dat0 ELSE I2C_SMBUS_BLOCK_MAX

(* A byte read goes to the next place; a byte too many is discarded. *)
LengthNotStored ==
  IF count < len'
    THEN count' = count + 1 /\ block' = [block EXCEPT ![count'] = blkdat]
    ELSE UNCHANGED <<count, block>>

ReadNextByte ==
  IF count < len'
    THEN count' = count + 1 /\ block' = [block EXCEPT ![0] = len', ![count'] = blkdat]
    ELSE UNCHANGED <<count, block>>

LastByteLate == last' = (last \/ count' = len')

SetLastByte == last' = (last \/ count' = len' - 1)

(* priv->data[++priv->count], where priv->data is &block[1]. *)
SendSameByte ==
  IF count < len - 1 THEN count' = count + 1 /\ blkdat' = block[count'] ELSE UNCHANGED <<count, blkdat>>

WriteNextByte ==
  IF count < len - 1
    THEN count' = count + 1 /\ blkdat' = block[count' + 1]
    ELSE UNCHANGED <<count, blkdat>>

i801_isr_byte_done ==
  /\ len' = TakeLength
  /\ \/ is_read /\ ReadNextByte /\ SetLastByte /\ UNCHANGED blkdat
     \/ ~ is_read /\ WriteNextByte /\ UNCHANGED <<block, last>>

(* What the handler wakes the sleeper for. *)
WakeOnAnyFlag == hststs # {}
TransactionResult == hststs \cap {"INTR", "ERROR"} # {}

(* BYTE_DONE is cleared to continue with the next byte, the other flags    *)
(* because they are reported.                                              *)
ClearOnProgress == hststs' = IF count' = count THEN hststs \cap {"BYTE_DONE"} ELSE {}
ClearFlags == hststs' = {}

handleInterrupt ==
  /\ hststs # {}
  /\ IF "BYTE_DONE" \in hststs
       THEN i801_isr_byte_done
       ELSE UNCHANGED <<cmdVars, last, blkdat>>
  /\ ClearFlags
  /\ pc' = IF pc = "sleep" /\ TransactionResult THEN "wake" ELSE pc
  /\ UNCHANGED <<ret, is_read, hostVars>>

-----------------------------------------------------------------------------
(* The host controller.  It holds the clock low until BYTE_DONE is cleared,*)
(* after the last byte too: a message of n bytes gives n + 1 interrupts.   *)

HostReadsByte ==
  /\ busy /\ is_read /\ "BYTE_DONE" \notin hststs
  /\ ~ final /\ moved <= I2C_SMBUS_BLOCK_MAX   \* bounds the bytes too many
  /\ moved' = moved + 1
  /\ blkdat' = moved'
  /\ dat0' = told
  /\ final' = last
  /\ hststs' = hststs \cup {"BYTE_DONE"}
  /\ UNCHANGED <<pc, ret, cmdVars, last, busy, told, sent, fate>>

HostWritesByte ==
  /\ busy /\ ~ is_read /\ "BYTE_DONE" \notin hststs
  /\ moved < told
  /\ moved' = moved + 1
  /\ sent' = [sent EXCEPT ![moved'] = blkdat]
  /\ hststs' = hststs \cup {"BYTE_DONE"}
  /\ UNCHANGED <<pc, ret, cmdVars, last, blkdat, busy, dat0, told, final, fate>>

(* A write ends with its last byte.  A read ends with the byte the driver  *)
(* marked as the last, or with the length the device claimed: the driver   *)
(* leaves a message of one byte to the host.                               *)
HostEnds ==
  /\ busy /\ "BYTE_DONE" \notin hststs
  /\ final \/ moved >= told
  /\ busy' = FALSE /\ fate' = "ok"
  /\ hststs' = hststs \cup {"INTR"}
  /\ UNCHANGED <<pc, ret, cmdVars, last, blkdat, dat0, told, moved, final, sent>>

HostFails ==
  /\ busy
  /\ busy' = FALSE /\ fate' = "failed"
  /\ hststs' = hststs \cup {"ERROR"}
  /\ UNCHANGED <<pc, ret, cmdVars, last, blkdat, dat0, told, moved, final, sent>>

-----------------------------------------------------------------------------
Next ==
  \/ StartRead
  \/ \E n \in Legal : StartWrite(n)
  \/ Return
  \/ TimeOut
  \/ handleInterrupt
  \/ HostReadsByte
  \/ HostWritesByte
  \/ HostEnds
  \/ HostFails

Spec == Init /\ [][Next]_vars

(* Interrupts are served, a woken thread runs, the host does not stop in   *)
(* the middle of a message.                                                *)
FairSpec ==
  /\ Spec
  /\ WF_vars(Return) /\ WF_vars(handleInterrupt)
  /\ WF_vars(HostReadsByte \/ HostWritesByte \/ HostEnds)

-----------------------------------------------------------------------------
(* Properties *)

(* A block read whose device kept to the protocol leaves the caller the    *)
(* whole message in data->block, length and bytes in order, and nothing    *)
(* behind it: no byte is lost, doubled or overwritten between the          *)
(* interrupts of i801_isr_byte_done.                                       *)
ReadIsWhole ==
  pc = "wake" /\ is_read /\ fate = "ok" /\ told \in Legal =>
    block = [i \in Legal \cup {0} |-> IF i = 0 THEN told ELSE Message(told)[i]]

(* A block write that ends without an error has put the caller's bytes on  *)
(* the wire, each once and in order, although the first is sent by the     *)
(* caller and the others by the interrupt handler.                         *)
WriteIsWhole == ~ is_read /\ fate = "ok" => sent = Message(told)

(* LAST_BYTE is set one byte ahead: the host refuses the bytes after the   *)
(* last one of a message, and none before it.  (A message of one byte is   *)
(* over when the driver learns its length.)                                *)
LastByteInTime ==
  is_read /\ told \in Legal \ {1} => (final <=> moved = told)

(* Once a caller that was not timed out has been woken nothing moves bytes *)
(* any more: no interrupt is left that would use priv->data, which points  *)
(* into the caller's stack frame.                                          *)
QuietAfterWake == pc \in {"wake", "idle"} => ~ busy /\ hststs = {}

(* A caller sleeps until its transaction ends, and every transaction does: *)
(* each BYTE_DONE is answered, the one after the last byte too.            *)
EveryCallReturns == pc = "sleep" ~> pc # "sleep"

(* Its safety half.  A sleeper has something to wait for: its transaction  *)
(* is going on, or the flags that will wake it are up.                     *)
SleeperIsServed == pc = "sleep" => busy \/ TransactionResult

(* And it does not wait for ever: every interrupt and every step of the    *)
(* host brings the end of the transaction nearer, so it takes at most      *)
(* 2 * I2C_SMBUS_BLOCK_MAX + 4 of them.  (That a device which claims an    *)
(* illegal length does not go on sending is the bound of HostReadsByte.)   *)
StepsLeft ==
  2 * (I2C_SMBUS_BLOCK_MAX + 1 - moved)
    + (IF busy THEN 2 ELSE 0) + (IF hststs = {} THEN 0 ELSE 1)

SleepAdvances == [][pc = "sleep" /\ pc' = "sleep" => StepsLeft' < StepsLeft]_vars

-----------------------------------------------------------------------------
(* The inductive invariant *)

SmallerOf(m, n) == IF m <= n THEN m ELSE n

(* The bytes handleInterrupt has moved on. *)
Handled == IF "BYTE_DONE" \in hststs THEN moved - 1 ELSE moved

(* How far a legal read has got: the interrupts have stored the bytes up to*)
(* count, the next one is in SMBBLKDAT, LAST_BYTE is set one byte ahead.   *)
ReadProgress ==
  is_read /\ told \in Legal =>
    /\ count = SmallerOf(Handled, told)
    /\ IF count = 0 THEN len = I2C_SMBUS_BLOCK_MAX ELSE len = told /\ block[0] = told
    /\ \A i \in Legal : block[i] = IF i <= count THEN i ELSE 0
    /\ "BYTE_DONE" \in hststs => moved > 0 /\ blkdat = moved /\ dat0 = told
    /\ told > 1 => moved <= told /\ (final <=> moved = told) /\ (last <=> count + 1 >= told)
    /\ final \/ fate = "ok" => moved >= told

(* How far a write has got: byte count + 1 is in SMBBLKDAT, and it is the  *)
(* next one on the wire unless the message is over.                        *)
WriteProgress ==
  ~ is_read /\ told > 0 =>
    /\ told \in Legal /\ len = told
    /\ count = SmallerOf(Handled, told - 1)
    /\ \A i \in Legal : block[i] = Message(told)[i]
    /\ "BYTE_DONE" \in hststs => moved > 0
    /\ blkdat = count + 1
    /\ moved <= told /\ ~ final /\ sent = Message(moved)
    /\ fate = "ok" => moved = told

(* No transaction has been started yet. *)
NothingStarted ==
  ~ is_read /\ told = 0 => ~ busy /\ hststs = {} /\ pc = "idle" /\ fate = "none" /\ len = 1 /\ count = 0

(* INTR and the error flags are not up before the transaction is over, and *)
(* one that ended well has had its last BYTE_DONE answered.                *)
HostProgress ==
  /\ busy => fate = "none" /\ hststs \subseteq {"BYTE_DONE"}
  /\ fate = "ok" => "BYTE_DONE" \notin hststs

IInv ==
  /\ TypeOK
  /\ ReadProgress
  /\ WriteProgress
  /\ NothingStarted
  /\ HostProgress
  /\ QuietAfterWake
  /\ SleeperIsServed
=============================================================================
