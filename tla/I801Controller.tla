--------------------------- MODULE I801Controller ---------------------------
(***************************************************************************)
(* The i801 SMBus host controller driver: every call of                    *)
(* VoodooSMBusControllerDriver::transfer from the moment it waits for the  *)
(* command gate until it returns, the interrupt handler, the controller's  *)
(* setPowerState, and the host controller's registers they all share.      *)
(*                                                                         *)
(* Any kernel thread may call transfer.  The command gate is a lock, but   *)
(* commandSleep gives it up for as long as a transaction is on the wire    *)
(* (it has to: handleInterrupt needs the gate to wake the sleeper), so     *)
(* other calls run i801_access in the meantime.  A step of this module is  *)
(* a stretch of code run under the gate that the host hardware cannot      *)
(* split, because what it reads of the hardware it reads once.             *)
(*                                                                         *)
(* An element of Call is one call of transfer, made at most once; a thread *)
(* that makes three calls is three elements.  The calls in NotifyCall are  *)
(* made by the threads VoodooSMBusDeviceNub::handleHostNotify starts.      *)
(***************************************************************************)
EXTENDS Naturals

CONSTANTS
  Call,          \* the calls of transfer that are made (bounds a run)
  NotifyCall,    \* those made by host-notify threads
  NoCall,        \* no call
  Protocol,      \* the operations the other calls may ask for
  Retries,       \* adapter->retries
  SleepTimesOut, \* does commandSleep(&status, 200 ms) ever return THREAD_TIMED_OUT?
  PowerManaged,  \* does the system go to sleep and wake up?
  BiosNotify,    \* was SMBSLVCMD_HST_NTFY_INTREN set when the driver started?
  Garbage        \* what the uninitialised adapter->status may hold

Reads        == {"readByteData", "readBlockData"}
Blocks       == {"readBlockData", "writeBlockData"}
STATUS_ERROR_FLAGS == {"FAILED", "BUS_ERR", "DEV_ERR"}
STATUS_FLAGS       == STATUS_ERROR_FLAGS \cup {"INTR"}

AllProtocols == Reads \cup Blocks \cup {"writeByteData", "writeByte"}

ASSUME CallAssumption == NotifyCall \subseteq Call /\ NoCall \notin Call
ASSUME ProtocolAssumption == Protocol \subseteq AllProtocols
ASSUME GarbageAssumption == Garbage \subseteq SUBSET STATUS_FLAGS
ASSUME RetriesAssumption == Retries \in Nat
ASSUME SwitchAssumption ==
         SleepTimesOut \in BOOLEAN /\ PowerManaged \in BOOLEAN /\ BiosNotify \in BOOLEAN

VARIABLES
  (* the calls *)
  pc,        \* where each call is, see Stage
  op,        \* the protocol operation it asks for
  try,       \* transferGated's _try
  ret,       \* what i801_access returned last
  got,       \* what a successful read copied out of the data registers
  bus,       \* history: the fate of the call's latest transaction on the wire
  (* the adapter, the interrupt and power *)
  status,    \* adapter->status
  pm,        \* how far setPowerState has got
  (* the host controller *)
  hststs,    \* SMBHSTSTS without HOST_BUSY, which is inflight # NoCall
  hstint,    \* SMBHSTCNT_INTREN: a flag of SMBHSTSTS interrupts
  inflight,  \* the call whose transaction the host is executing
  dat0,      \* SMBHSTDAT0: whose request or answer byte it holds
  blkdat,    \* the 32-byte buffer behind SMBBLKDAT
  e32b,      \* SMBAUXCTL_E32B: the host uses that buffer
  crce,      \* SMBAUXSTS_CRCE: a PEC error is flagged
  ntfy,      \* SMBSLVSTS_HST_NTFY_STS: a host notify was received
  intren     \* SMBSLVCMD_HST_NTFY_INTREN: a host notify interrupts

callVars == <<pc, op, try, ret, got>>
dataVars == <<dat0, blkdat>>
ntfyVars == <<ntfy, intren>>
vars == <<callVars, bus, status, pm, hststs, hstint, inflight, dataVars, e32b, crce, ntfyVars>>

-----------------------------------------------------------------------------
(* Values *)

Errno == {"EIO", "ENXIO", "EAGAIN", "EBUSY", "EPROTO", "EBADMSG", "ETIMEDOUT"}

(* What a data register holds: bytes of the request of a call, or of the   *)
(* device's answer to it.                                                  *)
Datum      == [of : Call \cup {NoCall}, kind : {"request", "answer"}]
Request(c) == [of |-> c, kind |-> "request"]
Answer(c)  == [of |-> c, kind |-> "answer"]

(* A call waits for the gate (gate), programs the registers (setup), tests *)
(* the host and starts it (pre), sleeps, is awake but without the gate     *)
(* (wake), leaves i801_access (post), and has returned (done).             *)
Stage  == {"new", "gate", "setup", "pre", "sleep", "wake", "post", "done"}
Gated  == {"setup", "pre", "post"}            \* holds the command gate
Inside == Gated \cup {"sleep", "wake"}        \* is inside transferGated

TypeOK ==
  /\ pc \in [Call -> Stage]
  /\ op \in [Call -> AllProtocols]
  /\ try \in [Call -> 0..Retries]
  /\ ret \in [Call -> Errno \cup {"OK"}]
  /\ got \in [Call -> SUBSET Datum]
  /\ bus \in [Call -> {"none", "open", "ok", "failed"}]
  /\ status \in SUBSET STATUS_FLAGS
  /\ pm \in {"on", "notifyOff", "off", "gateOn"}
  /\ hststs \in SUBSET STATUS_FLAGS
  /\ hstint \in BOOLEAN
  /\ inflight \in Call \cup {NoCall}
  /\ dat0 \in Datum
  /\ blkdat \in Datum
  /\ e32b \in BOOLEAN
  /\ crce \in BOOLEAN
  /\ ntfy \in BOOLEAN
  /\ intren \in BOOLEAN

(* The state start() leaves: notifications enabled, the gate enabled, the  *)
(* status the BIOS, which polls, may have left behind in the host          *)
(* controller, and an adapter->status that nobody has initialised.         *)
Init ==
  /\ pc = [c \in Call |-> "new"]
  /\ op = [c \in Call |-> "readBlockData"]
  /\ try = [c \in Call |-> 0]
  /\ ret = [c \in Call |-> "OK"]
  /\ got = [c \in Call |-> {}]
  /\ bus = [c \in Call |-> "none"]
  /\ status \in Garbage
  /\ pm = "on"
  /\ hststs \in {{}, {"INTR"}, {"FAILED"}}
  /\ hstint = FALSE
  /\ inflight = NoCall
  /\ dat0 = Request(NoCall)
  /\ blkdat = Request(NoCall)
  /\ e32b = FALSE
  /\ crce \in BOOLEAN
  /\ ntfy = FALSE
  /\ intren = TRUE

-----------------------------------------------------------------------------
(* The command gate *)

GateFree    == \A c \in Call : pc[c] \notin Gated
GateIgnoresPower == TRUE
GateEnabled == pm # "off"          \* between disableCommandGate and enable()

Move(c, from, to) == pc[c] = from /\ pc' = [pc EXCEPT ![c] = to]

(* A thread calls transfer, which asks the gate to run transferGated.      *)
transfer(c) ==
  /\ c \notin NotifyCall
  /\ Move(c, "new", "gate")
  /\ \E p \in Protocol : op' = [op EXCEPT ![c] = p]
  /\ UNCHANGED <<try, ret, got, bus, status, pm, hststs, hstint, inflight, dataVars, e32b, crce, ntfyVars>>

(* runAction has the gate, which is enabled: transferGated begins.         *)
transferGated(c) ==
  /\ GateFree /\ GateEnabled
  /\ Move(c, "gate", "setup")
  /\ UNCHANGED <<op, try, ret, got, bus, status, pm, hststs, hstint, inflight, dataVars, e32b, crce, ntfyVars>>

(* i801_set_block_buffer_mode: the buffer is one bit for everybody.        *)
BufferForWrites(c) == e32b' = (e32b \/ op[c] = "writeBlockData")

i801_set_block_buffer_mode(c) == e32b' = (e32b \/ op[c] \in Blocks)

(* The data of a write goes into the registers, whatever the host is doing.*)
ForgetsLength(c) ==
  /\ dat0'   = IF op[c] = "writeByteData" THEN Request(c) ELSE dat0
  /\ blkdat' = IF op[c] = "writeBlockData" THEN Request(c) ELSE blkdat

LoadData(c) ==
  /\ dat0'   = IF op[c] \in {"writeByteData", "writeBlockData"} THEN Request(c) ELSE dat0
  /\ blkdat' = IF op[c] = "writeBlockData" THEN Request(c) ELSE blkdat

(* i801_access up to i801_transaction. *)
i801_access(c) ==
  /\ Move(c, "setup", "pre")
  /\ LoadData(c)
  /\ i801_set_block_buffer_mode(c)
  /\ UNCHANGED <<op, try, ret, got, bus, status, pm, hststs, hstint, inflight, crce, ntfyVars>>

-----------------------------------------------------------------------------
(* i801_transaction *)

(* i801_check_pre finds the host busy, or a flag that does not clear.      *)
CheckPreFails(c) ==
  /\ Move(c, "pre", "post")
  /\ ret' = [ret EXCEPT ![c] = "EBUSY"]
  /\ \/ inflight # NoCall /\ UNCHANGED hststs
     \/ inflight = NoCall /\ hststs # {} /\ UNCHANGED hststs
     \/ inflight = NoCall /\ crce /\ hststs' = {}
  /\ UNCHANGED <<op, try, got, bus, status, pm, hstint, inflight, dataVars, e32b, crce, ntfyVars>>

(* i801_check_pre succeeds: the host is idle, and whatever flags were      *)
(* pending, of whatever transaction, are cleared.                          *)
PreKeepsFlags == inflight = NoCall /\ UNCHANGED hststs /\ crce' = FALSE
PreIgnoresBusy == hststs' = {} /\ crce' = FALSE
PreKeepsPecError == inflight = NoCall /\ hststs' = {} /\ UNCHANGED crce

i801_check_pre == inflight = NoCall /\ hststs' = {} /\ crce' = FALSE

(* The transaction is started, and commandSleep opens the gate.            *)
StartAndSleep(c) ==
  /\ Move(c, "pre", "sleep")
  /\ i801_check_pre
  /\ hstint' = TRUE
  /\ inflight' = c
  /\ bus' = [bus EXCEPT ![c] = "open"]
  /\ UNCHANGED <<op, try, ret, got, status, pm, dataVars, e32b, ntfyVars>>

(* The error i801_check_post makes of a status; a later test overrides an  *)
(* earlier one.                                                            *)
PostIgnoresFailed(flags, pec) ==
  IF "BUS_ERR" \in flags THEN "EAGAIN"
  ELSE IF "DEV_ERR" \in flags THEN (IF pec THEN "EBADMSG" ELSE "ENXIO") ELSE "OK"

i801_check_post(flags, pec) ==
  IF "BUS_ERR" \in flags THEN "EAGAIN"
  ELSE IF "DEV_ERR" \in flags THEN (IF pec THEN "EBADMSG" ELSE "ENXIO")
  ELSE IF "FAILED" \in flags THEN "EIO" ELSE "OK"

(* commandSleep returns with the gate: take adapter->status, reset it, let *)
(* i801_check_post turn it into a result and clear those flags in SMBHSTSTS*)
(* once more.                                                              *)
TakeStatus(c) ==
  /\ GateFree
  /\ Move(c, "wake", "post")
  /\ ret' = [ret EXCEPT ![c] = i801_check_post(status, crce)]
  /\ crce' = (crce /\ "DEV_ERR" \notin status)
  /\ hststs' = hststs \ status
  /\ status' = {}
  /\ UNCHANGED <<op, try, got, bus, pm, hstint, inflight, dataVars, e32b, ntfyVars>>

(* commandSleep returns THREAD_TIMED_OUT.  The thread may have been timed  *)
(* out before a wake-up that came while it was waiting for the gate.       *)
TimeOut(c) ==
  /\ SleepTimesOut
  /\ GateFree
  /\ Move(c, "sleep", "post") \/ Move(c, "wake", "post")
  /\ ret' = [ret EXCEPT ![c] = "ETIMEDOUT"]
  /\ UNCHANGED <<op, try, got, bus, status, pm, hststs, hstint, inflight, dataVars, e32b, crce, ntfyVars>>

-----------------------------------------------------------------------------
(* i801_access from i801_transaction on, and the loop of transferGated *)

RetryTimedOut(c) == ret[c] \in {"EAGAIN", "ETIMEDOUT"} /\ try[c] < Retries

Retry(c) == ret[c] = "EAGAIN" /\ try[c] < Retries

RetryForever(c) == UNCHANGED try

CountTry(c) == try' = [try EXCEPT ![c] = @ + 1]

BufferOffOnSuccess(c) == e32b' = (e32b /\ ~ (op[c] \in Blocks /\ ret[c] = "OK"))

BufferOff(c) == e32b' = (e32b /\ op[c] \notin Blocks)

(* The registers a successful read is copied from.                         *)
Collected(c) ==
  IF op[c] \notin Reads THEN {}
  ELSE IF op[c] \in Blocks THEN {dat0, blkdat} ELSE {dat0}

(* The access ends: a block operation turns the buffer off, a read copies  *)
(* its data, a block length out of 1..32 is a protocol error, and lost     *)
(* arbitration starts the next try without giving the gate up.             *)
LeaveAccess(c) ==
  /\ BufferOff(c)
  /\ \/ /\ Retry(c)
        /\ Move(c, "post", "setup")
        /\ CountTry(c)
        /\ UNCHANGED <<ret, got>>
     \/ /\ ~ Retry(c)
        /\ Move(c, "post", "done")
        /\ got' = [got EXCEPT ![c] = IF ret[c] = "OK" THEN Collected(c) ELSE {}]
        /\ UNCHANGED <<try, ret>>
     \/ /\ ret[c] = "OK" /\ op[c] = "readBlockData"
        /\ Move(c, "post", "done")
        /\ ret' = [ret EXCEPT ![c] = "EPROTO"]
        /\ UNCHANGED <<try, got>>
  /\ UNCHANGED <<op, bus, status, pm, hststs, hstint, inflight, dataVars, crce, ntfyVars>>

-----------------------------------------------------------------------------
(* VoodooSMBusControllerDriver::handleInterrupt, on the work loop thread   *)
(* with the gate closed                                                    *)

InterruptPending == (ntfy /\ intren) \/ (hststs # {} /\ hstint)

(* The nub starts a thread that has the attached driver read the report.   *)
handleHostNotifyThreaded(n) ==
  /\ Move(n, "new", "gate")
  /\ op' = [op EXCEPT ![n] = "readBlockData"]

(* A host notify goes first and ends the handler.  No thread comes of it   *)
(* if none can be created or no driver is attached to the nub.             *)
HandleHostNotify ==
  /\ GateFree /\ InterruptPending
  /\ ntfy
  /\ ntfy' = FALSE
  /\ \/ \E n \in NotifyCall : handleHostNotifyThreaded(n)
     \/ UNCHANGED <<pc, op>>
  /\ UNCHANGED <<try, ret, got, bus, status, pm, hststs, hstint, inflight, dataVars, e32b, crce, intren>>

(* commandWakeup(&adapter->status) wakes every thread that sleeps on it.   *)
WakeOnSuccess ==
  pc' = [c \in Call |-> IF pc[c] = "sleep" /\ "INTR" \in hststs THEN "wake" ELSE pc[c]]

commandWakeup == pc' = [c \in Call |-> IF pc[c] = "sleep" THEN "wake" ELSE pc[c]]

(* Otherwise the flags of SMBHSTSTS are cleared, stored in adapter->status *)
(* and the sleepers are woken.                                             *)
HandleCompletion ==
  /\ GateFree /\ InterruptPending
  /\ ~ ntfy
  /\ hststs' = {}
  /\ status' = hststs
  /\ commandWakeup
  /\ UNCHANGED <<op, try, ret, got, bus, pm, hstint, inflight, dataVars, e32b, crce, ntfyVars>>

-----------------------------------------------------------------------------
(* VoodooSMBusControllerDriver::setPowerState *)

(* Power off, first step: disableHostNotify, without the gate.             *)
DisableHostNotify ==
  /\ PowerManaged
  /\ pm = "on"
  /\ pm' = "notifyOff"
  /\ intren' = BiosNotify
  /\ UNCHANGED <<callVars, bus, status, hststs, hstint, inflight, dataVars, e32b, crce, ntfy>>

(* Second step: disableCommandGate, run in the gate, and awake = false.    *)
(* The write to SMBHSTCFG goes to an I/O port, not to configuration space, *)
(* and changes nothing here.                                               *)
DisableCommandGate ==
  /\ GateFree
  /\ pm = "notifyOff"
  /\ pm' = "off"
  /\ UNCHANGED <<callVars, bus, status, hststs, hstint, inflight, dataVars, e32b, crce, ntfyVars>>

(* Power on: the gate is enabled ...                                       *)
EnableCommandGate ==
  /\ GateFree
  /\ pm = "off"
  /\ pm' = "gateOn"
  /\ UNCHANGED <<callVars, bus, status, hststs, hstint, inflight, dataVars, e32b, crce, ntfyVars>>

(* ... then enableHostNotify, and awake = true.                            *)
EnableHostNotify ==
  /\ pm = "gateOn"
  /\ pm' = "on"
  /\ intren' = (intren \/ ~ BiosNotify)
  /\ ntfy' = FALSE
  /\ UNCHANGED <<callVars, bus, status, hststs, hstint, inflight, dataVars, e32b, crce>>

-----------------------------------------------------------------------------
(* The host controller and the touchpad, as the driver uses them *)

(* The transaction on the wire ends: INTR or one of the error flags.  The  *)
(* answer to a read is in the data registers.                              *)
HostCompletes ==
  /\ inflight # NoCall
  /\ inflight' = NoCall
  /\ \E flag \in STATUS_FLAGS :
       /\ hststs' = hststs \cup {flag}
       /\ bus' = [bus EXCEPT ![inflight] = IF flag = "INTR" THEN "ok" ELSE "failed"]
       /\ IF flag = "INTR" /\ op[inflight] \in Reads
            THEN /\ dat0' = Answer(inflight)
                 /\ blkdat' = IF op[inflight] \in Blocks THEN Answer(inflight) ELSE blkdat
            ELSE UNCHANGED dataVars
  /\ UNCHANGED <<callVars, status, pm, hstint, e32b, crce, ntfyVars>>

(* The touchpad has a report; the host takes no second notify before the   *)
(* driver has cleared the first.                                           *)
TouchpadNotifies ==
  /\ ~ ntfy
  /\ ntfy' = TRUE
  /\ UNCHANGED <<callVars, bus, status, pm, hststs, hstint, inflight, dataVars, e32b, crce, intren>>

(* While the driver is off the host controller loses power, and with it    *)
(* the transaction it was executing; SMBSLVCMD is what the firmware makes  *)
(* it.  A thread that is able to run has run by then.                      *)
PowerIsLost ==
  /\ pm = "off"
  /\ \A c \in Call : pc[c] \notin Gated \cup {"wake"}
  /\ bus' = [c \in Call |-> IF c = inflight THEN "failed" ELSE bus[c]]
  /\ hststs' = {}
  /\ hstint' = FALSE
  /\ inflight' = NoCall
  /\ dat0' = Request(NoCall)
  /\ blkdat' = Request(NoCall)
  /\ e32b' = FALSE
  /\ crce' = FALSE
  /\ ntfy' = FALSE
  /\ intren' \in {FALSE, BiosNotify}
  /\ UNCHANGED <<callVars, status, pm>>

-----------------------------------------------------------------------------
(* What a thread does inside transferGated of its own accord. *)
Progress(c) ==
  \/ i801_access(c)
  \/ CheckPreFails(c)
  \/ StartAndSleep(c)
  \/ TakeStatus(c)
  \/ LeaveAccess(c)

handleInterrupt == HandleHostNotify \/ HandleCompletion

setPowerState == DisableHostNotify \/ DisableCommandGate \/ EnableCommandGate \/ EnableHostNotify

Environment == HostCompletes \/ TouchpadNotifies \/ PowerIsLost

Next ==
  \/ \E c \in Call : transfer(c) \/ transferGated(c) \/ Progress(c) \/ TimeOut(c)
  \/ handleInterrupt
  \/ setPowerState
  \/ Environment

Spec == Init /\ [][Next]_vars

(* Threads that can run do, and the host ends every transaction (SMBus     *)
(* gives a slave 25 to 35 ms).  Nothing obliges a sleeper to time out:     *)
(* commandSleep is given no deadline.  The handler serves a host notify    *)
(* before a completion, so the latter needs strong fairness: the touchpad  *)
(* reports every few milliseconds at most, and the handler is much faster. *)
(* Nobody has to call transfer, to send a notify, or to change the power   *)
(* state.                                                                  *)
Fairness ==
  /\ \A c \in Call : WF_vars(Progress(c))
  /\ WF_vars(HostCompletes)
  /\ WF_vars(HandleHostNotify)
  /\ SF_vars(HandleCompletion)

FairSpec == Spec /\ Fairness /\ \A c \in Call : WF_vars(transferGated(c))

-----------------------------------------------------------------------------
(* What holds of the calls as they are, interleaved at every commandSleep *)

(* While a transaction is on the wire SMBHSTSTS holds no flag of an        *)
(* earlier one: i801_check_pre has cleared them, so the next interrupt is  *)
(* about this transaction.                                                 *)
FlagsAreOfThisTransaction == inflight # NoCall => hststs = {}

(* No call of transfer returns success while its own transaction is still  *)
(* on the wire, or was never on it: a wake-up meant for somebody else      *)
(* comes only after that, because the host is not started again before it. *)
SuccessAfterCompletion ==
  \A c \in Call : pc[c] = "done" /\ ret[c] = "OK" => bus[c] \in {"ok", "failed"}

(* The block buffer is on only while some block operation is in progress:  *)
(* whatever way i801_access is left, "we forcibly disable it after every   *)
(* transaction".                                                           *)
BlockBufferScoped ==
  e32b => \E c \in Call : op[c] \in Blocks /\ pc[c] \in Inside \ {"setup"}

(* A PEC error flag the firmware left behind is never taken for an error   *)
(* of a later transaction: none of them uses PEC, so none returns EBADMSG. *)
StalePecErrorNotBlamed == \A c \in Call : ret[c] # "EBADMSG"

(* Once the gate is disabled no call starts a transaction, except one that *)
(* was asleep in commandSleep and lost arbitration: transferGated retries  *)
(* without asking the gate again.                                          *)
OffStartsOnlyRetries ==
  [][\A c \in Call : pm = "off" /\ inflight' = c /\ inflight # c => try[c] > 0]_vars

(* A call that waits for the gate or is inside it returns in the end,      *)
(* whoever else uses the controller meanwhile, unless the system goes to   *)
(* sleep.                                                                  *)
EveryCallReturns ==
  \A c \in Call : pc[c] \in Inside \cup {"gate"} ~> pc[c] = "done" \/ pm = "off"

(* The safety half of it: no step of anybody takes a call back.  Every     *)
(* step that moves a call brings it nearer to its return, retries          *)
(* included, so it takes at most 5 * Retries + 7 of them.                  *)
StagesLeft ==
  [new |-> 7, gate |-> 6, setup |-> 5, pre |-> 4, sleep |-> 3, wake |-> 2, post |-> 1, done |-> 0]

StepsLeft(c) == 5 * (Retries - try[c]) + StagesLeft[pc[c]]

CallsAdvance ==
  [][\A c \in Call : <<pc[c], try[c]>>' # <<pc[c], try[c]>> => StepsLeft(c)' < StepsLeft(c)]_vars

-----------------------------------------------------------------------------
(* What makes those safety properties inductive *)

(* The command gate admits one thread at a time. *)
OneInTheGate == \A c, d \in Call : pc[c] \in Gated /\ pc[d] \in Gated => c = d

(* The host executes the one transaction that is not over. *)
OpenIsInFlight == \A c \in Call : bus[c] = "open" <=> inflight = c

(* A wake-up finds no transaction on the wire, so a call that has been     *)
(* woken has seen its own end.                                             *)
SleeperHasStarted == \A c \in Call : pc[c] = "sleep" => bus[c] # "none"

WokenIsOver ==
  \A c \in Call :
    pc[c] = "wake" \/ (pc[c] \in {"post", "done"} /\ ret[c] = "OK") => bus[c] \in {"ok", "failed"}

(* The PEC error of the firmware is gone once a transaction was started.   *)
NoPecErrorWhileAsleep == \A c \in Call : pc[c] \in {"sleep", "wake"} => ~ crce

(* With the gate disabled only a retry is about to start a transaction.    *)
OffMeansRetry == pm = "off" => \A c \in Call : pc[c] \in {"setup", "pre"} => try[c] > 0

(* No call in front of the gate has had a transaction, and with the gate   *)
(* disabled no call inside it is without one.                              *)
NotStarted == \A c \in Call : pc[c] \in {"new", "gate"} => bus[c] = "none"

OffMeansStarted == pm = "off" => \A c \in Call : pc[c] \in Gated => bus[c] # "none"

(* The end of a transaction will interrupt. *)
HostInterrupts == inflight # NoCall => hstint

(* All together, and the properties they are for, hold in every state:     *)
(* whatever order the sleepers, the handler and the power manager run in.  *)
IInv ==
  /\ TypeOK
  /\ OneInTheGate
  /\ OpenIsInFlight
  /\ SleeperHasStarted
  /\ WokenIsOver
  /\ NoPecErrorWhileAsleep
  /\ OffMeansRetry
  /\ NotStarted
  /\ OffMeansStarted
  /\ HostInterrupts
  /\ FlagsAreOfThisTransaction
  /\ BlockBufferScoped
  /\ StalePecErrorNotBlamed

-----------------------------------------------------------------------------
(* What the comments of the source say of them *)

(* VoodooSMBusControllerDriver.hpp says of readByteData and readBlockData  *)
(* that they return "negative errno else" the data "received from the      *)
(* device": a read that succeeds returns the answer to its own request.    *)
ReadsOwnAnswer ==
  \A c \in Call :
    pc[c] = "done" /\ ret[c] = "OK" /\ op[c] \in Reads => got[c] = {Answer(c)}

(* writeByteData: "value: Byte being written", writeBlockData: "values:     *)
(* Byte array which will be written".  When the host is started the data   *)
(* registers hold what this call has put there.                            *)
RequestReady(c) ==
  /\ op[c] \in {"writeByteData", "writeBlockData"} => dat0 = Request(c)
  /\ op[c] = "writeBlockData" => blkdat = Request(c)

SendsOwnRequest ==
  [][\A c \in Call : inflight' = c /\ inflight # c => RequestReady(c)]_vars

-----------------------------------------------------------------------------
(* What the driver's life cycle sees of the calls *)

(* A call that has never started the host is still asking; one that has is *)
(* asleep, or woken, whatever else it does.                                *)
GateStage(c) ==
  IF pc[c] \notin {"gate"} \cup Gated THEN pc[c]
  ELSE IF bus[c] = "none" THEN "ask" ELSE "wake"

Calls == INSTANCE GateCalls
           WITH stage <- [c \in Call |-> GateStage(c)],
                gate  <- IF pm = "off" THEN "off" ELSE "on",
                wire  <- {c \in Call : inflight = c},
                ended <- hststs # {} /\ hstint

(* To the gate and the host controller every call of transfer behaves as   *)
(* GateCalls says, which is all that ControllerLifecycle knows of a call:  *)
(* it starts the host at most once per sleep and only with the host idle,  *)
(* and what it clears on its way are ends, never running transactions.     *)
ImplementsGateCalls == Calls!Spec

=============================================================================
