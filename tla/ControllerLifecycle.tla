------------------------- MODULE ControllerLifecycle -------------------------
(***************************************************************************)
(* The life of VoodooSMBusControllerDriver: start and the exits it takes   *)
(* when a step fails, publishNub, stop, releaseResources, and what goes on *)
(* at the same time: calls of getWorkLoop, setPowerState, the interrupt    *)
(* handler, the threads it has the nub start, and calls of transfer.       *)
(*                                                                         *)
(* start, stop and releaseResources run on an IOKit thread that holds no   *)
(* lock of the driver; removeEventSource waits for the work loop's gate,   *)
(* everything else in them does not.  What transfer does on the wire is    *)
(* I801Controller; here a call is in the gate, asleep, or gone.            *)
(*                                                                         *)
(* A use of something that is gone is a kernel panic or worse: it is       *)
(* recorded in fault and nothing happens after it.                         *)
(***************************************************************************)
EXTENDS WorkLoopInit

CONSTANT Call \* calls of transfer, each made at most once

VARIABLES
  life,       \* how far start, or stop, has got
  pm,         \* how far setPowerState has got, "none" before and after
  loopRefs,   \* references to each work loop
  irq,        \* interrupt_source
  gate,       \* command_gate
  nub,        \* the nub: is it in device_nubs?
  nubRefs,    \* references to it
  client,     \* the touchpad driver on the nub
  intren,     \* SMBSLVCMD_HST_NTFY_INTREN
  original,   \* the same bit of adapter->original_slvcmd
  pci,        \* pci_device is there and open
  handler,    \* where handleInterrupt is
  ntfy,       \* SMBSLVSTS: a host notify was received
  wire,       \* the calls whose transaction the host is executing
  hststs,     \* SMBHSTSTS: a transaction has ended
  pc,         \* where each call of transfer is
  early,      \* history: setPowerState has been called before start was over
  late,       \* history: what was not over when releaseResources began
  fault       \* the first use of something that is gone

loops     == <<loopVars, loopRefs>>
sources   == <<irq, gate>>
nubVars   == <<nub, nubRefs, client>>
powerVars == <<pm, intren, original>>
busVars   == <<handler, ntfy, wire, hststs, pc>>
history   == <<early, late>>
vars == <<life, loops, sources, nubVars, pci, powerVars, busVars, history, fault>>

-----------------------------------------------------------------------------
(* start goes through Starting in this order to "up"; releaseResources     *)
(* through Releasing, to "failed" if start failed and over "pmstop" to     *)
(* "stopped" if it was stop.  "refused": an early return of start.         *)
Starting  == {"new", "loop", "irq", "gate", "power", "nub", "irqOn", "notifyOn"}
Releasing == {"quiet", "nubs", "gateOut", "gateNull", "irqOut", "loopOut"}
Over      == {"refused", "failed", "stopped"}

(* An event source is null, made, added to the work loop; the interrupt    *)
(* source is then enabled, the gate closed and opened by setPowerState, and*)
(* removed from the work loop before the pointer is cleared.               *)
IrqState  == {"null", "made", "added", "enabled"}
GateState == {"null", "made", "enabled", "disabled", "removed"}

CallStage == {"new", "thread", "ask", "sleep", "wake", "done"}
Cause     == {"call", "notify", "power"}
Fault     == {"none", "loop", "gate", "wakeup", "sleeper", "nub", "thread", "power"}

Loops == 2..MaxLoops + 1

DriverTypeOK ==
  /\ life \in Starting \cup Releasing \cup Over \cup {"up", "pmstop"}
  /\ pm \in {"none", "on", "notifyOff", "off", "gateOn"}
  /\ loopRefs \in [Loops -> 0..2]
  /\ irq \in IrqState
  /\ gate \in GateState
  /\ nub \in {"none", "listed", "dropped"}
  /\ nubRefs \in 0..4
  /\ client \in {"none", "attached", "gone"}
  /\ intren \in BOOLEAN
  /\ original \in BOOLEAN
  /\ pci \in BOOLEAN
  /\ handler \in {"idle", "nub", "wakeup"}
  /\ ntfy \in BOOLEAN
  /\ wire \in SUBSET Call
  /\ hststs \in BOOLEAN
  /\ pc \in [Call -> CallStage]
  /\ early \in BOOLEAN
  /\ late \in SUBSET Cause
  /\ fault \in Fault

TypeOK == LoopTypeOK /\ DriverTypeOK

(* init() has run; the host is as the BIOS has left it. *)
Init ==
  /\ LoopInit
  /\ life = "new"
  /\ pm = "none"
  /\ loopRefs = [l \in Loops |-> 0]
  /\ irq = "null"
  /\ gate = "null"
  /\ nub = "none"
  /\ nubRefs = 0
  /\ client = "none"
  /\ intren \in BOOLEAN
  /\ original = intren
  /\ pci = FALSE
  /\ handler = "idle"
  /\ ntfy = FALSE
  /\ wire = {}
  /\ hststs = FALSE
  /\ pc = [c \in Call |-> "new"]
  /\ early = FALSE
  /\ late = {}
  /\ fault = "none"

Run(from, to) == life = from /\ life' = to

(* The work loop's gate is closed while the handler runs; calls of transfer*)
(* hold it for single steps here.                                          *)
GateFree == handler = "idle"

-----------------------------------------------------------------------------
(* VoodooSMBusControllerDriver::start *)

(* The provider is no PCI device, or cannot be opened, or the SMBus is     *)
(* disabled or in SMI mode: start returns without releasing anything, in   *)
(* the last two cases with the PCI device open.                            *)
StartRefuses ==
  /\ Run("new", "refused")
  /\ pci' \in BOOLEAN
  /\ UNCHANGED <<loops, sources, nubVars, powerVars, busVars, history, fault>>

StartOpens ==
  /\ Run("new", "loop")
  /\ pci' = TRUE
  /\ UNCHANGED <<loops, sources, nubVars, powerVars, busVars, history, fault>>

(* work_loop = getWorkLoop(), or goto exit. *)
StartGetsLoop ==
  /\ StoreWorkLoop
  /\ Run("loop", IF work_loop' = Null THEN "quiet" ELSE "irq")
  /\ UNCHANGED <<loopRefs, sources, nubVars, pci, powerVars, busVars, history, fault>>

(* interruptEventSource, work_loop->addEventSource, or goto exit.  The     *)
(* marker of another caller passes the test for Null, but is no work loop. *)
StartAddsInterrupt ==
  /\ \/ irq' = "null"  /\ Run("irq", "quiet") /\ UNCHANGED fault
     \/ irq' = "made"  /\ IsLoop(work_loop) /\ Run("irq", "quiet") /\ UNCHANGED fault
     \/ irq' = "added" /\ IsLoop(work_loop) /\ Run("irq", "gate") /\ UNCHANGED fault
     \/ irq' = irq /\ ~ IsLoop(work_loop) /\ Run("irq", "irq") /\ fault' = "loop"
  /\ UNCHANGED <<loops, gate, nubVars, pci, powerVars, busVars, history>>

(* commandGate, work_loop->addEventSource, or goto exit. *)
StartAddsGate ==
  /\ \/ gate' = "null" /\ Run("gate", "quiet")
     \/ gate' = "made" /\ Run("gate", "quiet")
     \/ gate' = "enabled" /\ Run("gate", "power")
  /\ UNCHANGED <<loops, irq, nubVars, pci, powerVars, busVars, history, fault>>

(* work_loop->retain(), PMinit, joinPMtree, registerPowerDriver. *)
StartJoinsPower ==
  /\ Run("power", "nub")
  /\ loopRefs' = [loopRefs EXCEPT ![work_loop] = @ + 1]
  /\ pm' = "on"
  /\ UNCHANGED <<loopVars, sources, nubVars, pci, intren, original, busVars, history,
                 fault>>

(* publishNub: allocated, attached (the registry holds a reference) and    *)
(* put into device_nubs (so does the dictionary); its own reference is     *)
(* never given back.  start ignores the failures: nothing allocated, not   *)
(* attached, or attached but not started.                                  *)
NubReleasedOnceListed ==
  /\ Run("nub", "irqOn")
  /\ \/ nub' = "listed" /\ nubRefs' = 2
     \/ UNCHANGED <<nub, nubRefs>>
     \/ nub' = "dropped" /\ nubRefs' = 1
  /\ UNCHANGED <<loops, sources, client, pci, powerVars, busVars, history, fault>>

publishNub ==
  /\ Run("nub", "irqOn")
  /\ \/ nub' = "listed" /\ nubRefs' = 3
     \/ UNCHANGED <<nub, nubRefs>>
     \/ nub' = "dropped" /\ nubRefs' = 1
  /\ UNCHANGED <<loops, sources, client, pci, powerVars, busVars, history, fault>>

(* interrupt_source->enable(). *)
StartEnablesInterrupt ==
  /\ Run("irqOn", "notifyOn")
  /\ irq' = "enabled"
  /\ UNCHANGED <<loops, gate, nubVars, pci, powerVars, busVars, history, fault>>

(* enableHostNotify leaves a register alone in which the BIOS had set the  *)
(* bit already; it clears a notify that was received.                      *)
EnablesIfOriginal == intren' = (intren \/ original) /\ ntfy' = FALSE

enableHostNotify == intren' = (intren \/ ~ original) /\ ntfy' = FALSE

DisableClears == intren' = FALSE

disableHostNotify == intren' = original

(* enableHostNotify, registerService, return true. *)
StartEnablesNotify ==
  /\ Run("notifyOn", "up")
  /\ enableHostNotify
  /\ UNCHANGED <<loops, sources, nubVars, pci, pm, original, handler, wire, hststs, pc,
                 history, fault>>

start ==
  \/ StartRefuses \/ StartOpens \/ StartGetsLoop \/ StartAddsInterrupt \/ StartAddsGate
  \/ StartJoinsPower \/ publishNub \/ StartEnablesInterrupt \/ StartEnablesNotify

-----------------------------------------------------------------------------
(* VoodooSMBusControllerDriver::releaseResources and stop *)

InFlight == {c \in Call : pc[c] \notin {"new", "done"}}

(* What is still going on when releaseResources begins. *)
StillRunning ==
  {cause \in Cause :
     \/ cause = "call" /\ (wire # {} \/ hststs \/ handler = "wakeup" \/ InFlight # {})
     \/ cause = "notify" /\ (ntfy \/ handler = "nub")
     \/ cause = "power" /\ pm \notin {"none", "on"}}

(* IOKit stops the driver after the clients of its nub. *)
StopBeforeClients ==
  /\ Run("up", "quiet")
  /\ late' = StillRunning
  /\ UNCHANGED <<loops, sources, nubVars, pci, powerVars, busVars, early, fault>>

stop ==
  /\ client # "attached"
  /\ Run("up", "quiet")
  /\ late' = StillRunning
  /\ UNCHANGED <<loops, sources, nubVars, pci, powerVars, busVars, early, fault>>

ReleaseQuiet ==
  /\ Run("quiet", "nubs")
  /\ disableHostNotify
  /\ UNCHANGED <<loops, sources, nubVars, pci, pm, original, busVars, history, fault>>

(* The nubs are detached, which drops the registry's reference, and        *)
(* device_nubs is flushed, which drops the dictionary's.                   *)
ReleaseNubs ==
  /\ Run("nubs", IF gate = "null" THEN "irqOut" ELSE "gateOut")
  /\ nub' = IF nub = "listed" THEN "dropped" ELSE nub
  /\ nubRefs' = IF nub = "listed" THEN nubRefs - 2 ELSE nubRefs
  /\ UNCHANGED <<loops, sources, client, pci, powerVars, busVars, history, fault>>

ReleaseAwaitsCalls ==
  /\ GateFree /\ InFlight = {}
  /\ Run("gateOut", "gateNull")
  /\ gate' = "removed"
  /\ UNCHANGED <<loops, irq, nubVars, pci, powerVars, busVars, history, fault>>

ReleaseGate ==
  /\ GateFree
  /\ Run("gateOut", "gateNull")
  /\ gate' = "removed"
  /\ UNCHANGED <<loops, irq, nubVars, pci, powerVars, busVars, history, fault>>

(* command_gate->release(); command_gate = NULL. *)
ReleaseGateObject ==
  /\ Run("gateNull", "irqOut")
  /\ gate' = "null"
  /\ UNCHANGED <<loops, irq, nubVars, pci, powerVars, busVars, history, fault>>

ReleaseAddedInterrupt ==
  /\ GateFree \/ irq = "null"
  /\ Run("irqOut", "loopOut")
  /\ irq' = IF irq = "made" THEN irq ELSE "null"
  /\ UNCHANGED <<loops, gate, nubVars, pci, powerVars, busVars, history, fault>>

ReleaseInterrupt ==
  /\ GateFree \/ irq = "null"
  /\ Run("irqOut", "loopOut")
  /\ irq' = "null"
  /\ UNCHANGED <<loops, gate, nubVars, pci, powerVars, busVars, history, fault>>

(* OSSafeReleaseNULL(work_loop) takes the marker for an object too.  Then  *)
(* the PCI device is closed.                                               *)
ReleaseLoop ==
  /\ \/ /\ work_loop = Marker
        /\ Run("loopOut", "loopOut")
        /\ fault' = "loop"
        /\ UNCHANGED <<loops, pci>>
     \/ /\ work_loop # Marker
        /\ Run("loopOut", IF pm = "none" THEN "failed" ELSE "pmstop")
        /\ DropWorkLoop
        /\ loopRefs' = [l \in Loops |-> IF l = work_loop THEN loopRefs[l] - 1 ELSE loopRefs[l]]
        /\ pci' = FALSE
        /\ UNCHANGED fault
  /\ UNCHANGED <<sources, nubVars, powerVars, busVars, history>>

(* stop: PMstop, after releaseResources. *)
PMstop ==
  /\ pm \in {"on", "off"}
  /\ Run("pmstop", "stopped")
  /\ pm' = "none"
  /\ UNCHANGED <<loops, sources, nubVars, pci, intren, original, busVars, history, fault>>

releaseResources ==
  \/ ReleaseQuiet \/ ReleaseNubs \/ ReleaseGate \/ ReleaseGateObject
  \/ ReleaseInterrupt \/ ReleaseLoop

-----------------------------------------------------------------------------
(* VoodooSMBusControllerDriver::setPowerState, called by the power         *)
(* management thread from registerPowerDriver to PMstop                    *)

(* Records a call that finds the driver starting, or being torn down. *)
PowerChange ==
  /\ early' = (early \/ life \in Starting)
  /\ late' = IF life \in Releasing \cup {"pmstop"} THEN late \cup {"power"} ELSE late

(* A member of the driver is used unless it has been cleared. *)
UseGate == fault' = IF gate = "null" THEN "power" ELSE fault
UsePci  == fault' = IF pci THEN fault ELSE "power"

(* Power off: disableHostNotify, ... *)
PowerOffNotify ==
  /\ pm = "on" /\ pm' = "notifyOff"
  /\ disableHostNotify
  /\ UsePci
  /\ PowerChange
  /\ UNCHANGED <<life, loops, sources, nubVars, pci, original, busVars>>

(* ... command_gate->runAction(disableCommandGate), which does nothing to  *)
(* a gate that has been removed, and awake = false.                        *)
PowerOffGate ==
  /\ GateFree
  /\ pm = "notifyOff" /\ pm' = "off"
  /\ gate' = IF gate = "enabled" THEN "disabled" ELSE gate
  /\ UseGate
  /\ PowerChange
  /\ UNCHANGED <<life, loops, irq, nubVars, pci, intren, original, busVars>>

(* Power on: command_gate->enable(), ... *)
PowerOnGate ==
  /\ pm = "off" /\ pm' = "gateOn"
  /\ gate' = IF gate = "disabled" THEN "enabled" ELSE gate
  /\ UseGate
  /\ PowerChange
  /\ UNCHANGED <<life, loops, irq, nubVars, pci, intren, original, busVars>>

(* ... enableHostNotify and awake = true. *)
PowerOnNotify ==
  /\ pm = "gateOn" /\ pm' = "on"
  /\ enableHostNotify
  /\ UsePci
  /\ PowerChange
  /\ UNCHANGED <<life, loops, sources, nubVars, pci, original, handler, wire, hststs, pc>>

setPowerState == PowerOffNotify \/ PowerOffGate \/ PowerOnGate \/ PowerOnNotify

-----------------------------------------------------------------------------
(* handleInterrupt, on the work loop thread *)

InterruptPending == irq = "enabled" /\ ((ntfy /\ intren) \/ hststs)

CallsMove(from, to) == [c \in Call |-> IF pc[c] = from THEN to ELSE pc[c]]

(* A host notify: the nub is looked up in device_nubs, ... *)
HandlerFindsNub ==
  /\ GateFree /\ InterruptPending /\ ntfy
  /\ \/ nub = "listed" /\ handler' = "nub" /\ UNCHANGED ntfy
     \/ nub # "listed" /\ ntfy' = FALSE /\ UNCHANGED handler
  /\ UNCHANGED <<life, loops, sources, nubVars, pci, powerVars, wire, hststs, pc,
                 history, fault>>

(* ... told to start a thread, which may fail, and the notify is cleared.  *)
HandlerNotifiesNub ==
  /\ handler = "nub" /\ handler' = "idle"
  /\ ntfy' = FALSE
  /\ IF nubRefs = 0
       THEN fault' = "nub" /\ UNCHANGED pc
       ELSE /\ UNCHANGED fault
            /\ \/ UNCHANGED pc
               \/ \E c \in Call : pc[c] = "new" /\ pc' = [pc EXCEPT ![c] = "thread"]
  /\ UNCHANGED <<life, loops, sources, nubVars, pci, powerVars, wire, hststs, history>>

(* Otherwise the end of a transaction: the flags are cleared, ... *)
HandlerClears ==
  /\ GateFree /\ InterruptPending /\ ~ ntfy
  /\ handler' = "wakeup"
  /\ hststs' = FALSE
  /\ UNCHANGED <<life, loops, sources, nubVars, pci, powerVars, ntfy, wire, pc, history,
                 fault>>

(* ... and command_gate->commandWakeup(&adapter->status). *)
HandlerWakes ==
  /\ handler = "wakeup" /\ handler' = "idle"
  /\ IF gate = "null"
       THEN fault' = "wakeup" /\ UNCHANGED pc
       ELSE pc' = CallsMove("sleep", "wake") /\ UNCHANGED fault
  /\ UNCHANGED <<life, loops, sources, nubVars, pci, powerVars, ntfy, wire, hststs,
                 history>>

handleInterrupt == HandlerFindsNub \/ HandlerNotifiesNub \/ HandlerClears \/ HandlerWakes

-----------------------------------------------------------------------------
(* Calls of transfer *)

(* The thread the nub has started: handleHostNotifyThreaded, on a nub that *)
(* nobody retains for it, messages the driver that is attached.            *)
handleHostNotifyThreaded(c) ==
  /\ pc[c] = "thread"
  /\ IF nubRefs = 0
       THEN fault' = "thread" /\ UNCHANGED pc
       ELSE /\ pc' = [pc EXCEPT ![c] = IF client = "attached" THEN "ask" ELSE "done"]
            /\ UNCHANGED fault
  /\ UNCHANGED <<life, loops, sources, nubVars, pci, powerVars, handler, ntfy, wire,
                 hststs, history>>

(* The touchpad driver makes a call of its own. *)
ClientCalls(c) ==
  /\ client = "attached"
  /\ pc[c] = "new" /\ pc' = [pc EXCEPT ![c] = "ask"]
  /\ UNCHANGED <<life, loops, sources, nubVars, pci, powerVars, handler, ntfy, wire,
                 hststs, history, fault>>

(* Inside the gate, with the host idle. *)
StartAndSleep(c) ==
  /\ wire = {}
  /\ wire' = {c} /\ hststs' = FALSE
  /\ pc' = [pc EXCEPT ![c] = "sleep"]

(* The call returns.  i801_check_pre, or i801_check_post with the status   *)
(* of a wake-up, may have cleared the flags of whatever has ended.         *)
Leave(c) ==
  /\ pc' = [pc EXCEPT ![c] = "done"]
  /\ hststs' \in {hststs, FALSE}
  /\ UNCHANGED wire

(* transfer: command_gate->runAction, which waits for the gate to be free  *)
(* and enabled and gives up if it has been removed.  Inside, the call finds*)
(* the host busy (with anything) or starts a transaction and sleeps.       *)
transfer(c) ==
  /\ pc[c] = "ask"
  /\ \/ /\ gate = "null"
        /\ fault' = "gate"
        /\ UNCHANGED <<pc, wire, hststs>>
     \/ /\ gate = "removed"
        /\ pc' = [pc EXCEPT ![c] = "done"]
        /\ UNCHANGED <<fault, wire, hststs>>
     \/ /\ gate = "enabled" /\ GateFree
        /\ Leave(c)
        /\ UNCHANGED fault
     \/ /\ gate = "enabled" /\ GateFree
        /\ StartAndSleep(c)
        /\ UNCHANGED fault
  /\ UNCHANGED <<life, loops, sources, nubVars, pci, powerVars, handler, ntfy, history>>

(* commandSleep returns, to code that goes on using the gate: the call     *)
(* returns, or it has lost arbitration and transferGated tries again,      *)
(* enabled or not, and sleeps in a gate that must not have been removed.   *)
WakesUp(c) ==
  /\ GateFree
  /\ pc[c] = "wake"
  /\ \/ /\ gate # "null"
        /\ Leave(c)
        /\ UNCHANGED fault
     \/ /\ gate \notin {"null", "removed"}
        /\ StartAndSleep(c)
        /\ UNCHANGED fault
     \/ /\ gate \in {"null", "removed"}
        /\ fault' = "sleeper"
        /\ UNCHANGED <<pc, wire, hststs>>
  /\ UNCHANGED <<life, loops, sources, nubVars, pci, powerVars, handler, ntfy, history>>

CallSteps(c) == handleHostNotifyThreaded(c) \/ ClientCalls(c) \/ transfer(c) \/ WakesUp(c)

-----------------------------------------------------------------------------
(* Calls of getWorkLoop *)

GetWorkLoop(c) ==
  /\ c = Starter => life = "loop"
  /\ getWorkLoop(c) \/ CompareAndSwap(c) \/ Spin(c) \/ Return(c)
  /\ UNCHANGED <<life, loopRefs, sources, nubVars, pci, powerVars, busVars, history,
                 fault>>

(* A new work loop comes with one reference. *)
MakeWorkLoop(c) ==
  /\ Allocate(c)
  /\ loopRefs' = [l \in Loops |-> IF l = made' + 1 /\ made' # made THEN 1 ELSE loopRefs[l]]
  /\ UNCHANGED <<life, sources, nubVars, pci, powerVars, busVars, history, fault>>

-----------------------------------------------------------------------------
(* IOKit, the host and the touchpad, as the driver uses them *)

(* The touchpad driver is attached to the nub, which takes a reference.    *)
ClientAttaches ==
  /\ life \in Starting \cup {"up"}
  /\ nub = "listed" /\ client = "none"
  /\ client' = "attached"
  /\ nubRefs' = nubRefs + 1
  /\ UNCHANGED <<life, loops, sources, nub, pci, powerVars, busVars, history, fault>>

(* It is detached, which drops that reference.  If its stop has run, its   *)
(* releaseResources has dropped another one, which it never took.          *)
ClientDetaches ==
  /\ client = "attached"
  /\ client' = "gone"
  /\ \/ nubRefs' = nubRefs - 2
     \/ nubRefs' = nubRefs - 1
  /\ UNCHANGED <<life, loops, sources, nub, pci, powerVars, busVars, history, fault>>

HostCompletes ==
  /\ wire # {}
  /\ wire' = {} /\ hststs' = TRUE
  /\ UNCHANGED <<life, loops, sources, nubVars, pci, powerVars, handler, ntfy, pc,
                 history, fault>>

(* A touchpad that is not asleep may notify during the teardown too. *)
TouchpadNotifies ==
  /\ ~ ntfy
  /\ ntfy' = TRUE
  /\ late' = IF life \in Releasing THEN late \cup {"notify"} ELSE late
  /\ UNCHANGED <<life, loops, sources, nubVars, pci, powerVars, handler, wire, hststs,
                 pc, early, fault>>

(* The host loses power while the driver is off; the firmware may or may   *)
(* not put SMBSLVCMD back as it was.                                       *)
PowerIsLost ==
  /\ pm = "off" /\ GateFree
  /\ intren' \in {FALSE, original}
  /\ wire' = {} /\ hststs' = FALSE /\ ntfy' = FALSE
  /\ UNCHANGED <<life, loops, sources, nubVars, pci, pm, original, handler, pc, history,
                 fault>>

Environment ==
  ClientAttaches \/ ClientDetaches \/ HostCompletes \/ TouchpadNotifies \/ PowerIsLost

Alive ==
  \/ start \/ stop \/ releaseResources \/ PMstop
  \/ setPowerState
  \/ handleInterrupt
  \/ \E c \in Call : CallSteps(c)
  \/ \E c \in Caller : GetWorkLoop(c) \/ MakeWorkLoop(c)
  \/ Environment

Next == fault = "none" /\ Alive

Spec == Init /\ [][Next]_vars

(* A thread that can run does, and the work loop's lock is given to those  *)
(* who wait for it: the handler is short, and the touchpad reports every   *)
(* few milliseconds at most.                                               *)
Fairness ==
  /\ WF_vars(fault = "none" /\ handleInterrupt)
  /\ SF_vars(fault = "none" /\ releaseResources)

FairSpec == Spec /\ Fairness

-----------------------------------------------------------------------------
(* Teardown *)

(* When stop is called with no call of transfer under way, no transaction  *)
(* on the wire or just ended, no host notify pending and no change of      *)
(* power, and none of these comes up meanwhile, nothing is used after it   *)
(* is gone.  Each misuse has its own cause: a transaction that ends after  *)
(* command_gate = NULL and before interrupt_source->disable() has the      *)
(* handler wake up sleepers through NULL; a notify that is pending starts  *)
(* a thread on a nub that flushCollection frees; setPowerState finds       *)
(* command_gate NULL because PMstop comes after releaseResources.          *)
MisuseHasACause ==
  /\ fault \in {"gate", "wakeup", "sleeper"} => {"call", "notify"} \cap late # {}
  /\ fault \in {"nub", "thread"} => {"call", "notify"} \cap late # {}
  /\ fault = "power" => "power" \in late
  /\ fault = "loop" => reset

(* The references to a nub in device_nubs: the registry's and the          *)
(* dictionary's are never dropped by anybody else.  publishNub keeps the   *)
(* reference it was born with, and the touchpad driver drops one it never  *)
(* took: the two mistakes cancel each other.                               *)
NubKept == nub = "listed" => nubRefs >= 2

(* Wherever start fails after it has asked for a work loop, what it had    *)
(* made is gone: the event sources, the work loop, the open PCI device.    *)
FailedStartLeavesNothing ==
  life = "failed" =>
    /\ irq = "null" /\ gate = "null" /\ ~ pci
    /\ IsLoop(ret[Starter]) => loopRefs[ret[Starter]] = 0

(* The host's notification bit is left as the BIOS had it. *)
LeavesNotifyAsFound ==
  life \in {"failed", "stopped"} /\ "power" \notin late => intren = original

(* While the driver is up, host notifies interrupt if and only if it is    *)
(* awake, except where the BIOS had set the bit itself: then it is on in   *)
(* sleep too, and nobody sets it again when the firmware loses it.  A      *)
(* change of power during start has no such guarantee: start enables       *)
(* notifies without looking at awake.                                      *)
NotifyFollowsPower ==
  life = "up" /\ ~ early /\ ~ original => (pm = "on" => intren) /\ (pm = "off" => ~ intren)

(* releaseResources comes to its end: it waits for the handler, never for  *)
(* a call that sleeps.                                                     *)
ReleaseEnds == life = "quiet" ~> life \notin Releasing \/ fault # "none"

-----------------------------------------------------------------------------
(* What the calls of transfer see of the driver's life *)

GateStage(c) == IF pc[c] = "thread" THEN "new" ELSE pc[c]

GateSeen ==
  IF gate \in {"null", "made"} THEN "none"
  ELSE IF gate = "enabled" THEN "on"
  ELSE IF gate = "disabled" THEN "off" ELSE "removed"

Calls == INSTANCE GateCalls
           WITH stage <- [c \in Call |-> GateStage(c)],
                gate  <- GateSeen,
                wire  <- wire,
                ended <- hststs \/ handler = "wakeup",
                SleepTimesOut <- FALSE

(* From start to stop, and in a teardown that overtakes them, calls of     *)
(* transfer behave as GateCalls says, which is how they behave in detail:  *)
(* nothing start, stop or the power manager does takes a transaction from  *)
(* a sleeper, or lets a call start one through a gate that is gone.        *)
ImplementsGateCalls == Calls!Spec

(* What makes it so.  Whose transaction is on the wire sleeps, and no end  *)
(* is reported before it has come.                                         *)
OneSleeperOnWire ==
  /\ \A c, d \in wire : c = d
  /\ \A c \in wire : pc[c] = "sleep"

EndsAreReported ==
  /\ wire # {} => ~ hststs /\ handler # "wakeup"
  /\ handler = "wakeup" => ~ hststs

(* A driver that is off has closed its gate, and one that never came to    *)
(* use it has nothing that would.                                          *)
GateFollowsPower ==
  /\ pm = "off" => gate # "enabled"
  /\ gate = "made" => irq # "enabled" /\ handler = "idle" /\ \A c \in Call : pc[c] # "wake"

CallsInv == OneSleeperOnWire /\ EndsAreReported /\ GateFollowsPower

-----------------------------------------------------------------------------
(* What makes these properties inductive *)

BeforeLoop  == {"new", "loop", "refused"}
AfterLoop   == {"failed", "pmstop", "stopped"}
WithoutNub  == {"new", "refused", "loop", "irq", "gate", "power", "nub"}
WithPower   == {"nub", "irqOn", "notifyOn", "up", "pmstop"}
TornDown    == Releasing \cup AfterLoop

(* start has stored Null, or releaseResources has: until then the marker   *)
(* excludes a second allocation, whatever has failed before.               *)
LoopGivenUp == life \in AfterLoop \/ (life \notin BeforeLoop /\ ret[Starter] = Null)

MarkerExcludes ==
  ~ LoopGivenUp =>
    \A c, d \in Caller : loc[c] = "alloc" => work_loop = Marker /\ (loc[d] = "alloc" => c = d)

(* start goes on with the work loop its call has returned, or with the     *)
(* marker, and adds event sources to nothing else.                         *)
LoopInUse ==
  /\ life \notin BeforeLoop => loc[Starter] = "returned"
  /\ life \notin AfterLoop /\ IsLoop(ret[Starter]) => work_loop = ret[Starter]
  /\ life \in (Starting \cup {"up"}) \ (BeforeLoop \cup {"irq"}) => IsLoop(work_loop)
  /\ life \in (Starting \cup {"up"}) \ BeforeLoop => ret[Starter] # Null
  /\ life \in Releasing /\ pm # "none" => IsLoop(work_loop) /\ ret[Starter] # Null

(* Every work loop has the reference it was made with until start retains  *)
(* its own; releaseResources drops one.                                    *)
LoopCounted ==
  /\ \A l \in Loops : l > made + 1 => loopRefs[l] = 0
  /\ life \notin AfterLoop =>
       \A l \in Loops : l <= made + 1 =>
         loopRefs[l] = IF l = work_loop /\ pm # "none" THEN 2 ELSE 1

(* How far start and releaseResources have got, in what they made. *)
SourcesFollowLife ==
  /\ life \in {"new", "loop", "irq", "refused"} => irq = "null" /\ gate = "null"
  /\ life = "gate" => irq = "added" /\ gate = "null"
  /\ life \in {"power", "nub", "irqOn"} => irq = "added"
  /\ life \in {"notifyOn", "up"} => irq = "enabled"
  /\ life \in WithPower \ {"pmstop"} \/ (life \in {"quiet", "nubs"} /\ pm # "none") =>
       gate \in {"enabled", "disabled"}
  /\ life = "power" => gate = "enabled"
  /\ life \in {"quiet", "nubs"} => gate # "removed"
  /\ life = "gateOut" => gate \notin {"null", "removed"}
  /\ life = "gateNull" => gate = "removed"
  /\ life \in {"irqOut", "loopOut"} \cup AfterLoop => gate = "null"
  /\ life \in {"loopOut"} \cup AfterLoop => irq = "null"

PowerFollowsLife ==
  /\ life \in WithPower => pm # "none"
  /\ pm # "none" => life \in WithPower \cup Releasing
  /\ life \in Releasing /\ pm = "none" => irq # "enabled" /\ nub = "none"
  /\ life \notin {"new", "refused"} \cup AfterLoop => pci
  /\ life \in AfterLoop => ~ pci

(* The references to the nub, one by one. *)
NubCounted ==
  /\ life \in WithoutNub => nub = "none"
  /\ nub = "listed" => life \notin AfterLoop \cup (Releasing \ {"quiet", "nubs"})
  /\ nub = "listed" => \/ client = "none" /\ nubRefs = 3
                       \/ client = "attached" /\ nubRefs = 4
                       \/ client = "gone" /\ nubRefs \in {2, 3}
  /\ nub # "listed" => client # "attached" /\ nubRefs \in 0..1
  /\ life \in TornDown => client # "attached"

(* Nothing runs before there are event sources; what runs in a teardown    *)
(* has been running when it began, or was started by a notify since.       *)
NothingRuns == InFlight = {} /\ wire = {} /\ ~ hststs /\ handler = "idle"

QuietBeforeAndAfter ==
  /\ life \in WithoutNub => NothingRuns
  /\ life \in TornDown /\ {"call", "notify"} \cap late = {} =>
       NothingRuns /\ (life \in Releasing /\ irq = "enabled" => ~ ntfy)
  /\ handler = "nub" \/ (\E c \in Call : pc[c] = "thread") =>
       nub = "listed" \/ life \in TornDown

(* SMBSLVCMD, as the power changes and as it is left. *)
NotifyKept ==
  /\ life \in Starting /\ ~ early => pm \in {"none", "on"}
  /\ life = "up" /\ ~ early /\ ~ original /\ pm # "on" => ~ intren
  /\ life \in TornDown /\ "power" \notin late => pm \in {"none", "on"}
  /\ life \in TornDown \ {"quiet"} /\ "power" \notin late => intren = original

IInv ==
  /\ TypeOK
  /\ MarkerExcludes
  /\ LoopInUse
  /\ LoopCounted
  /\ SourcesFollowLife
  /\ PowerFollowsLife
  /\ NubCounted
  /\ QuietBeforeAndAfter
  /\ NotifyKept
  /\ MisuseHasACause
  /\ FailedStartLeavesNothing
  /\ NotifyFollowsPower

=============================================================================
