---------------------------- MODULE ELANLifecycle ----------------------------
(***************************************************************************)
(* The life of ELANTouchpadDriver: probe, start, stop, releaseResources,   *)
(* setPowerState, and the initialisation of the touchpad, while host       *)
(* notifies start threads that use what these make and release.            *)
(*                                                                         *)
(* A transfer is one step: it waits for the controller's command gate,     *)
(* which the controller's own setPowerState disables, and succeeds or      *)
(* fails (I801Controller).  Any use of a member that is not there is a     *)
(* kernel panic or worse: it is recorded in fault and ends the behaviour.  *)
(***************************************************************************)
EXTENDS Naturals

CONSTANTS
  Thread,          \* host-notify threads that run at a time
  ETP_RETRY_COUNT, \* 10 in the source
  PowerTree        \* IOKit has made the driver a power child of the controller

ASSUME RetryAssumption == ETP_RETRY_COUNT \in Nat \ {0}
ASSUME TreeAssumption == PowerTree \in BOOLEAN

VARIABLES
  life,         \* how far start, or stop, has got
  (* members of ELANTouchpadDriver *)
  device_nub,   \* is it set?
  transducers,  \* are they there?
  mt_interface, trackpoint,
  data,         \* setDeviceParameters has run
  awake,
  (* who is running *)
  pm,           \* where setPowerState is
  init,         \* where each caller's initialize is
  failed,       \* how often it has failed
  pc,           \* the notify threads
  (* the touchpad and the controller *)
  touchpad,
  gate,         \* the command gate is enabled, and host notifies are on
  (* history *)
  left,         \* the firmware has left the touchpad reporting
  early,        \* setPowerState was called before start was over
  sleepLost,    \* the last sleep command failed
  late,         \* what was going on in releaseResources
  fault

interfaces == <<transducers, mt_interface, trackpoint, data>>
procs   == <<init, failed, pc>>
history == <<left, early, sleepLost, late>>
vars == <<life, device_nub, interfaces, awake, pm, procs, touchpad, gate, history, fault>>

(* tryInitialize is called by start and by setPowerState. *)
Initializer == {"start", "power"}

(* The driver is attached to the nub before probe; what start and          *)
(* releaseResources do next.                                               *)
Starting  == {"new", "attached", "probed", "multitouch", "trackpoint", "parameters", "initialize"}
Releasing == {"sleep", "dropNub", "dropFingers", "dropInterface", "dropTrackpoint", "pmstop"}
Ended     == {"refused", "failed", "stopped"}

Interface == {"null", "stopped", "published"}
Fault     == {"none", "nub", "transducers", "data", "interface", "trackpoint", "power", "start"}

TypeOK ==
  /\ life \in Starting \cup {"up"} \cup Releasing \cup Ended
  /\ device_nub \in BOOLEAN /\ transducers \in BOOLEAN /\ data \in BOOLEAN
  /\ awake \in BOOLEAN
  /\ mt_interface \in Interface /\ trackpoint \in Interface
  /\ pm \in {"none", "idle", "sleep", "initialize"}
  /\ init \in [Initializer -> {"idle", "hello", "enable", "mode"}]
  /\ failed \in [Initializer -> 0..ETP_RETRY_COUNT]
  /\ pc \in [Thread -> {"idle", "thread", "report", "use"}]
  /\ touchpad \in {"silent", "enabled", "absolute", "asleep"}
  /\ gate \in BOOLEAN
  /\ left \in BOOLEAN /\ early \in BOOLEAN /\ sleepLost \in BOOLEAN
  /\ late \in SUBSET {"report", "power"}
  /\ fault \in Fault

Reports == touchpad \in {"enabled", "absolute"}

(* init() has run, and the firmware may have been using the touchpad. *)
Init ==
  /\ life = "new"
  /\ device_nub = FALSE /\ transducers = TRUE /\ data = FALSE /\ awake = TRUE
  /\ mt_interface = "null" /\ trackpoint = "null"
  /\ pm = "none"
  /\ init = [p \in Initializer |-> "idle"]
  /\ failed = [p \in Initializer |-> 0]
  /\ pc = [t \in Thread |-> "idle"]
  /\ touchpad \in {"silent", "enabled"}
  /\ gate = TRUE
  /\ left = Reports
  /\ early = FALSE /\ sleepLost = FALSE /\ late = {}
  /\ fault = "none"

Run(from, to) == life = from /\ life' = to

-----------------------------------------------------------------------------
(* probe and start *)

(* IOKit *)
Attach ==
  /\ Run("new", "attached")
  /\ UNCHANGED <<device_nub, interfaces, awake, pm, procs, touchpad, gate, history,
                 fault>>

probe ==
  /\ \/ Run("attached", "probed") /\ device_nub' = TRUE
     \/ Run("attached", "refused") /\ UNCHANGED device_nub
  /\ UNCHANGED <<interfaces, awake, pm, procs, touchpad, gate, history, fault>>

(* super::start may fail; joinPMtree, registerPowerDriver.  In a power     *)
(* tree the controller is on when a child joins.                           *)
JoinPower ==
  /\ \/ Run("probed", "refused") /\ UNCHANGED pm
     \/ Run("probed", "multitouch") /\ pm' = "idle" /\ (PowerTree => gate)
  /\ UNCHANGED <<device_nub, interfaces, awake, procs, touchpad, gate, history, fault>>

(* Nothing allocated, or stopped again because it did not start; start     *)
(* looks at neither result.                                                *)
publishMultitouchInterface ==
  /\ Run("multitouch", "trackpoint")
  /\ mt_interface' \in Interface
  /\ UNCHANGED <<device_nub, transducers, trackpoint, data, awake, pm, procs, touchpad, gate,
                 history, fault>>

publishTrackpoint ==
  /\ Run("trackpoint", "parameters")
  /\ trackpoint' \in Interface
  /\ UNCHANGED <<device_nub, transducers, mt_interface, data, awake, pm, procs, touchpad, gate,
                 history, fault>>

Initialize(p) == init' = [init EXCEPT ![p] = "hello"] /\ failed' = [failed EXCEPT ![p] = 0]

(* It writes into the interface as well as into data. *)
setDeviceParameters ==
  /\ Run("parameters", "initialize")
  /\ data' = TRUE
  /\ fault' = IF mt_interface = "null" THEN "start" ELSE fault
  /\ Initialize("start")
  /\ UNCHANGED <<device_nub, transducers, mt_interface, trackpoint, awake, pm, pc, touchpad, gate,
                 history>>

(* start registers the service or, after tryInitialize failed, returns     *)
(* without taking anything back.                                           *)
StartEnds ==
  /\ init["start"] = "idle"
  /\ Run("initialize", IF failed["start"] = ETP_RETRY_COUNT THEN "failed" ELSE "up")
  /\ UNCHANGED <<device_nub, interfaces, awake, pm, procs, touchpad, gate, history,
                 fault>>

start ==
  \/ JoinPower \/ publishMultitouchInterface \/ publishTrackpoint \/ setDeviceParameters
  \/ StartEnds

-----------------------------------------------------------------------------
(* tryInitialize and initialize: the hello packet is read and compared, the*)
(* touchpad is enabled, and set to absolute mode.                          *)

Effect(stage) ==
  CASE stage = "hello" -> touchpad [] stage = "enable" -> "enabled" [] stage = "mode" -> "absolute"

TransferSucceeds(p) ==
  /\ init' = [init EXCEPT ![p] = CASE @ = "hello" -> "enable" [] @ = "enable" -> "mode"
                                   [] @ = "mode" -> "idle"]
  /\ touchpad' = Effect(init[p])
  /\ UNCHANGED failed

(* A transfer fails, whether it took effect or not, or the hello packet is *)
(* not the expected one: the next try, or the end.                         *)
RetryForever(p) ==
  /\ init' = [init EXCEPT ![p] = "hello"]
  /\ failed' = [failed EXCEPT ![p] = IF @ + 1 < ETP_RETRY_COUNT THEN @ + 1 ELSE @]
  /\ touchpad' \in {touchpad, Effect(init[p])}

GiveUpAtOnce(p) ==
  /\ init' = [init EXCEPT ![p] = "idle"]
  /\ failed' = [failed EXCEPT ![p] = @ + 1]
  /\ touchpad' \in {touchpad, Effect(init[p])}

TransferFails(p) ==
  /\ init' = [init EXCEPT ![p] = IF failed[p] + 1 < ETP_RETRY_COUNT THEN "hello" ELSE "idle"]
  /\ failed' = [failed EXCEPT ![p] = @ + 1]
  /\ touchpad' \in {touchpad, Effect(init[p])}

tryInitialize(p) ==
  /\ init[p] # "idle"
  /\ IF device_nub
       THEN gate /\ UNCHANGED fault /\ (TransferSucceeds(p) \/ TransferFails(p))
       ELSE fault' = "power" /\ UNCHANGED <<init, failed, touchpad>>
  /\ UNCHANGED <<life, device_nub, interfaces, awake, pm, pc, gate, history>>

-----------------------------------------------------------------------------
(* setPowerState, called by the power management thread until PMstop, also *)
(* after start has failed                                                  *)

PowerChange ==
  /\ early' = (early \/ life \in Starting)
  /\ late' = IF life \in Releasing \ {"sleep"} THEN late \cup {"power"} ELSE late

(* The tree is powered off from the leaves and on from the root. *)
PowerOffOnly ==
  /\ pm = "idle" /\ awake
  /\ awake' = FALSE
  /\ PowerChange
  /\ UNCHANGED <<life, device_nub, interfaces, pm, procs, touchpad, gate, left,
                 sleepLost, fault>>

PowerOff ==
  /\ pm = "idle" /\ awake
  /\ pm' = "sleep" /\ awake' = FALSE
  /\ PowerChange
  /\ UNCHANGED <<life, device_nub, interfaces, procs, touchpad, gate, left, sleepLost,
                 fault>>

(* The result of the sleep command is ignored. *)
sendSleepCommand ==
  /\ gate
  /\ \/ touchpad' = "asleep" /\ sleepLost' = FALSE
     \/ touchpad' \in {touchpad, "asleep"} /\ sleepLost' = TRUE

PowerSleeps ==
  /\ pm = "sleep"
  /\ IF device_nub
       THEN pm' = "idle" /\ sendSleepCommand /\ UNCHANGED fault
       ELSE fault' = "power" /\ UNCHANGED <<pm, touchpad, sleepLost>>
  /\ PowerChange
  /\ UNCHANGED <<life, device_nub, interfaces, awake, procs, gate, left>>

PowerOn ==
  /\ pm = "idle" /\ ~ awake
  /\ PowerTree => gate
  /\ pm' = "initialize"
  /\ Initialize("power")
  /\ PowerChange
  /\ UNCHANGED <<life, device_nub, interfaces, awake, pc, touchpad, gate, left,
                 sleepLost, fault>>

(* Awake, whatever has come of it. *)
PowerIsOn ==
  /\ pm = "initialize" /\ init["power"] = "idle"
  /\ pm' = "idle" /\ awake' = TRUE
  /\ PowerChange
  /\ UNCHANGED <<life, device_nub, interfaces, procs, touchpad, gate, left, sleepLost,
                 fault>>

setPowerState == PowerOff \/ PowerSleeps \/ PowerOn \/ PowerIsOn

-----------------------------------------------------------------------------
(* stop and releaseResources *)

stop ==
  /\ Run("up", "sleep")
  /\ UNCHANGED <<device_nub, interfaces, awake, pm, procs, touchpad, gate, history,
                 fault>>

ReleaseWithoutSleep ==
  /\ Run("sleep", "dropNub")
  /\ UNCHANGED <<device_nub, interfaces, awake, pm, procs, touchpad, gate, history,
                 fault>>

ReleaseSleeps ==
  /\ Run("sleep", "dropNub")
  /\ sendSleepCommand
  /\ UNCHANGED <<device_nub, interfaces, awake, pm, procs, gate, left, early, late,
                 fault>>

(* A host notify is being handled, or the power changes.                   *)
StillRunning ==
  {c \in {"report", "power"} :
     \/ c = "report" /\ \E t \in Thread : pc[t] # "idle"
     \/ c = "power" /\ pm # "idle"}

ReleaseNub ==
  /\ Run("dropNub", "dropFingers")
  /\ device_nub' = FALSE
  /\ late' = late \cup StillRunning
  /\ UNCHANGED <<interfaces, awake, pm, procs, touchpad, gate, left, early, sleepLost,
                 fault>>

ReleaseFingers ==
  /\ Run("dropFingers", "dropInterface")
  /\ transducers' = FALSE
  /\ UNCHANGED <<device_nub, mt_interface, trackpoint, data, awake, pm, procs, touchpad, gate,
                 history, fault>>

ReleaseInterface ==
  /\ Run("dropInterface", "dropTrackpoint")
  /\ mt_interface' = "null"
  /\ UNCHANGED <<device_nub, transducers, trackpoint, data, awake, pm, procs, touchpad, gate,
                 history, fault>>

ReleaseTrackpoint ==
  /\ Run("dropTrackpoint", "pmstop")
  /\ trackpoint' = "null"
  /\ UNCHANGED <<device_nub, transducers, mt_interface, data, awake, pm, procs, touchpad, gate,
                 history, fault>>

releaseResources ==
  \/ ReleaseSleeps \/ ReleaseNub \/ ReleaseFingers \/ ReleaseInterface \/ ReleaseTrackpoint

(* PMstop, after a call that is under way; the driver is detached then. *)
PMstop ==
  /\ pm = "idle" /\ pm' = "none"
  /\ Run("pmstop", "stopped")
  /\ UNCHANGED <<device_nub, interfaces, awake, procs, touchpad, gate, history, fault>>

-----------------------------------------------------------------------------
(* A host notify *)

Move(t, from, to) == pc[t] = from /\ pc' = [pc EXCEPT ![t] = to]

(* The thread that is started messages the driver if one is attached. *)
TouchpadNotifies(t) ==
  /\ Reports /\ gate
  /\ Move(t, "idle", "thread")
  /\ UNCHANGED <<life, device_nub, interfaces, awake, pm, init, failed, touchpad, gate, history,
                 fault>>

message(t) ==
  /\ Move(t, "thread", IF life \in {"new"} \cup Ended THEN "idle" ELSE "report")
  /\ UNCHANGED <<life, device_nub, interfaces, awake, pm, init, failed, touchpad, gate, history,
                 fault>>

getReport(t) ==
  /\ IF device_nub
       THEN /\ gate
            /\ Move(t, "report", "use") \/ Move(t, "report", "idle")
            /\ UNCHANGED fault
       ELSE pc[t] = "report" /\ fault' = "nub" /\ UNCHANGED pc
  /\ UNCHANGED <<life, device_nub, interfaces, awake, pm, init, failed, touchpad, gate,
                 history>>

(* What reportAbsolute or reportTrackpoint needs and does not find. *)
Missing ==
  {f \in {"transducers", "data", "interface", "trackpoint"} :
     \/ f = "transducers" /\ ~ transducers
     \/ f = "data" /\ ~ data
     \/ f = "interface" /\ mt_interface = "null"
     \/ f = "trackpoint" /\ trackpoint = "null"}

(* It is dropped by a filter, or reported. *)
UseReport(t) ==
  /\ \/ Move(t, "use", "idle") /\ UNCHANGED fault
     \/ pc[t] = "use" /\ fault' \in Missing /\ UNCHANGED pc
  /\ UNCHANGED <<life, device_nub, interfaces, awake, pm, init, failed, touchpad, gate,
                 history>>

handleHostNotify(t) == getReport(t) \/ UseReport(t)

-----------------------------------------------------------------------------
(* The controller's setPowerState, and the power of the touchpad *)

DriverIsOff == pm = "none" \/ (pm = "idle" /\ ~ awake)

ControllerOff ==
  /\ PowerTree => DriverIsOff
  /\ gate /\ gate' = FALSE
  /\ UNCHANGED <<life, device_nub, interfaces, awake, pm, procs, touchpad, history,
                 fault>>

ControllerOn ==
  /\ ~ gate /\ gate' = TRUE
  /\ UNCHANGED <<life, device_nub, interfaces, awake, pm, procs, touchpad, history,
                 fault>>

PowerIsLost ==
  /\ ~ gate /\ DriverIsOff
  /\ touchpad' = "silent"
  /\ UNCHANGED <<life, device_nub, interfaces, awake, pm, procs, gate, history, fault>>

Alive ==
  \/ Attach \/ probe \/ start \/ stop \/ releaseResources \/ PMstop
  \/ \E p \in Initializer : tryInitialize(p)
  \/ setPowerState
  \/ \E t \in Thread : TouchpadNotifies(t) \/ message(t) \/ handleHostNotify(t)
  \/ ControllerOff \/ ControllerOn \/ PowerIsLost

Next == fault = "none" /\ Alive

Spec == Init /\ [][Next]_vars

(* A transfer comes to its end if the gate stays enabled; so do the calls  *)
(* of setPowerState and tryInitialize.                                     *)
Fairness ==
  /\ WF_vars(fault = "none" /\ (PowerSleeps \/ PowerIsOn))
  /\ \A p \in Initializer : WF_vars(fault = "none" /\ tryInitialize(p))

FairSpec == Spec /\ Fairness

-----------------------------------------------------------------------------
(* Properties *)

NoMemory == mt_interface = "null" \/ trackpoint = "null"

(* A report is never decoded before start has made what it needs, and none *)
(* of it is used after releaseResources, unless: the firmware had left the *)
(* touchpad reporting, or the power changed before start was over (then    *)
(* setPowerState may have enabled it); an interface could not be           *)
(* allocated; or, in releaseResources, a report was being handled when     *)
(* device_nub was dropped, the sleep command failed, or the power was      *)
(* changing.                                                               *)
FaultHasACause ==
  fault # "none" =>
    \/ life \in Starting \cup {"refused"} /\ (left \/ early)
    \/ life \in {"parameters", "initialize", "up", "sleep", "dropNub", "failed"} /\ NoMemory
    \/ life \in Releasing \cup {"stopped"} /\ (late # {} \/ sleepLost)

(* While the driver is off the touchpad sleeps, unless the sleep command   *)
(* was lost or the power was changed before start was over.                *)
SleepsWhenOff ==
  life = "up" /\ pm = "idle" /\ ~ awake /\ ~ sleepLost /\ ~ early => ~ Reports

(* Awake means initialised, or that ETP_RETRY_COUNT tries have failed      *)
(* since the last sleep: a touchpad that was given up is tried again.      *)
InitialisedOrGivenUp ==
  life = "up" /\ pm = "idle" /\ awake =>
    touchpad = "absolute" \/ failed["power"] = ETP_RETRY_COUNT

(* In a power tree a change of power comes to its end: the touchpad's      *)
(* sleep command needs the command gate, which the controller disables.    *)
PowerChangesEnd ==
  PowerTree => (pm \in {"sleep", "initialize"} ~> pm = "idle" \/ fault # "none")

(* Its safety half.  Whoever initialises the touchpad makes progress with  *)
(* every transfer, a failed one included: three per try at most.           *)
StageTransfers == [hello |-> 3, enable |-> 2, mode |-> 1, idle |-> 0]

TransfersLeft(p) == 3 * (ETP_RETRY_COUNT - failed[p]) + StageTransfers[init[p]]

InitializationAdvances ==
  [][\A p \in Initializer :
       init[p] # "idle" /\ <<init[p], failed[p]>>' # <<init[p], failed[p]>> =>
         TransfersLeft(p)' < TransfersLeft(p)]_vars

-----------------------------------------------------------------------------
(* The inductive invariant *)

BeforeParameters == {"new", "attached", "probed", "multitouch", "trackpoint", "parameters"}
Dropped   == {"dropFingers", "dropInterface", "dropTrackpoint", "pmstop", "stopped"}
WithPower == {"multitouch", "trackpoint", "parameters", "initialize", "up", "failed"} \cup Releasing

(* How far start and releaseResources have got, in what they made. *)
MembersFollowLife ==
  /\ life \in {"new", "attached"} \cup Dropped => ~ device_nub
  /\ life \in {"probed"} \cup (WithPower \ Dropped) => device_nub
  /\ transducers <=> life \notin Dropped \ {"dropFingers"}
  /\ data <=> life \notin BeforeParameters \cup {"refused"}
  /\ pm # "none" <=> life \in WithPower

(* Who is initialising, and that it goes on while there are tries left. *)
InitializersFollow ==
  /\ init["start"] # "idle" => life = "initialize"
  /\ init["power"] # "idle" => pm = "initialize"
  /\ \A p \in Initializer : init[p] # "idle" => failed[p] < ETP_RETRY_COUNT
  /\ pm \in {"sleep", "initialize"} => ~ awake
  /\ life \in Starting /\ ~ early => pm \in {"none", "idle"} /\ awake

Silence == (\A t \in Thread : pc[t] = "idle") /\ ~ Reports

(* Nothing is reported before start can take it, and after it no longer can. *)
SilentBeforeAndAfter ==
  /\ life \in BeforeParameters \cup {"refused"} /\ ~ left /\ ~ early => Silence
  /\ life \in Dropped /\ late = {} /\ ~ sleepLost => Silence
  /\ life = "dropNub" /\ pm = "idle" /\ late = {} /\ ~ sleepLost => ~ Reports
  /\ life \in Dropped /\ pm \notin {"none", "idle"} => "power" \in late

(* Both have initialised the touchpad, or start has and nobody was asked to since. *)
BothDone ==
  /\ life \in {"initialize", "up"} /\ init["start"] = "idle" /\ failed["start"] < ETP_RETRY_COUNT
  /\ (pm = "idle" /\ awake) \/ (pm = "initialize" /\ init["power"] = "idle")

InitialisedAtLast ==
  /\ BothDone => touchpad = "absolute" \/ failed["power"] = ETP_RETRY_COUNT
  /\ life = "up" => failed["start"] < ETP_RETRY_COUNT

IInv ==
  /\ TypeOK
  /\ MembersFollowLife /\ InitializersFollow /\ SilentBeforeAndAfter /\ InitialisedAtLast
  /\ FaultHasACause
  /\ SleepsWhenOff

=============================================================================
