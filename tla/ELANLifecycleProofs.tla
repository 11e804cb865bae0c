------------------------ MODULE ELANLifecycleProofs ------------------------
(***************************************************************************)
(* Theorems about ELANLifecycle, for any number of threads and tries, with *)
(* the driver in the power tree and without.                               *)
(***************************************************************************)
EXTENDS ELANLifecycle, TLAPS

(* Before the driver is attached there is nothing to go wrong. *)
LEMMA InitIInv == Init => IInv
<1> SUFFICES ASSUME Init PROVE IInv
  OBVIOUS
<1> USE RetryAssumption DEF Init, Reports
<1>1. TypeOK
  <2>1. left \in BOOLEAN
    OBVIOUS
  <2>3. transducers \in BOOLEAN /\ device_nub \in BOOLEAN /\ data \in BOOLEAN
    OBVIOUS
  <2>2. awake \in BOOLEAN /\ gate \in BOOLEAN /\ early \in BOOLEAN /\ sleepLost \in BOOLEAN
    OBVIOUS
  <2> QED BY <2>1, <2>2, <2>3 DEF TypeOK, Starting, Interface, Fault
<1>2. MembersFollowLife
  <2>1. life = "new" /\ transducers /\ ~ data /\ ~ device_nub /\ pm = "none"
    OBVIOUS
  <2> QED BY <2>1 DEF MembersFollowLife, Dropped, WithPower, BeforeParameters, Releasing
<1>3. InitializersFollow
  <2>1. awake /\ pm = "none" /\ \A p \in Initializer : init[p] = "idle"
    OBVIOUS
  <2>2. "start" \in Initializer /\ "power" \in Initializer
    BY DEF Initializer
  <2> QED BY <2>1, <2>2 DEF InitializersFollow
<1>4. SilentBeforeAndAfter /\ InitialisedAtLast
  BY DEF SilentBeforeAndAfter, Silence, InitialisedAtLast, BothDone, Dropped
<1>5. FaultHasACause /\ SleepsWhenOff
  BY DEF FaultHasACause, SleepsWhenOff
<1> QED BY <1>1, <1>2, <1>3, <1>4, <1>5 DEF IInv

(* IOKit attaches the driver. *)
LEMMA AttachKeepsIInv ==
  ASSUME IInv, fault = "none", Attach PROVE IInv'
<1> USE RetryAssumption, TreeAssumption DEF IInv
<1>1. TypeOK'
  BY DEF Attach, TypeOK, Run, interfaces, procs, history, Starting, Releasing, Ended,
    Interface, Initializer, Fault
<1>2. MembersFollowLife'
  BY DEF Attach, TypeOK, MembersFollowLife, Run, interfaces, procs, history, Starting,
    Releasing, Ended, Interface, Initializer, Fault, Dropped, WithPower, BeforeParameters
<1>3. InitializersFollow'
  BY DEF Attach, TypeOK, InitializersFollow, Run, interfaces, procs, history, Starting,
    Releasing, Ended, Interface, Initializer, Fault
<1>4. SilentBeforeAndAfter'
  BY DEF Attach, TypeOK, SilentBeforeAndAfter, Run, interfaces, procs, history, Starting,
    Releasing, Ended, Interface, Initializer, Fault, BeforeParameters, Silence, Dropped,
    Reports
<1>5. InitialisedAtLast'
  BY DEF Attach, TypeOK, InitialisedAtLast, Run, interfaces, procs, history, Starting,
    Releasing, Ended, Interface, Initializer, Fault, BothDone
<1>6. FaultHasACause'
  BY DEF Attach, TypeOK, FaultHasACause, Run, interfaces, procs, history, Starting,
    Releasing, Ended, Interface, Initializer, Fault, NoMemory
<1>7. SleepsWhenOff'
  BY DEF Attach, TypeOK, SleepsWhenOff, Run, interfaces, procs, history, Starting,
    Releasing, Ended, Interface, Initializer, Fault, Reports
<1> QED BY <1>1, <1>2, <1>3, <1>4, <1>5, <1>6, <1>7 DEF IInv

(* probe sets device_nub. *)
LEMMA probeKeepsIInv ==
  ASSUME IInv, fault = "none", probe PROVE IInv'
<1> USE RetryAssumption, TreeAssumption DEF IInv
<1>1. TypeOK'
  <2>1. device_nub' \in BOOLEAN
    BY Zenon DEF probe, TypeOK
  <2>2. life' \in {"probed", "refused"}
    BY DEF probe, Run
  <2>3. /\ UNCHANGED <<transducers, data, mt_interface, trackpoint, awake, pm, init, failed, pc>>
        /\ UNCHANGED <<touchpad, gate, left, early, sleepLost, late, fault>>
    BY DEF probe, interfaces, procs, history
  <2> QED BY <2>1, <2>2, <2>3 DEF TypeOK, Starting, Ended
<1>2. MembersFollowLife'
  BY DEF probe, TypeOK, MembersFollowLife, Run, interfaces, procs, history, Starting,
    Releasing, Ended, Interface, Initializer, Fault, Dropped, WithPower, BeforeParameters
<1>3. InitializersFollow'
  BY DEF probe, TypeOK, InitializersFollow, Run, interfaces, procs, history, Starting,
    Releasing, Ended, Interface, Initializer, Fault
<1>4. SilentBeforeAndAfter'
  BY DEF probe, TypeOK, SilentBeforeAndAfter, Run, interfaces, procs, history, Starting,
    Releasing, Ended, Interface, Initializer, Fault, BeforeParameters, Silence, Dropped,
    Reports
<1>5. InitialisedAtLast'
  BY DEF probe, TypeOK, InitialisedAtLast, Run, interfaces, procs, history, Starting,
    Releasing, Ended, Interface, Initializer, Fault, BothDone
<1>6. FaultHasACause'
  BY DEF probe, TypeOK, FaultHasACause, Run, interfaces, procs, history, Starting,
    Releasing, Ended, Interface, Initializer, Fault, NoMemory
<1>7. SleepsWhenOff'
  BY DEF probe, TypeOK, SleepsWhenOff, Run, interfaces, procs, history, Starting, Releasing,
    Ended, Interface, Initializer, Fault, Reports
<1> QED BY <1>1, <1>2, <1>3, <1>4, <1>5, <1>6, <1>7 DEF IInv

(* start joins the power tree. *)
LEMMA JoinPowerKeepsIInv ==
  ASSUME IInv, fault = "none", JoinPower PROVE IInv'
<1> USE RetryAssumption, TreeAssumption DEF IInv
<1>1. TypeOK'
  BY DEF JoinPower, TypeOK, Run, interfaces, procs, history, Starting, Releasing, Ended,
    Interface, Initializer, Fault
<1>2. MembersFollowLife'
  BY DEF JoinPower, TypeOK, MembersFollowLife, Run, interfaces, procs, history, Starting,
    Releasing, Ended, Interface, Initializer, Fault, Dropped, WithPower, BeforeParameters
<1>3. InitializersFollow'
  BY DEF JoinPower, TypeOK, InitializersFollow, MembersFollowLife, Run, interfaces, procs,
    history, Starting, Releasing, Ended, Interface, Initializer, Fault, Dropped, WithPower,
    BeforeParameters
<1>4. SilentBeforeAndAfter'
  BY DEF JoinPower, TypeOK, SilentBeforeAndAfter, Run, interfaces, procs, history, Starting,
    Releasing, Ended, Interface, Initializer, Fault, BeforeParameters, Silence, Dropped,
    Reports
<1>5. InitialisedAtLast'
  BY DEF JoinPower, TypeOK, InitialisedAtLast, Run, interfaces, procs, history, Starting,
    Releasing, Ended, Interface, Initializer, Fault, BothDone
<1>6. FaultHasACause'
  BY DEF JoinPower, TypeOK, FaultHasACause, Run, interfaces, procs, history, Starting,
    Releasing, Ended, Interface, Initializer, Fault, NoMemory
<1>7. SleepsWhenOff'
  BY DEF JoinPower, TypeOK, SleepsWhenOff, Run, interfaces, procs, history, Starting,
    Releasing, Ended, Interface, Initializer, Fault, Reports
<1> QED BY <1>1, <1>2, <1>3, <1>4, <1>5, <1>6, <1>7 DEF IInv

(* start publishes the multitouch interface, or fails to. *)
LEMMA publishMultitouchInterfaceKeepsIInv ==
  ASSUME IInv, fault = "none", publishMultitouchInterface PROVE IInv'
<1> USE RetryAssumption, TreeAssumption DEF IInv
<1>1. TypeOK'
  BY DEF publishMultitouchInterface, TypeOK, Run, Interface, procs, history, Starting,
    Releasing, Ended, Initializer, Fault
<1>2. MembersFollowLife'
  BY DEF publishMultitouchInterface, TypeOK, MembersFollowLife, Run, Interface, procs,
    history, Starting, Releasing, Ended, Initializer, Fault, Dropped, WithPower,
    BeforeParameters
<1>3. InitializersFollow'
  BY DEF publishMultitouchInterface, TypeOK, InitializersFollow, Run, Interface, procs,
    history, Starting, Releasing, Ended, Initializer, Fault
<1>4. SilentBeforeAndAfter'
  BY DEF publishMultitouchInterface, TypeOK, SilentBeforeAndAfter, Run, Interface, procs,
    history, Starting, Releasing, Ended, Initializer, Fault, BeforeParameters, Silence,
    Dropped, Reports
<1>5. InitialisedAtLast'
  BY DEF publishMultitouchInterface, TypeOK, InitialisedAtLast, Run, Interface, procs,
    history, Starting, Releasing, Ended, Initializer, Fault, BothDone
<1>6. FaultHasACause'
  BY DEF publishMultitouchInterface, TypeOK, FaultHasACause, Run, Interface, procs, history,
    Starting, Releasing, Ended, Initializer, Fault, NoMemory
<1>7. SleepsWhenOff'
  BY DEF publishMultitouchInterface, TypeOK, SleepsWhenOff, Run, Interface, procs, history,
    Starting, Releasing, Ended, Initializer, Fault, Reports
<1> QED BY <1>1, <1>2, <1>3, <1>4, <1>5, <1>6, <1>7 DEF IInv

(* start publishes the trackpoint, or fails to. *)
LEMMA publishTrackpointKeepsIInv ==
  ASSUME IInv, fault = "none", publishTrackpoint PROVE IInv'
<1> USE RetryAssumption, TreeAssumption DEF IInv
<1>1. TypeOK'
  BY DEF publishTrackpoint, TypeOK, Run, Interface, procs, history, Starting, Releasing,
    Ended, Initializer, Fault
<1>2. MembersFollowLife'
  BY DEF publishTrackpoint, TypeOK, MembersFollowLife, Run, Interface, procs, history,
    Starting, Releasing, Ended, Initializer, Fault, Dropped, WithPower, BeforeParameters
<1>3. InitializersFollow'
  BY DEF publishTrackpoint, TypeOK, InitializersFollow, Run, Interface, procs, history,
    Starting, Releasing, Ended, Initializer, Fault
<1>4. SilentBeforeAndAfter'
  BY DEF publishTrackpoint, TypeOK, SilentBeforeAndAfter, Run, Interface, procs, history,
    Starting, Releasing, Ended, Initializer, Fault, BeforeParameters, Silence, Dropped,
    Reports
<1>5. InitialisedAtLast'
  BY DEF publishTrackpoint, TypeOK, InitialisedAtLast, Run, Interface, procs, history,
    Starting, Releasing, Ended, Initializer, Fault, BothDone
<1>6. FaultHasACause'
  BY DEF publishTrackpoint, TypeOK, FaultHasACause, Run, Interface, procs, history,
    Starting, Releasing, Ended, Initializer, Fault, NoMemory
<1>7. SleepsWhenOff'
  BY DEF publishTrackpoint, TypeOK, SleepsWhenOff, Run, Interface, procs, history, Starting,
    Releasing, Ended, Initializer, Fault, Reports
<1> QED BY <1>1, <1>2, <1>3, <1>4, <1>5, <1>6, <1>7 DEF IInv

(* start sets the parameters. *)
LEMMA setDeviceParametersKeepsIInv ==
  ASSUME IInv, fault = "none", setDeviceParameters PROVE IInv'
<1> USE RetryAssumption, TreeAssumption DEF IInv
<1>1. TypeOK'
  BY DEF setDeviceParameters, TypeOK, Run, Initialize, history, Starting, Releasing, Ended,
    Interface, Initializer, Fault
<1>2. MembersFollowLife'
  BY DEF setDeviceParameters, TypeOK, MembersFollowLife, Run, Initialize, history, Starting,
    Releasing, Ended, Interface, Initializer, Fault, Dropped, WithPower, BeforeParameters
<1>3. InitializersFollow'
  BY DEF setDeviceParameters, TypeOK, InitializersFollow, Run, Initialize, history,
    Starting, Releasing, Ended, Interface, Initializer, Fault
<1>4. SilentBeforeAndAfter'
  BY DEF setDeviceParameters, TypeOK, SilentBeforeAndAfter, Run, Initialize, history,
    Starting, Releasing, Ended, Interface, Initializer, Fault, BeforeParameters, Silence,
    Dropped, Reports
<1>5. InitialisedAtLast'
  BY DEF setDeviceParameters, TypeOK, InitialisedAtLast, Run, Initialize, history, Starting,
    Releasing, Ended, Interface, Initializer, Fault, BothDone
<1>6. FaultHasACause'
  BY DEF setDeviceParameters, TypeOK, FaultHasACause, Run, Initialize, history, Starting,
    Releasing, Ended, Interface, Initializer, Fault, NoMemory
<1>7. SleepsWhenOff'
  BY DEF setDeviceParameters, TypeOK, SleepsWhenOff, Run, Initialize, history, Starting,
    Releasing, Ended, Interface, Initializer, Fault, Reports
<1> QED BY <1>1, <1>2, <1>3, <1>4, <1>5, <1>6, <1>7 DEF IInv

(* start ends. *)
LEMMA StartEndsKeepsIInv ==
  ASSUME IInv, fault = "none", StartEnds PROVE IInv'
<1> USE RetryAssumption, TreeAssumption DEF IInv
<1>1. TypeOK'
  BY DEF StartEnds, TypeOK, Run, interfaces, procs, history, Starting, Releasing, Ended,
    Interface, Initializer, Fault
<1>2. MembersFollowLife'
  BY DEF StartEnds, TypeOK, MembersFollowLife, Run, interfaces, procs, history, Starting,
    Releasing, Ended, Interface, Initializer, Fault, Dropped, WithPower, BeforeParameters
<1>3. InitializersFollow'
  BY DEF StartEnds, TypeOK, InitializersFollow, Run, interfaces, procs, history, Starting,
    Releasing, Ended, Interface, Initializer, Fault
<1>4. SilentBeforeAndAfter'
  BY DEF StartEnds, TypeOK, SilentBeforeAndAfter, Run, interfaces, procs, history, Starting,
    Releasing, Ended, Interface, Initializer, Fault, BeforeParameters, Silence, Dropped,
    Reports
<1>5. InitialisedAtLast'
  BY DEF StartEnds, TypeOK, InitialisedAtLast, Run, interfaces, procs, history, Starting,
    Releasing, Ended, Interface, Initializer, Fault, BothDone
<1>6. FaultHasACause'
  BY DEF StartEnds, TypeOK, FaultHasACause, Run, interfaces, procs, history, Starting,
    Releasing, Ended, Interface, Initializer, Fault, NoMemory
<1>7. SleepsWhenOff'
  BY DEF StartEnds, TypeOK, SleepsWhenOff, InitializersFollow, Run, interfaces, procs,
    history, Starting, Releasing, Ended, Interface, Initializer, Fault, Reports
<1> QED BY <1>1, <1>2, <1>3, <1>4, <1>5, <1>6, <1>7 DEF IInv

(* A step of an initialisation. *)
LEMMA tryInitializeKeepsIInv ==
  ASSUME IInv, fault = "none", NEW p \in Initializer, tryInitialize(p) PROVE IInv'
<1> USE RetryAssumption, TreeAssumption DEF IInv
<1>1. TypeOK'
  BY DEF tryInitialize, TypeOK, InitializersFollow, TransferSucceeds, TransferFails,
    interfaces, history, Starting, Releasing, Ended, Interface, Initializer, Fault, Effect
<1>2. MembersFollowLife'
  BY DEF tryInitialize, TypeOK, MembersFollowLife, TransferSucceeds, TransferFails,
    interfaces, history, Starting, Releasing, Ended, Interface, Initializer, Fault, Dropped,
    WithPower, BeforeParameters, Effect
<1>3. InitializersFollow'
  BY DEF tryInitialize, TypeOK, InitializersFollow, TransferSucceeds, TransferFails,
    interfaces, history, Starting, Releasing, Ended, Interface, Initializer, Fault, Effect
<1>4. SilentBeforeAndAfter'
  BY DEF tryInitialize, TypeOK, SilentBeforeAndAfter, MembersFollowLife, InitializersFollow,
    TransferSucceeds, TransferFails, interfaces, history, Starting, Releasing, Ended,
    Interface, Initializer, Fault, BeforeParameters, Silence, Dropped, Reports, WithPower,
    Effect
<1>5. InitialisedAtLast'
  BY DEF tryInitialize, TypeOK, InitialisedAtLast, InitializersFollow, TransferSucceeds,
    TransferFails, interfaces, history, Starting, Releasing, Ended, Interface, Initializer,
    Fault, BothDone, Effect
<1>6. FaultHasACause'
  BY DEF tryInitialize, TypeOK, MembersFollowLife, InitializersFollow, SilentBeforeAndAfter,
    InitialisedAtLast, FaultHasACause, SleepsWhenOff, TransferSucceeds, TransferFails,
    interfaces, history, Starting, Releasing, Ended, Interface, Initializer, Fault, Dropped,
    WithPower, BeforeParameters, Silence, Reports, BothDone, NoMemory, Effect
<1>7. SleepsWhenOff'
  BY DEF tryInitialize, TypeOK, SleepsWhenOff, InitializersFollow, TransferSucceeds,
    TransferFails, interfaces, history, Starting, Releasing, Ended, Interface, Initializer,
    Fault, Reports, Effect
<1> QED BY <1>1, <1>2, <1>3, <1>4, <1>5, <1>6, <1>7 DEF IInv

(* The driver is told to sleep. *)
LEMMA PowerOffKeepsIInv ==
  ASSUME IInv, fault = "none", PowerOff PROVE IInv'
<1> USE RetryAssumption, TreeAssumption DEF IInv
<1>1. TypeOK'
  <2>1. awake' \in BOOLEAN
    BY DEF PowerOff
  <2>2. early' \in BOOLEAN
    BY DEF PowerOff, PowerChange, TypeOK
  <2> QED BY <2>1, <2>2 DEF PowerOff, TypeOK, PowerChange, interfaces, procs
<1>2. MembersFollowLife'
  BY DEF PowerOff, TypeOK, MembersFollowLife, PowerChange, interfaces, procs, Starting,
    Releasing, Ended, Interface, Initializer, Fault, Dropped, WithPower, BeforeParameters
<1>3. InitializersFollow'
  BY DEF PowerOff, TypeOK, InitializersFollow, PowerChange, interfaces, procs, Starting,
    Releasing, Ended, Interface, Initializer, Fault
<1>4. SilentBeforeAndAfter'
  BY DEF PowerOff, TypeOK, SilentBeforeAndAfter, MembersFollowLife, PowerChange, interfaces,
    procs, Starting, Releasing, Ended, Interface, Initializer, Fault, BeforeParameters,
    Silence, Dropped, Reports, WithPower
<1>5. InitialisedAtLast'
  BY DEF PowerOff, TypeOK, InitialisedAtLast, PowerChange, interfaces, procs, Starting,
    Releasing, Ended, Interface, Initializer, Fault, BothDone
<1>6. FaultHasACause'
  BY DEF PowerOff, TypeOK, FaultHasACause, PowerChange, interfaces, procs, Starting,
    Releasing, Ended, Interface, Initializer, Fault, NoMemory
<1>7. SleepsWhenOff'
  BY DEF PowerOff, TypeOK, SleepsWhenOff, PowerChange, interfaces, procs, Starting,
    Releasing, Ended, Interface, Initializer, Fault, Reports
<1> QED BY <1>1, <1>2, <1>3, <1>4, <1>5, <1>6, <1>7 DEF IInv

(* It sends the sleep command. *)
LEMMA PowerSleepsKeepsIInv ==
  ASSUME IInv, fault = "none", PowerSleeps PROVE IInv'
<1> USE RetryAssumption, TreeAssumption DEF IInv
<1>1. TypeOK'
  <2>1. sleepLost' \in BOOLEAN
    BY DEF PowerSleeps, sendSleepCommand, TypeOK
  <2>2. early' \in BOOLEAN
    BY DEF PowerSleeps, PowerChange, TypeOK
  <2> QED BY <2>1, <2>2 DEF PowerSleeps, sendSleepCommand, TypeOK, PowerChange, interfaces, procs, Fault
<1>2. MembersFollowLife'
  BY DEF PowerSleeps, TypeOK, MembersFollowLife, sendSleepCommand, PowerChange, interfaces,
    procs, Starting, Releasing, Ended, Interface, Initializer, Fault, Dropped, WithPower,
    BeforeParameters
<1>3. InitializersFollow'
  BY DEF PowerSleeps, TypeOK, InitializersFollow, sendSleepCommand, PowerChange, interfaces,
    procs, Starting, Releasing, Ended, Interface, Initializer, Fault
<1>4. SilentBeforeAndAfter'
  BY DEF PowerSleeps, TypeOK, SilentBeforeAndAfter, sendSleepCommand, PowerChange,
    interfaces, procs, Starting, Releasing, Ended, Interface, Initializer, Fault,
    BeforeParameters, Silence, Dropped, Reports
<1>5. InitialisedAtLast'
  BY DEF PowerSleeps, TypeOK, InitialisedAtLast, InitializersFollow, sendSleepCommand,
    PowerChange, interfaces, procs, Starting, Releasing, Ended, Interface, Initializer,
    Fault, BothDone
<1>6. FaultHasACause'
  BY DEF PowerSleeps, TypeOK, FaultHasACause, MembersFollowLife, sendSleepCommand,
    PowerChange, interfaces, procs, Starting, Releasing, Ended, Interface, Initializer,
    Fault, NoMemory, Dropped, WithPower, BeforeParameters
<1>7. SleepsWhenOff'
  BY DEF PowerSleeps, TypeOK, SleepsWhenOff, sendSleepCommand, PowerChange, interfaces,
    procs, Starting, Releasing, Ended, Interface, Initializer, Fault, Reports
<1> QED BY <1>1, <1>2, <1>3, <1>4, <1>5, <1>6, <1>7 DEF IInv

(* It is told to wake up. *)
LEMMA PowerOnKeepsIInv ==
  ASSUME IInv, fault = "none", PowerOn PROVE IInv'
<1> USE RetryAssumption, TreeAssumption DEF IInv
<1>1. TypeOK'
  BY DEF PowerOn, TypeOK, Initialize, PowerChange, interfaces, Starting, Releasing, Ended,
    Interface, Initializer, Fault
<1>2. MembersFollowLife'
  BY DEF PowerOn, TypeOK, MembersFollowLife, Initialize, PowerChange, interfaces, Starting,
    Releasing, Ended, Interface, Initializer, Fault, Dropped, WithPower, BeforeParameters
<1>3. InitializersFollow'
  BY DEF PowerOn, TypeOK, InitializersFollow, Initialize, PowerChange, interfaces, Starting,
    Releasing, Ended, Interface, Initializer, Fault
<1>4. SilentBeforeAndAfter'
  BY DEF PowerOn, TypeOK, SilentBeforeAndAfter, MembersFollowLife, Initialize, PowerChange,
    interfaces, Starting, Releasing, Ended, Interface, Initializer, Fault, BeforeParameters,
    Silence, Dropped, Reports, WithPower
<1>5. InitialisedAtLast'
  BY DEF PowerOn, TypeOK, InitialisedAtLast, Initialize, PowerChange, interfaces, Starting,
    Releasing, Ended, Interface, Initializer, Fault, BothDone
<1>6. FaultHasACause'
  BY DEF PowerOn, TypeOK, FaultHasACause, Initialize, PowerChange, interfaces, Starting,
    Releasing, Ended, Interface, Initializer, Fault, NoMemory
<1>7. SleepsWhenOff'
  BY DEF PowerOn, TypeOK, SleepsWhenOff, Initialize, PowerChange, interfaces, Starting,
    Releasing, Ended, Interface, Initializer, Fault, Reports
<1> QED BY <1>1, <1>2, <1>3, <1>4, <1>5, <1>6, <1>7 DEF IInv

(* It is awake. *)
LEMMA PowerIsOnKeepsIInv ==
  ASSUME IInv, fault = "none", PowerIsOn PROVE IInv'
<1> USE RetryAssumption, TreeAssumption DEF IInv
<1>1. TypeOK'
  BY DEF PowerIsOn, TypeOK, PowerChange, interfaces, procs, Starting, Releasing, Ended,
    Interface, Initializer, Fault
<1>2. MembersFollowLife'
  BY DEF PowerIsOn, TypeOK, MembersFollowLife, PowerChange, interfaces, procs, Starting,
    Releasing, Ended, Interface, Initializer, Fault, Dropped, WithPower, BeforeParameters
<1>3. InitializersFollow'
  BY DEF PowerIsOn, TypeOK, InitializersFollow, PowerChange, interfaces, procs, Starting,
    Releasing, Ended, Interface, Initializer, Fault
<1>4. SilentBeforeAndAfter'
  BY DEF PowerIsOn, TypeOK, SilentBeforeAndAfter, PowerChange, interfaces, procs, Starting,
    Releasing, Ended, Interface, Initializer, Fault, BeforeParameters, Silence, Dropped,
    Reports
<1>5. InitialisedAtLast'
  BY DEF PowerIsOn, TypeOK, InitialisedAtLast, PowerChange, interfaces, procs, Starting,
    Releasing, Ended, Interface, Initializer, Fault, BothDone
<1>6. FaultHasACause'
  BY DEF PowerIsOn, TypeOK, FaultHasACause, PowerChange, interfaces, procs, Starting,
    Releasing, Ended, Interface, Initializer, Fault, NoMemory
<1>7. SleepsWhenOff'
  BY DEF PowerIsOn, TypeOK, SleepsWhenOff, PowerChange, interfaces, procs, Starting,
    Releasing, Ended, Interface, Initializer, Fault, Reports
<1> QED BY <1>1, <1>2, <1>3, <1>4, <1>5, <1>6, <1>7 DEF IInv

(* The driver is stopped. *)
LEMMA stopKeepsIInv ==
  ASSUME IInv, fault = "none", stop PROVE IInv'
<1> USE RetryAssumption, TreeAssumption DEF IInv
<1>1. TypeOK'
  BY DEF stop, TypeOK, Run, interfaces, procs, history, Starting, Releasing, Ended,
    Interface, Initializer, Fault
<1>2. MembersFollowLife'
  BY DEF stop, TypeOK, MembersFollowLife, Run, interfaces, procs, history, Starting,
    Releasing, Ended, Interface, Initializer, Fault, Dropped, WithPower, BeforeParameters
<1>3. InitializersFollow'
  BY DEF stop, TypeOK, InitializersFollow, Run, interfaces, procs, history, Starting,
    Releasing, Ended, Interface, Initializer, Fault
<1>4. SilentBeforeAndAfter'
  BY DEF stop, TypeOK, SilentBeforeAndAfter, Run, interfaces, procs, history, Starting,
    Releasing, Ended, Interface, Initializer, Fault, BeforeParameters, Silence, Dropped,
    Reports
<1>5. InitialisedAtLast'
  BY DEF stop, TypeOK, InitialisedAtLast, Run, interfaces, procs, history, Starting,
    Releasing, Ended, Interface, Initializer, Fault, BothDone
<1>6. FaultHasACause'
  BY DEF stop, TypeOK, FaultHasACause, Run, interfaces, procs, history, Starting, Releasing,
    Ended, Interface, Initializer, Fault, NoMemory
<1>7. SleepsWhenOff'
  BY DEF stop, TypeOK, SleepsWhenOff, Run, interfaces, procs, history, Starting, Releasing,
    Ended, Interface, Initializer, Fault, Reports
<1> QED BY <1>1, <1>2, <1>3, <1>4, <1>5, <1>6, <1>7 DEF IInv

(* releaseResources sends the sleep command. *)
LEMMA ReleaseSleepsKeepsIInv ==
  ASSUME IInv, fault = "none", ReleaseSleeps PROVE IInv'
<1> USE RetryAssumption, TreeAssumption DEF IInv
<1>1. TypeOK'
  <2>1. sleepLost' \in BOOLEAN
    BY DEF ReleaseSleeps, sendSleepCommand, TypeOK
  <2>2. touchpad' \in {touchpad, "asleep"}
    BY DEF ReleaseSleeps, sendSleepCommand
  <2> QED BY <2>1, <2>2 DEF ReleaseSleeps, Run, TypeOK, Releasing, interfaces, procs
<1>2. MembersFollowLife'
  BY DEF ReleaseSleeps, TypeOK, MembersFollowLife, Run, sendSleepCommand, interfaces, procs,
    Starting, Releasing, Ended, Interface, Initializer, Fault, Dropped, WithPower,
    BeforeParameters
<1>3. InitializersFollow'
  BY DEF ReleaseSleeps, TypeOK, InitializersFollow, Run, sendSleepCommand, interfaces,
    procs, Starting, Releasing, Ended, Interface, Initializer, Fault
<1>4. SilentBeforeAndAfter'
  BY DEF ReleaseSleeps, TypeOK, SilentBeforeAndAfter, Run, sendSleepCommand, interfaces,
    procs, Starting, Releasing, Ended, Interface, Initializer, Fault, BeforeParameters,
    Silence, Dropped, Reports
<1>5. InitialisedAtLast'
  BY DEF ReleaseSleeps, TypeOK, InitialisedAtLast, Run, sendSleepCommand, interfaces, procs,
    Starting, Releasing, Ended, Interface, Initializer, Fault, BothDone
<1>6. FaultHasACause'
  BY DEF ReleaseSleeps, TypeOK, FaultHasACause, Run, sendSleepCommand, interfaces, procs,
    Starting, Releasing, Ended, Interface, Initializer, Fault, NoMemory
<1>7. SleepsWhenOff'
  BY DEF ReleaseSleeps, TypeOK, SleepsWhenOff, Run, sendSleepCommand, interfaces, procs,
    Starting, Releasing, Ended, Interface, Initializer, Fault, Reports
<1> QED BY <1>1, <1>2, <1>3, <1>4, <1>5, <1>6, <1>7 DEF IInv

(* It drops device_nub. *)
LEMMA ReleaseNubKeepsIInv ==
  ASSUME IInv, fault = "none", ReleaseNub PROVE IInv'
<1> USE RetryAssumption, TreeAssumption DEF IInv
<1>1. TypeOK'
  <2>1. device_nub' \in BOOLEAN
    BY DEF ReleaseNub
  <2>2. StillRunning \subseteq {"report", "power"}
    BY DEF StillRunning
  <2> QED BY <2>1, <2>2 DEF ReleaseNub, Run, TypeOK, Releasing, interfaces, procs, history
<1>2. MembersFollowLife'
  BY DEF ReleaseNub, TypeOK, MembersFollowLife, Run, StillRunning, interfaces, procs,
    Starting, Releasing, Ended, Interface, Initializer, Fault, Dropped, WithPower,
    BeforeParameters
<1>3. InitializersFollow'
  BY DEF ReleaseNub, TypeOK, InitializersFollow, Run, StillRunning, interfaces, procs,
    Starting, Releasing, Ended, Interface, Initializer, Fault
<1>4. SilentBeforeAndAfter'
  BY DEF ReleaseNub, TypeOK, SilentBeforeAndAfter, Run, StillRunning, interfaces, procs,
    Starting, Releasing, Ended, Interface, Initializer, Fault, BeforeParameters, Silence,
    Dropped, Reports
<1>5. InitialisedAtLast'
  BY DEF ReleaseNub, TypeOK, InitialisedAtLast, Run, StillRunning, interfaces, procs,
    Starting, Releasing, Ended, Interface, Initializer, Fault, BothDone
<1>6. FaultHasACause'
  BY DEF ReleaseNub, TypeOK, FaultHasACause, Run, StillRunning, interfaces, procs, Starting,
    Releasing, Ended, Interface, Initializer, Fault, NoMemory
<1>7. SleepsWhenOff'
  BY DEF ReleaseNub, TypeOK, SleepsWhenOff, Run, StillRunning, interfaces, procs, Starting,
    Releasing, Ended, Interface, Initializer, Fault, Reports
<1> QED BY <1>1, <1>2, <1>3, <1>4, <1>5, <1>6, <1>7 DEF IInv

(* It releases the transducers. *)
LEMMA ReleaseFingersKeepsIInv ==
  ASSUME IInv, fault = "none", ReleaseFingers PROVE IInv'
<1> USE RetryAssumption, TreeAssumption DEF IInv
<1>1. TypeOK'
  <2>1. transducers' \in BOOLEAN
    BY DEF ReleaseFingers
  <2> QED BY <2>1 DEF ReleaseFingers, Run, TypeOK, Releasing, procs, history
<1>2. MembersFollowLife'
  BY DEF ReleaseFingers, TypeOK, MembersFollowLife, Run, procs, history, Starting,
    Releasing, Ended, Interface, Initializer, Fault, Dropped, WithPower, BeforeParameters
<1>3. InitializersFollow'
  BY DEF ReleaseFingers, TypeOK, InitializersFollow, Run, procs, history, Starting,
    Releasing, Ended, Interface, Initializer, Fault
<1>4. SilentBeforeAndAfter'
  BY DEF ReleaseFingers, TypeOK, SilentBeforeAndAfter, Run, procs, history, Starting,
    Releasing, Ended, Interface, Initializer, Fault, BeforeParameters, Silence, Dropped,
    Reports
<1>5. InitialisedAtLast'
  BY DEF ReleaseFingers, TypeOK, InitialisedAtLast, Run, procs, history, Starting,
    Releasing, Ended, Interface, Initializer, Fault, BothDone
<1>6. FaultHasACause'
  BY DEF ReleaseFingers, TypeOK, FaultHasACause, Run, procs, history, Starting, Releasing,
    Ended, Interface, Initializer, Fault, NoMemory
<1>7. SleepsWhenOff'
  BY DEF ReleaseFingers, TypeOK, SleepsWhenOff, Run, procs, history, Starting, Releasing,
    Ended, Interface, Initializer, Fault, Reports
<1> QED BY <1>1, <1>2, <1>3, <1>4, <1>5, <1>6, <1>7 DEF IInv

(* It releases the multitouch interface. *)
LEMMA ReleaseInterfaceKeepsIInv ==
  ASSUME IInv, fault = "none", ReleaseInterface PROVE IInv'
<1> USE RetryAssumption, TreeAssumption DEF IInv
<1>1. TypeOK'
  BY DEF ReleaseInterface, TypeOK, Run, procs, history, Starting, Releasing, Ended,
    Interface, Initializer, Fault
<1>2. MembersFollowLife'
  BY DEF ReleaseInterface, TypeOK, MembersFollowLife, Run, procs, history, Starting,
    Releasing, Ended, Interface, Initializer, Fault, Dropped, WithPower, BeforeParameters
<1>3. InitializersFollow'
  BY DEF ReleaseInterface, TypeOK, InitializersFollow, Run, procs, history, Starting,
    Releasing, Ended, Interface, Initializer, Fault
<1>4. SilentBeforeAndAfter'
  BY DEF ReleaseInterface, TypeOK, SilentBeforeAndAfter, Run, procs, history, Starting,
    Releasing, Ended, Interface, Initializer, Fault, BeforeParameters, Silence, Dropped,
    Reports
<1>5. InitialisedAtLast'
  BY DEF ReleaseInterface, TypeOK, InitialisedAtLast, Run, procs, history, Starting,
    Releasing, Ended, Interface, Initializer, Fault, BothDone
<1>6. FaultHasACause'
  BY DEF ReleaseInterface, TypeOK, FaultHasACause, Run, procs, history, Starting, Releasing,
    Ended, Interface, Initializer, Fault, NoMemory
<1>7. SleepsWhenOff'
  BY DEF ReleaseInterface, TypeOK, SleepsWhenOff, Run, procs, history, Starting, Releasing,
    Ended, Interface, Initializer, Fault, Reports
<1> QED BY <1>1, <1>2, <1>3, <1>4, <1>5, <1>6, <1>7 DEF IInv

(* It releases the trackpoint. *)
LEMMA ReleaseTrackpointKeepsIInv ==
  ASSUME IInv, fault = "none", ReleaseTrackpoint PROVE IInv'
<1> USE RetryAssumption, TreeAssumption DEF IInv
<1>1. TypeOK'
  BY DEF ReleaseTrackpoint, TypeOK, Run, procs, history, Starting, Releasing, Ended,
    Interface, Initializer, Fault
<1>2. MembersFollowLife'
  BY DEF ReleaseTrackpoint, TypeOK, MembersFollowLife, Run, procs, history, Starting,
    Releasing, Ended, Interface, Initializer, Fault, Dropped, WithPower, BeforeParameters
<1>3. InitializersFollow'
  BY DEF ReleaseTrackpoint, TypeOK, InitializersFollow, Run, procs, history, Starting,
    Releasing, Ended, Interface, Initializer, Fault
<1>4. SilentBeforeAndAfter'
  BY DEF ReleaseTrackpoint, TypeOK, SilentBeforeAndAfter, Run, procs, history, Starting,
    Releasing, Ended, Interface, Initializer, Fault, BeforeParameters, Silence, Dropped,
    Reports
<1>5. InitialisedAtLast'
  BY DEF ReleaseTrackpoint, TypeOK, InitialisedAtLast, Run, procs, history, Starting,
    Releasing, Ended, Interface, Initializer, Fault, BothDone
<1>6. FaultHasACause'
  BY DEF ReleaseTrackpoint, TypeOK, FaultHasACause, Run, procs, history, Starting,
    Releasing, Ended, Interface, Initializer, Fault, NoMemory
<1>7. SleepsWhenOff'
  BY DEF ReleaseTrackpoint, TypeOK, SleepsWhenOff, Run, procs, history, Starting, Releasing,
    Ended, Interface, Initializer, Fault, Reports
<1> QED BY <1>1, <1>2, <1>3, <1>4, <1>5, <1>6, <1>7 DEF IInv

(* The driver leaves the power tree. *)
LEMMA PMstopKeepsIInv ==
  ASSUME IInv, fault = "none", PMstop PROVE IInv'
<1> USE RetryAssumption, TreeAssumption DEF IInv
<1>1. TypeOK'
  BY DEF PMstop, TypeOK, Run, interfaces, procs, history, Starting, Releasing, Ended,
    Interface, Initializer, Fault
<1>2. MembersFollowLife'
  BY DEF PMstop, TypeOK, MembersFollowLife, Run, interfaces, procs, history, Starting,
    Releasing, Ended, Interface, Initializer, Fault, Dropped, WithPower, BeforeParameters
<1>3. InitializersFollow'
  BY DEF PMstop, TypeOK, InitializersFollow, Run, interfaces, procs, history, Starting,
    Releasing, Ended, Interface, Initializer, Fault
<1>4. SilentBeforeAndAfter'
  BY DEF PMstop, TypeOK, SilentBeforeAndAfter, Run, interfaces, procs, history, Starting,
    Releasing, Ended, Interface, Initializer, Fault, BeforeParameters, Silence, Dropped,
    Reports
<1>5. InitialisedAtLast'
  BY DEF PMstop, TypeOK, InitialisedAtLast, Run, interfaces, procs, history, Starting,
    Releasing, Ended, Interface, Initializer, Fault, BothDone
<1>6. FaultHasACause'
  BY DEF PMstop, TypeOK, FaultHasACause, Run, interfaces, procs, history, Starting,
    Releasing, Ended, Interface, Initializer, Fault, NoMemory
<1>7. SleepsWhenOff'
  BY DEF PMstop, TypeOK, SleepsWhenOff, Run, interfaces, procs, history, Starting,
    Releasing, Ended, Interface, Initializer, Fault, Reports
<1> QED BY <1>1, <1>2, <1>3, <1>4, <1>5, <1>6, <1>7 DEF IInv

(* A host notify starts a thread. *)
LEMMA TouchpadNotifiesKeepsIInv ==
  ASSUME IInv, fault = "none", NEW t \in Thread, TouchpadNotifies(t) PROVE IInv'
<1> USE RetryAssumption, TreeAssumption DEF IInv
<1>1. TypeOK'
  BY DEF TouchpadNotifies, TypeOK, Reports, Move, interfaces, history, Starting, Releasing,
    Ended, Interface, Initializer, Fault
<1>2. MembersFollowLife'
  BY DEF TouchpadNotifies, TypeOK, MembersFollowLife, Reports, Move, interfaces, history,
    Starting, Releasing, Ended, Interface, Initializer, Fault, Dropped, WithPower,
    BeforeParameters
<1>3. InitializersFollow'
  BY DEF TouchpadNotifies, TypeOK, InitializersFollow, Reports, Move, interfaces, history,
    Starting, Releasing, Ended, Interface, Initializer, Fault
<1>4. SilentBeforeAndAfter'
  BY DEF TouchpadNotifies, TypeOK, SilentBeforeAndAfter, Reports, Move, interfaces, history,
    Starting, Releasing, Ended, Interface, Initializer, Fault, BeforeParameters, Silence,
    Dropped
<1>5. InitialisedAtLast'
  BY DEF TouchpadNotifies, TypeOK, InitialisedAtLast, Reports, Move, interfaces, history,
    Starting, Releasing, Ended, Interface, Initializer, Fault, BothDone
<1>6. FaultHasACause'
  BY DEF TouchpadNotifies, TypeOK, FaultHasACause, Reports, Move, interfaces, history,
    Starting, Releasing, Ended, Interface, Initializer, Fault, NoMemory
<1>7. SleepsWhenOff'
  BY DEF TouchpadNotifies, TypeOK, SleepsWhenOff, Reports, Move, interfaces, history,
    Starting, Releasing, Ended, Interface, Initializer, Fault
<1> QED BY <1>1, <1>2, <1>3, <1>4, <1>5, <1>6, <1>7 DEF IInv

(* The thread messages the driver. *)
LEMMA messageKeepsIInv ==
  ASSUME IInv, fault = "none", NEW t \in Thread, message(t) PROVE IInv'
<1> USE RetryAssumption, TreeAssumption DEF IInv
<1>1. TypeOK'
  BY DEF message, TypeOK, Move, Ended, interfaces, history, Starting, Releasing, Interface,
    Initializer, Fault
<1>2. MembersFollowLife'
  BY DEF message, TypeOK, MembersFollowLife, Move, Ended, interfaces, history, Starting,
    Releasing, Interface, Initializer, Fault, Dropped, WithPower, BeforeParameters
<1>3. InitializersFollow'
  BY DEF message, TypeOK, InitializersFollow, Move, Ended, interfaces, history, Starting,
    Releasing, Interface, Initializer, Fault
<1>4. SilentBeforeAndAfter'
  BY DEF message, TypeOK, SilentBeforeAndAfter, Move, Ended, interfaces, history, Starting,
    Releasing, Interface, Initializer, Fault, BeforeParameters, Silence, Dropped, Reports
<1>5. InitialisedAtLast'
  BY DEF message, TypeOK, InitialisedAtLast, Move, Ended, interfaces, history, Starting,
    Releasing, Interface, Initializer, Fault, BothDone
<1>6. FaultHasACause'
  BY DEF message, TypeOK, FaultHasACause, Move, Ended, interfaces, history, Starting,
    Releasing, Interface, Initializer, Fault, NoMemory
<1>7. SleepsWhenOff'
  BY DEF message, TypeOK, SleepsWhenOff, Move, Ended, interfaces, history, Starting,
    Releasing, Interface, Initializer, Fault, Reports
<1> QED BY <1>1, <1>2, <1>3, <1>4, <1>5, <1>6, <1>7 DEF IInv

(* It fetches the report. *)
LEMMA getReportKeepsIInv ==
  ASSUME IInv, fault = "none", NEW t \in Thread, getReport(t) PROVE IInv'
<1> USE RetryAssumption, TreeAssumption DEF IInv
<1>1. TypeOK'
  BY DEF getReport, TypeOK, Move, interfaces, history, Starting, Releasing, Ended,
    Interface, Initializer, Fault
<1>2. MembersFollowLife'
  BY DEF getReport, TypeOK, MembersFollowLife, Move, interfaces, history, Starting,
    Releasing, Ended, Interface, Initializer, Fault, Dropped, WithPower, BeforeParameters
<1>3. InitializersFollow'
  BY DEF getReport, TypeOK, InitializersFollow, Move, interfaces, history, Starting,
    Releasing, Ended, Interface, Initializer, Fault
<1>4. SilentBeforeAndAfter'
  BY DEF getReport, TypeOK, SilentBeforeAndAfter, Move, interfaces, history, Starting,
    Releasing, Ended, Interface, Initializer, Fault, BeforeParameters, Silence, Dropped,
    Reports
<1>5. InitialisedAtLast'
  BY DEF getReport, TypeOK, InitialisedAtLast, Move, interfaces, history, Starting,
    Releasing, Ended, Interface, Initializer, Fault, BothDone
<1>6. FaultHasACause'
  BY DEF getReport, TypeOK, FaultHasACause, MembersFollowLife, SilentBeforeAndAfter, Move,
    interfaces, history, Starting, Releasing, Ended, Interface, Initializer, Fault,
    NoMemory, Dropped, WithPower, BeforeParameters, Silence, Reports
<1>7. SleepsWhenOff'
  BY DEF getReport, TypeOK, SleepsWhenOff, Move, interfaces, history, Starting, Releasing,
    Ended, Interface, Initializer, Fault, Reports
<1> QED BY <1>1, <1>2, <1>3, <1>4, <1>5, <1>6, <1>7 DEF IInv

(* It uses the report. *)
LEMMA UseReportKeepsIInv ==
  ASSUME IInv, fault = "none", NEW t \in Thread, UseReport(t) PROVE IInv'
<1> USE RetryAssumption, TreeAssumption DEF IInv
<1>1. TypeOK'
  BY DEF UseReport, TypeOK, Move, Missing, interfaces, history, Starting, Releasing, Ended,
    Interface, Initializer, Fault
<1>2. MembersFollowLife'
  BY DEF UseReport, TypeOK, MembersFollowLife, Move, Missing, interfaces, history, Starting,
    Releasing, Ended, Interface, Initializer, Fault, Dropped, WithPower, BeforeParameters
<1>3. InitializersFollow'
  BY DEF UseReport, TypeOK, InitializersFollow, Move, Missing, interfaces, history,
    Starting, Releasing, Ended, Interface, Initializer, Fault
<1>4. SilentBeforeAndAfter'
  BY DEF UseReport, TypeOK, SilentBeforeAndAfter, Move, Missing, interfaces, history,
    Starting, Releasing, Ended, Interface, Initializer, Fault, BeforeParameters, Silence,
    Dropped, Reports
<1>5. InitialisedAtLast'
  BY DEF UseReport, TypeOK, InitialisedAtLast, Move, Missing, interfaces, history, Starting,
    Releasing, Ended, Interface, Initializer, Fault, BothDone
<1>6. FaultHasACause'
  BY DEF UseReport, TypeOK, FaultHasACause, MembersFollowLife, SilentBeforeAndAfter, Move,
    Missing, interfaces, history, Starting, Releasing, Ended, Interface, Initializer, Fault,
    NoMemory, Dropped, WithPower, BeforeParameters, Silence, Reports
<1>7. SleepsWhenOff'
  BY DEF UseReport, TypeOK, SleepsWhenOff, Move, Missing, interfaces, history, Starting,
    Releasing, Ended, Interface, Initializer, Fault, Reports
<1> QED BY <1>1, <1>2, <1>3, <1>4, <1>5, <1>6, <1>7 DEF IInv

(* The controller disables its gate. *)
LEMMA ControllerOffKeepsIInv ==
  ASSUME IInv, fault = "none", ControllerOff PROVE IInv'
<1> USE RetryAssumption, TreeAssumption DEF IInv
<1>1. TypeOK'
  <2>1. gate' \in BOOLEAN
    BY DEF ControllerOff
  <2> QED BY <2>1 DEF ControllerOff, TypeOK, interfaces, procs, history
<1>2. MembersFollowLife'
  BY DEF ControllerOff, TypeOK, MembersFollowLife, DriverIsOff, interfaces, procs, history,
    Starting, Releasing, Ended, Interface, Initializer, Fault, Dropped, WithPower,
    BeforeParameters
<1>3. InitializersFollow'
  BY DEF ControllerOff, TypeOK, InitializersFollow, DriverIsOff, interfaces, procs, history,
    Starting, Releasing, Ended, Interface, Initializer, Fault
<1>4. SilentBeforeAndAfter'
  BY DEF ControllerOff, TypeOK, SilentBeforeAndAfter, DriverIsOff, interfaces, procs,
    history, Starting, Releasing, Ended, Interface, Initializer, Fault, BeforeParameters,
    Silence, Dropped, Reports
<1>5. InitialisedAtLast'
  BY DEF ControllerOff, TypeOK, InitialisedAtLast, DriverIsOff, interfaces, procs, history,
    Starting, Releasing, Ended, Interface, Initializer, Fault, BothDone
<1>6. FaultHasACause'
  BY DEF ControllerOff, TypeOK, FaultHasACause, DriverIsOff, interfaces, procs, history,
    Starting, Releasing, Ended, Interface, Initializer, Fault, NoMemory
<1>7. SleepsWhenOff'
  BY DEF ControllerOff, TypeOK, SleepsWhenOff, DriverIsOff, interfaces, procs, history,
    Starting, Releasing, Ended, Interface, Initializer, Fault, Reports
<1> QED BY <1>1, <1>2, <1>3, <1>4, <1>5, <1>6, <1>7 DEF IInv

(* The controller enables its gate. *)
LEMMA ControllerOnKeepsIInv ==
  ASSUME IInv, fault = "none", ControllerOn PROVE IInv'
<1> USE RetryAssumption, TreeAssumption DEF IInv
<1>1. TypeOK'
  BY DEF ControllerOn, TypeOK, interfaces, procs, history, Starting, Releasing, Ended,
    Interface, Initializer, Fault
<1>2. MembersFollowLife'
  BY DEF ControllerOn, TypeOK, MembersFollowLife, interfaces, procs, history, Starting,
    Releasing, Ended, Interface, Initializer, Fault, Dropped, WithPower, BeforeParameters
<1>3. InitializersFollow'
  BY DEF ControllerOn, TypeOK, InitializersFollow, interfaces, procs, history, Starting,
    Releasing, Ended, Interface, Initializer, Fault
<1>4. SilentBeforeAndAfter'
  BY DEF ControllerOn, TypeOK, SilentBeforeAndAfter, interfaces, procs, history, Starting,
    Releasing, Ended, Interface, Initializer, Fault, BeforeParameters, Silence, Dropped,
    Reports
<1>5. InitialisedAtLast'
  BY DEF ControllerOn, TypeOK, InitialisedAtLast, interfaces, procs, history, Starting,
    Releasing, Ended, Interface, Initializer, Fault, BothDone
<1>6. FaultHasACause'
  BY DEF ControllerOn, TypeOK, FaultHasACause, interfaces, procs, history, Starting,
    Releasing, Ended, Interface, Initializer, Fault, NoMemory
<1>7. SleepsWhenOff'
  BY DEF ControllerOn, TypeOK, SleepsWhenOff, interfaces, procs, history, Starting,
    Releasing, Ended, Interface, Initializer, Fault, Reports
<1> QED BY <1>1, <1>2, <1>3, <1>4, <1>5, <1>6, <1>7 DEF IInv

(* The touchpad loses power. *)
LEMMA PowerIsLostKeepsIInv ==
  ASSUME IInv, fault = "none", PowerIsLost PROVE IInv'
<1> USE RetryAssumption, TreeAssumption DEF IInv
<1>1. TypeOK'
  BY DEF PowerIsLost, TypeOK, DriverIsOff, interfaces, procs, history, Starting, Releasing,
    Ended, Interface, Initializer, Fault
<1>2. MembersFollowLife'
  BY DEF PowerIsLost, TypeOK, MembersFollowLife, DriverIsOff, interfaces, procs, history,
    Starting, Releasing, Ended, Interface, Initializer, Fault, Dropped, WithPower,
    BeforeParameters
<1>3. InitializersFollow'
  BY DEF PowerIsLost, TypeOK, InitializersFollow, DriverIsOff, interfaces, procs, history,
    Starting, Releasing, Ended, Interface, Initializer, Fault
<1>4. SilentBeforeAndAfter'
  BY DEF PowerIsLost, TypeOK, SilentBeforeAndAfter, DriverIsOff, interfaces, procs, history,
    Starting, Releasing, Ended, Interface, Initializer, Fault, BeforeParameters, Silence,
    Dropped, Reports
<1>5. InitialisedAtLast'
  BY DEF PowerIsLost, TypeOK, InitialisedAtLast, DriverIsOff, interfaces, procs, history,
    Starting, Releasing, Ended, Interface, Initializer, Fault, BothDone
<1>6. FaultHasACause'
  BY DEF PowerIsLost, TypeOK, FaultHasACause, DriverIsOff, interfaces, procs, history,
    Starting, Releasing, Ended, Interface, Initializer, Fault, NoMemory
<1>7. SleepsWhenOff'
  BY DEF PowerIsLost, TypeOK, SleepsWhenOff, DriverIsOff, interfaces, procs, history,
    Starting, Releasing, Ended, Interface, Initializer, Fault, Reports
<1> QED BY <1>1, <1>2, <1>3, <1>4, <1>5, <1>6, <1>7 DEF IInv

(* Nothing happens, or nothing more after a fault. *)
LEMMA StutterKeepsIInv == ASSUME IInv, UNCHANGED vars PROVE IInv'
<1> USE DEF IInv, vars, interfaces, procs, history
<1>1. TypeOK' /\ MembersFollowLife' /\ InitializersFollow'
  BY DEF TypeOK, MembersFollowLife, InitializersFollow
<1>2. SilentBeforeAndAfter' /\ InitialisedAtLast'
  BY DEF SilentBeforeAndAfter, Silence, Reports, InitialisedAtLast, BothDone
<1>3. FaultHasACause' /\ SleepsWhenOff'
  BY DEF FaultHasACause, NoMemory, SleepsWhenOff, Reports
<1> QED BY <1>1, <1>2, <1>3

-----------------------------------------------------------------------------

(* The inductive invariant. *)
THEOREM Invariance == Spec => []IInv
<1>1. Init => IInv
  BY InitIInv
<1>2. IInv /\ [Next]_vars => IInv'
  <2> SUFFICES ASSUME IInv, [Next]_vars PROVE IInv'
    OBVIOUS
  <2>1. CASE UNCHANGED vars
    BY <2>1, StutterKeepsIInv
  <2>2. CASE fault = "none" /\ Alive
    <3> USE <2>2
    <3>1. CASE Attach \/ probe \/ start
      BY <3>1, AttachKeepsIInv, probeKeepsIInv, JoinPowerKeepsIInv,
        publishMultitouchInterfaceKeepsIInv, publishTrackpointKeepsIInv,
        setDeviceParametersKeepsIInv, StartEndsKeepsIInv DEF start
    <3>2. CASE stop \/ releaseResources \/ PMstop
      BY <3>2, stopKeepsIInv, ReleaseSleepsKeepsIInv, ReleaseNubKeepsIInv,
        ReleaseFingersKeepsIInv, ReleaseInterfaceKeepsIInv, ReleaseTrackpointKeepsIInv,
        PMstopKeepsIInv DEF releaseResources
    <3>3. ASSUME NEW p \in Initializer, tryInitialize(p) PROVE IInv'
      BY <3>3, tryInitializeKeepsIInv
    <3>4. CASE setPowerState
      BY <3>4, PowerOffKeepsIInv, PowerSleepsKeepsIInv, PowerOnKeepsIInv, PowerIsOnKeepsIInv
        DEF setPowerState
    <3>5. ASSUME NEW t \in Thread, TouchpadNotifies(t) \/ message(t) \/ handleHostNotify(t)
          PROVE IInv'
      BY <3>5, TouchpadNotifiesKeepsIInv, messageKeepsIInv, getReportKeepsIInv,
        UseReportKeepsIInv DEF handleHostNotify
    <3>6. CASE ControllerOff \/ ControllerOn \/ PowerIsLost
      BY <3>6, ControllerOffKeepsIInv, ControllerOnKeepsIInv, PowerIsLostKeepsIInv
    <3> QED BY <3>1, <3>2, <3>3, <3>4, <3>5, <3>6 DEF Alive
  <2> QED BY <2>1, <2>2 DEF Next
<1> QED BY <1>1, <1>2, PTL DEF Spec

(* No report is used before start has made what it needs or after          *)
(* releaseResources, but for the causes named.                             *)
THEOREM FaultsHaveACause == Spec => []FaultHasACause
<1>1. IInv => FaultHasACause
  BY DEF IInv
<1>2. Spec => []IInv
  BY Invariance
<1> QED BY <1>1, <1>2, PTL

(* A touchpad whose driver is off sleeps. *)
THEOREM TouchpadSleepsWhenOff == Spec => []SleepsWhenOff
<1>1. IInv => SleepsWhenOff
  BY DEF IInv
<1>2. Spec => []IInv
  BY Invariance
<1> QED BY <1>1, <1>2, PTL

(* A touchpad whose driver is awake is initialised, or has been tried      *)
(* ETP_RETRY_COUNT times.                                                  *)
THEOREM AwakeIsInitialised == Spec => []InitialisedOrGivenUp
<1>1. IInv => InitialisedOrGivenUp
  <2> SUFFICES ASSUME IInv, life = "up", pm = "idle", awake
               PROVE  touchpad = "absolute" \/ failed["power"] = ETP_RETRY_COUNT
    BY DEF InitialisedOrGivenUp
  <2>1. init["start"] = "idle"
    BY DEF IInv, TypeOK, InitializersFollow
  <2> QED BY <2>1 DEF IInv, InitialisedAtLast, BothDone
<1>2. Spec => []IInv
  BY Invariance
<1> QED BY <1>1, <1>2, PTL

(* One transfer less to make, or three for the next try. *)
LEMMA OneTransferLess ==
  ASSUME IInv, IInv', NEW p \in Initializer,
         \/ failed'[p] = failed[p] /\ StageTransfers[init'[p]] < StageTransfers[init[p]]
         \/ failed'[p] = failed[p] + 1 /\ init[p] # "idle" /\ init'[p] \in {"hello", "idle"}
  PROVE  TransfersLeft(p)' < TransfersLeft(p)
<1>1. /\ init[p] \in {"idle", "hello", "enable", "mode"} /\ failed[p] \in Nat
      /\ init'[p] \in {"idle", "hello", "enable", "mode"} /\ failed'[p] \in Nat
  BY RetryAssumption DEF IInv, TypeOK
<1> QED BY <1>1, RetryAssumption DEF TransfersLeft, StageTransfers

(* Initialisation comes nearer to its end with each transfer.              *)
THEOREM InitializersAdvance == Spec => InitializationAdvances
<1>1. IInv /\ IInv' /\ [Next]_vars =>
        [\A p \in Initializer :
           init[p] # "idle" /\ <<init[p], failed[p]>>' # <<init[p], failed[p]>> =>
             TransfersLeft(p)' < TransfersLeft(p)]_vars
  <2> SUFFICES ASSUME IInv, IInv', Next, NEW p \in Initializer, init[p] # "idle",
                      init'[p] # init[p] \/ failed'[p] # failed[p]
               PROVE  TransfersLeft(p)' < TransfersLeft(p)
    OBVIOUS
  <2>1. init[p] \in {"hello", "enable", "mode"} /\ failed[p] \in Nat
    BY RetryAssumption DEF IInv, TypeOK
  <2>2. init \in [Initializer -> {"idle", "hello", "enable", "mode"}] /\ DOMAIN failed = Initializer
    BY DEF IInv, TypeOK
  <2>3. tryInitialize(p)
    <3>1. p = "start" => life = "initialize"
      BY <2>1 DEF IInv, InitializersFollow
    <3>2. p = "power" => pm = "initialize"
      BY <2>1 DEF IInv, InitializersFollow
    <3> QED BY <2>2, <3>1, <3>2
      DEF Next, Alive, start, stop, releaseResources, setPowerState, handleHostNotify,
        Attach, probe, JoinPower, publishMultitouchInterface, publishTrackpoint,
        setDeviceParameters, StartEnds, Initialize, PowerOff, PowerSleeps, PowerOn, PowerIsOn,
        ReleaseSleeps, ReleaseNub, ReleaseFingers, ReleaseInterface, ReleaseTrackpoint, PMstop,
        TouchpadNotifies, message, getReport, UseReport, ControllerOff, ControllerOn,
        PowerIsLost, tryInitialize, TransferSucceeds, TransferFails, Initializer, procs, Run
  <2>4. CASE TransferSucceeds(p)
    <3>1. failed'[p] = failed[p] /\ StageTransfers[init'[p]] < StageTransfers[init[p]]
      BY <2>1, <2>2, <2>4 DEF TransferSucceeds, StageTransfers
    <3> QED BY <3>1, OneTransferLess
  <2>5. CASE TransferFails(p)
    <3>1. failed'[p] = failed[p] + 1 /\ init'[p] \in {"hello", "idle"}
      BY <2>1, <2>2, <2>5 DEF TransferFails
    <3> QED BY <3>1, OneTransferLess
  <2> QED BY <2>3, <2>4, <2>5 DEF tryInitialize
<1>2. Spec => []IInv
  BY Invariance
<1> QED BY <1>1, <1>2, PTL DEF Spec, InitializationAdvances

=============================================================================
