--------------------- MODULE ControllerLifecycleProofs ---------------------
(***************************************************************************)
(* Theorems about ControllerLifecycle, for any number of calls, of         *)
(* getWorkLoop and of transfer.                                            *)
(***************************************************************************)
EXTENDS ControllerLifecycle, WorkLoopInitProofs

(* Before start there is nothing. *)
LEMMA InitIInv == Init => IInv
<1> SUFFICES ASSUME Init PROVE IInv
  OBVIOUS
<1> USE CallerAssumption, MaxLoopsAssumption DEF Init
<1>1. LoopTypeOK
  BY LoopInitially DEF LoopInv
<1>2. DriverTypeOK
  <2>1. pci \in BOOLEAN /\ ntfy \in BOOLEAN /\ hststs \in BOOLEAN /\ early \in BOOLEAN
    OBVIOUS
  <2>2. loopRefs \in [Loops -> 0..2] /\ pc \in [Call -> CallStage]
    BY DEF CallStage
  <2>3. intren \in BOOLEAN /\ original \in BOOLEAN
    OBVIOUS
  <2> QED BY <2>1, <2>2, <2>3 DEF DriverTypeOK, Starting, IrqState, GateState, Fault
<1>3. MarkerExcludes /\ LoopInUse
  BY DEF LoopInit, MarkerExcludes, LoopInUse, BeforeLoop, AfterLoop, Releasing, Null, IsLoop
<1>4. LoopCounted
  BY DEF LoopInit, LoopCounted, Loops
<1>5. SourcesFollowLife /\ PowerFollowsLife /\ NubCounted
  BY DEF SourcesFollowLife, PowerFollowsLife, NubCounted, WithPower, WithoutNub, TornDown,
    Releasing, AfterLoop
<1>6. QuietBeforeAndAfter
  <2>1. InFlight = {} /\ ~ hststs
    BY DEF InFlight
  <2> QED BY <2>1 DEF QuietBeforeAndAfter, NothingRuns, TornDown, Releasing, AfterLoop
<1>7. NotifyKept /\ MisuseHasACause /\ FailedStartLeavesNothing /\ NotifyFollowsPower
  BY DEF NotifyKept, TornDown, Releasing, AfterLoop, MisuseHasACause, FailedStartLeavesNothing,
    NotifyFollowsPower
<1> QED BY <1>1, <1>2, <1>3, <1>4, <1>5, <1>6, <1>7 DEF IInv, TypeOK

(* The number of work loops goes up by one at most. *)
LEMMA OneMore ==
  ASSUME NEW m \in Nat, NEW n \in Nat, n = m \/ n = m + 1, NEW l \in Nat
  PROVE  /\ l > n + 1 => l > m + 1 /\ l # n + 1
         /\ l <= n + 1 /\ ~ (l <= m + 1) => l = n + 1 /\ n # m
OBVIOUS

(* start returns early. *)
LEMMA StartRefusesKeepsIInv ==
  ASSUME IInv, LoopInv, fault = "none", StartRefuses PROVE IInv'
<1> USE CallerAssumption, MaxLoopsAssumption DEF IInv, TypeOK
<1>1. LoopTypeOK'
  BY DEF StartRefuses, LoopTypeOK, DriverTypeOK, Run, loops, sources, nubVars, powerVars,
    busVars, history, Where, Starting, Releasing, Over, Loops, IrqState, GateState,
    CallStage, Cause, Fault, loopVars
<1>2. DriverTypeOK'
  BY DEF StartRefuses, LoopTypeOK, DriverTypeOK, Run, loops, sources, nubVars, powerVars,
    busVars, history, Where, Starting, Releasing, Over, Loops, IrqState, GateState,
    CallStage, Cause, Fault, loopVars
<1>3. MarkerExcludes'
  BY DEF StartRefuses, LoopTypeOK, DriverTypeOK, MarkerExcludes, Run, loops, sources,
    nubVars, powerVars, busVars, history, Where, Starting, Releasing, Over, Loops, IrqState,
    GateState, CallStage, Cause, Fault, LoopGivenUp, Marker, loopVars, AfterLoop,
    BeforeLoop, Null
<1>4. LoopInUse'
  BY DEF StartRefuses, LoopTypeOK, DriverTypeOK, LoopInUse, Run, loops, sources, nubVars,
    powerVars, busVars, history, Where, Starting, Releasing, Over, Loops, IrqState,
    GateState, CallStage, Cause, Fault, BeforeLoop, AfterLoop, IsLoop, Null, loopVars
<1>5. LoopCounted'
  BY DEF StartRefuses, LoopTypeOK, DriverTypeOK, LoopCounted, Run, loops, sources, nubVars,
    powerVars, busVars, history, Where, Starting, Releasing, Over, Loops, IrqState,
    GateState, CallStage, Cause, Fault, AfterLoop, loopVars
<1>6. SourcesFollowLife'
  BY DEF StartRefuses, LoopTypeOK, DriverTypeOK, SourcesFollowLife, Run, loops, sources,
    nubVars, powerVars, busVars, history, Where, Starting, Releasing, Over, Loops, IrqState,
    GateState, CallStage, Cause, Fault, WithPower, AfterLoop, loopVars
<1>7. PowerFollowsLife'
  BY DEF StartRefuses, LoopTypeOK, DriverTypeOK, PowerFollowsLife, Run, loops, sources,
    nubVars, powerVars, busVars, history, Where, Starting, Releasing, Over, Loops, IrqState,
    GateState, CallStage, Cause, Fault, WithPower, AfterLoop, loopVars
<1>8. NubCounted'
  BY DEF StartRefuses, LoopTypeOK, DriverTypeOK, NubCounted, Run, loops, sources, nubVars,
    powerVars, busVars, history, Where, Starting, Releasing, Over, Loops, IrqState,
    GateState, CallStage, Cause, Fault, WithoutNub, AfterLoop, TornDown, loopVars
<1>9. QuietBeforeAndAfter'
  BY DEF StartRefuses, LoopTypeOK, DriverTypeOK, QuietBeforeAndAfter, Run, loops, sources,
    nubVars, powerVars, busVars, history, Where, Starting, Releasing, Over, Loops, IrqState,
    GateState, CallStage, Cause, Fault, WithoutNub, NothingRuns, TornDown, loopVars,
    InFlight, AfterLoop
<1>10. NotifyKept'
  BY DEF StartRefuses, LoopTypeOK, DriverTypeOK, NotifyKept, Run, loops, sources, nubVars,
    powerVars, busVars, history, Where, Starting, Releasing, Over, Loops, IrqState,
    GateState, CallStage, Cause, Fault, TornDown, loopVars, AfterLoop
<1>11. MisuseHasACause'
  BY DEF StartRefuses, LoopTypeOK, DriverTypeOK, MisuseHasACause, Run, loops, sources,
    nubVars, powerVars, busVars, history, Where, Starting, Releasing, Over, Loops, IrqState,
    GateState, CallStage, Cause, Fault, loopVars
<1>12. FailedStartLeavesNothing'
  BY DEF StartRefuses, LoopTypeOK, DriverTypeOK, FailedStartLeavesNothing, Run, loops,
    sources, nubVars, powerVars, busVars, history, Where, Starting, Releasing, Over, Loops,
    IrqState, GateState, CallStage, Cause, Fault, IsLoop, loopVars
<1>13. NotifyFollowsPower'
  BY DEF StartRefuses, LoopTypeOK, DriverTypeOK, NotifyFollowsPower, Run, loops, sources,
    nubVars, powerVars, busVars, history, Where, Starting, Releasing, Over, Loops, IrqState,
    GateState, CallStage, Cause, Fault, loopVars
<1> QED BY <1>1, <1>2, <1>3, <1>4, <1>5, <1>6, <1>7, <1>8, <1>9, <1>10, <1>11, <1>12, <1>13 DEF IInv

(* start opens the PCI device. *)
LEMMA StartOpensKeepsIInv ==
  ASSUME IInv, LoopInv, fault = "none", StartOpens PROVE IInv'
<1> USE CallerAssumption, MaxLoopsAssumption DEF IInv, TypeOK
<1>1. LoopTypeOK'
  BY DEF StartOpens, LoopTypeOK, DriverTypeOK, Run, loops, sources, nubVars, powerVars,
    busVars, history, Where, Starting, Releasing, Over, Loops, IrqState, GateState,
    CallStage, Cause, Fault, loopVars
<1>2. DriverTypeOK'
  BY DEF StartOpens, LoopTypeOK, DriverTypeOK, Run, loops, sources, nubVars, powerVars,
    busVars, history, Where, Starting, Releasing, Over, Loops, IrqState, GateState,
    CallStage, Cause, Fault, loopVars
<1>3. MarkerExcludes'
  BY DEF StartOpens, LoopTypeOK, DriverTypeOK, MarkerExcludes, Run, loops, sources, nubVars,
    powerVars, busVars, history, Where, Starting, Releasing, Over, Loops, IrqState,
    GateState, CallStage, Cause, Fault, LoopGivenUp, Marker, loopVars, AfterLoop,
    BeforeLoop, Null
<1>4. LoopInUse'
  BY DEF StartOpens, LoopTypeOK, DriverTypeOK, LoopInUse, Run, loops, sources, nubVars,
    powerVars, busVars, history, Where, Starting, Releasing, Over, Loops, IrqState,
    GateState, CallStage, Cause, Fault, BeforeLoop, AfterLoop, IsLoop, Null, loopVars
<1>5. LoopCounted'
  BY DEF StartOpens, LoopTypeOK, DriverTypeOK, LoopCounted, Run, loops, sources, nubVars,
    powerVars, busVars, history, Where, Starting, Releasing, Over, Loops, IrqState,
    GateState, CallStage, Cause, Fault, AfterLoop, loopVars
<1>6. SourcesFollowLife'
  BY DEF StartOpens, LoopTypeOK, DriverTypeOK, SourcesFollowLife, Run, loops, sources,
    nubVars, powerVars, busVars, history, Where, Starting, Releasing, Over, Loops, IrqState,
    GateState, CallStage, Cause, Fault, WithPower, AfterLoop, loopVars
<1>7. PowerFollowsLife'
  BY DEF StartOpens, LoopTypeOK, DriverTypeOK, PowerFollowsLife, Run, loops, sources,
    nubVars, powerVars, busVars, history, Where, Starting, Releasing, Over, Loops, IrqState,
    GateState, CallStage, Cause, Fault, WithPower, AfterLoop, loopVars
<1>8. NubCounted'
  BY DEF StartOpens, LoopTypeOK, DriverTypeOK, NubCounted, Run, loops, sources, nubVars,
    powerVars, busVars, history, Where, Starting, Releasing, Over, Loops, IrqState,
    GateState, CallStage, Cause, Fault, WithoutNub, AfterLoop, TornDown, loopVars
<1>9. QuietBeforeAndAfter'
  BY DEF StartOpens, LoopTypeOK, DriverTypeOK, QuietBeforeAndAfter, Run, loops, sources,
    nubVars, powerVars, busVars, history, Where, Starting, Releasing, Over, Loops, IrqState,
    GateState, CallStage, Cause, Fault, WithoutNub, NothingRuns, TornDown, loopVars,
    InFlight, AfterLoop
<1>10. NotifyKept'
  BY DEF StartOpens, LoopTypeOK, DriverTypeOK, NotifyKept, Run, loops, sources, nubVars,
    powerVars, busVars, history, Where, Starting, Releasing, Over, Loops, IrqState,
    GateState, CallStage, Cause, Fault, TornDown, loopVars, AfterLoop
<1>11. MisuseHasACause'
  BY DEF StartOpens, LoopTypeOK, DriverTypeOK, MisuseHasACause, Run, loops, sources,
    nubVars, powerVars, busVars, history, Where, Starting, Releasing, Over, Loops, IrqState,
    GateState, CallStage, Cause, Fault, loopVars
<1>12. FailedStartLeavesNothing'
  BY DEF StartOpens, LoopTypeOK, DriverTypeOK, FailedStartLeavesNothing, Run, loops,
    sources, nubVars, powerVars, busVars, history, Where, Starting, Releasing, Over, Loops,
    IrqState, GateState, CallStage, Cause, Fault, IsLoop, loopVars
<1>13. NotifyFollowsPower'
  BY DEF StartOpens, LoopTypeOK, DriverTypeOK, NotifyFollowsPower, Run, loops, sources,
    nubVars, powerVars, busVars, history, Where, Starting, Releasing, Over, Loops, IrqState,
    GateState, CallStage, Cause, Fault, loopVars
<1> QED BY <1>1, <1>2, <1>3, <1>4, <1>5, <1>6, <1>7, <1>8, <1>9, <1>10, <1>11, <1>12, <1>13 DEF IInv

(* start stores its work loop. *)
LEMMA StartGetsLoopKeepsIInv ==
  ASSUME IInv, LoopInv, fault = "none", StartGetsLoop PROVE IInv'
<1> USE CallerAssumption, MaxLoopsAssumption DEF IInv, TypeOK
<1>1. LoopTypeOK'
  BY DEF StartGetsLoop, LoopTypeOK, DriverTypeOK, StoreWorkLoop, Run, Null, sources,
    nubVars, powerVars, busVars, history, Where, Starting, Releasing, Over, Loops, IrqState,
    GateState, CallStage, Cause, Fault
<1>2. DriverTypeOK'
  BY DEF StartGetsLoop, LoopTypeOK, DriverTypeOK, StoreWorkLoop, Run, Null, sources,
    nubVars, powerVars, busVars, history, Where, Starting, Releasing, Over, Loops, IrqState,
    GateState, CallStage, Cause, Fault
<1>3. MarkerExcludes'
  <2> SUFFICES ASSUME ~ LoopGivenUp', NEW c \in Caller, NEW d \in Caller, loc[c] = "alloc"
               PROVE  work_loop' = Marker /\ (loc[d] = "alloc" => c = d)
    BY DEF StartGetsLoop, StoreWorkLoop, MarkerExcludes
  <2>1. life = "loop" /\ life' \notin BeforeLoop /\ ret' = ret /\ work_loop' = ret[Starter]
    BY DEF StartGetsLoop, StoreWorkLoop, Run, BeforeLoop
  <2>2. work_loop = Marker /\ (loc[d] = "alloc" => c = d)
    BY <2>1 DEF MarkerExcludes, LoopGivenUp, BeforeLoop, AfterLoop
  <2>3. ret[Starter] # Null
    BY <2>1 DEF LoopGivenUp
  <2>4. ~ IsLoop(ret[Starter])
    BY <2>1, <2>2 DEF LoopInUse, AfterLoop, IsLoop, Marker
  <2>5. ret[Starter] \in Nat
    BY DEF LoopTypeOK
  <2> QED BY <2>1, <2>2, <2>3, <2>4, <2>5 DEF IsLoop, Marker, Null
<1>4. LoopInUse'
  BY DEF StartGetsLoop, LoopTypeOK, DriverTypeOK, LoopInUse, MarkerExcludes,
    SourcesFollowLife, PowerFollowsLife, StoreWorkLoop, Run, Null, sources, nubVars,
    powerVars, busVars, history, Where, Starting, Releasing, Over, Loops, IrqState,
    GateState, CallStage, Cause, Fault, BeforeLoop, AfterLoop, IsLoop, LoopGivenUp, Marker,
    WithPower
<1>5. LoopCounted'
  BY DEF StartGetsLoop, LoopTypeOK, DriverTypeOK, LoopCounted, LoopInUse, PowerFollowsLife,
    StoreWorkLoop, Run, Null, sources, nubVars, powerVars, busVars, history, Where,
    Starting, Releasing, Over, Loops, IrqState, GateState, CallStage, Cause, Fault,
    AfterLoop, BeforeLoop, IsLoop, WithPower
<1>6. SourcesFollowLife'
  BY DEF StartGetsLoop, LoopTypeOK, DriverTypeOK, SourcesFollowLife, PowerFollowsLife,
    LoopInUse, StoreWorkLoop, Run, Null, sources, nubVars, powerVars, busVars, history,
    Where, Starting, Releasing, Over, Loops, IrqState, GateState, CallStage, Cause, Fault,
    WithPower, AfterLoop, BeforeLoop, IsLoop
<1>7. PowerFollowsLife'
  BY DEF StartGetsLoop, LoopTypeOK, DriverTypeOK, PowerFollowsLife, SourcesFollowLife,
    NubCounted, LoopInUse, StoreWorkLoop, Run, Null, sources, nubVars, powerVars, busVars,
    history, Where, Starting, Releasing, Over, Loops, IrqState, GateState, CallStage, Cause,
    Fault, WithPower, AfterLoop, WithoutNub, TornDown, BeforeLoop, IsLoop
<1>8. NubCounted'
  BY DEF StartGetsLoop, LoopTypeOK, DriverTypeOK, NubCounted, StoreWorkLoop, Run, Null,
    sources, nubVars, powerVars, busVars, history, Where, Starting, Releasing, Over, Loops,
    IrqState, GateState, CallStage, Cause, Fault, WithoutNub, AfterLoop, TornDown
<1>9. QuietBeforeAndAfter'
  BY DEF StartGetsLoop, LoopTypeOK, DriverTypeOK, QuietBeforeAndAfter, SourcesFollowLife,
    NubCounted, PowerFollowsLife, StoreWorkLoop, Run, Null, sources, nubVars, powerVars,
    busVars, history, Where, Starting, Releasing, Over, Loops, IrqState, GateState,
    CallStage, Cause, Fault, WithoutNub, NothingRuns, TornDown, WithPower, AfterLoop,
    InFlight
<1>10. NotifyKept'
  BY DEF StartGetsLoop, LoopTypeOK, DriverTypeOK, NotifyKept, PowerFollowsLife,
    StoreWorkLoop, Run, Null, sources, nubVars, powerVars, busVars, history, Where,
    Starting, Releasing, Over, Loops, IrqState, GateState, CallStage, Cause, Fault,
    TornDown, WithPower, AfterLoop
<1>11. MisuseHasACause'
  BY DEF StartGetsLoop, LoopTypeOK, DriverTypeOK, MisuseHasACause, StoreWorkLoop, Run, Null,
    sources, nubVars, powerVars, busVars, history, Where, Starting, Releasing, Over, Loops,
    IrqState, GateState, CallStage, Cause, Fault
<1>12. FailedStartLeavesNothing'
  BY DEF StartGetsLoop, LoopTypeOK, DriverTypeOK, FailedStartLeavesNothing, StoreWorkLoop,
    Run, Null, sources, nubVars, powerVars, busVars, history, Where, Starting, Releasing,
    Over, Loops, IrqState, GateState, CallStage, Cause, Fault, IsLoop
<1>13. NotifyFollowsPower'
  BY DEF StartGetsLoop, LoopTypeOK, DriverTypeOK, NotifyFollowsPower, StoreWorkLoop, Run,
    Null, sources, nubVars, powerVars, busVars, history, Where, Starting, Releasing, Over,
    Loops, IrqState, GateState, CallStage, Cause, Fault
<1> QED BY <1>1, <1>2, <1>3, <1>4, <1>5, <1>6, <1>7, <1>8, <1>9, <1>10, <1>11, <1>12, <1>13 DEF IInv

(* start adds the interrupt source. *)
LEMMA StartAddsInterruptKeepsIInv ==
  ASSUME IInv, LoopInv, fault = "none", StartAddsInterrupt PROVE IInv'
<1> USE CallerAssumption, MaxLoopsAssumption DEF IInv, TypeOK
<1>1. LoopTypeOK'
  BY DEF StartAddsInterrupt, LoopTypeOK, DriverTypeOK, Run, IsLoop, loops, nubVars,
    powerVars, busVars, history, Where, Starting, Releasing, Over, Loops, IrqState,
    GateState, CallStage, Cause, Fault, loopVars
<1>2. DriverTypeOK'
  BY DEF StartAddsInterrupt, LoopTypeOK, DriverTypeOK, Run, IsLoop, loops, nubVars,
    powerVars, busVars, history, Where, Starting, Releasing, Over, Loops, IrqState,
    GateState, CallStage, Cause, Fault, loopVars
<1>3. MarkerExcludes'
  BY DEF StartAddsInterrupt, LoopTypeOK, DriverTypeOK, MarkerExcludes, Run, IsLoop, loops,
    nubVars, powerVars, busVars, history, Where, Starting, Releasing, Over, Loops, IrqState,
    GateState, CallStage, Cause, Fault, LoopGivenUp, Marker, loopVars, AfterLoop,
    BeforeLoop, Null
<1>4. LoopInUse'
  BY DEF StartAddsInterrupt, LoopTypeOK, DriverTypeOK, LoopInUse, MarkerExcludes,
    SourcesFollowLife, PowerFollowsLife, Run, IsLoop, loops, nubVars, powerVars, busVars,
    history, Where, Starting, Releasing, Over, Loops, IrqState, GateState, CallStage, Cause,
    Fault, BeforeLoop, AfterLoop, Null, LoopGivenUp, Marker, WithPower, loopVars
<1>5. LoopCounted'
  BY DEF StartAddsInterrupt, LoopTypeOK, DriverTypeOK, LoopCounted, Run, IsLoop, loops,
    nubVars, powerVars, busVars, history, Where, Starting, Releasing, Over, Loops, IrqState,
    GateState, CallStage, Cause, Fault, AfterLoop, loopVars
<1>6. SourcesFollowLife'
  BY DEF StartAddsInterrupt, LoopTypeOK, DriverTypeOK, SourcesFollowLife, PowerFollowsLife,
    LoopInUse, Run, IsLoop, loops, nubVars, powerVars, busVars, history, Where, Starting,
    Releasing, Over, Loops, IrqState, GateState, CallStage, Cause, Fault, WithPower,
    AfterLoop, BeforeLoop, Null, loopVars
<1>7. PowerFollowsLife'
  BY DEF StartAddsInterrupt, LoopTypeOK, DriverTypeOK, PowerFollowsLife, SourcesFollowLife,
    NubCounted, LoopInUse, Run, IsLoop, loops, nubVars, powerVars, busVars, history, Where,
    Starting, Releasing, Over, Loops, IrqState, GateState, CallStage, Cause, Fault,
    WithPower, AfterLoop, WithoutNub, TornDown, BeforeLoop, Null, loopVars
<1>8. NubCounted'
  BY DEF StartAddsInterrupt, LoopTypeOK, DriverTypeOK, NubCounted, Run, IsLoop, loops,
    nubVars, powerVars, busVars, history, Where, Starting, Releasing, Over, Loops, IrqState,
    GateState, CallStage, Cause, Fault, WithoutNub, AfterLoop, TornDown, loopVars
<1>9. QuietBeforeAndAfter'
  BY DEF StartAddsInterrupt, LoopTypeOK, DriverTypeOK, QuietBeforeAndAfter, Run, IsLoop,
    loops, nubVars, powerVars, busVars, history, Where, Starting, Releasing, Over, Loops,
    IrqState, GateState, CallStage, Cause, Fault, WithoutNub, NothingRuns, TornDown,
    loopVars, InFlight, AfterLoop
<1>10. NotifyKept'
  BY DEF StartAddsInterrupt, LoopTypeOK, DriverTypeOK, NotifyKept, PowerFollowsLife, Run,
    IsLoop, loops, nubVars, powerVars, busVars, history, Where, Starting, Releasing, Over,
    Loops, IrqState, GateState, CallStage, Cause, Fault, TornDown, WithPower, AfterLoop,
    loopVars
<1>11. MisuseHasACause'
  <2>1. ~ IsLoop(work_loop) /\ life = "irq" => reset
    BY DEF LoopInUse, LoopInv, LeavesWithLoop, BeforeLoop
  <2> QED BY <2>1 DEF StartAddsInterrupt, Run, MisuseHasACause, loops, loopVars, history
<1>12. FailedStartLeavesNothing'
  BY DEF StartAddsInterrupt, LoopTypeOK, DriverTypeOK, FailedStartLeavesNothing, Run,
    IsLoop, loops, nubVars, powerVars, busVars, history, Where, Starting, Releasing, Over,
    Loops, IrqState, GateState, CallStage, Cause, Fault, loopVars
<1>13. NotifyFollowsPower'
  BY DEF StartAddsInterrupt, LoopTypeOK, DriverTypeOK, NotifyFollowsPower, Run, IsLoop,
    loops, nubVars, powerVars, busVars, history, Where, Starting, Releasing, Over, Loops,
    IrqState, GateState, CallStage, Cause, Fault, loopVars
<1> QED BY <1>1, <1>2, <1>3, <1>4, <1>5, <1>6, <1>7, <1>8, <1>9, <1>10, <1>11, <1>12, <1>13 DEF IInv

(* start adds the command gate. *)
LEMMA StartAddsGateKeepsIInv ==
  ASSUME IInv, LoopInv, fault = "none", StartAddsGate PROVE IInv'
<1> USE CallerAssumption, MaxLoopsAssumption DEF IInv, TypeOK
<1>1. LoopTypeOK'
  BY DEF StartAddsGate, LoopTypeOK, DriverTypeOK, Run, loops, nubVars, powerVars, busVars,
    history, Where, Starting, Releasing, Over, Loops, IrqState, GateState, CallStage, Cause,
    Fault, loopVars
<1>2. DriverTypeOK'
  BY DEF StartAddsGate, LoopTypeOK, DriverTypeOK, Run, loops, nubVars, powerVars, busVars,
    history, Where, Starting, Releasing, Over, Loops, IrqState, GateState, CallStage, Cause,
    Fault, loopVars
<1>3. MarkerExcludes'
  BY DEF StartAddsGate, LoopTypeOK, DriverTypeOK, MarkerExcludes, Run, loops, nubVars,
    powerVars, busVars, history, Where, Starting, Releasing, Over, Loops, IrqState,
    GateState, CallStage, Cause, Fault, LoopGivenUp, Marker, loopVars, AfterLoop,
    BeforeLoop, Null
<1>4. LoopInUse'
  BY DEF StartAddsGate, LoopTypeOK, DriverTypeOK, LoopInUse, Run, loops, nubVars, powerVars,
    busVars, history, Where, Starting, Releasing, Over, Loops, IrqState, GateState,
    CallStage, Cause, Fault, BeforeLoop, AfterLoop, IsLoop, Null, loopVars
<1>5. LoopCounted'
  BY DEF StartAddsGate, LoopTypeOK, DriverTypeOK, LoopCounted, Run, loops, nubVars,
    powerVars, busVars, history, Where, Starting, Releasing, Over, Loops, IrqState,
    GateState, CallStage, Cause, Fault, AfterLoop, loopVars
<1>6. SourcesFollowLife'
  BY DEF StartAddsGate, LoopTypeOK, DriverTypeOK, SourcesFollowLife, PowerFollowsLife,
    LoopInUse, Run, loops, nubVars, powerVars, busVars, history, Where, Starting, Releasing,
    Over, Loops, IrqState, GateState, CallStage, Cause, Fault, WithPower, AfterLoop,
    BeforeLoop, IsLoop, Null, loopVars
<1>7. PowerFollowsLife'
  BY DEF StartAddsGate, LoopTypeOK, DriverTypeOK, PowerFollowsLife, SourcesFollowLife,
    NubCounted, LoopInUse, Run, loops, nubVars, powerVars, busVars, history, Where,
    Starting, Releasing, Over, Loops, IrqState, GateState, CallStage, Cause, Fault,
    WithPower, AfterLoop, WithoutNub, TornDown, BeforeLoop, IsLoop, Null, loopVars
<1>8. NubCounted'
  BY DEF StartAddsGate, LoopTypeOK, DriverTypeOK, NubCounted, Run, loops, nubVars,
    powerVars, busVars, history, Where, Starting, Releasing, Over, Loops, IrqState,
    GateState, CallStage, Cause, Fault, WithoutNub, AfterLoop, TornDown, loopVars
<1>9. QuietBeforeAndAfter'
  BY DEF StartAddsGate, LoopTypeOK, DriverTypeOK, QuietBeforeAndAfter, SourcesFollowLife,
    NubCounted, PowerFollowsLife, Run, loops, nubVars, powerVars, busVars, history, Where,
    Starting, Releasing, Over, Loops, IrqState, GateState, CallStage, Cause, Fault,
    WithoutNub, NothingRuns, TornDown, WithPower, AfterLoop, loopVars, InFlight
<1>10. NotifyKept'
  BY DEF StartAddsGate, LoopTypeOK, DriverTypeOK, NotifyKept, PowerFollowsLife, Run, loops,
    nubVars, powerVars, busVars, history, Where, Starting, Releasing, Over, Loops, IrqState,
    GateState, CallStage, Cause, Fault, TornDown, WithPower, AfterLoop, loopVars
<1>11. MisuseHasACause'
  BY DEF StartAddsGate, LoopTypeOK, DriverTypeOK, MisuseHasACause, Run, loops, nubVars,
    powerVars, busVars, history, Where, Starting, Releasing, Over, Loops, IrqState,
    GateState, CallStage, Cause, Fault, loopVars
<1>12. FailedStartLeavesNothing'
  BY DEF StartAddsGate, LoopTypeOK, DriverTypeOK, FailedStartLeavesNothing, Run, loops,
    nubVars, powerVars, busVars, history, Where, Starting, Releasing, Over, Loops, IrqState,
    GateState, CallStage, Cause, Fault, IsLoop, loopVars
<1>13. NotifyFollowsPower'
  BY DEF StartAddsGate, LoopTypeOK, DriverTypeOK, NotifyFollowsPower, Run, loops, nubVars,
    powerVars, busVars, history, Where, Starting, Releasing, Over, Loops, IrqState,
    GateState, CallStage, Cause, Fault, loopVars
<1> QED BY <1>1, <1>2, <1>3, <1>4, <1>5, <1>6, <1>7, <1>8, <1>9, <1>10, <1>11, <1>12, <1>13 DEF IInv

(* start joins the power tree. *)
LEMMA StartJoinsPowerKeepsIInv ==
  ASSUME IInv, LoopInv, fault = "none", StartJoinsPower PROVE IInv'
<1> USE CallerAssumption, MaxLoopsAssumption DEF IInv, TypeOK
<1>1. LoopTypeOK'
  BY DEF StartJoinsPower, LoopTypeOK, DriverTypeOK, Run, loopVars, sources, nubVars,
    busVars, history, Where, Starting, Releasing, Over, Loops, IrqState, GateState,
    CallStage, Cause, Fault
<1>2. DriverTypeOK'
  <2>1. work_loop \in Loops
    BY DEF LoopTypeOK, StartJoinsPower, Run, LoopInUse, Loops, IsLoop, Starting, BeforeLoop
  <2>2. loopRefs[work_loop] = 1
    BY <2>1 DEF LoopTypeOK, StartJoinsPower, Run, LoopCounted, PowerFollowsLife, Loops,
      WithPower, Releasing, AfterLoop
  <2> QED BY <2>1, <2>2 DEF DriverTypeOK, StartJoinsPower, Run, Starting, loopVars, sources, nubVars, busVars, history
<1>3. MarkerExcludes'
  BY DEF StartJoinsPower, LoopTypeOK, DriverTypeOK, MarkerExcludes, Run, loopVars, sources,
    nubVars, busVars, history, Where, Starting, Releasing, Over, Loops, IrqState, GateState,
    CallStage, Cause, Fault, LoopGivenUp, Marker, AfterLoop, BeforeLoop, Null
<1>4. LoopInUse'
  BY DEF StartJoinsPower, LoopTypeOK, DriverTypeOK, LoopInUse, Run, loopVars, sources,
    nubVars, busVars, history, Where, Starting, Releasing, Over, Loops, IrqState, GateState,
    CallStage, Cause, Fault, BeforeLoop, AfterLoop, IsLoop, Null
<1>5. LoopCounted'
  BY DEF StartJoinsPower, LoopTypeOK, DriverTypeOK, LoopCounted, LoopInUse,
    PowerFollowsLife, Run, loopVars, sources, nubVars, busVars, history, Where, Starting,
    Releasing, Over, Loops, IrqState, GateState, CallStage, Cause, Fault, AfterLoop,
    BeforeLoop, IsLoop, Null, WithPower
<1>6. SourcesFollowLife'
  BY DEF StartJoinsPower, LoopTypeOK, DriverTypeOK, SourcesFollowLife, Run, loopVars,
    sources, nubVars, busVars, history, Where, Starting, Releasing, Over, Loops, IrqState,
    GateState, CallStage, Cause, Fault, WithPower, AfterLoop
<1>7. PowerFollowsLife'
  BY DEF StartJoinsPower, LoopTypeOK, DriverTypeOK, PowerFollowsLife, Run, loopVars,
    sources, nubVars, busVars, history, Where, Starting, Releasing, Over, Loops, IrqState,
    GateState, CallStage, Cause, Fault, WithPower, AfterLoop
<1>8. NubCounted'
  BY DEF StartJoinsPower, LoopTypeOK, DriverTypeOK, NubCounted, Run, loopVars, sources,
    nubVars, busVars, history, Where, Starting, Releasing, Over, Loops, IrqState, GateState,
    CallStage, Cause, Fault, WithoutNub, AfterLoop, TornDown
<1>9. QuietBeforeAndAfter'
  BY DEF StartJoinsPower, LoopTypeOK, DriverTypeOK, QuietBeforeAndAfter, Run, loopVars,
    sources, nubVars, busVars, history, Where, Starting, Releasing, Over, Loops, IrqState,
    GateState, CallStage, Cause, Fault, WithoutNub, NothingRuns, TornDown, InFlight,
    AfterLoop
<1>10. NotifyKept'
  BY DEF StartJoinsPower, LoopTypeOK, DriverTypeOK, NotifyKept, Run, loopVars, sources,
    nubVars, busVars, history, Where, Starting, Releasing, Over, Loops, IrqState, GateState,
    CallStage, Cause, Fault, TornDown, AfterLoop
<1>11. MisuseHasACause'
  BY DEF StartJoinsPower, LoopTypeOK, DriverTypeOK, MisuseHasACause, Run, loopVars, sources,
    nubVars, busVars, history, Where, Starting, Releasing, Over, Loops, IrqState, GateState,
    CallStage, Cause, Fault
<1>12. FailedStartLeavesNothing'
  BY DEF StartJoinsPower, LoopTypeOK, DriverTypeOK, FailedStartLeavesNothing, Run, loopVars,
    sources, nubVars, busVars, history, Where, Starting, Releasing, Over, Loops, IrqState,
    GateState, CallStage, Cause, Fault, IsLoop
<1>13. NotifyFollowsPower'
  BY DEF StartJoinsPower, LoopTypeOK, DriverTypeOK, NotifyFollowsPower, Run, loopVars,
    sources, nubVars, busVars, history, Where, Starting, Releasing, Over, Loops, IrqState,
    GateState, CallStage, Cause, Fault
<1> QED BY <1>1, <1>2, <1>3, <1>4, <1>5, <1>6, <1>7, <1>8, <1>9, <1>10, <1>11, <1>12, <1>13 DEF IInv

(* start publishes a nub, or fails to. *)
LEMMA publishNubKeepsIInv ==
  ASSUME IInv, LoopInv, fault = "none", publishNub PROVE IInv'
<1> USE CallerAssumption, MaxLoopsAssumption DEF IInv, TypeOK
<1>1. LoopTypeOK'
  BY DEF publishNub, LoopTypeOK, DriverTypeOK, Run, loops, sources, powerVars, busVars,
    history, Where, Starting, Releasing, Over, Loops, IrqState, GateState, CallStage, Cause,
    Fault, loopVars
<1>2. DriverTypeOK'
  BY DEF publishNub, LoopTypeOK, DriverTypeOK, Run, loops, sources, powerVars, busVars,
    history, Where, Starting, Releasing, Over, Loops, IrqState, GateState, CallStage, Cause,
    Fault, loopVars
<1>3. MarkerExcludes'
  BY DEF publishNub, LoopTypeOK, DriverTypeOK, MarkerExcludes, Run, loops, sources,
    powerVars, busVars, history, Where, Starting, Releasing, Over, Loops, IrqState,
    GateState, CallStage, Cause, Fault, LoopGivenUp, Marker, loopVars, AfterLoop,
    BeforeLoop, Null
<1>4. LoopInUse'
  BY DEF publishNub, LoopTypeOK, DriverTypeOK, LoopInUse, Run, loops, sources, powerVars,
    busVars, history, Where, Starting, Releasing, Over, Loops, IrqState, GateState,
    CallStage, Cause, Fault, BeforeLoop, AfterLoop, IsLoop, Null, loopVars
<1>5. LoopCounted'
  BY DEF publishNub, LoopTypeOK, DriverTypeOK, LoopCounted, Run, loops, sources, powerVars,
    busVars, history, Where, Starting, Releasing, Over, Loops, IrqState, GateState,
    CallStage, Cause, Fault, AfterLoop, loopVars
<1>6. SourcesFollowLife'
  BY DEF publishNub, LoopTypeOK, DriverTypeOK, SourcesFollowLife, Run, loops, sources,
    powerVars, busVars, history, Where, Starting, Releasing, Over, Loops, IrqState,
    GateState, CallStage, Cause, Fault, WithPower, AfterLoop, loopVars
<1>7. PowerFollowsLife'
  BY DEF publishNub, LoopTypeOK, DriverTypeOK, PowerFollowsLife, Run, loops, sources,
    powerVars, busVars, history, Where, Starting, Releasing, Over, Loops, IrqState,
    GateState, CallStage, Cause, Fault, WithPower, AfterLoop, loopVars
<1>8. NubCounted'
  BY DEF publishNub, LoopTypeOK, DriverTypeOK, NubCounted, Run, loops, sources, powerVars,
    busVars, history, Where, Starting, Releasing, Over, Loops, IrqState, GateState,
    CallStage, Cause, Fault, WithoutNub, AfterLoop, TornDown, loopVars
<1>9. QuietBeforeAndAfter'
  BY DEF publishNub, LoopTypeOK, DriverTypeOK, QuietBeforeAndAfter, Run, loops, sources,
    powerVars, busVars, history, Where, Starting, Releasing, Over, Loops, IrqState,
    GateState, CallStage, Cause, Fault, WithoutNub, NothingRuns, TornDown, loopVars,
    InFlight, AfterLoop
<1>10. NotifyKept'
  BY DEF publishNub, LoopTypeOK, DriverTypeOK, NotifyKept, Run, loops, sources, powerVars,
    busVars, history, Where, Starting, Releasing, Over, Loops, IrqState, GateState,
    CallStage, Cause, Fault, TornDown, loopVars, AfterLoop
<1>11. MisuseHasACause'
  BY DEF publishNub, LoopTypeOK, DriverTypeOK, MisuseHasACause, Run, loops, sources,
    powerVars, busVars, history, Where, Starting, Releasing, Over, Loops, IrqState,
    GateState, CallStage, Cause, Fault, loopVars
<1>12. FailedStartLeavesNothing'
  BY DEF publishNub, LoopTypeOK, DriverTypeOK, FailedStartLeavesNothing, Run, loops,
    sources, powerVars, busVars, history, Where, Starting, Releasing, Over, Loops, IrqState,
    GateState, CallStage, Cause, Fault, IsLoop, loopVars
<1>13. NotifyFollowsPower'
  BY DEF publishNub, LoopTypeOK, DriverTypeOK, NotifyFollowsPower, Run, loops, sources,
    powerVars, busVars, history, Where, Starting, Releasing, Over, Loops, IrqState,
    GateState, CallStage, Cause, Fault, loopVars
<1> QED BY <1>1, <1>2, <1>3, <1>4, <1>5, <1>6, <1>7, <1>8, <1>9, <1>10, <1>11, <1>12, <1>13 DEF IInv

(* start enables interrupts. *)
LEMMA StartEnablesInterruptKeepsIInv ==
  ASSUME IInv, LoopInv, fault = "none", StartEnablesInterrupt PROVE IInv'
<1> USE CallerAssumption, MaxLoopsAssumption DEF IInv, TypeOK
<1>1. LoopTypeOK'
  BY DEF StartEnablesInterrupt, LoopTypeOK, DriverTypeOK, Run, loops, nubVars, powerVars,
    busVars, history, Where, Starting, Releasing, Over, Loops, IrqState, GateState,
    CallStage, Cause, Fault, loopVars
<1>2. DriverTypeOK'
  BY DEF StartEnablesInterrupt, LoopTypeOK, DriverTypeOK, Run, loops, nubVars, powerVars,
    busVars, history, Where, Starting, Releasing, Over, Loops, IrqState, GateState,
    CallStage, Cause, Fault, loopVars
<1>3. MarkerExcludes'
  BY DEF StartEnablesInterrupt, LoopTypeOK, DriverTypeOK, MarkerExcludes, Run, loops,
    nubVars, powerVars, busVars, history, Where, Starting, Releasing, Over, Loops, IrqState,
    GateState, CallStage, Cause, Fault, LoopGivenUp, Marker, loopVars, AfterLoop,
    BeforeLoop, Null
<1>4. LoopInUse'
  BY DEF StartEnablesInterrupt, LoopTypeOK, DriverTypeOK, LoopInUse, Run, loops, nubVars,
    powerVars, busVars, history, Where, Starting, Releasing, Over, Loops, IrqState,
    GateState, CallStage, Cause, Fault, BeforeLoop, AfterLoop, IsLoop, Null, loopVars
<1>5. LoopCounted'
  BY DEF StartEnablesInterrupt, LoopTypeOK, DriverTypeOK, LoopCounted, Run, loops, nubVars,
    powerVars, busVars, history, Where, Starting, Releasing, Over, Loops, IrqState,
    GateState, CallStage, Cause, Fault, AfterLoop, loopVars
<1>6. SourcesFollowLife'
  BY DEF StartEnablesInterrupt, LoopTypeOK, DriverTypeOK, SourcesFollowLife, Run, loops,
    nubVars, powerVars, busVars, history, Where, Starting, Releasing, Over, Loops, IrqState,
    GateState, CallStage, Cause, Fault, WithPower, AfterLoop, loopVars
<1>7. PowerFollowsLife'
  BY DEF StartEnablesInterrupt, LoopTypeOK, DriverTypeOK, PowerFollowsLife, Run, loops,
    nubVars, powerVars, busVars, history, Where, Starting, Releasing, Over, Loops, IrqState,
    GateState, CallStage, Cause, Fault, WithPower, AfterLoop, loopVars
<1>8. NubCounted'
  BY DEF StartEnablesInterrupt, LoopTypeOK, DriverTypeOK, NubCounted, Run, loops, nubVars,
    powerVars, busVars, history, Where, Starting, Releasing, Over, Loops, IrqState,
    GateState, CallStage, Cause, Fault, WithoutNub, AfterLoop, TornDown, loopVars
<1>9. QuietBeforeAndAfter'
  BY DEF StartEnablesInterrupt, LoopTypeOK, DriverTypeOK, QuietBeforeAndAfter, Run, loops,
    nubVars, powerVars, busVars, history, Where, Starting, Releasing, Over, Loops, IrqState,
    GateState, CallStage, Cause, Fault, WithoutNub, NothingRuns, TornDown, loopVars,
    InFlight, AfterLoop
<1>10. NotifyKept'
  BY DEF StartEnablesInterrupt, LoopTypeOK, DriverTypeOK, NotifyKept, Run, loops, nubVars,
    powerVars, busVars, history, Where, Starting, Releasing, Over, Loops, IrqState,
    GateState, CallStage, Cause, Fault, TornDown, loopVars, AfterLoop
<1>11. MisuseHasACause'
  BY DEF StartEnablesInterrupt, LoopTypeOK, DriverTypeOK, MisuseHasACause, Run, loops,
    nubVars, powerVars, busVars, history, Where, Starting, Releasing, Over, Loops, IrqState,
    GateState, CallStage, Cause, Fault, loopVars
<1>12. FailedStartLeavesNothing'
  BY DEF StartEnablesInterrupt, LoopTypeOK, DriverTypeOK, FailedStartLeavesNothing, Run,
    loops, nubVars, powerVars, busVars, history, Where, Starting, Releasing, Over, Loops,
    IrqState, GateState, CallStage, Cause, Fault, IsLoop, loopVars
<1>13. NotifyFollowsPower'
  BY DEF StartEnablesInterrupt, LoopTypeOK, DriverTypeOK, NotifyFollowsPower, Run, loops,
    nubVars, powerVars, busVars, history, Where, Starting, Releasing, Over, Loops, IrqState,
    GateState, CallStage, Cause, Fault, loopVars
<1> QED BY <1>1, <1>2, <1>3, <1>4, <1>5, <1>6, <1>7, <1>8, <1>9, <1>10, <1>11, <1>12, <1>13 DEF IInv

(* start enables host notifies. *)
LEMMA StartEnablesNotifyKeepsIInv ==
  ASSUME IInv, LoopInv, fault = "none", StartEnablesNotify PROVE IInv'
<1> USE CallerAssumption, MaxLoopsAssumption DEF IInv, TypeOK
<1>1. LoopTypeOK'
  BY DEF StartEnablesNotify, LoopTypeOK, DriverTypeOK, Run, enableHostNotify, loops,
    sources, nubVars, history, Where, Starting, Releasing, Over, Loops, IrqState, GateState,
    CallStage, Cause, Fault, loopVars
<1>2. DriverTypeOK'
  <2>1. intren' \in BOOLEAN
    BY DEF DriverTypeOK, StartEnablesNotify, enableHostNotify
  <2>2. ntfy' \in BOOLEAN
    BY DEF StartEnablesNotify, enableHostNotify
  <2> QED BY <2>1, <2>2 DEF DriverTypeOK, StartEnablesNotify, Run, loops, sources, nubVars, history
<1>3. MarkerExcludes'
  BY DEF StartEnablesNotify, LoopTypeOK, DriverTypeOK, MarkerExcludes, Run,
    enableHostNotify, loops, sources, nubVars, history, Where, Starting, Releasing, Over,
    Loops, IrqState, GateState, CallStage, Cause, Fault, LoopGivenUp, Marker, loopVars,
    AfterLoop, BeforeLoop, Null
<1>4. LoopInUse'
  BY DEF StartEnablesNotify, LoopTypeOK, DriverTypeOK, LoopInUse, Run, enableHostNotify,
    loops, sources, nubVars, history, Where, Starting, Releasing, Over, Loops, IrqState,
    GateState, CallStage, Cause, Fault, BeforeLoop, AfterLoop, IsLoop, Null, loopVars
<1>5. LoopCounted'
  BY DEF StartEnablesNotify, LoopTypeOK, DriverTypeOK, LoopCounted, Run, enableHostNotify,
    loops, sources, nubVars, history, Where, Starting, Releasing, Over, Loops, IrqState,
    GateState, CallStage, Cause, Fault, AfterLoop, loopVars
<1>6. SourcesFollowLife'
  BY DEF StartEnablesNotify, LoopTypeOK, DriverTypeOK, SourcesFollowLife, Run,
    enableHostNotify, loops, sources, nubVars, history, Where, Starting, Releasing, Over,
    Loops, IrqState, GateState, CallStage, Cause, Fault, WithPower, AfterLoop, loopVars
<1>7. PowerFollowsLife'
  BY DEF StartEnablesNotify, LoopTypeOK, DriverTypeOK, PowerFollowsLife, Run,
    enableHostNotify, loops, sources, nubVars, history, Where, Starting, Releasing, Over,
    Loops, IrqState, GateState, CallStage, Cause, Fault, WithPower, AfterLoop, loopVars
<1>8. NubCounted'
  BY DEF StartEnablesNotify, LoopTypeOK, DriverTypeOK, NubCounted, Run, enableHostNotify,
    loops, sources, nubVars, history, Where, Starting, Releasing, Over, Loops, IrqState,
    GateState, CallStage, Cause, Fault, WithoutNub, AfterLoop, TornDown, loopVars
<1>9. QuietBeforeAndAfter'
  BY DEF StartEnablesNotify, LoopTypeOK, DriverTypeOK, QuietBeforeAndAfter, Run,
    enableHostNotify, loops, sources, nubVars, history, Where, Starting, Releasing, Over,
    Loops, IrqState, GateState, CallStage, Cause, Fault, WithoutNub, NothingRuns, TornDown,
    loopVars, InFlight, AfterLoop
<1>10. NotifyKept'
  BY DEF StartEnablesNotify, LoopTypeOK, DriverTypeOK, NotifyKept, PowerFollowsLife, Run,
    enableHostNotify, loops, sources, nubVars, history, Where, Starting, Releasing, Over,
    Loops, IrqState, GateState, CallStage, Cause, Fault, TornDown, WithPower, AfterLoop,
    loopVars
<1>11. MisuseHasACause'
  BY DEF StartEnablesNotify, LoopTypeOK, DriverTypeOK, MisuseHasACause, Run,
    enableHostNotify, loops, sources, nubVars, history, Where, Starting, Releasing, Over,
    Loops, IrqState, GateState, CallStage, Cause, Fault, loopVars
<1>12. FailedStartLeavesNothing'
  BY DEF StartEnablesNotify, LoopTypeOK, DriverTypeOK, FailedStartLeavesNothing, Run,
    enableHostNotify, loops, sources, nubVars, history, Where, Starting, Releasing, Over,
    Loops, IrqState, GateState, CallStage, Cause, Fault, IsLoop, loopVars
<1>13. NotifyFollowsPower'
  BY DEF StartEnablesNotify, LoopTypeOK, DriverTypeOK, NotifyFollowsPower, NotifyKept,
    PowerFollowsLife, Run, enableHostNotify, loops, sources, nubVars, history, Where,
    Starting, Releasing, Over, Loops, IrqState, GateState, CallStage, Cause, Fault,
    TornDown, WithPower, AfterLoop, loopVars
<1> QED BY <1>1, <1>2, <1>3, <1>4, <1>5, <1>6, <1>7, <1>8, <1>9, <1>10, <1>11, <1>12, <1>13 DEF IInv

(* The driver is stopped. *)
LEMMA stopKeepsIInv ==
  ASSUME IInv, LoopInv, fault = "none", stop PROVE IInv'
<1> USE CallerAssumption, MaxLoopsAssumption DEF IInv, TypeOK
<1>1. LoopTypeOK'
  BY DEF stop, LoopTypeOK, DriverTypeOK, Run, StillRunning, loops, sources, nubVars,
    powerVars, busVars, Where, Starting, Releasing, Over, Loops, IrqState, GateState,
    CallStage, Cause, Fault, InFlight, loopVars
<1>2. DriverTypeOK'
  BY DEF stop, LoopTypeOK, DriverTypeOK, Run, StillRunning, loops, sources, nubVars,
    powerVars, busVars, Where, Starting, Releasing, Over, Loops, IrqState, GateState,
    CallStage, Cause, Fault, InFlight, loopVars
<1>3. MarkerExcludes'
  BY DEF stop, LoopTypeOK, DriverTypeOK, MarkerExcludes, Run, StillRunning, loops, sources,
    nubVars, powerVars, busVars, Where, Starting, Releasing, Over, Loops, IrqState,
    GateState, CallStage, Cause, Fault, LoopGivenUp, Marker, InFlight, loopVars, AfterLoop,
    BeforeLoop, Null
<1>4. LoopInUse'
  BY DEF stop, LoopTypeOK, DriverTypeOK, LoopInUse, Run, StillRunning, loops, sources,
    nubVars, powerVars, busVars, Where, Starting, Releasing, Over, Loops, IrqState,
    GateState, CallStage, Cause, Fault, BeforeLoop, AfterLoop, IsLoop, Null, InFlight,
    loopVars
<1>5. LoopCounted'
  BY DEF stop, LoopTypeOK, DriverTypeOK, LoopCounted, Run, StillRunning, loops, sources,
    nubVars, powerVars, busVars, Where, Starting, Releasing, Over, Loops, IrqState,
    GateState, CallStage, Cause, Fault, AfterLoop, InFlight, loopVars
<1>6. SourcesFollowLife'
  BY DEF stop, LoopTypeOK, DriverTypeOK, SourcesFollowLife, Run, StillRunning, loops,
    sources, nubVars, powerVars, busVars, Where, Starting, Releasing, Over, Loops, IrqState,
    GateState, CallStage, Cause, Fault, WithPower, AfterLoop, InFlight, loopVars
<1>7. PowerFollowsLife'
  BY DEF stop, LoopTypeOK, DriverTypeOK, PowerFollowsLife, Run, StillRunning, loops,
    sources, nubVars, powerVars, busVars, Where, Starting, Releasing, Over, Loops, IrqState,
    GateState, CallStage, Cause, Fault, WithPower, AfterLoop, InFlight, loopVars
<1>8. NubCounted'
  BY DEF stop, LoopTypeOK, DriverTypeOK, NubCounted, Run, StillRunning, loops, sources,
    nubVars, powerVars, busVars, Where, Starting, Releasing, Over, Loops, IrqState,
    GateState, CallStage, Cause, Fault, WithoutNub, AfterLoop, TornDown, InFlight, loopVars
<1>9. QuietBeforeAndAfter'
  BY DEF stop, LoopTypeOK, DriverTypeOK, QuietBeforeAndAfter, Run, StillRunning, loops,
    sources, nubVars, powerVars, busVars, Where, Starting, Releasing, Over, Loops, IrqState,
    GateState, CallStage, Cause, Fault, WithoutNub, NothingRuns, TornDown, InFlight,
    loopVars, AfterLoop
<1>10. NotifyKept'
  BY DEF stop, LoopTypeOK, DriverTypeOK, NotifyKept, Run, StillRunning, loops, sources,
    nubVars, powerVars, busVars, Where, Starting, Releasing, Over, Loops, IrqState,
    GateState, CallStage, Cause, Fault, TornDown, InFlight, loopVars, AfterLoop
<1>11. MisuseHasACause'
  BY DEF stop, LoopTypeOK, DriverTypeOK, MisuseHasACause, Run, StillRunning, loops, sources,
    nubVars, powerVars, busVars, Where, Starting, Releasing, Over, Loops, IrqState,
    GateState, CallStage, Cause, Fault, InFlight, loopVars
<1>12. FailedStartLeavesNothing'
  BY DEF stop, LoopTypeOK, DriverTypeOK, FailedStartLeavesNothing, Run, StillRunning, loops,
    sources, nubVars, powerVars, busVars, Where, Starting, Releasing, Over, Loops, IrqState,
    GateState, CallStage, Cause, Fault, IsLoop, InFlight, loopVars
<1>13. NotifyFollowsPower'
  BY DEF stop, LoopTypeOK, DriverTypeOK, NotifyFollowsPower, Run, StillRunning, loops,
    sources, nubVars, powerVars, busVars, Where, Starting, Releasing, Over, Loops, IrqState,
    GateState, CallStage, Cause, Fault, InFlight, loopVars
<1> QED BY <1>1, <1>2, <1>3, <1>4, <1>5, <1>6, <1>7, <1>8, <1>9, <1>10, <1>11, <1>12, <1>13 DEF IInv

(* releaseResources disables host notifies. *)
LEMMA ReleaseQuietKeepsIInv ==
  ASSUME IInv, LoopInv, fault = "none", ReleaseQuiet PROVE IInv'
<1> USE CallerAssumption, MaxLoopsAssumption DEF IInv, TypeOK
<1>1. LoopTypeOK'
  BY DEF ReleaseQuiet, LoopTypeOK, DriverTypeOK, Run, disableHostNotify, loops, sources,
    nubVars, busVars, history, Where, Starting, Releasing, Over, Loops, IrqState, GateState,
    CallStage, Cause, Fault, loopVars
<1>2. DriverTypeOK'
  BY DEF ReleaseQuiet, LoopTypeOK, DriverTypeOK, Run, disableHostNotify, loops, sources,
    nubVars, busVars, history, Where, Starting, Releasing, Over, Loops, IrqState, GateState,
    CallStage, Cause, Fault, loopVars
<1>3. MarkerExcludes'
  BY DEF ReleaseQuiet, LoopTypeOK, DriverTypeOK, MarkerExcludes, Run, disableHostNotify,
    loops, sources, nubVars, busVars, history, Where, Starting, Releasing, Over, Loops,
    IrqState, GateState, CallStage, Cause, Fault, LoopGivenUp, Marker, loopVars, AfterLoop,
    BeforeLoop, Null
<1>4. LoopInUse'
  BY DEF ReleaseQuiet, LoopTypeOK, DriverTypeOK, LoopInUse, Run, disableHostNotify, loops,
    sources, nubVars, busVars, history, Where, Starting, Releasing, Over, Loops, IrqState,
    GateState, CallStage, Cause, Fault, BeforeLoop, AfterLoop, IsLoop, Null, loopVars
<1>5. LoopCounted'
  BY DEF ReleaseQuiet, LoopTypeOK, DriverTypeOK, LoopCounted, Run, disableHostNotify, loops,
    sources, nubVars, busVars, history, Where, Starting, Releasing, Over, Loops, IrqState,
    GateState, CallStage, Cause, Fault, AfterLoop, loopVars
<1>6. SourcesFollowLife'
  BY DEF ReleaseQuiet, LoopTypeOK, DriverTypeOK, SourcesFollowLife, Run, disableHostNotify,
    loops, sources, nubVars, busVars, history, Where, Starting, Releasing, Over, Loops,
    IrqState, GateState, CallStage, Cause, Fault, WithPower, AfterLoop, loopVars
<1>7. PowerFollowsLife'
  BY DEF ReleaseQuiet, LoopTypeOK, DriverTypeOK, PowerFollowsLife, Run, disableHostNotify,
    loops, sources, nubVars, busVars, history, Where, Starting, Releasing, Over, Loops,
    IrqState, GateState, CallStage, Cause, Fault, WithPower, AfterLoop, loopVars
<1>8. NubCounted'
  BY DEF ReleaseQuiet, LoopTypeOK, DriverTypeOK, NubCounted, Run, disableHostNotify, loops,
    sources, nubVars, busVars, history, Where, Starting, Releasing, Over, Loops, IrqState,
    GateState, CallStage, Cause, Fault, WithoutNub, AfterLoop, TornDown, loopVars
<1>9. QuietBeforeAndAfter'
  BY DEF ReleaseQuiet, LoopTypeOK, DriverTypeOK, QuietBeforeAndAfter, Run,
    disableHostNotify, loops, sources, nubVars, busVars, history, Where, Starting,
    Releasing, Over, Loops, IrqState, GateState, CallStage, Cause, Fault, WithoutNub,
    NothingRuns, TornDown, loopVars, InFlight, AfterLoop
<1>10. NotifyKept'
  BY DEF ReleaseQuiet, LoopTypeOK, DriverTypeOK, NotifyKept, Run, disableHostNotify, loops,
    sources, nubVars, busVars, history, Where, Starting, Releasing, Over, Loops, IrqState,
    GateState, CallStage, Cause, Fault, TornDown, loopVars, AfterLoop
<1>11. MisuseHasACause'
  BY DEF ReleaseQuiet, LoopTypeOK, DriverTypeOK, MisuseHasACause, Run, disableHostNotify,
    loops, sources, nubVars, busVars, history, Where, Starting, Releasing, Over, Loops,
    IrqState, GateState, CallStage, Cause, Fault, loopVars
<1>12. FailedStartLeavesNothing'
  BY DEF ReleaseQuiet, LoopTypeOK, DriverTypeOK, FailedStartLeavesNothing, Run,
    disableHostNotify, loops, sources, nubVars, busVars, history, Where, Starting,
    Releasing, Over, Loops, IrqState, GateState, CallStage, Cause, Fault, IsLoop, loopVars
<1>13. NotifyFollowsPower'
  BY DEF ReleaseQuiet, LoopTypeOK, DriverTypeOK, NotifyFollowsPower, Run, disableHostNotify,
    loops, sources, nubVars, busVars, history, Where, Starting, Releasing, Over, Loops,
    IrqState, GateState, CallStage, Cause, Fault, loopVars
<1> QED BY <1>1, <1>2, <1>3, <1>4, <1>5, <1>6, <1>7, <1>8, <1>9, <1>10, <1>11, <1>12, <1>13 DEF IInv

(* It drops the nubs. *)
LEMMA ReleaseNubsKeepsIInv ==
  ASSUME IInv, LoopInv, fault = "none", ReleaseNubs PROVE IInv'
<1> USE CallerAssumption, MaxLoopsAssumption DEF IInv, TypeOK
<1>1. LoopTypeOK'
  BY DEF ReleaseNubs, LoopTypeOK, DriverTypeOK, Run, loops, sources, powerVars, busVars,
    history, Where, Starting, Releasing, Over, Loops, IrqState, GateState, CallStage, Cause,
    Fault, loopVars
<1>2. DriverTypeOK'
  <2>1. nubRefs' \in 0..4
    BY DEF DriverTypeOK, ReleaseNubs, NubCounted
  <2> QED BY <2>1 DEF DriverTypeOK, ReleaseNubs, Run, Releasing, loops, sources, powerVars, busVars, history
<1>3. MarkerExcludes'
  BY DEF ReleaseNubs, LoopTypeOK, DriverTypeOK, MarkerExcludes, Run, loops, sources,
    powerVars, busVars, history, Where, Starting, Releasing, Over, Loops, IrqState,
    GateState, CallStage, Cause, Fault, LoopGivenUp, Marker, loopVars, AfterLoop,
    BeforeLoop, Null
<1>4. LoopInUse'
  BY DEF ReleaseNubs, LoopTypeOK, DriverTypeOK, LoopInUse, Run, loops, sources, powerVars,
    busVars, history, Where, Starting, Releasing, Over, Loops, IrqState, GateState,
    CallStage, Cause, Fault, BeforeLoop, AfterLoop, IsLoop, Null, loopVars
<1>5. LoopCounted'
  BY DEF ReleaseNubs, LoopTypeOK, DriverTypeOK, LoopCounted, Run, loops, sources, powerVars,
    busVars, history, Where, Starting, Releasing, Over, Loops, IrqState, GateState,
    CallStage, Cause, Fault, AfterLoop, loopVars
<1>6. SourcesFollowLife'
  BY DEF ReleaseNubs, LoopTypeOK, DriverTypeOK, SourcesFollowLife, PowerFollowsLife, Run,
    loops, sources, powerVars, busVars, history, Where, Starting, Releasing, Over, Loops,
    IrqState, GateState, CallStage, Cause, Fault, WithPower, AfterLoop, loopVars
<1>7. PowerFollowsLife'
  BY DEF ReleaseNubs, LoopTypeOK, DriverTypeOK, PowerFollowsLife, Run, loops, sources,
    powerVars, busVars, history, Where, Starting, Releasing, Over, Loops, IrqState,
    GateState, CallStage, Cause, Fault, WithPower, AfterLoop, loopVars
<1>8. NubCounted'
  BY DEF ReleaseNubs, LoopTypeOK, DriverTypeOK, NubCounted, Run, loops, sources, powerVars,
    busVars, history, Where, Starting, Releasing, Over, Loops, IrqState, GateState,
    CallStage, Cause, Fault, WithoutNub, AfterLoop, TornDown, loopVars
<1>9. QuietBeforeAndAfter'
  BY DEF ReleaseNubs, LoopTypeOK, DriverTypeOK, QuietBeforeAndAfter, Run, loops, sources,
    powerVars, busVars, history, Where, Starting, Releasing, Over, Loops, IrqState,
    GateState, CallStage, Cause, Fault, WithoutNub, NothingRuns, TornDown, loopVars,
    InFlight, AfterLoop
<1>10. NotifyKept'
  BY DEF ReleaseNubs, LoopTypeOK, DriverTypeOK, NotifyKept, Run, loops, sources, powerVars,
    busVars, history, Where, Starting, Releasing, Over, Loops, IrqState, GateState,
    CallStage, Cause, Fault, TornDown, loopVars, AfterLoop
<1>11. MisuseHasACause'
  BY DEF ReleaseNubs, LoopTypeOK, DriverTypeOK, MisuseHasACause, Run, loops, sources,
    powerVars, busVars, history, Where, Starting, Releasing, Over, Loops, IrqState,
    GateState, CallStage, Cause, Fault, loopVars
<1>12. FailedStartLeavesNothing'
  BY DEF ReleaseNubs, LoopTypeOK, DriverTypeOK, FailedStartLeavesNothing, Run, loops,
    sources, powerVars, busVars, history, Where, Starting, Releasing, Over, Loops, IrqState,
    GateState, CallStage, Cause, Fault, IsLoop, loopVars
<1>13. NotifyFollowsPower'
  BY DEF ReleaseNubs, LoopTypeOK, DriverTypeOK, NotifyFollowsPower, Run, loops, sources,
    powerVars, busVars, history, Where, Starting, Releasing, Over, Loops, IrqState,
    GateState, CallStage, Cause, Fault, loopVars
<1> QED BY <1>1, <1>2, <1>3, <1>4, <1>5, <1>6, <1>7, <1>8, <1>9, <1>10, <1>11, <1>12, <1>13 DEF IInv

(* It removes the gate. *)
LEMMA ReleaseGateKeepsIInv ==
  ASSUME IInv, LoopInv, fault = "none", ReleaseGate PROVE IInv'
<1> USE CallerAssumption, MaxLoopsAssumption DEF IInv, TypeOK
<1>1. LoopTypeOK'
  BY DEF ReleaseGate, LoopTypeOK, DriverTypeOK, GateFree, Run, loops, nubVars, powerVars,
    busVars, history, Where, Starting, Releasing, Over, Loops, IrqState, GateState,
    CallStage, Cause, Fault, loopVars
<1>2. DriverTypeOK'
  BY DEF ReleaseGate, LoopTypeOK, DriverTypeOK, GateFree, Run, loops, nubVars, powerVars,
    busVars, history, Where, Starting, Releasing, Over, Loops, IrqState, GateState,
    CallStage, Cause, Fault, loopVars
<1>3. MarkerExcludes'
  BY DEF ReleaseGate, LoopTypeOK, DriverTypeOK, MarkerExcludes, GateFree, Run, loops,
    nubVars, powerVars, busVars, history, Where, Starting, Releasing, Over, Loops, IrqState,
    GateState, CallStage, Cause, Fault, LoopGivenUp, Marker, loopVars, AfterLoop,
    BeforeLoop, Null
<1>4. LoopInUse'
  BY DEF ReleaseGate, LoopTypeOK, DriverTypeOK, LoopInUse, GateFree, Run, loops, nubVars,
    powerVars, busVars, history, Where, Starting, Releasing, Over, Loops, IrqState,
    GateState, CallStage, Cause, Fault, BeforeLoop, AfterLoop, IsLoop, Null, loopVars
<1>5. LoopCounted'
  BY DEF ReleaseGate, LoopTypeOK, DriverTypeOK, LoopCounted, GateFree, Run, loops, nubVars,
    powerVars, busVars, history, Where, Starting, Releasing, Over, Loops, IrqState,
    GateState, CallStage, Cause, Fault, AfterLoop, loopVars
<1>6. SourcesFollowLife'
  BY DEF ReleaseGate, LoopTypeOK, DriverTypeOK, SourcesFollowLife, GateFree, Run, loops,
    nubVars, powerVars, busVars, history, Where, Starting, Releasing, Over, Loops, IrqState,
    GateState, CallStage, Cause, Fault, WithPower, AfterLoop, loopVars
<1>7. PowerFollowsLife'
  BY DEF ReleaseGate, LoopTypeOK, DriverTypeOK, PowerFollowsLife, GateFree, Run, loops,
    nubVars, powerVars, busVars, history, Where, Starting, Releasing, Over, Loops, IrqState,
    GateState, CallStage, Cause, Fault, WithPower, AfterLoop, loopVars
<1>8. NubCounted'
  BY DEF ReleaseGate, LoopTypeOK, DriverTypeOK, NubCounted, GateFree, Run, loops, nubVars,
    powerVars, busVars, history, Where, Starting, Releasing, Over, Loops, IrqState,
    GateState, CallStage, Cause, Fault, WithoutNub, AfterLoop, TornDown, loopVars
<1>9. QuietBeforeAndAfter'
  BY DEF ReleaseGate, LoopTypeOK, DriverTypeOK, QuietBeforeAndAfter, GateFree, Run, loops,
    nubVars, powerVars, busVars, history, Where, Starting, Releasing, Over, Loops, IrqState,
    GateState, CallStage, Cause, Fault, WithoutNub, NothingRuns, TornDown, loopVars,
    InFlight, AfterLoop
<1>10. NotifyKept'
  BY DEF ReleaseGate, LoopTypeOK, DriverTypeOK, NotifyKept, GateFree, Run, loops, nubVars,
    powerVars, busVars, history, Where, Starting, Releasing, Over, Loops, IrqState,
    GateState, CallStage, Cause, Fault, TornDown, loopVars, AfterLoop
<1>11. MisuseHasACause'
  BY DEF ReleaseGate, LoopTypeOK, DriverTypeOK, MisuseHasACause, GateFree, Run, loops,
    nubVars, powerVars, busVars, history, Where, Starting, Releasing, Over, Loops, IrqState,
    GateState, CallStage, Cause, Fault, loopVars
<1>12. FailedStartLeavesNothing'
  BY DEF ReleaseGate, LoopTypeOK, DriverTypeOK, FailedStartLeavesNothing, GateFree, Run,
    loops, nubVars, powerVars, busVars, history, Where, Starting, Releasing, Over, Loops,
    IrqState, GateState, CallStage, Cause, Fault, IsLoop, loopVars
<1>13. NotifyFollowsPower'
  BY DEF ReleaseGate, LoopTypeOK, DriverTypeOK, NotifyFollowsPower, GateFree, Run, loops,
    nubVars, powerVars, busVars, history, Where, Starting, Releasing, Over, Loops, IrqState,
    GateState, CallStage, Cause, Fault, loopVars
<1> QED BY <1>1, <1>2, <1>3, <1>4, <1>5, <1>6, <1>7, <1>8, <1>9, <1>10, <1>11, <1>12, <1>13 DEF IInv

(* It releases the gate. *)
LEMMA ReleaseGateObjectKeepsIInv ==
  ASSUME IInv, LoopInv, fault = "none", ReleaseGateObject PROVE IInv'
<1> USE CallerAssumption, MaxLoopsAssumption DEF IInv, TypeOK
<1>1. LoopTypeOK'
  BY DEF ReleaseGateObject, LoopTypeOK, DriverTypeOK, Run, loops, nubVars, powerVars,
    busVars, history, Where, Starting, Releasing, Over, Loops, IrqState, GateState,
    CallStage, Cause, Fault, loopVars
<1>2. DriverTypeOK'
  BY DEF ReleaseGateObject, LoopTypeOK, DriverTypeOK, Run, loops, nubVars, powerVars,
    busVars, history, Where, Starting, Releasing, Over, Loops, IrqState, GateState,
    CallStage, Cause, Fault, loopVars
<1>3. MarkerExcludes'
  BY DEF ReleaseGateObject, LoopTypeOK, DriverTypeOK, MarkerExcludes, Run, loops, nubVars,
    powerVars, busVars, history, Where, Starting, Releasing, Over, Loops, IrqState,
    GateState, CallStage, Cause, Fault, LoopGivenUp, Marker, loopVars, AfterLoop,
    BeforeLoop, Null
<1>4. LoopInUse'
  BY DEF ReleaseGateObject, LoopTypeOK, DriverTypeOK, LoopInUse, Run, loops, nubVars,
    powerVars, busVars, history, Where, Starting, Releasing, Over, Loops, IrqState,
    GateState, CallStage, Cause, Fault, BeforeLoop, AfterLoop, IsLoop, Null, loopVars
<1>5. LoopCounted'
  BY DEF ReleaseGateObject, LoopTypeOK, DriverTypeOK, LoopCounted, Run, loops, nubVars,
    powerVars, busVars, history, Where, Starting, Releasing, Over, Loops, IrqState,
    GateState, CallStage, Cause, Fault, AfterLoop, loopVars
<1>6. SourcesFollowLife'
  BY DEF ReleaseGateObject, LoopTypeOK, DriverTypeOK, SourcesFollowLife, Run, loops,
    nubVars, powerVars, busVars, history, Where, Starting, Releasing, Over, Loops, IrqState,
    GateState, CallStage, Cause, Fault, WithPower, AfterLoop, loopVars
<1>7. PowerFollowsLife'
  BY DEF ReleaseGateObject, LoopTypeOK, DriverTypeOK, PowerFollowsLife, Run, loops, nubVars,
    powerVars, busVars, history, Where, Starting, Releasing, Over, Loops, IrqState,
    GateState, CallStage, Cause, Fault, WithPower, AfterLoop, loopVars
<1>8. NubCounted'
  BY DEF ReleaseGateObject, LoopTypeOK, DriverTypeOK, NubCounted, Run, loops, nubVars,
    powerVars, busVars, history, Where, Starting, Releasing, Over, Loops, IrqState,
    GateState, CallStage, Cause, Fault, WithoutNub, AfterLoop, TornDown, loopVars
<1>9. QuietBeforeAndAfter'
  BY DEF ReleaseGateObject, LoopTypeOK, DriverTypeOK, QuietBeforeAndAfter, Run, loops,
    nubVars, powerVars, busVars, history, Where, Starting, Releasing, Over, Loops, IrqState,
    GateState, CallStage, Cause, Fault, WithoutNub, NothingRuns, TornDown, loopVars,
    InFlight, AfterLoop
<1>10. NotifyKept'
  BY DEF ReleaseGateObject, LoopTypeOK, DriverTypeOK, NotifyKept, Run, loops, nubVars,
    powerVars, busVars, history, Where, Starting, Releasing, Over, Loops, IrqState,
    GateState, CallStage, Cause, Fault, TornDown, loopVars, AfterLoop
<1>11. MisuseHasACause'
  BY DEF ReleaseGateObject, LoopTypeOK, DriverTypeOK, MisuseHasACause, Run, loops, nubVars,
    powerVars, busVars, history, Where, Starting, Releasing, Over, Loops, IrqState,
    GateState, CallStage, Cause, Fault, loopVars
<1>12. FailedStartLeavesNothing'
  BY DEF ReleaseGateObject, LoopTypeOK, DriverTypeOK, FailedStartLeavesNothing, Run, loops,
    nubVars, powerVars, busVars, history, Where, Starting, Releasing, Over, Loops, IrqState,
    GateState, CallStage, Cause, Fault, IsLoop, loopVars
<1>13. NotifyFollowsPower'
  BY DEF ReleaseGateObject, LoopTypeOK, DriverTypeOK, NotifyFollowsPower, Run, loops,
    nubVars, powerVars, busVars, history, Where, Starting, Releasing, Over, Loops, IrqState,
    GateState, CallStage, Cause, Fault, loopVars
<1> QED BY <1>1, <1>2, <1>3, <1>4, <1>5, <1>6, <1>7, <1>8, <1>9, <1>10, <1>11, <1>12, <1>13 DEF IInv

(* It releases the interrupt source. *)
LEMMA ReleaseInterruptKeepsIInv ==
  ASSUME IInv, LoopInv, fault = "none", ReleaseInterrupt PROVE IInv'
<1> USE CallerAssumption, MaxLoopsAssumption DEF IInv, TypeOK
<1>1. LoopTypeOK'
  BY DEF ReleaseInterrupt, LoopTypeOK, DriverTypeOK, GateFree, Run, loops, nubVars,
    powerVars, busVars, history, Where, Starting, Releasing, Over, Loops, IrqState,
    GateState, CallStage, Cause, Fault, loopVars
<1>2. DriverTypeOK'
  BY DEF ReleaseInterrupt, LoopTypeOK, DriverTypeOK, GateFree, Run, loops, nubVars,
    powerVars, busVars, history, Where, Starting, Releasing, Over, Loops, IrqState,
    GateState, CallStage, Cause, Fault, loopVars
<1>3. MarkerExcludes'
  BY DEF ReleaseInterrupt, LoopTypeOK, DriverTypeOK, MarkerExcludes, GateFree, Run, loops,
    nubVars, powerVars, busVars, history, Where, Starting, Releasing, Over, Loops, IrqState,
    GateState, CallStage, Cause, Fault, LoopGivenUp, Marker, loopVars, AfterLoop,
    BeforeLoop, Null
<1>4. LoopInUse'
  BY DEF ReleaseInterrupt, LoopTypeOK, DriverTypeOK, LoopInUse, GateFree, Run, loops,
    nubVars, powerVars, busVars, history, Where, Starting, Releasing, Over, Loops, IrqState,
    GateState, CallStage, Cause, Fault, BeforeLoop, AfterLoop, IsLoop, Null, loopVars
<1>5. LoopCounted'
  BY DEF ReleaseInterrupt, LoopTypeOK, DriverTypeOK, LoopCounted, GateFree, Run, loops,
    nubVars, powerVars, busVars, history, Where, Starting, Releasing, Over, Loops, IrqState,
    GateState, CallStage, Cause, Fault, AfterLoop, loopVars
<1>6. SourcesFollowLife'
  BY DEF ReleaseInterrupt, LoopTypeOK, DriverTypeOK, SourcesFollowLife, GateFree, Run,
    loops, nubVars, powerVars, busVars, history, Where, Starting, Releasing, Over, Loops,
    IrqState, GateState, CallStage, Cause, Fault, WithPower, AfterLoop, loopVars
<1>7. PowerFollowsLife'
  BY DEF ReleaseInterrupt, LoopTypeOK, DriverTypeOK, PowerFollowsLife, GateFree, Run, loops,
    nubVars, powerVars, busVars, history, Where, Starting, Releasing, Over, Loops, IrqState,
    GateState, CallStage, Cause, Fault, WithPower, AfterLoop, loopVars
<1>8. NubCounted'
  BY DEF ReleaseInterrupt, LoopTypeOK, DriverTypeOK, NubCounted, GateFree, Run, loops,
    nubVars, powerVars, busVars, history, Where, Starting, Releasing, Over, Loops, IrqState,
    GateState, CallStage, Cause, Fault, WithoutNub, AfterLoop, TornDown, loopVars
<1>9. QuietBeforeAndAfter'
  BY DEF ReleaseInterrupt, LoopTypeOK, DriverTypeOK, QuietBeforeAndAfter, GateFree, Run,
    loops, nubVars, powerVars, busVars, history, Where, Starting, Releasing, Over, Loops,
    IrqState, GateState, CallStage, Cause, Fault, WithoutNub, NothingRuns, TornDown,
    loopVars, InFlight, AfterLoop
<1>10. NotifyKept'
  BY DEF ReleaseInterrupt, LoopTypeOK, DriverTypeOK, NotifyKept, GateFree, Run, loops,
    nubVars, powerVars, busVars, history, Where, Starting, Releasing, Over, Loops, IrqState,
    GateState, CallStage, Cause, Fault, TornDown, loopVars, AfterLoop
<1>11. MisuseHasACause'
  BY DEF ReleaseInterrupt, LoopTypeOK, DriverTypeOK, MisuseHasACause, GateFree, Run, loops,
    nubVars, powerVars, busVars, history, Where, Starting, Releasing, Over, Loops, IrqState,
    GateState, CallStage, Cause, Fault, loopVars
<1>12. FailedStartLeavesNothing'
  BY DEF ReleaseInterrupt, LoopTypeOK, DriverTypeOK, FailedStartLeavesNothing, GateFree,
    Run, loops, nubVars, powerVars, busVars, history, Where, Starting, Releasing, Over,
    Loops, IrqState, GateState, CallStage, Cause, Fault, IsLoop, loopVars
<1>13. NotifyFollowsPower'
  BY DEF ReleaseInterrupt, LoopTypeOK, DriverTypeOK, NotifyFollowsPower, GateFree, Run,
    loops, nubVars, powerVars, busVars, history, Where, Starting, Releasing, Over, Loops,
    IrqState, GateState, CallStage, Cause, Fault, loopVars
<1> QED BY <1>1, <1>2, <1>3, <1>4, <1>5, <1>6, <1>7, <1>8, <1>9, <1>10, <1>11, <1>12, <1>13 DEF IInv

(* It releases the work loop. *)
LEMMA ReleaseLoopKeepsIInv ==
  ASSUME IInv, LoopInv, fault = "none", ReleaseLoop PROVE IInv'
<1> USE CallerAssumption, MaxLoopsAssumption DEF IInv, TypeOK
<1>1. LoopTypeOK'
  BY LoopTypes DEF ReleaseLoop, LoopNext, loops, loopVars
<1>2. DriverTypeOK'
  <2>1. loopRefs' \in [Loops -> 0..2]
    <3>1. ASSUME NEW l \in Loops, l = work_loop PROVE loopRefs[l] \in 1..2
      BY <3>1 DEF LoopTypeOK, ReleaseLoop, Run, LoopCounted, AfterLoop
    <3>2. CASE UNCHANGED loops
      BY <3>2 DEF DriverTypeOK, loops
    <3>3. CASE loopRefs' = [l \in Loops |-> IF l = work_loop THEN loopRefs[l] - 1 ELSE loopRefs[l]]
      <4>1. ASSUME NEW l \in Loops
            PROVE  (IF l = work_loop THEN loopRefs[l] - 1 ELSE loopRefs[l]) \in 0..2
        <5>1. CASE l = work_loop
          BY <3>1, <5>1
        <5>2. CASE l # work_loop
          BY <5>2 DEF DriverTypeOK
        <5> QED BY <5>1, <5>2
      <4> QED BY <3>3, <4>1
    <3> QED BY <3>2, <3>3 DEF ReleaseLoop
  <2>2. pci' \in BOOLEAN
    BY DEF DriverTypeOK, ReleaseLoop
  <2>3. life' \in Releasing \cup Over \cup {"pmstop"} /\ fault' \in Fault
    BY DEF DriverTypeOK, ReleaseLoop, Run, Releasing, Over, Fault
  <2> QED BY <2>1, <2>2, <2>3 DEF DriverTypeOK, ReleaseLoop, sources, nubVars, powerVars, busVars, history
<1>3. MarkerExcludes'
  BY DEF ReleaseLoop, LoopTypeOK, DriverTypeOK, MarkerExcludes, Marker, Run, loops,
    DropWorkLoop, Loops, sources, nubVars, powerVars, busVars, history, Where, Starting,
    Releasing, Over, IrqState, GateState, CallStage, Cause, Fault, LoopGivenUp, loopVars,
    Null, AfterLoop, BeforeLoop
<1>4. LoopInUse'
  BY DEF ReleaseLoop, LoopTypeOK, DriverTypeOK, LoopInUse, Marker, Run, loops, DropWorkLoop,
    Loops, sources, nubVars, powerVars, busVars, history, Where, Starting, Releasing, Over,
    IrqState, GateState, CallStage, Cause, Fault, BeforeLoop, AfterLoop, IsLoop, Null,
    loopVars
<1>5. LoopCounted'
  BY DEF ReleaseLoop, LoopTypeOK, DriverTypeOK, LoopCounted, Marker, Run, loops,
    DropWorkLoop, Loops, sources, nubVars, powerVars, busVars, history, Where, Starting,
    Releasing, Over, IrqState, GateState, CallStage, Cause, Fault, AfterLoop, loopVars, Null
<1>6. SourcesFollowLife'
  BY DEF ReleaseLoop, LoopTypeOK, DriverTypeOK, SourcesFollowLife, Marker, Run, loops,
    DropWorkLoop, Loops, sources, nubVars, powerVars, busVars, history, Where, Starting,
    Releasing, Over, IrqState, GateState, CallStage, Cause, Fault, WithPower, AfterLoop,
    loopVars, Null
<1>7. PowerFollowsLife'
  BY DEF ReleaseLoop, LoopTypeOK, DriverTypeOK, PowerFollowsLife, Marker, Run, loops,
    DropWorkLoop, Loops, sources, nubVars, powerVars, busVars, history, Where, Starting,
    Releasing, Over, IrqState, GateState, CallStage, Cause, Fault, WithPower, AfterLoop,
    loopVars, Null
<1>8. NubCounted'
  BY DEF ReleaseLoop, LoopTypeOK, DriverTypeOK, NubCounted, Marker, Run, loops,
    DropWorkLoop, Loops, sources, nubVars, powerVars, busVars, history, Where, Starting,
    Releasing, Over, IrqState, GateState, CallStage, Cause, Fault, WithoutNub, AfterLoop,
    TornDown, loopVars, Null
<1>9. QuietBeforeAndAfter'
  BY DEF ReleaseLoop, LoopTypeOK, DriverTypeOK, QuietBeforeAndAfter, Marker, Run, loops,
    DropWorkLoop, Loops, sources, nubVars, powerVars, busVars, history, Where, Starting,
    Releasing, Over, IrqState, GateState, CallStage, Cause, Fault, WithoutNub, NothingRuns,
    TornDown, loopVars, Null, InFlight, AfterLoop
<1>10. NotifyKept'
  BY DEF ReleaseLoop, LoopTypeOK, DriverTypeOK, NotifyKept, Marker, Run, loops,
    DropWorkLoop, Loops, sources, nubVars, powerVars, busVars, history, Where, Starting,
    Releasing, Over, IrqState, GateState, CallStage, Cause, Fault, TornDown, loopVars, Null,
    AfterLoop
<1>11. MisuseHasACause'
  <2>1. work_loop = Marker /\ life = "loopOut" => reset
    BY DEF LoopInUse, LoopInv, LeavesWithLoop, BeforeLoop, IsLoop, Marker
  <2> QED BY <2>1 DEF ReleaseLoop, DropWorkLoop, Run, MisuseHasACause, loops, loopVars, history
<1>12. FailedStartLeavesNothing'
  BY DEF ReleaseLoop, LoopTypeOK, DriverTypeOK, FailedStartLeavesNothing, LoopCounted,
    LoopInUse, PowerFollowsLife, SourcesFollowLife, Marker, Run, loops, DropWorkLoop, Loops,
    sources, nubVars, powerVars, busVars, history, Where, Starting, Releasing, Over,
    IrqState, GateState, CallStage, Cause, Fault, IsLoop, AfterLoop, BeforeLoop, Null,
    WithPower, loopVars
<1>13. NotifyFollowsPower'
  BY DEF ReleaseLoop, LoopTypeOK, DriverTypeOK, NotifyFollowsPower, Marker, Run, loops,
    DropWorkLoop, Loops, sources, nubVars, powerVars, busVars, history, Where, Starting,
    Releasing, Over, IrqState, GateState, CallStage, Cause, Fault, loopVars, Null
<1> QED BY <1>1, <1>2, <1>3, <1>4, <1>5, <1>6, <1>7, <1>8, <1>9, <1>10, <1>11, <1>12, <1>13 DEF IInv

(* The driver leaves the power tree. *)
LEMMA PMstopKeepsIInv ==
  ASSUME IInv, LoopInv, fault = "none", PMstop PROVE IInv'
<1> USE CallerAssumption, MaxLoopsAssumption DEF IInv, TypeOK
<1>1. LoopTypeOK'
  BY DEF PMstop, LoopTypeOK, DriverTypeOK, Run, loops, sources, nubVars, busVars, history,
    Where, Starting, Releasing, Over, Loops, IrqState, GateState, CallStage, Cause, Fault,
    loopVars
<1>2. DriverTypeOK'
  BY DEF PMstop, LoopTypeOK, DriverTypeOK, Run, loops, sources, nubVars, busVars, history,
    Where, Starting, Releasing, Over, Loops, IrqState, GateState, CallStage, Cause, Fault,
    loopVars
<1>3. MarkerExcludes'
  BY DEF PMstop, LoopTypeOK, DriverTypeOK, MarkerExcludes, Run, loops, sources, nubVars,
    busVars, history, Where, Starting, Releasing, Over, Loops, IrqState, GateState,
    CallStage, Cause, Fault, LoopGivenUp, Marker, loopVars, AfterLoop, BeforeLoop, Null
<1>4. LoopInUse'
  BY DEF PMstop, LoopTypeOK, DriverTypeOK, LoopInUse, Run, loops, sources, nubVars, busVars,
    history, Where, Starting, Releasing, Over, Loops, IrqState, GateState, CallStage, Cause,
    Fault, BeforeLoop, AfterLoop, IsLoop, Null, loopVars
<1>5. LoopCounted'
  BY DEF PMstop, LoopTypeOK, DriverTypeOK, LoopCounted, Run, loops, sources, nubVars,
    busVars, history, Where, Starting, Releasing, Over, Loops, IrqState, GateState,
    CallStage, Cause, Fault, AfterLoop, loopVars
<1>6. SourcesFollowLife'
  BY DEF PMstop, LoopTypeOK, DriverTypeOK, SourcesFollowLife, Run, loops, sources, nubVars,
    busVars, history, Where, Starting, Releasing, Over, Loops, IrqState, GateState,
    CallStage, Cause, Fault, WithPower, AfterLoop, loopVars
<1>7. PowerFollowsLife'
  BY DEF PMstop, LoopTypeOK, DriverTypeOK, PowerFollowsLife, Run, loops, sources, nubVars,
    busVars, history, Where, Starting, Releasing, Over, Loops, IrqState, GateState,
    CallStage, Cause, Fault, WithPower, AfterLoop, loopVars
<1>8. NubCounted'
  BY DEF PMstop, LoopTypeOK, DriverTypeOK, NubCounted, Run, loops, sources, nubVars,
    busVars, history, Where, Starting, Releasing, Over, Loops, IrqState, GateState,
    CallStage, Cause, Fault, WithoutNub, AfterLoop, TornDown, loopVars
<1>9. QuietBeforeAndAfter'
  BY DEF PMstop, LoopTypeOK, DriverTypeOK, QuietBeforeAndAfter, Run, loops, sources,
    nubVars, busVars, history, Where, Starting, Releasing, Over, Loops, IrqState, GateState,
    CallStage, Cause, Fault, WithoutNub, NothingRuns, TornDown, loopVars, InFlight,
    AfterLoop
<1>10. NotifyKept'
  BY DEF PMstop, LoopTypeOK, DriverTypeOK, NotifyKept, Run, loops, sources, nubVars,
    busVars, history, Where, Starting, Releasing, Over, Loops, IrqState, GateState,
    CallStage, Cause, Fault, TornDown, loopVars, AfterLoop
<1>11. MisuseHasACause'
  BY DEF PMstop, LoopTypeOK, DriverTypeOK, MisuseHasACause, Run, loops, sources, nubVars,
    busVars, history, Where, Starting, Releasing, Over, Loops, IrqState, GateState,
    CallStage, Cause, Fault, loopVars
<1>12. FailedStartLeavesNothing'
  BY DEF PMstop, LoopTypeOK, DriverTypeOK, FailedStartLeavesNothing, Run, loops, sources,
    nubVars, busVars, history, Where, Starting, Releasing, Over, Loops, IrqState, GateState,
    CallStage, Cause, Fault, IsLoop, loopVars
<1>13. NotifyFollowsPower'
  BY DEF PMstop, LoopTypeOK, DriverTypeOK, NotifyFollowsPower, Run, loops, sources, nubVars,
    busVars, history, Where, Starting, Releasing, Over, Loops, IrqState, GateState,
    CallStage, Cause, Fault, loopVars
<1> QED BY <1>1, <1>2, <1>3, <1>4, <1>5, <1>6, <1>7, <1>8, <1>9, <1>10, <1>11, <1>12, <1>13 DEF IInv

(* Power off disables host notifies. *)
LEMMA PowerOffNotifyKeepsIInv ==
  ASSUME IInv, LoopInv, fault = "none", PowerOffNotify PROVE IInv'
<1> USE CallerAssumption, MaxLoopsAssumption DEF IInv, TypeOK
<1>1. LoopTypeOK'
  BY DEF PowerOffNotify, LoopTypeOK, DriverTypeOK, disableHostNotify, UsePci, PowerChange,
    loops, sources, nubVars, busVars, Where, Starting, Releasing, Over, Loops, IrqState,
    GateState, CallStage, Cause, Fault, loopVars
<1>2. DriverTypeOK'
  BY DEF PowerOffNotify, LoopTypeOK, DriverTypeOK, disableHostNotify, UsePci, PowerChange,
    loops, sources, nubVars, busVars, Where, Starting, Releasing, Over, Loops, IrqState,
    GateState, CallStage, Cause, Fault, loopVars
<1>3. MarkerExcludes'
  BY DEF PowerOffNotify, LoopTypeOK, DriverTypeOK, MarkerExcludes, disableHostNotify,
    UsePci, PowerChange, loops, sources, nubVars, busVars, Where, Starting, Releasing, Over,
    Loops, IrqState, GateState, CallStage, Cause, Fault, LoopGivenUp, Marker, loopVars,
    AfterLoop, BeforeLoop, Null
<1>4. LoopInUse'
  BY DEF PowerOffNotify, LoopTypeOK, DriverTypeOK, LoopInUse, disableHostNotify, UsePci,
    PowerChange, loops, sources, nubVars, busVars, Where, Starting, Releasing, Over, Loops,
    IrqState, GateState, CallStage, Cause, Fault, BeforeLoop, AfterLoop, IsLoop, Null,
    loopVars
<1>5. LoopCounted'
  BY DEF PowerOffNotify, LoopTypeOK, DriverTypeOK, LoopCounted, disableHostNotify, UsePci,
    PowerChange, loops, sources, nubVars, busVars, Where, Starting, Releasing, Over, Loops,
    IrqState, GateState, CallStage, Cause, Fault, AfterLoop, loopVars
<1>6. SourcesFollowLife'
  BY DEF PowerOffNotify, LoopTypeOK, DriverTypeOK, SourcesFollowLife, disableHostNotify,
    UsePci, PowerChange, loops, sources, nubVars, busVars, Where, Starting, Releasing, Over,
    Loops, IrqState, GateState, CallStage, Cause, Fault, WithPower, AfterLoop, loopVars
<1>7. PowerFollowsLife'
  BY DEF PowerOffNotify, LoopTypeOK, DriverTypeOK, PowerFollowsLife, disableHostNotify,
    UsePci, PowerChange, loops, sources, nubVars, busVars, Where, Starting, Releasing, Over,
    Loops, IrqState, GateState, CallStage, Cause, Fault, WithPower, AfterLoop, loopVars
<1>8. NubCounted'
  BY DEF PowerOffNotify, LoopTypeOK, DriverTypeOK, NubCounted, disableHostNotify, UsePci,
    PowerChange, loops, sources, nubVars, busVars, Where, Starting, Releasing, Over, Loops,
    IrqState, GateState, CallStage, Cause, Fault, WithoutNub, AfterLoop, TornDown, loopVars
<1>9. QuietBeforeAndAfter'
  BY DEF PowerOffNotify, LoopTypeOK, DriverTypeOK, QuietBeforeAndAfter, disableHostNotify,
    UsePci, PowerChange, loops, sources, nubVars, busVars, Where, Starting, Releasing, Over,
    Loops, IrqState, GateState, CallStage, Cause, Fault, WithoutNub, NothingRuns, TornDown,
    loopVars, InFlight, AfterLoop
<1>10. NotifyKept'
  BY DEF PowerOffNotify, LoopTypeOK, DriverTypeOK, NotifyKept, PowerFollowsLife,
    disableHostNotify, UsePci, PowerChange, loops, sources, nubVars, busVars, Where,
    Starting, Releasing, Over, Loops, IrqState, GateState, CallStage, Cause, Fault,
    TornDown, WithPower, AfterLoop, loopVars
<1>11. MisuseHasACause'
  BY DEF PowerOffNotify, LoopTypeOK, DriverTypeOK, MisuseHasACause, QuietBeforeAndAfter,
    SourcesFollowLife, NubCounted, PowerFollowsLife, LoopInUse, disableHostNotify, UsePci,
    PowerChange, loops, sources, nubVars, busVars, Where, Starting, Releasing, Over, Loops,
    IrqState, GateState, CallStage, Cause, Fault, WithoutNub, NothingRuns, TornDown,
    WithPower, AfterLoop, BeforeLoop, IsLoop, Null, loopVars, InFlight
<1>12. FailedStartLeavesNothing'
  BY DEF PowerOffNotify, LoopTypeOK, DriverTypeOK, FailedStartLeavesNothing,
    disableHostNotify, UsePci, PowerChange, loops, sources, nubVars, busVars, Where,
    Starting, Releasing, Over, Loops, IrqState, GateState, CallStage, Cause, Fault, IsLoop,
    loopVars
<1>13. NotifyFollowsPower'
  BY DEF PowerOffNotify, LoopTypeOK, DriverTypeOK, NotifyFollowsPower, disableHostNotify,
    UsePci, PowerChange, loops, sources, nubVars, busVars, Where, Starting, Releasing, Over,
    Loops, IrqState, GateState, CallStage, Cause, Fault, loopVars
<1> QED BY <1>1, <1>2, <1>3, <1>4, <1>5, <1>6, <1>7, <1>8, <1>9, <1>10, <1>11, <1>12, <1>13 DEF IInv

(* It disables the gate. *)
LEMMA PowerOffGateKeepsIInv ==
  ASSUME IInv, LoopInv, fault = "none", PowerOffGate PROVE IInv'
<1> USE CallerAssumption, MaxLoopsAssumption DEF IInv, TypeOK
<1>1. LoopTypeOK'
  BY DEF PowerOffGate, LoopTypeOK, DriverTypeOK, GateFree, UseGate, PowerChange, loops,
    nubVars, busVars, Where, Starting, Releasing, Over, Loops, IrqState, GateState,
    CallStage, Cause, Fault, loopVars
<1>2. DriverTypeOK'
  BY DEF PowerOffGate, LoopTypeOK, DriverTypeOK, GateFree, UseGate, PowerChange, loops,
    nubVars, busVars, Where, Starting, Releasing, Over, Loops, IrqState, GateState,
    CallStage, Cause, Fault, loopVars
<1>3. MarkerExcludes'
  BY DEF PowerOffGate, LoopTypeOK, DriverTypeOK, MarkerExcludes, GateFree, UseGate,
    PowerChange, loops, nubVars, busVars, Where, Starting, Releasing, Over, Loops, IrqState,
    GateState, CallStage, Cause, Fault, LoopGivenUp, Marker, loopVars, AfterLoop,
    BeforeLoop, Null
<1>4. LoopInUse'
  BY DEF PowerOffGate, LoopTypeOK, DriverTypeOK, LoopInUse, GateFree, UseGate, PowerChange,
    loops, nubVars, busVars, Where, Starting, Releasing, Over, Loops, IrqState, GateState,
    CallStage, Cause, Fault, BeforeLoop, AfterLoop, IsLoop, Null, loopVars
<1>5. LoopCounted'
  BY DEF PowerOffGate, LoopTypeOK, DriverTypeOK, LoopCounted, GateFree, UseGate,
    PowerChange, loops, nubVars, busVars, Where, Starting, Releasing, Over, Loops, IrqState,
    GateState, CallStage, Cause, Fault, AfterLoop, loopVars
<1>6. SourcesFollowLife'
  BY DEF PowerOffGate, LoopTypeOK, DriverTypeOK, SourcesFollowLife, PowerFollowsLife,
    LoopInUse, GateFree, UseGate, PowerChange, loops, nubVars, busVars, Where, Starting,
    Releasing, Over, Loops, IrqState, GateState, CallStage, Cause, Fault, WithPower,
    AfterLoop, BeforeLoop, IsLoop, Null, loopVars
<1>7. PowerFollowsLife'
  BY DEF PowerOffGate, LoopTypeOK, DriverTypeOK, PowerFollowsLife, GateFree, UseGate,
    PowerChange, loops, nubVars, busVars, Where, Starting, Releasing, Over, Loops, IrqState,
    GateState, CallStage, Cause, Fault, WithPower, AfterLoop, loopVars
<1>8. NubCounted'
  BY DEF PowerOffGate, LoopTypeOK, DriverTypeOK, NubCounted, GateFree, UseGate, PowerChange,
    loops, nubVars, busVars, Where, Starting, Releasing, Over, Loops, IrqState, GateState,
    CallStage, Cause, Fault, WithoutNub, AfterLoop, TornDown, loopVars
<1>9. QuietBeforeAndAfter'
  BY DEF PowerOffGate, LoopTypeOK, DriverTypeOK, QuietBeforeAndAfter, GateFree, UseGate,
    PowerChange, loops, nubVars, busVars, Where, Starting, Releasing, Over, Loops, IrqState,
    GateState, CallStage, Cause, Fault, WithoutNub, NothingRuns, TornDown, loopVars,
    InFlight, AfterLoop
<1>10. NotifyKept'
  BY DEF PowerOffGate, LoopTypeOK, DriverTypeOK, NotifyKept, GateFree, UseGate, PowerChange,
    loops, nubVars, busVars, Where, Starting, Releasing, Over, Loops, IrqState, GateState,
    CallStage, Cause, Fault, TornDown, loopVars, AfterLoop
<1>11. MisuseHasACause'
  BY DEF PowerOffGate, LoopTypeOK, DriverTypeOK, MisuseHasACause, QuietBeforeAndAfter,
    SourcesFollowLife, NubCounted, PowerFollowsLife, LoopInUse, GateFree, UseGate,
    PowerChange, loops, nubVars, busVars, Where, Starting, Releasing, Over, Loops, IrqState,
    GateState, CallStage, Cause, Fault, WithoutNub, NothingRuns, TornDown, WithPower,
    AfterLoop, BeforeLoop, IsLoop, Null, loopVars, InFlight
<1>12. FailedStartLeavesNothing'
  BY DEF PowerOffGate, LoopTypeOK, DriverTypeOK, FailedStartLeavesNothing, GateFree,
    UseGate, PowerChange, loops, nubVars, busVars, Where, Starting, Releasing, Over, Loops,
    IrqState, GateState, CallStage, Cause, Fault, IsLoop, loopVars
<1>13. NotifyFollowsPower'
  BY DEF PowerOffGate, LoopTypeOK, DriverTypeOK, NotifyFollowsPower, NotifyKept,
    PowerFollowsLife, GateFree, UseGate, PowerChange, loops, nubVars, busVars, Where,
    Starting, Releasing, Over, Loops, IrqState, GateState, CallStage, Cause, Fault,
    TornDown, WithPower, AfterLoop, loopVars
<1> QED BY <1>1, <1>2, <1>3, <1>4, <1>5, <1>6, <1>7, <1>8, <1>9, <1>10, <1>11, <1>12, <1>13 DEF IInv

(* Power on enables the gate. *)
LEMMA PowerOnGateKeepsIInv ==
  ASSUME IInv, LoopInv, fault = "none", PowerOnGate PROVE IInv'
<1> USE CallerAssumption, MaxLoopsAssumption DEF IInv, TypeOK
<1>1. LoopTypeOK'
  BY DEF PowerOnGate, LoopTypeOK, DriverTypeOK, UseGate, PowerChange, loops, nubVars,
    busVars, Where, Starting, Releasing, Over, Loops, IrqState, GateState, CallStage, Cause,
    Fault, loopVars
<1>2. DriverTypeOK'
  BY DEF PowerOnGate, LoopTypeOK, DriverTypeOK, UseGate, PowerChange, loops, nubVars,
    busVars, Where, Starting, Releasing, Over, Loops, IrqState, GateState, CallStage, Cause,
    Fault, loopVars
<1>3. MarkerExcludes'
  BY DEF PowerOnGate, LoopTypeOK, DriverTypeOK, MarkerExcludes, UseGate, PowerChange, loops,
    nubVars, busVars, Where, Starting, Releasing, Over, Loops, IrqState, GateState,
    CallStage, Cause, Fault, LoopGivenUp, Marker, loopVars, AfterLoop, BeforeLoop, Null
<1>4. LoopInUse'
  BY DEF PowerOnGate, LoopTypeOK, DriverTypeOK, LoopInUse, UseGate, PowerChange, loops,
    nubVars, busVars, Where, Starting, Releasing, Over, Loops, IrqState, GateState,
    CallStage, Cause, Fault, BeforeLoop, AfterLoop, IsLoop, Null, loopVars
<1>5. LoopCounted'
  BY DEF PowerOnGate, LoopTypeOK, DriverTypeOK, LoopCounted, UseGate, PowerChange, loops,
    nubVars, busVars, Where, Starting, Releasing, Over, Loops, IrqState, GateState,
    CallStage, Cause, Fault, AfterLoop, loopVars
<1>6. SourcesFollowLife'
  BY DEF PowerOnGate, LoopTypeOK, DriverTypeOK, SourcesFollowLife, UseGate, PowerChange,
    loops, nubVars, busVars, Where, Starting, Releasing, Over, Loops, IrqState, GateState,
    CallStage, Cause, Fault, WithPower, AfterLoop, loopVars
<1>7. PowerFollowsLife'
  BY DEF PowerOnGate, LoopTypeOK, DriverTypeOK, PowerFollowsLife, UseGate, PowerChange,
    loops, nubVars, busVars, Where, Starting, Releasing, Over, Loops, IrqState, GateState,
    CallStage, Cause, Fault, WithPower, AfterLoop, loopVars
<1>8. NubCounted'
  BY DEF PowerOnGate, LoopTypeOK, DriverTypeOK, NubCounted, UseGate, PowerChange, loops,
    nubVars, busVars, Where, Starting, Releasing, Over, Loops, IrqState, GateState,
    CallStage, Cause, Fault, WithoutNub, AfterLoop, TornDown, loopVars
<1>9. QuietBeforeAndAfter'
  BY DEF PowerOnGate, LoopTypeOK, DriverTypeOK, QuietBeforeAndAfter, UseGate, PowerChange,
    loops, nubVars, busVars, Where, Starting, Releasing, Over, Loops, IrqState, GateState,
    CallStage, Cause, Fault, WithoutNub, NothingRuns, TornDown, loopVars, InFlight,
    AfterLoop
<1>10. NotifyKept'
  BY DEF PowerOnGate, LoopTypeOK, DriverTypeOK, NotifyKept, UseGate, PowerChange, loops,
    nubVars, busVars, Where, Starting, Releasing, Over, Loops, IrqState, GateState,
    CallStage, Cause, Fault, TornDown, loopVars, AfterLoop
<1>11. MisuseHasACause'
  BY DEF PowerOnGate, LoopTypeOK, DriverTypeOK, MisuseHasACause, QuietBeforeAndAfter,
    SourcesFollowLife, NubCounted, PowerFollowsLife, LoopInUse, UseGate, PowerChange, loops,
    nubVars, busVars, Where, Starting, Releasing, Over, Loops, IrqState, GateState,
    CallStage, Cause, Fault, WithoutNub, NothingRuns, TornDown, WithPower, AfterLoop,
    BeforeLoop, IsLoop, Null, loopVars, InFlight
<1>12. FailedStartLeavesNothing'
  BY DEF PowerOnGate, LoopTypeOK, DriverTypeOK, FailedStartLeavesNothing, UseGate,
    PowerChange, loops, nubVars, busVars, Where, Starting, Releasing, Over, Loops, IrqState,
    GateState, CallStage, Cause, Fault, IsLoop, loopVars
<1>13. NotifyFollowsPower'
  BY DEF PowerOnGate, LoopTypeOK, DriverTypeOK, NotifyFollowsPower, UseGate, PowerChange,
    loops, nubVars, busVars, Where, Starting, Releasing, Over, Loops, IrqState, GateState,
    CallStage, Cause, Fault, loopVars
<1> QED BY <1>1, <1>2, <1>3, <1>4, <1>5, <1>6, <1>7, <1>8, <1>9, <1>10, <1>11, <1>12, <1>13 DEF IInv

(* It enables host notifies. *)
LEMMA PowerOnNotifyKeepsIInv ==
  ASSUME IInv, LoopInv, fault = "none", PowerOnNotify PROVE IInv'
<1> USE CallerAssumption, MaxLoopsAssumption DEF IInv, TypeOK
<1>1. LoopTypeOK'
  BY DEF PowerOnNotify, LoopTypeOK, DriverTypeOK, enableHostNotify, UsePci, PowerChange,
    loops, sources, nubVars, Where, Starting, Releasing, Over, Loops, IrqState, GateState,
    CallStage, Cause, Fault, loopVars
<1>2. DriverTypeOK'
  <2>1. intren' \in BOOLEAN
    BY DEF DriverTypeOK, PowerOnNotify, enableHostNotify
  <2>2. ntfy' \in BOOLEAN
    BY DEF PowerOnNotify, enableHostNotify
  <2>3. early' \in BOOLEAN
    BY DEF DriverTypeOK, PowerOnNotify, PowerChange
  <2>4. late' \in SUBSET Cause
    BY DEF DriverTypeOK, PowerOnNotify, PowerChange, Cause
  <2> QED BY <2>1, <2>2, <2>3, <2>4 DEF DriverTypeOK, PowerOnNotify, UsePci, Fault, loops, sources, nubVars
<1>3. MarkerExcludes'
  BY DEF PowerOnNotify, LoopTypeOK, DriverTypeOK, MarkerExcludes, enableHostNotify, UsePci,
    PowerChange, loops, sources, nubVars, Where, Starting, Releasing, Over, Loops, IrqState,
    GateState, CallStage, Cause, Fault, LoopGivenUp, Marker, loopVars, AfterLoop,
    BeforeLoop, Null
<1>4. LoopInUse'
  BY DEF PowerOnNotify, LoopTypeOK, DriverTypeOK, LoopInUse, enableHostNotify, UsePci,
    PowerChange, loops, sources, nubVars, Where, Starting, Releasing, Over, Loops, IrqState,
    GateState, CallStage, Cause, Fault, BeforeLoop, AfterLoop, IsLoop, Null, loopVars
<1>5. LoopCounted'
  BY DEF PowerOnNotify, LoopTypeOK, DriverTypeOK, LoopCounted, enableHostNotify, UsePci,
    PowerChange, loops, sources, nubVars, Where, Starting, Releasing, Over, Loops, IrqState,
    GateState, CallStage, Cause, Fault, AfterLoop, loopVars
<1>6. SourcesFollowLife'
  BY DEF PowerOnNotify, LoopTypeOK, DriverTypeOK, SourcesFollowLife, enableHostNotify,
    UsePci, PowerChange, loops, sources, nubVars, Where, Starting, Releasing, Over, Loops,
    IrqState, GateState, CallStage, Cause, Fault, WithPower, AfterLoop, loopVars
<1>7. PowerFollowsLife'
  BY DEF PowerOnNotify, LoopTypeOK, DriverTypeOK, PowerFollowsLife, enableHostNotify,
    UsePci, PowerChange, loops, sources, nubVars, Where, Starting, Releasing, Over, Loops,
    IrqState, GateState, CallStage, Cause, Fault, WithPower, AfterLoop, loopVars
<1>8. NubCounted'
  BY DEF PowerOnNotify, LoopTypeOK, DriverTypeOK, NubCounted, enableHostNotify, UsePci,
    PowerChange, loops, sources, nubVars, Where, Starting, Releasing, Over, Loops, IrqState,
    GateState, CallStage, Cause, Fault, WithoutNub, AfterLoop, TornDown, loopVars
<1>9. QuietBeforeAndAfter'
  BY DEF PowerOnNotify, LoopTypeOK, DriverTypeOK, QuietBeforeAndAfter, enableHostNotify,
    UsePci, PowerChange, loops, sources, nubVars, Where, Starting, Releasing, Over, Loops,
    IrqState, GateState, CallStage, Cause, Fault, WithoutNub, NothingRuns, TornDown,
    loopVars, InFlight, AfterLoop
<1>10. NotifyKept'
  BY DEF PowerOnNotify, LoopTypeOK, DriverTypeOK, NotifyKept, enableHostNotify, UsePci,
    PowerChange, loops, sources, nubVars, Where, Starting, Releasing, Over, Loops, IrqState,
    GateState, CallStage, Cause, Fault, TornDown, loopVars, AfterLoop
<1>11. MisuseHasACause'
  BY DEF PowerOnNotify, LoopTypeOK, DriverTypeOK, MisuseHasACause, QuietBeforeAndAfter,
    SourcesFollowLife, NubCounted, PowerFollowsLife, LoopInUse, enableHostNotify, UsePci,
    PowerChange, loops, sources, nubVars, Where, Starting, Releasing, Over, Loops, IrqState,
    GateState, CallStage, Cause, Fault, WithoutNub, NothingRuns, TornDown, WithPower,
    AfterLoop, BeforeLoop, IsLoop, Null, loopVars, InFlight
<1>12. FailedStartLeavesNothing'
  BY DEF PowerOnNotify, LoopTypeOK, DriverTypeOK, FailedStartLeavesNothing,
    enableHostNotify, UsePci, PowerChange, loops, sources, nubVars, Where, Starting,
    Releasing, Over, Loops, IrqState, GateState, CallStage, Cause, Fault, IsLoop, loopVars
<1>13. NotifyFollowsPower'
  BY DEF PowerOnNotify, LoopTypeOK, DriverTypeOK, NotifyFollowsPower, enableHostNotify,
    UsePci, PowerChange, loops, sources, nubVars, Where, Starting, Releasing, Over, Loops,
    IrqState, GateState, CallStage, Cause, Fault, loopVars
<1> QED BY <1>1, <1>2, <1>3, <1>4, <1>5, <1>6, <1>7, <1>8, <1>9, <1>10, <1>11, <1>12, <1>13 DEF IInv

(* The handler looks the nub up. *)
LEMMA HandlerFindsNubKeepsIInv ==
  ASSUME IInv, LoopInv, fault = "none", HandlerFindsNub PROVE IInv'
<1> USE CallerAssumption, MaxLoopsAssumption DEF IInv, TypeOK
<1>1. LoopTypeOK'
  BY DEF HandlerFindsNub, LoopTypeOK, DriverTypeOK, GateFree, InterruptPending, loops,
    sources, nubVars, powerVars, history, Where, Starting, Releasing, Over, Loops, IrqState,
    GateState, CallStage, Cause, Fault, loopVars
<1>2. DriverTypeOK'
  <2>1. ntfy' \in BOOLEAN
    BY DEF DriverTypeOK, HandlerFindsNub
  <2>2. handler' \in {"idle", "nub", "wakeup"}
    BY DEF DriverTypeOK, HandlerFindsNub
  <2>3. UNCHANGED <<life, irq, gate, nub, nubRefs, client, pci, pm, intren, original, wire, hststs>>
    BY DEF HandlerFindsNub, sources, nubVars, powerVars
  <2>4. UNCHANGED <<loopRefs, pc, early, late, fault>>
    BY DEF HandlerFindsNub, loops, history
  <2> QED BY <2>1, <2>2, <2>3, <2>4 DEF DriverTypeOK
<1>3. MarkerExcludes'
  BY DEF HandlerFindsNub, LoopTypeOK, DriverTypeOK, MarkerExcludes, GateFree,
    InterruptPending, loops, sources, nubVars, powerVars, history, Where, Starting,
    Releasing, Over, Loops, IrqState, GateState, CallStage, Cause, Fault, LoopGivenUp,
    Marker, loopVars, AfterLoop, BeforeLoop, Null
<1>4. LoopInUse'
  BY DEF HandlerFindsNub, LoopTypeOK, DriverTypeOK, LoopInUse, GateFree, InterruptPending,
    loops, sources, nubVars, powerVars, history, Where, Starting, Releasing, Over, Loops,
    IrqState, GateState, CallStage, Cause, Fault, BeforeLoop, AfterLoop, IsLoop, Null,
    loopVars
<1>5. LoopCounted'
  BY DEF HandlerFindsNub, LoopTypeOK, DriverTypeOK, LoopCounted, GateFree, InterruptPending,
    loops, sources, nubVars, powerVars, history, Where, Starting, Releasing, Over, Loops,
    IrqState, GateState, CallStage, Cause, Fault, AfterLoop, loopVars
<1>6. SourcesFollowLife'
  BY DEF HandlerFindsNub, LoopTypeOK, DriverTypeOK, SourcesFollowLife, GateFree,
    InterruptPending, loops, sources, nubVars, powerVars, history, Where, Starting,
    Releasing, Over, Loops, IrqState, GateState, CallStage, Cause, Fault, WithPower,
    AfterLoop, loopVars
<1>7. PowerFollowsLife'
  BY DEF HandlerFindsNub, LoopTypeOK, DriverTypeOK, PowerFollowsLife, GateFree,
    InterruptPending, loops, sources, nubVars, powerVars, history, Where, Starting,
    Releasing, Over, Loops, IrqState, GateState, CallStage, Cause, Fault, WithPower,
    AfterLoop, loopVars
<1>8. NubCounted'
  BY DEF HandlerFindsNub, LoopTypeOK, DriverTypeOK, NubCounted, GateFree, InterruptPending,
    loops, sources, nubVars, powerVars, history, Where, Starting, Releasing, Over, Loops,
    IrqState, GateState, CallStage, Cause, Fault, WithoutNub, AfterLoop, TornDown, loopVars
<1>9. QuietBeforeAndAfter'
  BY DEF HandlerFindsNub, LoopTypeOK, DriverTypeOK, QuietBeforeAndAfter, SourcesFollowLife,
    NubCounted, PowerFollowsLife, GateFree, InterruptPending, loops, sources, nubVars,
    powerVars, history, Where, Starting, Releasing, Over, Loops, IrqState, GateState,
    CallStage, Cause, Fault, WithoutNub, NothingRuns, TornDown, WithPower, AfterLoop,
    loopVars, InFlight
<1>10. NotifyKept'
  BY DEF HandlerFindsNub, LoopTypeOK, DriverTypeOK, NotifyKept, GateFree, InterruptPending,
    loops, sources, nubVars, powerVars, history, Where, Starting, Releasing, Over, Loops,
    IrqState, GateState, CallStage, Cause, Fault, TornDown, loopVars, AfterLoop
<1>11. MisuseHasACause'
  BY DEF HandlerFindsNub, LoopTypeOK, DriverTypeOK, MisuseHasACause, GateFree,
    InterruptPending, loops, sources, nubVars, powerVars, history, Where, Starting,
    Releasing, Over, Loops, IrqState, GateState, CallStage, Cause, Fault, loopVars
<1>12. FailedStartLeavesNothing'
  BY DEF HandlerFindsNub, LoopTypeOK, DriverTypeOK, FailedStartLeavesNothing, GateFree,
    InterruptPending, loops, sources, nubVars, powerVars, history, Where, Starting,
    Releasing, Over, Loops, IrqState, GateState, CallStage, Cause, Fault, IsLoop, loopVars
<1>13. NotifyFollowsPower'
  BY DEF HandlerFindsNub, LoopTypeOK, DriverTypeOK, NotifyFollowsPower, GateFree,
    InterruptPending, loops, sources, nubVars, powerVars, history, Where, Starting,
    Releasing, Over, Loops, IrqState, GateState, CallStage, Cause, Fault, loopVars
<1> QED BY <1>1, <1>2, <1>3, <1>4, <1>5, <1>6, <1>7, <1>8, <1>9, <1>10, <1>11, <1>12, <1>13 DEF IInv

(* It notifies the nub. *)
LEMMA HandlerNotifiesNubKeepsIInv ==
  ASSUME IInv, LoopInv, fault = "none", HandlerNotifiesNub PROVE IInv'
<1> USE CallerAssumption, MaxLoopsAssumption DEF IInv, TypeOK
<1>1. LoopTypeOK'
  BY DEF HandlerNotifiesNub, LoopTypeOK, DriverTypeOK, loops, sources, nubVars, powerVars,
    history, Where, Starting, Releasing, Over, Loops, IrqState, GateState, CallStage, Cause,
    Fault, loopVars
<1>2. DriverTypeOK'
  <2>1. ntfy' \in BOOLEAN
    BY DEF HandlerNotifiesNub
  <2>2. pc' \in [Call -> CallStage]
    BY DEF DriverTypeOK, HandlerNotifiesNub, CallStage
  <2> QED BY <2>1, <2>2 DEF DriverTypeOK, HandlerNotifiesNub, Fault, loops, sources, nubVars, powerVars, history
<1>3. MarkerExcludes'
  BY DEF HandlerNotifiesNub, LoopTypeOK, DriverTypeOK, MarkerExcludes, loops, sources,
    nubVars, powerVars, history, Where, Starting, Releasing, Over, Loops, IrqState,
    GateState, CallStage, Cause, Fault, LoopGivenUp, Marker, loopVars, AfterLoop,
    BeforeLoop, Null
<1>4. LoopInUse'
  BY DEF HandlerNotifiesNub, LoopTypeOK, DriverTypeOK, LoopInUse, loops, sources, nubVars,
    powerVars, history, Where, Starting, Releasing, Over, Loops, IrqState, GateState,
    CallStage, Cause, Fault, BeforeLoop, AfterLoop, IsLoop, Null, loopVars
<1>5. LoopCounted'
  BY DEF HandlerNotifiesNub, LoopTypeOK, DriverTypeOK, LoopCounted, loops, sources, nubVars,
    powerVars, history, Where, Starting, Releasing, Over, Loops, IrqState, GateState,
    CallStage, Cause, Fault, AfterLoop, loopVars
<1>6. SourcesFollowLife'
  BY DEF HandlerNotifiesNub, LoopTypeOK, DriverTypeOK, SourcesFollowLife, loops, sources,
    nubVars, powerVars, history, Where, Starting, Releasing, Over, Loops, IrqState,
    GateState, CallStage, Cause, Fault, WithPower, AfterLoop, loopVars
<1>7. PowerFollowsLife'
  BY DEF HandlerNotifiesNub, LoopTypeOK, DriverTypeOK, PowerFollowsLife, loops, sources,
    nubVars, powerVars, history, Where, Starting, Releasing, Over, Loops, IrqState,
    GateState, CallStage, Cause, Fault, WithPower, AfterLoop, loopVars
<1>8. NubCounted'
  BY DEF HandlerNotifiesNub, LoopTypeOK, DriverTypeOK, NubCounted, loops, sources, nubVars,
    powerVars, history, Where, Starting, Releasing, Over, Loops, IrqState, GateState,
    CallStage, Cause, Fault, WithoutNub, AfterLoop, TornDown, loopVars
<1>9. QuietBeforeAndAfter'
  BY DEF HandlerNotifiesNub, LoopTypeOK, DriverTypeOK, QuietBeforeAndAfter, loops, sources,
    nubVars, powerVars, history, Where, Starting, Releasing, Over, Loops, IrqState,
    GateState, CallStage, Cause, Fault, WithoutNub, NothingRuns, TornDown, loopVars,
    InFlight, AfterLoop
<1>10. NotifyKept'
  BY DEF HandlerNotifiesNub, LoopTypeOK, DriverTypeOK, NotifyKept, loops, sources, nubVars,
    powerVars, history, Where, Starting, Releasing, Over, Loops, IrqState, GateState,
    CallStage, Cause, Fault, TornDown, loopVars, AfterLoop
<1>11. MisuseHasACause'
  BY DEF HandlerNotifiesNub, LoopTypeOK, DriverTypeOK, MisuseHasACause, QuietBeforeAndAfter,
    SourcesFollowLife, NubCounted, PowerFollowsLife, LoopInUse, loops, sources, nubVars,
    powerVars, history, Where, Starting, Releasing, Over, Loops, IrqState, GateState,
    CallStage, Cause, Fault, WithoutNub, NothingRuns, TornDown, WithPower, AfterLoop,
    BeforeLoop, IsLoop, Null, loopVars, InFlight
<1>12. FailedStartLeavesNothing'
  BY DEF HandlerNotifiesNub, LoopTypeOK, DriverTypeOK, FailedStartLeavesNothing, loops,
    sources, nubVars, powerVars, history, Where, Starting, Releasing, Over, Loops, IrqState,
    GateState, CallStage, Cause, Fault, IsLoop, loopVars
<1>13. NotifyFollowsPower'
  BY DEF HandlerNotifiesNub, LoopTypeOK, DriverTypeOK, NotifyFollowsPower, loops, sources,
    nubVars, powerVars, history, Where, Starting, Releasing, Over, Loops, IrqState,
    GateState, CallStage, Cause, Fault, loopVars
<1> QED BY <1>1, <1>2, <1>3, <1>4, <1>5, <1>6, <1>7, <1>8, <1>9, <1>10, <1>11, <1>12, <1>13 DEF IInv

(* It clears the flags. *)
LEMMA HandlerClearsKeepsIInv ==
  ASSUME IInv, LoopInv, fault = "none", HandlerClears PROVE IInv'
<1> USE CallerAssumption, MaxLoopsAssumption DEF IInv, TypeOK
<1>1. LoopTypeOK'
  BY DEF HandlerClears, LoopTypeOK, DriverTypeOK, GateFree, InterruptPending, loops,
    sources, nubVars, powerVars, history, Where, Starting, Releasing, Over, Loops, IrqState,
    GateState, CallStage, Cause, Fault, loopVars
<1>2. DriverTypeOK'
  <2>1. hststs' \in BOOLEAN
    BY DEF HandlerClears
  <2> QED BY <2>1 DEF DriverTypeOK, HandlerClears, loops, sources, nubVars, powerVars, history
<1>3. MarkerExcludes'
  BY DEF HandlerClears, LoopTypeOK, DriverTypeOK, MarkerExcludes, GateFree,
    InterruptPending, loops, sources, nubVars, powerVars, history, Where, Starting,
    Releasing, Over, Loops, IrqState, GateState, CallStage, Cause, Fault, LoopGivenUp,
    Marker, loopVars, AfterLoop, BeforeLoop, Null
<1>4. LoopInUse'
  BY DEF HandlerClears, LoopTypeOK, DriverTypeOK, LoopInUse, GateFree, InterruptPending,
    loops, sources, nubVars, powerVars, history, Where, Starting, Releasing, Over, Loops,
    IrqState, GateState, CallStage, Cause, Fault, BeforeLoop, AfterLoop, IsLoop, Null,
    loopVars
<1>5. LoopCounted'
  BY DEF HandlerClears, LoopTypeOK, DriverTypeOK, LoopCounted, GateFree, InterruptPending,
    loops, sources, nubVars, powerVars, history, Where, Starting, Releasing, Over, Loops,
    IrqState, GateState, CallStage, Cause, Fault, AfterLoop, loopVars
<1>6. SourcesFollowLife'
  BY DEF HandlerClears, LoopTypeOK, DriverTypeOK, SourcesFollowLife, GateFree,
    InterruptPending, loops, sources, nubVars, powerVars, history, Where, Starting,
    Releasing, Over, Loops, IrqState, GateState, CallStage, Cause, Fault, WithPower,
    AfterLoop, loopVars
<1>7. PowerFollowsLife'
  BY DEF HandlerClears, LoopTypeOK, DriverTypeOK, PowerFollowsLife, GateFree,
    InterruptPending, loops, sources, nubVars, powerVars, history, Where, Starting,
    Releasing, Over, Loops, IrqState, GateState, CallStage, Cause, Fault, WithPower,
    AfterLoop, loopVars
<1>8. NubCounted'
  BY DEF HandlerClears, LoopTypeOK, DriverTypeOK, NubCounted, GateFree, InterruptPending,
    loops, sources, nubVars, powerVars, history, Where, Starting, Releasing, Over, Loops,
    IrqState, GateState, CallStage, Cause, Fault, WithoutNub, AfterLoop, TornDown, loopVars
<1>9. QuietBeforeAndAfter'
  BY DEF HandlerClears, LoopTypeOK, DriverTypeOK, QuietBeforeAndAfter, GateFree,
    InterruptPending, loops, sources, nubVars, powerVars, history, Where, Starting,
    Releasing, Over, Loops, IrqState, GateState, CallStage, Cause, Fault, WithoutNub,
    NothingRuns, TornDown, loopVars, InFlight, AfterLoop
<1>10. NotifyKept'
  BY DEF HandlerClears, LoopTypeOK, DriverTypeOK, NotifyKept, GateFree, InterruptPending,
    loops, sources, nubVars, powerVars, history, Where, Starting, Releasing, Over, Loops,
    IrqState, GateState, CallStage, Cause, Fault, TornDown, loopVars, AfterLoop
<1>11. MisuseHasACause'
  BY DEF HandlerClears, LoopTypeOK, DriverTypeOK, MisuseHasACause, GateFree,
    InterruptPending, loops, sources, nubVars, powerVars, history, Where, Starting,
    Releasing, Over, Loops, IrqState, GateState, CallStage, Cause, Fault, loopVars
<1>12. FailedStartLeavesNothing'
  BY DEF HandlerClears, LoopTypeOK, DriverTypeOK, FailedStartLeavesNothing, GateFree,
    InterruptPending, loops, sources, nubVars, powerVars, history, Where, Starting,
    Releasing, Over, Loops, IrqState, GateState, CallStage, Cause, Fault, IsLoop, loopVars
<1>13. NotifyFollowsPower'
  BY DEF HandlerClears, LoopTypeOK, DriverTypeOK, NotifyFollowsPower, GateFree,
    InterruptPending, loops, sources, nubVars, powerVars, history, Where, Starting,
    Releasing, Over, Loops, IrqState, GateState, CallStage, Cause, Fault, loopVars
<1> QED BY <1>1, <1>2, <1>3, <1>4, <1>5, <1>6, <1>7, <1>8, <1>9, <1>10, <1>11, <1>12, <1>13 DEF IInv

(* It wakes the sleeper. *)
LEMMA HandlerWakesKeepsIInv ==
  ASSUME IInv, LoopInv, fault = "none", HandlerWakes PROVE IInv'
<1> USE CallerAssumption, MaxLoopsAssumption DEF IInv, TypeOK
<1>1. LoopTypeOK'
  BY DEF HandlerWakes, LoopTypeOK, DriverTypeOK, CallsMove, loops, sources, nubVars,
    powerVars, history, Where, Starting, Releasing, Over, Loops, IrqState, GateState,
    CallStage, Cause, Fault, loopVars
<1>2. DriverTypeOK'
  BY DEF HandlerWakes, LoopTypeOK, DriverTypeOK, CallsMove, loops, sources, nubVars,
    powerVars, history, Where, Starting, Releasing, Over, Loops, IrqState, GateState,
    CallStage, Cause, Fault, loopVars
<1>3. MarkerExcludes'
  BY DEF HandlerWakes, LoopTypeOK, DriverTypeOK, MarkerExcludes, CallsMove, loops, sources,
    nubVars, powerVars, history, Where, Starting, Releasing, Over, Loops, IrqState,
    GateState, CallStage, Cause, Fault, LoopGivenUp, Marker, loopVars, AfterLoop,
    BeforeLoop, Null
<1>4. LoopInUse'
  BY DEF HandlerWakes, LoopTypeOK, DriverTypeOK, LoopInUse, CallsMove, loops, sources,
    nubVars, powerVars, history, Where, Starting, Releasing, Over, Loops, IrqState,
    GateState, CallStage, Cause, Fault, BeforeLoop, AfterLoop, IsLoop, Null, loopVars
<1>5. LoopCounted'
  BY DEF HandlerWakes, LoopTypeOK, DriverTypeOK, LoopCounted, CallsMove, loops, sources,
    nubVars, powerVars, history, Where, Starting, Releasing, Over, Loops, IrqState,
    GateState, CallStage, Cause, Fault, AfterLoop, loopVars
<1>6. SourcesFollowLife'
  BY DEF HandlerWakes, LoopTypeOK, DriverTypeOK, SourcesFollowLife, CallsMove, loops,
    sources, nubVars, powerVars, history, Where, Starting, Releasing, Over, Loops, IrqState,
    GateState, CallStage, Cause, Fault, WithPower, AfterLoop, loopVars
<1>7. PowerFollowsLife'
  BY DEF HandlerWakes, LoopTypeOK, DriverTypeOK, PowerFollowsLife, CallsMove, loops,
    sources, nubVars, powerVars, history, Where, Starting, Releasing, Over, Loops, IrqState,
    GateState, CallStage, Cause, Fault, WithPower, AfterLoop, loopVars
<1>8. NubCounted'
  BY DEF HandlerWakes, LoopTypeOK, DriverTypeOK, NubCounted, CallsMove, loops, sources,
    nubVars, powerVars, history, Where, Starting, Releasing, Over, Loops, IrqState,
    GateState, CallStage, Cause, Fault, WithoutNub, AfterLoop, TornDown, loopVars
<1>9. QuietBeforeAndAfter'
  BY DEF HandlerWakes, LoopTypeOK, DriverTypeOK, QuietBeforeAndAfter, CallsMove, loops,
    sources, nubVars, powerVars, history, Where, Starting, Releasing, Over, Loops, IrqState,
    GateState, CallStage, Cause, Fault, WithoutNub, NothingRuns, TornDown, loopVars,
    InFlight, AfterLoop
<1>10. NotifyKept'
  BY DEF HandlerWakes, LoopTypeOK, DriverTypeOK, NotifyKept, CallsMove, loops, sources,
    nubVars, powerVars, history, Where, Starting, Releasing, Over, Loops, IrqState,
    GateState, CallStage, Cause, Fault, TornDown, loopVars, AfterLoop
<1>11. MisuseHasACause'
  BY DEF HandlerWakes, LoopTypeOK, DriverTypeOK, MisuseHasACause, QuietBeforeAndAfter,
    SourcesFollowLife, NubCounted, PowerFollowsLife, LoopInUse, CallsMove, loops, sources,
    nubVars, powerVars, history, Where, Starting, Releasing, Over, Loops, IrqState,
    GateState, CallStage, Cause, Fault, WithoutNub, NothingRuns, TornDown, WithPower,
    AfterLoop, BeforeLoop, IsLoop, Null, loopVars, InFlight
<1>12. FailedStartLeavesNothing'
  BY DEF HandlerWakes, LoopTypeOK, DriverTypeOK, FailedStartLeavesNothing, CallsMove, loops,
    sources, nubVars, powerVars, history, Where, Starting, Releasing, Over, Loops, IrqState,
    GateState, CallStage, Cause, Fault, IsLoop, loopVars
<1>13. NotifyFollowsPower'
  BY DEF HandlerWakes, LoopTypeOK, DriverTypeOK, NotifyFollowsPower, CallsMove, loops,
    sources, nubVars, powerVars, history, Where, Starting, Releasing, Over, Loops, IrqState,
    GateState, CallStage, Cause, Fault, loopVars
<1> QED BY <1>1, <1>2, <1>3, <1>4, <1>5, <1>6, <1>7, <1>8, <1>9, <1>10, <1>11, <1>12, <1>13 DEF IInv

(* A thread of the nub runs. *)
LEMMA handleHostNotifyThreadedKeepsIInv ==
  ASSUME IInv, LoopInv, fault = "none", NEW c \in Call, handleHostNotifyThreaded(c) PROVE IInv'
<1> USE CallerAssumption, MaxLoopsAssumption DEF IInv, TypeOK
<1>1. LoopTypeOK'
  BY DEF handleHostNotifyThreaded, LoopTypeOK, DriverTypeOK, loops, sources, nubVars,
    powerVars, history, Where, Starting, Releasing, Over, Loops, IrqState, GateState,
    CallStage, Cause, Fault, loopVars
<1>2. DriverTypeOK'
  BY DEF handleHostNotifyThreaded, LoopTypeOK, DriverTypeOK, loops, sources, nubVars,
    powerVars, history, Where, Starting, Releasing, Over, Loops, IrqState, GateState,
    CallStage, Cause, Fault, loopVars
<1>3. MarkerExcludes'
  BY DEF handleHostNotifyThreaded, LoopTypeOK, DriverTypeOK, MarkerExcludes, loops, sources,
    nubVars, powerVars, history, Where, Starting, Releasing, Over, Loops, IrqState,
    GateState, CallStage, Cause, Fault, LoopGivenUp, Marker, loopVars, AfterLoop,
    BeforeLoop, Null
<1>4. LoopInUse'
  BY DEF handleHostNotifyThreaded, LoopTypeOK, DriverTypeOK, LoopInUse, loops, sources,
    nubVars, powerVars, history, Where, Starting, Releasing, Over, Loops, IrqState,
    GateState, CallStage, Cause, Fault, BeforeLoop, AfterLoop, IsLoop, Null, loopVars
<1>5. LoopCounted'
  BY DEF handleHostNotifyThreaded, LoopTypeOK, DriverTypeOK, LoopCounted, loops, sources,
    nubVars, powerVars, history, Where, Starting, Releasing, Over, Loops, IrqState,
    GateState, CallStage, Cause, Fault, AfterLoop, loopVars
<1>6. SourcesFollowLife'
  BY DEF handleHostNotifyThreaded, LoopTypeOK, DriverTypeOK, SourcesFollowLife, loops,
    sources, nubVars, powerVars, history, Where, Starting, Releasing, Over, Loops, IrqState,
    GateState, CallStage, Cause, Fault, WithPower, AfterLoop, loopVars
<1>7. PowerFollowsLife'
  BY DEF handleHostNotifyThreaded, LoopTypeOK, DriverTypeOK, PowerFollowsLife, loops,
    sources, nubVars, powerVars, history, Where, Starting, Releasing, Over, Loops, IrqState,
    GateState, CallStage, Cause, Fault, WithPower, AfterLoop, loopVars
<1>8. NubCounted'
  BY DEF handleHostNotifyThreaded, LoopTypeOK, DriverTypeOK, NubCounted, loops, sources,
    nubVars, powerVars, history, Where, Starting, Releasing, Over, Loops, IrqState,
    GateState, CallStage, Cause, Fault, WithoutNub, AfterLoop, TornDown, loopVars
<1>9. QuietBeforeAndAfter'
  BY DEF handleHostNotifyThreaded, LoopTypeOK, DriverTypeOK, QuietBeforeAndAfter, loops,
    sources, nubVars, powerVars, history, Where, Starting, Releasing, Over, Loops, IrqState,
    GateState, CallStage, Cause, Fault, WithoutNub, NothingRuns, TornDown, loopVars,
    InFlight, AfterLoop
<1>10. NotifyKept'
  BY DEF handleHostNotifyThreaded, LoopTypeOK, DriverTypeOK, NotifyKept, loops, sources,
    nubVars, powerVars, history, Where, Starting, Releasing, Over, Loops, IrqState,
    GateState, CallStage, Cause, Fault, TornDown, loopVars, AfterLoop
<1>11. MisuseHasACause'
  BY DEF handleHostNotifyThreaded, LoopTypeOK, DriverTypeOK, MisuseHasACause,
    QuietBeforeAndAfter, SourcesFollowLife, NubCounted, PowerFollowsLife, LoopInUse, loops,
    sources, nubVars, powerVars, history, Where, Starting, Releasing, Over, Loops, IrqState,
    GateState, CallStage, Cause, Fault, WithoutNub, NothingRuns, TornDown, WithPower,
    AfterLoop, BeforeLoop, IsLoop, Null, loopVars, InFlight
<1>12. FailedStartLeavesNothing'
  BY DEF handleHostNotifyThreaded, LoopTypeOK, DriverTypeOK, FailedStartLeavesNothing,
    loops, sources, nubVars, powerVars, history, Where, Starting, Releasing, Over, Loops,
    IrqState, GateState, CallStage, Cause, Fault, IsLoop, loopVars
<1>13. NotifyFollowsPower'
  BY DEF handleHostNotifyThreaded, LoopTypeOK, DriverTypeOK, NotifyFollowsPower, loops,
    sources, nubVars, powerVars, history, Where, Starting, Releasing, Over, Loops, IrqState,
    GateState, CallStage, Cause, Fault, loopVars
<1> QED BY <1>1, <1>2, <1>3, <1>4, <1>5, <1>6, <1>7, <1>8, <1>9, <1>10, <1>11, <1>12, <1>13 DEF IInv

(* The touchpad driver makes a call. *)
LEMMA ClientCallsKeepsIInv ==
  ASSUME IInv, LoopInv, fault = "none", NEW c \in Call, ClientCalls(c) PROVE IInv'
<1> USE CallerAssumption, MaxLoopsAssumption DEF IInv, TypeOK
<1>1. LoopTypeOK'
  BY DEF ClientCalls, LoopTypeOK, DriverTypeOK, loops, sources, nubVars, powerVars, history,
    Where, Starting, Releasing, Over, Loops, IrqState, GateState, CallStage, Cause, Fault,
    loopVars
<1>2. DriverTypeOK'
  BY DEF ClientCalls, LoopTypeOK, DriverTypeOK, loops, sources, nubVars, powerVars, history,
    Where, Starting, Releasing, Over, Loops, IrqState, GateState, CallStage, Cause, Fault,
    loopVars
<1>3. MarkerExcludes'
  BY DEF ClientCalls, LoopTypeOK, DriverTypeOK, MarkerExcludes, loops, sources, nubVars,
    powerVars, history, Where, Starting, Releasing, Over, Loops, IrqState, GateState,
    CallStage, Cause, Fault, LoopGivenUp, Marker, loopVars, AfterLoop, BeforeLoop, Null
<1>4. LoopInUse'
  BY DEF ClientCalls, LoopTypeOK, DriverTypeOK, LoopInUse, loops, sources, nubVars,
    powerVars, history, Where, Starting, Releasing, Over, Loops, IrqState, GateState,
    CallStage, Cause, Fault, BeforeLoop, AfterLoop, IsLoop, Null, loopVars
<1>5. LoopCounted'
  BY DEF ClientCalls, LoopTypeOK, DriverTypeOK, LoopCounted, loops, sources, nubVars,
    powerVars, history, Where, Starting, Releasing, Over, Loops, IrqState, GateState,
    CallStage, Cause, Fault, AfterLoop, loopVars
<1>6. SourcesFollowLife'
  BY DEF ClientCalls, LoopTypeOK, DriverTypeOK, SourcesFollowLife, loops, sources, nubVars,
    powerVars, history, Where, Starting, Releasing, Over, Loops, IrqState, GateState,
    CallStage, Cause, Fault, WithPower, AfterLoop, loopVars
<1>7. PowerFollowsLife'
  BY DEF ClientCalls, LoopTypeOK, DriverTypeOK, PowerFollowsLife, loops, sources, nubVars,
    powerVars, history, Where, Starting, Releasing, Over, Loops, IrqState, GateState,
    CallStage, Cause, Fault, WithPower, AfterLoop, loopVars
<1>8. NubCounted'
  BY DEF ClientCalls, LoopTypeOK, DriverTypeOK, NubCounted, loops, sources, nubVars,
    powerVars, history, Where, Starting, Releasing, Over, Loops, IrqState, GateState,
    CallStage, Cause, Fault, WithoutNub, AfterLoop, TornDown, loopVars
<1>9. QuietBeforeAndAfter'
  BY DEF ClientCalls, LoopTypeOK, DriverTypeOK, QuietBeforeAndAfter, SourcesFollowLife,
    NubCounted, PowerFollowsLife, loops, sources, nubVars, powerVars, history, Where,
    Starting, Releasing, Over, Loops, IrqState, GateState, CallStage, Cause, Fault,
    WithoutNub, NothingRuns, TornDown, WithPower, AfterLoop, loopVars, InFlight
<1>10. NotifyKept'
  BY DEF ClientCalls, LoopTypeOK, DriverTypeOK, NotifyKept, loops, sources, nubVars,
    powerVars, history, Where, Starting, Releasing, Over, Loops, IrqState, GateState,
    CallStage, Cause, Fault, TornDown, loopVars, AfterLoop
<1>11. MisuseHasACause'
  BY DEF ClientCalls, LoopTypeOK, DriverTypeOK, MisuseHasACause, loops, sources, nubVars,
    powerVars, history, Where, Starting, Releasing, Over, Loops, IrqState, GateState,
    CallStage, Cause, Fault, loopVars
<1>12. FailedStartLeavesNothing'
  BY DEF ClientCalls, LoopTypeOK, DriverTypeOK, FailedStartLeavesNothing, loops, sources,
    nubVars, powerVars, history, Where, Starting, Releasing, Over, Loops, IrqState,
    GateState, CallStage, Cause, Fault, IsLoop, loopVars
<1>13. NotifyFollowsPower'
  BY DEF ClientCalls, LoopTypeOK, DriverTypeOK, NotifyFollowsPower, loops, sources, nubVars,
    powerVars, history, Where, Starting, Releasing, Over, Loops, IrqState, GateState,
    CallStage, Cause, Fault, loopVars
<1> QED BY <1>1, <1>2, <1>3, <1>4, <1>5, <1>6, <1>7, <1>8, <1>9, <1>10, <1>11, <1>12, <1>13 DEF IInv

(* A call asks for the gate. *)
LEMMA transferKeepsIInv ==
  ASSUME IInv, LoopInv, fault = "none", NEW c \in Call, transfer(c) PROVE IInv'
<1> USE CallerAssumption, MaxLoopsAssumption DEF IInv, TypeOK, StartAndSleep, Leave
<1>1. LoopTypeOK'
  BY DEF transfer, LoopTypeOK, DriverTypeOK, GateFree, loops, sources, nubVars, powerVars,
    history, Where, Starting, Releasing, Over, Loops, IrqState, GateState, CallStage, Cause,
    Fault, loopVars
<1>2. DriverTypeOK'
  <2>1. hststs' \in BOOLEAN
    BY DEF DriverTypeOK, transfer
  <2>2. pc' \in [Call -> CallStage]
    BY DEF DriverTypeOK, transfer, CallStage
  <2>3. wire' \in SUBSET Call /\ fault' \in Fault
    BY DEF DriverTypeOK, transfer, Fault
  <2> QED BY <2>1, <2>2, <2>3 DEF DriverTypeOK, transfer, loops, sources, nubVars, powerVars, history
<1>3. MarkerExcludes'
  BY DEF transfer, LoopTypeOK, DriverTypeOK, MarkerExcludes, GateFree, loops, sources,
    nubVars, powerVars, history, Where, Starting, Releasing, Over, Loops, IrqState,
    GateState, CallStage, Cause, Fault, LoopGivenUp, Marker, loopVars, AfterLoop,
    BeforeLoop, Null
<1>4. LoopInUse'
  BY DEF transfer, LoopTypeOK, DriverTypeOK, LoopInUse, GateFree, loops, sources, nubVars,
    powerVars, history, Where, Starting, Releasing, Over, Loops, IrqState, GateState,
    CallStage, Cause, Fault, BeforeLoop, AfterLoop, IsLoop, Null, loopVars
<1>5. LoopCounted'
  BY DEF transfer, LoopTypeOK, DriverTypeOK, LoopCounted, GateFree, loops, sources, nubVars,
    powerVars, history, Where, Starting, Releasing, Over, Loops, IrqState, GateState,
    CallStage, Cause, Fault, AfterLoop, loopVars
<1>6. SourcesFollowLife'
  BY DEF transfer, LoopTypeOK, DriverTypeOK, SourcesFollowLife, GateFree, loops, sources,
    nubVars, powerVars, history, Where, Starting, Releasing, Over, Loops, IrqState,
    GateState, CallStage, Cause, Fault, WithPower, AfterLoop, loopVars
<1>7. PowerFollowsLife'
  BY DEF transfer, LoopTypeOK, DriverTypeOK, PowerFollowsLife, GateFree, loops, sources,
    nubVars, powerVars, history, Where, Starting, Releasing, Over, Loops, IrqState,
    GateState, CallStage, Cause, Fault, WithPower, AfterLoop, loopVars
<1>8. NubCounted'
  BY DEF transfer, LoopTypeOK, DriverTypeOK, NubCounted, GateFree, loops, sources, nubVars,
    powerVars, history, Where, Starting, Releasing, Over, Loops, IrqState, GateState,
    CallStage, Cause, Fault, WithoutNub, AfterLoop, TornDown, loopVars
<1>9. QuietBeforeAndAfter'
  BY DEF transfer, LoopTypeOK, DriverTypeOK, QuietBeforeAndAfter, GateFree, loops, sources,
    nubVars, powerVars, history, Where, Starting, Releasing, Over, Loops, IrqState,
    GateState, CallStage, Cause, Fault, WithoutNub, NothingRuns, TornDown, loopVars,
    InFlight, AfterLoop
<1>10. NotifyKept'
  BY DEF transfer, LoopTypeOK, DriverTypeOK, NotifyKept, GateFree, loops, sources, nubVars,
    powerVars, history, Where, Starting, Releasing, Over, Loops, IrqState, GateState,
    CallStage, Cause, Fault, TornDown, loopVars, AfterLoop
<1>11. MisuseHasACause'
  BY DEF transfer, LoopTypeOK, DriverTypeOK, MisuseHasACause, QuietBeforeAndAfter,
    SourcesFollowLife, NubCounted, PowerFollowsLife, LoopInUse, GateFree, loops, sources,
    nubVars, powerVars, history, Where, Starting, Releasing, Over, Loops, IrqState,
    GateState, CallStage, Cause, Fault, WithoutNub, NothingRuns, TornDown, WithPower,
    AfterLoop, BeforeLoop, IsLoop, Null, loopVars, InFlight
<1>12. FailedStartLeavesNothing'
  BY DEF transfer, LoopTypeOK, DriverTypeOK, FailedStartLeavesNothing, GateFree, loops,
    sources, nubVars, powerVars, history, Where, Starting, Releasing, Over, Loops, IrqState,
    GateState, CallStage, Cause, Fault, IsLoop, loopVars
<1>13. NotifyFollowsPower'
  BY DEF transfer, LoopTypeOK, DriverTypeOK, NotifyFollowsPower, GateFree, loops, sources,
    nubVars, powerVars, history, Where, Starting, Releasing, Over, Loops, IrqState,
    GateState, CallStage, Cause, Fault, loopVars
<1> QED BY <1>1, <1>2, <1>3, <1>4, <1>5, <1>6, <1>7, <1>8, <1>9, <1>10, <1>11, <1>12, <1>13 DEF IInv

(* A sleeper goes on. *)
LEMMA WakesUpKeepsIInv ==
  ASSUME IInv, LoopInv, fault = "none", NEW c \in Call, WakesUp(c) PROVE IInv'
<1> USE CallerAssumption, MaxLoopsAssumption DEF IInv, TypeOK, StartAndSleep, Leave
<1>1. LoopTypeOK'
  BY DEF WakesUp, LoopTypeOK, DriverTypeOK, GateFree, loops, sources, nubVars, powerVars,
    history, Where, Starting, Releasing, Over, Loops, IrqState, GateState, CallStage, Cause,
    Fault, loopVars
<1>2. DriverTypeOK'
  <2>1. hststs' \in BOOLEAN
    BY DEF DriverTypeOK, WakesUp
  <2>2. pc' \in [Call -> CallStage]
    BY DEF DriverTypeOK, WakesUp, CallStage
  <2>3. wire' \in SUBSET Call /\ fault' \in Fault
    BY DEF DriverTypeOK, WakesUp, Fault
  <2> QED BY <2>1, <2>2, <2>3 DEF DriverTypeOK, WakesUp, loops, sources, nubVars, powerVars, history
<1>3. MarkerExcludes'
  BY DEF WakesUp, LoopTypeOK, DriverTypeOK, MarkerExcludes, GateFree, loops, sources,
    nubVars, powerVars, history, Where, Starting, Releasing, Over, Loops, IrqState,
    GateState, CallStage, Cause, Fault, LoopGivenUp, Marker, loopVars, AfterLoop,
    BeforeLoop, Null
<1>4. LoopInUse'
  BY DEF WakesUp, LoopTypeOK, DriverTypeOK, LoopInUse, GateFree, loops, sources, nubVars,
    powerVars, history, Where, Starting, Releasing, Over, Loops, IrqState, GateState,
    CallStage, Cause, Fault, BeforeLoop, AfterLoop, IsLoop, Null, loopVars
<1>5. LoopCounted'
  BY DEF WakesUp, LoopTypeOK, DriverTypeOK, LoopCounted, GateFree, loops, sources, nubVars,
    powerVars, history, Where, Starting, Releasing, Over, Loops, IrqState, GateState,
    CallStage, Cause, Fault, AfterLoop, loopVars
<1>6. SourcesFollowLife'
  BY DEF WakesUp, LoopTypeOK, DriverTypeOK, SourcesFollowLife, GateFree, loops, sources,
    nubVars, powerVars, history, Where, Starting, Releasing, Over, Loops, IrqState,
    GateState, CallStage, Cause, Fault, WithPower, AfterLoop, loopVars
<1>7. PowerFollowsLife'
  BY DEF WakesUp, LoopTypeOK, DriverTypeOK, PowerFollowsLife, GateFree, loops, sources,
    nubVars, powerVars, history, Where, Starting, Releasing, Over, Loops, IrqState,
    GateState, CallStage, Cause, Fault, WithPower, AfterLoop, loopVars
<1>8. NubCounted'
  BY DEF WakesUp, LoopTypeOK, DriverTypeOK, NubCounted, GateFree, loops, sources, nubVars,
    powerVars, history, Where, Starting, Releasing, Over, Loops, IrqState, GateState,
    CallStage, Cause, Fault, WithoutNub, AfterLoop, TornDown, loopVars
<1>9. QuietBeforeAndAfter'
  BY DEF WakesUp, LoopTypeOK, DriverTypeOK, QuietBeforeAndAfter, GateFree, loops, sources,
    nubVars, powerVars, history, Where, Starting, Releasing, Over, Loops, IrqState,
    GateState, CallStage, Cause, Fault, WithoutNub, NothingRuns, TornDown, loopVars,
    InFlight, AfterLoop
<1>10. NotifyKept'
  BY DEF WakesUp, LoopTypeOK, DriverTypeOK, NotifyKept, GateFree, loops, sources, nubVars,
    powerVars, history, Where, Starting, Releasing, Over, Loops, IrqState, GateState,
    CallStage, Cause, Fault, TornDown, loopVars, AfterLoop
<1>11. MisuseHasACause'
  BY DEF WakesUp, LoopTypeOK, DriverTypeOK, MisuseHasACause, QuietBeforeAndAfter,
    SourcesFollowLife, NubCounted, PowerFollowsLife, LoopInUse, GateFree, loops, sources,
    nubVars, powerVars, history, Where, Starting, Releasing, Over, Loops, IrqState,
    GateState, CallStage, Cause, Fault, WithoutNub, NothingRuns, TornDown, WithPower,
    AfterLoop, BeforeLoop, IsLoop, Null, loopVars, InFlight
<1>12. FailedStartLeavesNothing'
  BY DEF WakesUp, LoopTypeOK, DriverTypeOK, FailedStartLeavesNothing, GateFree, loops,
    sources, nubVars, powerVars, history, Where, Starting, Releasing, Over, Loops, IrqState,
    GateState, CallStage, Cause, Fault, IsLoop, loopVars
<1>13. NotifyFollowsPower'
  BY DEF WakesUp, LoopTypeOK, DriverTypeOK, NotifyFollowsPower, GateFree, loops, sources,
    nubVars, powerVars, history, Where, Starting, Releasing, Over, Loops, IrqState,
    GateState, CallStage, Cause, Fault, loopVars
<1> QED BY <1>1, <1>2, <1>3, <1>4, <1>5, <1>6, <1>7, <1>8, <1>9, <1>10, <1>11, <1>12, <1>13 DEF IInv

(* A call of getWorkLoop makes a step. *)
LEMMA GetWorkLoopKeepsIInv ==
  ASSUME IInv, LoopInv, fault = "none", NEW c \in Caller, GetWorkLoop(c) PROVE IInv'
<1> USE CallerAssumption, MaxLoopsAssumption DEF IInv, TypeOK
<1>1. LoopTypeOK'
  BY LoopTypes DEF GetWorkLoop, LoopNext, InGetWorkLoop
<1>2. DriverTypeOK'
  BY DEF GetWorkLoop, LoopTypeOK, DriverTypeOK, getWorkLoop, CompareAndSwap, Spin, Return,
    sources, nubVars, powerVars, busVars, history, Where, Starting, Releasing, Over, Loops,
    IrqState, GateState, CallStage, Cause, Fault, IsLoop, Step, Null, Marker
<1>3. MarkerExcludes'
  BY DEF GetWorkLoop, LoopTypeOK, DriverTypeOK, MarkerExcludes, getWorkLoop, CompareAndSwap,
    Spin, Return, sources, nubVars, powerVars, busVars, history, Where, Starting, Releasing,
    Over, Loops, IrqState, GateState, CallStage, Cause, Fault, LoopGivenUp, Marker, IsLoop,
    Step, Null, AfterLoop, BeforeLoop
<1>4. LoopInUse'
  BY DEF GetWorkLoop, LoopTypeOK, DriverTypeOK, LoopInUse, getWorkLoop, CompareAndSwap,
    Spin, Return, sources, nubVars, powerVars, busVars, history, Where, Starting, Releasing,
    Over, Loops, IrqState, GateState, CallStage, Cause, Fault, BeforeLoop, AfterLoop,
    IsLoop, Null, Step, Marker
<1>5. LoopCounted'
  BY DEF GetWorkLoop, LoopTypeOK, DriverTypeOK, LoopCounted, getWorkLoop, CompareAndSwap,
    Spin, Return, sources, nubVars, powerVars, busVars, history, Where, Starting, Releasing,
    Over, Loops, IrqState, GateState, CallStage, Cause, Fault, AfterLoop, IsLoop, Step,
    Null, Marker
<1>6. SourcesFollowLife'
  BY DEF GetWorkLoop, LoopTypeOK, DriverTypeOK, SourcesFollowLife, getWorkLoop,
    CompareAndSwap, Spin, Return, sources, nubVars, powerVars, busVars, history, Where,
    Starting, Releasing, Over, Loops, IrqState, GateState, CallStage, Cause, Fault,
    WithPower, AfterLoop, IsLoop, Step, Null, Marker
<1>7. PowerFollowsLife'
  BY DEF GetWorkLoop, LoopTypeOK, DriverTypeOK, PowerFollowsLife, getWorkLoop,
    CompareAndSwap, Spin, Return, sources, nubVars, powerVars, busVars, history, Where,
    Starting, Releasing, Over, Loops, IrqState, GateState, CallStage, Cause, Fault,
    WithPower, AfterLoop, IsLoop, Step, Null, Marker
<1>8. NubCounted'
  BY DEF GetWorkLoop, LoopTypeOK, DriverTypeOK, NubCounted, getWorkLoop, CompareAndSwap,
    Spin, Return, sources, nubVars, powerVars, busVars, history, Where, Starting, Releasing,
    Over, Loops, IrqState, GateState, CallStage, Cause, Fault, WithoutNub, AfterLoop,
    TornDown, IsLoop, Step, Null, Marker
<1>9. QuietBeforeAndAfter'
  BY DEF GetWorkLoop, LoopTypeOK, DriverTypeOK, QuietBeforeAndAfter, getWorkLoop,
    CompareAndSwap, Spin, Return, sources, nubVars, powerVars, busVars, history, Where,
    Starting, Releasing, Over, Loops, IrqState, GateState, CallStage, Cause, Fault,
    WithoutNub, NothingRuns, TornDown, IsLoop, Step, Null, Marker, InFlight, AfterLoop
<1>10. NotifyKept'
  BY DEF GetWorkLoop, LoopTypeOK, DriverTypeOK, NotifyKept, getWorkLoop, CompareAndSwap,
    Spin, Return, sources, nubVars, powerVars, busVars, history, Where, Starting, Releasing,
    Over, Loops, IrqState, GateState, CallStage, Cause, Fault, TornDown, IsLoop, Step, Null,
    Marker, AfterLoop
<1>11. MisuseHasACause'
  BY DEF GetWorkLoop, LoopTypeOK, DriverTypeOK, MisuseHasACause, getWorkLoop,
    CompareAndSwap, Spin, Return, sources, nubVars, powerVars, busVars, history, Where,
    Starting, Releasing, Over, Loops, IrqState, GateState, CallStage, Cause, Fault, IsLoop,
    Step, Null, Marker
<1>12. FailedStartLeavesNothing'
  BY DEF GetWorkLoop, LoopTypeOK, DriverTypeOK, FailedStartLeavesNothing, getWorkLoop,
    CompareAndSwap, Spin, Return, sources, nubVars, powerVars, busVars, history, Where,
    Starting, Releasing, Over, Loops, IrqState, GateState, CallStage, Cause, Fault, IsLoop,
    Step, Null, Marker
<1>13. NotifyFollowsPower'
  BY DEF GetWorkLoop, LoopTypeOK, DriverTypeOK, NotifyFollowsPower, getWorkLoop,
    CompareAndSwap, Spin, Return, sources, nubVars, powerVars, busVars, history, Where,
    Starting, Releasing, Over, Loops, IrqState, GateState, CallStage, Cause, Fault, IsLoop,
    Step, Null, Marker
<1> QED BY <1>1, <1>2, <1>3, <1>4, <1>5, <1>6, <1>7, <1>8, <1>9, <1>10, <1>11, <1>12, <1>13 DEF IInv

(* It allocates a work loop. *)
LEMMA MakeWorkLoopKeepsIInv ==
  ASSUME IInv, LoopInv, fault = "none", NEW c \in Caller, MakeWorkLoop(c) PROVE IInv'
<1> USE CallerAssumption, MaxLoopsAssumption DEF IInv, TypeOK
<1>1. LoopTypeOK'
  BY LoopTypes DEF MakeWorkLoop, LoopNext, InGetWorkLoop
<1>2. DriverTypeOK'
  BY DEF MakeWorkLoop, LoopTypeOK, DriverTypeOK, Allocate, Loops, sources, nubVars,
    powerVars, busVars, history, Where, Starting, Releasing, Over, IrqState, GateState,
    CallStage, Cause, Fault, Step, Null
<1>3. MarkerExcludes'
  BY DEF MakeWorkLoop, LoopTypeOK, DriverTypeOK, MarkerExcludes, Allocate, Loops, sources,
    nubVars, powerVars, busVars, history, Where, Starting, Releasing, Over, IrqState,
    GateState, CallStage, Cause, Fault, LoopGivenUp, Marker, Step, Null, AfterLoop,
    BeforeLoop
<1>4. LoopInUse'
  <2>1. ~ LoopGivenUp => work_loop = Marker
    BY DEF MakeWorkLoop, Allocate, Step, MarkerExcludes
  <2>2. life \notin AfterLoop => ~ IsLoop(ret[Starter])
    BY <2>1 DEF LoopInUse, LoopGivenUp, Marker, Null, IsLoop, LoopTypeOK
  <2>3. ~ (life \in (Starting \cup {"up"}) \ (BeforeLoop \cup {"irq"}))
    BY <2>1 DEF LoopInUse, LoopGivenUp, Marker, IsLoop, Starting, BeforeLoop, AfterLoop
  <2>4. ~ (life \in Releasing /\ pm # "none")
    BY <2>1 DEF LoopInUse, LoopGivenUp, Marker, IsLoop, Releasing, AfterLoop
  <2>5. loc[Starter] = "returned" => loc'[Starter] = "returned"
    BY DEF MakeWorkLoop, Allocate, Step, LoopTypeOK
  <2>6. ret' = ret /\ life' = life /\ pm' = pm
    BY DEF MakeWorkLoop, Allocate, powerVars
  <2> QED BY <2>2, <2>3, <2>4, <2>5, <2>6 DEF LoopInUse
<1>5. LoopCounted'
  <2>1. ~ LoopGivenUp => work_loop = Marker
    BY DEF MakeWorkLoop, Allocate, Step, MarkerExcludes
  <2>2. life \notin AfterLoop => pm = "none"
    BY <2>1 DEF PowerFollowsLife, LoopInUse, LoopGivenUp, Marker, IsLoop, WithPower, Releasing,
      Starting, BeforeLoop, AfterLoop
  <2>3. life' = life /\ pm' = pm /\ made \in Nat /\ made' \in Nat /\ (made' = made \/ made' = made + 1)
    BY DEF MakeWorkLoop, Allocate, powerVars, LoopTypeOK
  <2>4. \A l \in Loops : loopRefs'[l] = IF l = made' + 1 /\ made' # made THEN 1 ELSE loopRefs[l]
    BY DEF MakeWorkLoop
  <2>5. ASSUME NEW l \in Loops, l > made' + 1 PROVE loopRefs'[l] = 0
    <3>1. l \in Nat
      BY MaxLoopsAssumption DEF Loops
    <3>2. l > made + 1 /\ l # made' + 1
      BY <2>3, <2>5, <3>1, OneMore, Zenon
    <3>3. loopRefs[l] = 0
      BY <3>2 DEF LoopCounted
    <3> QED BY <2>4, <3>2, <3>3
  <2>6. ASSUME NEW l \in Loops, life \notin AfterLoop, l <= made' + 1 PROVE loopRefs'[l] = 1
    <3>1. l \in Nat
      BY MaxLoopsAssumption DEF Loops
    <3>2. CASE l <= made + 1
      BY <2>2, <2>3, <2>4, <2>6, <3>2 DEF LoopCounted
    <3>3. CASE ~ (l <= made + 1)
      <4>1. l = made' + 1 /\ made' # made
        BY <2>3, <2>6, <3>3, <3>1, OneMore, Zenon
      <4> QED BY <2>4, <4>1
    <3> QED BY <3>2, <3>3
  <2> QED BY <2>2, <2>3, <2>5, <2>6 DEF LoopCounted
<1>6. SourcesFollowLife'
  BY DEF MakeWorkLoop, LoopTypeOK, DriverTypeOK, SourcesFollowLife, Allocate, Loops,
    sources, nubVars, powerVars, busVars, history, Where, Starting, Releasing, Over,
    IrqState, GateState, CallStage, Cause, Fault, WithPower, AfterLoop, Step, Null
<1>7. PowerFollowsLife'
  BY DEF MakeWorkLoop, LoopTypeOK, DriverTypeOK, PowerFollowsLife, Allocate, Loops, sources,
    nubVars, powerVars, busVars, history, Where, Starting, Releasing, Over, IrqState,
    GateState, CallStage, Cause, Fault, WithPower, AfterLoop, Step, Null
<1>8. NubCounted'
  BY DEF MakeWorkLoop, LoopTypeOK, DriverTypeOK, NubCounted, Allocate, Loops, sources,
    nubVars, powerVars, busVars, history, Where, Starting, Releasing, Over, IrqState,
    GateState, CallStage, Cause, Fault, WithoutNub, AfterLoop, TornDown, Step, Null
<1>9. QuietBeforeAndAfter'
  BY DEF MakeWorkLoop, LoopTypeOK, DriverTypeOK, QuietBeforeAndAfter, Allocate, Loops,
    sources, nubVars, powerVars, busVars, history, Where, Starting, Releasing, Over,
    IrqState, GateState, CallStage, Cause, Fault, WithoutNub, NothingRuns, TornDown, Step,
    Null, InFlight, AfterLoop
<1>10. NotifyKept'
  BY DEF MakeWorkLoop, LoopTypeOK, DriverTypeOK, NotifyKept, Allocate, Loops, sources,
    nubVars, powerVars, busVars, history, Where, Starting, Releasing, Over, IrqState,
    GateState, CallStage, Cause, Fault, TornDown, Step, Null, AfterLoop
<1>11. MisuseHasACause'
  BY DEF MakeWorkLoop, LoopTypeOK, DriverTypeOK, MisuseHasACause, Allocate, Loops, sources,
    nubVars, powerVars, busVars, history, Where, Starting, Releasing, Over, IrqState,
    GateState, CallStage, Cause, Fault, Step, Null
<1>12. FailedStartLeavesNothing'
  BY DEF MakeWorkLoop, LoopTypeOK, DriverTypeOK, FailedStartLeavesNothing, Allocate, Loops,
    sources, nubVars, powerVars, busVars, history, Where, Starting, Releasing, Over,
    IrqState, GateState, CallStage, Cause, Fault, IsLoop, Step, Null
<1>13. NotifyFollowsPower'
  BY DEF MakeWorkLoop, LoopTypeOK, DriverTypeOK, NotifyFollowsPower, Allocate, Loops,
    sources, nubVars, powerVars, busVars, history, Where, Starting, Releasing, Over,
    IrqState, GateState, CallStage, Cause, Fault, Step, Null
<1> QED BY <1>1, <1>2, <1>3, <1>4, <1>5, <1>6, <1>7, <1>8, <1>9, <1>10, <1>11, <1>12, <1>13 DEF IInv

(* The touchpad driver is attached. *)
LEMMA ClientAttachesKeepsIInv ==
  ASSUME IInv, LoopInv, fault = "none", ClientAttaches PROVE IInv'
<1> USE CallerAssumption, MaxLoopsAssumption DEF IInv, TypeOK
<1>1. LoopTypeOK'
  BY DEF ClientAttaches, LoopTypeOK, DriverTypeOK, Starting, loops, sources, powerVars,
    busVars, history, Where, Releasing, Over, Loops, IrqState, GateState, CallStage, Cause,
    Fault, loopVars
<1>2. DriverTypeOK'
  <2>1. nubRefs' \in 0..4
    BY DEF ClientAttaches, NubCounted
  <2> QED BY <2>1 DEF DriverTypeOK, ClientAttaches, loops, sources, powerVars, busVars, history
<1>3. MarkerExcludes'
  BY DEF ClientAttaches, LoopTypeOK, DriverTypeOK, MarkerExcludes, Starting, loops, sources,
    powerVars, busVars, history, Where, Releasing, Over, Loops, IrqState, GateState,
    CallStage, Cause, Fault, LoopGivenUp, Marker, loopVars, AfterLoop, BeforeLoop, Null
<1>4. LoopInUse'
  BY DEF ClientAttaches, LoopTypeOK, DriverTypeOK, LoopInUse, Starting, loops, sources,
    powerVars, busVars, history, Where, Releasing, Over, Loops, IrqState, GateState,
    CallStage, Cause, Fault, BeforeLoop, AfterLoop, IsLoop, Null, loopVars
<1>5. LoopCounted'
  BY DEF ClientAttaches, LoopTypeOK, DriverTypeOK, LoopCounted, Starting, loops, sources,
    powerVars, busVars, history, Where, Releasing, Over, Loops, IrqState, GateState,
    CallStage, Cause, Fault, AfterLoop, loopVars
<1>6. SourcesFollowLife'
  BY DEF ClientAttaches, LoopTypeOK, DriverTypeOK, SourcesFollowLife, Starting, loops,
    sources, powerVars, busVars, history, Where, Releasing, Over, Loops, IrqState,
    GateState, CallStage, Cause, Fault, WithPower, AfterLoop, loopVars
<1>7. PowerFollowsLife'
  BY DEF ClientAttaches, LoopTypeOK, DriverTypeOK, PowerFollowsLife, Starting, loops,
    sources, powerVars, busVars, history, Where, Releasing, Over, Loops, IrqState,
    GateState, CallStage, Cause, Fault, WithPower, AfterLoop, loopVars
<1>8. NubCounted'
  BY DEF ClientAttaches, LoopTypeOK, DriverTypeOK, NubCounted, Starting, loops, sources,
    powerVars, busVars, history, Where, Releasing, Over, Loops, IrqState, GateState,
    CallStage, Cause, Fault, WithoutNub, AfterLoop, TornDown, loopVars
<1>9. QuietBeforeAndAfter'
  BY DEF ClientAttaches, LoopTypeOK, DriverTypeOK, QuietBeforeAndAfter, Starting, loops,
    sources, powerVars, busVars, history, Where, Releasing, Over, Loops, IrqState,
    GateState, CallStage, Cause, Fault, WithoutNub, NothingRuns, TornDown, loopVars,
    InFlight, AfterLoop
<1>10. NotifyKept'
  BY DEF ClientAttaches, LoopTypeOK, DriverTypeOK, NotifyKept, Starting, loops, sources,
    powerVars, busVars, history, Where, Releasing, Over, Loops, IrqState, GateState,
    CallStage, Cause, Fault, TornDown, loopVars, AfterLoop
<1>11. MisuseHasACause'
  BY DEF ClientAttaches, LoopTypeOK, DriverTypeOK, MisuseHasACause, Starting, loops,
    sources, powerVars, busVars, history, Where, Releasing, Over, Loops, IrqState,
    GateState, CallStage, Cause, Fault, loopVars
<1>12. FailedStartLeavesNothing'
  BY DEF ClientAttaches, LoopTypeOK, DriverTypeOK, FailedStartLeavesNothing, Starting,
    loops, sources, powerVars, busVars, history, Where, Releasing, Over, Loops, IrqState,
    GateState, CallStage, Cause, Fault, IsLoop, loopVars
<1>13. NotifyFollowsPower'
  BY DEF ClientAttaches, LoopTypeOK, DriverTypeOK, NotifyFollowsPower, Starting, loops,
    sources, powerVars, busVars, history, Where, Releasing, Over, Loops, IrqState,
    GateState, CallStage, Cause, Fault, loopVars
<1> QED BY <1>1, <1>2, <1>3, <1>4, <1>5, <1>6, <1>7, <1>8, <1>9, <1>10, <1>11, <1>12, <1>13 DEF IInv

(* It is detached. *)
LEMMA ClientDetachesKeepsIInv ==
  ASSUME IInv, LoopInv, fault = "none", ClientDetaches PROVE IInv'
<1> USE CallerAssumption, MaxLoopsAssumption DEF IInv, TypeOK
<1>1. LoopTypeOK'
  BY DEF ClientDetaches, LoopTypeOK, DriverTypeOK, loops, sources, powerVars, busVars,
    history, Where, Starting, Releasing, Over, Loops, IrqState, GateState, CallStage, Cause,
    Fault, loopVars
<1>2. DriverTypeOK'
  <2>1. nubRefs' \in 0..4
    BY DEF ClientDetaches, NubCounted
  <2> QED BY <2>1 DEF DriverTypeOK, ClientDetaches, loops, sources, powerVars, busVars, history
<1>3. MarkerExcludes'
  BY DEF ClientDetaches, LoopTypeOK, DriverTypeOK, MarkerExcludes, loops, sources,
    powerVars, busVars, history, Where, Starting, Releasing, Over, Loops, IrqState,
    GateState, CallStage, Cause, Fault, LoopGivenUp, Marker, loopVars, AfterLoop,
    BeforeLoop, Null
<1>4. LoopInUse'
  BY DEF ClientDetaches, LoopTypeOK, DriverTypeOK, LoopInUse, loops, sources, powerVars,
    busVars, history, Where, Starting, Releasing, Over, Loops, IrqState, GateState,
    CallStage, Cause, Fault, BeforeLoop, AfterLoop, IsLoop, Null, loopVars
<1>5. LoopCounted'
  BY DEF ClientDetaches, LoopTypeOK, DriverTypeOK, LoopCounted, loops, sources, powerVars,
    busVars, history, Where, Starting, Releasing, Over, Loops, IrqState, GateState,
    CallStage, Cause, Fault, AfterLoop, loopVars
<1>6. SourcesFollowLife'
  BY DEF ClientDetaches, LoopTypeOK, DriverTypeOK, SourcesFollowLife, loops, sources,
    powerVars, busVars, history, Where, Starting, Releasing, Over, Loops, IrqState,
    GateState, CallStage, Cause, Fault, WithPower, AfterLoop, loopVars
<1>7. PowerFollowsLife'
  BY DEF ClientDetaches, LoopTypeOK, DriverTypeOK, PowerFollowsLife, loops, sources,
    powerVars, busVars, history, Where, Starting, Releasing, Over, Loops, IrqState,
    GateState, CallStage, Cause, Fault, WithPower, AfterLoop, loopVars
<1>8. NubCounted'
  BY DEF ClientDetaches, LoopTypeOK, DriverTypeOK, NubCounted, loops, sources, powerVars,
    busVars, history, Where, Starting, Releasing, Over, Loops, IrqState, GateState,
    CallStage, Cause, Fault, WithoutNub, AfterLoop, TornDown, loopVars
<1>9. QuietBeforeAndAfter'
  BY DEF ClientDetaches, LoopTypeOK, DriverTypeOK, QuietBeforeAndAfter, loops, sources,
    powerVars, busVars, history, Where, Starting, Releasing, Over, Loops, IrqState,
    GateState, CallStage, Cause, Fault, WithoutNub, NothingRuns, TornDown, loopVars,
    InFlight, AfterLoop
<1>10. NotifyKept'
  BY DEF ClientDetaches, LoopTypeOK, DriverTypeOK, NotifyKept, loops, sources, powerVars,
    busVars, history, Where, Starting, Releasing, Over, Loops, IrqState, GateState,
    CallStage, Cause, Fault, TornDown, loopVars, AfterLoop
<1>11. MisuseHasACause'
  BY DEF ClientDetaches, LoopTypeOK, DriverTypeOK, MisuseHasACause, loops, sources,
    powerVars, busVars, history, Where, Starting, Releasing, Over, Loops, IrqState,
    GateState, CallStage, Cause, Fault, loopVars
<1>12. FailedStartLeavesNothing'
  BY DEF ClientDetaches, LoopTypeOK, DriverTypeOK, FailedStartLeavesNothing, loops, sources,
    powerVars, busVars, history, Where, Starting, Releasing, Over, Loops, IrqState,
    GateState, CallStage, Cause, Fault, IsLoop, loopVars
<1>13. NotifyFollowsPower'
  BY DEF ClientDetaches, LoopTypeOK, DriverTypeOK, NotifyFollowsPower, loops, sources,
    powerVars, busVars, history, Where, Starting, Releasing, Over, Loops, IrqState,
    GateState, CallStage, Cause, Fault, loopVars
<1> QED BY <1>1, <1>2, <1>3, <1>4, <1>5, <1>6, <1>7, <1>8, <1>9, <1>10, <1>11, <1>12, <1>13 DEF IInv

(* A transaction ends. *)
LEMMA HostCompletesKeepsIInv ==
  ASSUME IInv, LoopInv, fault = "none", HostCompletes PROVE IInv'
<1> USE CallerAssumption, MaxLoopsAssumption DEF IInv, TypeOK
<1>1. LoopTypeOK'
  BY DEF HostCompletes, LoopTypeOK, DriverTypeOK, loops, sources, nubVars, powerVars,
    history, Where, Starting, Releasing, Over, Loops, IrqState, GateState, CallStage, Cause,
    Fault, loopVars
<1>2. DriverTypeOK'
  BY DEF HostCompletes, LoopTypeOK, DriverTypeOK, loops, sources, nubVars, powerVars,
    history, Where, Starting, Releasing, Over, Loops, IrqState, GateState, CallStage, Cause,
    Fault, loopVars
<1>3. MarkerExcludes'
  BY DEF HostCompletes, LoopTypeOK, DriverTypeOK, MarkerExcludes, loops, sources, nubVars,
    powerVars, history, Where, Starting, Releasing, Over, Loops, IrqState, GateState,
    CallStage, Cause, Fault, LoopGivenUp, Marker, loopVars, AfterLoop, BeforeLoop, Null
<1>4. LoopInUse'
  BY DEF HostCompletes, LoopTypeOK, DriverTypeOK, LoopInUse, loops, sources, nubVars,
    powerVars, history, Where, Starting, Releasing, Over, Loops, IrqState, GateState,
    CallStage, Cause, Fault, BeforeLoop, AfterLoop, IsLoop, Null, loopVars
<1>5. LoopCounted'
  BY DEF HostCompletes, LoopTypeOK, DriverTypeOK, LoopCounted, loops, sources, nubVars,
    powerVars, history, Where, Starting, Releasing, Over, Loops, IrqState, GateState,
    CallStage, Cause, Fault, AfterLoop, loopVars
<1>6. SourcesFollowLife'
  BY DEF HostCompletes, LoopTypeOK, DriverTypeOK, SourcesFollowLife, loops, sources,
    nubVars, powerVars, history, Where, Starting, Releasing, Over, Loops, IrqState,
    GateState, CallStage, Cause, Fault, WithPower, AfterLoop, loopVars
<1>7. PowerFollowsLife'
  BY DEF HostCompletes, LoopTypeOK, DriverTypeOK, PowerFollowsLife, loops, sources, nubVars,
    powerVars, history, Where, Starting, Releasing, Over, Loops, IrqState, GateState,
    CallStage, Cause, Fault, WithPower, AfterLoop, loopVars
<1>8. NubCounted'
  BY DEF HostCompletes, LoopTypeOK, DriverTypeOK, NubCounted, loops, sources, nubVars,
    powerVars, history, Where, Starting, Releasing, Over, Loops, IrqState, GateState,
    CallStage, Cause, Fault, WithoutNub, AfterLoop, TornDown, loopVars
<1>9. QuietBeforeAndAfter'
  BY DEF HostCompletes, LoopTypeOK, DriverTypeOK, QuietBeforeAndAfter, loops, sources,
    nubVars, powerVars, history, Where, Starting, Releasing, Over, Loops, IrqState,
    GateState, CallStage, Cause, Fault, WithoutNub, NothingRuns, TornDown, loopVars,
    InFlight, AfterLoop
<1>10. NotifyKept'
  BY DEF HostCompletes, LoopTypeOK, DriverTypeOK, NotifyKept, loops, sources, nubVars,
    powerVars, history, Where, Starting, Releasing, Over, Loops, IrqState, GateState,
    CallStage, Cause, Fault, TornDown, loopVars, AfterLoop
<1>11. MisuseHasACause'
  BY DEF HostCompletes, LoopTypeOK, DriverTypeOK, MisuseHasACause, loops, sources, nubVars,
    powerVars, history, Where, Starting, Releasing, Over, Loops, IrqState, GateState,
    CallStage, Cause, Fault, loopVars
<1>12. FailedStartLeavesNothing'
  BY DEF HostCompletes, LoopTypeOK, DriverTypeOK, FailedStartLeavesNothing, loops, sources,
    nubVars, powerVars, history, Where, Starting, Releasing, Over, Loops, IrqState,
    GateState, CallStage, Cause, Fault, IsLoop, loopVars
<1>13. NotifyFollowsPower'
  BY DEF HostCompletes, LoopTypeOK, DriverTypeOK, NotifyFollowsPower, loops, sources,
    nubVars, powerVars, history, Where, Starting, Releasing, Over, Loops, IrqState,
    GateState, CallStage, Cause, Fault, loopVars
<1> QED BY <1>1, <1>2, <1>3, <1>4, <1>5, <1>6, <1>7, <1>8, <1>9, <1>10, <1>11, <1>12, <1>13 DEF IInv

(* A host notify comes in. *)
LEMMA TouchpadNotifiesKeepsIInv ==
  ASSUME IInv, LoopInv, fault = "none", TouchpadNotifies PROVE IInv'
<1> USE CallerAssumption, MaxLoopsAssumption DEF IInv, TypeOK
<1>1. LoopTypeOK'
  BY DEF TouchpadNotifies, LoopTypeOK, DriverTypeOK, Releasing, loops, sources, nubVars,
    powerVars, Where, Starting, Over, Loops, IrqState, GateState, CallStage, Cause, Fault,
    loopVars
<1>2. DriverTypeOK'
  BY DEF TouchpadNotifies, LoopTypeOK, DriverTypeOK, Releasing, loops, sources, nubVars,
    powerVars, Where, Starting, Over, Loops, IrqState, GateState, CallStage, Cause, Fault,
    loopVars
<1>3. MarkerExcludes'
  BY DEF TouchpadNotifies, LoopTypeOK, DriverTypeOK, MarkerExcludes, Releasing, loops,
    sources, nubVars, powerVars, Where, Starting, Over, Loops, IrqState, GateState,
    CallStage, Cause, Fault, LoopGivenUp, Marker, loopVars, AfterLoop, BeforeLoop, Null
<1>4. LoopInUse'
  BY DEF TouchpadNotifies, LoopTypeOK, DriverTypeOK, LoopInUse, Releasing, loops, sources,
    nubVars, powerVars, Where, Starting, Over, Loops, IrqState, GateState, CallStage, Cause,
    Fault, BeforeLoop, AfterLoop, IsLoop, Null, loopVars
<1>5. LoopCounted'
  BY DEF TouchpadNotifies, LoopTypeOK, DriverTypeOK, LoopCounted, Releasing, loops, sources,
    nubVars, powerVars, Where, Starting, Over, Loops, IrqState, GateState, CallStage, Cause,
    Fault, AfterLoop, loopVars
<1>6. SourcesFollowLife'
  BY DEF TouchpadNotifies, LoopTypeOK, DriverTypeOK, SourcesFollowLife, Releasing, loops,
    sources, nubVars, powerVars, Where, Starting, Over, Loops, IrqState, GateState,
    CallStage, Cause, Fault, WithPower, AfterLoop, loopVars
<1>7. PowerFollowsLife'
  BY DEF TouchpadNotifies, LoopTypeOK, DriverTypeOK, PowerFollowsLife, Releasing, loops,
    sources, nubVars, powerVars, Where, Starting, Over, Loops, IrqState, GateState,
    CallStage, Cause, Fault, WithPower, AfterLoop, loopVars
<1>8. NubCounted'
  BY DEF TouchpadNotifies, LoopTypeOK, DriverTypeOK, NubCounted, Releasing, loops, sources,
    nubVars, powerVars, Where, Starting, Over, Loops, IrqState, GateState, CallStage, Cause,
    Fault, WithoutNub, AfterLoop, TornDown, loopVars
<1>9. QuietBeforeAndAfter'
  BY DEF TouchpadNotifies, LoopTypeOK, DriverTypeOK, QuietBeforeAndAfter, Releasing, loops,
    sources, nubVars, powerVars, Where, Starting, Over, Loops, IrqState, GateState,
    CallStage, Cause, Fault, WithoutNub, NothingRuns, TornDown, loopVars, InFlight,
    AfterLoop
<1>10. NotifyKept'
  BY DEF TouchpadNotifies, LoopTypeOK, DriverTypeOK, NotifyKept, Releasing, loops, sources,
    nubVars, powerVars, Where, Starting, Over, Loops, IrqState, GateState, CallStage, Cause,
    Fault, TornDown, loopVars, AfterLoop
<1>11. MisuseHasACause'
  BY DEF TouchpadNotifies, LoopTypeOK, DriverTypeOK, MisuseHasACause, Releasing, loops,
    sources, nubVars, powerVars, Where, Starting, Over, Loops, IrqState, GateState,
    CallStage, Cause, Fault, loopVars
<1>12. FailedStartLeavesNothing'
  BY DEF TouchpadNotifies, LoopTypeOK, DriverTypeOK, FailedStartLeavesNothing, Releasing,
    loops, sources, nubVars, powerVars, Where, Starting, Over, Loops, IrqState, GateState,
    CallStage, Cause, Fault, IsLoop, loopVars
<1>13. NotifyFollowsPower'
  BY DEF TouchpadNotifies, LoopTypeOK, DriverTypeOK, NotifyFollowsPower, Releasing, loops,
    sources, nubVars, powerVars, Where, Starting, Over, Loops, IrqState, GateState,
    CallStage, Cause, Fault, loopVars
<1> QED BY <1>1, <1>2, <1>3, <1>4, <1>5, <1>6, <1>7, <1>8, <1>9, <1>10, <1>11, <1>12, <1>13 DEF IInv

(* The host loses power. *)
LEMMA PowerIsLostKeepsIInv ==
  ASSUME IInv, LoopInv, fault = "none", PowerIsLost PROVE IInv'
<1> USE CallerAssumption, MaxLoopsAssumption DEF IInv, TypeOK
<1>1. LoopTypeOK'
  BY DEF PowerIsLost, LoopTypeOK, DriverTypeOK, GateFree, loops, sources, nubVars, history,
    Where, Starting, Releasing, Over, Loops, IrqState, GateState, CallStage, Cause, Fault,
    loopVars
<1>2. DriverTypeOK'
  <2>1. intren' \in BOOLEAN
    BY DEF DriverTypeOK, PowerIsLost
  <2>2. hststs' \in BOOLEAN /\ ntfy' \in BOOLEAN
    BY DEF PowerIsLost
  <2>3. wire' \in SUBSET Call
    BY DEF PowerIsLost
  <2> QED BY <2>1, <2>2, <2>3 DEF DriverTypeOK, PowerIsLost, loops, sources, nubVars, history
<1>3. MarkerExcludes'
  BY DEF PowerIsLost, LoopTypeOK, DriverTypeOK, MarkerExcludes, GateFree, loops, sources,
    nubVars, history, Where, Starting, Releasing, Over, Loops, IrqState, GateState,
    CallStage, Cause, Fault, LoopGivenUp, Marker, loopVars, AfterLoop, BeforeLoop, Null
<1>4. LoopInUse'
  BY DEF PowerIsLost, LoopTypeOK, DriverTypeOK, LoopInUse, GateFree, loops, sources,
    nubVars, history, Where, Starting, Releasing, Over, Loops, IrqState, GateState,
    CallStage, Cause, Fault, BeforeLoop, AfterLoop, IsLoop, Null, loopVars
<1>5. LoopCounted'
  BY DEF PowerIsLost, LoopTypeOK, DriverTypeOK, LoopCounted, GateFree, loops, sources,
    nubVars, history, Where, Starting, Releasing, Over, Loops, IrqState, GateState,
    CallStage, Cause, Fault, AfterLoop, loopVars
<1>6. SourcesFollowLife'
  BY DEF PowerIsLost, LoopTypeOK, DriverTypeOK, SourcesFollowLife, GateFree, loops, sources,
    nubVars, history, Where, Starting, Releasing, Over, Loops, IrqState, GateState,
    CallStage, Cause, Fault, WithPower, AfterLoop, loopVars
<1>7. PowerFollowsLife'
  BY DEF PowerIsLost, LoopTypeOK, DriverTypeOK, PowerFollowsLife, GateFree, loops, sources,
    nubVars, history, Where, Starting, Releasing, Over, Loops, IrqState, GateState,
    CallStage, Cause, Fault, WithPower, AfterLoop, loopVars
<1>8. NubCounted'
  BY DEF PowerIsLost, LoopTypeOK, DriverTypeOK, NubCounted, GateFree, loops, sources,
    nubVars, history, Where, Starting, Releasing, Over, Loops, IrqState, GateState,
    CallStage, Cause, Fault, WithoutNub, AfterLoop, TornDown, loopVars
<1>9. QuietBeforeAndAfter'
  BY DEF PowerIsLost, LoopTypeOK, DriverTypeOK, QuietBeforeAndAfter, GateFree, loops,
    sources, nubVars, history, Where, Starting, Releasing, Over, Loops, IrqState, GateState,
    CallStage, Cause, Fault, WithoutNub, NothingRuns, TornDown, loopVars, InFlight,
    AfterLoop
<1>10. NotifyKept'
  <2>1. ~ original => ~ intren'
    BY DEF DriverTypeOK, PowerIsLost
  <2>2. original => intren \in BOOLEAN
    BY DEF DriverTypeOK
  <2> QED BY <2>1, <2>2 DEF PowerIsLost, NotifyKept, history
<1>11. MisuseHasACause'
  BY DEF PowerIsLost, LoopTypeOK, DriverTypeOK, MisuseHasACause, GateFree, loops, sources,
    nubVars, history, Where, Starting, Releasing, Over, Loops, IrqState, GateState,
    CallStage, Cause, Fault, loopVars
<1>12. FailedStartLeavesNothing'
  BY DEF PowerIsLost, LoopTypeOK, DriverTypeOK, FailedStartLeavesNothing, GateFree, loops,
    sources, nubVars, history, Where, Starting, Releasing, Over, Loops, IrqState, GateState,
    CallStage, Cause, Fault, IsLoop, loopVars
<1>13. NotifyFollowsPower'
  BY DEF PowerIsLost, LoopTypeOK, DriverTypeOK, NotifyFollowsPower, GateFree, loops,
    sources, nubVars, history, Where, Starting, Releasing, Over, Loops, IrqState, GateState,
    CallStage, Cause, Fault, loopVars
<1> QED BY <1>1, <1>2, <1>3, <1>4, <1>5, <1>6, <1>7, <1>8, <1>9, <1>10, <1>11, <1>12, <1>13 DEF IInv

(* Nothing happens, or nothing more after a fault. *)
LEMMA StutterKeepsIInv == ASSUME IInv, UNCHANGED vars PROVE IInv'
<1> USE DEF IInv, TypeOK, vars, loops, loopVars, sources, nubVars, powerVars, busVars, history
<1>1. LoopTypeOK' /\ DriverTypeOK'
  BY DEF LoopTypeOK, DriverTypeOK
<1>2. MarkerExcludes' /\ LoopInUse' /\ LoopCounted'
  BY DEF MarkerExcludes, LoopGivenUp, LoopInUse, LoopCounted
<1>3. SourcesFollowLife' /\ PowerFollowsLife' /\ NubCounted'
  BY DEF SourcesFollowLife, PowerFollowsLife, NubCounted
<1>4. QuietBeforeAndAfter' /\ NotifyKept'
  BY DEF QuietBeforeAndAfter, NothingRuns, InFlight, NotifyKept
<1>5. MisuseHasACause' /\ FailedStartLeavesNothing' /\ NotifyFollowsPower'
  BY DEF MisuseHasACause, FailedStartLeavesNothing, NotifyFollowsPower
<1> QED BY <1>1, <1>2, <1>3, <1>4, <1>5

-----------------------------------------------------------------------------

(* The driver uses work_loop as WorkLoopInit says. *)
THEOREM UsesWorkLoop == Spec => LoopSpec
<1>1. Init => LoopInit
  BY DEF Init
<1>2. [Next]_vars => [LoopNext]_loopVars
  <2> SUFFICES ASSUME Next PROVE LoopNext \/ UNCHANGED loopVars
    BY DEF vars, loops
  <2> USE DEF loops
  <2>1. CASE start
    BY <2>1 DEF start, StartRefuses, StartOpens, StartGetsLoop, StartAddsInterrupt, StartAddsGate,
      StartJoinsPower, publishNub, StartEnablesInterrupt, StartEnablesNotify, LoopNext
  <2>2. CASE stop \/ releaseResources \/ PMstop
    BY <2>2 DEF stop, releaseResources, ReleaseQuiet, ReleaseNubs, ReleaseGate,
      ReleaseGateObject, ReleaseInterrupt, ReleaseLoop, PMstop, LoopNext
  <2>3. CASE setPowerState
    BY <2>3 DEF setPowerState, PowerOffNotify, PowerOffGate, PowerOnGate, PowerOnNotify
  <2>4. CASE handleInterrupt
    BY <2>4 DEF handleInterrupt, HandlerFindsNub, HandlerNotifiesNub, HandlerClears, HandlerWakes
  <2>5. ASSUME NEW c \in Call, CallSteps(c) PROVE UNCHANGED loopVars
    BY <2>5 DEF CallSteps, handleHostNotifyThreaded, ClientCalls, transfer, WakesUp
  <2>6. ASSUME NEW c \in Caller, GetWorkLoop(c) \/ MakeWorkLoop(c) PROVE LoopNext
    BY <2>6 DEF GetWorkLoop, MakeWorkLoop, LoopNext, InGetWorkLoop
  <2>7. CASE Environment
    BY <2>7 DEF Environment, ClientAttaches, ClientDetaches, HostCompletes, TouchpadNotifies,
      PowerIsLost
  <2> QED BY <2>1, <2>2, <2>3, <2>4, <2>5, <2>6, <2>7 DEF Next, Alive
<1> QED BY <1>1, <1>2, PTL DEF Spec, LoopSpec

(* Threads that meet in getWorkLoop get the same work loop, also while the *)
(* driver starts and stops.                                                *)
THEOREM DriverSharesWorkLoop == Spec => []OneWorkLoop
BY UsesWorkLoop, ThreadsShareWorkLoop, PTL

(* The inductive invariant: how far start and releaseResources have got,   *)
(* in what is there, what is counted and what may still run.               *)
THEOREM Invariance == Spec => []IInv
<1>1. Init => IInv
  BY InitIInv
<1>2. IInv /\ LoopInv /\ [Next]_vars => IInv'
  <2> SUFFICES ASSUME IInv, LoopInv, [Next]_vars PROVE IInv'
    OBVIOUS
  <2>1. CASE UNCHANGED vars
    BY <2>1, StutterKeepsIInv
  <2>2. CASE fault = "none" /\ Alive
    <3> USE <2>2
    <3>1. CASE start
      BY <3>1, StartRefusesKeepsIInv, StartOpensKeepsIInv, StartGetsLoopKeepsIInv,
        StartAddsInterruptKeepsIInv, StartAddsGateKeepsIInv, StartJoinsPowerKeepsIInv,
        publishNubKeepsIInv, StartEnablesInterruptKeepsIInv, StartEnablesNotifyKeepsIInv
        DEF start
    <3>2. CASE stop \/ releaseResources \/ PMstop
      BY <3>2, stopKeepsIInv, ReleaseQuietKeepsIInv, ReleaseNubsKeepsIInv,
        ReleaseGateKeepsIInv, ReleaseGateObjectKeepsIInv, ReleaseInterruptKeepsIInv,
        ReleaseLoopKeepsIInv, PMstopKeepsIInv DEF releaseResources
    <3>3. CASE setPowerState
      BY <3>3, PowerOffNotifyKeepsIInv, PowerOffGateKeepsIInv, PowerOnGateKeepsIInv,
        PowerOnNotifyKeepsIInv DEF setPowerState
    <3>4. CASE handleInterrupt
      BY <3>4, HandlerFindsNubKeepsIInv, HandlerNotifiesNubKeepsIInv, HandlerClearsKeepsIInv,
        HandlerWakesKeepsIInv DEF handleInterrupt
    <3>5. ASSUME NEW c \in Call, CallSteps(c) PROVE IInv'
      BY <3>5, handleHostNotifyThreadedKeepsIInv, ClientCallsKeepsIInv, transferKeepsIInv,
        WakesUpKeepsIInv DEF CallSteps
    <3>6. ASSUME NEW c \in Caller, GetWorkLoop(c) \/ MakeWorkLoop(c) PROVE IInv'
      BY <3>6, GetWorkLoopKeepsIInv, MakeWorkLoopKeepsIInv
    <3>7. CASE Environment
      BY <3>7, ClientAttachesKeepsIInv, ClientDetachesKeepsIInv, HostCompletesKeepsIInv,
        TouchpadNotifiesKeepsIInv, PowerIsLostKeepsIInv DEF Environment
    <3> QED BY <3>1, <3>2, <3>3, <3>4, <3>5, <3>6, <3>7 DEF Alive
  <2> QED BY <2>1, <2>2 DEF Next
<1>3. Spec => []LoopInv
  BY UsesWorkLoop, LoopInvariance, PTL
<1> QED BY <1>1, <1>2, <1>3, PTL DEF Spec

(* Nothing that is gone is used, but for the causes named. *)
THEOREM MisusesHaveACause == Spec => []MisuseHasACause
<1>1. IInv => MisuseHasACause
  BY DEF IInv
<1> QED BY <1>1, Invariance, PTL

(* A nub the driver still lists is held by the registry and the list,      *)
(* whatever the touchpad driver has given back.                            *)
THEOREM NubsAreKept == Spec => []NubKept
<1>1. IInv => NubKept
  BY DEF IInv, NubCounted, NubKept
<1> QED BY <1>1, Invariance, PTL

(* A start that fails leaves neither event sources nor a work loop nor the *)
(* PCI device open behind.                                                 *)
THEOREM FailedStartsLeaveNothing == Spec => []FailedStartLeavesNothing
<1>1. IInv => FailedStartLeavesNothing
  BY DEF IInv
<1> QED BY <1>1, Invariance, PTL

(* Once stopped without a change of power meanwhile, the driver leaves the *)
(* host's notification bit as the BIOS had it.                             *)
THEOREM NotifyIsLeftAsFound == Spec => []LeavesNotifyAsFound
<1>1. IInv => LeavesNotifyAsFound
  BY DEF IInv, NotifyKept, LeavesNotifyAsFound, TornDown, AfterLoop
<1> QED BY <1>1, Invariance, PTL

(* While the driver is up and awake host notifies interrupt, and while it  *)
(* is off they do not.                                                     *)
THEOREM NotifiesFollowPower == Spec => []NotifyFollowsPower
<1>1. IInv => NotifyFollowsPower
  BY DEF IInv
<1> QED BY <1>1, Invariance, PTL

-----------------------------------------------------------------------------
(* The calls as the life cycle sees them *)

LEMMA CallsInvInit == Init => CallsInv
BY DEF Init, CallsInv, OneSleeperOnWire, EndsAreReported, GateFollowsPower

(* No step of the driver's life touches the wire, but it may remove the    *)
(* gate under a sleeper.                                                   *)
LEMMA LifeKeepsCallsInv ==
  ASSUME IInv, CallsInv, start \/ stop \/ releaseResources \/ PMstop
  PROVE  CallsInv'
<1> USE DEF IInv, TypeOK, DriverTypeOK, CallsInv, OneSleeperOnWire, EndsAreReported, GateFollowsPower,
            Run, sources, nubVars, powerVars, busVars
<1>1. ASSUME StartRefuses \/ StartOpens \/ StartGetsLoop \/ publishNub PROVE CallsInv'
  BY <1>1 DEF StartRefuses, StartOpens, StartGetsLoop, publishNub
<1>2. CASE StartAddsInterrupt
  BY <1>2 DEF StartAddsInterrupt, SourcesFollowLife
<1>3. CASE StartAddsGate
  BY <1>3 DEF StartAddsGate, SourcesFollowLife, PowerFollowsLife, QuietBeforeAndAfter, NothingRuns,
              InFlight, WithoutNub, WithPower, Releasing
<1>4. CASE StartJoinsPower
  BY <1>4 DEF StartJoinsPower
<1>5. CASE StartEnablesInterrupt
  BY <1>5 DEF StartEnablesInterrupt, SourcesFollowLife, WithPower
<1>6. CASE StartEnablesNotify
  BY <1>6 DEF StartEnablesNotify
<1>7. CASE stop
  BY <1>7 DEF stop
<1>8. CASE releaseResources
  BY <1>8 DEF releaseResources, ReleaseQuiet, ReleaseNubs, ReleaseGate, ReleaseGateObject,
              ReleaseInterrupt, ReleaseLoop
<1>9. CASE PMstop
  BY <1>9 DEF PMstop
<1> QED BY <1>1, <1>2, <1>3, <1>4, <1>5, <1>6, <1>7, <1>8, <1>9 DEF start

(* What a call that leaves, or starts the host, does to the wire. *)
LEMMA MoveKeepsCallsInv ==
  ASSUME DriverTypeOK, CallsInv, GateFree, NEW c \in Call, pc[c] # "sleep",
         Leave(c) \/ (StartAndSleep(c) /\ gate # "made"),
         UNCHANGED <<gate, irq, pm, handler>>
  PROVE  CallsInv'
<1> USE DEF DriverTypeOK, CallsInv, GateFree
<1>1. CASE Leave(c)
  <2>1. wire' = wire /\ pc' = [pc EXCEPT ![c] = "done"] /\ (hststs' => hststs)
    <3>1. hststs' = hststs \/ hststs' = FALSE
      BY <1>1 DEF Leave
    <3>2. hststs' => hststs
      BY <3>1, Zenon
    <3> QED BY <1>1, <3>2 DEF Leave
  <2>2. OneSleeperOnWire'
    BY <2>1 DEF OneSleeperOnWire
  <2>3. EndsAreReported' /\ GateFollowsPower'
    BY <2>1 DEF EndsAreReported, GateFollowsPower
  <2> QED BY <2>2, <2>3
<1>2. CASE StartAndSleep(c) /\ gate # "made"
  <2>1. wire' = {c} /\ hststs' = FALSE /\ pc' = [pc EXCEPT ![c] = "sleep"]
    BY <1>2 DEF StartAndSleep
  <2>2. OneSleeperOnWire'
    BY <2>1 DEF OneSleeperOnWire
  <2>3. EndsAreReported' /\ GateFollowsPower'
    BY <1>2, <2>1 DEF EndsAreReported, GateFollowsPower
  <2> QED BY <2>2, <2>3
<1> QED BY <1>1, <1>2

LEMMA CallsInvStep ==
  ASSUME IInv, CallsInv, [Next]_vars
  PROVE  CallsInv'
<1> USE DEF IInv, TypeOK, DriverTypeOK, CallsInv, OneSleeperOnWire, EndsAreReported, GateFollowsPower,
            GateFree, sources, powerVars, busVars
<1>1. CASE UNCHANGED vars
  BY <1>1 DEF vars
<1>2. CASE start \/ stop \/ releaseResources \/ PMstop
  BY <1>2, LifeKeepsCallsInv
<1>3. CASE setPowerState
  BY <1>3 DEF setPowerState, PowerOffNotify, PowerOffGate, PowerOnGate, PowerOnNotify, enableHostNotify
<1>4. CASE handleInterrupt
  <2>1. CASE HandlerFindsNub \/ HandlerClears
    BY <2>1 DEF HandlerFindsNub, HandlerClears, InterruptPending
  <2>2. CASE HandlerNotifiesNub
    <3>1. /\ handler = "nub" /\ handler' = "idle" /\ UNCHANGED <<irq, gate, pm, wire, hststs>>
          /\ \A c \in Call : pc'[c] = pc[c] \/ (pc[c] = "new" /\ pc'[c] = "thread")
      BY <2>2 DEF HandlerNotifiesNub
    <3> QED BY <3>1
  <2>3. CASE HandlerWakes
    <3>1. /\ handler = "wakeup" /\ handler' = "idle" /\ UNCHANGED <<irq, gate, pm, wire, hststs>>
          /\ wire = {}
      BY <2>3 DEF HandlerWakes
    <3> QED BY <3>1
  <2> QED BY <1>4, <2>1, <2>2, <2>3 DEF handleInterrupt
<1>5. ASSUME NEW c \in Call, CallSteps(c) PROVE CallsInv'
  <2>1. CASE handleHostNotifyThreaded(c) \/ ClientCalls(c)
    BY <2>1 DEF handleHostNotifyThreaded, ClientCalls
  <2>2. CASE transfer(c)
    <3>1. CASE pc' = pc
      BY <2>2, <3>1 DEF transfer, StartAndSleep, Leave
    <3>2. CASE gate = "removed"
      BY <2>2, <3>2 DEF transfer
    <3>3. CASE gate = "enabled" /\ GateFree /\ (Leave(c) \/ StartAndSleep(c))
      BY <2>2, <3>3, MoveKeepsCallsInv DEF transfer
    <3> QED BY <2>2, <3>1, <3>2, <3>3 DEF transfer
  <2>3. CASE WakesUp(c)
    <3>1. CASE pc' = pc /\ wire' = wire /\ hststs' = hststs
      BY <2>3, <3>1 DEF WakesUp
    <3>2. CASE Leave(c) \/ (StartAndSleep(c) /\ gate # "made")
      BY <2>3, <3>2, MoveKeepsCallsInv DEF WakesUp
    <3> QED BY <2>3, <3>1, <3>2 DEF WakesUp
  <2> QED BY <1>5, <2>1, <2>2, <2>3 DEF CallSteps
<1>6. ASSUME NEW c \in Caller, GetWorkLoop(c) \/ MakeWorkLoop(c) PROVE CallsInv'
  BY <1>6 DEF GetWorkLoop, MakeWorkLoop
<1>7. CASE Environment
  <2>1. CASE ClientAttaches \/ ClientDetaches \/ TouchpadNotifies
    BY <2>1 DEF ClientAttaches, ClientDetaches, TouchpadNotifies
  <2>2. CASE HostCompletes
    BY <2>2 DEF HostCompletes
  <2>3. CASE PowerIsLost
    BY <2>3 DEF PowerIsLost
  <2> QED BY <1>7, <2>1, <2>2, <2>3 DEF Environment
<1> QED BY <1>1, <1>2, <1>3, <1>4, <1>5, <1>6, <1>7 DEF Next, Alive

(* Whose transaction is on the wire sleeps, through a teardown too. *)
THEOREM CallsInvariance == Spec => []CallsInv
<1>1. Init => CallsInv
  BY CallsInvInit
<1>2. IInv /\ CallsInv /\ [Next]_vars => CallsInv'
  BY CallsInvStep
<1> QED BY <1>1, <1>2, Invariance, PTL DEF Spec

LEMMA GateCallsInit == Init => Calls!Init
BY DEF Init, Calls!Init, GateStage, GateSeen

(* What GateCalls sees does not change when none of the variables it is    *)
(* computed from do.                                                       *)
LEMMA SameGateView ==
  ASSUME UNCHANGED <<pc, gate, wire, hststs, handler>>
  PROVE  UNCHANGED Calls!gateCallVars
BY DEF Calls!gateCallVars, GateStage, GateSeen

LEMMA OnlyGateChanges ==
  ASSUME UNCHANGED busVars, gate \in GateState, gate' \in GateState,
         \/ gate' = gate
         \/ gate = "null" /\ gate' \in {"made", "enabled"}
         \/ gate = "enabled" /\ gate' = "disabled"
         \/ gate = "disabled" /\ gate' = "enabled"
         \/ gate' = "removed"
         \/ gate = "removed" /\ gate' = "null"
  PROVE  [Calls!Next]_(Calls!gateCallVars)
<1>1. CASE GateSeen' = GateSeen
  BY <1>1 DEF busVars, Calls!gateCallVars, GateStage
<1>2. CASE GateSeen' # GateSeen
  <2>1. Calls!SetGate
    BY <1>2 DEF busVars, GateState, GateSeen, GateStage, Calls!SetGate
  <2> QED BY <2>1 DEF Calls!Next
<1> QED BY <1>1, <1>2

LEMMA LifeImplementsGateCalls ==
  ASSUME IInv, IInv', start \/ stop \/ releaseResources \/ PMstop
  PROVE  [Calls!Next]_(Calls!gateCallVars)
<1>0. gate \in GateState /\ gate' \in GateState
  BY DEF IInv, TypeOK, DriverTypeOK
<1>1. CASE start
  <2>1. CASE StartAddsGate
    <3>1. gate = "null" /\ gate' \in {"null", "made", "enabled"} /\ UNCHANGED busVars
      BY <2>1 DEF IInv, StartAddsGate, SourcesFollowLife, Run
    <3> QED BY <1>0, <3>1, OnlyGateChanges
  <2>2. CASE StartEnablesNotify
    BY <2>2, SameGateView DEF StartEnablesNotify, sources
  <2>3. CASE ~ StartAddsGate /\ ~ StartEnablesNotify
    BY <1>1, <2>3, SameGateView
    DEF start, StartRefuses, StartOpens, StartGetsLoop, StartAddsInterrupt, StartJoinsPower,
        publishNub, StartEnablesInterrupt, sources, busVars
  <2> QED BY <2>1, <2>2, <2>3
<1>2. CASE releaseResources
  <2>1. /\ UNCHANGED busVars
        /\ gate' = gate \/ gate' = "removed" \/ (gate = "removed" /\ gate' = "null")
    BY <1>2 DEF IInv, SourcesFollowLife, Run, sources, releaseResources, ReleaseQuiet, ReleaseNubs,
                ReleaseGate, ReleaseGateObject, ReleaseInterrupt, ReleaseLoop
  <2> QED BY <1>0, <2>1, OnlyGateChanges
<1>3. CASE stop \/ PMstop
  BY <1>3, SameGateView DEF stop, PMstop, sources, busVars
<1> QED BY <1>1, <1>2, <1>3

LEMMA HandlerImplementsGateCalls ==
  ASSUME IInv, CallsInv, handleInterrupt
  PROVE  [Calls!Next]_(Calls!gateCallVars)
<1> USE DEF sources
<1>1. CASE HandlerFindsNub
  <2>1. UNCHANGED <<pc, wire, hststs, gate>> /\ handler # "wakeup" /\ handler' # "wakeup"
    BY <1>1 DEF HandlerFindsNub, GateFree
  <2> QED BY <2>1 DEF Calls!gateCallVars, GateStage, GateSeen
<1>2. CASE HandlerNotifiesNub
  <2>1. /\ UNCHANGED <<wire, hststs, gate>> /\ handler # "wakeup" /\ handler' # "wakeup"
        /\ \A c \in Call : GateStage(c)' = GateStage(c)
    BY <1>2 DEF IInv, TypeOK, DriverTypeOK, HandlerNotifiesNub, GateStage
  <2> QED BY <2>1 DEF Calls!gateCallVars, GateSeen
<1>3. CASE HandlerClears
  <2>1. UNCHANGED <<pc, wire, gate>> /\ hststs /\ handler' = "wakeup"
    BY <1>3 DEF HandlerClears, InterruptPending
  <2> QED BY <2>1 DEF Calls!gateCallVars, GateStage, GateSeen
<1>4. CASE HandlerWakes
  <2>1. /\ UNCHANGED <<wire, hststs, gate>> /\ handler = "wakeup" /\ handler' = "idle"
        /\ ~ hststs
    BY <1>4 DEF HandlerWakes, CallsInv, EndsAreReported
  <2>2. CASE gate = "null"
    <3>1. UNCHANGED pc
      BY <1>4, <2>2 DEF HandlerWakes
    <3>2. Calls!LoseEnd
      BY <2>1, <2>2, <3>1 DEF GateSeen, GateStage, Calls!LoseEnd
    <3> QED BY <3>2 DEF Calls!Next
  <2>3. CASE gate # "null"
    <3>1. \A c \in Call : GateStage(c)' = IF GateStage(c) = "sleep" THEN "wake" ELSE GateStage(c)
      BY <1>4, <2>3 DEF HandlerWakes, CallsMove, GateStage
    <3>2. GateSeen # "none" /\ GateSeen' = GateSeen
      BY <2>1, <2>3 DEF CallsInv, GateFollowsPower, GateSeen
    <3>3. Calls!WakeAll
      BY <2>1, <3>1, <3>2 DEF Calls!WakeAll
    <3> QED BY <3>3 DEF Calls!Next
  <2> QED BY <2>2, <2>3
<1> QED BY <1>1, <1>2, <1>3, <1>4 DEF handleInterrupt

LEMMA CallImplementsGateCalls ==
  ASSUME IInv, CallsInv, NEW c \in Call, CallSteps(c)
  PROVE  [Calls!Next]_(Calls!gateCallVars)
<1> USE DEF IInv, TypeOK, DriverTypeOK, sources
<1>1. CASE UNCHANGED <<pc, wire, hststs>>
  <2>1. UNCHANGED <<gate, handler>>
    BY DEF CallSteps, handleHostNotifyThreaded, ClientCalls, transfer, WakesUp
  <2> QED BY <1>1, <2>1, SameGateView
<1>2. CASE handleHostNotifyThreaded(c) /\ ~ UNCHANGED pc
  <2>1. Calls!Ask(c)
    BY <1>2 DEF handleHostNotifyThreaded, GateStage, GateSeen, Calls!Ask, Calls!Stage
  <2> QED BY <2>1 DEF Calls!Next
<1>3. CASE ClientCalls(c)
  <2>1. Calls!Ask(c)
    BY <1>3 DEF ClientCalls, GateStage, GateSeen, Calls!Ask, Calls!Stage
  <2> QED BY <2>1 DEF Calls!Next
<1>4. CASE transfer(c) /\ gate = "removed"
  <2>1. Calls!Return(c)
    BY <1>4 DEF transfer, GateStage, GateSeen, Calls!Return, Calls!Stage
  <2> QED BY <2>1 DEF Calls!Next
<1>5. CASE Leave(c) /\ GateFree /\ ((transfer(c) /\ gate = "enabled") \/ (WakesUp(c) /\ gate # "null"))
  <2>1. /\ wire' = wire /\ handler' = handler /\ gate' = gate
        /\ pc' = [pc EXCEPT ![c] = "done"] /\ (hststs' = hststs \/ hststs' = FALSE)
        /\ (pc[c] = "ask" /\ gate = "enabled") \/ (pc[c] = "wake" /\ gate # "null")
    BY <1>5 DEF transfer, WakesUp, Leave
  <2>2. /\ GateStage(c)' = "done"
        /\ \A d \in Call : d # c => GateStage(d)' = GateStage(d)
        /\ \/ GateStage(c) = "ask" /\ GateSeen = "on"
           \/ GateStage(c) = "wake" /\ GateSeen # "none"
    BY <2>1 DEF GateStage, GateSeen, CallsInv, GateFollowsPower
  <2>3. GateSeen' = GateSeen
    BY <2>1 DEF GateSeen
  <2>4. handler = "idle" /\ handler' = "idle"
    BY <1>5, <2>1 DEF GateFree
  <2>5. (hststs \/ handler = "wakeup")' \in {hststs \/ handler = "wakeup", FALSE}
    <3>1. hststs' \/ handler' = "wakeup" <=> hststs'
      BY <2>4
    <3>2. hststs \/ handler = "wakeup" <=> hststs
      BY <2>4
    <3>3. hststs \in BOOLEAN /\ hststs' \in BOOLEAN
      BY <2>1
    <3> QED BY <2>1, <3>1, <3>2, <3>3
  <2>6. Calls!Return(c)
    BY <2>1, <2>2, <2>3, <2>5 DEF Calls!Return, Calls!Stage
  <2> QED BY <2>6 DEF Calls!Next
<1>6. CASE /\ StartAndSleep(c) /\ GateFree
           /\ \/ transfer(c) /\ gate = "enabled"
              \/ WakesUp(c) /\ gate \notin {"null", "removed"}
  <2>1. /\ wire = {} /\ wire' = {c} /\ hststs' = FALSE /\ handler' = handler /\ gate' = gate
        /\ pc' = [pc EXCEPT ![c] = "sleep"]
        /\ (pc[c] = "ask" /\ gate = "enabled") \/ (pc[c] = "wake" /\ gate \notin {"null", "removed"})
    BY <1>6 DEF transfer, WakesUp, StartAndSleep
  <2>2. /\ GateStage(c)' = "sleep"
        /\ \A d \in Call : d # c => GateStage(d)' = GateStage(d)
        /\ \/ GateStage(c) = "ask" /\ GateSeen = "on"
           \/ GateStage(c) = "wake" /\ GateSeen \in {"on", "off"}
    BY <2>1 DEF GateStage, GateSeen, GateState, CallsInv, GateFollowsPower
  <2>3. GateSeen' = GateSeen
    BY <2>1 DEF GateSeen
  <2>4. ~ (hststs \/ handler = "wakeup")'
    BY <1>6, <2>1 DEF GateFree
  <2>5. Calls!Start(c)
    BY <2>1, <2>2, <2>3, <2>4 DEF Calls!Start, Calls!Stage
  <2> QED BY <2>5 DEF Calls!Next
<1>7. CASE transfer(c)
  BY <1>1, <1>4, <1>5, <1>6, <1>7 DEF transfer
<1>8. CASE WakesUp(c)
  BY <1>1, <1>5, <1>6, <1>8 DEF WakesUp
<1>9. CASE handleHostNotifyThreaded(c)
  BY <1>1, <1>2, <1>9 DEF handleHostNotifyThreaded
<1> QED BY <1>3, <1>7, <1>8, <1>9 DEF CallSteps

LEMMA GateCallsStep ==
  ASSUME IInv, IInv', CallsInv, [Next]_vars
  PROVE  [Calls!Next]_(Calls!gateCallVars)
<1>1. CASE UNCHANGED vars
  BY <1>1, SameGateView DEF vars, sources, busVars
<1>2. CASE start \/ stop \/ releaseResources \/ PMstop
  BY <1>2, LifeImplementsGateCalls
<1>3. CASE setPowerState
  <2>1. CASE PowerOffNotify \/ PowerOnNotify
    BY <2>1, SameGateView DEF PowerOffNotify, PowerOnNotify, enableHostNotify, sources, busVars
  <2>2. CASE PowerOffGate \/ PowerOnGate
    <3>1. gate \in GateState /\ gate' \in GateState
      BY DEF IInv, TypeOK, DriverTypeOK
    <3>2. /\ UNCHANGED busVars
          /\ \/ gate' = gate
             \/ gate = "enabled" /\ gate' = "disabled"
             \/ gate = "disabled" /\ gate' = "enabled"
      BY <2>2 DEF PowerOffGate, PowerOnGate
    <3> QED BY <3>1, <3>2, OnlyGateChanges
  <2> QED BY <1>3, <2>1, <2>2 DEF setPowerState
<1>4. CASE handleInterrupt
  BY <1>4, HandlerImplementsGateCalls
<1>5. ASSUME NEW c \in Call, CallSteps(c) PROVE [Calls!Next]_(Calls!gateCallVars)
  BY <1>5, CallImplementsGateCalls
<1>6. ASSUME NEW c \in Caller, GetWorkLoop(c) \/ MakeWorkLoop(c)
      PROVE  UNCHANGED Calls!gateCallVars
  BY <1>6, SameGateView DEF GetWorkLoop, MakeWorkLoop, sources, busVars
<1>7. CASE ClientAttaches \/ ClientDetaches \/ TouchpadNotifies
  BY <1>7, SameGateView DEF ClientAttaches, ClientDetaches, TouchpadNotifies, sources, busVars
<1>8. CASE HostCompletes
  <2>1. wire # {} /\ wire' = {} /\ hststs' = TRUE /\ UNCHANGED <<pc, gate, handler>>
    BY <1>8 DEF HostCompletes, sources
  <2>2. Calls!HostCompletes
    BY <2>1 DEF Calls!HostCompletes, GateStage, GateSeen
  <2> QED BY <2>2 DEF Calls!Next
<1>9. CASE PowerIsLost
  <2>1. /\ wire' = {} /\ hststs' = FALSE /\ UNCHANGED <<pc, gate, handler>>
        /\ gate # "enabled" /\ handler = "idle"
    BY <1>9 DEF PowerIsLost, sources, CallsInv, GateFollowsPower, GateFree
  <2>2. Calls!PowerIsLost
    BY <2>1 DEF Calls!PowerIsLost, GateStage, GateSeen
  <2> QED BY <2>2 DEF Calls!Next
<1> QED BY <1>1, <1>2, <1>3, <1>4, <1>5, <1>6, <1>7, <1>8, <1>9 DEF Next, Alive, Environment

(* From start to stop calls of transfer behave towards gate and host as    *)
(* GateCalls says, and I801Controller in detail, whatever is taken away    *)
(* under them.                                                             *)
THEOREM LifeImplementsCalls == Spec => ImplementsGateCalls
<1>1. Init => Calls!Init
  BY GateCallsInit
<1>2. IInv /\ IInv' /\ CallsInv /\ [Next]_vars => [Calls!Next]_(Calls!gateCallVars)
  BY GateCallsStep
<1> QED BY <1>1, <1>2, Invariance, CallsInvariance, PTL DEF Spec, ImplementsGateCalls, Calls!Spec

=============================================================================
