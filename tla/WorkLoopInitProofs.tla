------------------------- MODULE WorkLoopInitProofs -------------------------
(***************************************************************************)
(* Theorems about WorkLoopInit, for any number of calls of getWorkLoop and *)
(* of work loops there is memory for.                                      *)
(***************************************************************************)
EXTENDS WorkLoopInit, TLAPS

(* No call, and no work loop. *)
LEMMA LoopInitially == LoopInit => LoopInv
<1> SUFFICES ASSUME LoopInit PROVE LoopInv
  OBVIOUS
<1> USE CallerAssumption, MaxLoopsAssumption DEF LoopInit, Null
<1>1. LoopTypeOK
  <2>1. made \in 0..MaxLoops /\ work_loop \in 0..made + 1
    OBVIOUS
  <2>2. ret \in [Caller -> 0..made + 1]
    <3>1. 0 \in 0..made + 1
      OBVIOUS
    <3> QED BY <3>1, Zenon
  <2>3. loc \in [Caller -> Where]
    BY DEF Where
  <2> QED BY <2>1, <2>2, <2>3 DEF LoopTypeOK
<1>2. OneWorkLoop /\ OneAllocates /\ LeavesWithLoop
  BY DEF OneWorkLoop, OneAllocates, LeavesWithLoop, Marker, IsLoop
<1> QED BY <1>1, <1>2 DEF LoopInv

LEMMA Widen ==
  ASSUME NEW m \in Nat, NEW n \in Nat, m <= n PROVE 0..m + 1 \subseteq 0..n + 1
OBVIOUS

(* Pointers stay null, the marker, or a work loop that was allocated. *)
LEMMA LoopTypes == LoopInv /\ [LoopNext]_loopVars => LoopTypeOK'
<1> SUFFICES ASSUME LoopInv, [LoopNext]_loopVars PROVE LoopTypeOK'
  OBVIOUS
<1> USE CallerAssumption, MaxLoopsAssumption DEF LoopInv, LoopTypeOK, Where
<1>1. ASSUME NEW c \in Caller, getWorkLoop(c) PROVE LoopTypeOK'
  BY <1>1 DEF getWorkLoop, HasWorkLoop, Step
<1>2. ASSUME NEW c \in Caller, CompareAndSwap(c) PROVE LoopTypeOK'
  BY <1>2 DEF CompareAndSwap, Step, Marker, Null
<1>3. ASSUME NEW c \in Caller, Allocate(c) PROVE LoopTypeOK'
  <2>1. loc' \in [Caller -> Where] /\ ret' = ret /\ reset' \in BOOLEAN
    BY <1>3 DEF Allocate, Step
  <2>2. made' \in 0..MaxLoops /\ made <= made' /\ work_loop' \in 0..made' + 1
    BY <1>3 DEF Allocate, Null
  <2>3. made \in Nat /\ made' \in Nat
    BY <2>2
  <2>4. 0..made + 1 \subseteq 0..made' + 1
    BY <2>2, <2>3, Widen
  <2>5. ret' \in [Caller -> 0..made' + 1]
    BY <2>1, <2>4
  <2> QED BY <2>1, <2>2, <2>5
<1>4. ASSUME NEW c \in Caller, Spin(c) PROVE LoopTypeOK'
  BY <1>4 DEF Spin, Step
<1>5. ASSUME NEW c \in Caller, Return(c) PROVE LoopTypeOK'
  BY <1>5 DEF Return, Step
<1>6. CASE StoreWorkLoop
  BY <1>6 DEF StoreWorkLoop
<1>7. CASE DropWorkLoop
  BY <1>7 DEF DropWorkLoop, Null
<1>8. CASE UNCHANGED loopVars
  BY <1>8 DEF loopVars
<1> QED BY <1>1, <1>2, <1>3, <1>4, <1>5, <1>6, <1>7, <1>8 DEF LoopNext, InGetWorkLoop

(* Until work_loop goes back to Null, one call allocates, everybody else   *)
(* waits for it or returns what it has made.                               *)
LEMMA LoopSteps ==
  LoopInv /\ [LoopNext]_loopVars => OneWorkLoop' /\ OneAllocates' /\ LeavesWithLoop'
<1> DEFINE One == OneWorkLoop /\ OneAllocates /\ LeavesWithLoop
<1> SUFFICES ASSUME LoopInv, [LoopNext]_loopVars PROVE One'
  OBVIOUS
<1> USE CallerAssumption
    DEF LoopInv, LoopTypeOK, OneWorkLoop, OneAllocates, LeavesWithLoop, Where, Null, Marker, IsLoop
<1>1. ASSUME NEW c \in Caller, getWorkLoop(c) PROVE One'
  BY <1>1 DEF getWorkLoop, HasWorkLoop, Step
<1>2. ASSUME NEW c \in Caller, CompareAndSwap(c) PROVE One'
  BY <1>2 DEF CompareAndSwap, Step
<1>3. ASSUME NEW c \in Caller, Allocate(c) PROVE One'
  BY <1>3 DEF Allocate, Step
<1>4. ASSUME NEW c \in Caller, Spin(c) PROVE One'
  BY <1>4 DEF Spin, Step
<1>5. ASSUME NEW c \in Caller, Return(c) PROVE One'
  BY <1>5 DEF Return, Step
<1>6. CASE StoreWorkLoop
  BY <1>6 DEF StoreWorkLoop
<1>7. CASE DropWorkLoop
  BY <1>7 DEF DropWorkLoop
<1>8. CASE UNCHANGED loopVars
  BY <1>8 DEF loopVars
<1> QED BY <1>1, <1>2, <1>3, <1>4, <1>5, <1>6, <1>7, <1>8 DEF LoopNext, InGetWorkLoop

(* The inductive invariant of the initialisation. *)
THEOREM LoopInvariance == LoopSpec => []LoopInv
<1>1. LoopInit => LoopInv
  BY LoopInitially
<1>2. LoopInv /\ [LoopNext]_loopVars => LoopInv'
  BY LoopTypes, LoopSteps DEF LoopInv
<1> QED BY <1>1, <1>2, PTL DEF LoopSpec

(* However many threads meet in getWorkLoop, they get the same work loop,  *)
(* until a failed allocation or a release sets work_loop back.             *)
THEOREM ThreadsShareWorkLoop == LoopSpec => []OneWorkLoop
<1>1. LoopInv => OneWorkLoop
  BY DEF LoopInv
<1> QED BY <1>1, LoopInvariance, PTL

=============================================================================
