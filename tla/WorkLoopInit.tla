---------------------------- MODULE WorkLoopInit ----------------------------
(***************************************************************************)
(* VoodooSMBusControllerDriver::getWorkLoop: a lock-free one-time          *)
(* initialisation, and the two other places that write the member          *)
(* work_loop, start (work_loop = getWorkLoop()) and releaseResources       *)
(* (OSSafeReleaseNULL(work_loop)).  ControllerLifecycle says when they run.*)
(*                                                                         *)
(* An element of Caller is one call of getWorkLoop, by whatever thread;    *)
(* Starter is the call start makes.  A step is one access to work_loop.    *)
(***************************************************************************)
EXTENDS Naturals

CONSTANTS
  Caller,    \* the calls of getWorkLoop (bounds a run)
  Starter,   \* the one start makes
  MaxLoops   \* how many work loops there is memory for

ASSUME CallerAssumption == Starter \in Caller
ASSUME MaxLoopsAssumption == MaxLoops \in Nat

VARIABLES
  work_loop, \* the member: Null, the Marker, or a work loop
  loc,       \* where each call is
  ret,       \* what it has returned
  made,      \* how many work loops have been allocated
  reset      \* history: work_loop has been set back to Null

loopVars == <<work_loop, loc, ret, made, reset>>

(* Pointers are numbers: Null is 0, the marker of an initialisation that   *)
(* is under way is 1, and the n-th work loop allocated is n + 1.           *)
Null   == 0
Marker == 1
IsLoop(p) == p > 1              \* (vm_address_t) p >> 1

Where == {"new", "swap", "alloc", "spin", "return", "returned"}

LoopTypeOK ==
  /\ work_loop \in 0..made + 1
  /\ loc \in [Caller -> Where]
  /\ ret \in [Caller -> 0..made + 1]
  /\ made \in 0..MaxLoops
  /\ reset \in BOOLEAN

(* IOKit clears the memory of the driver object. *)
LoopInit ==
  /\ work_loop = Null
  /\ loc = [c \in Caller |-> "new"]
  /\ ret = [c \in Caller |-> Null]
  /\ made = 0
  /\ reset = FALSE

Step(c, from, to) == loc[c] = from /\ loc' = [loc EXCEPT ![c] = to]

(* "Do we have a work loop already?, if so return it NOW": a second        *)
(* reading of the member, unless the compiler keeps the first, which is    *)
(* Return right after it.                                                  *)
AnyValue == work_loop # Null
HasWorkLoop == IsLoop(work_loop)

getWorkLoop(c) ==
  /\ IF HasWorkLoop THEN Step(c, "new", "return") ELSE Step(c, "new", "swap")
  /\ UNCHANGED <<work_loop, ret, made, reset>>

(* OSCompareAndSwap(0, 1, &work_loop): one caller gets to allocate. *)
CompareAndSwap(c) ==
  \/ /\ work_loop = Null
     /\ Step(c, "swap", "alloc")
     /\ work_loop' = Marker
     /\ UNCHANGED <<ret, made, reset>>
  \/ /\ work_loop # Null
     /\ Step(c, "swap", "spin")
     /\ UNCHANGED <<work_loop, ret, made, reset>>

(* work_loop = IOWorkLoop::workLoop(), which returns Null if there is no   *)
(* memory.                                                                 *)
Allocate(c) ==
  /\ Step(c, "alloc", "return")
  /\ \/ /\ made < MaxLoops
        /\ made' = made + 1
        /\ work_loop' = made + 2
        /\ UNCHANGED reset
     \/ /\ work_loop' = Null
        /\ reset' = TRUE
        /\ UNCHANGED made
  /\ UNCHANGED ret

(* The others "spin around ... until the initialization finishes". *)
Spin(c) ==
  /\ work_loop # Marker
  /\ Step(c, "spin", "return")
  /\ UNCHANGED <<work_loop, ret, made, reset>>

(* return work_loop: the member is read once more. *)
Return(c) ==
  /\ Step(c, "return", "returned")
  /\ ret' = [ret EXCEPT ![c] = work_loop]
  /\ UNCHANGED <<work_loop, made, reset>>

(* start stores what its call has returned. *)
StoreWorkLoop ==
  /\ loc[Starter] = "returned"
  /\ work_loop' = ret[Starter]
  /\ reset' = (reset \/ ret[Starter] = Null)
  /\ UNCHANGED <<loc, ret, made>>

(* releaseResources: OSSafeReleaseNULL(work_loop). *)
DropWorkLoop ==
  /\ work_loop' = Null
  /\ reset' = TRUE
  /\ UNCHANGED <<loc, ret, made>>

InGetWorkLoop(c) ==
  CompareAndSwap(c) \/ Allocate(c) \/ Spin(c) \/ Return(c)

LoopNext ==
  \/ \E c \in Caller : getWorkLoop(c) \/ InGetWorkLoop(c)
  \/ StoreWorkLoop
  \/ DropWorkLoop

LoopSpec == LoopInit /\ [][LoopNext]_loopVars

-----------------------------------------------------------------------------
(* What getWorkLoop guarantees until work_loop goes back to Null *)

(* Every call returns the same work loop, never the marker and never Null, *)
(* however many threads meet in the initialisation.  An allocation that    *)
(* fails puts an end to it: the next caller swaps the marker in while      *)
(* others, who have left the loop of Spin or Allocate, read it in Return.  *)
OneWorkLoop ==
  ~ reset => /\ made <= 1
             /\ \A c \in Caller : loc[c] = "returned" => ret[c] = 2

(* At most one thread allocates at a time, and work_loop is the marker     *)
(* meanwhile; only start's store and releaseResources can break this,      *)
(* after a failure or a release.                                           *)
OneAllocates ==
  ~ reset =>
    /\ \A c, d \in Caller : loc[c] = "alloc" /\ loc[d] = "alloc" => c = d
    /\ (\E c \in Caller : loc[c] = "alloc") <=> work_loop = Marker

(* Once a call has left the initialisation there is a work loop, and while *)
(* one waits there is one on the way.                                      *)
LeavesWithLoop ==
  ~ reset =>
    /\ \A c \in Caller : /\ loc[c] \in {"return", "returned"} => IsLoop(work_loop)
                         /\ loc[c] = "spin" => work_loop # Null
    /\ made = 0 <=> ~ IsLoop(work_loop)

LoopInv == LoopTypeOK /\ OneWorkLoop /\ OneAllocates /\ LeavesWithLoop

=============================================================================
