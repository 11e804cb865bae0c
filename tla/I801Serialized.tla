--------------------------- MODULE I801Serialized ---------------------------
(***************************************************************************)
(* The i801 driver under the assumption its port was written with: "all    *)
(* this code is serialized" (i801_check_post).  A call enters              *)
(* transferGated only when no other call is inside it, not even asleep in  *)
(* commandSleep.  Under that discipline no call meets another one, and the *)
(* driver implements SMBusTransfer with nobody disturbed; nothing in the   *)
(* source enforces it.                                                     *)
(***************************************************************************)
EXTENDS I801Overlap

OneAtATime ==
  \A c \in Call : pc[c] = "gate" /\ pc'[c] = "setup" => \A d \in Call : pc[d] \notin Inside

SerialNext == OverlapNext /\ OneAtATime

SerialSpec == OverlapInit /\ [][SerialNext]_overlapVars

FairSerialSpec ==
  SerialSpec /\ Fairness /\ \A c \in Call : WF_vars(transferGated(c) /\ OneAtATime)

-----------------------------------------------------------------------------
Transfer == INSTANCE SMBusTransfer
              WITH phase     <- [c \in Call |-> Phase(c)],
                   wire      <- bus,
                   result    <- [c \in Call |-> Result(c)],
                   disturbed <- {}

(* One call at a time, the driver keeps every promise of SMBusTransfer to  *)
(* every call: none reports success for a transaction that failed or       *)
(* returns another call's data, and no request the device has carried out  *)
(* is sent again.                                                          *)
ImplementsTransfer == Transfer!Spec

(* What makes it so: one call is inside, and none has met another.         *)
OneInside == \A c, d \in Call : pc[c] \in Inside /\ pc[d] \in Inside => c = d

SerialInv ==
  /\ LoneInv
  /\ OneInside
  /\ met = {}

=============================================================================
