---------------------------- MODULE SMBusTransfer ---------------------------
(***************************************************************************)
(* What a call of VoodooSMBusControllerDriver::transfer promises whoever   *)
(* makes it: the bus carries one transaction at a time, a request that was *)
(* carried out is not sent again, and the call reports success only when   *)
(* its own transaction succeeded (and, for a read, returns its answer).    *)
(*                                                                         *)
(* The promise is made to a call that has the bus to itself.  To one that  *)
(* has met another call (disturbed) no more is promised than that it has   *)
(* had its transaction: the result may be the other's, a read may return   *)
(* other bytes, and a request may be sent twice.                           *)
(***************************************************************************)
CONSTANT Call

VARIABLES
  phase,     \* each call: not made, made, returned
  wire,      \* the fate of its latest transaction
  result,    \* what it returned
  disturbed  \* the calls that have met another one

abstractVars == <<phase, wire, result, disturbed>>

Init ==
  /\ phase  = [c \in Call |-> "idle"]
  /\ wire   = [c \in Call |-> "none"]
  /\ result = [c \in Call |-> "none"]
  /\ disturbed = {}

Invoke(c) ==
  /\ phase[c] = "idle"
  /\ phase' = [phase EXCEPT ![c] = "busy"]
  /\ UNCHANGED <<wire, result, disturbed>>

(* Calls under way meet, at least two of them. *)
Meet ==
  \E met \in SUBSET {c \in Call : phase[c] = "busy"} :
    /\ \E c, d \in met : c # d
    /\ disturbed' = disturbed \cup met
    /\ UNCHANGED <<phase, wire, result>>

(* The first try, or another one after a failure. *)
Begin(c) ==
  /\ phase[c] = "busy"
  /\ wire[c] \in {"none", "failed"} \/ c \in disturbed
  /\ \A d \in Call : wire[d] # "open"
  /\ wire' = [wire EXCEPT ![c] = "open"]
  /\ UNCHANGED <<phase, result, disturbed>>

(* A transaction may end after its call has given up on it. *)
End(c) ==
  /\ wire[c] = "open"
  /\ \E outcome \in {"ok", "failed"} : wire' = [wire EXCEPT ![c] = outcome]
  /\ UNCHANGED <<phase, result, disturbed>>

(* What a call may return: success for its own success, anything about a   *)
(* transaction that is over if it was disturbed, an error at any time.     *)
MayReturn(c) ==
  {"error"} \cup (IF wire[c] = "ok" THEN {"ok"} ELSE {})
            \cup (IF c \in disturbed /\ wire[c] \in {"ok", "failed"} THEN {"ok", "corrupt"} ELSE {})

Return(c) ==
  /\ phase[c] = "busy"
  /\ phase' = [phase EXCEPT ![c] = "returned"]
  /\ \E r \in MayReturn(c) : result' = [result EXCEPT ![c] = r]
  /\ UNCHANGED <<wire, disturbed>>

Next == Meet \/ \E c \in Call : Invoke(c) \/ Begin(c) \/ End(c) \/ Return(c)

Spec == Init /\ [][Next]_abstractVars

-----------------------------------------------------------------------------
(* What a caller can rely on *)

TypeOK ==
  /\ phase \in [Call -> {"idle", "busy", "returned"}]
  /\ wire \in [Call -> {"none", "open", "ok", "failed"}]
  /\ result \in [Call -> {"none", "ok", "corrupt", "error"}]
  /\ disturbed \subseteq Call

(* The bus carries one transaction at a time, disturbed or not. *)
OneTransaction == \A c, d \in Call : wire[c] = "open" /\ wire[d] = "open" => c = d

(* A result is true of an undisturbed call's own transaction, for good; a  *)
(* call that reports a success it has not had has met another one.         *)
ResultHolds ==
  \A c \in Call :
    /\ result[c] \in {"ok", "corrupt"} => wire[c] \in {"ok", "failed"}
    /\ result[c] = "ok" /\ wire[c] # "ok" => c \in disturbed
    /\ result[c] = "corrupt" => c \in disturbed

(* A request the device has carried out is not sent again. *)
SentOnce == [][\A c \in Call \ disturbed : wire[c] = "ok" => wire'[c] = "ok"]_abstractVars

=============================================================================
