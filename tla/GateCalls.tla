------------------------------ MODULE GateCalls ------------------------------
(***************************************************************************)
(* What the command gate, the sleeping calls of transfer and the host      *)
(* controller owe each other, without anything a call does in detail: who  *)
(* waits for the gate, who sleeps, whose transaction is on the wire, and   *)
(* whether the end of one is still to be reported.                         *)
(*                                                                         *)
(* This is the interface between the two models of the controller driver.  *)
(* I801Controller has the calls register by register and takes the gate    *)
(* for granted; ControllerLifecycle makes the gate and takes it away and   *)
(* has of a call only what is here.  Both implement this module, each at   *)
(* its own grain.                                                          *)
(***************************************************************************)
CONSTANTS
  Call,
  SleepTimesOut  \* does commandSleep ever return THREAD_TIMED_OUT?

VARIABLES
  stage,  \* each call: not made, asks for the gate, asleep, woken, over
  gate,   \* the command gate: none, on, off, or removed from the work loop
  wire,   \* the calls whose transaction the host is executing
  ended   \* a transaction has ended and its interrupt has not been served

gateCallVars == <<stage, gate, wire, ended>>

Init ==
  /\ stage = [c \in Call |-> "new"]
  /\ gate \in {"none", "on"}
  /\ wire = {}
  /\ ended = FALSE

Stage(c, from, to) == stage[c] = from /\ stage' = [stage EXCEPT ![c] = to]

(* A call is made; a notify thread that finds no driver makes none. *)
Ask(c) ==
  /\ Stage(c, "new", "ask") \/ Stage(c, "new", "done")
  /\ UNCHANGED <<gate, wire, ended>>

(* The host is idle and is started, by a call that the gate lets in or by  *)
(* one that was asleep in it and tries again.                              *)
Start(c) ==
  /\ \/ gate = "on" /\ Stage(c, "ask", "sleep")
     \/ gate \in {"on", "off"} /\ Stage(c, "wake", "sleep")
  /\ wire = {} /\ wire' = {c}
  /\ ended' = FALSE
  /\ UNCHANGED gate

(* The handler reports the end of a transaction to all who sleep. *)
WakeAll ==
  /\ gate # "none"
  /\ ended /\ ended' = FALSE
  /\ stage' = [c \in Call |-> IF stage[c] = "sleep" THEN "wake" ELSE stage[c]]
  /\ UNCHANGED <<gate, wire>>

TimeOut(c) ==
  /\ SleepTimesOut
  /\ Stage(c, "sleep", "wake")
  /\ UNCHANGED <<gate, wire, ended>>

(* A call that is not let in, finds the host busy, or has its result,      *)
(* returns.  On its way it may clear the flags of whatever has ended.      *)
Return(c) ==
  /\ \/ gate \in {"on", "removed"} /\ Stage(c, "ask", "done")
     \/ gate # "none" /\ Stage(c, "wake", "done")
  /\ ended' \in {ended, FALSE}
  /\ UNCHANGED <<gate, wire>>

(* The report of an end is lost: a call inside clears the flags before its *)
(* result is known, or the handler finds the gate gone.                    *)
LoseEnd ==
  /\ gate = "none" \/ \E c \in Call : stage[c] \in {"ask", "wake"}
  /\ ended /\ ended' = FALSE
  /\ UNCHANGED <<stage, gate, wire>>

HostCompletes ==
  /\ wire # {} /\ wire' = {}
  /\ ended' = TRUE
  /\ UNCHANGED <<stage, gate>>

PowerIsLost ==
  /\ gate # "on"
  /\ wire' = {} /\ ended' = FALSE
  /\ UNCHANGED <<stage, gate>>

(* The driver makes the gate, opens and closes it for the power manager,   *)
(* and takes it away, used or not, with calls asleep in it or not.         *)
SetGate ==
  /\ \/ gate = "none" /\ gate' = "on"
     \/ gate = "on" /\ gate' = "off"
     \/ gate = "off" /\ gate' = "on"
     \/ gate # "removed" /\ gate' = "removed"
     \/ gate = "removed" /\ gate' = "none"
  /\ UNCHANGED <<stage, wire, ended>>

Next ==
  \/ \E c \in Call : Ask(c) \/ Start(c) \/ TimeOut(c) \/ Return(c)
  \/ WakeAll \/ LoseEnd \/ HostCompletes \/ PowerIsLost \/ SetGate

Spec == Init /\ [][Next]_gateCallVars

-----------------------------------------------------------------------------
(* What the two sides can rely on *)

TypeOK ==
  /\ stage \in [Call -> {"new", "ask", "sleep", "wake", "done"}]
  /\ gate \in {"none", "on", "off", "removed"}
  /\ wire \subseteq Call
  /\ ended \in BOOLEAN

(* The host works for one call at a time, and an end that is still to be   *)
(* reported is not that of a transaction on the wire.                      *)
OneOnTheWire ==
  /\ \A c, d \in wire : c = d
  /\ wire # {} => ~ ended

(* Without time-outs nobody leaves a transaction behind: the call whose    *)
(* transaction is on the wire sleeps in the gate.                          *)
NobodyLeavesEarly == ~ SleepTimesOut => \A c \in wire : stage[c] = "sleep"

(* Behind a gate that is closed only a call that has slept in it starts    *)
(* the host, and behind one that is gone nobody does.                      *)
StartsAreLetIn ==
  \A c \in Call :
    c \in wire' \ wire => gate = "on" \/ (gate = "off" /\ stage[c] = "wake")

ClosedGateIsQuiet == [][StartsAreLetIn]_gateCallVars

=============================================================================
