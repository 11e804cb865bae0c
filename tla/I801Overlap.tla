---------------------------- MODULE I801Overlap -----------------------------
(***************************************************************************)
(* The i801 driver as it is, and which calls of transfer have met another  *)
(* one: met is a history variable, the calls that were inside              *)
(* transferGated at the same time as another call, which the command gate  *)
(* does not prevent while one of them is in commandSleep.                  *)
(*                                                                         *)
(* The driver implements SMBusTransfer with the calls that have met as the *)
(* disturbed ones: what it promises to a call holds if the call has the    *)
(* bus to itself, whatever happens to the others.                          *)
(***************************************************************************)
EXTENDS I801Controller

VARIABLE met

overlapVars == <<vars, met>>

(* Who is inside transferGated together, after a step. *)
Meeting == {c \in Call : pc'[c] \in Inside /\ \E d \in Call \ {c} : pc'[d] \in Inside}

OverlapInit == Init /\ met = {}

OverlapNext == Next /\ met' = met \cup Meeting

OverlapSpec == OverlapInit /\ [][OverlapNext]_overlapVars

FairOverlapSpec ==
  OverlapSpec /\ Fairness /\ \A c \in Call : WF_vars(transferGated(c))

Lone == Call \ met

-----------------------------------------------------------------------------
(* The refinement mapping *)

Phase(c) ==
  IF pc[c] = "new" THEN "idle" ELSE IF pc[c] = "done" THEN "returned" ELSE "busy"

Result(c) ==
  IF pc[c] # "done" THEN "none"
  ELSE IF ret[c] # "OK" THEN "error"
  ELSE IF op[c] \in Reads /\ got[c] # {Answer(c)} THEN "corrupt" ELSE "ok"

Shared == INSTANCE SMBusTransfer
            WITH phase     <- [c \in Call |-> Phase(c)],
                 wire      <- bus,
                 result    <- [c \in Call |-> Result(c)],
                 disturbed <- met

(* The driver as it is keeps the promises of SMBusTransfer to every call   *)
(* that is not inside transferGated together with another one: only such   *)
(* calls report a success that was not theirs, return another call's data, *)
(* or send again what the device has carried out.                          *)
ImplementsShared == Shared!Spec

-----------------------------------------------------------------------------
(* Properties of calls that stay alone *)

(* A call asleep in commandSleep has a wake-up coming unless another call  *)
(* was inside transferGated meanwhile: its transaction is on the wire, or  *)
(* the flags that will interrupt are still pending.  Only a loss of power  *)
(* takes it away.                                                          *)
WakeUpIsComing ==
  \A c \in Lone :
    ~ PowerManaged /\ pc[c] = "sleep" => inflight = c \/ hststs # {}

(* Without time-outs the host has the 32-byte buffer for as long as it     *)
(* executes a block operation of a call that is alone: no exit of an       *)
(* earlier access and no retry turns it off under the transaction.         *)
BlockBufferOnInFlight ==
  ~ SleepTimesOut /\ inflight \in Lone /\ op[inflight] \in Blocks => e32b

(* Without time-outs a call that is alone starts the host with its own     *)
(* request in the data registers: no answer to an earlier call lands there *)
(* between writing them and the start.                                     *)
LoneSendsOwnRequest ==
  [][\A c \in Lone : ~ SleepTimesOut /\ inflight' = c /\ inflight # c => RequestReady(c)]_overlapVars

(* A call that asks for the gate returns, retries included, if it meets    *)
(* no other one inside and the system does not go to sleep: other calls    *)
(* may come and go, sleep for ever, or leave the host busy, and no         *)
(* time-out has to help.                                                   *)
LoneCallReturns ==
  \A c \in Call : pc[c] = "gate" ~> pc[c] = "done" \/ c \in met \/ pm = "off"

-----------------------------------------------------------------------------
(* What makes these properties inductive *)

AloneInside == \A c \in Lone, d \in Call : pc[c] \in Inside /\ pc[d] \in Inside => c = d

(* The data registers hold the answer a read is about to be given. *)
AnswerReady(c) ==
  op[c] \in Reads => /\ dat0 = Answer(c)
                     /\ op[c] \in Blocks => blkdat = Answer(c)

(* The flags are those of c's transaction, which is over. *)
Tells(flags, c) ==
  \/ flags = {"INTR"} /\ bus[c] = "ok" /\ AnswerReady(c)
  \/ bus[c] = "failed" /\ \E f \in STATUS_ERROR_FLAGS : flags = {f}

MayStart == \A c \in Lone : pc[c] \in {"setup", "pre"} => bus[c] \in {"none", "failed"}

(* A sleeper waits for its own transaction, or for the interrupt about it, *)
(* unless the host has lost power since.                                   *)
SleeperWaits ==
  \A c \in Lone :
    pc[c] = "sleep" /\ inflight # c =>
      inflight = NoCall /\ (Tells(hststs, c) \/ (hststs = {} /\ PowerManaged))

(* What a woken call finds in adapter->status is about its transaction,    *)
(* and what it makes of it is true.                                        *)
WokenIsTold ==
  \A c \in Lone : pc[c] = "wake" => inflight = NoCall /\ hststs = {} /\ Tells(status, c)

ResultIsTrue ==
  \A c \in Lone : pc[c] = "post" =>
    /\ ret[c] = "OK" => inflight = NoCall /\ bus[c] = "ok" /\ AnswerReady(c)
    /\ ret[c] = "EAGAIN" => bus[c] = "failed"

SuccessIsTrue ==
  \A c \in Lone :
    pc[c] = "done" /\ ret[c] = "OK" =>
      bus[c] = "ok" /\ (op[c] \in Reads => got[c] = {Answer(c)})

(* Without time-outs only a sleeper has a transaction on the wire, and     *)
(* nobody disturbs the data a lone call is about to send, or its buffer.   *)
BufferReady(c) == op[c] \in Blocks => e32b

Undisturbed ==
  ~ SleepTimesOut =>
    /\ \A c \in Call : inflight = c => pc[c] = "sleep"
    /\ \A c \in Lone : /\ inflight = c => BufferReady(c)
                       /\ pc[c] = "pre" => RequestReady(c) /\ BufferReady(c)

PowerStays == PowerManaged \/ pm = "on"

(* Every stage of a call that is alone knows of its own transaction, and   *)
(* of no other.                                                            *)
LoneInv ==
  /\ IInv
  /\ met \subseteq Call
  /\ AloneInside
  /\ MayStart
  /\ SleeperWaits
  /\ WokenIsTold
  /\ ResultIsTrue
  /\ SuccessIsTrue
  /\ Undisturbed
  /\ PowerStays

=============================================================================
