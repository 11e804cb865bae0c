------------------------ MODULE I801ControllerProofs ------------------------
(***************************************************************************)
(* What I801Controller keeps for any number of calls, retries and          *)
(* notifications, with or without time-outs and power management.          *)
(***************************************************************************)
EXTENDS I801Controller, TLAPS

(* A status becomes success or one of the errors the driver knows.         *)
LEMMA CheckPostType ==
  ASSUME NEW flags, NEW pec
  PROVE  i801_check_post(flags, pec) \in {"OK", "EAGAIN", "EBADMSG", "ENXIO", "EIO"}
BY DEF i801_check_post

(* Type correctness of every step. *)
LEMMA TypeStep == TypeOK /\ [Next]_vars => TypeOK'
<1> SUFFICES ASSUME TypeOK, [Next]_vars PROVE TypeOK'
  OBVIOUS
<1> USE CallAssumption, ProtocolAssumption, RetriesAssumption, SwitchAssumption
    DEF TypeOK, Stage, Errno, Datum, callVars, dataVars, ntfyVars
<1>1. ASSUME NEW c \in Call, transfer(c) PROVE TypeOK'
  BY <1>1 DEF transfer, Move
<1>2. ASSUME NEW c \in Call, transferGated(c) PROVE TypeOK'
  BY <1>2 DEF transferGated, Move
<1>3. ASSUME NEW c \in Call, i801_access(c) PROVE TypeOK'
  BY <1>3 DEF i801_access, LoadData, i801_set_block_buffer_mode, Move, Request
<1>4. ASSUME NEW c \in Call, CheckPreFails(c) PROVE TypeOK'
  BY <1>4 DEF CheckPreFails, Move
<1>5. ASSUME NEW c \in Call, StartAndSleep(c) PROVE TypeOK'
  BY <1>5 DEF StartAndSleep, Move, i801_check_pre
<1>6. ASSUME NEW c \in Call, TakeStatus(c) PROVE TypeOK'
  BY <1>6, CheckPostType DEF TakeStatus, Move
<1>7. ASSUME NEW c \in Call, TimeOut(c) PROVE TypeOK'
  BY <1>7 DEF TimeOut, Move
<1>8. ASSUME NEW c \in Call, LeaveAccess(c) PROVE TypeOK'
  BY <1>8 DEF LeaveAccess, Move, Retry, CountTry, BufferOff, Collected
<1>9. CASE HandleHostNotify
  <2>1. ASSUME NEW n \in NotifyCall, handleHostNotifyThreaded(n)
        PROVE  TypeOK'
    <3>1. pc' \in [Call -> Stage] /\ op' \in [Call -> AllProtocols]
      BY <2>1 DEF handleHostNotifyThreaded, Move, AllProtocols, Blocks
    <3>2. QED
      BY <1>9, <3>1 DEF HandleHostNotify
  <2>2. CASE UNCHANGED <<pc, op>>
    BY <1>9, <2>2 DEF HandleHostNotify
  <2>3. QED
    BY <1>9, <2>1, <2>2 DEF HandleHostNotify
<1>10. CASE HandleCompletion
  BY <1>10 DEF HandleCompletion, commandWakeup
<1>11. CASE DisableHostNotify
  BY <1>11 DEF DisableHostNotify
<1>12. CASE DisableCommandGate
  BY <1>12 DEF DisableCommandGate
<1>13. CASE EnableCommandGate
  BY <1>13 DEF EnableCommandGate
<1>14. CASE EnableHostNotify
  BY <1>14 DEF EnableHostNotify
<1>15. CASE HostCompletes
  BY <1>15 DEF HostCompletes, Answer
<1>16. CASE TouchpadNotifies
  BY <1>16 DEF TouchpadNotifies
<1>17. CASE PowerIsLost
  BY <1>17 DEF PowerIsLost, Request
<1>18. CASE UNCHANGED vars
  BY <1>18 DEF vars
<1>19. QED
  BY <1>1, <1>2, <1>3, <1>4, <1>5, <1>6, <1>7, <1>8, <1>9, <1>10, <1>11, <1>12,
     <1>13, <1>14, <1>15, <1>16, <1>17, <1>18
     DEF Next, Progress, handleInterrupt, setPowerState, Environment

LEMMA TypeInit == Init => TypeOK
<1> SUFFICES ASSUME Init PROVE TypeOK
  OBVIOUS
<1> USE DEF Init
<1>1. /\ pc \in [Call -> Stage] /\ op \in [Call -> AllProtocols]
      /\ try \in [Call -> 0..Retries] /\ ret \in [Call -> Errno \cup {"OK"}]
      /\ got \in [Call -> SUBSET Datum] /\ bus \in [Call -> {"none", "open", "ok", "failed"}]
  BY RetriesAssumption DEF Stage, AllProtocols, Blocks, Errno
<1>2. /\ status \in SUBSET STATUS_FLAGS /\ hststs \in SUBSET STATUS_FLAGS
      /\ pm \in {"on", "notifyOff", "off", "gateOn"} /\ inflight \in Call \cup {NoCall}
  BY GarbageAssumption DEF STATUS_FLAGS, STATUS_ERROR_FLAGS
<1>3. dat0 \in Datum /\ blkdat \in Datum
  BY DEF Datum, Request
<1>4. /\ hstint \in BOOLEAN /\ e32b \in BOOLEAN /\ crce \in BOOLEAN
      /\ ntfy \in BOOLEAN /\ intren \in BOOLEAN
  OBVIOUS
<1>5. QED
  BY <1>1, <1>2, <1>3, <1>4 DEF TypeOK

(* Every variable keeps its type: in particular no call is tried more than *)
(* adapter->retries times again.                                           *)
THEOREM TypeCorrect == Spec => []TypeOK
<1>1. Init => TypeOK
  BY TypeInit
<1>2. TypeOK /\ [Next]_vars => TypeOK'
  BY TypeStep
<1>3. QED
  BY <1>1, <1>2, PTL DEF Spec

Wire == OpenIsInFlight /\ SleeperHasStarted /\ WokenIsOver /\ FlagsAreOfThisTransaction
Pec  == NoPecErrorWhileAsleep /\ StalePecErrorNotBlamed

(* The command gate lets one call in at a time. *)
LEMMA GateStep ==
  TypeOK /\ OneInTheGate /\ [Next]_vars => OneInTheGate'
<1> SUFFICES ASSUME TypeOK, OneInTheGate, [Next]_vars PROVE OneInTheGate'
  OBVIOUS
<1> USE CallAssumption DEF TypeOK, callVars, dataVars, ntfyVars, OneInTheGate, Gated
<1>1. ASSUME NEW c \in Call, transfer(c) PROVE OneInTheGate'
  BY <1>1 DEF transfer, Move
<1>2. ASSUME NEW c \in Call, transferGated(c) PROVE OneInTheGate'
  BY <1>2 DEF transferGated, Move, GateFree, GateEnabled
<1>3. ASSUME NEW c \in Call, i801_access(c) PROVE OneInTheGate'
  BY <1>3 DEF i801_access, LoadData, i801_set_block_buffer_mode, Move
<1>4. ASSUME NEW c \in Call, CheckPreFails(c) PROVE OneInTheGate'
  BY <1>4 DEF CheckPreFails, Move
<1>5. ASSUME NEW c \in Call, StartAndSleep(c) PROVE OneInTheGate'
  BY <1>5 DEF StartAndSleep, Move, i801_check_pre
<1>6. ASSUME NEW c \in Call, TakeStatus(c) PROVE OneInTheGate'
  BY <1>6 DEF TakeStatus, Move, GateFree
<1>7. ASSUME NEW c \in Call, TimeOut(c) PROVE OneInTheGate'
  BY <1>7 DEF TimeOut, Move, GateFree
<1>8. ASSUME NEW c \in Call, LeaveAccess(c) PROVE OneInTheGate'
  BY <1>8 DEF LeaveAccess, Move, Retry, CountTry, BufferOff
<1>9. CASE HandleHostNotify
  BY <1>9 DEF HandleHostNotify, handleHostNotifyThreaded, Move, GateFree
<1>10. CASE HandleCompletion
  BY <1>10 DEF HandleCompletion, InterruptPending, commandWakeup, GateFree
<1>11. CASE DisableHostNotify
  BY <1>11 DEF DisableHostNotify
<1>12. CASE DisableCommandGate
  BY <1>12 DEF DisableCommandGate, GateFree
<1>13. CASE EnableCommandGate
  BY <1>13 DEF EnableCommandGate
<1>14. CASE EnableHostNotify
  BY <1>14 DEF EnableHostNotify
<1>15. CASE HostCompletes
  BY <1>15 DEF HostCompletes
<1>16. CASE TouchpadNotifies
  BY <1>16 DEF TouchpadNotifies
<1>17. CASE PowerIsLost
  BY <1>17 DEF PowerIsLost
<1>18. CASE UNCHANGED vars
  BY <1>18 DEF vars
<1>19. QED
  BY <1>1, <1>2, <1>3, <1>4, <1>5, <1>6, <1>7, <1>8, <1>9,
     <1>10, <1>11, <1>12, <1>13, <1>14, <1>15, <1>16, <1>17, <1>18
     DEF Next, Progress, handleInterrupt, setPowerState, Environment

(* The host and the fate of every transaction agree, and whoever is woken  *)
(* has been served.                                                        *)
LEMMA WireStep ==
  TypeOK /\ Wire /\ [Next]_vars => Wire'
<1> SUFFICES ASSUME TypeOK, Wire, [Next]_vars PROVE Wire'
  OBVIOUS
<1> USE CallAssumption
    DEF TypeOK, callVars, dataVars, ntfyVars, Wire, OpenIsInFlight, SleeperHasStarted,
        WokenIsOver, FlagsAreOfThisTransaction
<1>1. ASSUME NEW c \in Call, transfer(c) PROVE Wire'
  BY <1>1 DEF transfer, Move
<1>2. ASSUME NEW c \in Call, transferGated(c) PROVE Wire'
  BY <1>2 DEF transferGated, Move, GateFree, GateEnabled
<1>3. ASSUME NEW c \in Call, i801_access(c) PROVE Wire'
  BY <1>3 DEF i801_access, LoadData, i801_set_block_buffer_mode, Move
<1>4. ASSUME NEW c \in Call, CheckPreFails(c) PROVE Wire'
  BY <1>4 DEF CheckPreFails, Move
<1>5. ASSUME NEW c \in Call, StartAndSleep(c) PROVE Wire'
  BY <1>5 DEF StartAndSleep, Move, i801_check_pre
<1>6. ASSUME NEW c \in Call, TakeStatus(c) PROVE Wire'
  BY <1>6 DEF TakeStatus, Move, GateFree
<1>7. ASSUME NEW c \in Call, TimeOut(c) PROVE Wire'
  BY <1>7 DEF TimeOut, Move, GateFree
<1>8. ASSUME NEW c \in Call, LeaveAccess(c) PROVE Wire'
  BY <1>8 DEF LeaveAccess, Move, Retry, CountTry, BufferOff
<1>9. CASE HandleHostNotify
  BY <1>9 DEF HandleHostNotify, handleHostNotifyThreaded, Move, GateFree
<1>10. CASE HandleCompletion
  BY <1>10 DEF HandleCompletion, InterruptPending, commandWakeup, GateFree
<1>11. CASE DisableHostNotify
  BY <1>11 DEF DisableHostNotify
<1>12. CASE DisableCommandGate
  BY <1>12 DEF DisableCommandGate, GateFree
<1>13. CASE EnableCommandGate
  BY <1>13 DEF EnableCommandGate
<1>14. CASE EnableHostNotify
  BY <1>14 DEF EnableHostNotify
<1>15. CASE HostCompletes
  BY <1>15 DEF HostCompletes
<1>16. CASE TouchpadNotifies
  BY <1>16 DEF TouchpadNotifies
<1>17. CASE PowerIsLost
  BY <1>17 DEF PowerIsLost
<1>18. CASE UNCHANGED vars
  BY <1>18 DEF vars
<1>19. QED
  BY <1>1, <1>2, <1>3, <1>4, <1>5, <1>6, <1>7, <1>8, <1>9,
     <1>10, <1>11, <1>12, <1>13, <1>14, <1>15, <1>16, <1>17, <1>18
     DEF Next, Progress, handleInterrupt, setPowerState, Environment

(* The block buffer is on only for a block operation in progress. *)
LEMMA BufferStep ==
  TypeOK /\ BlockBufferScoped /\ [Next]_vars => BlockBufferScoped'
<1> SUFFICES ASSUME TypeOK, BlockBufferScoped, [Next]_vars PROVE BlockBufferScoped'
  OBVIOUS
<1> USE CallAssumption
    DEF TypeOK, callVars, dataVars, ntfyVars, BlockBufferScoped, Inside, Gated, Blocks
<1>1. ASSUME NEW c \in Call, transfer(c) PROVE BlockBufferScoped'
  BY <1>1 DEF transfer, Move
<1>2. ASSUME NEW c \in Call, transferGated(c) PROVE BlockBufferScoped'
  BY <1>2 DEF transferGated, Move, GateFree, GateEnabled
<1>3. ASSUME NEW c \in Call, i801_access(c) PROVE BlockBufferScoped'
  BY <1>3 DEF i801_access, LoadData, i801_set_block_buffer_mode, Move
<1>4. ASSUME NEW c \in Call, CheckPreFails(c) PROVE BlockBufferScoped'
  BY <1>4 DEF CheckPreFails, Move
<1>5. ASSUME NEW c \in Call, StartAndSleep(c) PROVE BlockBufferScoped'
  BY <1>5 DEF StartAndSleep, Move, i801_check_pre
<1>6. ASSUME NEW c \in Call, TakeStatus(c) PROVE BlockBufferScoped'
  BY <1>6 DEF TakeStatus, Move, GateFree
<1>7. ASSUME NEW c \in Call, TimeOut(c) PROVE BlockBufferScoped'
  BY <1>7 DEF TimeOut, Move, GateFree
<1>8. ASSUME NEW c \in Call, LeaveAccess(c) PROVE BlockBufferScoped'
  BY <1>8 DEF LeaveAccess, Move, Retry, CountTry, BufferOff
<1>9. CASE HandleHostNotify
  BY <1>9 DEF HandleHostNotify, handleHostNotifyThreaded, Move, GateFree
<1>10. CASE HandleCompletion
  BY <1>10 DEF HandleCompletion, InterruptPending, commandWakeup, GateFree
<1>11. CASE DisableHostNotify
  BY <1>11 DEF DisableHostNotify
<1>12. CASE DisableCommandGate
  BY <1>12 DEF DisableCommandGate, GateFree
<1>13. CASE EnableCommandGate
  BY <1>13 DEF EnableCommandGate
<1>14. CASE EnableHostNotify
  BY <1>14 DEF EnableHostNotify
<1>15. CASE HostCompletes
  BY <1>15 DEF HostCompletes
<1>16. CASE TouchpadNotifies
  BY <1>16 DEF TouchpadNotifies
<1>17. CASE PowerIsLost
  BY <1>17 DEF PowerIsLost
<1>18. CASE UNCHANGED vars
  BY <1>18 DEF vars
<1>19. QED
  BY <1>1, <1>2, <1>3, <1>4, <1>5, <1>6, <1>7, <1>8, <1>9,
     <1>10, <1>11, <1>12, <1>13, <1>14, <1>15, <1>16, <1>17, <1>18
     DEF Next, Progress, handleInterrupt, setPowerState, Environment

(* No PEC error is left once a transaction was started. *)
LEMMA PecStep ==
  TypeOK /\ Pec /\ [Next]_vars => Pec'
<1> SUFFICES ASSUME TypeOK, Pec, [Next]_vars PROVE Pec'
  OBVIOUS
<1> USE CallAssumption
    DEF TypeOK, callVars, dataVars, ntfyVars, Pec, NoPecErrorWhileAsleep,
        StalePecErrorNotBlamed, i801_check_post
<1>1. ASSUME NEW c \in Call, transfer(c) PROVE Pec'
  BY <1>1 DEF transfer, Move
<1>2. ASSUME NEW c \in Call, transferGated(c) PROVE Pec'
  BY <1>2 DEF transferGated, Move, GateFree, GateEnabled
<1>3. ASSUME NEW c \in Call, i801_access(c) PROVE Pec'
  BY <1>3 DEF i801_access, LoadData, i801_set_block_buffer_mode, Move
<1>4. ASSUME NEW c \in Call, CheckPreFails(c) PROVE Pec'
  BY <1>4 DEF CheckPreFails, Move
<1>5. ASSUME NEW c \in Call, StartAndSleep(c) PROVE Pec'
  BY <1>5 DEF StartAndSleep, Move, i801_check_pre
<1>6. ASSUME NEW c \in Call, TakeStatus(c) PROVE Pec'
  BY <1>6 DEF TakeStatus, Move, GateFree
<1>7. ASSUME NEW c \in Call, TimeOut(c) PROVE Pec'
  BY <1>7 DEF TimeOut, Move, GateFree
<1>8. ASSUME NEW c \in Call, LeaveAccess(c) PROVE Pec'
  BY <1>8 DEF LeaveAccess, Move, Retry, CountTry, BufferOff
<1>9. CASE HandleHostNotify
  BY <1>9 DEF HandleHostNotify, handleHostNotifyThreaded, Move, GateFree
<1>10. CASE HandleCompletion
  BY <1>10 DEF HandleCompletion, InterruptPending, commandWakeup, GateFree
<1>11. CASE DisableHostNotify
  BY <1>11 DEF DisableHostNotify
<1>12. CASE DisableCommandGate
  BY <1>12 DEF DisableCommandGate, GateFree
<1>13. CASE EnableCommandGate
  BY <1>13 DEF EnableCommandGate
<1>14. CASE EnableHostNotify
  BY <1>14 DEF EnableHostNotify
<1>15. CASE HostCompletes
  BY <1>15 DEF HostCompletes
<1>16. CASE TouchpadNotifies
  BY <1>16 DEF TouchpadNotifies
<1>17. CASE PowerIsLost
  BY <1>17 DEF PowerIsLost
<1>18. CASE UNCHANGED vars
  BY <1>18 DEF vars
<1>19. QED
  BY <1>1, <1>2, <1>3, <1>4, <1>5, <1>6, <1>7, <1>8, <1>9,
     <1>10, <1>11, <1>12, <1>13, <1>14, <1>15, <1>16, <1>17, <1>18
     DEF Next, Progress, handleInterrupt, setPowerState, Environment

(* With the gate disabled only a retry is on its way to the host. *)
LEMMA OffStep ==
  TypeOK /\ OffMeansRetry /\ [Next]_vars => OffMeansRetry'
<1> SUFFICES ASSUME TypeOK, OffMeansRetry, [Next]_vars PROVE OffMeansRetry'
  OBVIOUS
<1> USE CallAssumption DEF TypeOK, callVars, dataVars, ntfyVars, OffMeansRetry, Gated
<1>1. ASSUME NEW c \in Call, transfer(c) PROVE OffMeansRetry'
  BY <1>1 DEF transfer, Move
<1>2. ASSUME NEW c \in Call, transferGated(c) PROVE OffMeansRetry'
  BY <1>2 DEF transferGated, Move, GateFree, GateEnabled
<1>3. ASSUME NEW c \in Call, i801_access(c) PROVE OffMeansRetry'
  BY <1>3 DEF i801_access, LoadData, i801_set_block_buffer_mode, Move
<1>4. ASSUME NEW c \in Call, CheckPreFails(c) PROVE OffMeansRetry'
  BY <1>4 DEF CheckPreFails, Move
<1>5. ASSUME NEW c \in Call, StartAndSleep(c) PROVE OffMeansRetry'
  BY <1>5 DEF StartAndSleep, Move, i801_check_pre
<1>6. ASSUME NEW c \in Call, TakeStatus(c) PROVE OffMeansRetry'
  BY <1>6 DEF TakeStatus, Move, GateFree
<1>7. ASSUME NEW c \in Call, TimeOut(c) PROVE OffMeansRetry'
  BY <1>7 DEF TimeOut, Move, GateFree
<1>8. ASSUME NEW c \in Call, LeaveAccess(c) PROVE OffMeansRetry'
  BY <1>8 DEF LeaveAccess, Move, Retry, CountTry, BufferOff
<1>9. CASE HandleHostNotify
  BY <1>9 DEF HandleHostNotify, handleHostNotifyThreaded, Move, GateFree
<1>10. CASE HandleCompletion
  BY <1>10 DEF HandleCompletion, InterruptPending, commandWakeup, GateFree
<1>11. CASE DisableHostNotify
  BY <1>11 DEF DisableHostNotify
<1>12. CASE DisableCommandGate
  BY <1>12 DEF DisableCommandGate, GateFree
<1>13. CASE EnableCommandGate
  BY <1>13 DEF EnableCommandGate
<1>14. CASE EnableHostNotify
  BY <1>14 DEF EnableHostNotify
<1>15. CASE HostCompletes
  BY <1>15 DEF HostCompletes
<1>16. CASE TouchpadNotifies
  BY <1>16 DEF TouchpadNotifies
<1>17. CASE PowerIsLost
  BY <1>17 DEF PowerIsLost
<1>18. CASE UNCHANGED vars
  BY <1>18 DEF vars
<1>19. QED
  BY <1>1, <1>2, <1>3, <1>4, <1>5, <1>6, <1>7, <1>8, <1>9,
     <1>10, <1>11, <1>12, <1>13, <1>14, <1>15, <1>16, <1>17, <1>18
     DEF Next, Progress, handleInterrupt, setPowerState, Environment

(* Before the gate no call has had a transaction, behind one that is       *)
(* disabled each has, and the end of one interrupts.                       *)
Started == NotStarted /\ OffMeansStarted /\ HostInterrupts

LEMMA StartedStep ==
  ASSUME TypeOK, OpenIsInFlight, SleeperHasStarted, WokenIsOver, Started, [Next]_vars
  PROVE  Started'
<1> USE CallAssumption
    DEF TypeOK, callVars, dataVars, ntfyVars, Gated, OpenIsInFlight, SleeperHasStarted, WokenIsOver,
        Started, NotStarted, OffMeansStarted, HostInterrupts
<1>1. ASSUME NEW c \in Call, transfer(c) PROVE Started'
  BY <1>1 DEF transfer, Move
<1>2. ASSUME NEW c \in Call, transferGated(c) PROVE Started'
  BY <1>2 DEF transferGated, Move, GateFree, GateEnabled
<1>3. ASSUME NEW c \in Call, i801_access(c) PROVE Started'
  BY <1>3 DEF i801_access, LoadData, i801_set_block_buffer_mode, Move
<1>4. ASSUME NEW c \in Call, CheckPreFails(c) PROVE Started'
  BY <1>4 DEF CheckPreFails, Move
<1>5. ASSUME NEW c \in Call, StartAndSleep(c) PROVE Started'
  BY <1>5 DEF StartAndSleep, Move, i801_check_pre
<1>6. ASSUME NEW c \in Call, TakeStatus(c) PROVE Started'
  BY <1>6 DEF TakeStatus, Move, GateFree
<1>7. ASSUME NEW c \in Call, TimeOut(c) PROVE Started'
  BY <1>7 DEF TimeOut, Move, GateFree
<1>8. ASSUME NEW c \in Call, LeaveAccess(c) PROVE Started'
  BY <1>8 DEF LeaveAccess, Move, Retry, CountTry, BufferOff
<1>9. CASE HandleHostNotify
  BY <1>9 DEF HandleHostNotify, handleHostNotifyThreaded, Move, GateFree
<1>10. CASE HandleCompletion
  BY <1>10 DEF HandleCompletion, InterruptPending, commandWakeup, GateFree
<1>11. CASE DisableHostNotify
  BY <1>11 DEF DisableHostNotify
<1>12. CASE DisableCommandGate
  BY <1>12 DEF DisableCommandGate, GateFree
<1>13. CASE EnableCommandGate
  BY <1>13 DEF EnableCommandGate
<1>14. CASE EnableHostNotify
  BY <1>14 DEF EnableHostNotify
<1>15. CASE HostCompletes
  BY <1>15 DEF HostCompletes
<1>16. CASE TouchpadNotifies
  BY <1>16 DEF TouchpadNotifies
<1>17. CASE PowerIsLost
  BY <1>17 DEF PowerIsLost
<1>18. CASE UNCHANGED vars
  BY <1>18 DEF vars
<1>19. QED
  BY <1>1, <1>2, <1>3, <1>4, <1>5, <1>6, <1>7, <1>8, <1>9,
     <1>10, <1>11, <1>12, <1>13, <1>14, <1>15, <1>16, <1>17, <1>18
     DEF Next, Progress, handleInterrupt, setPowerState, Environment

LEMMA InvariantInit == Init => IInv
<1> SUFFICES ASSUME Init PROVE IInv
  OBVIOUS
<1>1. TypeOK
  BY TypeInit
<1>2. QED
  BY <1>1, CallAssumption
     DEF IInv, Init, OneInTheGate, OpenIsInFlight, SleeperHasStarted, WokenIsOver,
         NoPecErrorWhileAsleep, OffMeansRetry, NotStarted, OffMeansStarted, HostInterrupts,
         FlagsAreOfThisTransaction, BlockBufferScoped, StalePecErrorNotBlamed, Gated

LEMMA InvariantStep == IInv /\ [Next]_vars => IInv'
BY TypeStep, GateStep, WireStep, BufferStep, PecStep, OffStep, StartedStep DEF IInv, Wire, Pec, Started

(* IInv is inductive, and so holds in every state. *)
THEOREM Invariance == Spec => []IInv
<1>1. Init => IInv
  BY InvariantInit
<1>2. IInv /\ [Next]_vars => IInv'
  BY InvariantStep
<1>3. QED
  BY <1>1, <1>2, PTL DEF Spec

(* The flags in SMBHSTSTS are never those of an earlier transaction than   *)
(* the one on the wire: i801_check_pre cannot be overtaken, because it and *)
(* the start of the transaction run under one hold of the gate.            *)
THEOREM FlagsAreCurrent == Spec => []FlagsAreOfThisTransaction
<1>1. IInv => FlagsAreOfThisTransaction
  BY DEF IInv
<1>2. QED
  BY <1>1, Invariance, PTL

(* A call of transfer reports success only after its own transaction is    *)
(* over, whoever's interrupt woke it.                                      *)
THEOREM SuccessIsAfterCompletion == Spec => []SuccessAfterCompletion
<1>1. IInv => SuccessAfterCompletion
  BY DEF IInv, WokenIsOver, SuccessAfterCompletion
<1>2. QED
  BY <1>1, Invariance, PTL

(* Every way out of i801_access turns the block buffer off again, unless   *)
(* another block operation is in progress.                                 *)
THEOREM BlockBufferIsScoped == Spec => []BlockBufferScoped
<1>1. IInv => BlockBufferScoped
  BY DEF IInv
<1>2. QED
  BY <1>1, Invariance, PTL

(* No call returns EBADMSG. *)
THEOREM NoStalePecError == Spec => []StalePecErrorNotBlamed
<1>1. IInv => StalePecErrorNotBlamed
  BY DEF IInv
<1>2. QED
  BY <1>1, Invariance, PTL

(* Only StartAndSleep gives the host a transaction. *)
LEMMA StartedByItself ==
  ASSUME Next, NEW c \in Call, inflight' = c, inflight # c
  PROVE  StartAndSleep(c)
BY CallAssumption
   DEF Next, Progress, handleInterrupt, setPowerState, Environment, transfer, transferGated,
       i801_access, LoadData, i801_set_block_buffer_mode, CheckPreFails, StartAndSleep,
       TakeStatus, TimeOut, LeaveAccess,
       HandleHostNotify, HandleCompletion, DisableHostNotify, DisableCommandGate,
       EnableCommandGate, EnableHostNotify, HostCompletes, TouchpadNotifies, PowerIsLost

(* After disableCommandGate only a retry for lost arbitration starts the   *)
(* host.                                                                   *)
THEOREM OffOnlyRetries == Spec => OffStartsOnlyRetries
<1>1. IInv /\ [Next]_vars =>
        [\A c \in Call : pm = "off" /\ inflight' = c /\ inflight # c => try[c] > 0]_vars
  <2> SUFFICES ASSUME IInv, Next, NEW c \in Call, pm = "off", inflight' = c, inflight # c
               PROVE  try[c] > 0
    BY DEF vars
  <2>1. StartAndSleep(c)
    BY StartedByItself
  <2>2. QED
    BY <2>1 DEF IInv, OffMeansRetry, StartAndSleep, Move
<1>2. QED
  BY <1>1, Invariance, PTL DEF Spec, OffStartsOnlyRetries

(* A move to a stage nearer to the return, or one more try.                *)
LEMMA StageNearer ==
  ASSUME TypeOK, TypeOK', NEW c \in Call,
         \/ try'[c] = try[c] /\ StagesLeft[pc'[c]] < StagesLeft[pc[c]]
         \/ try'[c] = try[c] + 1 /\ pc[c] = "post" /\ pc'[c] = "setup"
  PROVE  StepsLeft(c)' < StepsLeft(c)
<1>1. /\ try[c] \in 0..Retries /\ try'[c] \in 0..Retries
      /\ StagesLeft[pc[c]] \in 0..7 /\ StagesLeft[pc'[c]] \in 0..7
  BY DEF TypeOK, Stage, StagesLeft
<1>2. StagesLeft["post"] = 1 /\ StagesLeft["setup"] = 5
  BY DEF StagesLeft
<1>3. QED
  BY <1>1, <1>2, RetriesAssumption DEF StepsLeft

(* Nobody takes a call of transfer back: each of its steps, also a retry,  *)
(* brings it nearer to its return, for any number of calls and retries.    *)
THEOREM EveryStepAdvances == Spec => CallsAdvance
<1>1. TypeOK /\ TypeOK' /\ [Next]_vars =>
        [\A c \in Call : <<pc[c], try[c]>>' # <<pc[c], try[c]>> => StepsLeft(c)' < StepsLeft(c)]_vars
  <2> SUFFICES ASSUME TypeOK, TypeOK', Next, NEW c \in Call,
                      <<pc[c], try[c]>>' # <<pc[c], try[c]>>
               PROVE  \/ try'[c] = try[c] /\ StagesLeft[pc'[c]] < StagesLeft[pc[c]]
                      \/ try'[c] = try[c] + 1 /\ pc[c] = "post" /\ pc'[c] = "setup"
    BY StageNearer DEF vars
  <2> USE CallAssumption DEF TypeOK, callVars, dataVars, ntfyVars, Move, StagesLeft
  <2>1. ASSUME NEW d \in Call, transfer(d) \/ transferGated(d)
        PROVE  try'[c] = try[c] /\ (pc'[c] # pc[c] => StagesLeft[pc'[c]] < StagesLeft[pc[c]])
    BY <2>1 DEF transfer, transferGated
  <2>2. ASSUME NEW d \in Call, i801_access(d) \/ CheckPreFails(d) \/ StartAndSleep(d)
        PROVE  try'[c] = try[c] /\ (pc'[c] # pc[c] => StagesLeft[pc'[c]] < StagesLeft[pc[c]])
    BY <2>2 DEF i801_access, CheckPreFails, StartAndSleep
  <2>3. ASSUME NEW d \in Call, TakeStatus(d) \/ TimeOut(d)
        PROVE  try'[c] = try[c] /\ (pc'[c] # pc[c] => StagesLeft[pc'[c]] < StagesLeft[pc[c]])
    BY <2>3 DEF TakeStatus, TimeOut
  <2>4. ASSUME NEW d \in Call, LeaveAccess(d)
        PROVE  \/ try'[c] = try[c] /\ (pc'[c] # pc[c] => StagesLeft[pc'[c]] < StagesLeft[pc[c]])
               \/ try'[c] = try[c] + 1 /\ pc[c] = "post" /\ pc'[c] = "setup"
    BY <2>4 DEF LeaveAccess, Retry, CountTry
  <2>5. CASE HandleHostNotify
    <3>1. try' = try
      BY <2>5 DEF HandleHostNotify
    <3>2. pc'[c] # pc[c] => pc[c] = "new" /\ pc'[c] = "gate"
      BY <2>5 DEF HandleHostNotify, handleHostNotifyThreaded
    <3>3. QED
      BY <3>1, <3>2
  <2>6. CASE HandleCompletion
    BY <2>6 DEF HandleCompletion, commandWakeup
  <2>7. CASE setPowerState
    BY <2>7 DEF setPowerState, DisableHostNotify, DisableCommandGate, EnableCommandGate,
                EnableHostNotify
  <2>8. CASE Environment
    BY <2>8 DEF Environment, HostCompletes, TouchpadNotifies, PowerIsLost
  <2>9. QED
    BY <2>1, <2>2, <2>3, <2>4, <2>5, <2>6, <2>7, <2>8 DEF Next, Progress, handleInterrupt
<1>2. QED
  BY <1>1, TypeCorrect, PTL DEF Spec, CallsAdvance

-----------------------------------------------------------------------------
(* The refinement: what a step does to the gate, the sleepers and the host *)
(* is a step of GateCalls or nothing.                                      *)

LEMMA GateCallsInit == Init => Calls!Init
BY CallAssumption DEF Init, Calls!Init, GateStage, Gated

(* What GateCalls sees does not change when none of the variables it is    *)
(* computed from do.                                                       *)
LEMMA SameGateView ==
  ASSUME UNCHANGED <<hststs, hstint, inflight, pm>>,
         \A c \in Call : GateStage(c)' = GateStage(c)
  PROVE  UNCHANGED Calls!gateCallVars
BY DEF Calls!gateCallVars

LEMMA GateCallsStep ==
  ASSUME IInv, [Next]_vars
  PROVE  [Calls!Next]_(Calls!gateCallVars)
<1> USE CallAssumption DEF IInv, TypeOK, callVars, dataVars, ntfyVars, GateStage, Gated
<1>1. ASSUME NEW c \in Call, transfer(c) PROVE [Calls!Next]_(Calls!gateCallVars)
  <2>1. Calls!Ask(c)
    BY <1>1 DEF transfer, Move, NotStarted, Calls!Ask, Calls!Stage
  <2>2. QED
    BY <2>1 DEF Calls!Next
<1>2. ASSUME NEW c \in Call, transferGated(c) \/ i801_access(c)
      PROVE  UNCHANGED Calls!gateCallVars
  BY <1>2, SameGateView DEF transferGated, i801_access, Move, NotStarted
<1>3. ASSUME NEW c \in Call, CheckPreFails(c) PROVE [Calls!Next]_(Calls!gateCallVars)
  <2>1. \A d \in Call : GateStage(d)' = GateStage(d)
    BY <1>3 DEF CheckPreFails, Move
  <2>2. CASE hststs' = hststs
    BY <1>3, <2>1, <2>2, SameGateView DEF CheckPreFails
  <2>3. CASE hststs' = {} /\ hststs # {} /\ hstint
    <3>1. Calls!LoseEnd
      BY <1>3, <2>1, <2>3 DEF CheckPreFails, Move, Calls!LoseEnd
    <3>2. QED
      BY <3>1 DEF Calls!Next
  <2>4. CASE hststs' = {} /\ ~ hstint
    BY <1>3, <2>1, <2>4 DEF CheckPreFails, Calls!gateCallVars
  <2>5. QED
    BY <1>3, <2>2, <2>3, <2>4 DEF CheckPreFails
<1>4. ASSUME NEW c \in Call, StartAndSleep(c) PROVE [Calls!Next]_(Calls!gateCallVars)
  <2>1. /\ inflight = NoCall /\ inflight' = c /\ hststs' = {} /\ pm' = pm
        /\ bus[c] = "none" => pm # "off"
    BY <1>4 DEF StartAndSleep, Move, i801_check_pre, OffMeansStarted
  <2>2. /\ GateStage(c)' = "sleep"
        /\ GateStage(c) = IF bus[c] = "none" THEN "ask" ELSE "wake"
        /\ \A d \in Call : d # c => GateStage(d)' = GateStage(d)
    BY <1>4 DEF StartAndSleep, Move
  <2>3. Calls!Start(c)
    BY <2>1, <2>2 DEF Calls!Start, Calls!Stage
  <2>4. QED
    BY <2>3 DEF Calls!Next
<1>5. ASSUME NEW c \in Call, TakeStatus(c) PROVE [Calls!Next]_(Calls!gateCallVars)
  <2>1. \A d \in Call : GateStage(d)' = GateStage(d)
    BY <1>5 DEF TakeStatus, Move, WokenIsOver
  <2>2. GateStage(c) = "wake" /\ UNCHANGED <<pm, inflight, hstint>> /\ hststs' \subseteq hststs
    BY <1>5 DEF TakeStatus, Move
  <2>3. CASE hststs' = {} /\ hststs # {} /\ hstint
    <3>1. Calls!LoseEnd
      BY <2>1, <2>2, <2>3 DEF Calls!LoseEnd
    <3>2. QED
      BY <3>1 DEF Calls!Next
  <2>4. CASE ~ (hststs' = {} /\ hststs # {} /\ hstint)
    BY <2>1, <2>2, <2>4 DEF Calls!gateCallVars
  <2>5. QED
    BY <2>3, <2>4
<1>6. ASSUME NEW c \in Call, TimeOut(c) PROVE [Calls!Next]_(Calls!gateCallVars)
  <2>1. CASE pc[c] = "sleep"
    <3>1. /\ GateStage(c) = "sleep" /\ GateStage(c)' = "wake"
          /\ \A d \in Call : d # c => GateStage(d)' = GateStage(d)
      BY <1>6, <2>1 DEF TimeOut, Move, SleeperHasStarted
    <3>2. Calls!TimeOut(c)
      BY <1>6, <3>1 DEF TimeOut, Calls!TimeOut, Calls!Stage
    <3>3. QED
      BY <3>2 DEF Calls!Next
  <2>2. CASE pc[c] = "wake"
    BY <1>6, <2>2, SameGateView DEF TimeOut, Move, WokenIsOver
  <2>3. QED
    BY <1>6, <2>1, <2>2 DEF TimeOut, Move
<1>7. ASSUME NEW c \in Call, LeaveAccess(c) PROVE [Calls!Next]_(Calls!gateCallVars)
  <2>1. pc[c] = "post" /\ UNCHANGED <<bus, pm, hststs, hstint, inflight>>
    BY <1>7 DEF LeaveAccess, Move
  <2>2. CASE pc'[c] = "setup"
    BY <1>7, <2>1, <2>2, SameGateView DEF LeaveAccess, Move
  <2>3. CASE pc'[c] = "done"
    <3>1. /\ GateStage(c)' = "done"
          /\ GateStage(c) = IF bus[c] = "none" THEN "ask" ELSE "wake"
          /\ \A d \in Call : d # c => GateStage(d)' = GateStage(d)
      BY <1>7, <2>1, <2>3 DEF LeaveAccess, Move
    <3>2. bus[c] = "none" => pm # "off"
      BY <2>1 DEF OffMeansStarted
    <3>3. Calls!Return(c)
      BY <2>1, <3>1, <3>2 DEF Calls!Return, Calls!Stage
    <3>4. QED
      BY <3>3 DEF Calls!Next
  <2>4. QED
    BY <1>7, <2>2, <2>3 DEF LeaveAccess, Move
<1>8. CASE HandleHostNotify
  <2>1. ASSUME NEW n \in NotifyCall, handleHostNotifyThreaded(n) PROVE Calls!Ask(n)
    BY <1>8, <2>1
    DEF HandleHostNotify, handleHostNotifyThreaded, Move, NotStarted, Calls!Ask, Calls!Stage
  <2>2. ASSUME UNCHANGED <<pc, op>> PROVE UNCHANGED Calls!gateCallVars
    BY <1>8, <2>2, SameGateView DEF HandleHostNotify
  <2>3. QED
    BY <1>8, <2>1, <2>2 DEF HandleHostNotify, Calls!Next
<1>9. CASE HandleCompletion
  <2>1. \A c \in Call : GateStage(c)' = IF GateStage(c) = "sleep" THEN "wake" ELSE GateStage(c)
    BY <1>9 DEF HandleCompletion, commandWakeup
  <2>2. hststs # {} /\ hstint /\ hststs' = {} /\ UNCHANGED <<pm, inflight, hstint>>
    BY <1>9 DEF HandleCompletion, InterruptPending
  <2>3. Calls!WakeAll
    BY <2>1, <2>2 DEF Calls!WakeAll
  <2>4. QED
    BY <2>3 DEF Calls!Next
<1>10. CASE DisableCommandGate \/ EnableCommandGate
  <2>1. Calls!SetGate
    BY <1>10 DEF DisableCommandGate, EnableCommandGate, Calls!SetGate
  <2>2. QED
    BY <2>1 DEF Calls!Next
<1>11. CASE DisableHostNotify \/ EnableHostNotify
  BY <1>11 DEF DisableHostNotify, EnableHostNotify, Calls!gateCallVars
<1>12. CASE HostCompletes
  <2>1. \A c \in Call : GateStage(c)' = GateStage(c)
    BY <1>12 DEF HostCompletes, OpenIsInFlight
  <2>2. /\ inflight \in Call /\ inflight' = NoCall /\ UNCHANGED <<pm, hstint>>
        /\ hststs' # {} /\ hstint
    BY <1>12 DEF HostCompletes, HostInterrupts
  <2>3. Calls!HostCompletes
    BY <2>1, <2>2 DEF Calls!HostCompletes
  <2>4. QED
    BY <2>3 DEF Calls!Next
<1>13. CASE TouchpadNotifies
  BY <1>13, SameGateView DEF TouchpadNotifies
<1>14. CASE PowerIsLost
  <2>1. \A c \in Call : GateStage(c)' = GateStage(c)
    BY <1>14 DEF PowerIsLost, OpenIsInFlight, NotStarted
  <2>2. Calls!PowerIsLost
    BY <1>14, <2>1 DEF PowerIsLost, Calls!PowerIsLost
  <2>3. QED
    BY <2>2 DEF Calls!Next
<1>15. CASE UNCHANGED vars
  BY <1>15, SameGateView DEF vars
<1>16. QED
  BY <1>1, <1>2, <1>3, <1>4, <1>5, <1>6, <1>7, <1>8, <1>9, <1>10, <1>11, <1>12, <1>13, <1>14,
     <1>15 DEF Next, Progress, handleInterrupt, setPowerState, Environment

(* Every call of transfer, for any number of them, behaves towards gate    *)
(* and host as the life cycle of the driver takes for granted.             *)
THEOREM CallsImplementGateCalls == Spec => ImplementsGateCalls
<1>1. Init => Calls!Init
  BY GateCallsInit
<1>2. IInv /\ [Next]_vars => [Calls!Next]_(Calls!gateCallVars)
  BY GateCallsStep
<1>3. QED
  BY <1>1, <1>2, Invariance, PTL DEF Spec, ImplementsGateCalls, Calls!Spec

-----------------------------------------------------------------------------
(* What either side can rely on, from GateCalls alone *)

Relied == Calls!TypeOK /\ Calls!OneOnTheWire /\ Calls!NobodyLeavesEarly

LEMMA ReliedInit == Calls!Init => Relied
BY DEF Calls!Init, Relied, Calls!TypeOK, Calls!OneOnTheWire, Calls!NobodyLeavesEarly

LEMMA ReliedStep ==
  ASSUME Relied, [Calls!Next]_(Calls!gateCallVars)
  PROVE  Relied'
<1> USE DEF Relied, Calls!TypeOK, Calls!OneOnTheWire, Calls!NobodyLeavesEarly
<1>1. ASSUME NEW c \in Call, Calls!Ask(c) PROVE Relied'
  BY <1>1 DEF Calls!Ask, Calls!Stage
<1>2. ASSUME NEW c \in Call, Calls!Start(c) PROVE Relied'
  BY <1>2 DEF Calls!Start, Calls!Stage
<1>3. ASSUME NEW c \in Call, Calls!TimeOut(c) PROVE Relied'
  BY <1>3 DEF Calls!TimeOut, Calls!Stage
<1>4. ASSUME NEW c \in Call, Calls!Return(c) PROVE Relied'
  BY <1>4 DEF Calls!Return, Calls!Stage
<1>5. CASE Calls!WakeAll
  BY <1>5 DEF Calls!WakeAll
<1>6. CASE Calls!LoseEnd
  BY <1>6 DEF Calls!LoseEnd
<1>7. CASE Calls!HostCompletes
  BY <1>7 DEF Calls!HostCompletes
<1>8. CASE Calls!PowerIsLost
  BY <1>8 DEF Calls!PowerIsLost
<1>9. CASE Calls!SetGate
  BY <1>9 DEF Calls!SetGate
<1>10. CASE UNCHANGED Calls!gateCallVars
  BY <1>10 DEF Calls!gateCallVars
<1>11. QED
  BY <1>1, <1>2, <1>3, <1>4, <1>5, <1>6, <1>7, <1>8, <1>9, <1>10 DEF Calls!Next

(* The host works for one call at a time, and whose transaction it is      *)
(* sleeps in the gate, unless calls time out.                              *)
THEOREM SleeperOwnsTheWire == Spec => [](Calls!OneOnTheWire /\ Calls!NobodyLeavesEarly)
<1>1. Calls!Init => Relied
  BY ReliedInit
<1>2. Relied /\ [Calls!Next]_(Calls!gateCallVars) => Relied'
  BY ReliedStep
<1>3. Calls!Spec => []Relied
  BY <1>1, <1>2, PTL DEF Calls!Spec
<1>4. Relied => Calls!OneOnTheWire /\ Calls!NobodyLeavesEarly
  BY DEF Relied
<1>5. QED
  BY <1>3, <1>4, CallsImplementGateCalls, PTL DEF ImplementsGateCalls

(* While the gate is closed the host is started only by a call that has    *)
(* slept in it.                                                            *)
THEOREM ClosedGateKeepsQuiet == Spec => Calls!ClosedGateIsQuiet
<1>1. [Calls!Next]_(Calls!gateCallVars) => [Calls!StartsAreLetIn]_(Calls!gateCallVars)
  BY DEF Calls!Next, Calls!Ask, Calls!Start, Calls!TimeOut, Calls!Return, Calls!WakeAll, Calls!LoseEnd,
         Calls!HostCompletes, Calls!PowerIsLost, Calls!SetGate, Calls!Stage,
         Calls!StartsAreLetIn
<1>2. Calls!Spec => Calls!ClosedGateIsQuiet
  BY <1>1, PTL DEF Calls!Spec, Calls!ClosedGateIsQuiet
<1>3. QED
  BY <1>2, CallsImplementGateCalls, PTL DEF ImplementsGateCalls

=============================================================================
