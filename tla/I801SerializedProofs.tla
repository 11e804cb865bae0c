------------------------ MODULE I801SerializedProofs ------------------------
(***************************************************************************)
(* Theorems about I801Overlap and I801Serialized, for any number of calls. *)
(* First the driver as it is: what it promises to a call holds as long as  *)
(* the call is alone inside transferGated, and the driver implements       *)
(* SMBusTransfer with the others as the disturbed ones.  Then the driver   *)
(* with one call at a time, in which every call is alone.                  *)
(***************************************************************************)
EXTENDS I801Serialized, I801ControllerProofs

-----------------------------------------------------------------------------
(* Who has met whom *)

(* A step that lets nobody in makes nobody meet. *)
LEMMA NobodyMeets ==
  ASSUME AloneInside, \A c \in Call : pc'[c] \in Inside => pc[c] \in Inside
  PROVE  Meeting \subseteq met
BY DEF AloneInside, Meeting, Lone

(* Those who meet are inside, and at least two. *)
LEMMA MeetingIsTwo ==
  ASSUME Meeting # {}
  PROVE  \E c, d \in Meeting : c # d
BY DEF Meeting

(* Calls only ever cease to be alone, ... *)
LEMMA LoneShrinks ==
  ASSUME [OverlapNext]_overlapVars
  PROVE  Lone' \subseteq Lone
BY DEF OverlapNext, overlapVars, Lone

(* ... and a call that still is has nobody beside it. *)
LEMMA AloneStep ==
  ASSUME AloneInside, [OverlapNext]_overlapVars
  PROVE  AloneInside'
<1>1. CASE OverlapNext
  BY <1>1 DEF OverlapNext, AloneInside, Meeting, Lone
<1>2. CASE UNCHANGED overlapVars
  BY <1>2 DEF overlapVars, vars, callVars, AloneInside, Lone
<1>3. QED
  BY <1>1, <1>2

-----------------------------------------------------------------------------
(* A call that is alone, stage by stage *)

(* No lone call about to start a transaction has had one that succeeded. *)
LEMMA MayStartStep ==
  ASSUME IInv, MayStart, ResultIsTrue, [Next]_vars, Lone' \subseteq Lone
  PROVE  MayStart'
<1> USE CallAssumption
    DEF IInv, Lone, TypeOK, callVars, dataVars, ntfyVars, NotStarted, MayStart, ResultIsTrue,
        OpenIsInFlight, Retry
<1>1. ASSUME NEW c \in Call, transfer(c) PROVE MayStart'
  BY <1>1 DEF transfer, Move
<1>2. ASSUME NEW c \in Call, transferGated(c) PROVE MayStart'
  BY <1>2 DEF transferGated, Move, GateFree, GateEnabled
<1>3. ASSUME NEW c \in Call, i801_access(c) PROVE MayStart'
  BY <1>3 DEF i801_access, LoadData, i801_set_block_buffer_mode, Move
<1>4. ASSUME NEW c \in Call, CheckPreFails(c) PROVE MayStart'
  BY <1>4 DEF CheckPreFails, Move
<1>5. ASSUME NEW c \in Call, StartAndSleep(c) PROVE MayStart'
  BY <1>5 DEF StartAndSleep, Move, i801_check_pre
<1>6. ASSUME NEW c \in Call, TakeStatus(c) PROVE MayStart'
  BY <1>6 DEF TakeStatus, Move, GateFree
<1>7. ASSUME NEW c \in Call, TimeOut(c) PROVE MayStart'
  BY <1>7 DEF TimeOut, Move, GateFree
<1>8. ASSUME NEW c \in Call, LeaveAccess(c) PROVE MayStart'
  BY <1>8 DEF LeaveAccess, Move, Retry, CountTry, BufferOff
<1>9. CASE HandleHostNotify
  BY <1>9 DEF HandleHostNotify, handleHostNotifyThreaded, Move, GateFree
<1>10. CASE HandleCompletion
  BY <1>10 DEF HandleCompletion, InterruptPending, commandWakeup, GateFree
<1>11. CASE DisableHostNotify
  BY <1>11 DEF DisableHostNotify
<1>12. CASE DisableCommandGate
  BY <1>12 DEF DisableCommandGate, GateFree
<1>13. CASE EnableCommandGate
  BY <1>13 DEF EnableCommandGate
<1>14. CASE EnableHostNotify
  BY <1>14 DEF EnableHostNotify
<1>15. CASE HostCompletes
  BY <1>15 DEF HostCompletes
<1>16. CASE TouchpadNotifies
  BY <1>16 DEF TouchpadNotifies
<1>17. CASE PowerIsLost
  BY <1>17 DEF PowerIsLost
<1>18. CASE UNCHANGED vars
  BY <1>18 DEF vars
<1>19. QED
  BY <1>1, <1>2, <1>3, <1>4, <1>5, <1>6, <1>7, <1>8, <1>9,
     <1>10, <1>11, <1>12, <1>13, <1>14, <1>15, <1>16, <1>17, <1>18
     DEF Next, Progress, handleInterrupt, setPowerState, Environment

(* A lone sleeper goes on waiting for its own transaction. *)
LEMMA SleeperStep ==
  ASSUME IInv, AloneInside, AloneInside', Lone' \subseteq Lone, 
         SleeperWaits, PowerStays, [Next]_vars
  PROVE  SleeperWaits'
<1> USE CallAssumption
    DEF IInv, Lone, TypeOK, callVars, dataVars, ntfyVars, AloneInside, SleeperWaits, PowerStays,
        OpenIsInFlight, Inside, Gated, Tells, AnswerReady
<1>1. ASSUME NEW c \in Call, transfer(c) PROVE SleeperWaits'
  BY <1>1 DEF transfer, Move
<1>2. ASSUME NEW c \in Call, transferGated(c) PROVE SleeperWaits'
  BY <1>2 DEF transferGated, Move, GateFree, GateEnabled
<1>3. ASSUME NEW c \in Call, i801_access(c) PROVE SleeperWaits'
  BY <1>3 DEF i801_access, LoadData, i801_set_block_buffer_mode, Move
<1>4. ASSUME NEW c \in Call, CheckPreFails(c) PROVE SleeperWaits'
  BY <1>4 DEF CheckPreFails, Move
<1>5. ASSUME NEW c \in Call, StartAndSleep(c) PROVE SleeperWaits'
  BY <1>5 DEF StartAndSleep, Move, i801_check_pre
<1>6. ASSUME NEW c \in Call, TakeStatus(c) PROVE SleeperWaits'
  BY <1>6 DEF TakeStatus, Move, GateFree
<1>7. ASSUME NEW c \in Call, TimeOut(c) PROVE SleeperWaits'
  BY <1>7 DEF TimeOut, Move, GateFree
<1>8. ASSUME NEW c \in Call, LeaveAccess(c) PROVE SleeperWaits'
  BY <1>8 DEF LeaveAccess, Move, Retry, CountTry, BufferOff
<1>9. CASE HandleHostNotify
  BY <1>9 DEF HandleHostNotify, handleHostNotifyThreaded, Move, GateFree
<1>10. CASE HandleCompletion
  BY <1>10 DEF HandleCompletion, InterruptPending, commandWakeup, GateFree
<1>11. CASE DisableHostNotify
  BY <1>11 DEF DisableHostNotify
<1>12. CASE DisableCommandGate
  BY <1>12 DEF DisableCommandGate, GateFree
<1>13. CASE EnableCommandGate
  BY <1>13 DEF EnableCommandGate
<1>14. CASE EnableHostNotify
  BY <1>14 DEF EnableHostNotify
<1>15. CASE HostCompletes
  <2> SUFFICES ASSUME NEW c \in Lone, pc[c] = "sleep", inflight' # c
               PROVE  /\ inflight' = NoCall
                      /\ Tells(hststs, c)' \/ (hststs' = {} /\ PowerManaged)
    BY <1>15 DEF HostCompletes
  <2>1. inflight = c
    BY <1>15 DEF HostCompletes
  <2>2. QED
    BY <1>15, <2>1 DEF HostCompletes, FlagsAreOfThisTransaction, STATUS_FLAGS
<1>16. CASE TouchpadNotifies
  BY <1>16 DEF TouchpadNotifies
<1>17. CASE PowerIsLost
  BY <1>17 DEF PowerIsLost
<1>18. CASE UNCHANGED vars
  BY <1>18 DEF vars
<1>19. QED
  BY <1>1, <1>2, <1>3, <1>4, <1>5, <1>6, <1>7, <1>8, <1>9,
     <1>10, <1>11, <1>12, <1>13, <1>14, <1>15, <1>16, <1>17, <1>18
     DEF Next, Progress, handleInterrupt, setPowerState, Environment

(* A woken call that was alone finds the flags of its own transaction. *)
LEMMA WokenStep ==
  ASSUME IInv, AloneInside, AloneInside', Lone' \subseteq Lone, 
         SleeperWaits, WokenIsTold, [Next]_vars
  PROVE  WokenIsTold'
<1> USE CallAssumption
    DEF IInv, Lone, TypeOK, callVars, dataVars, ntfyVars, AloneInside, SleeperWaits, WokenIsTold,
        FlagsAreOfThisTransaction, Inside, Gated, Tells, AnswerReady
<1>1. ASSUME NEW c \in Call, transfer(c) PROVE WokenIsTold'
  BY <1>1 DEF transfer, Move
<1>2. ASSUME NEW c \in Call, transferGated(c) PROVE WokenIsTold'
  BY <1>2 DEF transferGated, Move, GateFree, GateEnabled
<1>3. ASSUME NEW c \in Call, i801_access(c) PROVE WokenIsTold'
  BY <1>3 DEF i801_access, LoadData, i801_set_block_buffer_mode, Move
<1>4. ASSUME NEW c \in Call, CheckPreFails(c) PROVE WokenIsTold'
  BY <1>4 DEF CheckPreFails, Move
<1>5. ASSUME NEW c \in Call, StartAndSleep(c) PROVE WokenIsTold'
  BY <1>5 DEF StartAndSleep, Move, i801_check_pre
<1>6. ASSUME NEW c \in Call, TakeStatus(c) PROVE WokenIsTold'
  BY <1>6 DEF TakeStatus, Move, GateFree
<1>7. ASSUME NEW c \in Call, TimeOut(c) PROVE WokenIsTold'
  BY <1>7 DEF TimeOut, Move, GateFree
<1>8. ASSUME NEW c \in Call, LeaveAccess(c) PROVE WokenIsTold'
  BY <1>8 DEF LeaveAccess, Move, Retry, CountTry, BufferOff
<1>9. CASE HandleHostNotify
  BY <1>9 DEF HandleHostNotify, handleHostNotifyThreaded, Move, GateFree
<1>10. CASE HandleCompletion
  BY <1>10 DEF HandleCompletion, InterruptPending, commandWakeup, GateFree
<1>11. CASE DisableHostNotify
  BY <1>11 DEF DisableHostNotify
<1>12. CASE DisableCommandGate
  BY <1>12 DEF DisableCommandGate, GateFree
<1>13. CASE EnableCommandGate
  BY <1>13 DEF EnableCommandGate
<1>14. CASE EnableHostNotify
  BY <1>14 DEF EnableHostNotify
<1>15. CASE HostCompletes
  BY <1>15 DEF HostCompletes
<1>16. CASE TouchpadNotifies
  BY <1>16 DEF TouchpadNotifies
<1>17. CASE PowerIsLost
  BY <1>17 DEF PowerIsLost
<1>18. CASE UNCHANGED vars
  BY <1>18 DEF vars
<1>19. QED
  BY <1>1, <1>2, <1>3, <1>4, <1>5, <1>6, <1>7, <1>8, <1>9,
     <1>10, <1>11, <1>12, <1>13, <1>14, <1>15, <1>16, <1>17, <1>18
     DEF Next, Progress, handleInterrupt, setPowerState, Environment

(* A lone call's result is about its own transaction. *)
LEMMA ResultStep ==
  ASSUME IInv, AloneInside, AloneInside', Lone' \subseteq Lone, 
         WokenIsTold, ResultIsTrue, [Next]_vars
  PROVE  ResultIsTrue'
<1> USE CallAssumption
    DEF IInv, Lone, TypeOK, callVars, dataVars, ntfyVars, AloneInside, WokenIsTold, ResultIsTrue,
        Inside, Gated, Tells, AnswerReady, OpenIsInFlight
<1>1. ASSUME NEW c \in Call, transfer(c) PROVE ResultIsTrue'
  BY <1>1 DEF transfer, Move
<1>2. ASSUME NEW c \in Call, transferGated(c) PROVE ResultIsTrue'
  BY <1>2 DEF transferGated, Move, GateFree, GateEnabled
<1>3. ASSUME NEW c \in Call, i801_access(c) PROVE ResultIsTrue'
  BY <1>3 DEF i801_access, LoadData, i801_set_block_buffer_mode, Move
<1>4. ASSUME NEW c \in Call, CheckPreFails(c) PROVE ResultIsTrue'
  BY <1>4 DEF CheckPreFails, Move
<1>5. ASSUME NEW c \in Call, StartAndSleep(c) PROVE ResultIsTrue'
  BY <1>5 DEF StartAndSleep, Move, i801_check_pre
<1>6. ASSUME NEW c \in Call, TakeStatus(c) PROVE ResultIsTrue'
  <2>1. \A d \in Lone' : d = c \/ pc'[d] # "post"
    BY <1>6 DEF TakeStatus, Move, GateFree
  <2>2. SUFFICES ASSUME c \in Lone
                 PROVE  ResultIsTrue'
    BY <1>6, <2>1 DEF TakeStatus, Move, GateFree
  <2>3. Tells(status, c)
    BY <1>6, <2>2 DEF TakeStatus, Move
  <2>4. i801_check_post(status, crce) = "OK" => status = {"INTR"}
    BY <2>3 DEF i801_check_post, STATUS_ERROR_FLAGS
  <2>5. i801_check_post(status, crce) = "EAGAIN" => status # {"INTR"}
    BY DEF i801_check_post
  <2>6. QED
    BY <1>6, <2>1, <2>2, <2>3, <2>4, <2>5 DEF TakeStatus, Move, GateFree, STATUS_ERROR_FLAGS
<1>7. ASSUME NEW c \in Call, TimeOut(c) PROVE ResultIsTrue'
  BY <1>7 DEF TimeOut, Move, GateFree
<1>8. ASSUME NEW c \in Call, LeaveAccess(c) PROVE ResultIsTrue'
  BY <1>8 DEF LeaveAccess, Move, Retry, CountTry, BufferOff
<1>9. CASE HandleHostNotify
  BY <1>9 DEF HandleHostNotify, handleHostNotifyThreaded, Move, GateFree
<1>10. CASE HandleCompletion
  BY <1>10 DEF HandleCompletion, InterruptPending, commandWakeup, GateFree
<1>11. CASE DisableHostNotify
  BY <1>11 DEF DisableHostNotify
<1>12. CASE DisableCommandGate
  BY <1>12 DEF DisableCommandGate, GateFree
<1>13. CASE EnableCommandGate
  BY <1>13 DEF EnableCommandGate
<1>14. CASE EnableHostNotify
  BY <1>14 DEF EnableHostNotify
<1>15. CASE HostCompletes
  BY <1>15 DEF HostCompletes
<1>16. CASE TouchpadNotifies
  BY <1>16 DEF TouchpadNotifies
<1>17. CASE PowerIsLost
  BY <1>17 DEF PowerIsLost
<1>18. CASE UNCHANGED vars
  BY <1>18 DEF vars
<1>19. QED
  BY <1>1, <1>2, <1>3, <1>4, <1>5, <1>6, <1>7, <1>8, <1>9,
     <1>10, <1>11, <1>12, <1>13, <1>14, <1>15, <1>16, <1>17, <1>18
     DEF Next, Progress, handleInterrupt, setPowerState, Environment

(* And so is what a call has returned. *)
LEMMA SuccessStep ==
  ASSUME IInv, ResultIsTrue, SuccessIsTrue, [Next]_vars, Lone' \subseteq Lone
  PROVE  SuccessIsTrue'
<1> USE CallAssumption
    DEF IInv, Lone, TypeOK, callVars, dataVars, ntfyVars, ResultIsTrue, SuccessIsTrue,
        OpenIsInFlight, AnswerReady, Collected
<1>1. ASSUME NEW c \in Call, transfer(c) PROVE SuccessIsTrue'
  BY <1>1 DEF transfer, Move
<1>2. ASSUME NEW c \in Call, transferGated(c) PROVE SuccessIsTrue'
  BY <1>2 DEF transferGated, Move, GateFree, GateEnabled
<1>3. ASSUME NEW c \in Call, i801_access(c) PROVE SuccessIsTrue'
  BY <1>3 DEF i801_access, LoadData, i801_set_block_buffer_mode, Move
<1>4. ASSUME NEW c \in Call, CheckPreFails(c) PROVE SuccessIsTrue'
  BY <1>4 DEF CheckPreFails, Move
<1>5. ASSUME NEW c \in Call, StartAndSleep(c) PROVE SuccessIsTrue'
  BY <1>5 DEF StartAndSleep, Move, i801_check_pre
<1>6. ASSUME NEW c \in Call, TakeStatus(c) PROVE SuccessIsTrue'
  BY <1>6 DEF TakeStatus, Move, GateFree
<1>7. ASSUME NEW c \in Call, TimeOut(c) PROVE SuccessIsTrue'
  BY <1>7 DEF TimeOut, Move, GateFree
<1>8. ASSUME NEW c \in Call, LeaveAccess(c) PROVE SuccessIsTrue'
  BY <1>8 DEF LeaveAccess, Move, Retry, CountTry, BufferOff
<1>9. CASE HandleHostNotify
  BY <1>9 DEF HandleHostNotify, handleHostNotifyThreaded, Move, GateFree
<1>10. CASE HandleCompletion
  BY <1>10 DEF HandleCompletion, InterruptPending, commandWakeup, GateFree
<1>11. CASE DisableHostNotify
  BY <1>11 DEF DisableHostNotify
<1>12. CASE DisableCommandGate
  BY <1>12 DEF DisableCommandGate, GateFree
<1>13. CASE EnableCommandGate
  BY <1>13 DEF EnableCommandGate
<1>14. CASE EnableHostNotify
  BY <1>14 DEF EnableHostNotify
<1>15. CASE HostCompletes
  BY <1>15 DEF HostCompletes
<1>16. CASE TouchpadNotifies
  BY <1>16 DEF TouchpadNotifies
<1>17. CASE PowerIsLost
  BY <1>17 DEF PowerIsLost
<1>18. CASE UNCHANGED vars
  BY <1>18 DEF vars
<1>19. QED
  BY <1>1, <1>2, <1>3, <1>4, <1>5, <1>6, <1>7, <1>8, <1>9,
     <1>10, <1>11, <1>12, <1>13, <1>14, <1>15, <1>16, <1>17, <1>18
     DEF Next, Progress, handleInterrupt, setPowerState, Environment

(* Without time-outs nobody disturbs a request of a lone call. *)
LEMMA UndisturbedStep ==
  ASSUME IInv, AloneInside, AloneInside', Lone' \subseteq Lone, 
         Undisturbed, [Next]_vars
  PROVE  Undisturbed'
<1> USE CallAssumption
    DEF IInv, Lone, TypeOK, callVars, dataVars, ntfyVars, AloneInside, Undisturbed,
        FlagsAreOfThisTransaction, Inside, Gated, RequestReady, BufferReady
<1>1. ASSUME NEW c \in Call, transfer(c) PROVE Undisturbed'
  BY <1>1 DEF transfer, Move
<1>2. ASSUME NEW c \in Call, transferGated(c) PROVE Undisturbed'
  BY <1>2 DEF transferGated, Move, GateFree, GateEnabled
<1>3. ASSUME NEW c \in Call, i801_access(c) PROVE Undisturbed'
  BY <1>3 DEF i801_access, LoadData, i801_set_block_buffer_mode, Move
<1>4. ASSUME NEW c \in Call, CheckPreFails(c) PROVE Undisturbed'
  BY <1>4 DEF CheckPreFails, Move
<1>5. ASSUME NEW c \in Call, StartAndSleep(c) PROVE Undisturbed'
  BY <1>5 DEF StartAndSleep, Move, i801_check_pre
<1>6. ASSUME NEW c \in Call, TakeStatus(c) PROVE Undisturbed'
  BY <1>6 DEF TakeStatus, Move, GateFree
<1>7. ASSUME NEW c \in Call, TimeOut(c) PROVE Undisturbed'
  BY <1>7 DEF TimeOut, Move, GateFree
<1>8. ASSUME NEW c \in Call, LeaveAccess(c) PROVE Undisturbed'
  BY <1>8 DEF LeaveAccess, Move, Retry, CountTry, BufferOff
<1>9. CASE HandleHostNotify
  BY <1>9 DEF HandleHostNotify, handleHostNotifyThreaded, Move, GateFree
<1>10. CASE HandleCompletion
  BY <1>10 DEF HandleCompletion, InterruptPending, commandWakeup, GateFree
<1>11. CASE DisableHostNotify
  BY <1>11 DEF DisableHostNotify
<1>12. CASE DisableCommandGate
  BY <1>12 DEF DisableCommandGate, GateFree
<1>13. CASE EnableCommandGate
  BY <1>13 DEF EnableCommandGate
<1>14. CASE EnableHostNotify
  BY <1>14 DEF EnableHostNotify
<1>15. CASE HostCompletes
  BY <1>15 DEF HostCompletes
<1>16. CASE TouchpadNotifies
  BY <1>16 DEF TouchpadNotifies
<1>17. CASE PowerIsLost
  BY <1>17 DEF PowerIsLost
<1>18. CASE UNCHANGED vars
  BY <1>18 DEF vars
<1>19. QED
  BY <1>1, <1>2, <1>3, <1>4, <1>5, <1>6, <1>7, <1>8, <1>9,
     <1>10, <1>11, <1>12, <1>13, <1>14, <1>15, <1>16, <1>17, <1>18
     DEF Next, Progress, handleInterrupt, setPowerState, Environment

(* Without power management the power stays on. *)
LEMMA PowerStep ==
  ASSUME IInv, PowerStays, [Next]_vars
  PROVE  PowerStays'
<1> USE CallAssumption DEF IInv, TypeOK, callVars, dataVars, ntfyVars, PowerStays
<1>1. ASSUME NEW c \in Call, transfer(c) PROVE PowerStays'
  BY <1>1 DEF transfer, Move
<1>2. ASSUME NEW c \in Call, transferGated(c) PROVE PowerStays'
  BY <1>2 DEF transferGated, Move, GateFree, GateEnabled
<1>3. ASSUME NEW c \in Call, i801_access(c) PROVE PowerStays'
  BY <1>3 DEF i801_access, LoadData, i801_set_block_buffer_mode, Move
<1>4. ASSUME NEW c \in Call, CheckPreFails(c) PROVE PowerStays'
  BY <1>4 DEF CheckPreFails, Move
<1>5. ASSUME NEW c \in Call, StartAndSleep(c) PROVE PowerStays'
  BY <1>5 DEF StartAndSleep, Move, i801_check_pre
<1>6. ASSUME NEW c \in Call, TakeStatus(c) PROVE PowerStays'
  BY <1>6 DEF TakeStatus, Move, GateFree
<1>7. ASSUME NEW c \in Call, TimeOut(c) PROVE PowerStays'
  BY <1>7 DEF TimeOut, Move, GateFree
<1>8. ASSUME NEW c \in Call, LeaveAccess(c) PROVE PowerStays'
  BY <1>8 DEF LeaveAccess, Move, Retry, CountTry, BufferOff
<1>9. CASE HandleHostNotify
  BY <1>9 DEF HandleHostNotify, handleHostNotifyThreaded, Move, GateFree
<1>10. CASE HandleCompletion
  BY <1>10 DEF HandleCompletion, InterruptPending, commandWakeup, GateFree
<1>11. CASE DisableHostNotify
  BY <1>11 DEF DisableHostNotify
<1>12. CASE DisableCommandGate
  BY <1>12 DEF DisableCommandGate, GateFree
<1>13. CASE EnableCommandGate
  BY <1>13 DEF EnableCommandGate
<1>14. CASE EnableHostNotify
  BY <1>14 DEF EnableHostNotify
<1>15. CASE HostCompletes
  BY <1>15 DEF HostCompletes
<1>16. CASE TouchpadNotifies
  BY <1>16 DEF TouchpadNotifies
<1>17. CASE PowerIsLost
  BY <1>17 DEF PowerIsLost
<1>18. CASE UNCHANGED vars
  BY <1>18 DEF vars
<1>19. QED
  BY <1>1, <1>2, <1>3, <1>4, <1>5, <1>6, <1>7, <1>8, <1>9,
     <1>10, <1>11, <1>12, <1>13, <1>14, <1>15, <1>16, <1>17, <1>18
     DEF Next, Progress, handleInterrupt, setPowerState, Environment

LEMMA LoneInit == OverlapInit => LoneInv
<1> SUFFICES ASSUME Init, met = {} PROVE LoneInv
  BY DEF OverlapInit
<1>1. IInv
  BY InvariantInit
<1>2. QED
  BY <1>1, CallAssumption
     DEF Init, LoneInv, Lone, AloneInside, MayStart, SleeperWaits, WokenIsTold,
         ResultIsTrue, SuccessIsTrue, Undisturbed, PowerStays, Inside, Gated

LEMMA LoneStep ==
  ASSUME LoneInv, [OverlapNext]_overlapVars
  PROVE  LoneInv'
<1> USE DEF LoneInv
<1>1. [Next]_vars
  BY DEF OverlapNext, overlapVars
<1>2. IInv'
  BY <1>1, InvariantStep
<1>3. met' \subseteq Call
  BY DEF OverlapNext, overlapVars, Meeting
<1>4. AloneInside' /\ Lone' \subseteq Lone
  BY AloneStep, LoneShrinks
<1>5. MayStart' /\ PowerStays'
  BY <1>1, <1>4, MayStartStep, PowerStep
<1>6. SleeperWaits' /\ WokenIsTold'
  BY <1>1, <1>4, SleeperStep, WokenStep
<1>7. ResultIsTrue' /\ SuccessIsTrue'
  BY <1>1, <1>4, ResultStep, SuccessStep
<1>8. Undisturbed'
  BY <1>1, <1>4, UndisturbedStep
<1>9. QED
  BY <1>2, <1>3, <1>4, <1>5, <1>6, <1>7, <1>8

(* LoneInv is inductive in the driver as it is. *)
THEOREM LoneInvariance == OverlapSpec => []LoneInv
<1>1. OverlapInit => LoneInv
  BY LoneInit
<1>2. LoneInv /\ [OverlapNext]_overlapVars => LoneInv'
  BY LoneStep
<1>3. QED
  BY <1>1, <1>2, PTL DEF OverlapSpec

(* Whatever the other calls do, one that was never inside together with    *)
(* another has a wake-up coming while it sleeps and the power is on.       *)
THEOREM LoneWakeUpIsComing == OverlapSpec => []WakeUpIsComing
<1>1. LoneInv => WakeUpIsComing
  BY DEF LoneInv, SleeperWaits, WakeUpIsComing, Tells
<1>2. QED
  BY <1>1, LoneInvariance, PTL

(* If no call times out, a lone block operation on the wire has its        *)
(* buffer ...                                                              *)
THEOREM LoneBufferOn == OverlapSpec => []BlockBufferOnInFlight
<1>1. LoneInv => BlockBufferOnInFlight
  BY DEF LoneInv, Undisturbed, BufferReady, BlockBufferOnInFlight
<1>2. QED
  BY <1>1, LoneInvariance, PTL

(* ... and a lone write sends the caller's bytes.                          *)
THEOREM LoneSendsOwn == OverlapSpec => LoneSendsOwnRequest
<1>1. LoneInv /\ [OverlapNext]_overlapVars =>
        [\A c \in Lone : ~ SleepTimesOut /\ inflight' = c /\ inflight # c => RequestReady(c)]_overlapVars
  <2> SUFFICES ASSUME LoneInv, Next, NEW c \in Lone,
                      ~ SleepTimesOut, inflight' = c, inflight # c
               PROVE  RequestReady(c)
    BY DEF OverlapNext
  <2>1. c \in Call
    BY DEF Lone
  <2>2. StartAndSleep(c)
    BY <2>1, StartedByItself
  <2>3. QED
    BY <2>2 DEF LoneInv, Undisturbed, StartAndSleep, Move
<1>2. QED
  BY <1>1, LoneInvariance, PTL DEF OverlapSpec, LoneSendsOwnRequest

-----------------------------------------------------------------------------
(* The refinement: each step of the driver as it is is a step of           *)
(* SMBusTransfer or leaves its variables alone.                            *)

LEMMA SharedInit == OverlapInit => Shared!Init
BY DEF OverlapInit, Init, Shared!Init, Phase, Result

(* Only runAction lets a call into transferGated. *)
LEMMA OnlyGatedEnters ==
  ASSUME TypeOK, Next, \A c \in Call : ~ transferGated(c)
  PROVE  \A c \in Call : pc'[c] \in Inside => pc[c] \in Inside
BY CallAssumption
   DEF TypeOK, Inside, Gated, Move, callVars, Next, Progress, handleInterrupt, setPowerState,
       Environment, transfer, i801_access, CheckPreFails, StartAndSleep, TakeStatus, TimeOut,
       LeaveAccess, HandleHostNotify, handleHostNotifyThreaded, HandleCompletion,
       commandWakeup, DisableHostNotify, DisableCommandGate, EnableCommandGate,
       EnableHostNotify, HostCompletes, TouchpadNotifies, PowerIsLost

(* What a call's own bookkeeping shows of it does not change when none of  *)
(* the variables it is computed from do.                                   *)
LEMMA SameView ==
  ASSUME bus' = bus, met' = met,
         \A c \in Call : Phase(c)' = Phase(c) /\ Result(c)' = Result(c)
  PROVE  UNCHANGED Shared!abstractVars
BY DEF Shared!abstractVars

LEMMA SharedStep ==
  ASSUME LoneInv, LoneInv', [OverlapNext]_overlapVars
  PROVE  [Shared!Next]_(Shared!abstractVars)
<1> USE CallAssumption DEF LoneInv, IInv, TypeOK, callVars, dataVars, ntfyVars
<1>0. CASE UNCHANGED overlapVars
  BY <1>0 DEF overlapVars, vars, Phase, Result, Shared!abstractVars
<1> SUFFICES ASSUME Next, met' = met \cup Meeting
             PROVE  [Shared!Next]_(Shared!abstractVars)
  BY <1>0 DEF OverlapNext
<1>1. ASSUME NEW c \in Call, transferGated(c) PROVE [Shared!Next]_(Shared!abstractVars)
  <2>1. /\ UNCHANGED bus
        /\ \A d \in Call : /\ Phase(d)' = Phase(d) /\ Result(d)' = Result(d)
                           /\ pc'[d] \in Inside => Phase(d) = "busy"
    BY <1>1 DEF transferGated, Move, GateFree, GateEnabled, Phase, Result, Inside, Gated
  <2>2. CASE Meeting = {}
    BY <2>1, <2>2 DEF Shared!abstractVars
  <2>3. CASE Meeting # {}
    <3>1. Meeting \in SUBSET {d \in Call : [e \in Call |-> Phase(e)][d] = "busy"}
      BY <2>1 DEF Meeting
    <3>2. Shared!Meet
      BY <2>1, <2>3, <3>1, MeetingIsTwo DEF Shared!Meet
    <3>3. QED
      BY <3>2 DEF Shared!Next
  <2>4. QED
    BY <2>2, <2>3
<1> SUFFICES ASSUME \A c \in Call : ~ transferGated(c), met' = met
             PROVE  [Shared!Next]_(Shared!abstractVars)
  <2>1. CASE \A c \in Call : ~ transferGated(c)
    <3>1. \A c \in Call : pc'[c] \in Inside => pc[c] \in Inside
      BY <2>1, OnlyGatedEnters
    <3>2. QED
      BY <2>1, <3>1, NobodyMeets
  <2>2. QED
    BY <1>1, <2>1
<1>2. ASSUME NEW c \in Call, transfer(c) PROVE [Shared!Next]_(Shared!abstractVars)
  <2>1. Shared!Invoke(c)
    BY <1>2 DEF transfer, Move, Phase, Result, Shared!Invoke
  <2>2. QED
    BY <2>1 DEF Shared!Next
<1>3. ASSUME NEW c \in Call, i801_access(c) PROVE [Shared!Next]_(Shared!abstractVars)
  <2>1. bus' = bus /\ \A d \in Call : Phase(d)' = Phase(d) /\ Result(d)' = Result(d)
    BY <1>3 DEF i801_access, LoadData, i801_set_block_buffer_mode, Move, Phase, Result
  <2>2. QED
    BY <2>1, SameView
<1>4. ASSUME NEW c \in Call, CheckPreFails(c) PROVE [Shared!Next]_(Shared!abstractVars)
  <2>1. bus' = bus /\ \A d \in Call : Phase(d)' = Phase(d) /\ Result(d)' = Result(d)
    BY <1>4 DEF CheckPreFails, Move, Phase, Result
  <2>2. QED
    BY <2>1, SameView
<1>5. ASSUME NEW c \in Call, StartAndSleep(c) PROVE [Shared!Next]_(Shared!abstractVars)
  <2>1. Shared!Begin(c)
    BY <1>5 DEF StartAndSleep, Move, i801_check_pre, MayStart, OpenIsInFlight, Lone, Phase, Result,
                Shared!Begin
  <2>2. QED
    BY <2>1 DEF Shared!Next
<1>6. ASSUME NEW c \in Call, TakeStatus(c) PROVE [Shared!Next]_(Shared!abstractVars)
  <2>1. bus' = bus /\ \A d \in Call : Phase(d)' = Phase(d) /\ Result(d)' = Result(d)
    BY <1>6 DEF TakeStatus, Move, GateFree, Phase, Result
  <2>2. QED
    BY <2>1, SameView
<1>7. ASSUME NEW c \in Call, TimeOut(c) PROVE [Shared!Next]_(Shared!abstractVars)
  <2>1. bus' = bus /\ \A d \in Call : Phase(d)' = Phase(d) /\ Result(d)' = Result(d)
    BY <1>7 DEF TimeOut, Move, GateFree, Phase, Result
  <2>2. QED
    BY <2>1, SameView
<1>8. ASSUME NEW c \in Call, LeaveAccess(c) PROVE [Shared!Next]_(Shared!abstractVars)
  <2>1. CASE pc'[c] = "setup"
    <3>1. bus' = bus /\ \A d \in Call : Phase(d)' = Phase(d) /\ Result(d)' = Result(d)
      BY <1>8, <2>1 DEF LeaveAccess, Move, Retry, CountTry, Phase, Result
    <3>2. QED
      BY <3>1, SameView
  <2>2. CASE pc'[c] = "done"
    <3>1. Phase(c) = "busy" /\ Phase(c)' = "returned" /\ bus' = bus
      BY <1>8, <2>2 DEF LeaveAccess, Move, Phase
    <3>2. \A d \in Call : d # c => Phase(d)' = Phase(d) /\ Result(d)' = Result(d)
      BY <1>8 DEF LeaveAccess, Move, CountTry, Phase, Result
    <3>3. Result(c)' = "error" \/ (Result(c)' \in {"ok", "corrupt"} /\ bus[c] \in {"ok", "failed"})
      BY <1>8, <2>2, <3>1 DEF Result, WokenIsOver
    <3>4. c \in Lone /\ Result(c)' # "error" => Result(c)' = "ok" /\ bus[c] = "ok"
      BY <1>8, <2>2, <3>1 DEF Result, SuccessIsTrue, Lone
    <3>5. Result(c)' \in {"error"} \cup (IF bus[c] = "ok" THEN {"ok"} ELSE {})
                         \cup (IF c \in met /\ bus[c] \in {"ok", "failed"} THEN {"ok", "corrupt"} ELSE {})
      BY <3>3, <3>4 DEF Lone
    <3>6. Result(c)' \in Shared!MayReturn(c)
      BY <3>5 DEF Shared!MayReturn
    <3>7. [d \in Call |-> Result(d)'] = [[d \in Call |-> Result(d)] EXCEPT ![c] = Result(c)']
      BY <3>2
    <3>8. [d \in Call |-> Phase(d)'] = [[d \in Call |-> Phase(d)] EXCEPT ![c] = "returned"]
      BY <3>1, <3>2
    <3>9. Shared!Return(c)
      BY <3>1, <3>6, <3>7, <3>8 DEF Shared!Return
    <3>10. QED
      BY <3>9 DEF Shared!Next
  <2>3. QED
    BY <1>8, <2>1, <2>2 DEF LeaveAccess, Move
<1>9. CASE HandleHostNotify
  <2>1. ASSUME NEW n \in NotifyCall, handleHostNotifyThreaded(n)
        PROVE  Shared!Invoke(n)
    BY <1>9, <2>1
    DEF HandleHostNotify, handleHostNotifyThreaded, Move, Phase, Result, Shared!Invoke
  <2>2. ASSUME UNCHANGED <<pc, op>>
        PROVE  UNCHANGED Shared!abstractVars
    BY <1>9, <2>2, SameView DEF HandleHostNotify, Phase, Result
  <2>3. QED
    BY <1>9, <2>1, <2>2 DEF HandleHostNotify, Shared!Next
<1>10. CASE HandleCompletion
  <2>1. bus' = bus /\ \A d \in Call : Phase(d)' = Phase(d) /\ Result(d)' = Result(d)
    BY <1>10 DEF HandleCompletion, InterruptPending, commandWakeup, GateFree, Phase, Result
  <2>2. QED
    BY <2>1, SameView
<1>11. CASE DisableHostNotify
  <2>1. bus' = bus /\ \A d \in Call : Phase(d)' = Phase(d) /\ Result(d)' = Result(d)
    BY <1>11 DEF DisableHostNotify, Phase, Result
  <2>2. QED
    BY <2>1, SameView
<1>12. CASE DisableCommandGate
  <2>1. bus' = bus /\ \A d \in Call : Phase(d)' = Phase(d) /\ Result(d)' = Result(d)
    BY <1>12 DEF DisableCommandGate, GateFree, Phase, Result
  <2>2. QED
    BY <2>1, SameView
<1>13. CASE EnableCommandGate
  <2>1. bus' = bus /\ \A d \in Call : Phase(d)' = Phase(d) /\ Result(d)' = Result(d)
    BY <1>13 DEF EnableCommandGate, Phase, Result
  <2>2. QED
    BY <2>1, SameView
<1>14. CASE EnableHostNotify
  <2>1. bus' = bus /\ \A d \in Call : Phase(d)' = Phase(d) /\ Result(d)' = Result(d)
    BY <1>14 DEF EnableHostNotify, Phase, Result
  <2>2. QED
    BY <2>1, SameView
<1>15. CASE HostCompletes
  <2>1. Shared!End(inflight)
    BY <1>15 DEF HostCompletes, OpenIsInFlight, Phase, Result, Shared!End
  <2>2. QED
    BY <1>15, <2>1 DEF HostCompletes, Shared!Next
<1>16. CASE TouchpadNotifies
  <2>1. bus' = bus /\ \A d \in Call : Phase(d)' = Phase(d) /\ Result(d)' = Result(d)
    BY <1>16 DEF TouchpadNotifies, Phase, Result
  <2>2. QED
    BY <2>1, SameView
<1>17. CASE PowerIsLost
  <2>1. \A d \in Call : Phase(d)' = Phase(d) /\ Result(d)' = Result(d)
    BY <1>17 DEF PowerIsLost, Phase, Result
  <2>2. CASE inflight = NoCall
    <3>1. bus' = bus
      BY <1>17, <2>2 DEF PowerIsLost
    <3>2. QED
      BY <2>1, <3>1, SameView
  <2>3. CASE inflight # NoCall
    <3>1. bus[inflight] = "open" /\ bus' = [bus EXCEPT ![inflight] = "failed"]
      BY <1>17, <2>3 DEF PowerIsLost, OpenIsInFlight
    <3>2. Shared!End(inflight)
      BY <2>1, <2>3, <3>1 DEF Shared!End
    <3>3. QED
      BY <2>3, <3>2 DEF Shared!Next
  <2>4. QED
    BY <2>2, <2>3
<1>18. CASE UNCHANGED vars
  <2>1. bus' = bus /\ \A d \in Call : Phase(d)' = Phase(d) /\ Result(d)' = Result(d)
    BY <1>18 DEF vars, Phase, Result
  <2>2. QED
    BY <2>1, SameView
<1>19. QED
  BY <1>2, <1>3, <1>4, <1>5, <1>6, <1>7, <1>8, <1>9,
     <1>10, <1>11, <1>12, <1>13, <1>14, <1>15, <1>16, <1>17, <1>18
     DEF Next, Progress, handleInterrupt, setPowerState, Environment

(* The driver as it is implements SMBusTransfer: what a call is promised   *)
(* holds as long as it has not met another one.                            *)
THEOREM DriverImplementsShared == OverlapSpec => ImplementsShared
<1>1. OverlapInit => Shared!Init
  BY SharedInit
<1>2. LoneInv /\ LoneInv' /\ [OverlapNext]_overlapVars => [Shared!Next]_(Shared!abstractVars)
  BY SharedStep
<1>3. QED
  BY <1>1, <1>2, LoneInvariance, PTL DEF OverlapSpec, ImplementsShared, Shared!Spec

-----------------------------------------------------------------------------
(* What a caller can rely on, from the promises of SMBusTransfer alone *)

(* A call has no result before it returns. *)
NoResultYet == \A c \in Call : Phase(c) # "returned" => Result(c) = "none"

SharedInv ==
  /\ Shared!TypeOK
  /\ Shared!OneTransaction
  /\ Shared!ResultHolds
  /\ NoResultYet

LEMMA SharedInvInit == Shared!Init => SharedInv
BY DEF Shared!Init, SharedInv, Shared!TypeOK, Shared!OneTransaction, Shared!ResultHolds,
       NoResultYet

LEMMA SharedInvStep ==
  ASSUME SharedInv, [Shared!Next]_(Shared!abstractVars)
  PROVE  SharedInv'
<1> USE DEF SharedInv, Shared!TypeOK, Shared!OneTransaction, Shared!ResultHolds, NoResultYet
<1>1. CASE Shared!Meet
  <2>1. \A d \in Call : Phase(d)' = Phase(d) /\ Result(d)' = Result(d)
    BY <1>1 DEF Shared!Meet
  <2>2. met \subseteq met' /\ met' \subseteq Call /\ bus' = bus
    BY <1>1 DEF Shared!Meet
  <2>3. QED
    BY <2>1, <2>2
<1>2. ASSUME NEW c \in Call, Shared!Invoke(c) PROVE SharedInv'
  <2>1. /\ Phase(c)' = "busy" /\ Phase(c) = "idle"
        /\ \A d \in Call : Result(d)' = Result(d) /\ (d # c => Phase(d)' = Phase(d))
    BY <1>2 DEF Shared!Invoke
  <2>2. met' = met /\ bus' = bus
    BY <1>2 DEF Shared!Invoke
  <2>3. QED
    BY <2>1, <2>2
<1>3. ASSUME NEW c \in Call, Shared!Begin(c) PROVE SharedInv'
  BY <1>3 DEF Shared!Begin
<1>4. ASSUME NEW c \in Call, Shared!End(c) PROVE SharedInv'
  BY <1>4 DEF Shared!End
<1>5. ASSUME NEW c \in Call, Shared!Return(c) PROVE SharedInv'
  <2>1. /\ Phase(c)' = "returned" /\ Result(c)' \in Shared!MayReturn(c)
        /\ \A d \in Call : d # c => Phase(d)' = Phase(d) /\ Result(d)' = Result(d)
    BY <1>5 DEF Shared!Return
  <2>2. met' = met /\ bus' = bus
    BY <1>5 DEF Shared!Return
  <2>3. QED
    BY <2>1, <2>2 DEF Shared!MayReturn
<1>6. CASE UNCHANGED Shared!abstractVars
  BY <1>6 DEF Shared!abstractVars
<1>7. QED
  BY <1>1, <1>2, <1>3, <1>4, <1>5, <1>6 DEF Shared!Next

(* Whoever keeps the promises of SMBusTransfer, and so the driver as it    *)
(* is, has one transaction at a time on the bus, and what it returns to a  *)
(* call that has met no other is true of the call's own transaction ...    *)
THEOREM ResultsHold == OverlapSpec => [](Shared!OneTransaction /\ Shared!ResultHolds)
<1>1. Shared!Init => SharedInv
  BY SharedInvInit
<1>2. SharedInv /\ [Shared!Next]_(Shared!abstractVars) => SharedInv'
  BY SharedInvStep
<1>3. SharedInv => Shared!OneTransaction /\ Shared!ResultHolds
  BY DEF SharedInv
<1>4. Shared!Spec => [](Shared!OneTransaction /\ Shared!ResultHolds)
  BY <1>1, <1>2, <1>3, PTL DEF Shared!Spec
<1>5. QED
  BY <1>4, DriverImplementsShared, PTL DEF ImplementsShared

(* ... and does not send again what the device has carried out for such a  *)
(* call.                                                                   *)
THEOREM NothingSentTwice == OverlapSpec => Shared!SentOnce
<1>1. Shared!Init => SharedInv
  BY SharedInvInit
<1>2. SharedInv /\ [Shared!Next]_(Shared!abstractVars) => SharedInv'
  BY SharedInvStep
<1>3. SharedInv /\ [Shared!Next]_(Shared!abstractVars) =>
        [\A c \in Lone : bus[c] = "ok" => bus'[c] = "ok"]_(Shared!abstractVars)
  BY DEF SharedInv, Shared!TypeOK, Lone, Shared!Next, Shared!Meet, Shared!Invoke, Shared!Begin,
         Shared!End, Shared!Return
<1>4. Shared!Spec => Shared!SentOnce
  BY <1>1, <1>2, <1>3, PTL DEF Shared!Spec, Shared!SentOnce, Lone
<1>5. QED
  BY <1>4, DriverImplementsShared, PTL DEF ImplementsShared

-----------------------------------------------------------------------------
(* One call at a time: everybody is alone *)

(* A call comes in only when nobody is inside, ... *)
LEMMA OneInsideStep ==
  ASSUME IInv, OneInside, [SerialNext]_overlapVars
  PROVE  OneInside'
<1> SUFFICES ASSUME [Next]_vars, OneAtATime \/ UNCHANGED vars PROVE OneInside'
  BY DEF SerialNext, OverlapNext, overlapVars
<1> USE CallAssumption
    DEF IInv, TypeOK, callVars, dataVars, ntfyVars, OneInside, Inside, Gated, OneAtATime
<1>1. ASSUME NEW c \in Call, transfer(c) PROVE OneInside'
  BY <1>1 DEF transfer, Move
<1>2. ASSUME NEW c \in Call, transferGated(c) PROVE OneInside'
  <2>1. OneAtATime
    BY <1>2 DEF transferGated, Move, vars
  <2>2. QED
    BY <1>2, <2>1 DEF transferGated, Move
<1>3. ASSUME NEW c \in Call, i801_access(c) PROVE OneInside'
  BY <1>3 DEF i801_access, LoadData, i801_set_block_buffer_mode, Move
<1>4. ASSUME NEW c \in Call, CheckPreFails(c) PROVE OneInside'
  BY <1>4 DEF CheckPreFails, Move
<1>5. ASSUME NEW c \in Call, StartAndSleep(c) PROVE OneInside'
  BY <1>5 DEF StartAndSleep, Move, i801_check_pre
<1>6. ASSUME NEW c \in Call, TakeStatus(c) PROVE OneInside'
  BY <1>6 DEF TakeStatus, Move, GateFree
<1>7. ASSUME NEW c \in Call, TimeOut(c) PROVE OneInside'
  BY <1>7 DEF TimeOut, Move, GateFree
<1>8. ASSUME NEW c \in Call, LeaveAccess(c) PROVE OneInside'
  BY <1>8 DEF LeaveAccess, Move, Retry, CountTry, BufferOff
<1>9. CASE HandleHostNotify
  BY <1>9 DEF HandleHostNotify, handleHostNotifyThreaded, Move, GateFree
<1>10. CASE HandleCompletion
  BY <1>10 DEF HandleCompletion, InterruptPending, commandWakeup, GateFree
<1>11. CASE DisableHostNotify
  BY <1>11 DEF DisableHostNotify
<1>12. CASE DisableCommandGate
  BY <1>12 DEF DisableCommandGate, GateFree
<1>13. CASE EnableCommandGate
  BY <1>13 DEF EnableCommandGate
<1>14. CASE EnableHostNotify
  BY <1>14 DEF EnableHostNotify
<1>15. CASE HostCompletes
  BY <1>15 DEF HostCompletes
<1>16. CASE TouchpadNotifies
  BY <1>16 DEF TouchpadNotifies
<1>17. CASE PowerIsLost
  BY <1>17 DEF PowerIsLost
<1>18. CASE UNCHANGED vars
  BY <1>18 DEF vars
<1>19. QED
  BY <1>1, <1>2, <1>3, <1>4, <1>5, <1>6, <1>7, <1>8, <1>9,
     <1>10, <1>11, <1>12, <1>13, <1>14, <1>15, <1>16, <1>17, <1>18
     DEF Next, Progress, handleInterrupt, setPowerState, Environment


(* ... so nobody meets. *)
LEMMA NoMeetingStep ==
  ASSUME OneInside', met = {}, [SerialNext]_overlapVars
  PROVE  met' = {}
BY DEF OneInside, Meeting, SerialNext, OverlapNext, overlapVars

(* SerialInv is inductive under the discipline of the original driver. *)
THEOREM SerialInvariance == SerialSpec => []SerialInv
<1>1. OverlapInit => SerialInv
  BY LoneInit DEF OverlapInit, Init, SerialInv, OneInside, Inside, Gated
<1>2. SerialInv /\ [SerialNext]_overlapVars => SerialInv'
  <2> SUFFICES ASSUME SerialInv, [SerialNext]_overlapVars PROVE SerialInv'
    OBVIOUS
  <2>1. LoneInv'
    BY LoneStep DEF SerialInv, SerialNext
  <2>2. OneInside'
    BY OneInsideStep DEF SerialInv, LoneInv
  <2>3. met' = {}
    BY <2>2, NoMeetingStep DEF SerialInv
  <2>4. QED
    BY <2>1, <2>2, <2>3 DEF SerialInv
<1>3. QED
  BY <1>1, <1>2, PTL DEF SerialSpec

(* A read that succeeds returns the device's answer to it. *)
THEOREM SerialReadsOwnAnswer == SerialSpec => []ReadsOwnAnswer
<1>1. SerialInv => ReadsOwnAnswer
  BY DEF SerialInv, LoneInv, SuccessIsTrue, ReadsOwnAnswer, Lone
<1>2. QED
  BY <1>1, SerialInvariance, PTL

(* A sleeper has a wake-up coming as long as the power stays on. *)
THEOREM SerialWakeUpIsComing ==
  SerialSpec =>
    [](\A c \in Call : ~ PowerManaged /\ pc[c] = "sleep" => inflight = c \/ hststs # {})
<1>1. SerialInv =>
        \A c \in Call : ~ PowerManaged /\ pc[c] = "sleep" => inflight = c \/ hststs # {}
  BY DEF SerialInv, LoneInv, SleeperWaits, Tells, Lone
<1>2. QED
  BY <1>1, SerialInvariance, PTL

(* If no call times out, every write sends the caller's bytes ... *)
THEOREM SerialSendsOwnRequest ==
  ASSUME ~ SleepTimesOut
  PROVE  SerialSpec => SendsOwnRequest
<1>1. SerialInv /\ [SerialNext]_overlapVars =>
        [\A c \in Call : inflight' = c /\ inflight # c => RequestReady(c)]_vars
  <2> SUFFICES ASSUME SerialInv, Next, NEW c \in Call, inflight' = c, inflight # c
               PROVE  RequestReady(c)
    BY DEF SerialNext, OverlapNext, overlapVars
  <2>1. StartAndSleep(c)
    BY StartedByItself
  <2>2. QED
    BY <2>1 DEF SerialInv, LoneInv, Lone, Undisturbed, StartAndSleep, Move
<1>2. QED
  BY <1>1, SerialInvariance, PTL DEF SerialSpec, SendsOwnRequest

(* ... and every block operation on the wire has its buffer. *)
THEOREM SerialBufferOn == SerialSpec => []BlockBufferOnInFlight
<1>1. SerialInv => BlockBufferOnInFlight
  BY DEF SerialInv, LoneInv, Undisturbed, BufferReady, BlockBufferOnInFlight
<1>2. QED
  BY <1>1, SerialInvariance, PTL

(* With nobody disturbed a step of SMBusTransfer with the calls that have  *)
(* met is a step of SMBusTransfer with none.                               *)
LEMMA UndisturbedIsTransfer ==
  ASSUME met = {}, met' = {}, [Shared!Next]_(Shared!abstractVars)
  PROVE  [Transfer!Next]_(Transfer!abstractVars)
<1>1. CASE Shared!Meet
  BY <1>1 DEF Shared!Meet
<1>2. ASSUME NEW c \in Call, Shared!Invoke(c) PROVE Transfer!Next
  BY <1>2 DEF Shared!Invoke, Transfer!Invoke, Transfer!Next
<1>3. ASSUME NEW c \in Call, Shared!Begin(c) PROVE Transfer!Next
  BY <1>3 DEF Shared!Begin, Transfer!Begin, Transfer!Next
<1>4. ASSUME NEW c \in Call, Shared!End(c) PROVE Transfer!Next
  BY <1>4 DEF Shared!End, Transfer!End, Transfer!Next
<1>5. ASSUME NEW c \in Call, Shared!Return(c) PROVE Transfer!Next
  BY <1>5 DEF Shared!Return, Shared!MayReturn, Transfer!Return, Transfer!MayReturn, Transfer!Next
<1>6. CASE UNCHANGED Shared!abstractVars
  BY <1>6 DEF Shared!abstractVars, Transfer!abstractVars
<1>7. QED
  BY <1>1, <1>2, <1>3, <1>4, <1>5, <1>6 DEF Shared!Next

(* The driver with one call at a time implements SMBusTransfer with nobody *)
(* disturbed.                                                              *)
THEOREM SerialImplementsTransfer == SerialSpec => ImplementsTransfer
<1>1. OverlapInit => Transfer!Init
  BY DEF OverlapInit, Init, Transfer!Init, Phase, Result
<1>2. SerialInv /\ SerialInv' /\ [SerialNext]_overlapVars =>
        [Transfer!Next]_(Transfer!abstractVars)
  BY SharedStep, UndisturbedIsTransfer DEF SerialInv, SerialNext
<1>3. QED
  BY <1>1, <1>2, SerialInvariance, PTL DEF SerialSpec, ImplementsTransfer, Transfer!Spec

=============================================================================
