---------------------------- MODULE MCELANInput ----------------------------
(***************************************************************************)
(* Instances of ELANInput for TLC.  The threads are alike, and so are the  *)
(* key presses.  A local variable of a thread, the argument of a message   *)
(* and the history of a report count as long as a step or a property may   *)
(* still look at them: of a report that was dropped nothing does.          *)
(***************************************************************************)
EXTENDS ELANInput, TLC

Symmetry == Permutations(Thread) \cup Permutations(Press)

(* From where it reads its report until it has been passed on or dropped.  *)
HasReport(t) == Active(t) /\ pc[t] # "getReport"

HasStamp(t) == event[t] # "none" \/ (HasReport(t) /\ pc[t] \notin {"ignoreall", "clock"})

HasFiltered(t) == HasStamp(t) /\ pc[t] # "typing"

Live ==
  <<now, members, notice, pc, event, moved, told,
    [k \in Press |-> IF notice[k] = "sent" THEN argument[k] ELSE 0],
    [t \in Thread |->
       <<IF HasReport(t) \/ event[t] = "scroll" THEN report[t] ELSE Invalid,
         IF HasStamp(t) THEN timestamp_ns[t] ELSE 0,
         IF pc[t] = "store" THEN use[t] ELSE 0,
         IF HasFiltered(t) THEN known[t] ELSE {},
         (Active(t) \/ event[t] # "none") /\ lone[t]>>]>>
=============================================================================
