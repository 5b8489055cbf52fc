------------------------------ MODULE OtaProofs ------------------------------
(* Proofs about the firmware update: OtaInv is inductive, and what follows  *)
(* from it, for every number of looks, whether or not tasks can be created. *)
EXTENDS Ota, TLAPS

(* The part of the assumption that the steps need. *)
LEMMA LimitPositive == PollLimit \in Nat /\ PollLimit > 0
<1>1. PollLimit \in Nat \ {0}
  BY OtaAssumption, Zenon DEF OtaAssumption
<1> QED  BY <1>1

(* At boot nobody owns the status. *)
LEMMA InitOta == Init => OtaInv
  BY LimitPositive DEF Init, OtaInv, TypeOK, Statuses, Replies, CheckStatusIsTemporary

(* The steps of the check task, where it is alive its request waits. *)
LEMMA CheckTaskStep == OtaInv /\ CheckTask => OtaInv'
<1> SUFFICES ASSUME OtaInv, CheckTask PROVE OtaInv'
  OBVIOUS
<1> USE DEF OtaInv, TypeOK, CheckStatusIsTemporary
<1>1. CASE ConnectFails
  BY <1>1 DEF ConnectFails, Replies
<1>2. CASE Connected
  BY <1>2 DEF Connected, Replies
<1>3. CASE FileRead
  BY <1>3 DEF FileRead, Replies
<1>4. CASE CheckEnds
  BY <1>4 DEF CheckEnds, Statuses
<1> QED  BY <1>1, <1>2, <1>3, <1>4 DEF CheckTask

(* The steps of a check request once it has started its task. *)
LEMMA CheckRequestStep == OtaInv /\ CheckRequest => OtaInv'
<1> SUFFICES ASSUME OtaInv, CheckRequest PROVE OtaInv'
  OBVIOUS
<1> USE LimitPositive DEF OtaInv, TypeOK, CheckStatusIsTemporary
<1>1. CASE Poll
  BY <1>1 DEF Poll
<1>2. CASE LastLook
  BY <1>2 DEF LastLook
<1>3. CASE DeleteLateTask
  BY <1>3 DEF DeleteLateTask, LateCheck, Statuses, Verdicts, Replies
<1>4. CASE DeleteOneself
  BY <1>4 DEF DeleteOneself
<1>5. CASE Judge
  <2>1. Verdict \in Verdicts
    BY DEF Verdict, Verdicts
  <2> QED  BY <1>5, <2>1 DEF Judge, Statuses, Verdicts, Replies
<1> QED  BY <1>1, <1>2, <1>3, <1>4, <1>5 DEF CheckRequest

(* Every step keeps the invariant. *)
LEMMA OtaStep == OtaInv /\ [Next]_vars => OtaInv'
<1> SUFFICES ASSUME OtaInv, [Next]_vars PROVE OtaInv'
  OBVIOUS
<1>1. CASE CheckTask
  BY <1>1, CheckTaskStep
<1>2. CASE CheckRequest
  BY <1>2, CheckRequestStep
<1> USE LimitPositive DEF OtaInv, TypeOK, CheckStatusIsTemporary
<1>3. CASE CheckRefused
  BY <1>3 DEF CheckRefused, Replies
<1>4. CASE CheckStart
  <2>1. \/ checker' = "connecting" /\ handle' = "check"
        \/ checker' = checker /\ handle' = handle
    BY <1>4, Zenon DEF CheckStart
  <2>2. /\ httpd = "idle" /\ httpd' = "waiting" /\ status' = "CHECK" /\ polls' = 0
        /\ reply' = "empty" /\ code' = code /\ updater' = updater
        /\ status # "UPDATE"
    BY <1>4, Zenon DEF CheckStart
  <2> QED  BY <2>1, <2>2 DEF Statuses, Replies
<1>5. CASE UpdateStart
  BY <1>5 DEF UpdateStart, Statuses, Replies
<1>6. CASE UpdateEnds
  BY <1>6 DEF UpdateEnds, Statuses, Replies
<1>7. CASE RestEnds
  BY <1>7 DEF RestEnds
<1>8. CASE Reboot
  BY <1>8 DEF Reboot, Statuses, Replies
<1>9. CASE UNCHANGED vars
  BY <1>9 DEF vars
<1> HIDE DEF OtaInv
<1> QED  BY <1>1, <1>2, <1>3, <1>4, <1>5, <1>6, <1>7, <1>8, <1>9 DEF Next

(* The check task, its request and the update task keep to their shares of *)
(* ota_task_status and xOtaHandle.                                         *)
THEOREM OtaSafe == Spec => []OtaInv
<1> QED  BY InitOta, OtaStep, PTL DEF Spec

(* The static variables of rest_server_ota.c and the places of its tasks   *)
(* keep their types.                                                       *)
THEOREM TypesCorrect == Spec => []TypeOK
<1>1. OtaInv => TypeOK
  BY DEF OtaInv
<1> QED  BY <1>1, OtaSafe, PTL

(* A check never runs beside an update. *)
THEOREM OneTransferAtATime == Spec => []OneTransfer
<1>1. OtaInv => OneTransfer
  BY DEF OtaInv, OneTransfer
<1> QED  BY <1>1, OtaSafe, PTL

(* No check leaves its temporary states behind. *)
THEOREM NoCheckLeftBehind == Spec => []CheckStatusIsTemporary
<1>1. OtaInv => CheckStatusIsTemporary
  BY DEF OtaInv
<1> QED  BY <1>1, OtaSafe, PTL

(* The outcome of an update is reported by the update task alone. *)
THEOREM OutcomeNotOverwritten == Spec => OutcomeReported
<1> DEFINE Reported ==
      status = "UPDATE" /\ status' # "UPDATE"
        => \/ updater = "loading" /\ status' \in {"UPDATE_FAILED", "UPDATE_FINISHED"}
           \/ Reboot
<1>1. OtaInv /\ [Next]_vars => [Reported]_vars
  <2> SUFFICES ASSUME OtaInv, Next, status = "UPDATE", status' # "UPDATE", ~ Reboot
               PROVE  updater = "loading" /\ status' \in {"UPDATE_FAILED", "UPDATE_FINISHED"}
    BY DEF vars
  <2>1. httpd = "idle" /\ checker = "none"
    BY DEF OtaInv
  <2>2. ~ CheckTask /\ ~ CheckRequest
    BY <2>1 DEF CheckTask, ConnectFails, Connected, FileRead, CheckEnds, CheckRequest,
                Poll, LastLook, DeleteLateTask, DeleteOneself, Judge
  <2> QED  BY <2>2 DEF Next, CheckRefused, CheckStart, UpdateStart, UpdateEnds, RestEnds
<1> QED  BY <1>1, OtaSafe, PTL DEF Spec, OutcomeReported

(* The answer of a check request: each look, and each step after the last  *)
(* one, brings it closer, and no other task moves it away.                 *)
LEMMA RequestStepDescends ==
  ASSUME OtaInv, CheckRequest
  PROVE  AnswerRank \in Nat /\ AnswerRank' \in Nat /\ AnswerRank' < AnswerRank
<1>1. polls \in 0 .. PollLimit /\ (httpd = "waiting" => polls < PollLimit)
  BY DEF OtaInv, TypeOK
<1> USE <1>1, LimitPositive DEF AnswerRank
<1>2. CASE Poll
  BY <1>2 DEF Poll
<1>3. CASE LastLook
  BY <1>3 DEF LastLook
<1>4. CASE DeleteLateTask \/ DeleteOneself \/ Judge
  <2>1. httpd \in {"deleting", "judging"} /\ httpd' \in {"idle", "dead"}
    BY <1>4 DEF DeleteLateTask, DeleteOneself, Judge, LateCheck
  <2> QED  BY <2>1
<1> QED  BY <1>2, <1>3, <1>4 DEF CheckRequest

LEMMA OthersKeepAnswer ==
  ASSUME OtaInv, AnswerRank > 0,
         \/ CheckTask \/ CheckRefused \/ CheckStart \/ UpdateStart \/ UpdateEnds \/ RestEnds
  PROVE  AnswerRank' = AnswerRank /\ ~CheckRequest
<1>1. httpd # "idle"
  BY DEF AnswerRank
<1>2. UNCHANGED <<httpd, polls>>
  BY <1>1 DEF CheckTask, ConnectFails, Connected, FileRead, CheckEnds, CheckRefused, CheckStart,
              UpdateStart, UpdateEnds, RestEnds
<1>3. AnswerRank' = AnswerRank
  BY <1>2 DEF AnswerRank
<1>4. CheckRequest => AnswerRank' < AnswerRank /\ AnswerRank \in Nat
  BY RequestStepDescends
<1> QED  BY <1>3, <1>4

(* A check request is on its way to its answer (rest_server_ota.c 207-227). *)
THEOREM AnswerComes == Spec => AnswerDescends
<1> DEFINE Closer ==
      AnswerRank > 0 =>
        \/ AnswerRank' \in Nat /\ AnswerRank' < AnswerRank
        \/ AnswerRank' = AnswerRank /\ ~CheckRequest
<1>1. OtaInv /\ [Next]_vars => [Closer]_vars
  <2> SUFFICES ASSUME OtaInv, Next, AnswerRank > 0
               PROVE  \/ AnswerRank' \in Nat /\ AnswerRank' < AnswerRank
                      \/ AnswerRank' = AnswerRank /\ ~CheckRequest
    OBVIOUS
  <2>1. CASE CheckRequest
    BY <2>1, RequestStepDescends
  <2>2. CASE Reboot
    BY <2>2 DEF Reboot, AnswerRank
  <2>3. CASE \/ CheckTask \/ CheckRefused \/ CheckStart \/ UpdateStart \/ UpdateEnds \/ RestEnds
    BY <2>3, OthersKeepAnswer
  <2> QED  BY <2>1, <2>2, <2>3 DEF Next
<1> QED  BY <1>1, OtaSafe, PTL DEF Spec, AnswerDescends
=============================================================================
