--------------------------------- MODULE Ota ---------------------------------
(***************************************************************************)
(* The firmware update, main/rest_server_ota.c: the requests               *)
(* /cfg/ota/check and /cfg/ota/update, which the httpd task handles one    *)
(* after the other, and the two tasks they start.  The check request waits *)
(* for its task, up to 20 seconds, and deletes it when it is late; the     *)
(* update request does not wait.  All of them share ota_task_status,       *)
(* status_code, ota_response and xOtaHandle, without a lock.               *)
(*                                                                         *)
(* The network answers, or fails, or hangs.  xTaskCreate may fail, its     *)
(* result is not looked at.  vTaskDelete of a task that has ended is       *)
(* undefined: nothing happens, or the chip restarts.                       *)
(*                                                                         *)
(* Left out: the texts of the answers, the times of start and end, the     *)
(* content of the image, and /cfg/ota/status, which only reads.            *)
(***************************************************************************)
EXTENDS Naturals

CONSTANTS
  PollLimit,    \* bound of the model: how often the request looks, 200 there
  TasksFail     \* may xTaskCreate fail?

ASSUME OtaAssumption == PollLimit \in Nat \ {0} /\ TasksFail \in BOOLEAN

VARIABLES
  status,    \* ota_task_status
  code,      \* status_code: 0 at boot, 200, or another one
  reply,     \* ota_response: empty, a message, or what version.txt says
  handle,    \* xOtaHandle: whose task it names
  httpd,     \* where the httpd task is
  polls,     \* times the check request has looked at the status
  checker,   \* where the check task is; none: it does not exist
  updater    \* where the newest update task is; an older one only rests

vars == <<status, code, reply, handle, httpd, polls, checker, updater>>

Verdicts == {"UPTODATE", "UPDATE_NEEDED", "UPDATE_OPTIONAL", "ERROR"}

Statuses ==
  {"IDLE", "CHECK", "CHECK_FINISHED", "UPDATE", "UPDATE_FAILED", "UPDATE_FINISHED"}
    \cup Verdicts

(* version.txt: the hash of the running image, or another hash with a      *)
(* newer version, or with the same or an older one, or no version data.    *)
Files == {"running", "newer", "not_newer", "no_data"}

Replies == {"empty", "message"} \cup Files

Init ==
  /\ status = "IDLE"
  /\ code = 0
  /\ reply = "empty"
  /\ handle = "none"
  /\ httpd = "idle"
  /\ polls = 0
  /\ checker = "none"
  /\ updater = "none"

-----------------------------------------------------------------------------
(* The check task: ota_check_main_task, do_ota_check_https_get.            *)

(* No client, or no connection: status_code keeps its old value. *)
ConnectFails ==
  /\ checker = "connecting"
  /\ reply' = "message"
  /\ checker' = "ending"
  /\ UNCHANGED <<status, code, handle, httpd, polls, updater>>

Connected ==
  /\ checker = "connecting"
  /\ \/ code' = 200 /\ reply' = "empty" /\ checker' = "reading"
     \/ code' = 404 /\ reply' = "message" /\ checker' = "ending"
  /\ UNCHANGED <<status, handle, httpd, polls, updater>>

(* Nothing, a part or all of the file is read. *)
FileRead ==
  /\ checker = "reading"
  /\ reply' \in Files \cup {"empty"}
  /\ checker' = "ending"
  /\ UNCHANGED <<status, code, handle, httpd, polls, updater>>

CheckEnds ==
  /\ checker = "ending"
  /\ status' = "CHECK_FINISHED"
  /\ checker' = "none"
  /\ UNCHANGED <<code, reply, handle, httpd, polls, updater>>

CheckTask == ConnectFails \/ Connected \/ FileRead \/ CheckEnds

-----------------------------------------------------------------------------
(* get_handler_ota_check in the httpd task.                                *)

(* No URL is configured, or a task is running. *)
CheckRefused ==
  /\ httpd = "idle"
  /\ reply' = "message"
  /\ UNCHANGED <<status, code, handle, httpd, polls, checker, updater>>

(* Variant for the checks: a running update does not refuse a check. *)
CheckStartAnyTime ==
  /\ httpd = "idle"
  /\ status \notin {"CHECK", "CHECK_FINISHED"}
  /\ status' = "CHECK"
  /\ reply' = "empty"
  /\ \/ checker' = "connecting" /\ handle' = "check"
     \/ TasksFail /\ UNCHANGED <<checker, handle>>
  /\ httpd' = "waiting"
  /\ polls' = 0
  /\ UNCHANGED <<code, updater>>

CheckStart ==
  /\ httpd = "idle"
  /\ status \notin {"CHECK", "CHECK_FINISHED", "UPDATE"}
  /\ status' = "CHECK"
  /\ reply' = "empty"
  /\ \/ checker' = "connecting" /\ handle' = "check"
     \/ TasksFail /\ UNCHANGED <<checker, handle>>
  /\ httpd' = "waiting"
  /\ polls' = 0
  /\ UNCHANGED <<code, updater>>

(* Variant for the checks: the request waits without a limit. *)
PollUnlimited ==
  /\ httpd = "waiting"
  /\ httpd' = IF status = "CHECK_FINISHED" THEN "judging" ELSE "waiting"
  /\ UNCHANGED <<status, code, reply, handle, polls, checker, updater>>

(* One look after 100 ms; after the last one it decides with a second look. *)
Poll ==
  /\ httpd = "waiting"
  /\ polls' = polls + 1
  /\ httpd' = IF status = "CHECK_FINISHED" THEN "judging"
              ELSE IF polls' >= PollLimit THEN "last_look" ELSE "waiting"
  /\ UNCHANGED <<status, code, reply, handle, checker, updater>>

LastLook ==
  /\ httpd = "last_look"
  /\ httpd' = IF status = "CHECK_FINISHED" THEN "judging" ELSE "deleting"
  /\ UNCHANGED <<status, code, reply, handle, polls, checker, updater>>

LateCheck ==
  /\ httpd' = "idle"
  /\ status' = "ERROR"
  /\ reply' = "message"
  /\ UNCHANGED <<code, handle, polls>>

(* Variant for the checks: the late task is not deleted. *)
DeleteNothing ==
  /\ httpd = "deleting"
  /\ handle # "none"
  /\ LateCheck
  /\ UNCHANGED <<checker, updater>>

(* The late task is deleted, wherever it is; it may have ended since the   *)
(* last look.  When no task could be created the handle is an old one, of  *)
(* an update task that still rests or of a task that is gone.  Deleting a  *)
(* task that is gone changes nothing, or it restarts the chip: Reboot.     *)
DeleteLateTask ==
  /\ httpd = "deleting"
  /\ handle # "none"
  /\ LateCheck
  /\ checker' = IF handle = "check" THEN "none" ELSE checker
  /\ updater' = IF handle = "update" THEN "none" ELSE updater

(* vTaskDelete(NULL): the httpd task deletes itself. *)
DeleteOneself ==
  /\ httpd = "deleting"
  /\ handle = "none"
  /\ httpd' = "dead"
  /\ UNCHANGED <<status, code, reply, handle, polls, checker, updater>>

Verdict ==
  CASE code # 200            -> "ERROR"
    [] reply = "running"     -> "UPTODATE"
    [] reply = "newer"       -> "UPDATE_NEEDED"
    [] reply = "not_newer"   -> "UPDATE_OPTIONAL"
    [] OTHER                 -> "ERROR"

(* Variant for the checks: an empty answer leaves the handler too early. *)
JudgeNotEmpty ==
  /\ httpd = "judging"
  /\ status' = IF reply = "empty" THEN status ELSE Verdict
  /\ reply' = IF code # 200 \/ reply = "empty" THEN "message" ELSE reply
  /\ httpd' = "idle"
  /\ UNCHANGED <<code, handle, polls, checker, updater>>

Judge ==
  /\ httpd = "judging"
  /\ status' = Verdict
  /\ reply' = IF code # 200 \/ reply = "empty" THEN "message" ELSE reply
  /\ httpd' = "idle"
  /\ UNCHANGED <<code, handle, polls, checker, updater>>

CheckRequest ==
  Poll \/ LastLook \/ DeleteLateTask \/ DeleteOneself \/ Judge

-----------------------------------------------------------------------------
(* get_handler_ota_update, in all other states it only answers; a check    *)
(* that failed does not refuse an update.                                  *)
UpdateStart ==
  /\ httpd = "idle"
  /\ status \in {"ERROR", "UPDATE_NEEDED", "UPDATE_OPTIONAL"}
  /\ status' = "UPDATE"
  /\ \/ updater' = "loading" /\ handle' = "update" /\ reply' = "empty"
     \/ TasksFail /\ UNCHANGED <<updater, handle, reply>>
  /\ UNCHANGED <<code, httpd, polls, checker>>

-----------------------------------------------------------------------------
(* The update task: ota_update_main_task.                                  *)

(* Variant for the checks: the outcome of a failed update is forgotten. *)
UpdateEndsUnknown ==
  /\ updater = "loading"
  /\ status' \in {"IDLE", "UPDATE_FINISHED"}
  /\ code' = 1
  /\ reply' = "message"
  /\ updater' = "resting"
  /\ UNCHANGED <<handle, httpd, polls, checker>>

(* esp_https_ota has loaded the image or failed; then the task waits for   *)
(* 20 seconds more.                                                        *)
UpdateEnds ==
  /\ updater = "loading"
  /\ status' \in {"UPDATE_FAILED", "UPDATE_FINISHED"}
  /\ code' = 1
  /\ reply' = "message"
  /\ updater' = "resting"
  /\ UNCHANGED <<handle, httpd, polls, checker>>

RestEnds ==
  /\ updater = "resting"
  /\ updater' = "none"
  /\ UNCHANGED <<status, code, reply, handle, httpd, polls, checker>>

-----------------------------------------------------------------------------
(* A restart request, a power failure, or what deleting an ended task did. *)
Reboot ==
  /\ status' = "IDLE"
  /\ code' = 0
  /\ reply' = "empty"
  /\ handle' = "none"
  /\ httpd' = "idle"
  /\ polls' = 0
  /\ checker' = "none"
  /\ updater' = "none"

Next ==
  \/ CheckTask
  \/ CheckRefused \/ CheckStart \/ CheckRequest \/ UpdateStart
  \/ UpdateEnds \/ RestEnds
  \/ Reboot

Spec == Init /\ [][Next]_vars

(* The httpd task runs.  Nothing is assumed of the network. *)
FairSpec == Spec /\ WF_vars(CheckRequest)

-----------------------------------------------------------------------------
(* The state spaces of the variables. *)
TypeOK ==
  /\ status \in Statuses
  /\ code \in {0, 1, 200, 404}
  /\ reply \in Replies
  /\ handle \in {"none", "check", "update"}
  /\ httpd \in {"idle", "waiting", "last_look", "deleting", "judging", "dead"}
  /\ polls \in 0 .. PollLimit
  /\ checker \in {"none", "connecting", "reading", "ending"}
  /\ updater \in {"none", "loading", "resting"}

(* A check and an update never run at the same time, also after a check    *)
(* that was late: they share the answer, the status and the handle         *)
(* (190-198, 225, 386-408).                                                *)
OneTransfer == checker = "none" \/ updater # "loading"

(* CHECK_FINISHED is, as its comment in line 192 says, temporary: it and   *)
(* CHECK last only as long as their request.  One that stayed would refuse *)
(* every check and every update until the next reboot.                     *)
CheckStatusIsTemporary ==
  status \in {"CHECK", "CHECK_FINISHED"} => httpd # "idle"

(* Who owns ota_task_status: the check task and its request from the start *)
(* to the verdict, the update task while it loads.  The late task can be   *)
(* deleted because xOtaHandle names it as long as it lives (207-227).      *)
OtaInv ==
  /\ TypeOK
  /\ checker # "none" => /\ handle = "check" /\ status = "CHECK"
                         /\ httpd \in {"waiting", "last_look", "deleting"}
  /\ httpd \in {"waiting", "last_look", "deleting"} =>
       status \in {"CHECK", "CHECK_FINISHED"}
  /\ httpd = "waiting" => polls < PollLimit
  /\ httpd = "judging" => status = "CHECK_FINISHED"
  /\ status = "UPDATE" => httpd = "idle"
  /\ updater = "loading" => status = "UPDATE"
  /\ CheckStatusIsTemporary

(* The status of a running update is overwritten by nobody but the update  *)
(* task, with the outcome (355, 361), or lost in a reboot.                 *)
OutcomeReported ==
  [][status = "UPDATE" /\ status' # "UPDATE"
       => \/ updater = "loading" /\ status' \in {"UPDATE_FAILED", "UPDATE_FINISHED"}
          \/ Reboot]_vars

(* How far a check request is from its answer. *)
AnswerRank ==
  CASE httpd = "waiting"                 -> PollLimit - polls + 2
    [] httpd = "last_look"               -> 2
    [] httpd \in {"deleting", "judging"} -> 1
    [] httpd \in {"idle", "dead"}        -> 0

(* Every step of a check request brings its answer closer, and nothing     *)
(* that its task, a network that hangs or another task does moves it away  *)
(* (207-227): the request looks 200 times and then decides.                *)
AnswerDescends ==
  [][AnswerRank > 0 =>
       \/ AnswerRank' \in Nat /\ AnswerRank' < AnswerRank
       \/ AnswerRank' = AnswerRank /\ ~CheckRequest]_vars

(* A check request is answered whatever the network does, or the httpd     *)
(* task is gone (225).                                                     *)
CheckAnswered == httpd = "waiting" ~> httpd \in {"idle", "dead"}
=============================================================================
