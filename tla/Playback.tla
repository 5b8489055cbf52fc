------------------------------- MODULE Playback -------------------------------
(***************************************************************************)
(* Playback control: main/timer_events.c, the REST requests that steer it  *)
(* (main/rest_server_get.c, main/rest_server_post.c) and the lists they    *)
(* share under the eventlist lock (main/event_util.c, decode_json.c).      *)
(*                                                                         *)
(* Two tasks.  The TIMER task runs periodic_timer_callback while the       *)
(* periodic timer is armed; it alone writes the run status.  The HTTPD     *)
(* task serves one request after the other.  A request is handed over as   *)
(* event bits: the server clears all bits and sets its own, the callback   *)
(* reads the bits, acts, and clears all bits.  Each of these calls, each   *)
(* esp_timer call and each critical section is an action of its own.       *)
(*                                                                         *)
(* The lists are reduced to what playing them would touch: the state of    *)
(* the tracks, and what their elements refer to that is gone.              *)
(***************************************************************************)
EXTENDS Naturals

CONSTANT Requests   \* the REST requests that clients send

RequestKinds ==
  {"run", "stop", "blank", "pause", "continue", "cycle", "list", "load", "clear"}

ASSUME RequestsAssumption == Requests \subseteq RequestKinds

VARIABLES
  bits,         \* s_timer_event_group
  run,          \* s_run_status
  time,         \* s_scene_time: 0, or 1 for every later time
  armed,        \* the periodic timer is running
  trackPaused,  \* track_process_paused
  newCycle,     \* s_timer_period_new differs from s_timer_period
  lock,         \* who holds the eventlist lock
  tracks,       \* "none", "loaded" (never reset), "playing" or "ended"
  broken,       \* what track elements refer to and is freed or was never set
  tpc,          \* where the timer task is in its callback
  ubits,        \* uxBits of the callback
  doReset,      \* do_reset of the callback
  hpc,          \* where the httpd task is in its handler
  req,          \* the request being served
  hasError      \* the last clear or load failed

timerVars == <<tpc, ubits, doReset, run, time>>
httpdVars == <<hpc, req, newCycle, hasError>>
vars == <<bits, armed, trackPaused, lock, tracks, broken, timerVars, httpdVars>>

Statuses == {"STOPPED", "RUNNING", "PAUSED"}

Bits == {"START", "STOP", "PAUSE", "BLANK", "CONTINUE"}

TimerPlaces ==
  {"idle", "decide", "clear", "lock", "play", "finish", "finish_timer",
   "stop_timer", "stop_tracks"}

HttpdPlaces ==
  {"ready", "clear_bits", "set_bits", "set_cycle", "timer", "rearm", "set_start",
   "list", "listing", "clear_groups", "clear_objects", "clear_tracks",
   "add_objects", "add_groups", "add_tracks", "set_group"}

Init ==
  /\ bits = {}
  /\ run = "STOPPED"
  /\ time = 0
  /\ armed = FALSE
  /\ trackPaused = FALSE
  /\ newCycle = FALSE
  /\ lock = "free"
  /\ tracks = "none"
  /\ broken = {}
  /\ tpc = "idle"
  /\ ubits = {}
  /\ doReset = FALSE
  /\ hpc = "ready"
  /\ req = "none"
  /\ hasError = FALSE

-----------------------------------------------------------------------------
(* The timer task: periodic_timer_callback.                                *)

(* The timer fires and the callback reads the bits. *)
Tick ==
  /\ tpc = "idle"
  /\ armed
  /\ ubits' = bits
  /\ doReset' = FALSE
  /\ tpc' = "decide"
  /\ UNCHANGED <<bits, run, time, armed, trackPaused, lock, tracks, broken, httpdVars>>

(* The status after a START bit. *)
Started == IF "START" \in ubits THEN "RUNNING" ELSE run

(* STOP: the status is set first, then the timer and the tracks are        *)
(* stopped; the callback returns and leaves the bits as they are.          *)
DecideStop ==
  /\ tpc = "decide"
  /\ "STOP" \in ubits
  /\ Started # "STOPPED"
  /\ run' = "STOPPED"
  /\ time' = 0
  /\ tpc' = "stop_timer"
  /\ UNCHANGED <<bits, armed, trackPaused, lock, tracks, broken, ubits, doReset, httpdVars>>

(* No stop, or nothing to stop: START, PAUSE and CONTINUE. *)
Decide ==
  /\ tpc = "decide"
  /\ "STOP" \in ubits => Started = "STOPPED"
  /\ run' = IF "PAUSE" \in ubits THEN "PAUSED" ELSE Started
  /\ doReset' = ("START" \in ubits /\ run = "STOPPED")
  /\ trackPaused' = (trackPaused /\ "CONTINUE" \notin ubits)
  /\ tpc' = "clear"
  /\ UNCHANGED <<bits, time, armed, lock, tracks, broken, ubits, httpdVars>>

(* All bits are cleared, also those set since the callback read them. *)
ClearAllBits ==
  /\ tpc = "clear"
  /\ bits' = {}
  /\ tpc' = IF run = "RUNNING" THEN "lock" ELSE "idle"
  /\ UNCHANGED <<run, time, armed, trackPaused, lock, tracks, broken, ubits, doReset, httpdVars>>

TakeLock ==
  /\ tpc = "lock"
  /\ lock = "free"
  /\ lock' = "timer"
  /\ tpc' = "play"
  /\ UNCHANGED <<bits, run, time, armed, trackPaused, tracks, broken, ubits, doReset, httpdVars>>

(* Variant for the checks: the callback waits for the lock without limit. *)
LockWaitsForEver ==
  /\ tpc = "lock"
  /\ lock = "httpd"
  /\ UNCHANGED vars

(* 5 seconds without the lock: /li sends to its client while it holds it.  *)
(* The callback returns, a reset it had to do is not done.                 *)
LockTimesOut ==
  /\ tpc = "lock"
  /\ lock = "httpd"
  /\ tpc' = "idle"
  /\ UNCHANGED <<bits, run, time, armed, trackPaused, lock, tracks, broken, ubits, doReset, httpdVars>>

(* The tracks as process_tracks finds them, after the reset if there is one. *)
PlayedTracks == IF doReset /\ tracks # "none" THEN "playing" ELSE tracks

(* A track_process_paused tick does nothing. *)
PlayPaused ==
  /\ tpc = "play"
  /\ trackPaused /\ ~ doReset
  /\ lock' = "free"
  /\ tpc' = "idle"
  /\ UNCHANGED <<bits, run, time, armed, trackPaused, tracks, broken, ubits, doReset, httpdVars>>

(* reset_tracks if asked for, process_tracks, release of the lock.  The    *)
(* tracks go on, one of their events may pause them, or all are finished:  *)
(* always so when no track was ever reset since it was loaded or stopped.  *)
Play ==
  /\ tpc = "play"
  /\ ~ trackPaused \/ doReset
  /\ time' = IF doReset THEN 0 ELSE 1
  /\ broken' = IF doReset THEN broken \ {"objects"} ELSE broken
  /\ \/ /\ PlayedTracks = "playing"
        /\ tracks' = "playing"
        /\ trackPaused' \in BOOLEAN
        /\ tpc' = "idle"
     \/ /\ tracks' = IF tracks = "none" THEN "none" ELSE "ended"
        /\ trackPaused' \in IF PlayedTracks = "playing" THEN BOOLEAN ELSE {FALSE}
        /\ tpc' = "finish"
  /\ lock' = "free"
  /\ UNCHANGED <<bits, run, armed, ubits, doReset, httpdVars>>

(* Everything is played: status and time first, then the timer. *)
Finish ==
  /\ tpc = "finish"
  /\ run' = "STOPPED"
  /\ time' = 0
  /\ tpc' = "finish_timer"
  /\ UNCHANGED <<bits, armed, trackPaused, lock, tracks, broken, ubits, doReset, httpdVars>>

FinishTimer ==
  /\ tpc = "finish_timer"
  /\ armed' = FALSE
  /\ tpc' = "idle"
  /\ UNCHANGED <<bits, run, time, trackPaused, lock, tracks, broken, ubits, doReset, httpdVars>>

StopTimer ==
  /\ tpc = "stop_timer"
  /\ armed' = FALSE
  /\ tpc' = "stop_tracks"
  /\ UNCHANGED <<bits, run, time, trackPaused, lock, tracks, broken, ubits, doReset, httpdVars>>

(* process_stop_all_tracks, without the lock. *)
StopTracks ==
  /\ tpc = "stop_tracks"
  /\ tracks' = IF tracks = "none" THEN "none" ELSE "ended"
  /\ tpc' = "idle"
  /\ UNCHANGED <<bits, run, time, armed, trackPaused, lock, broken, ubits, doReset, httpdVars>>

TimerTask ==
  \/ Tick \/ DecideStop \/ Decide \/ ClearAllBits \/ TakeLock \/ LockTimesOut
  \/ PlayPaused \/ Play \/ Finish \/ FinishTimer \/ StopTimer \/ StopTracks

-----------------------------------------------------------------------------
(* The httpd task: requests for a new status.                              *)

(* The status that a request asks for; "blank" is no status, it differs    *)
(* from every one.                                                         *)
Wanted(r) ==
  CASE r = "run"   -> "RUNNING"
    [] r = "pause" -> "PAUSED"
    [] r = "blank" -> "STOP_AND_BLANK"
    [] OTHER       -> "STOPPED"

RequestBits(r) ==
  CASE r = "pause"    -> {"PAUSE"}
    [] r = "continue" -> {"CONTINUE"}
    [] r = "blank"    -> {"STOP", "BLANK"}
    [] OTHER          -> {"STOP"}

(* get_handler_scene_new_status: a request for the status that is already  *)
(* there does nothing; scenes_continue and a new configuration, which asks *)
(* for a stop first, do not look at the status.                            *)
RequestStatus(r) ==
  /\ hpc = "ready"
  /\ r \in Requests \cap {"run", "stop", "blank", "pause", "continue", "cycle"}
  /\ r \notin {"continue", "cycle"} => run # Wanted(r)
  /\ req' = r
  /\ hpc' = "clear_bits"
  /\ UNCHANGED <<bits, armed, trackPaused, lock, tracks, broken, timerVars, newCycle, hasError>>

(* scenes_start, scenes_stop, scenes_pause and scenes_continue begin alike. *)
ClearBits ==
  /\ hpc = "clear_bits"
  /\ bits' = {}
  /\ hpc' = IF req = "run" THEN "timer" ELSE "set_bits"
  /\ UNCHANGED <<armed, trackPaused, lock, tracks, broken, timerVars, req, newCycle, hasError>>

SetBits ==
  /\ hpc = "set_bits"
  /\ bits' = bits \cup RequestBits(req)
  /\ hpc' = CASE req \in {"load", "clear"} -> "clear_groups"
              [] req = "cycle"              -> "set_cycle"
              [] OTHER                      -> "ready"
  /\ UNCHANGED <<armed, trackPaused, lock, tracks, broken, timerVars, req, newCycle, hasError>>

(* The configuration may have a "cycle": the next scenes_start uses it. *)
SetCycle ==
  /\ hpc = "set_cycle"
  /\ newCycle' \in BOOLEAN
  /\ hpc' = "ready"
  /\ UNCHANGED <<bits, armed, trackPaused, lock, tracks, broken, timerVars, req, hasError>>

(* esp_timer_start_periodic starts a stopped timer; a running one is       *)
(* stopped and started again only when the cycle time has changed.         *)
StartTimer ==
  /\ hpc = "timer"
  /\ armed' = (~ armed \/ ~ newCycle)
  /\ hpc' = IF armed /\ newCycle THEN "rearm" ELSE "set_start"
  /\ UNCHANGED <<bits, trackPaused, lock, tracks, broken, timerVars, req, newCycle, hasError>>

(* Variant for the checks: a restarted timer is not started again. *)
RearmNothing ==
  /\ hpc = "rearm"
  /\ hpc' = "set_start"
  /\ UNCHANGED <<bits, armed, trackPaused, lock, tracks, broken, timerVars, req, newCycle, hasError>>

Rearm ==
  /\ hpc = "rearm"
  /\ armed' = TRUE
  /\ hpc' = "set_start"
  /\ UNCHANGED <<bits, trackPaused, lock, tracks, broken, timerVars, req, newCycle, hasError>>

SetStart ==
  /\ hpc = "set_start"
  /\ bits' = bits \cup {"START"}
  /\ newCycle' = FALSE
  /\ hpc' = "ready"
  /\ UNCHANGED <<armed, trackPaused, lock, tracks, broken, timerVars, req, hasError>>

-----------------------------------------------------------------------------
(* The httpd task: requests that use the lists.                            *)

(* 5 seconds without the lock: the callback holds it while a track waits   *)
(* for image data (process_bmp.c 118).                                     *)
ListLockTimesOut == lock = "timer"

(* get_handler_list sends the lists chunk by chunk while it holds the lock. *)
RequestList ==
  /\ hpc = "ready"
  /\ "list" \in Requests
  /\ hpc' = "list"
  /\ UNCHANGED <<bits, armed, trackPaused, lock, tracks, broken, timerVars, req, newCycle, hasError>>

ListTakesLock ==
  /\ hpc = "list"
  /\ lock = "free"
  /\ lock' = "httpd"
  /\ hpc' = "listing"
  /\ UNCHANGED <<bits, armed, trackPaused, tracks, broken, timerVars, req, newCycle, hasError>>

ListGivesUp ==
  /\ hpc = "list"
  /\ ListLockTimesOut
  /\ hpc' = "ready"
  /\ UNCHANGED <<bits, armed, trackPaused, lock, tracks, broken, timerVars, req, newCycle, hasError>>

(* Variant for the checks: the handler returns without giving the lock back. *)
ListKeepsLock ==
  /\ hpc = "listing"
  /\ hpc' = "ready"
  /\ UNCHANGED <<bits, armed, trackPaused, lock, tracks, broken, timerVars, req, newCycle, hasError>>

ListDone ==
  /\ hpc = "listing"
  /\ lock' = "free"
  /\ hpc' = "ready"
  /\ UNCHANGED <<bits, armed, trackPaused, tracks, broken, timerVars, req, newCycle, hasError>>

(* clear_data: a stop request unless the status is STOPPED.  The lists are *)
(* cleared without waiting for the callback to act on it.                  *)
RequestData(r) ==
  /\ hpc = "ready"
  /\ r \in Requests \cap {"load", "clear"}
  /\ req' = r
  /\ hasError' = FALSE
  /\ hpc' = IF run # "STOPPED" THEN "clear_bits" ELSE "clear_groups"
  /\ UNCHANGED <<bits, armed, trackPaused, lock, tracks, broken, timerVars, newCycle>>

(* One of the three clear functions: with the lock, or failed without it. *)
Cleared == lock = "free" /\ UNCHANGED hasError

NotCleared == ListLockTimesOut /\ hasError' = TRUE /\ UNCHANGED <<tracks, broken>>

ClearGroups ==
  /\ hpc = "clear_groups"
  /\ \/ /\ Cleared
        /\ broken' = IF tracks = "none" THEN broken ELSE broken \cup {"groups"}
        /\ UNCHANGED tracks
     \/ NotCleared
  /\ hpc' = "clear_objects"
  /\ UNCHANGED <<bits, armed, trackPaused, lock, timerVars, req, newCycle>>

ClearObjects ==
  /\ hpc = "clear_objects"
  /\ \/ /\ Cleared
        /\ broken' = IF tracks = "playing" THEN broken \cup {"objects"} ELSE broken
        /\ UNCHANGED tracks
     \/ NotCleared
  /\ hpc' = "clear_tracks"
  /\ UNCHANGED <<bits, armed, trackPaused, lock, timerVars, req, newCycle>>

(* Where clear_data returns to: /cl answers "clear data done" in any case, *)
(* a load goes on only without an error.                                   *)
AfterClear(failed) == IF req = "load" /\ ~ failed THEN "add_objects" ELSE "ready"

(* Variant for the checks: the failure of the last clear is not counted. *)
ClearTracksNoError ==
  /\ hpc = "clear_tracks"
  /\ \/ lock = "free" /\ tracks' = "none" /\ broken' = {}
     \/ ListLockTimesOut /\ UNCHANGED <<tracks, broken>>
  /\ hpc' = AfterClear(hasError)
  /\ UNCHANGED <<bits, armed, trackPaused, lock, timerVars, req, newCycle, hasError>>

ClearTracks ==
  /\ hpc = "clear_tracks"
  /\ \/ /\ Cleared
        /\ tracks' = "none"
        /\ broken' = {}
     \/ NotCleared
  /\ hpc' = AfterClear(hasError')
  /\ UNCHANGED <<bits, armed, trackPaused, lock, timerVars, req, newCycle>>

(* decode_json4event_root: the load ends with an error. *)
LoadFails == hasError' = TRUE /\ hpc' = "ready"

(* Objects and event groups are added one by one, each with the lock.  One *)
(* whose lock times out is left out, nobody looks at the result.  A JSON   *)
(* error ends the load; what was added stays.                              *)
AddList(here, next) ==
  /\ hpc = here
  /\ \/ hpc' = next /\ UNCHANGED hasError
     \/ LoadFails
  /\ UNCHANGED <<bits, armed, trackPaused, lock, tracks, broken, timerVars, req, newCycle>>

AddObjects == AddList("add_objects", "add_groups")

AddGroups == AddList("add_groups", "add_tracks")

(* A track element is linked into its track without the lock, and has no   *)
(* event group until the next step has found the one it names.             *)
LinkElement ==
  /\ hpc = "add_tracks"
  /\ tracks' = IF tracks = "none" THEN "loaded" ELSE tracks
  /\ broken' = broken \cup {"unset"}
  /\ hpc' = "set_group"
  /\ UNCHANGED <<bits, armed, trackPaused, lock, timerVars, req, newCycle, hasError>>

(* An element whose event is unknown stays in its track, without an event  *)
(* group, when the load fails.                                             *)
SetGroup ==
  /\ hpc = "set_group"
  /\ \/ /\ broken' = broken \ {"unset"}
        /\ hpc' = "add_tracks"
        /\ UNCHANGED hasError
     \/ LoadFails /\ UNCHANGED broken
  /\ UNCHANGED <<bits, armed, trackPaused, lock, tracks, timerVars, req, newCycle>>

(* All elements are linked, or the JSON fails between two of them. *)
TracksAdded ==
  /\ hpc = "add_tracks"
  /\ hpc' = "ready"
  /\ hasError' \in {hasError, TRUE}
  /\ UNCHANGED <<bits, armed, trackPaused, lock, tracks, broken, timerVars, req, newCycle>>

Httpd ==
  \/ (\E r \in Requests : RequestStatus(r) \/ RequestData(r))
  \/ ClearBits \/ SetBits \/ SetCycle \/ StartTimer \/ Rearm \/ SetStart
  \/ RequestList \/ ListTakesLock \/ ListGivesUp \/ ListDone
  \/ ClearGroups \/ ClearObjects \/ ClearTracks \/ AddObjects \/ AddGroups
  \/ LinkElement \/ SetGroup \/ TracksAdded

-----------------------------------------------------------------------------
Next == TimerTask \/ Httpd

Spec == Init /\ [][Next]_vars

(* An armed timer fires and its callback runs to its end.  Clients need    *)
(* not send anything, and a slow client may hold a handler for ever.       *)
FairSpec == Spec /\ WF_vars(TimerTask)
-----------------------------------------------------------------------------
(* The state spaces of the variables. *)
TypeOK ==
  /\ bits \in SUBSET Bits
  /\ run \in Statuses
  /\ time \in {0, 1}
  /\ armed \in BOOLEAN
  /\ trackPaused \in BOOLEAN
  /\ newCycle \in BOOLEAN
  /\ lock \in {"free", "timer", "httpd"}
  /\ tracks \in {"none", "loaded", "playing", "ended"}
  /\ broken \in SUBSET {"groups", "objects", "unset"}
  /\ tpc \in TimerPlaces
  /\ ubits \in SUBSET Bits
  /\ doReset \in BOOLEAN
  /\ hpc \in HttpdPlaces
  /\ req \in Requests \cup {"none"}
  /\ hasError \in BOOLEAN

(* A scene that is running or paused has the timer that drives it: no      *)
(* order of requests and ticks leaves a status other than STOPPED with no  *)
(* callback to change it.  scenes_start restarts a running timer for a new *)
(* cycle time, only then it is off for a moment (timer_events.c 195-209).  *)
ArmedWhilePlaying == run # "STOPPED" => armed \/ hpc = "rearm"

(* The status is STOPPED exactly with the scene time at its beginning when *)
(* the callback is not at work: neither a stop nor the end of the scene    *)
(* leaves a time from which the next start would go on (107, 177).         *)
StoppedAtZero == run = "STOPPED" => time = 0

(* Between two requests the lists fit together, unless the last load or    *)
(* clear returned an error: after a load without one every track element   *)
(* has an event group that exists (event_util.c 523-555).                  *)
ListsFitTogether == hpc = "ready" /\ ~ hasError => broken = {}

(* Nobody keeps the eventlist lock: it is free when both tasks are done,   *)
(* and never given away by the task that does not hold it.                 *)
LockInv ==
  /\ lock = "timer" <=> tpc = "play"
  /\ lock = "httpd" <=> hpc = "listing"

(* A request that the next tick will read.  One that is set after the      *)
(* callback has read the bits (84) and before it clears them (131) is lost *)
(* when the clear comes: it is not among them.                             *)
Pending(b) == b \in bits /\ armed /\ tpc \notin {"decide", "clear"}

(* What a request bit asks for. *)
Obeyed(b) ==
  CASE b = "START"    -> run = "RUNNING"
    [] b = "PAUSE"    -> run = "PAUSED"
    [] b = "CONTINUE" -> ~ trackPaused
    [] OTHER          -> run = "STOPPED"

(* A later request has just cleared the bits. *)
Replaced == hpc \in {"set_bits", "timer"}

(* A request that the next tick will read is obeyed, unless a later one    *)
(* replaces it or the timer is stopped first: the callback never hangs on  *)
(* the lock that a slow client of /li may hold for ever, and nothing else  *)
(* clears what it has not read (timer_events.c 80-184).                    *)
RequestObeyed ==
  \A b \in Bits : Pending(b) ~> (Obeyed(b) \/ Replaced \/ ~ armed)

(* How far the callback is from the read of the bits: it ends the tick in  *)
(* which it is, unless that stops the timer, and reads them in the next.   *)
CallbackRank ==
  CASE tpc = "lock"   -> 6
    [] tpc = "play"   -> 5
    [] tpc \in {"finish", "stop_tracks"}    -> 4
    [] tpc \in {"finish_timer", "idle"}     -> 3
    [] tpc = "decide" -> 2
    [] tpc \in {"clear", "stop_timer"}      -> 1

(* A request that the next tick will read stays so, each step of the       *)
(* callback brings the read nearer and no step of a handler puts it back,  *)
(* until it is read, replaced, or the timer is stopped; what was read is   *)
(* obeyed in the next step.  The callback has a step: a lock that is not   *)
(* free is held by /li and given up (139), never by the callback itself.   *)
RequestDescends ==
  [][\A b \in Bits :
       /\ Pending(b) =>
            /\ tpc = "lock" => lock \in {"free", "httpd"}
            /\ \/ ~ armed' \/ Replaced'
               \/ tpc' = "decide" /\ b \in ubits'
               \/ /\ Pending(b)'
                  /\ IF TimerTask THEN CallbackRank' \in 0..CallbackRank - 1
                                  ELSE CallbackRank' = CallbackRank
       /\ tpc = "decide" /\ b \in ubits => Obeyed(b)' \/ tpc' = "decide"]_vars

(* The bits are those of one request: a handler sets them after it has     *)
(* cleared all others.                                                     *)
OneRequest ==
  LET Single == {{}, {"START"}, {"STOP"}, {"STOP", "BLANK"}, {"PAUSE"}, {"CONTINUE"}}
  IN /\ bits \in Single
     /\ ubits \in Single
     /\ hpc \in {"set_bits", "timer", "rearm", "set_start"} => bits = {}

(* The inductive invariant behind them. *)
PlaybackInv ==
  /\ TypeOK
  /\ ArmedWhilePlaying
  /\ StoppedAtZero
  /\ LockInv
  /\ OneRequest
  /\ hpc = "rearm" => ~ armed
  /\ tpc \in {"decide", "clear", "lock", "play"} => armed \/ hpc = "rearm"
  /\ tpc \in {"lock", "play", "finish"} => run = "RUNNING"
  /\ tpc \in {"stop_timer", "stop_tracks", "finish_timer"} => run = "STOPPED"
  /\ hpc \in {"clear_groups", "clear_objects", "clear_tracks", "add_objects",
              "add_groups", "add_tracks", "set_group"} => req \in {"load", "clear"}
  /\ broken # {} =>
       \/ hasError
       \/ hpc \in {"clear_groups", "clear_objects", "clear_tracks"}
       \/ hpc \in {"clear_bits", "set_bits"} /\ req \in {"load", "clear"}
       \/ hpc = "set_group" /\ broken = {"unset"}

(* The freed lists that track elements still refer to. *)
Freed == broken \ {"unset"}

(* event_util.c 20: the lock guards the track, event and object lists.     *)
(* The callback never reads an event or an object that a request has freed. *)
FreedListUnused ==
  /\ tpc = "play" /\ doReset /\ tracks # "none" => Freed \subseteq {"objects"}
  /\ tpc = "play" /\ ~ doReset /\ ~ trackPaused /\ tracks = "playing" => Freed = {}
  /\ tpc = "stop_tracks" /\ tracks = "playing" => "groups" \notin Freed
=============================================================================
