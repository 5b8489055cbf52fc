--------------------------- MODULE PlaybackProofs ---------------------------
(***************************************************************************)
(* Proofs about Playback: PlaybackInv is inductive for every set of        *)
(* requests that the clients send.                                         *)
(***************************************************************************)
EXTENDS Playback, TLAPS

(* init_timer_events leaves the invariant true. *)
LEMMA PlaybackInit == Init => PlaybackInv
<1>1. Init => OneRequest
  BY DEF Init, OneRequest
<1> QED
  BY <1>1 DEF Init, PlaybackInv, TypeOK, ArmedWhilePlaying, StoppedAtZero, LockInv,
         Bits, Statuses, TimerPlaces, HttpdPlaces

(* The bits stay those of one request. *)
LEMMA OneRequestKept == ASSUME PlaybackInv, [Next]_vars PROVE OneRequest'
<1>1. OneRequest
  BY DEF PlaybackInv
<1>2. CASE ClearAllBits
  BY <1>1, <1>2 DEF OneRequest, ClearAllBits, httpdVars
<1>3. CASE Tick
  BY <1>1, <1>3 DEF OneRequest, Tick, httpdVars
<1>4. CASE TimerTask /\ ~ Tick /\ ~ ClearAllBits
  <2>1. UNCHANGED <<bits, ubits, hpc>>
    BY <1>4 DEF TimerTask, DecideStop, Decide, TakeLock, LockTimesOut, PlayPaused, Play, Finish,
      FinishTimer, StopTimer, StopTracks, httpdVars
  <2> QED BY <1>1, <2>1 DEF OneRequest
<1>5. CASE Httpd \/ UNCHANGED vars
  <2>1. ubits' = ubits
    BY <1>5 DEF Httpd, RequestStatus, RequestData, ClearBits, SetBits, SetCycle, StartTimer, Rearm,
      SetStart, RequestList, ListTakesLock, ListGivesUp, ListDone, ClearGroups, ClearObjects,
      ClearTracks, AddObjects, AddGroups, AddList, LinkElement, SetGroup, TracksAdded, vars,
      timerVars
  <2>2. CASE ClearBits
    BY <1>1, <2>1, <2>2 DEF OneRequest, ClearBits
  <2>3. CASE SetBits
    <3>1. bits' = RequestBits(req) /\ hpc' \notin {"set_bits", "timer", "rearm", "set_start"}
      BY <1>1, <2>3 DEF OneRequest, SetBits
    <3>2. RequestBits(req) \in {{"STOP"}, {"STOP", "BLANK"}, {"PAUSE"}, {"CONTINUE"}}
      BY DEF RequestBits
    <3> QED BY <1>1, <2>1, <3>1, <3>2 DEF OneRequest
  <2>4. CASE SetStart
    <3>1. bits' = {"START"} /\ hpc' = "ready"
      BY <1>1, <2>4 DEF OneRequest, SetStart
    <3> QED BY <1>1, <2>1, <3>1 DEF OneRequest
  <2>5. CASE StartTimer \/ Rearm
    BY <1>1, <2>1, <2>5 DEF OneRequest, StartTimer, Rearm
  <2>6. CASE ~ ClearBits /\ ~ SetBits /\ ~ SetStart /\ ~ StartTimer /\ ~ Rearm
    <3>1. bits' = bits
      BY <1>5, <2>6 DEF Httpd, RequestStatus, RequestData, SetCycle, RequestList,
        ListTakesLock, ListGivesUp, ListDone, ClearGroups, ClearObjects, ClearTracks, AddObjects,
        AddGroups, AddList, LinkElement, SetGroup, TracksAdded, vars
    <3>2. hpc' = hpc \/ hpc' \notin {"set_bits", "timer", "rearm", "set_start"}
      BY <1>5, <2>6 DEF Httpd, RequestStatus, RequestData, SetCycle, RequestList,
        ListTakesLock, ListGivesUp, ListDone, ClearGroups, ClearObjects, ClearTracks, AfterClear,
        AddObjects, AddGroups, AddList, LoadFails, LinkElement, SetGroup, TracksAdded, vars,
        httpdVars
    <3> QED BY <1>1, <2>1, <3>1, <3>2 DEF OneRequest
  <2> QED BY <2>2, <2>3, <2>4, <2>5, <2>6
<1> QED BY <1>2, <1>3, <1>4, <1>5 DEF Next

(* No step of the timer callback breaks it. *)
LEMMA TimerTaskInv == ASSUME PlaybackInv, TimerTask, OneRequest' PROVE PlaybackInv'
<1> USE DEF PlaybackInv, TypeOK, ArmedWhilePlaying, StoppedAtZero, LockInv,
            Bits, Statuses, TimerPlaces, httpdVars
<1>1. CASE Tick
  BY <1>1, ZenonT(40) DEF Tick
<1>2. CASE DecideStop
  BY <1>2 DEF DecideStop
<1>3. CASE Decide
  BY <1>3 DEF Decide, Started
<1>4. CASE ClearAllBits
  BY <1>4 DEF ClearAllBits
<1>5. CASE TakeLock
  BY <1>5 DEF TakeLock
<1>6. CASE LockTimesOut
  BY <1>6 DEF LockTimesOut
<1>7. CASE PlayPaused
  BY <1>7 DEF PlayPaused
<1>8. CASE Play
  BY <1>8 DEF Play, PlayedTracks
<1>9. CASE Finish
  BY <1>9 DEF Finish
<1>10. CASE FinishTimer
  BY <1>10 DEF FinishTimer
<1>11. CASE StopTimer
  BY <1>11 DEF StopTimer
<1>12. CASE StopTracks
  BY <1>12 DEF StopTracks
<1> QED
  BY <1>1, <1>2, <1>3, <1>4, <1>5, <1>6, <1>7, <1>8, <1>9, <1>10, <1>11, <1>12 DEF TimerTask

(* No step of a request handler breaks it. *)
LEMMA HttpdInv == ASSUME PlaybackInv, Httpd, OneRequest' PROVE PlaybackInv'
<1> USE DEF PlaybackInv, TypeOK, ArmedWhilePlaying, StoppedAtZero, LockInv,
            Bits, HttpdPlaces, timerVars
<1>1. ASSUME NEW r \in Requests, RequestStatus(r) PROVE PlaybackInv'
  BY <1>1 DEF RequestStatus
<1>2. ASSUME NEW r \in Requests, RequestData(r) PROVE PlaybackInv'
  BY <1>2, ZenonT(40) DEF RequestData
<1>3. CASE SetCycle
  BY <1>3 DEF SetCycle
<1>4. CASE ClearBits
  BY <1>4 DEF ClearBits
<1>5. CASE SetBits
  <2>1. RequestBits(req) \in SUBSET Bits
    BY DEF RequestBits
  <2> QED
    BY <1>5, <2>1 DEF SetBits
<1>6. CASE StartTimer
  BY <1>6, ZenonT(40) DEF StartTimer
<1>7. CASE Rearm
  BY <1>7 DEF Rearm
<1>8. CASE SetStart
  BY <1>8 DEF SetStart
<1>9. CASE RequestList
  BY <1>9 DEF RequestList
<1>10. CASE ListTakesLock
  BY <1>10 DEF ListTakesLock
<1>11. CASE ListGivesUp
  BY <1>11 DEF ListGivesUp
<1>12. CASE ListDone
  BY <1>12 DEF ListDone
<1>13. CASE ClearGroups
  BY <1>13, ZenonT(40) DEF ClearGroups, Cleared, NotCleared
<1>14. CASE ClearObjects
  BY <1>14, ZenonT(40) DEF ClearObjects, Cleared, NotCleared
<1>15. CASE ClearTracks
  BY <1>15, ZenonT(40) DEF ClearTracks, Cleared, NotCleared, AfterClear
<1>16. CASE AddObjects
  <2>1. CASE hpc' = "add_groups" /\ UNCHANGED hasError
    BY <1>16, <2>1 DEF AddObjects, AddList
  <2>2. CASE LoadFails
    BY <1>16, <2>2 DEF AddObjects, AddList, LoadFails
  <2> QED
    BY <1>16, <2>1, <2>2 DEF AddObjects, AddList
<1>17. CASE AddGroups
  <2>1. CASE hpc' = "add_tracks" /\ UNCHANGED hasError
    BY <1>17, <2>1 DEF AddGroups, AddList
  <2>2. CASE LoadFails
    BY <1>17, <2>2 DEF AddGroups, AddList, LoadFails
  <2> QED
    BY <1>17, <2>1, <2>2 DEF AddGroups, AddList
<1>18. CASE LinkElement
  BY <1>18, ZenonT(40) DEF LinkElement
<1>19. CASE SetGroup
  <2>1. CASE broken' = broken \ {"unset"} /\ hpc' = "add_tracks" /\ UNCHANGED hasError
    BY <1>19, <2>1 DEF SetGroup
  <2>2. CASE LoadFails /\ UNCHANGED broken
    BY <1>19, <2>2 DEF SetGroup, LoadFails
  <2> QED
    BY <1>19, <2>1, <2>2 DEF SetGroup
<1>20. CASE TracksAdded
  BY <1>20, ZenonT(40) DEF TracksAdded
<1> QED
  BY <1>1, <1>2, <1>3, <1>4, <1>5, <1>6, <1>7, <1>8, <1>9, <1>10, <1>11, <1>12, <1>13,
     <1>14, <1>15, <1>16, <1>17, <1>18, <1>19, <1>20 DEF Httpd

(* The invariant holds in every reachable state. *)
THEOREM PlaybackSafe == Spec => []PlaybackInv
<1>1. PlaybackInv /\ [Next]_vars => PlaybackInv'
  <2> SUFFICES ASSUME PlaybackInv, [Next]_vars PROVE PlaybackInv'
    OBVIOUS
  <2>1. OneRequest'
    BY OneRequestKept
  <2>2. CASE UNCHANGED vars
    BY <2>1, <2>2 DEF vars, timerVars, httpdVars, PlaybackInv, TypeOK, ArmedWhilePlaying,
                StoppedAtZero, LockInv
  <2> QED
    BY <2>1, <2>2, TimerTaskInv, HttpdInv DEF Next
<1> QED
  BY <1>1, PlaybackInit, PTL DEF Spec

(* A scene that is running or paused always has the timer that drives it,  *)
(* whatever requests arrive in whatever order between the ticks.           *)
THEOREM AlwaysArmed == Spec => []ArmedWhilePlaying
<1>1. PlaybackInv => ArmedWhilePlaying
  BY DEF PlaybackInv
<1> QED
  BY <1>1, PlaybackSafe, PTL

(* After a load or clear without an error no track element refers to an    *)
(* event group or object that does not exist.                              *)
THEOREM ListsAlwaysFit == Spec => []ListsFitTogether
<1>1. PlaybackInv => ListsFitTogether
  BY DEF PlaybackInv, ListsFitTogether
<1> QED
  BY <1>1, PlaybackSafe, PTL

-----------------------------------------------------------------------------
(* A request that the next tick will read stays readable and comes nearer  *)
(* with every step of the callback (timer_events.c 80-184).                *)
LEMMA CallbackSteps ==
  ASSUME PlaybackInv, TimerTask, armed, armed', tpc \notin {"decide", "clear"}
  PROVE  /\ \/ tpc' = "decide" /\ ubits' = bits
            \/ tpc' \notin {"decide", "clear"} /\ CallbackRank' \in 0..CallbackRank - 1
         /\ bits' = bits
<1>1. CASE Tick
  BY <1>1 DEF Tick
<1>2. CASE ~ Tick
  <2>1. ~ DecideStop /\ ~ Decide /\ ~ ClearAllBits /\ ~ FinishTimer /\ ~ StopTimer
    BY DEF DecideStop, Decide, ClearAllBits, FinishTimer, StopTimer
  <2>2. /\ \/ tpc = "lock" /\ tpc' \in {"play", "idle"}
           \/ tpc = "play" /\ tpc' \in {"idle", "finish"}
           \/ tpc = "finish" /\ tpc' = "finish_timer"
           \/ tpc = "stop_tracks" /\ tpc' = "idle"
        /\ bits' = bits
    <3>1. CASE TakeLock \/ LockTimesOut \/ PlayPaused
      BY <3>1 DEF TakeLock, LockTimesOut, PlayPaused
    <3>2. CASE Play
      BY <3>2 DEF Play
    <3>3. CASE Finish \/ StopTracks
      BY <3>3 DEF Finish, StopTracks
    <3> QED
      BY <1>2, <2>1, <3>1, <3>2, <3>3 DEF TimerTask
  <2> QED
    BY <2>2 DEF CallbackRank
<1> QED
  BY <1>1, <1>2

(* Nobody but a handler of /li can be in the way of the callback.          *)
LEMMA LockIsForeign == PlaybackInv /\ tpc = "lock" => lock \in {"free", "httpd"}
BY DEF PlaybackInv, TypeOK, LockInv

(* A handler adds bits, or clears them for a later request. *)
LEMMA HandlersKeepRequest ==
  ASSUME Httpd \/ UNCHANGED vars
  PROVE  /\ tpc' = tpc /\ ubits' = ubits /\ CallbackRank' = CallbackRank
         /\ Replaced' \/ bits \subseteq bits'
<1>1. tpc' = tpc /\ ubits' = ubits
  BY DEF Httpd, RequestStatus, RequestData, ClearBits, SetBits, SetCycle, StartTimer, Rearm,
    SetStart, RequestList, ListTakesLock, ListGivesUp, ListDone, ClearGroups, ClearObjects,
    ClearTracks, AddObjects, AddGroups, AddList, LinkElement, SetGroup, TracksAdded, vars,
    timerVars
<1>2. ClearBits => Replaced'
  BY DEF ClearBits, Replaced
<1>3. SetBits \/ SetStart => bits \subseteq bits'
  BY DEF SetBits, SetStart
<1>4. ~ ClearBits /\ ~ SetBits /\ ~ SetStart => bits' = bits
  BY DEF Httpd, RequestStatus, RequestData, SetCycle, StartTimer, Rearm, RequestList,
    ListTakesLock, ListGivesUp, ListDone, ClearGroups, ClearObjects, ClearTracks, AddObjects,
    AddGroups, AddList, LinkElement, SetGroup, TracksAdded, vars
<1>5. Replaced' \/ bits \subseteq bits'
  BY <1>2, <1>3, <1>4
<1>6. CallbackRank' = CallbackRank
  BY <1>1 DEF CallbackRank
<1> QED
  BY <1>1, <1>5, <1>6

(* What the callback has read it does. *)
LEMMA ReadIsObeyed ==
  ASSUME PlaybackInv, TimerTask, tpc = "decide", NEW b \in Bits, b \in ubits
  PROVE  Obeyed(b)'
<1>1. ubits \in {{"START"}, {"STOP"}, {"STOP", "BLANK"}, {"PAUSE"}, {"CONTINUE"}}
  BY DEF PlaybackInv, OneRequest
<1>2. DecideStop \/ Decide
  BY DEF TimerTask, Tick, ClearAllBits, TakeLock, LockTimesOut, PlayPaused, Play, Finish,
    FinishTimer, StopTimer, StopTracks
<1>3. CASE DecideStop
  <2>1. b \in {"STOP", "BLANK"} /\ run' = "STOPPED"
    BY <1>1, <1>3 DEF DecideStop
  <2> QED BY <2>1 DEF Obeyed
<1>4. CASE Decide
  <2>1. CASE b = "CONTINUE"
    BY <1>4, <2>1, Zenon DEF Decide, Obeyed
  <2>2. CASE b # "CONTINUE"
    <3>1. /\ b = "START" => run' = "RUNNING"
          /\ b = "PAUSE" => run' = "PAUSED"
          /\ b \in {"STOP", "BLANK"} => run' = "STOPPED"
      BY <1>1, <1>4 DEF Decide, Started
    <3> QED BY <2>2, <3>1 DEF Bits, Obeyed
  <2> QED BY <2>1, <2>2
<1> QED
  BY <1>2, <1>3, <1>4

(* A request that the next tick will read is not lost: the safety half of  *)
(* RequestObeyed, for every set of requests.                               *)
THEOREM RequestComesToItsTurn == Spec => RequestDescends
<1> DEFINE Nearer(b) ==
      /\ Pending(b) =>
           /\ tpc = "lock" => lock \in {"free", "httpd"}
           /\ \/ ~ armed' \/ Replaced'
              \/ tpc' = "decide" /\ b \in ubits'
              \/ /\ Pending(b)'
                 /\ IF TimerTask THEN CallbackRank' \in 0..CallbackRank - 1
                                 ELSE CallbackRank' = CallbackRank
      /\ tpc = "decide" /\ b \in ubits => Obeyed(b)' \/ tpc' = "decide"
<1>1. PlaybackInv /\ [Next]_vars => [\A b \in Bits : Nearer(b)]_vars
  <2> SUFFICES ASSUME PlaybackInv, [Next]_vars, NEW b \in Bits PROVE Nearer(b)
    OBVIOUS
  <2>1. CASE TimerTask
    <3>1. ASSUME tpc = "decide", b \in ubits PROVE Obeyed(b)'
      BY <2>1, <3>1, ReadIsObeyed
    <3>2. ASSUME Pending(b), armed'
          PROVE  \/ tpc' = "decide" /\ b \in ubits'
                 \/ Pending(b)' /\ CallbackRank' \in 0..CallbackRank - 1
      BY <2>1, <3>2, CallbackSteps, Zenon DEF Pending
    <3> QED BY <2>1, <3>1, <3>2, LockIsForeign, Zenon
  <2>2. CASE ~ TimerTask
    <3>1. /\ tpc' = tpc /\ ubits' = ubits /\ CallbackRank' = CallbackRank
          /\ Replaced' \/ bits \subseteq bits'
      BY <2>2, HandlersKeepRequest DEF Next
    <3>2. ASSUME Pending(b), armed', ~ Replaced' PROVE Pending(b)'
      BY <3>1, <3>2, Zenon DEF Pending
    <3> QED BY <2>2, <3>1, <3>2, LockIsForeign, Zenon
  <2> QED BY <2>1, <2>2
<1> QED
  BY <1>1, PlaybackSafe, PTL DEF Spec, RequestDescends
=============================================================================
