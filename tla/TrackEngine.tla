----------------------------- MODULE TrackEngine -----------------------------
(***************************************************************************)
(* The track engine, main/process_events.c: what one tick of the timer     *)
(* callback does with one track.  The tracks are processed one after the   *)
(* other and share only track_process_paused, so one track is modelled.    *)
(*                                                                         *)
(* A track is a sequence of elements, an element has the three event lists *)
(* of its event group and its number of repeats.  The loops of             *)
(* process_track and process_track_element_work are steps of their own, so *)
(* that a tick that does not return is a behaviour and not an error of the *)
(* model.  All times are numbers of ticks.  The only element with working  *)
(* data is the current one: every element starts as reset_tracks left it.  *)
(*                                                                         *)
(* Left out: what is painted and where (position, brightness, threshold;   *)
(* the length factor stays 1, nothing sets its delta).  Speeds and ways    *)
(* are integers.  An object has one data entry, and one that an event      *)
(* names exists.                                                           *)
(***************************************************************************)
EXTENDS Integers, Sequences, FiniteSets

CONSTANTS
  Programs,     \* the tracks that clients load
  Lines,        \* how many lines of an ended stream may still be shown
  CountLimit    \* bound of the model: plays and ticks are counted up to it

(* Events that take time: they go on from tick to tick. *)
TimeTypes == {"wait", "paint", "distance", "bmp_read"}

WaitTypes == {"wait", "wait_first"}

(* What an "object" event names; any other number is an object of another  *)
(* kind.  The length of an object may be missing, which counts as -1.      *)
NoObject == 0
BmpObject == 1
ThinBmp == 2
ThinObject == 3

IsBmp(o) == o \in {BmpObject, ThinBmp}

IsThin(o) == o \in {ThinBmp, ThinObject}

SpeedTypes == {"speed", "speedup"}

(* "other" is any event that sets a parameter and nothing else. *)
OtherTypes ==
  TimeTypes \cup {"wait_first", "bounce", "clear", "object", "pause", "bmp_open",
                  "bmp_close", "other"}

(* A time of 0 stands for all that are not positive. *)
Event == [type : OtherTypes, value : Nat] \cup [type : SpeedTypes, value : Int]

(* repeats = 0: for ever. *)
Element == [init : Seq(Event), work : Seq(Event), final : Seq(Event), repeats : Nat]

ASSUME ProgramsAssumption ==
  Programs \subseteq Seq(Element) /\ Lines \subseteq Nat /\ CountLimit \in Nat \ {0, 1}

VARIABLES
  track,     \* the elements of the track
  tstatus,   \* track->status
  cur,       \* track->current_element; NULL is the number after the last one
  ele,       \* working data of the current element
  stream,    \* for every element, w_bmp and the BMP stream it stands for
  paused,    \* track_process_paused
  pc,        \* where the timer task is
  plays,     \* how often the final events of the current element were executed
  ticks      \* ticks of the present play of the current element

vars == <<track, tstatus, cur, ele, stream, paused, pc, plays, ticks>>

(* What reset_track_element leaves; w_repeats is reset elsewhere.  lines   *)
(* is what the buffers of w_bmp still hold when the http task has ended.   *)
Fresh(reps) ==
  [status |-> "READY", estatus |-> "READY", evt |-> 1, wait |-> 0,
   flags |-> {}, speed |-> 0, accel |-> 0, dist |-> 0, object |-> NoObject,
   lines |-> 0, reps |-> reps]

This == track[cur]

(* EVFL_WAIT is set in w_flags: the display is frozen. *)
Frozen == "WAIT" \in ele.flags

Counted(n) == IF n < CountLimit THEN n + 1 ELSE n

IsElement(c) == c <= Len(track)

Repeats(c) == IF IsElement(c) THEN track[c].repeats ELSE 0

Places == {"idle", "element", "starting", "work", "event", "final", "repeat", "show"}

(* The data is loaded and reset_tracks has been called. *)
Init ==
  /\ track \in Programs
  /\ tstatus = "READY"
  /\ cur = 1
  /\ ele = Fresh(Repeats(1))
  /\ stream = [e \in DOMAIN track |-> "none"]
  /\ paused = FALSE
  /\ pc = "idle"
  /\ plays = 0
  /\ ticks = 0

-----------------------------------------------------------------------------
(* Helpers on event lists.                                                 *)

Positions(list, types) == {i \in DOMAIN list : list[i].type \in types}

(* The value that is left after a list was executed in order: the last one. *)
LastValue(list, types, default) ==
  LET S == Positions(list, types)
  IN IF S = {} THEN default ELSE list[CHOOSE i \in S : \A j \in S : j <= i].value

(* A stream that is not IDLE.  An "unserved" one got no slot, no task or   *)
(* no client from https_get and stays as bmp_init_data left it.            *)
Live == {"running", "unserved", "ended"}

(* bmp_open_url: refused while the element has a stream that is not IDLE. *)
Opened(s) == IF s \in Live THEN {s} ELSE {"running", "unserved"}

StreamIn(S) == \E s \in S : stream' = [stream EXCEPT ![cur] = s]

(* A bmp_open finds the object that the events before it have set. *)
InitOpens(list) ==
  \E i \in Positions(list, {"bmp_open"}) :
    IsBmp(LastValue(SubSeq(list, 1, i - 1), {"object"}, NoObject))

-----------------------------------------------------------------------------
(* One tick: process_track.                                                *)

Tick ==
  /\ pc = "idle"
  /\ ~ paused
  /\ tstatus # "FINISHED"
  /\ tstatus' = "RUNNING"
  /\ pc' = "element"
  /\ ticks' = Counted(ticks)
  /\ UNCHANGED <<track, cur, ele, stream, paused, plays>>

(* No element is left. *)
TrackDone ==
  /\ pc = "element"
  /\ ~ IsElement(cur)
  /\ tstatus' = "FINISHED"
  /\ pc' = "idle"
  /\ UNCHANGED <<track, cur, ele, stream, paused, plays, ticks>>

(* Variant for the checks: a wait_first waits in the first play only.      *)
InitElementFirstOnly ==
  /\ pc = "element"
  /\ IsElement(cur)
  /\ ele.status = "READY"
  /\ LET waits == Positions(This.init, IF plays = 0 THEN WaitTypes ELSE {"wait"})
         clears == Positions(This.init, {"clear"})
     IN ele' = [ele EXCEPT !.status  = IF waits = {} THEN "RUNNING" ELSE "STARTING",
                           !.estatus = "READY",
                           !.flags   = @ \cup (IF waits = {} THEN {} ELSE {"WAIT"})
                                         \cup (IF clears = {} THEN {} ELSE {"CLEAR"}),
                           !.wait    = LastValue(This.init, WaitTypes, @),
                           !.speed   = LastValue(This.init, {"speed"}, @),
                           !.accel   = LastValue(This.init, {"speedup"}, @),
                           !.object  = LastValue(This.init, {"object"}, @)]
  /\ IF InitOpens(This.init) THEN StreamIn(Opened(stream[cur])) ELSE UNCHANGED stream
  /\ paused' = (paused \/ Positions(This.init, {"pause"}) # {})
  /\ pc' = "starting"
  /\ UNCHANGED <<track, tstatus, cur, plays, ticks>>

(* process_track_element_init: all events of the list at once.  A wait     *)
(* freezes the display; EVFL_WAIT_FIRST_DONE is never set, so a wait_first *)
(* does the same.                                                          *)
InitElement ==
  /\ pc = "element"
  /\ IsElement(cur)
  /\ ele.status = "READY"
  /\ LET waits == Positions(This.init, WaitTypes)
         clears == Positions(This.init, {"clear"})
     IN ele' = [ele EXCEPT !.status  = IF waits = {} THEN "RUNNING" ELSE "STARTING",
                           !.estatus = "READY",
                           !.flags   = @ \cup (IF waits = {} THEN {} ELSE {"WAIT"})
                                         \cup (IF clears = {} THEN {} ELSE {"CLEAR"}),
                           !.wait    = LastValue(This.init, WaitTypes, @),
                           !.speed   = LastValue(This.init, {"speed"}, @),
                           !.accel   = LastValue(This.init, {"speedup"}, @),
                           !.object  = LastValue(This.init, {"object"}, @)]
  /\ IF InitOpens(This.init) THEN StreamIn(Opened(stream[cur])) ELSE UNCHANGED stream
  /\ paused' = (paused \/ Positions(This.init, {"pause"}) # {})
  /\ pc' = "starting"
  /\ UNCHANGED <<track, tstatus, cur, plays, ticks>>

ElementGoesOn ==
  /\ pc = "element"
  /\ IsElement(cur)
  /\ ele.status # "READY"
  /\ pc' = "starting"
  /\ UNCHANGED <<track, tstatus, cur, ele, stream, paused, plays, ticks>>

(* Variant for the checks: the flag of the wait is not reset. *)
StartingKeepsFlag ==
  /\ pc = "starting"
  /\ ele.status = "STARTING"
  /\ LET left == ele.wait - Cardinality(Positions(This.init, WaitTypes))
     IN /\ ele' = [ele EXCEPT !.wait = left,
                              !.status = IF left <= 0 THEN "RUNNING" ELSE @]
        /\ pc' = IF left <= 0 THEN "work" ELSE "idle"
  /\ UNCHANGED <<track, tstatus, cur, stream, paused, plays, ticks>>

(* process_track_element_starting: every wait of the init list counts the  *)
(* one w_wait_time down; at zero the element starts, in this very tick.    *)
Starting ==
  /\ pc = "starting"
  /\ ele.status = "STARTING"
  /\ LET left == ele.wait - Cardinality(Positions(This.init, WaitTypes))
     IN /\ ele' = [ele EXCEPT !.wait = left,
                              !.status = IF left <= 0 THEN "RUNNING" ELSE @,
                              !.flags = IF left <= 0 THEN @ \ {"WAIT"} ELSE @]
        /\ pc' = IF left <= 0 THEN "work" ELSE "idle"
  /\ UNCHANGED <<track, tstatus, cur, stream, paused, plays, ticks>>

Started ==
  /\ pc = "starting"
  /\ ele.status # "STARTING"
  /\ pc' = "work"
  /\ UNCHANGED <<track, tstatus, cur, ele, stream, paused, plays, ticks>>

-----------------------------------------------------------------------------
(* process_track_element_work.                                             *)

HasEvent == ele.evt <= Len(This.work)

(* No working events: the element neither works nor finishes. *)
NothingToWork ==
  /\ pc = "work"
  /\ ~ HasEvent
  /\ pc' = "show"
  /\ UNCHANGED <<track, tstatus, cur, ele, stream, paused, plays, ticks>>

Working ==
  /\ pc = "work"
  /\ HasEvent
  /\ pc' = "event"
  /\ UNCHANGED <<track, tstatus, cur, ele, stream, paused, plays, ticks>>

NextEvent == [ele EXCEPT !.evt = @ + 1, !.estatus = "READY"]

(* An event that takes time is set up; it runs in the same tick. *)
StartEvent ==
  /\ pc = "event"
  /\ HasEvent
  /\ ele.estatus = "READY"
  /\ LET evt == This.work[ele.evt]
     IN /\ evt.type \in TimeTypes
        /\ ele' = IF evt.type = "distance"
                    THEN [ele EXCEPT !.estatus = "RUNNING", !.dist = evt.value]
                    ELSE [ele EXCEPT !.estatus = "RUNNING", !.wait = evt.value,
                                     !.flags = IF evt.type = "wait" THEN @ \cup {"WAIT"}
                                               ELSE @]
  /\ UNCHANGED <<track, tstatus, cur, stream, paused, pc, plays, ticks>>

(* Variant for the checks: the event is done, the next one is not taken. *)
DoEventStays ==
  /\ pc = "event"
  /\ HasEvent
  /\ ele.estatus = "READY"
  /\ LET evt == This.work[ele.evt]
     IN /\ evt.type \notin TimeTypes
        /\ ele' = [ele EXCEPT !.speed = IF evt.type = "speed" THEN evt.value ELSE @]
        /\ paused' = (paused \/ evt.type = "pause")
  /\ UNCHANGED <<track, tstatus, cur, stream, pc, plays, ticks>>

(* The speed after an event. *)
SpeedAfter(evt, s) ==
  IF evt.type = "speed" THEN evt.value ELSE IF evt.type = "bounce" THEN -s ELSE s

(* Any other event is finished at once. *)
DoEvent ==
  /\ pc = "event"
  /\ HasEvent
  /\ ele.estatus = "READY"
  /\ LET evt == This.work[ele.evt]
     IN /\ evt.type \notin TimeTypes
        /\ ele' = [NextEvent EXCEPT !.speed  = SpeedAfter(evt, @),
                                    !.accel  = IF evt.type = "speedup" THEN evt.value ELSE @,
                                    !.object = IF evt.type = "object" THEN evt.value ELSE @,
                                    !.flags  = IF evt.type = "clear" THEN @ \cup {"CLEAR"}
                                               ELSE @,
                                    !.wait   = IF evt.type = "bmp_close" THEN 0 ELSE @]
        /\ IF evt.type = "bmp_open" /\ IsBmp(ele.object)
             THEN StreamIn(Opened(stream[cur])) ELSE UNCHANGED stream
        /\ paused' = (paused \/ evt.type = "pause")
  /\ UNCHANGED <<track, tstatus, cur, pc, plays, ticks>>

(* Variant for the checks: a wait or paint ends one tick late. *)
RunTimedLate ==
  /\ pc = "event"
  /\ HasEvent
  /\ ele.estatus = "RUNNING"
  /\ This.work[ele.evt].type \in {"wait", "paint"}
  /\ IF ele.wait - 1 < 0
       THEN /\ ele' = [NextEvent EXCEPT !.wait = @ - 1,
                         !.flags = IF This.work[ele.evt].type = "wait" THEN @ \ {"WAIT"}
                                   ELSE @]
            /\ UNCHANGED pc
       ELSE /\ ele' = [ele EXCEPT !.wait = @ - 1]
            /\ pc' = "show"
  /\ UNCHANGED <<track, tstatus, cur, stream, paused, plays, ticks>>

(* wait and paint: one tick less to go; after the last one the next event  *)
(* follows in this tick.                                                   *)
RunTimed ==
  /\ pc = "event"
  /\ HasEvent
  /\ ele.estatus = "RUNNING"
  /\ This.work[ele.evt].type \in {"wait", "paint"}
  /\ IF ele.wait - 1 <= 0
       THEN /\ ele' = [NextEvent EXCEPT !.wait = @ - 1,
                         !.flags = IF This.work[ele.evt].type = "wait" THEN @ \ {"WAIT"}
                                   ELSE @]
            /\ UNCHANGED pc
       ELSE /\ ele' = [ele EXCEPT !.wait = @ - 1]
            /\ pc' = "show"
  /\ UNCHANGED <<track, tstatus, cur, stream, paused, plays, ticks>>

(* Moving takes off the way whatever its direction is. *)
Speed == IF ele.speed < 0 THEN -ele.speed ELSE ele.speed

RunDistance ==
  /\ pc = "event"
  /\ HasEvent
  /\ ele.estatus = "RUNNING"
  /\ This.work[ele.evt].type = "distance"
  /\ IF ele.dist - Speed <= 0
       THEN /\ ele' = [NextEvent EXCEPT !.dist = @ - Speed]
            /\ UNCHANGED pc
       ELSE /\ ele' = [ele EXCEPT !.dist = @ - Speed]
            /\ pc' = "show"
  /\ UNCHANGED <<track, tstatus, cur, stream, paused, plays, ticks>>

(* Variant for the checks: the end of the stream is not looked at. *)
RunBmpReadNoEnd ==
  /\ pc = "event"
  /\ HasEvent
  /\ ele.estatus = "RUNNING"
  /\ This.work[ele.evt].type = "bmp_read"
  /\ LET endless == ele.wait <= 0
     IN IF ~ endless /\ ele.wait - 1 <= 0
          THEN ele' = NextEvent /\ UNCHANGED pc
          ELSE /\ ele' = IF endless THEN ele ELSE [ele EXCEPT !.wait = @ - 1]
               /\ pc' = "show"
  /\ UNCHANGED <<track, tstatus, cur, stream, paused, plays, ticks>>

(* get_is_bmp_reading answers RES_OK. *)
Reading == ele.object # NoObject /\ stream[cur] \in Live

(* bmp_read: until the stream is over, or the time if there is one; it is  *)
(* over at once when there is no stream or no object.                      *)
RunBmpRead ==
  /\ pc = "event"
  /\ HasEvent
  /\ ele.estatus = "RUNNING"
  /\ This.work[ele.evt].type = "bmp_read"
  /\ LET endless == ele.wait <= 0
     IN IF ~ Reading \/ (~ endless /\ ele.wait - 1 <= 0)
          THEN ele' = NextEvent /\ UNCHANGED pc
          ELSE /\ ele' = IF endless THEN ele ELSE [ele EXCEPT !.wait = @ - 1]
               /\ pc' = "show"
  /\ UNCHANGED <<track, tstatus, cur, stream, paused, plays, ticks>>

(* The last working event is done. *)
AllDone ==
  /\ pc = "event"
  /\ ~ HasEvent
  /\ ele' = [ele EXCEPT !.status = "FINISHED"]
  /\ pc' = "final"
  /\ UNCHANGED <<track, tstatus, cur, stream, paused, plays, ticks>>

-----------------------------------------------------------------------------
(* process_object with these flags: it does nothing while a wait has       *)
(* frozen the display or when the object is thin; a clear is all it does   *)
(* in a tick that has one; the stream is touched only for a BMP.           *)
Cleared(flags) ==
  IF "WAIT" \in flags \/ IsThin(ele.object) THEN flags ELSE flags \ {"CLEAR"}

TakesStream(flags) == flags = {} /\ ele.object = BmpObject /\ stream[cur] = "ended"

LinesAfter(flags) ==
  IF TakesStream(flags) /\ ele.lines > 0 THEN ele.lines - 1 ELSE ele.lines

(* A line that is left is shown; the display that finds the end mark       *)
(* gives the stream back.                                                  *)
StreamAfter(flags) ==
  IF TakesStream(flags) /\ ele.lines <= 0 THEN [stream EXCEPT ![cur] = "over"] ELSE stream

(* The final events, then the element is painted once more. *)
Final ==
  /\ pc = "final"
  /\ LET clears == Positions(This.final, {"clear"})
         flags == ele.flags \cup (IF clears = {} THEN {} ELSE {"CLEAR"})
     IN /\ ele' = [ele EXCEPT !.flags = Cleared(flags), !.lines = LinesAfter(flags)]
        /\ stream' = StreamAfter(flags)
  /\ plays' = Counted(plays)
  /\ pc' = "repeat"
  /\ UNCHANGED <<track, tstatus, cur, paused, ticks>>

(* Variant for the checks: the repeats are compared before the decrement. *)
DoRepeatTooOften ==
  /\ pc = "repeat"
  /\ Repeats(cur) = 0 \/ ele.reps > 0
  /\ ele' = Fresh(IF Repeats(cur) = 0 THEN ele.reps ELSE ele.reps - 1)
  /\ stream' = [stream EXCEPT ![cur] = "none"]
  /\ pc' = "element"
  /\ ticks' = 1
  /\ UNCHANGED <<track, tstatus, cur, paused, plays>>

(* Once more: reset_track_element, and on with the init events. *)
DoRepeat ==
  /\ pc = "repeat"
  /\ Repeats(cur) = 0 \/ ele.reps - 1 > 0
  /\ ele' = Fresh(IF Repeats(cur) = 0 THEN ele.reps ELSE ele.reps - 1)
  /\ stream' = [stream EXCEPT ![cur] = "none"]
  /\ pc' = "element"
  /\ ticks' = 1
  /\ UNCHANGED <<track, tstatus, cur, paused, plays>>

(* No repeats left: the next element, in the same tick. *)
LeaveElement ==
  /\ pc = "repeat"
  /\ Repeats(cur) # 0 /\ ele.reps - 1 <= 0
  /\ cur' = cur + 1
  /\ ele' = Fresh(Repeats(cur + 1))
  /\ pc' = "element"
  /\ plays' = 0
  /\ ticks' = 1
  /\ UNCHANGED <<track, tstatus, stream, paused>>

(* The element goes on: it is painted, its speed changes unless a wait has *)
(* frozen it, and the tick is over.                                        *)
Show ==
  /\ pc = "show"
  /\ ele' = [ele EXCEPT !.flags = Cleared(@), !.lines = LinesAfter(ele.flags),
                        !.speed = IF Frozen THEN @ ELSE @ + ele.accel]
  /\ stream' = StreamAfter(ele.flags)
  /\ pc' = "idle"
  /\ UNCHANGED <<track, tstatus, cur, paused, plays, ticks>>

InTick ==
  \/ TrackDone \/ InitElement \/ ElementGoesOn \/ Starting \/ Started
  \/ NothingToWork \/ Working \/ StartEvent \/ DoEvent
  \/ RunTimed \/ RunDistance \/ RunBmpRead \/ AllDone
  \/ Final \/ DoRepeat \/ LeaveElement \/ Show

-----------------------------------------------------------------------------
(* What happens between the ticks.                                         *)

(* process_stop_all_tracks. *)
Stop ==
  /\ pc = "idle"
  /\ tstatus # "FINISHED"
  /\ tstatus' = "FINISHED"
  /\ ele' = [ele EXCEPT !.status = "FINISHED"]
  /\ UNCHANGED <<track, cur, stream, paused, pc, plays, ticks>>

(* The scene is started again: reset_tracks. *)
Restart ==
  /\ pc = "idle"
  /\ tstatus = "FINISHED"
  /\ tstatus' = "READY"
  /\ cur' = 1
  /\ ele' = Fresh(Repeats(1))
  /\ stream' = [e \in DOMAIN track |-> "none"]
  /\ paused' = FALSE
  /\ plays' = 0
  /\ ticks' = 0
  /\ UNCHANGED <<track, pc>>

(* The continue request. *)
Continue ==
  /\ pc = "idle"
  /\ paused
  /\ paused' = FALSE
  /\ UNCHANGED <<track, tstatus, cur, ele, stream, pc, plays, ticks>>

(* The http task has ended; what it read last may not be shown yet. *)
StreamEnds(e) ==
  /\ stream[e] = "running"
  /\ stream' = [stream EXCEPT ![e] = "ended"]
  /\ \E n \in Lines : ele' = [ele EXCEPT !.lines = IF e = cur THEN n ELSE @]
  /\ UNCHANGED <<track, tstatus, cur, paused, pc, plays, ticks>>

Between == Stop \/ Restart \/ Continue \/ (\E e \in DOMAIN track : StreamEnds(e))

Next == Tick \/ InTick \/ Between

Spec == Init /\ [][Next]_vars

(* The timer fires as long as the scene is played, the callback does not   *)
(* stop half way, and an http task that serves a stream ends some day, by  *)
(* its own time-out at the latest (BmpStream, ReaderTerminates).           *)
FairSpec ==
  /\ Spec
  /\ WF_vars(Tick)
  /\ WF_vars(InTick)
  /\ WF_vars(\E e \in DOMAIN track : StreamEnds(e))
-----------------------------------------------------------------------------
(* The state spaces of the variables. *)
ElementData ==
  [status : {"READY", "STARTING", "RUNNING", "FINISHED"},
   estatus : {"READY", "RUNNING"}, evt : Nat \ {0}, wait : Int,
   flags : SUBSET {"WAIT", "CLEAR"}, speed : Int, accel : Int, dist : Int,
   object : Nat, lines : Nat, reps : Int]

StreamStates == Live \cup {"none", "over"}

TypeOK ==
  /\ track \in Programs
  /\ tstatus \in {"READY", "RUNNING", "FINISHED"}
  /\ cur \in Nat \ {0}
  /\ ele \in ElementData
  /\ stream \in [DOMAIN track -> StreamStates]
  /\ paused \in BOOLEAN
  /\ pc \in Places
  /\ plays \in Nat
  /\ ticks \in Nat

(* A frozen display thaws: EVFL_WAIT is set only while the init list is    *)
(* counted down or a wait is the running event, it survives neither its    *)
(* wait, nor a repeat, nor the end of the element (89, 159, 322).          *)
FrozenIsWaiting ==
  Frozen /\ tstatus = "RUNNING" =>
    \/ ele.status = "STARTING"
    \/ /\ ele.estatus = "RUNNING"
       /\ HasEvent
       /\ This.work[ele.evt].type = "wait"

(* How long an element plays that has neither a distance nor a stream: each *)
(* of its times begins in the tick in which the last one ended, and a time *)
(* of 0 is one of 1.                                                       *)
Extra(n) == IF n > 1 THEN n - 1 ELSE 0

(* The waits of an init list share the time of the last one, and each of   *)
(* them counts it down (155).                                              *)
InitTicks(list) ==
  LET n == Cardinality(Positions(list, WaitTypes))
      v == LastValue(list, WaitTypes, 0)
  IN IF n = 0 THEN 0 ELSE Extra((v + n - 1) \div n)

EventTicks(list, k) ==
  IF k \in DOMAIN list /\ list[k].type \in {"wait", "paint"} THEN Extra(list[k].value) ELSE 0

(* What the first k events of a working list add. *)
WorkTicks(list) ==
  LET sum[k \in Nat] == IF k = 0 THEN 0 ELSE sum[k - 1] + EventTicks(list, k)
  IN sum

PlayTicks(e) == 1 + InitTicks(e.init) + WorkTicks(e.work)[Len(e.work)]

(* The play that ends now had a length that its events say. *)
TimedPlay ==
  /\ pc = "final"
  /\ Positions(This.work, {"distance", "bmp_read"}) = {}
  /\ PlayTicks(This) <= CountLimit

FirstWaits == Positions(This.init, {"wait_first"})

(* An element plays exactly as long as its events say (155, 320): no       *)
(* pause, stop, restart, repeat or neighbour changes the number of its     *)
(* ticks.                                                                  *)
PlaysItsTime ==
  TimedPlay /\ (plays = 0 \/ FirstWaits = {}) => ticks = PlayTicks(This)

(* The documentation says that a wait_first is for the first init only     *)
(* (README.md 185, and 87 reads "not at first init"); the code waits in    *)
(* every repeat, EVFL_WAIT_FIRST_DONE is never set.                        *)
FirstWaitRepeated ==
  TimedPlay /\ plays > 0 /\ FirstWaits # {} => ticks = PlayTicks(This)

(* README.md 210: an element is executed as often as "repeat" says, its    *)
(* final events included, before the next one follows (423-445).           *)
RepeatedAsOften ==
  [][cur' = cur + 1 /\ Repeats(cur) <= CountLimit => plays = Repeats(cur)]_vars

(* The element does not end in the tick in which it began. *)
TakesTime(e) ==
  \E i \in DOMAIN track[e].work :
    track[e].work[i].type \in {"wait", "paint"} /\ track[e].work[i].value > 1

(* How far a tick is from its return: the elements that are left, then the *)
(* plays that are left of this one (of an endless element: one more, if it *)
(* has not begun in this tick), then the steps of this play.               *)
ElementsLeft == Len(track) + 1 - cur

PlaysLeft == IF Repeats(cur) # 0 THEN ele.reps ELSE IF ticks > 1 THEN 1 ELSE 0

StepsLeft ==
  LET n == IF IsElement(cur) THEN Len(This.work) ELSE 0
  IN CASE pc = "element"  -> 2 * n + 8
       [] pc = "starting" -> 2 * n + 7
       [] pc = "work"     -> 2 * n + 6
       [] pc = "event"    -> 2 * (n + 1 - ele.evt) + IF ele.estatus = "READY" THEN 4 ELSE 3
       [] pc = "final"    -> 2
       [] pc \in {"repeat", "show"} -> 1
       [] pc = "idle"     -> 0

(* Every step of a tick brings it nearer to its return, in the order of    *)
(* these three numbers, if every endless element TakesTime.                *)
TickDescends ==
  [][InTick /\ (\A e \in DOMAIN track : Repeats(e) = 0 => TakesTime(e)) =>
       \/ ElementsLeft' \in 0..ElementsLeft - 1
       \/ ElementsLeft' = ElementsLeft /\ PlaysLeft' \in 0..PlaysLeft - 1
       \/ /\ ElementsLeft' = ElementsLeft /\ PlaysLeft' = PlaysLeft
          /\ StepsLeft' \in 0..StepsLeft - 1]_vars

(* A tick that has begun returns: the engine does not go round its loops   *)
(* for ever inside one callback, which holds the eventlist lock.  This is  *)
(* not so for an endless element whose events all end in the tick in which *)
(* they began: the code restarts it in the same tick (428-440).            *)
TickReturns ==
  (pc # "idle" /\ \A e \in DOMAIN track : Repeats(e) = 0 => TakesTime(e))
    ~> pc = "idle"

(* v is what the events of a type have left at the k-th working event: the *)
(* value of the last one, or of the init list, or 0 (28-42).               *)
InForce(e, type, k, v) ==
  \/ \E i \in 1..k - 1 : /\ e.work[i].type = type /\ e.work[i].value = v
                         /\ \A j \in i + 1..k - 1 : e.work[j].type # type
  \/ /\ \A j \in 1..k - 1 : e.work[j].type # type
     /\ v = LastValue(e.init, {type}, 0)

(* Nothing has accelerated the element before its k-th working event. *)
Steady(e, k) ==
  /\ LastValue(e.init, {"speedup"}, 0) = 0
  /\ \A j \in 1..k - 1 : e.work[j].type = "speedup" => e.work[j].value = 0

(* Every distance is covered with an acceleration, or with the speed that  *)
(* an event has set; at speed 0 it has no end (333).                       *)
Moves(e) ==
  \A k \in Positions(e.work, {"distance"}) :
    \/ ~ InForce(e, "speedup", k, 0)
    \/ Steady(e, k) /\ ~ InForce(e, "speed", k, 0)

(* What a bmp_read without a time reads is displayed, so that its end is   *)
(* found; with another object, or one without a length, it has no end.     *)
Displays(e) ==
  \A k \in Positions(e.work, {"bmp_read"}) :
    e.work[k].value > 0 \/ \E o \in {NoObject, BmpObject} : InForce(e, "object", k, o)

(* The elements of the track come to their end: each has working events    *)
(* (215-218), a number of repeats, moves where it has a way to go, and     *)
(* displays what it reads.                                                 *)
HasEnd ==
  \A c \in DOMAIN track :
    Repeats(c) # 0 /\ track[c].work # <<>> /\ Moves(track[c]) /\ Displays(track[c])

(* How far a track is from its end: the elements, the plays of this one,   *)
(* the events of this play, what must happen before the running event gets *)
(* nearer to its end, and what it has still to wait, to go or to show, the *)
(* tick that is about to be shown included.                                *)
EventsLeft ==
  LET n == IF IsElement(cur) THEN Len(This.work) ELSE 0
  IN CASE ele.status = "READY"    -> 2 * n + 3
       [] ele.status = "STARTING" -> 2 * n + 2
       [] ele.status = "RUNNING"  -> 2 * (n + 1 - ele.evt) + IF ele.estatus = "READY" THEN 1 ELSE 0
       [] ele.status = "FINISHED" -> 0

RunningEvent == This.work[ele.evt]

(* A bmp_read without a time reads its stream to the end. *)
ReadsToEnd == RunningEvent.type = "bmp_read" /\ ele.wait <= 0

(* The running event waits for the http task. *)
AwaitsStream ==
  ele.estatus = "RUNNING" /\ ReadsToEnd /\ stream[cur] \in {"running", "unserved"}

(* How many ticks the acceleration needs to turn the speed its way. *)
Turn(s, a) ==
  IF a > 0 /\ s < 1 THEN 1 - s ELSE IF a < 0 /\ s > -1 THEN s + 1 ELSE 0

Amount == IF RunningEvent.type = "distance" THEN ele.dist ELSE ele.wait

AtWork == ele.status = "RUNNING" /\ ele.estatus = "RUNNING"

FirstLeft ==
  CASE AtWork /\ AwaitsStream -> 1
    [] AtWork /\ RunningEvent.type = "distance" -> Turn(ele.speed, ele.accel)
    [] OTHER -> 0

(* The end of a stream is found after its last line and a clear. *)
ToShow == 1 + ele.lines + IF "CLEAR" \in ele.flags THEN 1 ELSE 0

TimeLeft ==
  CASE ele.status = "STARTING" -> ele.wait
    [] AtWork /\ FirstLeft = 0 ->
         IF ReadsToEnd THEN IF stream[cur] = "ended" THEN ToShow ELSE 0
         ELSE Amount + IF pc = "show" THEN 1 ELSE 0
    [] OTHER -> 0

Left == <<ElementsLeft, ele.reps, EventsLeft, FirstLeft, TimeLeft>>

Below(m, n) ==
  \E i \in 1..5 : m[i] \in 0..n[i] - 1 /\ \A j \in 1..i - 1 : m[j] = n[j]

(* Every tick that returns has brought the track nearer to its end, unless *)
(* it waits for a stream whose http task has not ended, and nothing else   *)
(* takes it away again: no pause, no bounce, no change of speed, no end of *)
(* a stream, at whatever step of a tick.                                   *)
TrackDescends ==
  [][HasEnd /\ tstatus # "FINISHED" /\ tstatus' # "FINISHED" =>
       /\ Left' = Left \/ Below(Left', Left)
       /\ pc # "idle" /\ pc' = "idle" => Below(Left', Left) \/ AwaitsStream]_vars

(* The element reads a stream that nobody serves, without a time: it will  *)
(* do so for ever (https_get.c 87, 248, 261).                              *)
ReadsUnserved ==
  IsElement(cur) /\ HasEvent /\ AtWork /\ AwaitsStream /\ stream[cur] = "unserved"

(* A track whose elements have an end is finished some day, unless a pause *)
(* event waits for a client or a bmp_read for a stream that nobody serves: *)
(* also when a stream breaks off, was never opened, or ends while the      *)
(* display is frozen, and when a bounce turns the element round.           *)
TrackFinishes ==
  (tstatus = "RUNNING" /\ HasEnd) ~> (tstatus = "FINISHED" \/ paused \/ ReadsUnserved)
=============================================================================
