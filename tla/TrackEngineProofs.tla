-------------------------- MODULE TrackEngineProofs --------------------------
(***************************************************************************)
(* Theorems of TrackEngine, for every track that a client can load, not    *)
(* only for those that TLC is given.                                       *)
(***************************************************************************)
EXTENDS TrackEngine, FiniteSetTheorems, WellFoundedInduction, TLAPS

(* Why a frozen display thaws: where in a tick it can be frozen.           *)
FrozenInv ==
  Frozen =>
    \/ tstatus = "FINISHED"
    \/ ele.status = "STARTING" /\ pc \in {"idle", "element", "starting"}
    \/ /\ ele.estatus = "RUNNING" /\ ele.status \notin {"READY", "STARTING"}
       /\ HasEvent
       /\ This.work[ele.evt].type = "wait"
       /\ pc \in {"idle", "element", "starting", "work", "event", "show"}

PlaceInv ==
  /\ tstatus = "FINISHED" => pc = "idle"
  /\ pc \in {"starting", "work", "event", "final", "repeat", "show"} =>
       ele.status # "READY" /\ IsElement(cur)
  /\ pc \in {"work", "event"} => ele.status # "STARTING"
  
IInv == TypeOK /\ PlaceInv /\ FrozenInv

-----------------------------------------------------------------------------
(* The least-number principle, and induction over a set of numbers.        *)
LEMMA LeastNumber ==
  ASSUME NEW T, T \subseteq Nat, T # {}
  PROVE  \E m \in T : \A k \in T : m <= k
<1>1. PICK n \in T : TRUE
  OBVIOUS
<1>2. \E m \in T : \A k \in T : <<k, m>> \notin OpToRel(<, Nat)
  BY <1>1, NatLessThanWellFounded, WFMin
<1>3. PICK m \in T : \A k \in T : <<k, m>> \notin OpToRel(<, Nat)
  BY <1>2
<1>4. ASSUME NEW k \in T PROVE m <= k
  <2>1. k \in Nat /\ m \in Nat
    OBVIOUS
  <2>2. <<k, m>> \in OpToRel(<, Nat) <=> k < m
    BY <2>1, Zenon DEF OpToRel
  <2>3. <<k, m>> \notin OpToRel(<, Nat)
    BY <1>3, Zenon
  <2>4. ~(k < m)
    BY <2>2, <2>3, Zenon
  <2> QED BY <2>1, <2>4
<1> QED BY <1>4

LEMMA Induction ==
  ASSUME NEW S, 0 \in S, \A n \in Nat : n \in S => n + 1 \in S
  PROVE  Nat \subseteq S
<1> SUFFICES ASSUME Nat \ S # {} PROVE FALSE
  OBVIOUS
<1>1. PICK m \in Nat \ S : \A k \in Nat \ S : m <= k
  BY LeastNumber
<1>2. m # 0 /\ m - 1 \in Nat
  BY <1>1
<1>3. m - 1 \in S
  BY <1>1, <1>2
<1> QED BY <1>1, <1>2, <1>3

(* A nonempty set of positions has a last one, so LastValue is a value of  *)
(* the list.                                                               *)
LEMMA LastPosition ==
  ASSUME NEW n \in Nat, NEW S, S \subseteq 1..n, S # {}
  PROVE  \E i \in S : \A j \in S : j <= i
<1> DEFINE T == {m \in Nat : \E i \in S : m = n - i}
<1>1. PICK i \in S : TRUE
  OBVIOUS
<1>2. n - i \in T
  OBVIOUS
<1>3. PICK m \in T : \A k \in T : m <= k
  BY <1>2, LeastNumber
<1>4. PICK l \in S : m = n - l
  OBVIOUS
<1>5. \A j \in S : n - j \in T
  OBVIOUS
<1>6. \A j \in S : j <= l
  BY <1>3, <1>4, <1>5
<1> QED BY <1>6

LEMMA LastValueInt ==
  ASSUME NEW list \in Seq(Event), NEW types, NEW default \in Int
  PROVE  /\ LastValue(list, types, default) \in Int
         /\ default \in Nat /\ types \cap SpeedTypes = {} =>
              LastValue(list, types, default) \in Nat
         /\ Cardinality(Positions(list, types)) \in Nat
<1> DEFINE S == Positions(list, types)
<1>1. S \subseteq 1..Len(list) /\ Len(list) \in Nat
  BY DEF Positions
<1>2. Cardinality(S) \in Nat
  <2>1. IsFiniteSet(1..Len(list))
    BY <1>1, FS_Interval
  <2>2. IsFiniteSet(S)
    BY <1>1, <2>1, FS_Subset
  <2> QED BY <2>2, FS_CardinalityType
<1>3. CASE S = {}
  BY <1>2, <1>3 DEF LastValue
<1>4. CASE S # {}
  <2>1. \E i \in S : \A j \in S : j <= i
    BY <1>1, <1>4, LastPosition
  <2> DEFINE last == CHOOSE i \in S : \A j \in S : j <= i
  <2>2. last \in S
    BY <2>1
  <2>3. list[last].value \in Int /\ (types \cap SpeedTypes = {} => list[last].value \in Nat)
    <3>1. last \in 1..Len(list) /\ list[last].type \in types
      BY <1>1, <2>2 DEF Positions
    <3> HIDE DEF last
    <3>2. list[last] \in Event
      BY <3>1
    <3> QED BY <3>1, <3>2 DEF Event, SpeedTypes
  <2> QED BY <1>2, <1>4, <2>3 DEF LastValue
<1> QED BY <1>3, <1>4
-----------------------------------------------------------------------------

LEMMA TrackFacts ==
  ASSUME TypeOK
  PROVE  /\ Len(track) \in Nat
         /\ \A c \in Nat \ {0} : Repeats(c) \in Nat
         /\ IsElement(cur) => /\ cur \in DOMAIN track
                              /\ This.init \in Seq(Event) /\ This.work \in Seq(Event)
                              /\ HasEvent => This.work[ele.evt] \in Event
<1>1. track \in Seq(Element)
  BY ProgramsAssumption DEF TypeOK
<1>2. Len(track) \in Nat /\ DOMAIN track = 1..Len(track)
  BY <1>1
<1>3. ASSUME NEW c \in 1..Len(track)
      PROVE  track[c].init \in Seq(Event) /\ track[c].work \in Seq(Event) /\ track[c].repeats \in Nat
  <2>1. track[c] \in Element
    BY <1>1, <1>3
  <2> QED BY <2>1 DEF Element
<1>4. \A c \in Nat \ {0} : Repeats(c) \in Nat
  BY <1>2, <1>3 DEF Repeats, IsElement
<1>5. ASSUME IsElement(cur)
      PROVE  /\ cur \in DOMAIN track
             /\ This.init \in Seq(Event) /\ This.work \in Seq(Event)
             /\ HasEvent => This.work[ele.evt] \in Event
  <2>1. cur \in 1..Len(track)
    BY <1>2, <1>5 DEF TypeOK, IsElement
  <2>2. This.init \in Seq(Event) /\ This.work \in Seq(Event)
    BY <1>3, <2>1 DEF This
  <2>3. ele.evt \in Nat \ {0}
    BY DEF TypeOK, ElementData
  <2>4. HasEvent => This.work[ele.evt] \in Event
    BY <2>2, <2>3 DEF HasEvent
  <2> QED BY <1>2, <2>1, <2>2, <2>4
<1> QED BY <1>2, <1>4, <1>5

LEMMA FreshData == ASSUME NEW reps \in Int PROVE Fresh(reps) \in ElementData /\ Fresh(reps).flags = {}
                                              /\ Fresh(reps).status = "READY"
BY DEF Fresh, ElementData, NoObject

(* What an event changes in the data of its element.                       *)
LEMMA NextEventData ==
  ASSUME ele \in ElementData
  PROVE  /\ NextEvent \in ElementData
         /\ NextEvent.wait \in Int /\ NextEvent.dist \in Int /\ NextEvent.speed \in Int
         /\ NextEvent.accel \in Int /\ NextEvent.object \in Nat
         /\ NextEvent.flags \in SUBSET {"WAIT", "CLEAR"}
<1>1. ele.evt + 1 \in Nat \ {0}
  BY DEF ElementData
<1>2. \A n \in Nat \ {0} : [ele EXCEPT !.evt = n, !.estatus = "READY"] \in ElementData
  BY DEF ElementData
<1>3. NextEvent \in ElementData
  BY <1>1, <1>2 DEF NextEvent
<1> HIDE DEF NextEvent
<1> QED BY <1>3 DEF ElementData

LEMMA StreamKept ==
  ASSUME TypeOK,
         UNCHANGED stream \/ \E e, t : t \in StreamStates /\ stream' = [stream EXCEPT ![e] = t]
  PROVE  stream' \in [DOMAIN track -> StreamStates]
BY DEF TypeOK

LEMMA OpenedKept ==
  ASSUME TypeOK, StreamIn(Opened(stream[cur])) \/ UNCHANGED stream
  PROVE  stream' \in [DOMAIN track -> StreamStates]
<1>1. Opened(stream[cur]) \subseteq StreamStates
  BY DEF Opened, StreamStates, Live
<1>2. CASE StreamIn(Opened(stream[cur]))
  <2>1. \E t \in StreamStates : stream' = [stream EXCEPT ![cur] = t]
    BY <1>1, <1>2 DEF StreamIn
  <2> QED BY <2>1, StreamKept
<1> QED BY <1>2, StreamKept

LEMMA ShownKept ==
  ASSUME TypeOK, NEW flags, stream' = StreamAfter(flags)
  PROVE  stream' \in [DOMAIN track -> StreamStates]
<1>1. UNCHANGED stream \/ stream' = [stream EXCEPT ![cur] = "over"]
  BY DEF StreamAfter
<1>2. "over" \in StreamStates
  BY DEF StreamStates
<1> QED BY <1>1, <1>2, StreamKept

(* What the display and the end of an http task leave alone in the data of *)
(* the element.                                                            *)
Untouched ==
  /\ ele'.status = ele.status /\ ele'.estatus = ele.estatus /\ ele'.evt = ele.evt
  /\ ele'.wait = ele.wait /\ ele'.dist = ele.dist /\ ele'.accel = ele.accel
  /\ ele'.object = ele.object /\ ele'.reps = ele.reps

LEMMA Painting ==
  ASSUME TypeOK, Final \/ Show \/ \E e \in DOMAIN track : StreamEnds(e)
  PROVE  /\ ele' \in ElementData /\ Untouched
         /\ "WAIT" \in ele'.flags <=> "WAIT" \in ele.flags
         /\ ~ Show => ele'.speed = ele.speed
<1>1. ele \in ElementData /\ Lines \subseteq Nat
  BY ProgramsAssumption DEF TypeOK
<1>2. ASSUME NEW flags \in SUBSET {"WAIT", "CLEAR"}
      PROVE  /\ Cleared(flags) \in SUBSET {"WAIT", "CLEAR"}
             /\ "WAIT" \in Cleared(flags) <=> "WAIT" \in flags
             /\ LinesAfter(flags) \in Nat
  BY <1>1 DEF Cleared, LinesAfter, ElementData
<1>3. ele.flags \in SUBSET {"WAIT", "CLEAR"}
  BY <1>1 DEF ElementData
<1>4. CASE Final
  <2> DEFINE clears == Positions(This.final, {"clear"})
             flags == ele.flags \cup (IF clears = {} THEN {} ELSE {"CLEAR"})
             after == Cleared(flags)
             lines == LinesAfter(flags)
  <2>1. ele' = [ele EXCEPT !.flags = after, !.lines = lines]
    BY <1>4 DEF Final
  <2>2. flags \in SUBSET {"WAIT", "CLEAR"} /\ ("WAIT" \in flags <=> "WAIT" \in ele.flags)
    BY <1>3
  <2>3. after \in SUBSET {"WAIT", "CLEAR"} /\ lines \in Nat
        /\ ("WAIT" \in after <=> "WAIT" \in ele.flags)
    BY <1>2, <2>2
  <2> HIDE DEF after, lines
  <2>4. ~ Show
    BY <1>4 DEF Final, Show
  <2> QED BY <1>1, <2>1, <2>3, <2>4 DEF ElementData, Untouched
<1>5. CASE Show
  <2> DEFINE after == Cleared(ele.flags)
             lines == LinesAfter(ele.flags)
             speed == IF Frozen THEN ele.speed ELSE ele.speed + ele.accel
  <2>1. ele' = [ele EXCEPT !.flags = after, !.lines = lines, !.speed = speed]
    BY <1>5 DEF Show
  <2>2. after \in SUBSET {"WAIT", "CLEAR"} /\ lines \in Nat
        /\ ("WAIT" \in after <=> "WAIT" \in ele.flags)
    BY <1>2, <1>3
  <2>3. speed \in Int
    BY <1>1 DEF ElementData
  <2> HIDE DEF after, lines, speed
  <2> QED BY <1>1, <1>5, <2>1, <2>2, <2>3 DEF ElementData, Untouched
<1>6. ASSUME NEW e \in DOMAIN track, StreamEnds(e)
      PROVE  /\ ele' \in ElementData /\ Untouched
             /\ "WAIT" \in ele'.flags <=> "WAIT" \in ele.flags
             /\ ele'.speed = ele.speed
  <2>1. PICK n \in Lines : ele' = [ele EXCEPT !.lines = IF e = cur THEN n ELSE @]
    BY <1>6 DEF StreamEnds
  <2> DEFINE lines == IF e = cur THEN n ELSE ele.lines
  <2>2. lines \in Nat /\ ele' = [ele EXCEPT !.lines = lines]
    BY <1>1, <2>1 DEF ElementData
  <2> HIDE DEF lines
  <2> QED BY <1>1, <2>2 DEF ElementData, Untouched
<1> QED BY <1>4, <1>5, <1>6

(* The steps that only go on, display or wait for something.               *)
LEMMA GoingOn ==
  ASSUME TypeOK,
         \/ Tick \/ TrackDone \/ ElementGoesOn \/ Started \/ NothingToWork \/ Working \/ Final
         \/ Show \/ Continue \/ (\E e \in DOMAIN track : StreamEnds(e)) \/ UNCHANGED vars
  PROVE  Untouched
<1>1. CASE Final \/ Show \/ \E e \in DOMAIN track : StreamEnds(e)
  BY <1>1, Painting
<1>2. CASE UNCHANGED ele
  BY <1>2 DEF Untouched
<1> QED BY <1>1, <1>2 DEF Tick, TrackDone, ElementGoesOn, Started, NothingToWork, Working, Continue,
          vars

LEMMA InitEstablishes == Init => IInv
<1> SUFFICES ASSUME Init PROVE IInv
  OBVIOUS
<1>1. Repeats(1) \in Nat
  <2>1. track \in Seq(Element)
    BY ProgramsAssumption DEF Init
  <2>2. Len(track) >= 1 => track[1] \in Element
    BY <2>1
  <2> QED BY <2>2 DEF Repeats, IsElement, Element
<1>2. ele \in ElementData /\ ele.flags = {}
  BY <1>1, FreshData DEF Init
<1>3. TypeOK
  <2>1. stream \in [DOMAIN track -> StreamStates]
    BY DEF Init, StreamStates
  <2>2. track \in Programs /\ tstatus = "READY" /\ cur = 1 /\ paused \in BOOLEAN /\ pc = "idle"
        /\ plays = 0 /\ ticks = 0
    BY DEF Init
  <2> QED BY <1>2, <2>1, <2>2 DEF TypeOK, Places
<1>4. PlaceInv
  BY DEF Init, PlaceInv
<1>5. FrozenInv
  BY <1>2 DEF FrozenInv, Frozen
<1> QED BY <1>3, <1>4, <1>5 DEF IInv

LEMMA BetweenKeeps == IInv /\ (Tick \/ Between) => IInv'
<1> SUFFICES ASSUME IInv, Tick \/ Between PROVE IInv'
  OBVIOUS
<1> USE TrackFacts DEF IInv, TypeOK, ElementData, PlaceInv, Places, This, HasEvent, IsElement
<1>1. CASE Tick
  BY <1>1 DEF Tick, FrozenInv, Frozen, Counted
<1>2. CASE Stop
  BY <1>2 DEF Stop, FrozenInv, Frozen
<1>3. CASE Restart
  <2>1. Repeats(1) \in Int
    OBVIOUS
  <2>2. ele' \in ElementData /\ ele'.flags = {}
    <3> HIDE DEF ElementData
    <3> QED BY <1>3, <2>1, FreshData DEF Restart
  <2>3. TypeOK'
    <3>1. stream' \in [DOMAIN track -> StreamStates] /\ track' = track
      BY <1>3 DEF Restart, StreamStates
    <3>2. tstatus' = "READY" /\ cur' = 1 /\ paused' \in BOOLEAN /\ pc' = "idle" /\ plays' = 0
          /\ ticks' = 0
      BY <1>3 DEF Restart
    <3> QED BY <2>2, <3>1, <3>2, SMTT(60)
  <2>4. PlaceInv'
    BY <1>3 DEF Restart
  <2>5. FrozenInv'
    BY <2>2 DEF FrozenInv, Frozen
  <2> QED BY <2>3, <2>4, <2>5
<1>4. CASE Continue
  BY <1>4 DEF Continue, FrozenInv, Frozen
<1>5. ASSUME NEW e \in DOMAIN track, StreamEnds(e) PROVE IInv'
  <2>1. /\ ele' \in ElementData /\ Untouched /\ ("WAIT" \in ele'.flags <=> "WAIT" \in ele.flags)
        /\ UNCHANGED <<track, tstatus, cur, paused, pc, plays, ticks>>
    BY <1>5, Painting DEF StreamEnds
  <2>2. stream' \in [DOMAIN track -> StreamStates]
    BY <1>5, StreamKept DEF StreamEnds, StreamStates, Live
  <2> HIDE DEF ElementData
  <2>3. TypeOK' /\ PlaceInv'
    BY <2>1, <2>2 DEF Untouched
  <2>4. FrozenInv'
    BY <2>1 DEF FrozenInv, Frozen, Untouched
  <2> QED BY <2>3, <2>4
<1> QED BY <1>1, <1>2, <1>3, <1>4, <1>5 DEF Between

LEMMA ElementKeeps ==
  IInv /\ (TrackDone \/ InitElement \/ ElementGoesOn \/ Starting \/ Started) => IInv'
<1> SUFFICES ASSUME IInv, TrackDone \/ InitElement \/ ElementGoesOn \/ Starting \/ Started
             PROVE  IInv'
  OBVIOUS
<1> USE TrackFacts DEF IInv, TypeOK, ElementData, PlaceInv, Places, IsElement
<1>1. CASE TrackDone
  BY <1>1 DEF TrackDone, FrozenInv, Frozen
<1>2. CASE InitElement
  <2> DEFINE waits == Positions(This.init, WaitTypes)
             flags == ele.flags \cup (IF waits = {} THEN {} ELSE {"WAIT"})
                        \cup (IF Positions(This.init, {"clear"}) = {} THEN {} ELSE {"CLEAR"})
             wait == LastValue(This.init, WaitTypes, ele.wait)
             speed == LastValue(This.init, {"speed"}, ele.speed)
             accel == LastValue(This.init, {"speedup"}, ele.accel)
             object == LastValue(This.init, {"object"}, ele.object)
  <2>1. wait \in Int /\ speed \in Int /\ accel \in Int /\ object \in Nat
        /\ flags \in SUBSET {"WAIT", "CLEAR"}
    <3>1. This.init \in Seq(Event) /\ {"object"} \cap SpeedTypes = {}
      BY <1>2 DEF InitElement, SpeedTypes
    <3>2. wait \in Int /\ speed \in Int /\ accel \in Int
      BY <3>1, LastValueInt
    <3>3. object \in Nat
      BY <3>1, LastValueInt
    <3> QED BY <3>2, <3>3
  <2>2. ele' = [ele EXCEPT !.status = IF waits = {} THEN "RUNNING" ELSE "STARTING",
                           !.estatus = "READY", !.flags = flags, !.wait = wait, !.speed = speed,
                           !.accel = accel, !.object = object]
    BY <1>2 DEF InitElement
  <2>3. "WAIT" \notin ele.flags
    BY <1>2 DEF InitElement, FrozenInv, Frozen
  <2>4. waits = {} => "WAIT" \notin flags
    BY <2>3
  <2>5. stream' \in [DOMAIN track -> StreamStates]
    BY <1>2, OpenedKept DEF InitElement
  <2> HIDE DEF wait, speed, waits, accel, object, flags
  <2>6. ele' \in ElementData
    BY <2>1, <2>2
  <2>9. ele'.status = (IF waits = {} THEN "RUNNING" ELSE "STARTING") /\ ele'.flags = flags
    BY <2>2
  <2>10. FrozenInv'
    BY <1>2, <2>4, <2>9 DEF InitElement, FrozenInv, Frozen
  <2>7. PlaceInv'
    BY <1>2, <2>9 DEF InitElement
  <2>8. TypeOK'
    <3> HIDE DEF ElementData
    <3>1. UNCHANGED <<track, tstatus, cur, plays, ticks>> /\ pc' = "starting"
          /\ paused' \in BOOLEAN
      BY <1>2 DEF InitElement
    <3> QED BY <2>5, <2>6, <3>1
  <2> QED BY <2>7, <2>8, <2>10
<1>3. CASE ElementGoesOn
  BY <1>3 DEF ElementGoesOn, FrozenInv, Frozen, HasEvent, This
<1>4. CASE Starting
  <2> DEFINE left == ele.wait - Cardinality(Positions(This.init, WaitTypes))
  <2>1. left \in Int
    <3>1. Cardinality(Positions(This.init, WaitTypes)) \in Nat
      BY <1>4, LastValueInt DEF Starting
    <3> QED BY <3>1
  <2>2. /\ ele' = [ele EXCEPT !.wait = left, !.status = IF left <= 0 THEN "RUNNING" ELSE @,
                              !.flags = IF left <= 0 THEN @ \ {"WAIT"} ELSE @]
        /\ pc' = IF left <= 0 THEN "work" ELSE "idle"
    BY <1>4 DEF Starting
  <2> DEFINE status == IF left <= 0 THEN "RUNNING" ELSE ele.status
             flags == IF left <= 0 THEN ele.flags \ {"WAIT"} ELSE ele.flags
  <2>6. /\ ele' = [ele EXCEPT !.wait = left, !.status = status, !.flags = flags]
        /\ ele.status = "STARTING" /\ pc = "starting"
        /\ UNCHANGED <<track, tstatus, cur, stream, paused, plays, ticks>>
    BY <1>4, <2>2 DEF Starting
  <2>7. /\ status \in {"READY", "STARTING", "RUNNING", "FINISHED"} /\ status # "READY"
        /\ flags \in SUBSET {"WAIT", "CLEAR"}
        /\ pc' = "work" => status # "STARTING"
    BY <2>2, <2>6
  <2> HIDE DEF left, status, flags
  <2>3. TypeOK' /\ PlaceInv'
    BY <2>1, <2>2, <2>6, <2>7, ZenonT(40)
  <2>4. CASE left <= 0
    <3>1. "WAIT" \notin ele'.flags
      BY <2>4, <2>6 DEF flags
    <3> QED BY <2>3, <3>1 DEF FrozenInv, Frozen
  <2>5. CASE ~(left <= 0)
    <3>1. ele'.status = "STARTING" /\ pc' = "idle"
      BY <2>2, <2>5, <2>6 DEF status
    <3> QED BY <2>3, <3>1 DEF FrozenInv, Frozen
  <2> QED BY <2>4, <2>5
<1>5. CASE Started
  BY <1>5 DEF Started, FrozenInv, Frozen, HasEvent, This
<1> QED BY <1>1, <1>2, <1>3, <1>4, <1>5

LEMMA WorkKeeps ==
  IInv /\ (NothingToWork \/ Working \/ StartEvent \/ DoEvent \/ RunTimed \/ RunDistance
           \/ RunBmpRead \/ AllDone) => IInv'
<1> SUFFICES ASSUME IInv, NothingToWork \/ Working \/ StartEvent \/ DoEvent \/ RunTimed
                          \/ RunDistance \/ RunBmpRead \/ AllDone
             PROVE  IInv'
  OBVIOUS
<1> USE TrackFacts DEF IInv, TypeOK, ElementData, PlaceInv, Places, IsElement
<1>1. CASE NothingToWork
  BY <1>1 DEF NothingToWork, FrozenInv, Frozen, HasEvent, This
<1>2. CASE Working
  BY <1>2 DEF Working, FrozenInv, Frozen, HasEvent, This
<1>3. CASE StartEvent
  <2>1. TypeOK'
    <3>1. ele' \in ElementData
      <4> DEFINE v == This.work[ele.evt].value
                 f == IF This.work[ele.evt].type = "wait" THEN ele.flags \cup {"WAIT"}
                      ELSE ele.flags
      <4>1. v \in Int
        BY <1>3 DEF StartEvent, Event
      <4>2. f \in SUBSET {"WAIT", "CLEAR"}
        OBVIOUS
      <4>3. \/ ele' = [ele EXCEPT !.estatus = "RUNNING", !.dist = v]
            \/ ele' = [ele EXCEPT !.estatus = "RUNNING", !.wait = v, !.flags = f]
        BY <1>3 DEF StartEvent
      <4> HIDE DEF v, f
      <4> QED BY <4>1, <4>2, <4>3, ZenonT(40)
    <3>2. stream' \in [DOMAIN track -> StreamStates]
      BY <1>3, StreamKept DEF StartEvent
    <3>3. paused' \in BOOLEAN /\ pc' \in Places /\ UNCHANGED <<track, tstatus, cur, plays, ticks>>
      BY <1>3 DEF StartEvent
    <3> HIDE DEF ElementData, Places
    <3> QED BY <3>1, <3>2, <3>3
  <2>2. PlaceInv'
    BY <1>3 DEF StartEvent, Event
  <2>3. FrozenInv'
    BY <1>3 DEF StartEvent, Event, FrozenInv, Frozen, HasEvent, This
  <2> QED BY <2>1, <2>2, <2>3
<1>4. CASE DoEvent
  <2>1. TypeOK'
    <3>1. ele' \in ElementData
      <4> DEFINE evt == This.work[ele.evt]
                 s == SpeedAfter(evt, NextEvent.speed)
                 a == IF evt.type = "speedup" THEN evt.value ELSE NextEvent.accel
                 o == IF evt.type = "object" THEN evt.value ELSE NextEvent.object
                 f == IF evt.type = "clear" THEN NextEvent.flags \cup {"CLEAR"} ELSE NextEvent.flags
                 w == IF evt.type = "bmp_close" THEN 0 ELSE NextEvent.wait
      <4>1. s \in Int /\ w \in Int /\ a \in Int /\ o \in Nat /\ f \in SUBSET {"WAIT", "CLEAR"}
        <5>1. This.work[ele.evt] \in Event
          BY <1>4 DEF DoEvent
        <5>2. evt.value \in Int /\ (evt.type = "object" => evt.value \in Nat)
          <6> HIDE DEF ElementData, TypeOK, PlaceInv
          <6>1. evt \in Event
            BY <5>1
          <6> HIDE DEF evt
          <6> QED BY <6>1 DEF Event, SpeedTypes
        <5> HIDE DEF evt
        <5>3. /\ NextEvent.speed \in Int /\ NextEvent.wait \in Int /\ NextEvent.accel \in Int
              /\ NextEvent.object \in Nat /\ NextEvent.flags \in SUBSET {"WAIT", "CLEAR"}
          BY NextEventData
        <5> HIDE DEF NextEvent, ElementData, TypeOK
        <5>4. s \in Int
          BY <5>2, <5>3 DEF SpeedAfter
        <5> QED BY <5>2, <5>3, <5>4
      <4>2. ele' = [NextEvent EXCEPT !.speed = s, !.accel = a, !.object = o, !.flags = f, !.wait = w]
        BY <1>4 DEF DoEvent
      <4> HIDE DEF s, w, a, o, f
      <4>3. [NextEvent EXCEPT !.speed = s, !.accel = a, !.object = o, !.flags = f, !.wait = w]
              \in ElementData
        BY <4>1, NextEventData
      <4> HIDE DEF ElementData
      <4> QED BY <4>2, <4>3
    <3>2. stream' \in [DOMAIN track -> StreamStates]
      BY <1>4, OpenedKept DEF DoEvent
    <3>3. paused' \in BOOLEAN /\ pc' \in Places /\ UNCHANGED <<track, tstatus, cur, plays, ticks>>
      BY <1>4 DEF DoEvent
    <3> HIDE DEF ElementData, Places
    <3> QED BY <3>1, <3>2, <3>3
  <2>4. /\ ele'.status = ele.status /\ ("WAIT" \in ele'.flags <=> "WAIT" \in ele.flags)
        /\ pc = "event" /\ ele.estatus = "READY" /\ UNCHANGED <<track, cur, tstatus, pc>>
    BY <1>4 DEF DoEvent, NextEvent
  <2>2. PlaceInv'
    BY <2>4
  <2>3. FrozenInv'
    BY <2>4 DEF FrozenInv, Frozen
  <2> QED BY <2>1, <2>2, <2>3
<1>5. CASE RunTimed
  <2>1. TypeOK'
    <3>1. ele' \in ElementData
      <4> DEFINE w == NextEvent.wait - 1
                 f == IF This.work[ele.evt].type = "wait" THEN NextEvent.flags \ {"WAIT"}
                      ELSE NextEvent.flags
                 left == ele.wait - 1
      <4>1. w \in Int /\ f \in SUBSET {"WAIT", "CLEAR"} /\ left \in Int
        <5>1. /\ NextEvent.wait \in Int /\ NextEvent.flags \in SUBSET {"WAIT", "CLEAR"}
              /\ ele.wait \in Int
          BY NextEventData
        <5> HIDE DEF NextEvent, ElementData, TypeOK
        <5> QED BY <5>1
      <4>2. ele' = [NextEvent EXCEPT !.wait = w, !.flags = f] \/ ele' = [ele EXCEPT !.wait = left]
        BY <1>5 DEF RunTimed
      <4> HIDE DEF w, f, left
      <4>3. [NextEvent EXCEPT !.wait = w, !.flags = f] \in ElementData
        BY <4>1, NextEventData
      <4>4. [ele EXCEPT !.wait = left] \in ElementData
        BY <4>1
      <4> HIDE DEF ElementData
      <4> QED BY <4>2, <4>3, <4>4
    <3>2. stream' \in [DOMAIN track -> StreamStates]
      BY <1>5, StreamKept DEF RunTimed
    <3>3. paused' \in BOOLEAN /\ pc' \in Places /\ UNCHANGED <<track, tstatus, cur, plays, ticks>>
      BY <1>5 DEF RunTimed
    <3> HIDE DEF ElementData, Places
    <3> QED BY <3>1, <3>2, <3>3
  <2>2. PlaceInv'
    BY <1>5 DEF RunTimed, NextEvent
  <2>3. FrozenInv'
    <3>1. /\ pc = "event" /\ HasEvent /\ ele.estatus = "RUNNING"
          /\ UNCHANGED <<track, tstatus, cur>> /\ ele'.status = ele.status
      BY <1>5 DEF RunTimed, NextEvent
    <3>2. CASE ele.wait - 1 <= 0
      <4>1. ele'.flags = IF This.work[ele.evt].type = "wait" THEN ele.flags \ {"WAIT"} ELSE ele.flags
        BY <1>5, <3>2 DEF RunTimed, NextEvent
      <4>2. tstatus # "FINISHED" /\ ele.status \notin {"READY", "STARTING"}
        BY <3>1
      <4>3. "WAIT" \notin ele'.flags
        BY <3>1, <4>1, <4>2 DEF FrozenInv, Frozen
      <4> QED BY <4>3 DEF FrozenInv, Frozen
    <3>3. CASE ~(ele.wait - 1 <= 0)
      <4>1. ele'.flags = ele.flags /\ ele'.evt = ele.evt /\ ele'.estatus = "RUNNING" /\ pc' = "show"
        BY <1>5, <3>1, <3>3 DEF RunTimed
      <4> QED BY <3>1, <4>1 DEF FrozenInv, Frozen, HasEvent, This
    <3> QED BY <3>2, <3>3
  <2> QED BY <2>1, <2>2, <2>3
<1>6. CASE RunDistance
  <2>1. TypeOK'
    <3>1. ele' \in ElementData
      <4> DEFINE d == NextEvent.dist - Speed
                 left == ele.dist - Speed
      <4>1. d \in Int /\ left \in Int
        <5>1. Speed \in Int /\ NextEvent.dist \in Int /\ ele.dist \in Int
          <6>1. ele.speed \in Int /\ ele.dist \in Int
            OBVIOUS
          <6>2. NextEvent.dist \in Int
            BY NextEventData
          <6> QED BY <6>1, <6>2 DEF Speed
        <5> HIDE DEF NextEvent, ElementData, TypeOK
        <5> QED BY <5>1
      <4>2. ele' = [NextEvent EXCEPT !.dist = d] \/ ele' = [ele EXCEPT !.dist = left]
        BY <1>6 DEF RunDistance
      <4> HIDE DEF d, left
      <4>3. [NextEvent EXCEPT !.dist = d] \in ElementData
        BY <4>1, NextEventData
      <4>4. [ele EXCEPT !.dist = left] \in ElementData
        BY <4>1
      <4> HIDE DEF ElementData
      <4> QED BY <4>2, <4>3, <4>4
    <3>2. stream' \in [DOMAIN track -> StreamStates]
      BY <1>6, StreamKept DEF RunDistance
    <3>3. paused' \in BOOLEAN /\ pc' \in Places /\ UNCHANGED <<track, tstatus, cur, plays, ticks>>
      BY <1>6 DEF RunDistance
    <3> HIDE DEF ElementData, Places
    <3> QED BY <3>1, <3>2, <3>3
  <2>2. PlaceInv'
    BY <1>6 DEF RunDistance, NextEvent
  <2>3. FrozenInv'
    BY <1>6 DEF RunDistance, NextEvent, FrozenInv, Frozen, HasEvent, This
  <2> QED BY <2>1, <2>2, <2>3
<1>7. CASE RunBmpRead
  <2>1. TypeOK'
    <3>1. ele' \in ElementData
      <4> DEFINE left == ele.wait - 1
      <4>1. left \in Int
        OBVIOUS
      <4>2. ele' = NextEvent \/ ele' = ele \/ ele' = [ele EXCEPT !.wait = left]
        BY <1>7 DEF RunBmpRead
      <4> HIDE DEF left
      <4> QED BY <4>1, <4>2, NextEventData
    <3>2. stream' \in [DOMAIN track -> StreamStates]
      BY <1>7, StreamKept DEF RunBmpRead
    <3>3. paused' \in BOOLEAN /\ pc' \in Places /\ UNCHANGED <<track, tstatus, cur, plays, ticks>>
      BY <1>7 DEF RunBmpRead
    <3> HIDE DEF ElementData, Places
    <3> QED BY <3>1, <3>2, <3>3
  <2>2. PlaceInv'
    BY <1>7 DEF RunBmpRead, NextEvent
  <2>3. FrozenInv'
    BY <1>7 DEF RunBmpRead, NextEvent, FrozenInv, Frozen, HasEvent, This
  <2> QED BY <2>1, <2>2, <2>3
<1>8. CASE AllDone
  BY <1>8 DEF AllDone, FrozenInv, Frozen, HasEvent, This
<1> QED BY <1>1, <1>2, <1>3, <1>4, <1>5, <1>6, <1>7, <1>8

LEMMA EndKeeps == IInv /\ (Final \/ DoRepeat \/ LeaveElement \/ Show) => IInv'
<1> SUFFICES ASSUME IInv, Final \/ DoRepeat \/ LeaveElement \/ Show PROVE IInv'
  OBVIOUS
<1>5. TypeOK /\ (Final \/ Show => /\ ele' \in ElementData /\ Untouched
                                  /\ "WAIT" \in ele'.flags <=> "WAIT" \in ele.flags)
  BY Painting DEF IInv
<1>6. DoRepeat \/ LeaveElement => /\ ele' \in ElementData /\ ele'.flags = {} /\ ele'.status = "READY"
                                 /\ stream' \in [DOMAIN track -> StreamStates]
  <2>1. /\ ele.reps - 1 \in Int /\ ele.reps \in Int /\ Repeats(cur + 1) \in Int
    BY <1>5, TrackFacts DEF TypeOK, ElementData
  <2>2. \A r \in Int : /\ Fresh(r) \in ElementData /\ Fresh(r).flags = {}
                       /\ Fresh(r).status = "READY"
    BY FreshData
  <2>3. "none" \in StreamStates
    BY DEF StreamStates
  <2>4. ASSUME DoRepeat \/ LeaveElement PROVE stream' \in [DOMAIN track -> StreamStates]
    BY <1>5, <2>3, <2>4, StreamKept DEF DoRepeat, LeaveElement
  <2> QED BY <2>1, <2>2, <2>4 DEF DoRepeat, LeaveElement
<1> USE DEF IInv, TypeOK, PlaceInv, Places
<1>1. CASE Final
  <2>1. /\ ele' \in ElementData /\ Untouched /\ ("WAIT" \in ele'.flags <=> "WAIT" \in ele.flags)
        /\ UNCHANGED <<track, tstatus, cur, paused, ticks>> /\ pc = "final" /\ pc' = "repeat"
        /\ plays' \in Nat
    BY <1>1, <1>5 DEF Final, Counted
  <2>2. stream' \in [DOMAIN track -> StreamStates]
    BY <1>1, <1>5, ShownKept DEF Final
  <2>3. TypeOK' /\ PlaceInv'
    BY <2>1, <2>2 DEF Untouched, IsElement
  <2>4. FrozenInv'
    BY <2>1 DEF FrozenInv, Frozen, Untouched
  <2> QED BY <2>3, <2>4
<1>2. CASE DoRepeat
  BY <1>2, <1>6 DEF DoRepeat, FrozenInv, Frozen
<1>3. CASE LeaveElement
  BY <1>3, <1>6 DEF LeaveElement, FrozenInv, Frozen
<1>4. CASE Show
  <2>1. /\ ele' \in ElementData /\ Untouched /\ ("WAIT" \in ele'.flags <=> "WAIT" \in ele.flags)
        /\ UNCHANGED <<track, tstatus, cur, paused, plays, ticks>> /\ pc = "show" /\ pc' = "idle"
    BY <1>4, <1>5 DEF Show
  <2>2. stream' \in [DOMAIN track -> StreamStates]
    BY <1>4, <1>5, ShownKept DEF Show
  <2>3. TypeOK' /\ PlaceInv'
    BY <2>1, <2>2 DEF Untouched, IsElement
  <2>4. FrozenInv'
    BY <2>1 DEF FrozenInv, Frozen, Untouched, HasEvent, This
  <2> QED BY <2>3, <2>4
<1> QED BY <1>1, <1>2, <1>3, <1>4

LEMMA StepKeeps == IInv /\ [Next]_vars => IInv'
<1> SUFFICES ASSUME IInv, [Next]_vars PROVE IInv'
  OBVIOUS
<1>1. CASE Next
  BY <1>1, BetweenKeeps, ElementKeeps, WorkKeeps, EndKeeps DEF Next, InTick
<1>2. CASE UNCHANGED vars
  BY <1>2 DEF vars, IInv, TypeOK, PlaceInv, FrozenInv, Frozen, HasEvent, This, IsElement
<1> QED BY <1>1, <1>2

THEOREM InvariantHolds == Spec => []IInv
BY InitEstablishes, StepKeeps, PTL DEF Spec

(* Types; the place in a list is a number, the times may become negative.  *)
THEOREM TypeCorrect == Spec => []TypeOK
<1>1. IInv => TypeOK
  BY DEF IInv
<1> QED BY <1>1, InvariantHolds, PTL

(* A frozen display thaws, in every track.                                 *)
THEOREM FrozenThaws == Spec => []FrozenIsWaiting
<1>1. IInv => FrozenIsWaiting
  BY DEF IInv, FrozenInv, Frozen, FrozenIsWaiting
<1> QED BY <1>1, InvariantHolds, PTL

-----------------------------------------------------------------------------
(* Why the repeats are right: what is left of them and what was played     *)
(* make up the number of repeats, and one play is counted before the other.*)
RepeatInv ==
  Repeats(cur) # 0 /\ Repeats(cur) <= CountLimit =>
    /\ plays + ele.reps = IF pc = "repeat" THEN Repeats(cur) + 1 ELSE Repeats(cur)
    /\ ele.reps >= 1

LEMMA RepeatsBegin == Init => RepeatInv
<1> SUFFICES ASSUME Init PROVE RepeatInv
  OBVIOUS
<1>1. Repeats(1) \in Nat
  BY InitEstablishes, TrackFacts DEF IInv
<1> QED BY <1>1 DEF Init, RepeatInv, Fresh

(* Nearly every step leaves the counters alone and is not at the repeat.   *)
LEMMA CountersKept ==
  ASSUME IInv, UNCHANGED <<track, cur, plays>>, ele'.reps = ele.reps,
         pc = "repeat" <=> pc' = "repeat", RepeatInv
  PROVE  RepeatInv'
BY DEF RepeatInv, Repeats, IsElement

(* What works on an element does not touch its repeats.                    *)
LEMMA RepsUntouched ==
  ASSUME IInv,
         \/ InitElement \/ Starting \/ StartEvent \/ DoEvent
         \/ RunTimed \/ RunDistance \/ RunBmpRead \/ AllDone \/ Stop
  PROVE  ele'.reps = ele.reps
<1> USE DEF IInv, TypeOK, ElementData
<1>1. CASE InitElement
  BY <1>1 DEF InitElement
<1>2. CASE Starting
  BY <1>2 DEF Starting
<1>3. CASE StartEvent
  BY <1>3 DEF StartEvent
<1>4. CASE DoEvent
  BY <1>4 DEF DoEvent, NextEvent
<1>5. CASE RunTimed
  BY <1>5 DEF RunTimed, NextEvent
<1>6. CASE RunDistance
  BY <1>6 DEF RunDistance, NextEvent
<1>7. CASE RunBmpRead
  BY <1>7 DEF RunBmpRead, NextEvent
<1>8. CASE AllDone \/ Stop
  BY <1>8 DEF AllDone, Stop
<1> QED BY <1>1, <1>2, <1>3, <1>4, <1>5, <1>6, <1>7, <1>8

LEMMA EventSteps ==
  ASSUME IInv, RepeatInv,
         \/ InitElement \/ Starting \/ StartEvent \/ DoEvent
         \/ RunTimed \/ RunDistance \/ RunBmpRead \/ AllDone \/ Stop
  PROVE  RepeatInv'
<1>1. UNCHANGED <<track, cur, plays>> /\ pc # "repeat" /\ pc' # "repeat"
  BY DEF InitElement, Starting, StartEvent, DoEvent, RunTimed, RunDistance, RunBmpRead, AllDone, Stop
<1> QED BY <1>1, RepsUntouched, CountersKept

LEMMA OtherSteps ==
  ASSUME IInv, RepeatInv,
         \/ Tick \/ TrackDone \/ ElementGoesOn \/ Started \/ NothingToWork \/ Working
         \/ Show \/ Continue \/ (\E e \in DOMAIN track : StreamEnds(e)) \/ UNCHANGED vars
  PROVE  RepeatInv'
<1>2. ele'.reps = ele.reps
  BY GoingOn DEF IInv, Untouched
<1>1. /\ UNCHANGED <<track, cur, plays>>
      /\ pc = "repeat" <=> pc' = "repeat"
  BY DEF Tick, TrackDone, ElementGoesOn, Started, NothingToWork, Working, Show, Continue,
         StreamEnds, vars
<1> QED BY <1>1, <1>2, CountersKept

(* The steps that count.                                                   *)
LEMMA CountingSteps ==
  ASSUME IInv, RepeatInv, Final \/ DoRepeat \/ LeaveElement \/ Restart
  PROVE  RepeatInv'
<1>1. \A c \in Nat \ {0} : Repeats(c) \in Nat
  BY TrackFacts DEF IInv
<1>2. /\ cur \in Nat \ {0} /\ plays \in Nat /\ ele.reps \in Int /\ CountLimit \in Nat
      /\ Repeats(cur) \in Nat /\ Repeats(cur + 1) \in Nat /\ Repeats(1) \in Nat
  BY <1>1, ProgramsAssumption DEF IInv, TypeOK, ElementData
<1>3. track' = track
  BY DEF Final, DoRepeat, LeaveElement, Restart
<1>4. CASE Final
  <2>1. Repeats(cur)' = Repeats(cur)
    BY <1>3, <1>4 DEF Final, Repeats, IsElement
  <2>2. ele'.reps = ele.reps
    BY <1>4, GoingOn DEF IInv, Untouched
  <2>3. pc = "final" /\ pc' = "repeat" /\ plays' = Counted(plays)
    BY <1>4 DEF Final
  <2> QED BY <1>2, <2>1, <2>2, <2>3 DEF RepeatInv, Counted
<1>5. CASE DoRepeat
  <2>1. Repeats(cur)' = Repeats(cur)
    BY <1>3, <1>5 DEF DoRepeat, Repeats, IsElement
  <2> QED BY <1>2, <1>5, <2>1 DEF DoRepeat, RepeatInv, Fresh
<1>6. CASE LeaveElement
  <2>1. Repeats(cur)' = Repeats(cur + 1)
    BY <1>3, <1>6 DEF LeaveElement, Repeats, IsElement
  <2> QED BY <1>2, <1>6, <2>1 DEF LeaveElement, RepeatInv, Fresh
<1>7. CASE Restart
  <2>1. Repeats(cur)' = Repeats(1)
    BY <1>3, <1>7 DEF Restart, Repeats, IsElement
  <2> QED BY <1>2, <1>7, <2>1 DEF Restart, RepeatInv, Fresh
<1> QED BY <1>4, <1>5, <1>6, <1>7

LEMMA RepeatsKept == IInv /\ RepeatInv /\ [Next]_vars => RepeatInv'
BY EventSteps, OtherSteps, CountingSteps DEF Next, InTick, Between

(* An element is executed as often as it says before the next one follows, *)
(* for every number of repeats that plays can count, over stops, pauses    *)
(* and restarts (process_events.c 423-445).                                *)
THEOREM RepeatsAsOften == Spec => RepeatedAsOften
<1> DEFINE Leaving ==
      cur' = cur + 1 /\ Repeats(cur) <= CountLimit => plays = Repeats(cur)
<1>1. Spec => []RepeatInv
  BY RepeatsBegin, RepeatsKept, InvariantHolds, PTL DEF Spec
<1>2. IInv /\ RepeatInv /\ [Next]_vars => [Leaving]_vars
  <2> SUFFICES ASSUME IInv, RepeatInv, Next, cur' = cur + 1, Repeats(cur) <= CountLimit
               PROVE  plays = Repeats(cur)
    OBVIOUS
  <2>1. cur \in Nat \ {0} /\ plays \in Nat /\ ele.reps \in Int /\ Repeats(cur) \in Nat
    BY TrackFacts DEF IInv, TypeOK, ElementData
  <2>2. cur' # cur /\ cur' # 1
    BY <2>1
  <2>3. LeaveElement
    BY <2>2 DEF Next, InTick, Between, Tick, TrackDone, InitElement, ElementGoesOn, Starting, Started, NothingToWork, Working,
      StartEvent, DoEvent, RunTimed, RunDistance, RunBmpRead, AllDone, Final, DoRepeat, Show,
      Stop, Restart, Continue, StreamEnds
  <2> QED BY <2>1, <2>3 DEF LeaveElement, RepeatInv
<1> QED BY <1>1, <1>2, InvariantHolds, PTL DEF Spec, RepeatedAsOften

-----------------------------------------------------------------------------
(* The sum of the first k of a sequence of numbers exists: for every n one *)
(* up to n, two of them agree, and together they are one for all numbers.  *)
Tally(v, n, g) ==
  g \in [0..n -> Nat] /\ g[0] = 0 /\ \A k \in 0..n-1 : g[k + 1] = g[k] + v[k + 1]

LEMMA TalliesAgree ==
  ASSUME NEW v \in [Nat -> Nat], NEW n \in Nat, NEW m \in Nat, n <= m,
         NEW g, NEW h, Tally(v, n, g), Tally(v, m, h)
  PROVE  g[n] = h[n]
<1> DEFINE S == {k \in Nat : k <= n => g[k] = h[k]}
<1>1. 0 \in S
  BY DEF Tally
<1>2. ASSUME NEW k \in Nat, k \in S PROVE k + 1 \in S
  BY <1>2 DEF Tally
<1>3. Nat \subseteq S
  <2> HIDE DEF S
  <2> QED BY <1>1, <1>2, Induction
<1> QED BY <1>3

LEMMA TallyExists ==
  ASSUME NEW v \in [Nat -> Nat], NEW n \in Nat
  PROVE  \E g : Tally(v, n, g)
<1> DEFINE S == {k \in Nat : \E g : Tally(v, k, g)}
<1>1. 0 \in S
  <2>1. Tally(v, 0, [k \in 0..0 |-> 0])
    BY DEF Tally
  <2> QED BY <2>1
<1>2. ASSUME NEW k \in Nat, k \in S PROVE k + 1 \in S
  <2>1. PICK g : Tally(v, k, g)
    BY <1>2
  <2> DEFINE h == [i \in 0..k + 1 |-> IF i = k + 1 THEN g[k] + v[k + 1] ELSE g[i]]
  <2>2. h \in [0..k + 1 -> Nat] /\ h[0] = 0
    BY <2>1, SMTT(20) DEF Tally
  <2>3. ASSUME NEW i \in 0..(k + 1) - 1 PROVE h[i + 1] = h[i] + v[i + 1]
    <3>1. CASE i = k
      BY <3>1
    <3>2. CASE i # k
      <4>1. i \in 0..k - 1 /\ i + 1 # k + 1 /\ i # k + 1 /\ i + 1 \in 0..k+1 /\ i \in 0..k+1
        BY <3>2
      <4>2. g[i + 1] = g[i] + v[i + 1]
        BY <2>1, <4>1 DEF Tally
      <4> QED BY <4>1, <4>2
    <3> QED BY <3>1, <3>2
  <2>4. Tally(v, k + 1, h)
    BY <2>2, <2>3 DEF Tally
  <2> QED BY <2>4
<1>3. Nat \subseteq S
  <2> HIDE DEF S
  <2> QED BY <1>1, <1>2, Induction
<1> QED BY <1>3

LEMMA SumExists ==
  ASSUME NEW v \in [Nat -> Nat]
  PROVE  \E f : f = [k \in Nat |-> IF k = 0 THEN 0 ELSE f[k - 1] + v[k]]
<1> DEFINE part(n) == CHOOSE g : Tally(v, n, g)
           f == [k \in Nat |-> part(k)[k]]
<1>1. ASSUME NEW n \in Nat PROVE Tally(v, n, part(n))
  BY TallyExists
<1> HIDE DEF part
<1>2. f[0] = 0
  BY <1>1 DEF Tally
<1>3. ASSUME NEW k \in Nat \ {0} PROVE f[k] = f[k - 1] + v[k]
  <2>1. k - 1 \in Nat /\ (k - 1) + 1 = k /\ k - 1 \in 0..k-1
    OBVIOUS
  <2>2. part(k)[k] = part(k)[k - 1] + v[k]
    BY <1>1, <2>1 DEF Tally
  <2>3. part(k - 1)[k - 1] = part(k)[k - 1]
    BY <1>1, <2>1, TalliesAgree
  <2> QED BY <2>1, <2>2, <2>3
<1>4. f = [k \in Nat |-> IF k = 0 THEN 0 ELSE f[k - 1] + v[k]]
  <2>1. ASSUME NEW k \in Nat PROVE f[k] = IF k = 0 THEN 0 ELSE f[k - 1] + v[k]
    BY <1>2, <1>3
  <2> QED BY <2>1
<1> QED BY <1>4

LEMMA WorkTicksSum ==
  ASSUME NEW list \in Seq(Event)
  PROVE  /\ WorkTicks(list) \in [Nat -> Nat]
         /\ WorkTicks(list)[0] = 0
         /\ \A k \in Nat : WorkTicks(list)[k + 1] = WorkTicks(list)[k] + EventTicks(list, k + 1)
         /\ \A k \in 0..Len(list) : WorkTicks(list)[k] <= WorkTicks(list)[Len(list)]
<1> DEFINE v == [k \in Nat |-> EventTicks(list, k)]
           w == WorkTicks(list)
<1>1. v \in [Nat -> Nat]
  <2>1. ASSUME NEW k \in Nat PROVE EventTicks(list, k) \in Nat
    <3>1. CASE k \in DOMAIN list
      <4>1. list[k] \in Event
        BY <3>1
      <4> QED BY <4>1 DEF EventTicks, Extra, Event
    <3> QED BY <3>1 DEF EventTicks
  <2> QED BY <2>1
<1>2. w = [k \in Nat |-> IF k = 0 THEN 0 ELSE w[k - 1] + EventTicks(list, k)]
  <2>1. \E f : f = [k \in Nat |-> IF k = 0 THEN 0 ELSE f[k - 1] + v[k]]
    BY <1>1, SumExists
  <2>2. \E f : f = [k \in Nat |-> IF k = 0 THEN 0 ELSE f[k - 1] + EventTicks(list, k)]
    BY <2>1
  <2> QED BY <2>2, Zenon DEF WorkTicks
<1> HIDE DEF w
<1>3. w[0] = 0 /\ \A k \in Nat : w[k + 1] = w[k] + v[k + 1]
  BY <1>2
<1> HIDE DEF v
<1>4. \A k \in Nat : w[k] \in Nat
  <2> DEFINE S == {k \in Nat : w[k] \in Nat}
  <2>1. 0 \in S
    BY <1>3
  <2>2. ASSUME NEW k \in Nat, k \in S PROVE k + 1 \in S
    <3>1. v[k + 1] \in Nat
      BY <1>1
    <3>2. w[k + 1] = w[k] + v[k + 1] /\ w[k] \in Nat
      BY <1>3, <2>2
    <3> QED BY <3>1, <3>2
  <2>3. Nat \subseteq S
    <3> HIDE DEF S
    <3> QED BY <2>1, <2>2, Induction
  <2> QED BY <2>3
<1>5. w \in [Nat -> Nat]
  BY <1>2, <1>4
<1>6. ASSUME NEW n \in Nat PROVE \A k \in 0..n : w[k] <= w[n]
  <2> DEFINE S == {m \in Nat : \A k \in 0..m : w[k] <= w[m]}
  <2>1. 0 \in S
    BY <1>3, <1>5
  <2>2. ASSUME NEW m \in Nat, m \in S PROVE m + 1 \in S
    <3>1. w[m] <= w[m + 1] /\ w[m] \in Nat /\ w[m + 1] \in Nat
      <4>1. v[m + 1] \in Nat /\ w[m] \in Nat
        BY <1>1, <1>4, SMTT(20)
      <4>2. w[m + 1] = w[m] + v[m + 1]
        BY <1>3
      <4> QED BY <4>1, <4>2
    <3>2. ASSUME NEW k \in 0..m + 1 PROVE w[k] <= w[m + 1]
      <4>1. CASE k \in 0..m
        <5>1. w[k] <= w[m] /\ w[k] \in Nat
          BY <2>2, <4>1, <1>4
        <5> QED BY <3>1, <5>1
      <4>2. CASE k = m + 1
        BY <3>1, <4>2
      <4> QED BY <4>1, <4>2
    <3> QED BY <3>2
  <2>3. Nat \subseteq S
    <3> HIDE DEF S
    <3> QED BY <2>1, <2>2, Induction
  <2> QED BY <2>3
<1>7. ASSUME NEW k \in Nat PROVE w[k + 1] = w[k] + EventTicks(list, k + 1)
  <2>1. v[k + 1] = EventTicks(list, k + 1)
    BY DEF v
  <2> QED BY <1>3, <2>1
<1>8. Len(list) \in Nat
  OBVIOUS
<1>9. \A k \in 0..Len(list) : w[k] <= w[Len(list)]
  BY <1>6, <1>8
<1> QED BY <1>3, <1>5, <1>7, <1>9, Zenon DEF w

LEMMA RoundedUp ==
  ASSUME NEW v \in Nat, NEW n \in Nat \ {0}, NEW t \in Nat
  PROVE  /\ (v + n - 1) \div n \in Nat
         /\ v > n * t => (v + n - 1) \div n > t
         /\ v <= n * t => (v + n - 1) \div n <= t
<1> DEFINE q == (v + n - 1) \div n
           r == (v + n - 1) % n
<1>1. q \in Nat /\ r \in 0..n - 1 /\ v + n - 1 = n * q + r
  OBVIOUS
<1> HIDE DEF q, r
<1>2. ASSUME v > n * t, q <= t PROVE FALSE
  <2>1. n * q <= n * t
    BY <1>1, <1>2
  <2>. QED BY <1>1, <1>2, <2>1
<1>3. ASSUME v <= n * t, q >= t + 1 PROVE FALSE
  <2>1. n * q >= n * (t + 1) /\ n * (t + 1) = n * t + n
    BY <1>1, <1>3
  <2>. QED BY <1>1, <1>3, <2>1
<1> QED BY <1>1, <1>2, <1>3 DEF q, r

LEMMA InitTicksFacts ==
  ASSUME NEW list \in Seq(Event)
  PROVE  LET n == Cardinality(Positions(list, WaitTypes))
             v == LastValue(list, WaitTypes, 0)
         IN /\ n \in Nat /\ v \in Nat /\ InitTicks(list) \in Nat
            /\ Positions(list, WaitTypes) = {} => InitTicks(list) = 0
            /\ Positions(list, WaitTypes) # {} =>
                 /\ n > 0
                 /\ \A d : LastValue(list, WaitTypes, d) = v
                 /\ \A t \in Nat : v > n * t => InitTicks(list) + 1 > t
                 /\ \A t \in Nat \ {0} : v <= n * t /\ (t = 1 \/ v > n * (t - 1)) =>
                      InitTicks(list) + 1 = t
<1> DEFINE S == Positions(list, WaitTypes)
           n == Cardinality(S)
           v == LastValue(list, WaitTypes, 0)
           q == (v + n - 1) \div n
<1>1. n \in Nat /\ v \in Nat
  <2>1. WaitTypes \cap SpeedTypes = {}
    BY DEF WaitTypes, SpeedTypes
  <2> QED BY <2>1, LastValueInt
<1>2. IsFiniteSet(S)
  <2>1. S \subseteq 1..Len(list) /\ Len(list) \in Nat
    BY DEF Positions
  <2>2. IsFiniteSet(1..Len(list))
    BY <2>1, FS_Interval
  <2> QED BY <2>1, <2>2, FS_Subset
<1>3. n = 0 <=> S = {}
  BY <1>2, FS_EmptySet
<1>4. InitTicks(list) = IF n = 0 THEN 0 ELSE Extra(q)
  BY DEF InitTicks
<1>5. S # {} => \A d : LastValue(list, WaitTypes, d) = v
  BY DEF LastValue
<1>6. ASSUME S # {}
      PROVE  /\ q \in Nat
             /\ \A t \in Nat : /\ v > n * t => q > t
                               /\ v <= n * t => q <= t
  BY <1>1, <1>3, <1>6, RoundedUp
<1> HIDE DEF S, n, v, q
<1>7. InitTicks(list) \in Nat
  BY <1>3, <1>4, <1>6 DEF Extra
<1>8. ASSUME S # {}, NEW t \in Nat, v > n * t PROVE InitTicks(list) + 1 > t
  BY <1>3, <1>4, <1>6, <1>8 DEF Extra
<1>9. ASSUME S # {}, NEW t \in Nat \ {0}, v <= n * t, t = 1 \/ v > n * (t - 1)
      PROVE  InitTicks(list) + 1 = t
  <2>1. q <= t /\ q \in Nat
    BY <1>6, <1>9
  <2>2. t = 1 \/ q > t - 1
    BY <1>6, <1>9
  <2> QED BY <1>3, <1>4, <1>9, <2>1, <2>2 DEF Extra
<1>10. S # {} => n > 0
  BY <1>1, <1>3
<1>11. S = {} => InitTicks(list) = 0
  BY <1>3, <1>4
<1>12. S # {} => \A t \in Nat : v > n * t => InitTicks(list) + 1 > t
  BY <1>8, Zenon
<1>13. S # {} => \A t \in Nat \ {0} : v <= n * t /\ (t = 1 \/ v > n * (t - 1)) =>
                     InitTicks(list) + 1 = t
  BY <1>9, Zenon
<1> QED BY <1>1, <1>5, <1>7, <1>10, <1>11, <1>12, <1>13, Zenon DEF S, n, v

-----------------------------------------------------------------------------
(* Why an element plays its time: how many ticks a play has had, wherever  *)
(* it is.  The events that are done have had theirs; the running one has   *)
(* had what is missing at its time, and one more when it was executed in   *)
(* this tick.                                                              *)
Timed ==
  /\ tstatus # "FINISHED" /\ IsElement(cur) /\ This.work # <<>>
  /\ Positions(This.work, {"distance", "bmp_read"}) = {}
  /\ PlayTicks(This) <= CountLimit

Waits == Cardinality(Positions(This.init, WaitTypes))

InitTime == LastValue(This.init, WaitTypes, 0)

(* The ticks of the play when the running event began. *)
Begun == 1 + InitTicks(This.init) + WorkTicks(This.work)[ele.evt - 1]

After == 1 + InitTicks(This.init) + WorkTicks(This.work)[ele.evt]

ReadyTime ==
  ele.status = "READY" => ticks = IF pc = "idle" THEN 0 ELSE 1

StartingTime ==
  ele.status = "STARTING" =>
    /\ pc \in {"idle", "element", "starting"}
    /\ Positions(This.init, WaitTypes) # {}
    /\ ticks >= 1
    /\ pc = "idle" => ele.wait = InitTime - Waits * ticks /\ ele.wait > 0
    /\ pc # "idle" => /\ ele.wait = InitTime - Waits * (ticks - 1)
                      /\ ticks = 1 \/ ele.wait > 0

BetweenTime ==
  ele.status = "RUNNING" /\ ele.estatus = "READY" =>
    /\ ticks = Begun
    /\ pc \in {"starting", "work", "event"}
    /\ pc # "event" => HasEvent

EventTime ==
  ele.status = "RUNNING" /\ ele.estatus = "RUNNING" =>
    /\ HasEvent /\ RunningEvent.type \in {"wait", "paint"}
    /\ ticks >= Begun
    /\ pc \in {"idle", "show"} =>
         ele.wait = RunningEvent.value - (ticks - Begun) - 1 /\ ele.wait > 0
    /\ pc \notin {"idle", "show"} =>
         /\ ele.wait = RunningEvent.value - (ticks - Begun)
         /\ ticks = Begun \/ ele.wait > 0

EndTime ==
  ele.status = "FINISHED" => pc \in {"final", "repeat"} /\ ticks = PlayTicks(This)

TimeInv ==
  Timed =>
    /\ ele.status \in {"READY", "STARTING"} => ele.evt = 1 /\ ele.estatus = "READY"
    /\ ele.evt <= Len(This.work) + 1
    /\ pc \in {"final", "repeat"} => ele.status = "FINISHED"
    /\ ReadyTime /\ StartingTime /\ BetweenTime /\ EventTime /\ EndTime

(* An element without working events does not come to its end. *)
WorkInv == pc \in {"event", "final", "repeat"} => This.work # <<>>

(* The numbers that the steps calculate with.                              *)
LEMMA TimeFacts ==
  ASSUME IInv, Timed
  PROVE  /\ ele.evt \in Nat \ {0} /\ ele.wait \in Int /\ ticks \in Nat /\ CountLimit \in Nat
         /\ Len(This.work) \in Nat \ {0}
         /\ Waits \in Nat /\ InitTime \in Nat /\ InitTicks(This.init) \in Nat
         /\ WorkTicks(This.work)[0] = 0
         /\ ele.evt <= Len(This.work) + 1 => Begun \in Nat /\ Begun <= PlayTicks(This)
         /\ PlayTicks(This) \in Nat \ {0}
         /\ PlayTicks(This) > InitTicks(This.init)
         /\ ele.evt = Len(This.work) + 1 => Begun = PlayTicks(This)
         /\ HasEvent =>
              /\ RunningEvent \in Event
              /\ RunningEvent.type \notin {"distance", "bmp_read"}
              /\ After \in Nat /\ After <= PlayTicks(This)
              /\ After = Begun
                   + IF RunningEvent.type \in {"wait", "paint"} THEN Extra(RunningEvent.value) ELSE 0
<1> DEFINE W == WorkTicks(This.work)
           n == Len(This.work)
<1>1. This.init \in Seq(Event) /\ This.work \in Seq(Event)
  BY TrackFacts DEF IInv, Timed
<1>2. /\ ele.evt \in Nat \ {0} /\ ele.wait \in Int /\ ticks \in Nat /\ CountLimit \in Nat
  BY ProgramsAssumption DEF IInv, TypeOK, ElementData
<1>3. n \in Nat \ {0}
  BY <1>1 DEF Timed
<1>4. Waits \in Nat /\ InitTime \in Nat /\ InitTicks(This.init) \in Nat
  BY <1>1, InitTicksFacts DEF Waits, InitTime
<1>5. /\ W \in [Nat -> Nat] /\ W[0] = 0
      /\ \A k \in Nat : W[k + 1] = W[k] + EventTicks(This.work, k + 1)
      /\ \A k \in 0..n : W[k] <= W[n]
  BY <1>1, WorkTicksSum
<1>6. PlayTicks(This) = 1 + InitTicks(This.init) + W[n]
  BY DEF PlayTicks
<1>7. ASSUME HasEvent
      PROVE  /\ RunningEvent \in Event /\ RunningEvent.type \notin {"distance", "bmp_read"}
             /\ EventTicks(This.work, ele.evt) =
                  IF RunningEvent.type \in {"wait", "paint"} THEN Extra(RunningEvent.value) ELSE 0
  <2>1. ele.evt \in DOMAIN This.work
    BY <1>1, <1>2, <1>7 DEF HasEvent
  <2>2. RunningEvent \in Event
    BY <1>1, <2>1 DEF RunningEvent
  <2>3. RunningEvent.type \notin {"distance", "bmp_read"}
    BY <2>1 DEF Timed, Positions, RunningEvent
  <2> QED BY <2>1, <2>2, <2>3 DEF EventTicks, RunningEvent
<1> HIDE DEF W, n
<1>8. ele.evt - 1 \in Nat /\ (ele.evt - 1) + 1 = ele.evt
  BY <1>2
<1>9. W[ele.evt] = W[ele.evt - 1] + EventTicks(This.work, ele.evt)
  BY <1>5, <1>8
<1>10. ASSUME HasEvent PROVE W[ele.evt] \in Nat /\ W[ele.evt] <= W[n]
  <2>1. ele.evt \in 0..n
    BY <1>2, <1>3, <1>10 DEF HasEvent, n
  <2> QED BY <1>5, <2>1
<1>11. Begun = 1 + InitTicks(This.init) + W[ele.evt - 1]
  BY DEF Begun, W
<1>12. ele.evt <= n + 1 => Begun \in Nat /\ Begun <= PlayTicks(This)
  <2>1. W[ele.evt - 1] \in Nat /\ W[n] \in Nat
    BY <1>3, <1>5, <1>8
  <2>2. ASSUME ele.evt <= n + 1 PROVE W[ele.evt - 1] <= W[n]
    <3>1. ele.evt - 1 \in 0..n
      BY <1>2, <1>3, <2>2
    <3> QED BY <1>5, <3>1
  <2> QED BY <1>4, <1>6, <1>11, <2>1, <2>2
<1>13. PlayTicks(This) \in Nat \ {0} /\ PlayTicks(This) > InitTicks(This.init)
  BY <1>3, <1>4, <1>5, <1>6
<1>14. ele.evt = n + 1 => Begun = PlayTicks(This)
  BY <1>3, <1>6, <1>11
<1>15. ASSUME HasEvent
       PROVE  /\ After \in Nat /\ After <= PlayTicks(This)
              /\ After = Begun
                   + IF RunningEvent.type \in {"wait", "paint"} THEN Extra(RunningEvent.value) ELSE 0
  <2> DEFINE x == EventTicks(This.work, ele.evt)
  <2>1. x = IF RunningEvent.type \in {"wait", "paint"} THEN Extra(RunningEvent.value) ELSE 0
    BY <1>7, <1>15
  <2>2. W[ele.evt - 1] \in Nat /\ W[ele.evt] \in Nat /\ W[n] \in Nat /\ W[ele.evt] <= W[n]
    BY <1>2, <1>3, <1>5, <1>8, <1>10, <1>15
  <2>3. After = 1 + InitTicks(This.init) + W[ele.evt]
    BY DEF After, W
  <2> HIDE DEF x
  <2>4. x \in Int
    <3>1. RunningEvent \in Event
      BY <1>7, <1>15
    <3>2. RunningEvent.value \in Int
      BY <3>1 DEF Event
    <3> QED BY <2>1, <3>2 DEF Extra
  <2>5. W[ele.evt] = W[ele.evt - 1] + x
    BY <1>9 DEF x
  <2>6. After \in Nat /\ After <= PlayTicks(This) /\ After = Begun + x
    BY <1>4, <1>6, <1>11, <2>2, <2>3, <2>4, <2>5
  <2> QED BY <2>1, <2>6
<1> QED BY <1>2, <1>3, <1>4, <1>5, <1>7, <1>12, <1>13, <1>14, <1>15, Zenon DEF W, n

(* A step that keeps the element also keeps what is calculated from it.    *)
LEMMA SameElement ==
  ASSUME UNCHANGED <<track, cur>>, tstatus = "FINISHED" => tstatus' = "FINISHED", Timed'
  PROVE  /\ Timed
         /\ This' = This /\ Waits' = Waits /\ InitTime' = InitTime
         /\ InitTicks(This.init)' = InitTicks(This.init) /\ PlayTicks(This)' = PlayTicks(This)
         /\ WorkTicks(This.work)' = WorkTicks(This.work) /\ Len(This.work)' = Len(This.work)
         /\ ele'.evt = ele.evt =>
              (HasEvent' <=> HasEvent) /\ RunningEvent' = RunningEvent /\ Begun' = Begun
<1>1. This' = This
  BY DEF This
<1>2. Timed
  BY <1>1 DEF Timed, IsElement
<1>3. Waits' = Waits /\ InitTime' = InitTime /\ InitTicks(This.init)' = InitTicks(This.init)
      /\ PlayTicks(This)' = PlayTicks(This) /\ WorkTicks(This.work)' = WorkTicks(This.work)
      /\ Len(This.work)' = Len(This.work)
  BY <1>1 DEF Waits, InitTime
<1>4. ASSUME ele'.evt = ele.evt
      PROVE  (HasEvent' <=> HasEvent) /\ RunningEvent' = RunningEvent /\ Begun' = Begun
  BY <1>1, <1>4 DEF HasEvent, RunningEvent, Begun
<1> QED BY <1>1, <1>2, <1>3, <1>4

(* A tick counts: nothing that is still to come is cut off by the bound.   *)
LEMMA TickTime == ASSUME IInv, TimeInv, Tick PROVE TimeInv'
<1> SUFFICES ASSUME Timed' PROVE TimeInv'
  BY DEF TimeInv
<1>1. /\ UNCHANGED <<track, cur, ele>> /\ tstatus # "FINISHED" /\ pc = "idle" /\ pc' = "element"
      /\ ticks' = Counted(ticks)
  BY DEF Tick
<1>2. /\ Timed
      /\ This' = This /\ Waits' = Waits /\ InitTime' = InitTime /\ PlayTicks(This)' = PlayTicks(This)
      /\ Len(This.work)' = Len(This.work)
      /\ (HasEvent' <=> HasEvent) /\ RunningEvent' = RunningEvent /\ Begun' = Begun
  BY <1>1, SameElement
<1>3. PlayTicks(This) <= CountLimit
  BY <1>2 DEF Timed
<1>4. ele.status \in {"READY", "STARTING", "RUNNING", "FINISHED"} /\ ele.estatus \in {"READY", "RUNNING"}
  BY DEF IInv, TypeOK, ElementData
<1>5. ticks < PlayTicks(This)
  <2>1. CASE ele.status = "READY"
    BY <1>1, <1>2, <2>1, TimeFacts DEF TimeInv, ReadyTime
  <2>2. CASE ele.status = "STARTING"
    <3>1. ele.wait = InitTime - Waits * ticks /\ ele.wait > 0 /\ Positions(This.init, WaitTypes) # {}
      BY <1>1, <1>2, <2>2 DEF TimeInv, StartingTime
    <3>2. This.init \in Seq(Event) /\ ticks \in Nat /\ Waits \in Nat /\ InitTime \in Nat
      BY <1>2, TrackFacts, TimeFacts DEF IInv, Timed
    <3>3. Waits * ticks \in Int
      BY <3>2
    <3>4. InitTime > Waits * ticks
      BY <3>1, <3>2, <3>3
    <3>5. InitTicks(This.init) + 1 > ticks
      BY <3>1, <3>2, <3>4, InitTicksFacts DEF Waits, InitTime
    <3>6. PlayTicks(This) > InitTicks(This.init) /\ PlayTicks(This) \in Nat /\ InitTicks(This.init) \in Nat
      BY <1>2, TimeFacts
    <3> QED BY <3>2, <3>5, <3>6
  <2>3. CASE ele.status = "RUNNING" /\ ele.estatus = "RUNNING"
    <3>1. /\ HasEvent /\ RunningEvent.type \in {"wait", "paint"} /\ ticks >= Begun
          /\ ele.wait = RunningEvent.value - (ticks - Begun) - 1 /\ ele.wait > 0
      BY <1>1, <1>2, <2>3 DEF TimeInv, EventTime
    <3>2. RunningEvent.value \in Nat
      BY <1>2, <3>1, TimeFacts DEF Event, SpeedTypes
    <3>3. /\ Begun \in Nat /\ ticks \in Nat /\ ele.wait \in Int
          /\ Begun + Extra(RunningEvent.value) <= PlayTicks(This) /\ PlayTicks(This) \in Nat
      <4>1. After = Begun + Extra(RunningEvent.value) /\ After <= PlayTicks(This)
        BY <1>2, <3>1, TimeFacts
      <4>2. /\ Begun \in Nat /\ ticks \in Nat /\ ele.wait \in Int /\ PlayTicks(This) \in Nat
        BY <1>2, TimeFacts DEF TimeInv
      <4> QED BY <4>1, <4>2
    <3> QED BY <3>1, <3>2, <3>3 DEF Extra
  <2>4. CASE ele.status = "RUNNING" /\ ele.estatus = "READY"
    BY <1>1, <1>2, <2>4 DEF TimeInv, BetweenTime
  <2>5. CASE ele.status = "FINISHED"
    BY <1>1, <1>2, <2>5 DEF TimeInv, EndTime
  <2> QED BY <1>4, <2>1, <2>2, <2>3, <2>4, <2>5
<1>6. ticks' = ticks + 1
  BY <1>1, <1>2, <1>3, <1>5, TimeFacts DEF Counted
<1>7. ticks \in Nat /\ Begun \in Nat
  BY <1>2, TimeFacts DEF TimeInv
<1>8. /\ ele'.status \in {"READY", "STARTING"} => ele'.evt = 1 /\ ele'.estatus = "READY"
      /\ ele'.evt <= Len(This.work)' + 1
      /\ pc' \in {"final", "repeat"} => ele'.status = "FINISHED"
  BY <1>1, <1>2 DEF TimeInv
<1>9. ReadyTime'
  BY <1>1, <1>2, <1>6 DEF TimeInv, ReadyTime
<1>10. StartingTime'
  <2> SUFFICES ASSUME ele.status = "STARTING" PROVE StartingTime'
    BY <1>1 DEF StartingTime
  <2>1. /\ Positions(This.init, WaitTypes) # {} /\ ele.wait = InitTime - Waits * ticks /\ ele.wait > 0
    BY <1>1, <1>2 DEF TimeInv, StartingTime
  <2>2. (ticks + 1) - 1 = ticks
    BY <1>7
  <2>3. ele.wait = InitTime - Waits * (ticks' - 1)
    BY <1>6, <2>1, <2>2
  <2> QED BY <1>1, <1>2, <1>6, <1>7, <2>1, <2>3 DEF StartingTime
<1>11. BetweenTime'
  BY <1>1, <1>2 DEF TimeInv, BetweenTime
<1>12. EventTime'
  <2> SUFFICES ASSUME ele.status = "RUNNING" /\ ele.estatus = "RUNNING" PROVE EventTime'
    BY <1>1 DEF EventTime
  <2>1. /\ HasEvent /\ RunningEvent.type \in {"wait", "paint"} /\ ticks >= Begun
        /\ ele.wait = RunningEvent.value - (ticks - Begun) - 1 /\ ele.wait > 0
    BY <1>1, <1>2 DEF TimeInv, EventTime
  <2>2. RunningEvent.value \in Nat
    BY <1>2, <2>1, TimeFacts DEF Event, SpeedTypes
  <2>3. ele.wait = RunningEvent.value - (ticks' - Begun) /\ ticks' >= Begun
    BY <1>6, <1>7, <2>1, <2>2
  <2> QED BY <1>1, <1>2, <2>1, <2>3 DEF EventTime
<1>13. EndTime'
  BY <1>1, <1>2 DEF TimeInv, EndTime
<1> QED BY <1>8, <1>9, <1>10, <1>11, <1>12, <1>13 DEF TimeInv

(* A step that only goes on.                                               *)
LEMMA PassingTime ==
  ASSUME IInv, TimeInv, UNCHANGED <<track, cur, ticks>>, Untouched,
         tstatus = "FINISHED" => tstatus' = "FINISHED",
         \/ pc' = pc
         \/ pc = "element" /\ pc' = "starting" /\ ele.status # "READY"
         \/ pc = "starting" /\ pc' = "work" /\ ele.status # "STARTING"
         \/ pc = "work" /\ pc' = "event"
         \/ pc = "work" /\ pc' = "show" /\ ~ HasEvent
         \/ pc = "final" /\ pc' = "repeat"
         \/ pc = "show" /\ pc' = "idle"
  PROVE  TimeInv'
<1> SUFFICES ASSUME Timed' PROVE TimeInv'
  BY DEF TimeInv
<1> USE DEF Untouched
<1>1. /\ Timed
      /\ This' = This /\ Waits' = Waits /\ InitTime' = InitTime /\ PlayTicks(This)' = PlayTicks(This)
      /\ Len(This.work)' = Len(This.work)
      /\ (HasEvent' <=> HasEvent) /\ RunningEvent' = RunningEvent /\ Begun' = Begun
  BY SameElement
<1>2. ele.status \in {"READY", "STARTING", "RUNNING", "FINISHED"} /\ ele.estatus \in {"READY", "RUNNING"}
  BY DEF IInv, TypeOK, ElementData
<1>3. pc \in {"starting", "work", "event", "final", "repeat", "show"} => ele.status # "READY"
  BY DEF IInv, PlaceInv
<1>4. /\ ele'.status \in {"READY", "STARTING"} => ele'.evt = 1 /\ ele'.estatus = "READY"
      /\ ele'.evt <= Len(This.work)' + 1
      /\ pc' \in {"final", "repeat"} => ele'.status = "FINISHED"
  BY <1>1 DEF TimeInv
<1>5. ReadyTime'
  BY <1>1, <1>3 DEF TimeInv, ReadyTime
<1>6. StartingTime'
  BY <1>1, <1>2 DEF TimeInv, StartingTime
<1>7. BetweenTime'
  BY <1>1, <1>2 DEF TimeInv, BetweenTime
<1>8. EventTime'
  BY <1>1, <1>2 DEF TimeInv, EventTime
<1>9. EndTime'
  BY <1>1, <1>2 DEF TimeInv, EndTime
<1> QED BY <1>4, <1>5, <1>6, <1>7, <1>8, <1>9 DEF TimeInv

(* The element begins: with its waits, or with its first event.            *)
LEMMA InitElementTime == ASSUME IInv, TimeInv, InitElement PROVE TimeInv'
<1> SUFFICES ASSUME Timed' PROVE TimeInv'
  BY DEF TimeInv
<1> DEFINE waits == Positions(This.init, WaitTypes)
           clears == Positions(This.init, {"clear"})
           flags == ele.flags \cup (IF waits = {} THEN {} ELSE {"WAIT"})
                              \cup (IF clears = {} THEN {} ELSE {"CLEAR"})
           wait == LastValue(This.init, WaitTypes, ele.wait)
           speed == LastValue(This.init, {"speed"}, ele.speed)
           accel == LastValue(This.init, {"speedup"}, ele.accel)
           object == LastValue(This.init, {"object"}, ele.object)
<1>1. /\ UNCHANGED <<track, cur, tstatus, ticks>> /\ pc = "element" /\ pc' = "starting"
      /\ ele.status = "READY"
  BY DEF InitElement
<1>2. ele' = [ele EXCEPT !.status = IF waits = {} THEN "RUNNING" ELSE "STARTING",
                         !.estatus = "READY", !.flags = flags,
                         !.wait = wait, !.speed = speed, !.accel = accel, !.object = object]
  BY DEF InitElement
<1>3. waits # {} => wait = InitTime
  BY <1>1, SameElement, TrackFacts, InitTicksFacts DEF InitTime, IInv, Timed
<1>4. waits = {} => InitTicks(This.init) = 0
  BY <1>1, SameElement, TrackFacts, InitTicksFacts DEF IInv, Timed
<1> HIDE DEF flags, wait, speed, accel, object
<1>5. /\ ele'.status = IF waits = {} THEN "RUNNING" ELSE "STARTING"
      /\ ele'.estatus = "READY" /\ ele'.evt = ele.evt /\ ele'.wait = wait
  BY <1>2 DEF IInv, TypeOK, ElementData
<1>6. /\ Timed
      /\ This' = This /\ Waits' = Waits /\ InitTime' = InitTime /\ PlayTicks(This)' = PlayTicks(This)
      /\ Len(This.work)' = Len(This.work)
      /\ (HasEvent' <=> HasEvent) /\ RunningEvent' = RunningEvent /\ Begun' = Begun
  BY <1>1, <1>5, SameElement
<1>7. ele.evt = 1 /\ ticks = 1
  BY <1>1, <1>6 DEF TimeInv, ReadyTime
<1>8. HasEvent /\ Waits \in Nat /\ InitTime \in Nat
  BY <1>6, <1>7, TimeFacts DEF HasEvent
<1>9. waits = {} => Begun = 1
  BY <1>4, <1>6, <1>7, TimeFacts DEF Begun
<1>10. /\ ele'.status \in {"READY", "STARTING"} => ele'.evt = 1 /\ ele'.estatus = "READY"
       /\ ele'.evt <= Len(This.work)' + 1
       /\ pc' \in {"final", "repeat"} => ele'.status = "FINISHED"
  BY <1>1, <1>5, <1>6, <1>7 DEF TimeInv
<1>11. ReadyTime' /\ EventTime' /\ EndTime'
  BY <1>5 DEF ReadyTime, EventTime, EndTime
<1>12. StartingTime'
  <2>1. Waits * (1 - 1) = 0 /\ InitTime - 0 = InitTime
    BY <1>8
  <2>2. waits # {} => ele'.wait = InitTime - Waits * (ticks - 1)
    BY <1>3, <1>5, <1>7, <2>1
  <2> QED BY <1>1, <1>5, <1>6, <1>7, <2>2 DEF StartingTime
<1>13. BetweenTime'
  BY <1>1, <1>5, <1>6, <1>7, <1>8, <1>9 DEF BetweenTime
<1> QED BY <1>10, <1>11, <1>12, <1>13 DEF TimeInv

(* The waits of the init list: the ticks that they need.                   *)
LEMMA StartingTicks == ASSUME IInv, TimeInv, Starting PROVE TimeInv'
<1> SUFFICES ASSUME Timed' PROVE TimeInv'
  BY DEF TimeInv
<1> DEFINE left == ele.wait - Waits
<1>1. /\ UNCHANGED <<track, cur, tstatus, ticks>> /\ pc = "starting" /\ ele.status = "STARTING"
      /\ pc' = IF left <= 0 THEN "work" ELSE "idle"
  BY DEF Starting, Waits
<1>2. ele' = [ele EXCEPT !.wait = left, !.status = IF left <= 0 THEN "RUNNING" ELSE @,
                         !.flags = IF left <= 0 THEN @ \ {"WAIT"} ELSE @]
  BY DEF Starting, Waits
<1> HIDE DEF left
<1>3. /\ ele'.wait = left /\ ele'.status = IF left <= 0 THEN "RUNNING" ELSE "STARTING"
      /\ ele'.estatus = ele.estatus /\ ele'.evt = ele.evt
  BY <1>1, <1>2 DEF IInv, TypeOK, ElementData
<1>4. /\ Timed
      /\ This' = This /\ Waits' = Waits /\ InitTime' = InitTime /\ PlayTicks(This)' = PlayTicks(This)
      /\ Len(This.work)' = Len(This.work)
      /\ (HasEvent' <=> HasEvent) /\ RunningEvent' = RunningEvent /\ Begun' = Begun
  BY <1>1, <1>3, SameElement
<1>5. /\ Waits \in Nat /\ InitTime \in Nat /\ ele.wait \in Int /\ InitTicks(This.init) \in Nat
      /\ WorkTicks(This.work)[0] = 0 /\ Len(This.work) \in Nat \ {0}
  BY <1>4, TimeFacts
<1>6. /\ Positions(This.init, WaitTypes) # {} /\ ticks \in Nat \ {0}
      /\ ele.wait = InitTime - Waits * (ticks - 1)
      /\ ticks = 1 \/ ele.wait > 0
      /\ ele.evt = 1 /\ ele.estatus = "READY"
  BY <1>1, <1>4, TimeFacts DEF TimeInv, StartingTime
<1>7. left = InitTime - Waits * ticks
  <2> DEFINE x == Waits * (ticks - 1)
             y == Waits * ticks
  <2>1. x \in Int /\ y \in Int /\ y = x + Waits
    BY <1>5, <1>6
  <2>2. left = ele.wait - Waits /\ ele.wait = InitTime - x
    BY <1>6 DEF left
  <2> HIDE DEF x, y
  <2>3. left = InitTime - y
    BY <1>5, <2>1, <2>2
  <2> QED BY <2>3 DEF y
<1>8. left <= 0 => ticks = Begun
  <2> SUFFICES ASSUME left <= 0 PROVE ticks = Begun
    OBVIOUS
  <2>1. /\ Waits * ticks \in Int /\ Waits * (ticks - 1) \in Int
    BY <1>5, <1>6
  <2>2. InitTime <= Waits * ticks
    BY <1>5, <1>7, <2>1
  <2>3. ticks = 1 \/ InitTime > Waits * (ticks - 1)
    BY <1>5, <1>6, <2>1
  <2>4. This.init \in Seq(Event)
    BY <1>4, TrackFacts DEF IInv, Timed
  <2>5. InitTicks(This.init) + 1 = ticks
    BY <1>6, <2>2, <2>3, <2>4, InitTicksFacts DEF Waits, InitTime
  <2> QED BY <1>5, <1>6, <2>5 DEF Begun
<1>9. HasEvent
  BY <1>5, <1>6 DEF HasEvent
<1>10. /\ ele'.status \in {"READY", "STARTING"} => ele'.evt = 1 /\ ele'.estatus = "READY"
       /\ ele'.evt <= Len(This.work)' + 1
       /\ pc' \in {"final", "repeat"} => ele'.status = "FINISHED"
  BY <1>1, <1>3, <1>4, <1>6 DEF TimeInv
<1>11. ReadyTime' /\ EventTime' /\ EndTime'
  BY <1>3, <1>6 DEF ReadyTime, EventTime, EndTime
<1>12. left \in Int
  BY <1>5 DEF left
<1>13. StartingTime'
  BY <1>1, <1>3, <1>4, <1>6, <1>7, <1>12 DEF StartingTime
<1>14. BetweenTime'
  BY <1>1, <1>3, <1>4, <1>6, <1>8, <1>9 DEF BetweenTime
<1> QED BY <1>10, <1>11, <1>13, <1>14 DEF TimeInv

(* At an event: what is running, and what it has had.                      *)
LEMMA AtEvent ==
  ASSUME IInv, TimeInv, Timed, pc = "event"
  PROVE  /\ ele.status = "RUNNING"
         /\ ele.evt \in Nat \ {0} /\ ticks \in Nat /\ Begun \in Nat /\ ele.wait \in Int
         /\ ele.evt <= Len(This.work) + 1 /\ Len(This.work) \in Nat
         /\ ele.estatus = "READY" => ticks = Begun
         /\ ele.estatus = "RUNNING" =>
              /\ HasEvent /\ ticks >= Begun
              /\ ele.wait = RunningEvent.value - (ticks - Begun)
              /\ ticks = Begun \/ ele.wait > 0
         /\ HasEvent =>
              /\ RunningEvent.type \notin {"distance", "bmp_read"}
              /\ RunningEvent.type \in {"wait", "paint"} => RunningEvent.value \in Nat
              /\ After = Begun + IF RunningEvent.type \in {"wait", "paint"}
                                   THEN Extra(RunningEvent.value) ELSE 0
<1>1. ele.status \in {"READY", "STARTING", "RUNNING", "FINISHED"} /\ ele.estatus \in {"READY", "RUNNING"}
  BY DEF IInv, TypeOK, ElementData
<1>2. ele.status = "RUNNING"
  BY <1>1 DEF IInv, PlaceInv, TimeInv, EndTime
<1>3. HasEvent => /\ RunningEvent.type \notin {"distance", "bmp_read"}
                  /\ RunningEvent.type \in {"wait", "paint"} => RunningEvent.value \in Nat
                  /\ After = Begun + IF RunningEvent.type \in {"wait", "paint"}
                                       THEN Extra(RunningEvent.value) ELSE 0
  BY TimeFacts DEF Event, SpeedTypes
<1>4. ele.evt <= Len(This.work) + 1
  BY DEF TimeInv
<1>5. ele.evt \in Nat \ {0} /\ ticks \in Nat /\ Begun \in Nat /\ ele.wait \in Int /\ Len(This.work) \in Nat
  BY <1>4, TimeFacts
<1>6. ele.estatus = "READY" => ticks = Begun
  BY <1>2 DEF TimeInv, BetweenTime
<1>7. ele.estatus = "RUNNING" => /\ HasEvent /\ ticks >= Begun
                                 /\ ele.wait = RunningEvent.value - (ticks - Begun)
                                 /\ ticks = Begun \/ ele.wait > 0
  BY <1>2 DEF TimeInv, EventTime
<1> QED BY <1>2, <1>3, <1>4, <1>5, <1>6, <1>7

(* The next event follows in the tick in which its predecessor has had all *)
(* of its ticks.                                                           *)
LEMMA NextEventTime ==
  ASSUME IInv, TimeInv, Timed', UNCHANGED <<track, cur, tstatus, ticks, pc>>, pc = "event",
         HasEvent, ele'.status = ele.status, ele'.estatus = "READY", ele'.evt = ele.evt + 1,
         ticks = After
  PROVE  TimeInv'
<1>1. Timed /\ This' = This /\ Len(This.work)' = Len(This.work)
      /\ WorkTicks(This.work)' = WorkTicks(This.work) /\ InitTicks(This.init)' = InitTicks(This.init)
  BY SameElement
<1>2. ele.status = "RUNNING" /\ ele.evt \in Nat \ {0} /\ Len(This.work) \in Nat
  BY <1>1, AtEvent
<1>3. Begun' = After
  <2>1. (ele.evt + 1) - 1 = ele.evt
    BY <1>2
  <2>2. Begun' = 1 + InitTicks(This.init)' + WorkTicks(This.work)'[ele'.evt - 1]
    BY DEF Begun
  <2> QED BY <1>1, <2>1, <2>2 DEF After
<1>4. ele'.evt <= Len(This.work)' + 1
  BY <1>1, <1>2 DEF HasEvent
<1>5. BetweenTime'
  BY <1>3 DEF BetweenTime
<1>6. ReadyTime' /\ StartingTime' /\ EventTime' /\ EndTime'
  BY <1>2 DEF ReadyTime, StartingTime, EventTime, EndTime
<1> QED BY <1>2, <1>4, <1>5, <1>6 DEF TimeInv

LEMMA EventTicksKept ==
  ASSUME IInv, TimeInv, StartEvent \/ DoEvent \/ RunTimed \/ RunDistance \/ RunBmpRead \/ AllDone
  PROVE  TimeInv'
<1> SUFFICES ASSUME Timed' PROVE TimeInv'
  BY DEF TimeInv
<1>1. UNCHANGED <<track, cur, tstatus, ticks>> /\ pc = "event"
  BY DEF StartEvent, DoEvent, RunTimed, RunDistance, RunBmpRead, AllDone
<1>2. /\ Timed
      /\ This' = This /\ Waits' = Waits /\ InitTime' = InitTime /\ PlayTicks(This)' = PlayTicks(This)
      /\ Len(This.work)' = Len(This.work)
      /\ ele'.evt = ele.evt => (HasEvent' <=> HasEvent) /\ RunningEvent' = RunningEvent /\ Begun' = Begun
  BY <1>1, SameElement
<1>3. ele \in ElementData /\ This.work[ele.evt] = RunningEvent
  BY DEF IInv, TypeOK, RunningEvent
<1>4. CASE StartEvent
  <2>1. /\ ele.estatus = "READY" /\ HasEvent /\ pc' = pc /\ RunningEvent.type \in TimeTypes
    BY <1>4, <1>3 DEF StartEvent
  <2>2. RunningEvent.type \in {"wait", "paint"}
    BY <1>1, <1>2, <2>1, AtEvent DEF TimeTypes
  <2> DEFINE f == IF RunningEvent.type = "wait" THEN ele.flags \cup {"WAIT"} ELSE ele.flags
  <2>3. ele' = [ele EXCEPT !.estatus = "RUNNING", !.wait = RunningEvent.value, !.flags = f]
    BY <1>3, <1>4, <2>2 DEF StartEvent
  <2> HIDE DEF f
  <2>4. ele'.status = ele.status /\ ele'.estatus = "RUNNING" /\ ele'.evt = ele.evt
        /\ ele'.wait = RunningEvent.value
    BY <1>3, <2>3 DEF ElementData
  <2>5. ele.status = "RUNNING" /\ ticks = Begun /\ ticks \in Nat /\ RunningEvent.value \in Nat
        /\ ele.evt <= Len(This.work) + 1
    BY <1>1, <1>2, <2>1, <2>2, AtEvent
  <2>6. RunningEvent.value = RunningEvent.value - (ticks - Begun)
    BY <2>5
  <2>7. EventTime'
    BY <1>1, <1>2, <2>1, <2>2, <2>4, <2>5, <2>6 DEF EventTime
  <2>8. ReadyTime' /\ StartingTime' /\ BetweenTime' /\ EndTime'
    BY <2>4, <2>5 DEF ReadyTime, StartingTime, BetweenTime, EndTime
  <2> QED BY <1>1, <1>2, <2>1, <2>4, <2>5, <2>7, <2>8 DEF TimeInv
<1>5. CASE DoEvent
  <2>1. /\ ele.estatus = "READY" /\ HasEvent /\ pc' = pc /\ RunningEvent.type \notin TimeTypes
    BY <1>5, <1>3 DEF DoEvent
  <2>2. ticks = After
    BY <1>1, <1>2, <2>1, AtEvent DEF TimeTypes
  <2>3. ele'.status = ele.status /\ ele'.estatus = "READY" /\ ele'.evt = ele.evt + 1
    BY <1>3, <1>5 DEF DoEvent, NextEvent, ElementData
  <2> QED BY <1>1, <2>1, <2>2, <2>3, NextEventTime
<1>6. CASE RunTimed
  <2>1. /\ ele.estatus = "RUNNING" /\ HasEvent /\ RunningEvent.type \in {"wait", "paint"}
    BY <1>6, <1>3 DEF RunTimed
  <2>2. /\ ele.status = "RUNNING" /\ ticks \in Nat /\ Begun \in Nat /\ RunningEvent.value \in Nat
        /\ ele.wait \in Int /\ ticks >= Begun
        /\ ele.wait = RunningEvent.value - (ticks - Begun)
        /\ ticks = Begun \/ ele.wait > 0
        /\ After = Begun + Extra(RunningEvent.value)
        /\ ele.evt <= Len(This.work) + 1
    BY <1>1, <1>2, <2>1, AtEvent
  <2>3. CASE ele.wait - 1 <= 0
    <3>1. ele'.status = ele.status /\ ele'.estatus = "READY" /\ ele'.evt = ele.evt + 1 /\ pc' = pc
      BY <1>3, <1>6, <2>3 DEF RunTimed, NextEvent, ElementData
    <3>2. ticks = After
      BY <2>2, <2>3 DEF Extra
    <3> QED BY <1>1, <2>1, <3>1, <3>2, NextEventTime
  <2>4. CASE ~(ele.wait - 1 <= 0)
    <3>1. ele' = [ele EXCEPT !.wait = ele.wait - 1] /\ pc' = "show"
      BY <1>6, <2>4 DEF RunTimed
    <3>2. ele'.status = ele.status /\ ele'.estatus = "RUNNING" /\ ele'.evt = ele.evt
          /\ ele'.wait = ele.wait - 1
      BY <1>3, <2>1, <3>1 DEF ElementData
    <3>3. ele.wait - 1 = RunningEvent.value - (ticks - Begun) - 1 /\ ele.wait - 1 > 0
      BY <2>2, <2>4
    <3>4. EventTime'
      BY <1>1, <1>2, <2>1, <2>2, <3>1, <3>2, <3>3 DEF EventTime
    <3>5. ReadyTime' /\ StartingTime' /\ BetweenTime' /\ EndTime'
      BY <2>2, <3>2 DEF ReadyTime, StartingTime, BetweenTime, EndTime
    <3> QED BY <1>1, <1>2, <2>2, <3>1, <3>2, <3>4, <3>5 DEF TimeInv
  <2> QED BY <2>3, <2>4
<1>7. CASE RunDistance \/ RunBmpRead
  <2>1. HasEvent /\ RunningEvent.type \in {"distance", "bmp_read"}
    BY <1>3, <1>7 DEF RunDistance, RunBmpRead
  <2> QED BY <1>1, <1>2, <2>1, AtEvent
<1>8. CASE AllDone
  <2>1. ele'.status = "FINISHED" /\ ele'.evt = ele.evt /\ pc' = "final" /\ ~ HasEvent
    BY <1>3, <1>8 DEF AllDone, ElementData
  <2>2. ele.estatus = "READY"
    BY <1>1, <1>2, <1>3, <2>1, AtEvent DEF ElementData
  <2>3. ele.evt = Len(This.work) + 1 /\ ticks = Begun
    BY <1>1, <1>2, <2>1, <2>2, AtEvent DEF HasEvent
  <2>4. Begun = PlayTicks(This)
    BY <1>2, <2>3, TimeFacts
  <2>5. EndTime'
    BY <1>1, <1>2, <2>1, <2>3, <2>4 DEF EndTime
  <2>6. ReadyTime' /\ StartingTime' /\ BetweenTime' /\ EventTime'
    BY <2>1 DEF ReadyTime, StartingTime, BetweenTime, EventTime
  <2>7. ele'.evt <= Len(This.work)' + 1
    BY <1>2, <2>1, <2>3, TimeFacts
  <2> QED BY <2>1, <2>5, <2>6, <2>7 DEF TimeInv
<1> QED BY <1>4, <1>5, <1>6, <1>7, <1>8

LEMMA NextWork == ASSUME TypeOK', IsElement(cur)' PROVE Len(This.work)' \in Nat
<1>1. track' \in Seq(Element) /\ cur' \in Nat \ {0}
  BY ProgramsAssumption DEF TypeOK
<1>2. cur' \in 1..Len(track')
  BY <1>1 DEF IsElement
<1>3. track'[cur'] \in Element
  BY <1>1, <1>2
<1> QED BY <1>3 DEF This, Element

(* A play begins: once more, the next element, or the whole track again.   *)
LEMMA PlayBegins ==
  ASSUME TypeOK', pc' \in {"idle", "element"}, ticks' = IF pc' = "idle" THEN 0 ELSE 1,
         NEW reps \in Int, ele' = Fresh(reps)
  PROVE  TimeInv'
<1> SUFFICES ASSUME Timed' PROVE TimeInv'
  BY DEF TimeInv
<1>1. ele'.status = "READY" /\ ele'.estatus = "READY" /\ ele'.evt = 1
  BY DEF Fresh
<1>2. ReadyTime' /\ StartingTime' /\ BetweenTime' /\ EventTime' /\ EndTime'
  BY <1>1 DEF ReadyTime, StartingTime, BetweenTime, EventTime, EndTime
<1>3. ele'.evt <= Len(This.work)' + 1
  <2>1. Len(This.work)' \in Nat
    BY NextWork DEF Timed
  <2> QED BY <1>1, <2>1
<1> QED BY <1>1, <1>2, <1>3 DEF TimeInv

LEMMA TimeBegins == Init => TimeInv /\ WorkInv
<1> SUFFICES ASSUME Init PROVE TimeInv /\ WorkInv
  OBVIOUS
<1>1. IInv
  BY InitEstablishes
<1>2. ele.status = "READY" /\ ele.estatus = "READY" /\ ele.evt = 1 /\ pc = "idle" /\ ticks = 0
  BY DEF Init, Fresh
<1>3. ReadyTime /\ StartingTime /\ BetweenTime /\ EventTime /\ EndTime
  BY <1>2 DEF ReadyTime, StartingTime, BetweenTime, EventTime, EndTime
<1>4. Timed => Len(This.work) \in Nat
  BY <1>1, TimeFacts
<1> QED BY <1>2, <1>3, <1>4 DEF TimeInv, WorkInv

LEMMA TimeKept == IInv /\ TimeInv /\ [Next]_vars => TimeInv'
<1> SUFFICES ASSUME IInv, TimeInv, [Next]_vars PROVE TimeInv'
  OBVIOUS
<1>1. IInv'
  BY StepKeeps
<1>2. CASE Tick
  BY <1>2, TickTime
<1>3. CASE InitElement
  BY <1>3, InitElementTime
<1>4. CASE Starting
  BY <1>4, StartingTicks
<1>5. CASE StartEvent \/ DoEvent \/ RunTimed \/ RunDistance \/ RunBmpRead \/ AllDone
  BY <1>5, EventTicksKept
<1>6. CASE DoRepeat \/ LeaveElement \/ Restart
  <2> DEFINE reps == IF DoRepeat THEN IF Repeats(cur) = 0 THEN ele.reps ELSE ele.reps - 1
                     ELSE IF LeaveElement THEN Repeats(cur + 1) ELSE Repeats(1)
  <2>1. reps \in Int
    BY TrackFacts DEF IInv, TypeOK, ElementData
  <2>2. ele' = Fresh(reps)
    BY <1>6 DEF DoRepeat, LeaveElement, Restart
  <2>3. pc' \in {"idle", "element"} /\ ticks' = IF pc' = "idle" THEN 0 ELSE 1
    BY <1>6 DEF DoRepeat, LeaveElement, Restart
  <2>4. TypeOK'
    BY <1>1 DEF IInv
  <2> HIDE DEF reps
  <2> QED BY <2>1, <2>2, <2>3, <2>4, PlayBegins
<1>7. CASE TrackDone \/ Stop
  BY <1>7 DEF TrackDone, Stop, TimeInv, Timed
<1>8. CASE \/ ElementGoesOn \/ Started \/ NothingToWork \/ Working \/ Final \/ Show \/ Continue
           \/ (\E e \in DOMAIN track : StreamEnds(e)) \/ UNCHANGED vars
  <2>2. Untouched
    BY <1>8, GoingOn DEF IInv
  <2>1. /\ UNCHANGED <<track, cur, ticks, tstatus>>
        /\ \/ pc' = pc
           \/ pc = "element" /\ pc' = "starting" /\ ele.status # "READY"
           \/ pc = "starting" /\ pc' = "work" /\ ele.status # "STARTING"
           \/ pc = "work" /\ pc' = "event"
           \/ pc = "work" /\ pc' = "show" /\ ~ HasEvent
           \/ pc = "final" /\ pc' = "repeat"
           \/ pc = "show" /\ pc' = "idle"
    BY <1>8 DEF ElementGoesOn, Started, NothingToWork, Working, Final, Show, Continue, StreamEnds, vars
  <2> QED BY <2>1, <2>2, PassingTime
<1> QED BY <1>2, <1>3, <1>4, <1>5, <1>6, <1>7, <1>8 DEF Next, InTick, Between

LEMMA WorkKept == IInv /\ WorkInv /\ [Next]_vars => WorkInv'
<1> SUFFICES ASSUME IInv, WorkInv, [Next]_vars, pc' \in {"event", "final", "repeat"}
             PROVE  This'.work # <<>>
  BY DEF WorkInv
<1>1. UNCHANGED <<track, cur>> /\ (pc \in {"event", "final", "repeat"} \/ Working)
  BY DEF Next, InTick, Between, Tick, TrackDone, InitElement, ElementGoesOn, Starting, Started,
      NothingToWork, Working, StartEvent, DoEvent, RunTimed, RunDistance, RunBmpRead, AllDone,
      Final, DoRepeat, LeaveElement, Show, Stop, Restart, Continue, StreamEnds, vars
<1>2. Working => This.work # <<>>
  <2> SUFFICES ASSUME Working PROVE This.work # <<>>
    OBVIOUS
  <2>1. HasEvent /\ ele.evt \in Nat \ {0}
    BY DEF Working, IInv, TypeOK, ElementData
  <2> QED BY <2>1 DEF HasEvent
<1> QED BY <1>1, <1>2 DEF WorkInv, This

LEMMA TimeTaken == IInv /\ TimeInv /\ WorkInv /\ TimedPlay => ticks = PlayTicks(This)
BY DEF IInv, PlaceInv, TimeInv, WorkInv, Timed, EndTime, TimedPlay

LEMMA TimeHolds == Spec => [](TimeInv /\ WorkInv)
BY TimeBegins, TimeKept, WorkKept, InvariantHolds, PTL DEF Spec

(* An element plays exactly as long as its events say, for every track,    *)
(* every number of waits and every time (process_events.c 155, 320).       *)
THEOREM PlaysTheTime == Spec => []PlaysItsTime
<1>1. IInv /\ TimeInv /\ WorkInv => PlaysItsTime
  BY TimeTaken DEF PlaysItsTime
<1> QED BY <1>1, TimeHolds, InvariantHolds, PTL

(* The wait_first of an init list delays every repeat of its element, not  *)
(* the first one alone (process_events.c 86, 155).                         *)
THEOREM FirstWaitDelaysRepeats == Spec => []FirstWaitRepeated
<1>1. IInv /\ TimeInv /\ WorkInv => FirstWaitRepeated
  BY TimeTaken DEF FirstWaitRepeated
<1> QED BY <1>1, TimeHolds, InvariantHolds, PTL

-----------------------------------------------------------------------------
(* Why a tick returns: a play that a slow event has prolonged did not begin*)
(* in this tick, and what is left of the repeats is a positive number.     *)
Slow(i) == This.work[i].type \in {"wait", "paint"} /\ This.work[i].value > 1

PlayInv ==
  tstatus # "FINISHED" /\ IsElement(cur) =>
    /\ pc # "idle" \/ ele.estatus = "RUNNING" => ticks >= 1
    /\ ele.evt <= Len(This.work) + 1
    /\ ele.status \in {"READY", "STARTING"} => ele.evt = 1 /\ ele.estatus = "READY"
    /\ pc \in {"final", "repeat"} => ele.evt = Len(This.work) + 1
    /\ (\E i \in 1..ele.evt - 1 : Slow(i)) => ticks > 1
    /\ HasEvent /\ ele.estatus = "RUNNING" /\ Slow(ele.evt) =>
         pc \in {"idle", "show"} \/ ticks > 1 \/ ele.wait = RunningEvent.value

LeftInv ==
  /\ cur <= Len(track) + 1
  /\ Repeats(cur) # 0 => ele.reps >= 1

LEMMA PlayFacts ==
  ASSUME TypeOK
  PROVE  /\ ele.evt \in Nat \ {0} /\ ticks \in Nat /\ ele.wait \in Int
         /\ CountLimit \in Nat \ {0, 1} /\ cur \in Nat \ {0} /\ Len(track) \in Nat
         /\ IsElement(cur) => Len(This.work) \in Nat
<1>1. IsElement(cur) => This.work \in Seq(Event)
  BY TrackFacts
<1>2. IsElement(cur) => Len(This.work) \in Nat
  BY <1>1
<1>3. Len(track) \in Nat
  BY TrackFacts
<1> QED BY <1>2, <1>3, ProgramsAssumption DEF TypeOK, ElementData

LEMMA LeftBegins == Init => PlayInv /\ LeftInv
<1> SUFFICES ASSUME Init PROVE PlayInv /\ LeftInv
  OBVIOUS
<1>1. TypeOK
  BY InitEstablishes DEF IInv
<1>2. ele = Fresh(Repeats(1)) /\ cur = 1 /\ pc = "idle" /\ ticks = 0
  BY DEF Init
<1>3. ele.evt = 1 /\ ele.estatus = "READY" /\ ele.reps = Repeats(1)
  BY <1>2 DEF Fresh
<1>4. Repeats(1) \in Nat
  BY <1>1, TrackFacts
<1>5. PlayInv
  BY <1>1, <1>2, <1>3, PlayFacts DEF PlayInv
<1>6. LeftInv
  BY <1>1, <1>2, <1>3, <1>4, PlayFacts DEF LeftInv
<1> QED BY <1>5, <1>6

LEMMA LeftKept == IInv /\ LeftInv /\ [Next]_vars => LeftInv'
<1> SUFFICES ASSUME IInv, LeftInv, [Next]_vars PROVE LeftInv'
  OBVIOUS
<1>1. /\ Len(track) \in Nat /\ cur \in Nat \ {0} /\ ele \in ElementData
      /\ \A c \in Nat \ {0} : Repeats(c) \in Nat
  BY TrackFacts DEF IInv, TypeOK
<1>2. track' = track
  BY DEF Next, InTick, Between, Tick, TrackDone, InitElement, ElementGoesOn, Starting, Started,
      NothingToWork, Working, StartEvent, DoEvent, RunTimed, RunDistance, RunBmpRead, AllDone,
      Final, DoRepeat, LeaveElement, Show, Stop, Restart, Continue, StreamEnds, vars
<1>4. CASE DoRepeat
  <2>1. cur' = cur /\ Repeats(cur)' = Repeats(cur)
    BY <1>2, <1>4 DEF DoRepeat, Repeats, IsElement
  <2>2. Repeats(cur) # 0 => ele'.reps = ele.reps - 1 /\ ele.reps - 1 > 0
    BY <1>4 DEF DoRepeat, Fresh
  <2>3. ele.reps \in Int
    BY <1>1 DEF ElementData
  <2>4. Repeats(cur) # 0 => ele'.reps >= 1
    BY <2>2, <2>3
  <2> QED BY <1>2, <2>1, <2>4 DEF LeftInv
<1>5. CASE LeaveElement
  <2>1. cur' = cur + 1 /\ Repeats(cur)' = Repeats(cur + 1) /\ ele'.reps = Repeats(cur + 1)
    BY <1>2, <1>5 DEF LeaveElement, Repeats, IsElement, Fresh
  <2>2. Repeats(cur + 1) \in Nat
    BY <1>1
  <2>3. cur <= Len(track)
    BY <1>5 DEF LeaveElement, IInv, PlaceInv, IsElement
  <2>4. cur + 1 <= Len(track) + 1
    BY <1>1, <2>3
  <2> QED BY <1>2, <2>1, <2>2, <2>4 DEF LeftInv
<1>6. CASE Restart
  <2>1. cur' = 1 /\ Repeats(cur)' = Repeats(1) /\ ele'.reps = Repeats(1)
    BY <1>2, <1>6 DEF Restart, Repeats, IsElement, Fresh
  <2>2. Repeats(1) \in Nat
    BY <1>1
  <2>3. 1 <= Len(track) + 1
    BY <1>1
  <2> QED BY <1>2, <2>1, <2>2, <2>3 DEF LeftInv
<1>7. CASE InitElement \/ Starting \/ StartEvent \/ DoEvent
           \/ RunTimed \/ RunDistance \/ RunBmpRead \/ AllDone \/ Stop
  <2>1. cur' = cur
    BY <1>7 DEF InitElement, Starting, StartEvent, DoEvent, RunTimed, RunDistance, RunBmpRead,
        AllDone, Stop
  <2>3. ele'.reps = ele.reps
    BY <1>7, RepsUntouched
  <2>2. Repeats(cur)' = Repeats(cur)
    BY <1>2, <2>1 DEF Repeats, IsElement
  <2> QED BY <1>2, <2>1, <2>2, <2>3 DEF LeftInv
<1>8. CASE \/ Tick \/ TrackDone \/ ElementGoesOn \/ Started \/ NothingToWork \/ Working \/ Final
           \/ Show \/ Continue \/ (\E e \in DOMAIN track : StreamEnds(e)) \/ UNCHANGED vars
  <2>1. cur' = cur
    BY <1>8 DEF Tick, TrackDone, ElementGoesOn, Started, NothingToWork, Working, Final, Show,
        Continue, StreamEnds, vars
  <2>3. ele'.reps = ele.reps
    BY <1>8, GoingOn DEF IInv, Untouched
  <2>2. Repeats(cur)' = Repeats(cur)
    BY <1>2, <2>1 DEF Repeats, IsElement
  <2> QED BY <1>2, <2>1, <2>2, <2>3 DEF LeftInv
<1> QED BY <1>4, <1>5, <1>6, <1>7, <1>8 DEF Next, InTick, Between

(* What a step that keeps the element and the number of ticks must respect.*)
LEMMA PlayGoesOn ==
  ASSUME IInv, PlayInv, UNCHANGED <<track, cur, ticks>>,
         tstatus = "FINISHED" => tstatus' = "FINISHED",
         pc = "idle" => pc' = "idle",
         ele'.estatus = "RUNNING" => pc # "idle" \/ ele.estatus = "RUNNING",
         IsElement(cur) /\ tstatus # "FINISHED" /\ ele.evt <= Len(This.work) + 1 =>
           /\ ele'.evt \in Nat \ {0} /\ ele'.evt <= Len(This.work) + 1
           /\ ele'.status \in {"READY", "STARTING"} => ele'.evt = 1 /\ ele'.estatus = "READY"
           /\ pc' \in {"final", "repeat"} => ele'.evt = Len(This.work) + 1
           /\ (\E i \in 1..ele'.evt - 1 : Slow(i)) => ticks > 1
           /\ ele'.evt <= Len(This.work) /\ ele'.estatus = "RUNNING" /\ Slow(ele'.evt) =>
                pc' \in {"idle", "show"} \/ ticks > 1 \/ ele'.wait = This.work[ele'.evt].value
  PROVE  PlayInv'
<1> SUFFICES ASSUME tstatus' # "FINISHED", IsElement(cur)' PROVE PlayInv'
  BY DEF PlayInv
<1>1. This' = This /\ IsElement(cur) /\ tstatus # "FINISHED"
  BY DEF This, IsElement
<1>2. ele.evt <= Len(This.work) + 1 /\ (pc # "idle" \/ ele.estatus = "RUNNING" => ticks >= 1)
  BY <1>1 DEF PlayInv
<1>3. (pc' # "idle" \/ ele'.estatus = "RUNNING") => ticks' >= 1
  BY <1>2
<1>4. \A i : Slow(i)' <=> Slow(i)
  BY <1>1 DEF Slow
<1>5. Slow(ele.evt)' <=> Slow(ele'.evt)
  BY <1>1 DEF Slow
<1>6. HasEvent' <=> ele'.evt <= Len(This.work)
  BY <1>1 DEF HasEvent
<1>7. RunningEvent' = This.work[ele'.evt]
  BY <1>1 DEF RunningEvent
<1>8. (\E i \in 1..ele'.evt - 1 : Slow(i)') => ticks' > 1
  BY <1>1, <1>2, <1>4
<1>9. /\ ele'.evt <= Len(This.work)' + 1
      /\ ele'.status \in {"READY", "STARTING"} => ele'.evt = 1 /\ ele'.estatus = "READY"
      /\ pc' \in {"final", "repeat"} => ele'.evt = Len(This.work)' + 1
  BY <1>1, <1>2
<1>10. HasEvent' /\ ele'.estatus = "RUNNING" /\ Slow(ele.evt)' =>
         pc' \in {"idle", "show"} \/ ticks' > 1 \/ ele'.wait = RunningEvent'.value
  BY <1>1, <1>2, <1>5, <1>6, <1>7
<1> QED BY <1>3, <1>8, <1>9, <1>10 DEF PlayInv

LEMMA EventPlayKept ==
  ASSUME IInv, PlayInv,
         StartEvent \/ DoEvent \/ RunTimed \/ RunDistance \/ RunBmpRead \/ AllDone
  PROVE  PlayInv'
<1>1. UNCHANGED <<track, cur, tstatus, ticks>> /\ pc = "event"
  BY DEF StartEvent, DoEvent, RunTimed, RunDistance, RunBmpRead, AllDone
<1>2. ele.status \notin {"READY", "STARTING"} /\ IsElement(cur) /\ tstatus # "FINISHED"
  BY <1>1 DEF IInv, PlaceInv
<1>3. /\ ele \in ElementData /\ ele.evt \in Nat \ {0} /\ ticks \in Nat /\ ele.wait \in Int
      /\ Len(This.work) \in Nat
  BY <1>2, PlayFacts DEF IInv, TypeOK
<1>4. /\ ele.evt <= Len(This.work) + 1
      /\ (\E i \in 1..ele.evt - 1 : Slow(i)) => ticks > 1
      /\ HasEvent /\ ele.estatus = "RUNNING" /\ Slow(ele.evt) =>
           ticks > 1 \/ ele.wait = RunningEvent.value
  BY <1>1, <1>2 DEF PlayInv
<1>5. HasEvent <=> ele.evt <= Len(This.work)
  BY DEF HasEvent
<1>6. RunningEvent = This.work[ele.evt]
  BY DEF RunningEvent
<1>7. HasEvent => RunningEvent.value \in Int
  BY <1>2, TrackFacts DEF IInv, RunningEvent, Event
<1>8. ASSUME StartEvent
      PROVE  /\ ele'.evt = ele.evt /\ ele'.status = ele.status /\ pc' = pc
             /\ Slow(ele.evt) => ele'.wait = RunningEvent.value
  <2>1. \/ /\ This.work[ele.evt].type = "distance"
           /\ ele' = [ele EXCEPT !.estatus = "RUNNING", !.dist = This.work[ele.evt].value]
        \/ \E f : ele' = [ele EXCEPT !.estatus = "RUNNING", !.wait = This.work[ele.evt].value,
                                     !.flags = f]
    BY <1>8 DEF StartEvent
  <2> QED BY <1>3, <1>6, <1>8, <2>1 DEF StartEvent, ElementData, Slow
<1>9. CASE StartEvent
  <2>1. ele'.evt <= Len(This.work) /\ ele'.evt \in Nat \ {0}
    BY <1>3, <1>5, <1>8, <1>9 DEF StartEvent
  <2> QED BY <1>1, <1>2, <1>3, <1>4, <1>6, <1>8, <1>9, <2>1, PlayGoesOn
<1>10. ASSUME HasEvent, Slow(ele.evt) => ticks > 1, ele'.evt = ele.evt + 1,
              ele'.estatus = "READY", ele'.status = ele.status, pc' = pc
       PROVE  PlayInv'
  <2>1. ele'.evt \in Nat \ {0} /\ ele'.evt <= Len(This.work) + 1 /\ ele'.evt - 1 = ele.evt
    BY <1>3, <1>5, <1>10
  <2>2. (\E i \in 1..ele'.evt - 1 : Slow(i)) => ticks > 1
    <3> SUFFICES ASSUME NEW i \in 1..ele.evt, Slow(i) PROVE ticks > 1
      BY <2>1
    <3>1. i = ele.evt \/ i \in 1..ele.evt - 1
      BY <1>3
    <3> QED BY <1>4, <1>10, <3>1
  <2> QED BY <1>1, <1>2, <1>10, <2>1, <2>2, PlayGoesOn
<1>11. ASSUME HasEvent, ele'.evt = ele.evt, ele'.status = ele.status, pc' = "show"
       PROVE  PlayInv'
  BY <1>1, <1>2, <1>3, <1>4, <1>5, <1>11, PlayGoesOn
<1>12. CASE DoEvent
  <2>1. HasEvent /\ ~ Slow(ele.evt) /\ pc' = pc
    BY <1>12 DEF DoEvent, Slow, TimeTypes
  <2>2. ele'.status = ele.status /\ ele'.estatus = "READY" /\ ele'.evt = ele.evt + 1
    BY <1>3, <1>12 DEF DoEvent, NextEvent, ElementData
  <2> QED BY <1>10, <2>1, <2>2
<1>13. CASE RunTimed
  <2>1. HasEvent /\ ele.estatus = "RUNNING"
    BY <1>13 DEF RunTimed
  <2>2. CASE ele.wait - 1 <= 0
    <3>1. ele'.status = ele.status /\ ele'.estatus = "READY" /\ ele'.evt = ele.evt + 1 /\ pc' = pc
      BY <1>3, <1>13, <2>2 DEF RunTimed, NextEvent, ElementData
    <3>2. Slow(ele.evt) => ticks > 1
      <4> SUFFICES ASSUME Slow(ele.evt), ele.wait = RunningEvent.value PROVE FALSE
        BY <1>4, <2>1
      <4>1. RunningEvent.value > 1 /\ RunningEvent.value \in Int
        BY <1>6, <1>7, <2>1 DEF Slow
      <4> QED BY <2>2, <4>1
    <3> QED BY <1>10, <2>1, <3>1, <3>2
  <2>3. CASE ~(ele.wait - 1 <= 0)
    <3>1. ele'.status = ele.status /\ ele'.evt = ele.evt /\ pc' = "show"
      BY <1>3, <1>13, <2>3 DEF RunTimed, ElementData
    <3> QED BY <1>11, <2>1, <3>1
  <2> QED BY <2>2, <2>3
<1>14. CASE RunDistance \/ RunBmpRead
  <2>1. HasEvent /\ ~ Slow(ele.evt)
    BY <1>14 DEF RunDistance, RunBmpRead, Slow
  <2>2. \/ /\ ele'.status = ele.status /\ ele'.estatus = "READY" /\ ele'.evt = ele.evt + 1 /\ pc' = pc
        \/ /\ ele'.status = ele.status /\ ele'.evt = ele.evt /\ pc' = "show"
    <3>1. CASE RunDistance
      BY <1>3, <3>1 DEF RunDistance, NextEvent, ElementData
    <3>2. CASE RunBmpRead
      BY <1>3, <3>2 DEF RunBmpRead, NextEvent, ElementData
    <3> QED BY <1>14, <3>1, <3>2
  <2> QED BY <1>10, <1>11, <2>1, <2>2
<1>15. CASE AllDone
  <2>1. ~ HasEvent /\ ele'.status = "FINISHED" /\ ele'.evt = ele.evt /\ pc' = "final"
    BY <1>3, <1>15 DEF AllDone, ElementData
  <2>2. ele.evt = Len(This.work) + 1
    BY <1>3, <1>4, <1>5, <2>1
  <2> QED BY <1>1, <1>2, <1>3, <1>4, <2>1, <2>2, PlayGoesOn
<1> QED BY <1>9, <1>12, <1>13, <1>14, <1>15

LEMMA ElementPlayKept ==
  ASSUME IInv, PlayInv, Tick \/ InitElement \/ Starting PROVE PlayInv'
<1> SUFFICES ASSUME tstatus' # "FINISHED", IsElement(cur)' PROVE PlayInv'
  BY DEF PlayInv
<1>1. UNCHANGED <<track, cur>> /\ tstatus # "FINISHED"
  BY DEF Tick, InitElement, Starting
<1>2. IsElement(cur) /\ This' = This
  BY <1>1 DEF IsElement, This
<1>3. /\ ele \in ElementData /\ ele.evt \in Nat \ {0} /\ ticks \in Nat /\ ele.wait \in Int
      /\ Len(This.work) \in Nat /\ CountLimit \in Nat \ {0, 1}
  BY <1>2, PlayFacts DEF IInv, TypeOK
<1>4. CASE Tick
  <2>1. ele' = ele /\ pc = "idle" /\ pc' = "element" /\ ticks' = Counted(ticks)
    BY <1>4 DEF Tick
  <2>2. ticks' >= 1 /\ ticks' >= ticks /\ (ticks >= 1 => ticks' > 1) /\ ticks' \in Nat
    BY <1>3, <2>1 DEF Counted
  <2>3. (HasEvent' <=> HasEvent) /\ RunningEvent' = RunningEvent /\ \A i : Slow(i)' <=> Slow(i)
    BY <1>2, <2>1 DEF HasEvent, RunningEvent, Slow
  <2>4. Slow(ele.evt)' <=> Slow(ele.evt)
    BY <1>2, <2>1 DEF Slow
  <2>5. /\ ele.evt <= Len(This.work) + 1
        /\ ele.status \in {"READY", "STARTING"} => ele.evt = 1 /\ ele.estatus = "READY"
        /\ (\E i \in 1..ele.evt - 1 : Slow(i)) => ticks > 1
        /\ ele.estatus = "RUNNING" => ticks >= 1
    BY <1>1, <1>2 DEF PlayInv
  <2>6. (\E i \in 1..ele.evt - 1 : Slow(i)') => ticks' > 1
    BY <1>3, <2>2, <2>3, <2>5
  <2> QED BY <1>2, <2>1, <2>2, <2>3, <2>4, <2>5, <2>6 DEF PlayInv
<1>5. CASE InitElement
  <2>1. ele.status = "READY" /\ pc = "element" /\ pc' = "starting" /\ ticks' = ticks
        /\ tstatus' = tstatus
    BY <1>5 DEF InitElement
  <2>2. ele'.evt = ele.evt /\ ele'.estatus = "READY"
    BY <1>3, <1>5 DEF InitElement, ElementData
  <2>3. ele.evt = 1
    BY <1>1, <1>2, <2>1 DEF PlayInv
  <2> QED BY <1>1, <1>2, <1>3, <2>1, <2>2, <2>3, PlayGoesOn
<1>6. CASE Starting
  <2>1. ele.status = "STARTING" /\ pc = "starting" /\ pc' \in {"work", "idle"} /\ ticks' = ticks
        /\ tstatus' = tstatus
    BY <1>6 DEF Starting
  <2>2. ele'.evt = ele.evt /\ ele'.estatus = ele.estatus
    BY <1>3, <1>6 DEF Starting, ElementData
  <2>3. ele.evt = 1 /\ ele.estatus = "READY"
    BY <1>1, <1>2, <2>1 DEF PlayInv
  <2> QED BY <1>1, <1>2, <1>3, <2>1, <2>2, <2>3, PlayGoesOn
<1> QED BY <1>4, <1>5, <1>6

LEMMA PlayKept == IInv /\ PlayInv /\ [Next]_vars => PlayInv'
<1> SUFFICES ASSUME IInv, PlayInv, [Next]_vars PROVE PlayInv'
  OBVIOUS
<1>1. CASE Tick \/ InitElement \/ Starting
  BY <1>1, ElementPlayKept
<1>2. CASE StartEvent \/ DoEvent \/ RunTimed \/ RunDistance \/ RunBmpRead \/ AllDone
  BY <1>2, EventPlayKept
<1>3. CASE DoRepeat \/ LeaveElement \/ Restart
  <2>1. ele'.evt = 1 /\ ele'.estatus = "READY" /\ ele'.status = "READY"
    BY <1>3 DEF DoRepeat, LeaveElement, Restart, Fresh
  <2>2. pc' \in {"idle", "element"} /\ (pc' # "idle" => ticks' = 1)
    BY <1>3 DEF DoRepeat, LeaveElement, Restart
  <2>3. IInv'
    BY StepKeeps
  <2>4. IsElement(cur)' => Len(This.work)' \in Nat
    BY <2>3, NextWork DEF IInv
  <2> QED BY <2>1, <2>2, <2>4 DEF PlayInv
<1>4. CASE TrackDone \/ Stop
  BY <1>4 DEF TrackDone, Stop, PlayInv
<1>5. CASE \/ ElementGoesOn \/ Started \/ NothingToWork \/ Working \/ Final \/ Show \/ Continue
           \/ (\E e \in DOMAIN track : StreamEnds(e)) \/ UNCHANGED vars
  <2>3. Untouched
    BY <1>5, GoingOn DEF IInv
  <2>1. /\ UNCHANGED <<track, cur, ticks, tstatus>>
        /\ pc = "idle" => pc' = "idle"
        /\ pc \in {"show", "idle"} => pc' \in {"show", "idle"}
        /\ pc' \in {"final", "repeat"} => pc \in {"final", "repeat"}
    BY <1>5 DEF ElementGoesOn, Started, NothingToWork, Working, Final, Show, Continue, StreamEnds, vars
  <2>2. /\ ele.evt \in Nat \ {0} /\ RunningEvent = This.work[ele.evt]
        /\ HasEvent <=> ele.evt <= Len(This.work)
    BY PlayFacts DEF IInv, RunningEvent, HasEvent
  <2> QED BY <2>1, <2>2, <2>3, PlayGoesOn DEF PlayInv, Untouched
<1> QED BY <1>1, <1>2, <1>3, <1>4, <1>5 DEF Next, InTick, Between

-----------------------------------------------------------------------------
(* The steps of one play are numbered downwards.                           *)
LEMMA StepDescends ==
  ASSUME IInv, PlayInv, InTick, ~ DoRepeat, ~ LeaveElement
  PROVE  /\ ElementsLeft' = ElementsLeft /\ PlaysLeft' = PlaysLeft
         /\ StepsLeft' \in 0..StepsLeft - 1
<1> DEFINE n == IF IsElement(cur) THEN Len(This.work) ELSE 0
           m == ele.evt
<1>1. UNCHANGED <<track, cur, ticks>>
  BY DEF InTick, TrackDone, InitElement, ElementGoesOn, Starting, Started, NothingToWork, Working,
      StartEvent, DoEvent, RunTimed, RunDistance, RunBmpRead, AllDone, Final, Show
<1>2. /\ n \in Nat /\ m \in Nat \ {0} /\ ele \in ElementData /\ tstatus # "FINISHED"
      /\ m <= n + 1 \/ ~ IsElement(cur)
      /\ HasEvent /\ pc # "element" => m <= n
      /\ pc # "element" => IsElement(cur)
  <2>1. pc # "idle"
    BY DEF InTick, TrackDone, InitElement, ElementGoesOn, Starting, Started, NothingToWork, Working,
      StartEvent, DoEvent, RunTimed, RunDistance, RunBmpRead, AllDone, Final, Show
  <2>2. tstatus # "FINISHED" /\ (pc # "element" => IsElement(cur)) /\ ele \in ElementData
    BY <2>1 DEF IInv, PlaceInv, TypeOK, Places
  <2> QED BY <2>2, PlayFacts DEF IInv, PlayInv, HasEvent
<1>3. n' = n
  BY <1>1 DEF IsElement, This
<1>4. /\ pc = "element" => StepsLeft = 2 * n + 8
      /\ pc = "starting" => StepsLeft = 2 * n + 7
      /\ pc = "work" => StepsLeft = 2 * n + 6
      /\ pc = "event" => StepsLeft = 2 * (n + 1 - ele.evt) + IF ele.estatus = "READY" THEN 4 ELSE 3
      /\ pc = "final" => StepsLeft = 2
      /\ pc \in {"repeat", "show"} => StepsLeft = 1
      /\ pc = "idle" => StepsLeft = 0
  BY DEF StepsLeft
<1>5. /\ pc' = "element" => StepsLeft' = 2 * n + 8
      /\ pc' = "starting" => StepsLeft' = 2 * n + 7
      /\ pc' = "work" => StepsLeft' = 2 * n + 6
      /\ pc' = "event" => StepsLeft' = 2 * (n + 1 - ele'.evt) + IF ele'.estatus = "READY" THEN 4 ELSE 3
      /\ pc' = "final" => StepsLeft' = 2
      /\ pc' \in {"repeat", "show"} => StepsLeft' = 1
      /\ pc' = "idle" => StepsLeft' = 0
  BY <1>3 DEF StepsLeft
<1> HIDE DEF n, m
<1>6. CASE TrackDone \/ ElementGoesOn \/ Started \/ NothingToWork \/ Working \/ Final \/ Show
  <2>1. ele'.reps = ele.reps /\ ele'.evt = ele.evt /\ ele'.estatus = ele.estatus
    BY <1>6, GoingOn DEF IInv, Untouched
  <2>2. \/ pc = "element" /\ pc' \in {"starting", "idle"}
        \/ pc = "starting" /\ pc' = "work"
        \/ pc = "work" /\ pc' = "show"
        \/ pc = "work" /\ pc' = "event" /\ HasEvent
        \/ pc = "final" /\ pc' = "repeat"
        \/ pc = "show" /\ pc' = "idle"
    BY <1>6 DEF TrackDone, ElementGoesOn, Started, NothingToWork, Working, Final, Show
  <2>4. CASE pc = "work" /\ pc' = "event"
    <3>1. StepsLeft = 2 * n + 6
      BY <1>4, <2>4
    <3>2. StepsLeft' = 2 * (n + 1 - m) + IF ele.estatus = "READY" THEN 4 ELSE 3
      BY <1>5, <2>1, <2>4 DEF m
    <3>3. m <= n
      BY <1>2, <2>2, <2>4
    <3>4. StepsLeft' \in 0..StepsLeft - 1
      BY <1>2, <3>1, <3>2, <3>3
    <3> QED BY <1>1, <2>1, <3>4 DEF ElementsLeft, PlaysLeft, Repeats, IsElement
  <2>5. CASE ~(pc = "work" /\ pc' = "event")
    <3>1. StepsLeft' \in 0..StepsLeft - 1
      BY <1>2, <1>4, <1>5, <2>2, <2>5
    <3> QED BY <1>1, <2>1, <3>1 DEF ElementsLeft, PlaysLeft, Repeats, IsElement
  <2> QED BY <2>4, <2>5, Zenon
<1>7. CASE InitElement \/ Starting
  <2>1. ele'.reps = ele.reps
    BY <1>7, RepsUntouched
  <2>2. \/ pc = "element" /\ pc' = "starting"
        \/ pc = "starting" /\ pc' \in {"work", "idle"}
    BY <1>7 DEF InitElement, Starting
  <2>3. \/ StepsLeft = 2 * n + 8 /\ StepsLeft' = 2 * n + 7
        \/ StepsLeft = 2 * n + 7 /\ StepsLeft' \in {2 * n + 6, 0}
    BY <1>4, <1>5, <2>2
  <2>4. StepsLeft' \in 0..StepsLeft - 1
    BY <1>2, <2>3
  <2> QED BY <1>1, <2>1, <2>4 DEF ElementsLeft, PlaysLeft, Repeats, IsElement
<1>8. CASE StartEvent \/ DoEvent \/ RunTimed \/ RunDistance \/ RunBmpRead \/ AllDone
  <2>2. ele'.reps = ele.reps
    BY <1>8, RepsUntouched
  <2>1. /\ pc = "event"
        /\ \/ pc' = "event" /\ ele.estatus = "READY" /\ ele'.estatus = "RUNNING" /\ ele'.evt = m /\ HasEvent
           \/ pc' = "event" /\ ele'.estatus = "READY" /\ ele'.evt = m + 1 /\ HasEvent
           \/ pc' = "show"
           \/ pc' = "final"
    <3> USE <1>2 DEF ElementData, m
    <3>1. CASE StartEvent
      BY <3>1 DEF StartEvent
    <3>2. CASE DoEvent
      BY <3>2 DEF DoEvent, NextEvent
    <3>3. CASE RunTimed
      BY <3>3 DEF RunTimed, NextEvent
    <3>4. CASE RunDistance
      BY <3>4 DEF RunDistance, NextEvent
    <3>5. CASE RunBmpRead
      BY <3>5 DEF RunBmpRead, NextEvent
    <3>6. CASE AllDone
      BY <3>6 DEF AllDone
    <3> QED BY <1>8, <3>1, <3>2, <3>3, <3>4, <3>5, <3>6
  <2>3. StepsLeft' \in 0..StepsLeft - 1
    <3>1. m <= n + 1 /\ (HasEvent => m <= n)
      BY <1>2, <2>1
    <3>2. /\ ele.estatus = "READY" => StepsLeft = 2 * (n + 1 - m) + 4
          /\ ele.estatus # "READY" => StepsLeft = 2 * (n + 1 - m) + 3
      BY <1>4, <2>1 DEF m
    <3>3. CASE pc' = "event" /\ ele.estatus = "READY" /\ ele'.estatus = "RUNNING" /\ ele'.evt = m
      <4>1. StepsLeft' = 2 * (n + 1 - m) + 3
        BY <1>5, <3>3
      <4> QED BY <1>2, <3>1, <3>2, <3>3, <4>1
    <3>4. CASE pc' = "event" /\ ele'.estatus = "READY" /\ ele'.evt = m + 1 /\ HasEvent
      <4>1. StepsLeft' = 2 * (n + 1 - (m + 1)) + 4
        BY <1>5, <3>4
      <4> QED BY <1>2, <3>1, <3>2, <3>4, <4>1
    <3>5. CASE pc' = "show" \/ pc' = "final"
      <4>1. StepsLeft' \in {1, 2}
        BY <1>5, <3>5
      <4> QED BY <1>2, <3>1, <3>2, <4>1
    <3> QED BY <2>1, <3>3, <3>4, <3>5
  <2> QED BY <1>1, <2>2, <2>3 DEF ElementsLeft, PlaysLeft, Repeats, IsElement
<1> QED BY <1>6, <1>7, <1>8 DEF InTick

LEMMA PlayDescends ==
  ASSUME IInv, PlayInv, LeftInv, DoRepeat, \A e \in DOMAIN track : Repeats(e) = 0 => TakesTime(e)
  PROVE  ElementsLeft' = ElementsLeft /\ PlaysLeft' \in 0..PlaysLeft - 1
<1>1. UNCHANGED <<track, cur>> /\ ticks' = 1 /\ pc = "repeat"
  BY DEF DoRepeat
<1>2. ElementsLeft' = ElementsLeft /\ Repeats(cur)' = Repeats(cur)
  BY <1>1 DEF ElementsLeft, Repeats, IsElement
<1>3. IsElement(cur) /\ cur \in DOMAIN track /\ tstatus # "FINISHED"
  BY <1>1, TrackFacts DEF IInv, PlaceInv
<1>4. CASE Repeats(cur) = 0
  <2>1. TakesTime(cur)
    BY <1>3, <1>4
  <2>2. \E i \in DOMAIN This.work : Slow(i)
    BY <2>1 DEF TakesTime, Slow, This
  <2>3. ele.evt - 1 = Len(This.work) /\ DOMAIN This.work = 1..Len(This.work)
    <3>1. This.work \in Seq(Event) /\ Len(This.work) \in Nat
      BY <1>3, TrackFacts, PlayFacts DEF IInv
    <3>2. ele.evt = Len(This.work) + 1
      BY <1>1, <1>3 DEF PlayInv
    <3> QED BY <3>1, <3>2
  <2>4. ticks > 1
    BY <1>1, <1>3, <2>2, <2>3 DEF PlayInv
  <2> QED BY <1>1, <1>2, <1>4, <2>4 DEF PlaysLeft
<1>5. CASE Repeats(cur) # 0
  <2>1. ele'.reps = ele.reps - 1 /\ ele.reps - 1 > 0
    BY <1>5 DEF DoRepeat, Fresh
  <2>2. ele.reps \in Int
    BY DEF IInv, TypeOK, ElementData
  <2>3. ele'.reps \in 0..ele.reps - 1
    BY <2>1, <2>2
  <2> QED BY <1>2, <1>5, <2>3 DEF PlaysLeft
<1> QED BY <1>4, <1>5

LEMMA ElementDescends ==
  ASSUME IInv, LeaveElement PROVE ElementsLeft' \in 0..ElementsLeft - 1
<1>1. track' = track /\ cur' = cur + 1 /\ cur <= Len(track)
  BY DEF LeaveElement, IInv, PlaceInv, IsElement
<1>2. cur \in Nat /\ Len(track) \in Nat
  BY PlayFacts DEF IInv
<1> QED BY <1>1, <1>2 DEF ElementsLeft

(* A tick cannot go round for ever, in any track whose endless elements    *)
(* take time (process_events.c 355-450).                                   *)
THEOREM TicksDescend == Spec => TickDescends
<1> DEFINE Descends ==
      InTick /\ (\A e \in DOMAIN track : Repeats(e) = 0 => TakesTime(e)) =>
       \/ ElementsLeft' \in 0..ElementsLeft - 1
       \/ ElementsLeft' = ElementsLeft /\ PlaysLeft' \in 0..PlaysLeft - 1
       \/ /\ ElementsLeft' = ElementsLeft /\ PlaysLeft' = PlaysLeft
          /\ StepsLeft' \in 0..StepsLeft - 1
<1>1. Spec => [](PlayInv /\ LeftInv)
  BY LeftBegins, PlayKept, LeftKept, InvariantHolds, PTL DEF Spec
<1>2. IInv /\ PlayInv /\ LeftInv /\ [Next]_vars => [Descends]_vars
  <2> SUFFICES ASSUME IInv, PlayInv, LeftInv PROVE Descends
    OBVIOUS
  <2> QED BY StepDescends, PlayDescends, ElementDescends
<1> QED BY <1>1, <1>2, InvariantHolds, PTL DEF Spec, TickDescends

-----------------------------------------------------------------------------
(* Why a track comes nearer to its end: an element that has working events *)
(* is in one of them, with a time, a way or a stream that is left, and     *)
(* with the speed, the acceleration and the object its events have set.    *)
OnItsWay ==
  /\ HasEvent /\ RunningEvent.type \in TimeTypes
  /\ Amount >= 0
  /\ ReadsToEnd => RunningEvent.value = 0
  /\ pc = "show" => Amount >= 1 \/ (ReadsToEnd /\ Reading)

(* A speed that nothing accelerates is the one that was set, or turned     *)
(* round by a bounce.                                                      *)
SpeedSet(k, s) ==
  Steady(This, k) => InForce(This, "speed", k, s) \/ InForce(This, "speed", k, -s)

SetInv ==
  /\ ele.status = "READY" => ele.speed = 0 /\ ele.accel = 0 /\ ele.object = NoObject
  /\ ele.status \in {"STARTING", "RUNNING"} =>
       /\ InForce(This, "speedup", ele.evt, ele.accel)
       /\ InForce(This, "object", ele.evt, ele.object)
       /\ SpeedSet(ele.evt, ele.speed)

WayInv ==
  /\ ele.status = "FINISHED" <=> pc \in {"final", "repeat"}
  /\ ele.status = "STARTING" => Positions(This.init, WaitTypes) # {} /\ ele.wait >= 0
  /\ ele.status = "RUNNING" =>
       /\ pc # "event" => HasEvent
       /\ pc \in {"idle", "element", "show"} => ele.estatus = "RUNNING"
  /\ pc = "show" => ele.status = "RUNNING"
  /\ ele.estatus = "RUNNING" => ele.status = "RUNNING" /\ OnItsWay

LastInv ==
  HasEnd /\ tstatus # "FINISHED" /\ IsElement(cur) => SetInv /\ WayInv

(* A value is in force until an event sets the next one, and nothing else  *)
(* is.                                                                     *)
LEMMA ForceGoesOn ==
  ASSUME NEW e, NEW type, NEW k \in Nat \ {0}, NEW v, InForce(e, type, k, v)
  PROVE  /\ e.work[k].type # type => InForce(e, type, k + 1, v)
         /\ e.work[k].type = type => InForce(e, type, k + 1, e.work[k].value)
<1>1. (k + 1) - 1 = k
  OBVIOUS
<1>2. \A i \in 1..k : i = k \/ i \in 1..k - 1
  OBVIOUS
<1>3. CASE e.work[k].type = type
  <2>1. k \in 1..k /\ \A j \in k + 1..k : e.work[j].type # type
    OBVIOUS
  <2> QED BY <1>1, <1>3, <2>1 DEF InForce
<1>4. CASE e.work[k].type # type
  <2>1. CASE \E i \in 1..k - 1 : /\ e.work[i].type = type /\ e.work[i].value = v
                                 /\ \A j \in i + 1..k - 1 : e.work[j].type # type
    <3>1. PICK i \in 1..k - 1 : /\ e.work[i].type = type /\ e.work[i].value = v
                               /\ \A j \in i + 1..k - 1 : e.work[j].type # type
      BY <2>1
    <3>2. \A j \in i + 1..k : j = k \/ j \in i + 1..k - 1
      OBVIOUS
    <3>3. i \in 1..k /\ \A j \in i + 1..k : e.work[j].type # type
      BY <1>4, <3>1, <3>2
    <3> QED BY <1>1, <1>4, <3>1, <3>3 DEF InForce
  <2>2. CASE /\ \A j \in 1..k - 1 : e.work[j].type # type
             /\ v = LastValue(e.init, {type}, 0)
    <3>1. \A j \in 1..k : e.work[j].type # type
      BY <1>2, <1>4, <2>2
    <3> QED BY <1>1, <1>4, <2>2, <3>1 DEF InForce
  <2> QED BY <2>1, <2>2 DEF InForce
<1> QED BY <1>3, <1>4

LEMMA OneInForce ==
  ASSUME NEW e, NEW type, NEW k \in Nat \ {0}, NEW v, NEW w,
         InForce(e, type, k, v), InForce(e, type, k, w)
  PROVE  v = w
<1>1. CASE \A j \in 1..k - 1 : e.work[j].type # type
  BY <1>1 DEF InForce
<1>2. CASE ~ \A j \in 1..k - 1 : e.work[j].type # type
  <2>1. PICK i \in 1..k - 1 : /\ e.work[i].type = type /\ e.work[i].value = v
                             /\ \A j \in i + 1..k - 1 : e.work[j].type # type
    BY <1>2 DEF InForce
  <2>2. PICK l \in 1..k - 1 : /\ e.work[l].type = type /\ e.work[l].value = w
                             /\ \A j \in l + 1..k - 1 : e.work[j].type # type
    BY <1>2 DEF InForce
  <2>3. i \notin l + 1..k - 1 /\ l \notin i + 1..k - 1
    BY <2>1, <2>2
  <2>4. i = l
    BY <2>3
  <2> QED BY <2>1, <2>2, <2>4
<1> QED BY <1>1, <1>2

LEMMA SteadyFacts ==
  ASSUME NEW e, NEW k \in Nat \ {0}
  PROVE  /\ Steady(e, k + 1) => Steady(e, k)
         /\ Steady(e, k) => \A v : InForce(e, "speedup", k, v) => v = 0
<1>1. \A j \in 1..k - 1 : j \in 1..(k + 1) - 1
  OBVIOUS
<1>2. Steady(e, k + 1) => Steady(e, k)
  BY <1>1 DEF Steady
<1>3. Steady(e, k) => \A v : InForce(e, "speedup", k, v) => v = 0
  BY DEF Steady, InForce
<1> QED BY <1>2, <1>3

(* The speed that is set lasts over a step that takes the next event.      *)
LEMMA SpeedGoesOn ==
  ASSUME NEW k \in Nat \ {0}, NEW s \in Int, NEW t \in Int, SpeedSet(k, s),
         This.work[k].type = "speed" => t = This.work[k].value,
         This.work[k].type # "speed" => t \in {s, -s}
  PROVE  SpeedSet(k + 1, t)
<1> SUFFICES ASSUME Steady(This, k + 1)
             PROVE  InForce(This, "speed", k + 1, t) \/ InForce(This, "speed", k + 1, -t)
  BY DEF SpeedSet
<1>1. InForce(This, "speed", k, s) \/ InForce(This, "speed", k, -s)
  BY SteadyFacts DEF SpeedSet
<1>2. CASE This.work[k].type = "speed"
  <2>1. InForce(This, "speed", k + 1, This.work[k].value)
    BY <1>1, <1>2, ForceGoesOn, Zenon
  <2> QED BY <1>2, <2>1
<1>3. CASE This.work[k].type # "speed"
  <2>1. InForce(This, "speed", k + 1, s) \/ InForce(This, "speed", k + 1, -s)
    BY <1>1, <1>3, ForceGoesOn, Zenon
  <2>2. (t = s /\ -t = -s) \/ (t = -s /\ -t = s)
    BY <1>3
  <2> QED BY <2>1, <2>2, Zenon
<1> QED BY <1>2, <1>3

(* What is known of an element that has its end.                           *)
LEMMA LastFacts ==
  ASSUME IInv, PlayInv, LastInv, HasEnd, tstatus # "FINISHED", IsElement(cur)
  PROVE  /\ SetInv /\ WayInv
         /\ This.init \in Seq(Event) /\ This.work \in Seq(Event) /\ This.work # <<>>
         /\ Len(This.work) \in Nat \ {0} /\ Repeats(cur) # 0 /\ Moves(This) /\ Displays(This)
         /\ ele \in ElementData /\ ele.evt \in Nat \ {0} /\ ele.wait \in Int /\ ele.dist \in Int
         /\ ele.speed \in Int /\ ele.accel \in Int /\ ele.reps \in Int
         /\ ele.evt <= Len(This.work) + 1
         /\ ele.status \in {"READY", "STARTING"} => ele.evt = 1 /\ ele.estatus = "READY" /\ HasEvent
         /\ HasEvent => RunningEvent \in Event
<1>1. SetInv /\ WayInv
  BY DEF LastInv
<1>2. /\ This.init \in Seq(Event) /\ This.work \in Seq(Event) /\ cur \in DOMAIN track
      /\ HasEvent => RunningEvent \in Event
  BY TrackFacts DEF IInv, RunningEvent
<1>3. Repeats(cur) # 0 /\ This.work # <<>> /\ Moves(This) /\ Displays(This)
  BY <1>2 DEF HasEnd, This
<1>4. Len(This.work) \in Nat \ {0}
  BY <1>2, <1>3
<1>5. /\ ele \in ElementData /\ ele.evt \in Nat \ {0} /\ ele.wait \in Int /\ ele.dist \in Int
      /\ ele.speed \in Int /\ ele.accel \in Int /\ ele.reps \in Int
  BY DEF IInv, TypeOK, ElementData
<1>6. /\ ele.evt <= Len(This.work) + 1
      /\ ele.status \in {"READY", "STARTING"} => ele.evt = 1 /\ ele.estatus = "READY"
  BY DEF PlayInv
<1>7. ele.evt = 1 => HasEvent
  BY <1>4 DEF HasEvent
<1> QED BY <1>1, <1>2, <1>3, <1>4, <1>5, <1>6, <1>7

(* A step that leaves the events of the element alone: it is displayed at  *)
(* most, which accelerates it.                                             *)
LEMMA LastPasses ==
  ASSUME IInv, LastInv, UNCHANGED <<track, cur>>, Untouched,
         ele'.speed = ele.speed \/ (Show /\ ele'.speed = ele.speed + ele.accel),
         tstatus = "FINISHED" => tstatus' = "FINISHED",
         HasEnd /\ IsElement(cur) /\ tstatus # "FINISHED" /\ WayInv =>
           /\ pc \in {"final", "repeat"} <=> pc' \in {"final", "repeat"}
           /\ ele.status = "RUNNING" /\ pc = "event" => pc' = "event"
           /\ pc' \in {"idle", "element", "show"} =>
                pc \in {"idle", "element", "show"} \/ ele.status # "RUNNING"
           /\ pc' = "show" => pc = "show" /\ (Reading => Reading')
  PROVE  LastInv'
<1> SUFFICES ASSUME HasEnd', tstatus' # "FINISHED", IsElement(cur)' PROVE (SetInv /\ WayInv)'
  BY DEF LastInv
<1>1. /\ This' = This /\ HasEnd /\ tstatus # "FINISHED" /\ IsElement(cur)
  BY DEF This, HasEnd, Repeats, IsElement
<1> USE DEF Untouched
<1>2. /\ RunningEvent' = RunningEvent /\ HasEvent' = HasEvent /\ Amount' = Amount
      /\ ReadsToEnd' = ReadsToEnd
  BY <1>1 DEF RunningEvent, HasEvent, Amount, ReadsToEnd
<1>3. SetInv /\ WayInv
  BY <1>1 DEF LastInv
<1>4. SetInv'
  <2>1. ele.evt \in Nat \ {0} /\ ele.speed \in Int
    BY DEF IInv, TypeOK, ElementData
  <2>2. /\ ele'.status = "READY" => ele'.speed = 0 /\ ele'.accel = 0 /\ ele'.object = NoObject
    <3>1. Show => ele.status # "READY"
      BY DEF Show, IInv, PlaceInv
    <3> QED BY <1>3, <3>1 DEF SetInv
  <2>3. ASSUME ele'.status \in {"STARTING", "RUNNING"}
        PROVE  /\ InForce(This, "speedup", ele.evt, ele.accel)
               /\ InForce(This, "object", ele.evt, ele.object)
               /\ SpeedSet(ele.evt, ele.speed)
    BY <1>3, <2>3 DEF SetInv
  <2>4. ASSUME ele'.status \in {"STARTING", "RUNNING"}, Steady(This, ele.evt)
        PROVE  ele'.speed = ele.speed
    <3>1. ele.accel = 0
      BY <2>1, <2>3, <2>4, SteadyFacts
    <3> QED BY <2>1, <3>1
  <2>5. ele'.status \in {"STARTING", "RUNNING"} => SpeedSet(ele.evt, ele'.speed)
    <3> SUFFICES ASSUME ele'.status \in {"STARTING", "RUNNING"}, Steady(This, ele.evt)
                 PROVE  \/ InForce(This, "speed", ele.evt, ele'.speed)
                        \/ InForce(This, "speed", ele.evt, -ele'.speed)
      BY DEF SpeedSet
    <3> QED BY <2>3, <2>4 DEF SpeedSet
  <2>6. ele'.status \in {"STARTING", "RUNNING"} => SpeedSet(ele.evt, ele.speed)'
    BY <1>1, <2>5 DEF SpeedSet
  <2> QED BY <1>1, <2>2, <2>3, <2>6 DEF SetInv
<1>5. OnItsWay => OnItsWay'
  BY <1>1, <1>2, <1>3 DEF OnItsWay
<1>6. WayInv'
  BY <1>1, <1>2, <1>3, <1>5 DEF WayInv
<1> QED BY <1>4, <1>6

LEMMA LastElement == ASSUME IInv, PlayInv, LastInv, InitElement \/ Starting PROVE LastInv'
<1> SUFFICES ASSUME HasEnd', IsElement(cur)' PROVE (SetInv /\ WayInv)'
  BY DEF LastInv
<1>1. UNCHANGED <<track, cur, tstatus>>
  BY DEF InitElement, Starting
<1>2. This' = This /\ HasEnd /\ IsElement(cur) /\ tstatus # "FINISHED"
  BY <1>1 DEF This, HasEnd, Repeats, IsElement, InitElement, Starting, IInv, PlaceInv
<1>3. /\ SetInv /\ WayInv /\ ele \in ElementData /\ ele.evt = 1 /\ ele.estatus = "READY"
      /\ HasEvent /\ This.init \in Seq(Event)
  BY <1>2, LastFacts DEF InitElement, Starting
<1>4. CASE InitElement
  <2> DEFINE waits == Positions(This.init, WaitTypes)
             clears == Positions(This.init, {"clear"})
             flags == ele.flags \cup (IF waits = {} THEN {} ELSE {"WAIT"})
                                \cup (IF clears = {} THEN {} ELSE {"CLEAR"})
             wait == LastValue(This.init, WaitTypes, ele.wait)
             speed == LastValue(This.init, {"speed"}, ele.speed)
             accel == LastValue(This.init, {"speedup"}, ele.accel)
             object == LastValue(This.init, {"object"}, ele.object)
  <2>1. ele' = [ele EXCEPT !.status = IF waits = {} THEN "RUNNING" ELSE "STARTING",
                           !.estatus = "READY", !.flags = flags,
                           !.wait = wait, !.speed = speed, !.accel = accel, !.object = object]
    BY <1>4 DEF InitElement
  <2>2. waits # {} => wait >= 0
    <3>1. waits # {} => wait = LastValue(This.init, WaitTypes, 0)
      BY DEF LastValue
    <3>2. LastValue(This.init, WaitTypes, 0) \in Nat
      BY <1>3, InitTicksFacts
    <3> HIDE DEF waits, wait
    <3> QED BY <3>1, <3>2
  <2>3. /\ speed = LastValue(This.init, {"speed"}, 0)
        /\ accel = LastValue(This.init, {"speedup"}, 0)
        /\ object = LastValue(This.init, {"object"}, 0)
    BY <1>3, <1>4 DEF SetInv, InitElement, NoObject
  <2> HIDE DEF flags, wait, speed, accel, object
  <2>4. /\ ele'.status = IF waits = {} THEN "RUNNING" ELSE "STARTING"
        /\ ele'.estatus = "READY" /\ ele'.evt = 1 /\ ele'.wait = wait /\ ele'.speed = speed
        /\ ele'.accel = accel /\ ele'.object = object
    BY <1>3, <2>1 DEF ElementData
  <2>5. /\ InForce(This, "speedup", 1, accel) /\ InForce(This, "object", 1, object)
        /\ InForce(This, "speed", 1, speed)
    BY <2>3 DEF InForce
  <2>6. SetInv'
    BY <1>2, <2>4, <2>5 DEF SetInv, SpeedSet
  <2>7. HasEvent' /\ pc' = "starting"
    BY <1>2, <1>3, <1>4, <2>4 DEF HasEvent, InitElement
  <2>8. WayInv'
    BY <1>2, <2>2, <2>4, <2>7 DEF WayInv
  <2> QED BY <2>6, <2>8
<1>5. CASE Starting
  <2> DEFINE left == ele.wait - Cardinality(Positions(This.init, WaitTypes))
  <2>1. /\ ele' = [ele EXCEPT !.wait = left, !.status = IF left <= 0 THEN "RUNNING" ELSE @,
                              !.flags = IF left <= 0 THEN @ \ {"WAIT"} ELSE @]
        /\ pc' = IF left <= 0 THEN "work" ELSE "idle"
        /\ ele.status = "STARTING"
    BY <1>5 DEF Starting
  <2>2. left \in Int
    <3>1. ele.wait \in Int /\ Cardinality(Positions(This.init, WaitTypes)) \in Nat
      BY <1>3, LastValueInt DEF ElementData
    <3> QED BY <3>1
  <2> HIDE DEF left
  <2>3. /\ ele'.status = IF left <= 0 THEN "RUNNING" ELSE "STARTING"
        /\ ele'.estatus = "READY" /\ ele'.evt = 1 /\ ele'.wait = left /\ ele'.speed = ele.speed
        /\ ele'.accel = ele.accel /\ ele'.object = ele.object
    BY <1>3, <2>1 DEF ElementData
  <2>4. SetInv'
    BY <1>2, <1>3, <2>1, <2>3 DEF SetInv, SpeedSet
  <2>5. HasEvent'
    BY <1>2, <1>3, <2>3 DEF HasEvent
  <2>6. WayInv'
    BY <1>2, <1>3, <2>1, <2>2, <2>3, <2>5 DEF WayInv
  <2> QED BY <2>4, <2>6
<1> QED BY <1>4, <1>5

LEMMA LastWork ==
  ASSUME IInv, PlayInv, LastInv,
         StartEvent \/ DoEvent \/ RunTimed \/ RunDistance \/ RunBmpRead \/ AllDone
  PROVE  LastInv'
<1> SUFFICES ASSUME HasEnd', IsElement(cur)' PROVE (SetInv /\ WayInv)'
  BY DEF LastInv
<1>1. UNCHANGED <<track, cur, tstatus>> /\ pc = "event"
  BY DEF StartEvent, DoEvent, RunTimed, RunDistance, RunBmpRead, AllDone
<1>2. This' = This /\ HasEnd /\ IsElement(cur) /\ tstatus # "FINISHED"
  BY <1>1 DEF This, HasEnd, Repeats, IsElement, IInv, PlaceInv
<1>3. /\ SetInv /\ WayInv /\ ele \in ElementData /\ ele.evt \in Nat \ {0} /\ ele.wait \in Int
      /\ ele.dist \in Int /\ ele.speed \in Int
      /\ HasEvent => RunningEvent \in Event
      /\ ele.evt <= Len(This.work) + 1 /\ Len(This.work) \in Nat
  BY <1>2, LastFacts
<1>4. /\ ele.status = "RUNNING" /\ SpeedSet(ele.evt, ele.speed)
      /\ InForce(This, "speedup", ele.evt, ele.accel)
      /\ InForce(This, "object", ele.evt, ele.object)
  <2>1. ele.status \notin {"READY", "STARTING", "FINISHED"}
    BY <1>1, <1>3 DEF IInv, PlaceInv, WayInv
  <2> QED BY <1>3, <2>1 DEF SetInv, ElementData
<1>5. ASSUME ele'.evt = ele.evt PROVE RunningEvent' = RunningEvent /\ HasEvent' = HasEvent
  BY <1>2, <1>5 DEF RunningEvent, HasEvent
<1>6. ASSUME HasEvent, ele'.evt = ele.evt + 1, ele'.estatus = "READY", ele'.status = "RUNNING",
             pc' = "event",
             ele'.speed = SpeedAfter(RunningEvent, ele.speed),
             ele'.accel = IF RunningEvent.type = "speedup" THEN RunningEvent.value ELSE ele.accel,
             ele'.object = IF RunningEvent.type = "object" THEN RunningEvent.value ELSE ele.object
      PROVE  (SetInv /\ WayInv)'
  <2>4. RunningEvent = This.work[ele.evt] /\ RunningEvent.value \in Int
    BY <1>3, <1>6 DEF RunningEvent, Event
  <2>5. /\ ele'.speed \in Int
        /\ RunningEvent.type = "speed" => ele'.speed = RunningEvent.value
        /\ RunningEvent.type # "speed" => ele'.speed \in {ele.speed, -ele.speed}
    BY <1>3, <1>6, <2>4 DEF SpeedAfter
  <2>1. SpeedSet(ele.evt + 1, ele'.speed)
    BY <1>3, <1>4, <2>4, <2>5, SpeedGoesOn
  <2>6. InForce(This, "speedup", ele.evt + 1, ele'.accel)
    BY <1>3, <1>4, <1>6, <2>4, ForceGoesOn, Zenon
  <2>7. InForce(This, "object", ele.evt + 1, ele'.object)
    BY <1>3, <1>4, <1>6, <2>4, ForceGoesOn, Zenon
  <2>8. SpeedSet(ele.evt, ele.speed)' /\ ele'.status # "READY"
    BY <1>2, <1>6, <2>1 DEF SpeedSet
  <2>2. SetInv'
    BY <1>2, <1>6, <2>6, <2>7, <2>8 DEF SetInv
  <2>3. WayInv'
    BY <1>6 DEF WayInv
  <2> QED BY <2>2, <2>3
<1>7. ASSUME HasEvent, RunningEvent.type \in TimeTypes, ele'.evt = ele.evt,
             ele'.estatus = "RUNNING", ele'.status = "RUNNING", ele'.speed = ele.speed,
             ele'.accel = ele.accel, ele'.object = ele.object,
             pc' \in {"event", "show"}, Amount' >= 0, ReadsToEnd' => RunningEvent.value = 0,
             pc' = "show" => Amount' >= 1 \/ (ReadsToEnd' /\ Reading')
      PROVE  (SetInv /\ WayInv)'
  <2>3. SpeedSet(ele.evt, ele.speed)'
    BY <1>2, <1>4, <1>7 DEF SpeedSet
  <2>1. SetInv'
    BY <1>2, <1>4, <1>7, <2>3 DEF SetInv
  <2>2. WayInv'
    BY <1>5, <1>7 DEF WayInv, OnItsWay
  <2> QED BY <2>1, <2>2
<1>8. CASE StartEvent
  <2> DEFINE flags == IF RunningEvent.type = "wait" THEN ele.flags \cup {"WAIT"} ELSE ele.flags
  <2>1. HasEvent /\ RunningEvent.type \in TimeTypes /\ RunningEvent.value \in Nat /\ pc' = "event"
    BY <1>1, <1>3, <1>8 DEF StartEvent, RunningEvent, Event, TimeTypes, SpeedTypes
  <2>2. \/ /\ RunningEvent.type = "distance"
           /\ ele' = [ele EXCEPT !.estatus = "RUNNING", !.dist = RunningEvent.value]
        \/ /\ RunningEvent.type # "distance"
           /\ ele' = [ele EXCEPT !.estatus = "RUNNING", !.wait = RunningEvent.value,
                                 !.flags = flags]
    BY <1>8 DEF StartEvent, RunningEvent
  <2> HIDE DEF flags
  <2>3. /\ ele'.evt = ele.evt /\ ele'.status = "RUNNING" /\ ele'.estatus = "RUNNING"
        /\ ele'.speed = ele.speed /\ ele'.accel = ele.accel /\ ele'.object = ele.object
        /\ RunningEvent.type = "distance" => ele'.dist = RunningEvent.value
        /\ RunningEvent.type # "distance" => ele'.wait = RunningEvent.value
    BY <1>3, <1>4, <2>2 DEF ElementData
  <2>4. Amount' = RunningEvent.value
    BY <1>5, <2>3 DEF Amount
  <2>5. ReadsToEnd' => RunningEvent.value = 0
    BY <1>5, <2>1, <2>3 DEF ReadsToEnd
  <2> QED BY <1>7, <2>1, <2>3, <2>4, <2>5
<1>9. CASE DoEvent
  <2>1. HasEvent /\ pc' = "event"
    BY <1>1, <1>9 DEF DoEvent
  <2>2. /\ ele'.evt = ele.evt + 1 /\ ele'.estatus = "READY" /\ ele'.status = "RUNNING"
        /\ ele'.speed = SpeedAfter(RunningEvent, ele.speed)
        /\ ele'.accel = IF RunningEvent.type = "speedup" THEN RunningEvent.value ELSE ele.accel
        /\ ele'.object = IF RunningEvent.type = "object" THEN RunningEvent.value ELSE ele.object
    BY <1>3, <1>4, <1>9 DEF DoEvent, NextEvent, ElementData, RunningEvent
  <2> QED BY <1>6, <2>1, <2>2
<1>10. CASE RunTimed
  <2>1. HasEvent /\ RunningEvent.type \in {"wait", "paint"}
    BY <1>10 DEF RunTimed, RunningEvent
  <2>2. CASE ele.wait - 1 <= 0
    <3>1. /\ ele'.evt = ele.evt + 1 /\ ele'.estatus = "READY" /\ ele'.status = "RUNNING"
          /\ ele'.speed = ele.speed /\ pc' = "event" /\ ele'.accel = ele.accel
          /\ ele'.object = ele.object
      BY <1>1, <1>3, <1>4, <1>10, <2>2 DEF RunTimed, NextEvent, ElementData
    <3> QED BY <1>6, <2>1, <3>1 DEF SpeedAfter
  <2>3. CASE ~(ele.wait - 1 <= 0)
    <3>1. ele' = [ele EXCEPT !.wait = @ - 1] /\ pc' = "show" /\ ele.estatus = "RUNNING"
      BY <1>10, <2>3 DEF RunTimed
    <3>2. /\ ele'.evt = ele.evt /\ ele'.estatus = "RUNNING" /\ ele'.status = "RUNNING"
          /\ ele'.speed = ele.speed /\ ele'.wait = ele.wait - 1
          /\ ele'.accel = ele.accel /\ ele'.object = ele.object
      BY <1>3, <1>4, <3>1 DEF ElementData
    <3>3. Amount' >= 1 /\ Amount' >= 0 /\ ~ ReadsToEnd'
      BY <1>3, <1>5, <2>1, <2>3, <3>2 DEF Amount, ReadsToEnd
    <3> QED BY <1>7, <2>1, <3>1, <3>2, <3>3 DEF TimeTypes
  <2> QED BY <2>2, <2>3
<1>11. CASE RunDistance
  <2>4. Speed \in Int
    BY <1>3 DEF Speed
  <2>1. HasEvent /\ RunningEvent.type = "distance" /\ ele.dist - Speed \in Int
    BY <1>3, <1>11, <2>4 DEF RunDistance, RunningEvent
  <2>2. CASE ele.dist - Speed <= 0
    <3>1. /\ ele'.evt = ele.evt + 1 /\ ele'.estatus = "READY" /\ ele'.status = "RUNNING"
          /\ ele'.speed = ele.speed /\ pc' = "event" /\ ele'.accel = ele.accel
          /\ ele'.object = ele.object
      BY <1>1, <1>3, <1>4, <1>11, <2>2 DEF RunDistance, NextEvent, ElementData
    <3> QED BY <1>6, <2>1, <3>1 DEF SpeedAfter
  <2>3. CASE ~(ele.dist - Speed <= 0)
    <3>1. ele' = [ele EXCEPT !.dist = @ - Speed] /\ pc' = "show" /\ ele.estatus = "RUNNING"
      BY <1>11, <2>3 DEF RunDistance
    <3>2. /\ ele'.evt = ele.evt /\ ele'.estatus = "RUNNING" /\ ele'.status = "RUNNING"
          /\ ele'.speed = ele.speed /\ ele'.dist = ele.dist - Speed
          /\ ele'.accel = ele.accel /\ ele'.object = ele.object
      BY <1>3, <1>4, <3>1 DEF ElementData
    <3>3. Amount' >= 1 /\ Amount' >= 0 /\ ~ ReadsToEnd'
      BY <1>5, <2>1, <2>3, <3>2 DEF Amount, ReadsToEnd
    <3> QED BY <1>7, <2>1, <3>1, <3>2, <3>3 DEF TimeTypes
  <2> QED BY <2>2, <2>3
<1>12. CASE RunBmpRead
  <2>1. HasEvent /\ RunningEvent.type = "bmp_read" /\ ele.estatus = "RUNNING"
    BY <1>12 DEF RunBmpRead, RunningEvent
  <2>2. CASE ~ Reading \/ (ele.wait > 0 /\ ele.wait - 1 <= 0)
    <3>1. ele' = NextEvent /\ pc' = pc
      BY <1>3, <1>12, <2>2 DEF RunBmpRead, Reading
    <3>2. /\ ele'.evt = ele.evt + 1 /\ ele'.estatus = "READY" /\ ele'.status = "RUNNING"
          /\ ele'.speed = ele.speed /\ pc' = "event" /\ ele'.accel = ele.accel
          /\ ele'.object = ele.object
      BY <1>1, <1>3, <1>4, <3>1 DEF NextEvent, ElementData
    <3> QED BY <1>6, <2>1, <3>2 DEF SpeedAfter
  <2>3. CASE Reading /\ ~(ele.wait > 0 /\ ele.wait - 1 <= 0)
    <3>1. /\ ele' = IF ele.wait <= 0 THEN ele ELSE [ele EXCEPT !.wait = @ - 1]
          /\ pc' = "show" /\ UNCHANGED stream
      BY <1>3, <1>12, <2>3 DEF RunBmpRead, Reading
    <3>2. /\ ele'.evt = ele.evt /\ ele'.estatus = "RUNNING" /\ ele'.status = "RUNNING"
          /\ ele'.speed = ele.speed /\ ele'.accel = ele.accel /\ ele'.object = ele.object
          /\ ele'.wait = IF ele.wait <= 0 THEN ele.wait ELSE ele.wait - 1
      BY <1>3, <1>4, <2>1, <3>1 DEF ElementData
    <3>3. Amount' = ele'.wait /\ Amount = ele.wait
      BY <1>5, <2>1, <3>2 DEF Amount
    <3>4. ele.wait >= 0 /\ (ReadsToEnd => RunningEvent.value = 0)
      BY <1>3, <2>1, <3>3 DEF WayInv, OnItsWay
    <3>5. CASE ele.wait <= 0
      <4>1. ReadsToEnd' /\ Reading' /\ Amount' >= 0 /\ RunningEvent.value = 0
        BY <1>1, <1>5, <2>1, <2>3, <3>1, <3>2, <3>3, <3>4, <3>5 DEF ReadsToEnd, Reading
      <4> QED BY <1>7, <2>1, <3>1, <3>2, <4>1 DEF TimeTypes
    <3>6. CASE ~(ele.wait <= 0)
      <4>1. Amount' >= 1 /\ Amount' >= 0 /\ ~ ReadsToEnd'
        BY <1>3, <2>3, <3>2, <3>3, <3>6 DEF ReadsToEnd
      <4> QED BY <1>7, <2>1, <3>1, <3>2, <4>1 DEF TimeTypes
    <3> QED BY <3>5, <3>6
  <2> QED BY <2>2, <2>3
<1>13. CASE AllDone
  <2>1. ~ HasEvent /\ pc' = "final" /\ ele' = [ele EXCEPT !.status = "FINISHED"]
    BY <1>13 DEF AllDone
  <2>2. ele.estatus # "RUNNING"
    BY <1>3, <2>1 DEF WayInv, OnItsWay
  <2>3. ele'.status = "FINISHED" /\ ele'.estatus = ele.estatus
    BY <1>3, <2>1 DEF ElementData
  <2> QED BY <2>1, <2>2, <2>3 DEF SetInv, WayInv
<1> QED BY <1>8, <1>9, <1>10, <1>11, <1>12, <1>13

LEMMA LastBegins == Init => LastInv
<1> SUFFICES ASSUME Init PROVE LastInv
  OBVIOUS
<1>1. /\ ele.status = "READY" /\ ele.speed = 0 /\ ele.accel = 0 /\ ele.object = NoObject
      /\ ele.estatus = "READY" /\ pc = "idle"
  BY DEF Init, Fresh
<1> QED BY <1>1 DEF LastInv, SetInv, WayInv

LEMMA LastKept == IInv /\ PlayInv /\ LastInv /\ [Next]_vars => LastInv'
<1> SUFFICES ASSUME IInv, PlayInv, LastInv, [Next]_vars PROVE LastInv'
  OBVIOUS
<1>1. CASE InitElement \/ Starting
  BY <1>1, LastElement
<1>2. CASE StartEvent \/ DoEvent \/ RunTimed \/ RunDistance \/ RunBmpRead \/ AllDone
  BY <1>2, LastWork
<1>3. CASE DoRepeat \/ LeaveElement \/ Restart
  <2>1. /\ ele'.status = "READY" /\ ele'.speed = 0 /\ ele'.accel = 0 /\ ele'.object = NoObject
        /\ ele'.estatus = "READY"
    BY <1>3 DEF DoRepeat, LeaveElement, Restart, Fresh
  <2>2. pc' \in {"idle", "element"}
    BY <1>3 DEF DoRepeat, LeaveElement, Restart
  <2> QED BY <2>1, <2>2 DEF LastInv, SetInv, WayInv
<1>4. CASE TrackDone \/ Stop
  BY <1>4 DEF TrackDone, Stop, LastInv
<1>5. CASE \/ Tick \/ ElementGoesOn \/ Started \/ Working \/ Final \/ Show
           \/ Continue \/ UNCHANGED vars
  <2>2. Untouched /\ (ele'.speed = ele.speed \/ (Show /\ ele'.speed = ele.speed + ele.accel))
    <3>1. Untouched
      BY <1>5, GoingOn DEF IInv
    <3>2. Show => ele'.speed = IF Frozen THEN ele.speed ELSE ele.speed + ele.accel
      BY DEF Show, IInv, TypeOK, ElementData
    <3>3. Final => ele'.speed = ele.speed
      BY DEF Final, IInv, TypeOK, ElementData
    <3>4. Tick \/ ElementGoesOn \/ Started \/ Working \/ Continue \/ UNCHANGED vars => ele' = ele
      BY DEF Tick, ElementGoesOn, Started, Working, Continue, vars
    <3> QED BY <1>5, <3>1, <3>2, <3>3, <3>4
  <2>1. /\ UNCHANGED <<track, cur>>
        /\ tstatus = "FINISHED" => tstatus' = "FINISHED"
        /\ pc \in {"final", "repeat"} <=> pc' \in {"final", "repeat"}
        /\ pc = "event" => pc' = "event"
        /\ pc' \in {"idle", "element", "show"} => pc \in {"idle", "element", "show"}
        /\ pc' = "show" => pc = "show" /\ UNCHANGED <<ele, stream>>
    BY <1>5 DEF Tick, ElementGoesOn, Started, Working, Final, Show, Continue, vars
  <2>3. pc' = "show" => (Reading => Reading')
    BY <2>1 DEF Reading
  <2> QED BY <2>1, <2>2, <2>3, LastPasses
<1>6. CASE NothingToWork
  <2>1. UNCHANGED <<track, cur, ele, tstatus>> /\ pc = "work" /\ pc' = "show" /\ ~ HasEvent
    BY <1>6 DEF NothingToWork
  <2>2. ele.status \notin {"READY", "STARTING"} /\ IsElement(cur) /\ ele \in ElementData
    BY <2>1 DEF IInv, PlaceInv, TypeOK
  <2>3. ~(HasEnd /\ tstatus # "FINISHED" /\ WayInv)
    BY <2>1, <2>2 DEF WayInv, ElementData
  <2>4. Untouched /\ ele'.speed = ele.speed
    BY <2>1 DEF Untouched
  <2> QED BY <2>1, <2>3, <2>4, LastPasses
<1>7. ASSUME NEW e \in DOMAIN track, StreamEnds(e) PROVE LastInv'
  <2>1. UNCHANGED <<track, cur, tstatus, pc>> /\ stream' = [stream EXCEPT ![e] = "ended"]
    BY <1>7 DEF StreamEnds
  <2>4. Untouched /\ ele'.speed = ele.speed
    <3>1. ~ Show \/ ele'.speed = ele.speed
      BY <1>7 DEF StreamEnds, Show, IInv, TypeOK, ElementData
    <3> QED BY <1>7, <3>1, Painting DEF IInv
  <2>2. IsElement(cur) => cur \in DOMAIN track /\ DOMAIN stream = DOMAIN track
    BY TrackFacts DEF IInv, TypeOK
  <2>3. IsElement(cur) /\ Reading => Reading'
    BY <2>1, <2>2, <2>4 DEF Reading, Live, Untouched
  <2> QED BY <2>1, <2>3, <2>4, LastPasses
<1> QED BY <1>1, <1>2, <1>3, <1>4, <1>5, <1>6, <1>7 DEF Next, InTick, Between

(* An element beyond the last one has not begun.                           *)
NoneLeft == tstatus # "FINISHED" /\ ~ IsElement(cur) => ele.status = "READY"

LEMMA NoneLeftKept == IInv /\ NoneLeft /\ [Next]_vars => NoneLeft'
<1> SUFFICES ASSUME IInv, NoneLeft, [Next]_vars, tstatus' # "FINISHED", ~ IsElement(cur)'
             PROVE  ele'.status = "READY"
  BY DEF NoneLeft
<1>1. CASE DoRepeat \/ LeaveElement \/ Restart
  BY <1>1 DEF DoRepeat, LeaveElement, Restart, Fresh
<1>2. CASE ~(DoRepeat \/ LeaveElement \/ Restart)
  <2>1. UNCHANGED <<track, cur>>
    BY <1>2 DEF Next, InTick, Between, Tick, TrackDone, InitElement, ElementGoesOn, Starting, Started,
      NothingToWork, Working, StartEvent, DoEvent, RunTimed, RunDistance, RunBmpRead, AllDone,
      Final, Show, Stop, Continue, StreamEnds, vars
  <2>2. ~ IsElement(cur)
    BY <2>1 DEF IsElement
  <2>3. pc \in {"idle", "element"}
    BY <2>2 DEF IInv, PlaceInv, TypeOK, Places
  <2>4. /\ tstatus # "FINISHED"
        /\ ele' = ele \/ \E e \in DOMAIN track : StreamEnds(e)
    BY <1>2, <2>2, <2>3 DEF Next, InTick, Between, Tick, TrackDone, InitElement, ElementGoesOn,
      Starting, Started, NothingToWork, Working, StartEvent, DoEvent, RunTimed, RunDistance,
      RunBmpRead, AllDone, Final, Show, Stop, Continue, StreamEnds, vars
  <2>5. ele'.status = ele.status
    BY <2>4, Painting DEF IInv, Untouched
  <2> QED BY <2>2, <2>4, <2>5 DEF NoneLeft
<1> QED BY <1>1, <1>2

(* The five numbers, from the most significant one on.                     *)
LEMMA FiveNumbers ==
  ASSUME NEW m, NEW n
  PROVE  /\ m[1] \in 0..n[1] - 1 => Below(m, n)
         /\ m[1] = n[1] /\ m[2] \in 0..n[2] - 1 => Below(m, n)
         /\ m[1] = n[1] /\ m[2] = n[2] /\ m[3] \in 0..n[3] - 1 => Below(m, n)
         /\ m[1] = n[1] /\ m[2] = n[2] /\ m[3] = n[3] /\ m[4] \in 0..n[4] - 1 => Below(m, n)
         /\ m[1] = n[1] /\ m[2] = n[2] /\ m[3] = n[3] /\ m[4] = n[4] /\ m[5] \in 0..n[5] - 1
              => Below(m, n)
<1>1. m[1] \in 0..n[1] - 1 => Below(m, n)
  BY DEF Below
<1>2. m[1] = n[1] /\ m[2] \in 0..n[2] - 1 => Below(m, n)
  BY DEF Below
<1>3. m[1] = n[1] /\ m[2] = n[2] /\ m[3] \in 0..n[3] - 1 => Below(m, n)
  BY DEF Below
<1>4. m[1] = n[1] /\ m[2] = n[2] /\ m[3] = n[3] /\ m[4] \in 0..n[4] - 1 => Below(m, n)
  BY DEF Below
<1>5. m[1] = n[1] /\ m[2] = n[2] /\ m[3] = n[3] /\ m[4] = n[4] /\ m[5] \in 0..n[5] - 1
        => Below(m, n)
  BY DEF Below
<1> QED BY <1>1, <1>2, <1>3, <1>4, <1>5

LEMMA LeftLower ==
  /\ ElementsLeft' \in 0..ElementsLeft - 1 => Below(Left', Left)
  /\ ElementsLeft' = ElementsLeft /\ ele'.reps \in 0..ele.reps - 1 => Below(Left', Left)
  /\ UNCHANGED <<track, cur>> /\ ele'.reps = ele.reps =>
       /\ EventsLeft' \in 0..EventsLeft - 1 => Below(Left', Left)
       /\ EventsLeft' = EventsLeft =>
            /\ FirstLeft' \in 0..FirstLeft - 1 => Below(Left', Left)
            /\ FirstLeft' = FirstLeft =>
                 /\ TimeLeft' = TimeLeft => Left' = Left
                 /\ TimeLeft' \in 0..TimeLeft - 1 => Below(Left', Left)
<1>1. UNCHANGED <<track, cur>> => ElementsLeft' = ElementsLeft
  BY DEF ElementsLeft
<1>2. Left' = <<ElementsLeft', ele'.reps, EventsLeft', FirstLeft', TimeLeft'>>
  BY DEF Left
<1>3. Left = <<ElementsLeft, ele.reps, EventsLeft, FirstLeft, TimeLeft>>
  BY DEF Left
<1>4. /\ Left'[1] = ElementsLeft' /\ Left'[2] = ele'.reps /\ Left'[3] = EventsLeft'
      /\ Left'[4] = FirstLeft' /\ Left'[5] = TimeLeft'
  BY <1>2
<1>5. /\ Left[1] = ElementsLeft /\ Left[2] = ele.reps /\ Left[3] = EventsLeft
      /\ Left[4] = FirstLeft /\ Left[5] = TimeLeft
  BY <1>3
<1>6. /\ Left'[1] \in 0..Left[1] - 1 => Below(Left', Left)
      /\ Left'[1] = Left[1] /\ Left'[2] \in 0..Left[2] - 1 => Below(Left', Left)
      /\ Left'[1] = Left[1] /\ Left'[2] = Left[2] /\ Left'[3] \in 0..Left[3] - 1
           => Below(Left', Left)
      /\ Left'[1] = Left[1] /\ Left'[2] = Left[2] /\ Left'[3] = Left[3]
           /\ Left'[4] \in 0..Left[4] - 1 => Below(Left', Left)
      /\ Left'[1] = Left[1] /\ Left'[2] = Left[2] /\ Left'[3] = Left[3] /\ Left'[4] = Left[4]
           /\ Left'[5] \in 0..Left[5] - 1 => Below(Left', Left)
  BY FiveNumbers
<1> QED BY <1>1, <1>2, <1>3, <1>4, <1>5, <1>6, Zenon

(* What the numbers are, before and after a step that keeps the element.   *)
OnTrack ==
  /\ IInv /\ PlayInv /\ LeftInv /\ LastInv /\ NoneLeft
  /\ HasEnd /\ tstatus # "FINISHED" /\ IsElement(cur)

LEMMA LeftValues ==
  ASSUME OnTrack, UNCHANGED <<track, cur>>, NEW n, n = Len(This.work)
  PROVE  /\ This' = This
         /\ ele.status = "READY"    => EventsLeft = 2 * n + 3
         /\ ele.status = "STARTING" => EventsLeft = 2 * n + 2 /\ TimeLeft = ele.wait
         /\ ele.status = "RUNNING"  =>
              EventsLeft = 2 * (n + 1 - ele.evt) + IF ele.estatus = "READY" THEN 1 ELSE 0
         /\ ele'.status = "STARTING" => EventsLeft' = 2 * n + 2 /\ TimeLeft' = ele'.wait
         /\ ele'.status = "RUNNING"  =>
              EventsLeft' = 2 * (n + 1 - ele'.evt) + IF ele'.estatus = "READY" THEN 1 ELSE 0
         /\ ele'.status = "FINISHED" => EventsLeft' = 0
         /\ ele.status = "STARTING" => FirstLeft = 0
         /\ ele'.status = "STARTING" => FirstLeft' = 0
<1>1. This' = This /\ IsElement(cur) /\ IsElement(cur)' /\ Len(This.work)' = n
  BY DEF This, IsElement, OnTrack
<1>2. /\ ele.status = "READY"    => EventsLeft = 2 * n + 3
      /\ ele.status = "STARTING" => EventsLeft = 2 * n + 2
      /\ ele.status = "RUNNING"  =>
           EventsLeft = 2 * (n + 1 - ele.evt) + IF ele.estatus = "READY" THEN 1 ELSE 0
  BY <1>1 DEF EventsLeft
<1>3. /\ ele'.status = "STARTING" => EventsLeft' = 2 * n + 2
      /\ ele'.status = "RUNNING"  =>
           EventsLeft' = 2 * (n + 1 - ele'.evt) + IF ele'.estatus = "READY" THEN 1 ELSE 0
      /\ ele'.status = "FINISHED" => EventsLeft' = 0
  BY <1>1 DEF EventsLeft
<1>4. /\ ele.status = "STARTING" => TimeLeft = ele.wait /\ FirstLeft = 0
      /\ ele'.status = "STARTING" => TimeLeft' = ele'.wait /\ FirstLeft' = 0
  BY DEF TimeLeft, FirstLeft, AtWork
<1> QED BY <1>1, <1>2, <1>3, <1>4

(* What is left of a running event, before and after a step: of a time, of *)
(* a way, and of a stream that is read to its end.                         *)
LEMMA EventValues ==
  /\ AtWork /\ ~ ReadsToEnd /\ RunningEvent.type # "distance" =>
       FirstLeft = 0 /\ TimeLeft = ele.wait + IF pc = "show" THEN 1 ELSE 0
  /\ AtWork /\ RunningEvent.type = "distance" =>
       /\ FirstLeft = Turn(ele.speed, ele.accel)
       /\ TimeLeft = IF FirstLeft = 0 THEN ele.dist + IF pc = "show" THEN 1 ELSE 0 ELSE 0
  /\ AtWork /\ ReadsToEnd /\ stream[cur] \in {"running", "unserved"} =>
       FirstLeft = 1 /\ TimeLeft = 0
  /\ AtWork /\ ReadsToEnd /\ stream[cur] \notin {"running", "unserved"} =>
       FirstLeft = 0 /\ TimeLeft = IF stream[cur] = "ended" THEN ToShow ELSE 0
  /\ ~ AtWork => FirstLeft = 0 /\ TimeLeft = IF ele.status = "STARTING" THEN ele.wait ELSE 0
<1>1. /\ AtWork => ele.status # "STARTING"
      /\ AwaitsStream => ReadsToEnd
      /\ ReadsToEnd => RunningEvent.type # "distance"
      /\ AtWork /\ ReadsToEnd => (AwaitsStream <=> stream[cur] \in {"running", "unserved"})
      /\ RunningEvent.type = "distance" => Amount = ele.dist
      /\ RunningEvent.type # "distance" => Amount = ele.wait
  BY DEF AtWork, AwaitsStream, ReadsToEnd, Amount
<1>2. FirstLeft = IF AtWork /\ AwaitsStream THEN 1
                  ELSE IF AtWork /\ RunningEvent.type = "distance"
                    THEN Turn(ele.speed, ele.accel) ELSE 0
  BY <1>1 DEF FirstLeft
<1>3. TimeLeft = IF ele.status = "STARTING" THEN ele.wait
                 ELSE IF AtWork /\ FirstLeft = 0
                   THEN IF ReadsToEnd THEN IF stream[cur] = "ended" THEN ToShow ELSE 0
                        ELSE Amount + IF pc = "show" THEN 1 ELSE 0
                   ELSE 0
  BY <1>1 DEF TimeLeft
<1> QED BY <1>1, <1>2, <1>3

LEMMA EventValuesNext ==
  /\ AtWork' /\ ~ ReadsToEnd' /\ RunningEvent'.type # "distance" =>
       FirstLeft' = 0 /\ TimeLeft' = ele'.wait + IF pc' = "show" THEN 1 ELSE 0
  /\ AtWork' /\ RunningEvent'.type = "distance" =>
       /\ FirstLeft' = Turn(ele'.speed, ele'.accel)
       /\ TimeLeft' = IF FirstLeft' = 0 THEN ele'.dist + IF pc' = "show" THEN 1 ELSE 0 ELSE 0
  /\ AtWork' /\ ReadsToEnd' /\ stream'[cur'] \in {"running", "unserved"} =>
       FirstLeft' = 1 /\ TimeLeft' = 0
  /\ AtWork' /\ ReadsToEnd' /\ stream'[cur'] \notin {"running", "unserved"} =>
       FirstLeft' = 0 /\ TimeLeft' = IF stream'[cur'] = "ended" THEN ToShow' ELSE 0
  /\ ~ AtWork' => FirstLeft' = 0 /\ TimeLeft' = IF ele'.status = "STARTING" THEN ele'.wait ELSE 0
<1>1. /\ AtWork' => ele'.status # "STARTING"
      /\ AwaitsStream' => ReadsToEnd'
      /\ ReadsToEnd' => RunningEvent'.type # "distance"
      /\ AtWork' /\ ReadsToEnd' => (AwaitsStream' <=> stream'[cur'] \in {"running", "unserved"})
      /\ RunningEvent'.type = "distance" => Amount' = ele'.dist
      /\ RunningEvent'.type # "distance" => Amount' = ele'.wait
  BY DEF AtWork, AwaitsStream, ReadsToEnd, Amount
<1>2. FirstLeft' = IF AtWork' /\ AwaitsStream' THEN 1
                   ELSE IF AtWork' /\ RunningEvent'.type = "distance"
                     THEN Turn(ele'.speed, ele'.accel) ELSE 0
  BY <1>1 DEF FirstLeft, Turn
<1>3. TimeLeft' = IF ele'.status = "STARTING" THEN ele'.wait
                  ELSE IF AtWork' /\ FirstLeft' = 0
                    THEN IF ReadsToEnd' THEN IF stream'[cur'] = "ended" THEN ToShow' ELSE 0
                         ELSE Amount' + IF pc' = "show" THEN 1 ELSE 0
                    ELSE 0
  BY <1>1 DEF TimeLeft
<1> QED BY <1>1, <1>2, <1>3

(* The init list: the events begin, or a tick of its waits has passed.     *)
LEMMA ElementLowers == ASSUME OnTrack, InitElement \/ Starting PROVE Below(Left', Left)
<1> DEFINE n == Len(This.work)
<1>1. UNCHANGED <<track, cur>>
  BY DEF InitElement, Starting
<1>2. /\ WayInv /\ ele \in ElementData /\ ele.evt = 1 /\ ele.estatus = "READY" /\ ele.wait \in Int
      /\ n \in Nat \ {0} /\ This.init \in Seq(Event)
  BY LastFacts DEF OnTrack, InitElement, Starting
<1> HIDE DEF n
<1>3. /\ ele.status = "READY"    => EventsLeft = 2 * n + 3
      /\ ele.status = "STARTING" => /\ EventsLeft = 2 * n + 2 /\ TimeLeft = ele.wait
                                    /\ FirstLeft = 0
      /\ ele'.status = "STARTING" => /\ EventsLeft' = 2 * n + 2 /\ TimeLeft' = ele'.wait
                                     /\ FirstLeft' = 0
      /\ ele'.status = "RUNNING"  =>
           EventsLeft' = 2 * (n + 1 - ele'.evt) + IF ele'.estatus = "READY" THEN 1 ELSE 0
  BY <1>1, LeftValues DEF n
<1>4. CASE InitElement
  <2> DEFINE waits == Positions(This.init, WaitTypes)
  <2>1. /\ ele'.status = IF waits = {} THEN "RUNNING" ELSE "STARTING"
        /\ ele'.estatus = "READY" /\ ele'.evt = ele.evt
    BY <1>2, <1>4 DEF InitElement, ElementData
  <2>5. ele'.reps = ele.reps
    BY <1>4, RepsUntouched DEF OnTrack
  <2> HIDE DEF waits
  <2>2. /\ ele'.status \in {"RUNNING", "STARTING"} /\ ele'.estatus = "READY" /\ ele'.evt = 1
        /\ ele'.reps = ele.reps
    BY <1>2, <2>1, <2>5
  <2>3. EventsLeft = 2 * n + 3 /\ EventsLeft' \in {2 * n + 2, 2 * n + 1}
    BY <1>2, <1>3, <1>4, <2>2 DEF InitElement
  <2>4. EventsLeft' \in 0..EventsLeft - 1
    BY <1>2, <2>3
  <2> QED BY <1>1, <2>2, <2>4, LeftLower
<1>5. CASE Starting
  <2> DEFINE waits == Cardinality(Positions(This.init, WaitTypes))
             left == ele.wait - waits
  <2>1. waits \in Nat /\ waits > 0
    BY <1>2, <1>5, InitTicksFacts DEF WayInv, Starting
  <2>2. /\ ele' = [ele EXCEPT !.wait = left, !.status = IF left <= 0 THEN "RUNNING" ELSE @,
                              !.flags = IF left <= 0 THEN @ \ {"WAIT"} ELSE @]
        /\ ele.status = "STARTING"
    BY <1>5 DEF Starting
  <2>3. left \in Int /\ left < ele.wait
    BY <1>2, <2>1
  <2> HIDE DEF left
  <2>4. /\ ele'.status = IF left <= 0 THEN "RUNNING" ELSE "STARTING"
        /\ ele'.estatus = "READY" /\ ele'.evt = 1 /\ ele'.wait = left /\ ele'.reps = ele.reps
    BY <1>2, <2>2 DEF ElementData
  <2>5. CASE left <= 0
    <3>1. EventsLeft = 2 * n + 2 /\ EventsLeft' = 2 * n + 1
      BY <1>2, <1>3, <2>2, <2>4, <2>5
    <3>2. EventsLeft' \in 0..EventsLeft - 1
      BY <1>2, <3>1
    <3> QED BY <1>1, <2>4, <3>2, LeftLower
  <2>6. CASE ~(left <= 0)
    <3>1. /\ EventsLeft' = EventsLeft /\ FirstLeft' = FirstLeft
          /\ TimeLeft = ele.wait /\ TimeLeft' = left
      BY <1>3, <2>2, <2>4, <2>6
    <3>2. TimeLeft' \in 0..TimeLeft - 1
      BY <1>2, <2>3, <2>6, <3>1
    <3> QED BY <1>1, <2>4, <3>1, <3>2, LeftLower
  <2> QED BY <2>5, <2>6
<1> QED BY <1>4, <1>5

(* The working events: the next one, or a tick of this one to be shown.    *)
LEMMA WorkLowers ==
  ASSUME OnTrack, StartEvent \/ DoEvent \/ RunTimed \/ RunDistance \/ RunBmpRead \/ AllDone
  PROVE  Left' = Left \/ Below(Left', Left)
<1> DEFINE n == Len(This.work)
           m == ele.evt
<1>1. ele'.reps = ele.reps
  BY RepsUntouched DEF OnTrack
<1>2. UNCHANGED <<track, cur>> /\ pc = "event"
  BY DEF StartEvent, DoEvent, RunTimed, RunDistance, RunBmpRead, AllDone
<1>3. /\ SetInv /\ WayInv /\ ele \in ElementData /\ m \in Nat \ {0} /\ ele.wait \in Int
      /\ ele.dist \in Int /\ ele.speed \in Int /\ ele.accel \in Int
      /\ m <= n + 1 /\ n \in Nat /\ Moves(This) /\ This.work \in Seq(Event)
      /\ HasEvent => m <= n
  BY LastFacts DEF OnTrack, HasEvent
<1>4. /\ ele.status = "RUNNING" /\ SpeedSet(m, ele.speed)
      /\ InForce(This, "speedup", m, ele.accel)
  <2>1. ele.status \notin {"READY", "STARTING", "FINISHED"}
    BY <1>2, <1>3 DEF OnTrack, IInv, PlaceInv, WayInv
  <2> QED BY <1>3, <2>1 DEF SetInv, ElementData
<1> HIDE DEF n, m
<1>5. /\ EventsLeft = 2 * (n + 1 - m) + IF ele.estatus = "READY" THEN 1 ELSE 0
      /\ ele'.status = "RUNNING"  =>
           EventsLeft' = 2 * (n + 1 - ele'.evt) + IF ele'.estatus = "READY" THEN 1 ELSE 0
      /\ ele'.status = "FINISHED" => EventsLeft' = 0
  BY <1>2, <1>4, LeftValues DEF n, m
<1>6. ASSUME ele'.evt = m PROVE RunningEvent' = RunningEvent
  BY <1>2, <1>6 DEF RunningEvent, This, m
<1>7. ASSUME HasEvent, ele'.evt = m + 1, ele'.estatus = "READY", ele'.status = "RUNNING"
      PROVE  Below(Left', Left)
  <2>1. EventsLeft' = 2 * (n + 1 - (m + 1)) + 1
    BY <1>5, <1>7
  <2>2. EventsLeft' \in 0..EventsLeft - 1
    BY <1>3, <1>5, <1>7, <2>1
  <2> QED BY <1>1, <1>2, <2>2, LeftLower
<1>8. ASSUME ele.estatus = "RUNNING", ele'.evt = m, ele'.estatus = "RUNNING",
             ele'.status = "RUNNING", FirstLeft' = FirstLeft,
             TimeLeft' = TimeLeft \/ TimeLeft' \in 0..TimeLeft - 1
      PROVE  Left' = Left \/ Below(Left', Left)
  <2>1. EventsLeft' = EventsLeft
    BY <1>5, <1>8
  <2> QED BY <1>1, <1>2, <1>8, <2>1, LeftLower
<1>9. CASE StartEvent
  <2>1. /\ HasEvent /\ ele.estatus = "READY"
        /\ ele'.evt = m /\ ele'.estatus = "RUNNING" /\ ele'.status = "RUNNING"
    BY <1>3, <1>4, <1>9 DEF StartEvent, ElementData, m
  <2>2. EventsLeft' \in 0..EventsLeft - 1
    BY <1>3, <1>5, <2>1
  <2> QED BY <1>1, <1>2, <2>2, LeftLower
<1>10. CASE DoEvent
  <2>1. HasEvent /\ ele'.evt = m + 1 /\ ele'.estatus = "READY" /\ ele'.status = "RUNNING"
    BY <1>3, <1>4, <1>10 DEF DoEvent, NextEvent, ElementData, m
  <2> QED BY <1>7, <2>1
<1>11. CASE RunTimed
  <2>1. HasEvent /\ RunningEvent.type \in {"wait", "paint"} /\ ele.estatus = "RUNNING"
    BY <1>11 DEF RunTimed, RunningEvent
  <2>2. CASE ele.wait - 1 <= 0
    <3>1. ele'.evt = m + 1 /\ ele'.estatus = "READY" /\ ele'.status = "RUNNING"
      BY <1>3, <1>4, <1>11, <2>2 DEF RunTimed, NextEvent, ElementData, m
    <3> QED BY <1>7, <2>1, <3>1
  <2>3. CASE ~(ele.wait - 1 <= 0)
    <3>1. ele' = [ele EXCEPT !.wait = @ - 1] /\ pc' = "show"
      BY <1>11, <2>3 DEF RunTimed
    <3>2. /\ ele'.evt = m /\ ele'.estatus = "RUNNING" /\ ele'.status = "RUNNING"
          /\ ele'.wait = ele.wait - 1
      BY <1>3, <1>4, <2>1, <3>1 DEF ElementData, m
    <3>3. /\ AtWork /\ AtWork' /\ ~ ReadsToEnd /\ ~ ReadsToEnd'
          /\ RunningEvent.type # "distance" /\ RunningEvent' = RunningEvent
      BY <1>4, <1>6, <2>1, <3>2 DEF ReadsToEnd, AtWork
    <3>4. /\ FirstLeft = 0 /\ FirstLeft' = 0
          /\ TimeLeft = ele.wait /\ TimeLeft' = (ele.wait - 1) + 1
      BY <1>2, <1>3, <3>1, <3>2, <3>3, EventValues, EventValuesNext
    <3> QED BY <1>3, <1>8, <2>1, <3>2, <3>4
  <2> QED BY <2>2, <2>3
<1>12. CASE RunDistance
  <2>1. HasEvent /\ RunningEvent.type = "distance" /\ ele.estatus = "RUNNING"
    BY <1>12 DEF RunDistance, RunningEvent
  <2>2. CASE ele.dist - Speed <= 0
    <3>1. ele'.evt = m + 1 /\ ele'.estatus = "READY" /\ ele'.status = "RUNNING"
      BY <1>3, <1>4, <1>12, <2>2 DEF RunDistance, NextEvent, ElementData, m
    <3> QED BY <1>7, <2>1, <3>1
  <2>3. CASE ~(ele.dist - Speed <= 0)
    <3>1. ele' = [ele EXCEPT !.dist = @ - Speed] /\ pc' = "show"
      BY <1>12, <2>3 DEF RunDistance
    <3>2. /\ ele'.evt = m /\ ele'.estatus = "RUNNING" /\ ele'.status = "RUNNING"
          /\ ele'.dist = ele.dist - Speed /\ ele'.speed = ele.speed /\ ele'.accel = ele.accel
      BY <1>3, <1>4, <2>1, <3>1 DEF ElementData, m
    <3>3. Turn(ele.speed, ele.accel) = 0 => Speed >= 1
      <4>1. m \in Positions(This.work, {"distance"})
        BY <1>3, <2>1 DEF Positions, RunningEvent, m, n
      <4>2. \/ ~ InForce(This, "speedup", m, 0)
            \/ Steady(This, m) /\ ~ InForce(This, "speed", m, 0)
        BY <1>3, <4>1 DEF Moves
      <4>3. CASE ele.accel = 0
        <5>1. Steady(This, m) /\ ~ InForce(This, "speed", m, 0)
          BY <1>4, <4>2, <4>3
        <5>2. InForce(This, "speed", m, ele.speed) \/ InForce(This, "speed", m, -ele.speed)
          BY <1>4, <5>1 DEF SpeedSet
        <5>3. ele.speed # 0 \/ -ele.speed # 0
          BY <5>1, <5>2
        <5>4. ele.speed # 0
          BY <1>3, <5>3
        <5> QED BY <1>3, <5>4 DEF Speed
      <4>4. CASE ele.accel # 0
        BY <1>3, <4>4 DEF Turn, Speed
      <4> QED BY <4>3, <4>4
    <3>4. /\ AtWork /\ AtWork' /\ RunningEvent.type = "distance" /\ RunningEvent' = RunningEvent
      BY <1>4, <1>6, <2>1, <3>2 DEF AtWork
    <3>5. /\ FirstLeft = Turn(ele.speed, ele.accel)
          /\ TimeLeft = IF FirstLeft = 0 THEN ele.dist + 0 ELSE 0
      BY <1>2, <3>4, EventValues
    <3>6. /\ FirstLeft' = Turn(ele.speed, ele.accel)
          /\ TimeLeft' = IF FirstLeft' = 0 THEN (ele.dist - Speed) + 1 ELSE 0
      BY <3>1, <3>2, <3>4, EventValuesNext
    <3>7. Speed \in Int
      BY <1>3 DEF Speed
    <3>8. TimeLeft' = TimeLeft \/ TimeLeft' \in 0..TimeLeft - 1
      BY <1>3, <2>3, <3>3, <3>5, <3>6, <3>7
    <3> QED BY <1>8, <2>1, <3>2, <3>5, <3>6, <3>8
  <2> QED BY <2>2, <2>3
<1>13. CASE RunBmpRead
  <2>1. /\ HasEvent /\ RunningEvent.type = "bmp_read" /\ ele.estatus = "RUNNING"
        /\ UNCHANGED stream
    BY <1>13 DEF RunBmpRead, RunningEvent
  <2>2. CASE ~ Reading \/ (ele.wait > 0 /\ ele.wait - 1 <= 0)
    <3>1. ele' = NextEvent
      BY <1>3, <1>13, <2>2 DEF RunBmpRead, Reading
    <3>2. ele'.evt = m + 1 /\ ele'.estatus = "READY" /\ ele'.status = "RUNNING"
      BY <1>3, <1>4, <3>1 DEF NextEvent, ElementData, m
    <3> QED BY <1>7, <2>1, <3>2
  <2>3. CASE Reading /\ ~(ele.wait > 0 /\ ele.wait - 1 <= 0)
    <3>1. /\ ele' = IF ele.wait <= 0 THEN ele ELSE [ele EXCEPT !.wait = @ - 1]
          /\ pc' = "show"
      BY <1>3, <1>13, <2>3 DEF RunBmpRead, Reading
    <3>2. /\ ele'.evt = m /\ ele'.estatus = "RUNNING" /\ ele'.status = "RUNNING"
          /\ ele'.wait = IF ele.wait <= 0 THEN ele.wait ELSE ele.wait - 1
      BY <1>3, <1>4, <2>1, <3>1 DEF ElementData, m
    <3>3. /\ AtWork /\ AtWork' /\ RunningEvent' = RunningEvent
          /\ RunningEvent.type # "distance"
      BY <1>4, <1>6, <2>1, <3>2 DEF AtWork
    <3>4. CASE ele.wait <= 0
      <4>1. ReadsToEnd /\ ReadsToEnd' /\ ele' = ele
        BY <2>1, <3>1, <3>2, <3>3, <3>4 DEF ReadsToEnd
      <4>2. ToShow' = ToShow /\ stream'[cur'] = stream[cur]
        BY <1>2, <2>1, <4>1 DEF ToShow
      <4>3. FirstLeft' = FirstLeft /\ TimeLeft' = TimeLeft
        BY <3>3, <4>1, <4>2, EventValues, EventValuesNext
      <4> QED BY <1>8, <2>1, <3>2, <4>3
    <3>5. CASE ~(ele.wait <= 0)
      <4>1. ele'.wait = ele.wait - 1 /\ ~(ele'.wait <= 0)
        BY <1>3, <2>3, <3>2, <3>5
      <4>2. ~ ReadsToEnd /\ ~ ReadsToEnd'
        BY <3>5, <4>1 DEF ReadsToEnd
      <4>3. /\ FirstLeft = 0 /\ FirstLeft' = 0
            /\ TimeLeft = ele.wait /\ TimeLeft' = (ele.wait - 1) + 1
        BY <1>2, <1>3, <3>1, <3>3, <4>1, <4>2, EventValues, EventValuesNext
      <4> QED BY <1>3, <1>8, <2>1, <3>2, <4>3
    <3> QED BY <3>4, <3>5
  <2> QED BY <2>2, <2>3
<1>14. CASE AllDone
  <2>1. ~ HasEvent /\ ele' = [ele EXCEPT !.status = "FINISHED"]
    BY <1>14 DEF AllDone
  <2>2. ele.estatus = "READY"
    BY <1>3, <2>1 DEF WayInv, OnItsWay, ElementData
  <2>3. ele'.status = "FINISHED"
    BY <1>3, <2>1 DEF ElementData
  <2>4. EventsLeft' \in 0..EventsLeft - 1
    BY <1>3, <1>5, <2>2, <2>3
  <2> QED BY <1>1, <1>2, <2>4, LeftLower
<1> QED BY <1>9, <1>10, <1>11, <1>12, <1>13, <1>14

(* A tick that is shown: an acceleration brings the speed nearer to its    *)
(* direction, or the event has one tick less, or the stream one line less; *)
(* only a stream that has not ended decides itself when it does.           *)
LEMMA ShowLowers ==
  ASSUME OnTrack, Show PROVE Below(Left', Left) \/ (Left' = Left /\ AwaitsStream)
<1>1. /\ UNCHANGED <<track, cur>> /\ pc = "show" /\ pc' = "idle"
      /\ stream' = StreamAfter(ele.flags)
  BY DEF Show
<1>2. /\ SetInv /\ ele.status = "RUNNING" /\ ele.estatus = "RUNNING" /\ OnItsWay
      /\ ele.wait \in Int /\ ele.dist \in Int /\ ele.speed \in Int /\ ele.accel \in Int
      /\ ele \in ElementData /\ ele.evt \in Nat \ {0} /\ Len(This.work) \in Nat
      /\ This.work \in Seq(Event) /\ Displays(This)
  BY <1>1, LastFacts DEF OnTrack, WayInv
<1>3. Untouched
  BY Painting DEF OnTrack, IInv
<1>4. /\ ele'.flags = Cleared(ele.flags) /\ ele'.lines = LinesAfter(ele.flags)
      /\ ele'.speed = IF Frozen THEN ele.speed ELSE ele.speed + ele.accel
  BY <1>2 DEF Show, ElementData
<1>5. /\ EventsLeft' = EventsLeft /\ RunningEvent' = RunningEvent
      /\ ReadsToEnd' = ReadsToEnd
  BY <1>1, <1>3 DEF EventsLeft, RunningEvent, ReadsToEnd, This, IsElement, Untouched
<1>6. AtWork /\ AtWork' /\ cur' = cur
  BY <1>1, <1>2, <1>3 DEF AtWork, Untouched
<1>7. Frozen => RunningEvent.type = "wait"
  BY <1>2 DEF OnTrack, IInv, FrozenInv, RunningEvent
<1>8. /\ FirstLeft' \in 0..FirstLeft - 1 => Below(Left', Left)
      /\ FirstLeft' = FirstLeft =>
           /\ TimeLeft' = TimeLeft => Left' = Left
           /\ TimeLeft' \in 0..TimeLeft - 1 => Below(Left', Left)
  BY <1>1, <1>3, <1>5, LeftLower DEF Untouched
<1>9. CASE ~ ReadsToEnd /\ RunningEvent.type # "distance"
  <2>1. ele.wait >= 1
    BY <1>1, <1>2, <1>9 DEF OnItsWay, Amount
  <2>2. /\ FirstLeft = 0 /\ TimeLeft = ele.wait + 1
    BY <1>1, <1>6, <1>9, EventValues
  <2>3. /\ FirstLeft' = 0 /\ TimeLeft' = ele.wait + 0
    BY <1>1, <1>3, <1>5, <1>6, <1>9, EventValuesNext DEF Untouched
  <2>4. TimeLeft' \in 0..TimeLeft - 1 /\ FirstLeft' = FirstLeft
    BY <1>2, <2>1, <2>2, <2>3
  <2> QED BY <1>8, <2>4
<1>10. CASE RunningEvent.type = "distance"
  <2>1. ele.dist >= 1 /\ ~ Frozen
    BY <1>1, <1>2, <1>7, <1>10 DEF OnItsWay, Amount, ReadsToEnd
  <2>2. /\ FirstLeft = Turn(ele.speed, ele.accel)
        /\ TimeLeft = IF FirstLeft = 0 THEN ele.dist + 1 ELSE 0
    BY <1>1, <1>6, <1>10, EventValues
  <2>3. /\ FirstLeft' = Turn(ele.speed + ele.accel, ele.accel)
        /\ TimeLeft' = IF FirstLeft' = 0 THEN ele.dist + 0 ELSE 0
    BY <1>1, <1>3, <1>4, <1>5, <1>6, <1>10, <2>1, EventValuesNext DEF Untouched
  <2>4. \/ FirstLeft' \in 0..FirstLeft - 1
        \/ FirstLeft = 0 /\ FirstLeft' = 0
    BY <1>2, <2>2, <2>3 DEF Turn
  <2>5. FirstLeft = 0 /\ FirstLeft' = 0 => TimeLeft' \in 0..TimeLeft - 1
    BY <1>2, <2>1, <2>2, <2>3
  <2> QED BY <1>8, <2>4, <2>5
<1>11. CASE ReadsToEnd
  <2>1. stream[cur] \in Live /\ ele.object # NoObject /\ ~ Frozen /\ ele.wait <= 0
        /\ RunningEvent.type = "bmp_read" /\ RunningEvent.value = 0
    <3>1. Amount <= 0 /\ Amount \in Int
      BY <1>2, <1>11 DEF ReadsToEnd, Amount
    <3> QED BY <1>1, <1>2, <1>7, <1>11, <3>1 DEF Reading, ReadsToEnd, OnItsWay
  <2>2. CASE stream[cur] \in {"running", "unserved"}
    <3>1. stream' = stream
      BY <1>1, <2>2 DEF StreamAfter, TakesStream
    <3>2. FirstLeft = 1 /\ TimeLeft = 0 /\ FirstLeft' = 1 /\ TimeLeft' = 0
      BY <1>5, <1>6, <1>11, <2>2, <3>1, EventValues, EventValuesNext
    <3>3. AwaitsStream
      BY <1>2, <1>11, <2>2 DEF AwaitsStream
    <3> QED BY <1>8, <3>2, <3>3
  <2>3. CASE stream[cur] = "ended"
    <3>1. ele.object = BmpObject
      <4>1. HasEvent /\ ele.evt \in Positions(This.work, {"bmp_read"})
        BY <1>2, <2>1 DEF OnItsWay, HasEvent, Positions, RunningEvent
      <4>2. PICK o \in {NoObject, BmpObject} : InForce(This, "object", ele.evt, o)
        BY <2>1, <4>1, <1>2 DEF Displays, RunningEvent
      <4>3. InForce(This, "object", ele.evt, ele.object)
        BY <1>2 DEF SetInv
      <4>4. o = ele.object
        BY <1>2, <4>2, <4>3, OneInForce
      <4> QED BY <2>1, <4>2, <4>4
    <3>2. ele.lines \in Nat /\ ele.flags \in SUBSET {"WAIT", "CLEAR"} /\ "WAIT" \notin ele.flags
      BY <1>2, <2>1 DEF ElementData, Frozen
    <3>3. /\ ele'.flags = ele.flags \ {"CLEAR"}
          /\ TakesStream(ele.flags) <=> "CLEAR" \notin ele.flags
      BY <1>4, <2>3, <3>1, <3>2 DEF Cleared, TakesStream, IsThin, BmpObject, ThinBmp, ThinObject
    <3>4. FirstLeft = 0 /\ TimeLeft = ToShow
      BY <1>6, <1>11, <2>3, EventValues
    <3>5. FirstLeft' = 0 /\ TimeLeft' = IF stream'[cur] = "ended" THEN ToShow' ELSE 0
      <4>1. stream'[cur] \notin {"running", "unserved"}
        <5>1. cur \in DOMAIN stream
          BY TrackFacts DEF OnTrack, IInv, TypeOK
        <5> QED BY <1>1, <2>3, <5>1 DEF StreamAfter
      <4> QED BY <1>5, <1>6, <1>11, <4>1, EventValuesNext
    <3>6. CASE "CLEAR" \in ele.flags
      <4>1. ele'.lines = ele.lines /\ stream' = stream /\ "CLEAR" \notin ele'.flags
        BY <1>1, <1>4, <3>3, <3>6 DEF LinesAfter, StreamAfter
      <4>2. ToShow = 1 + ele.lines + 1 /\ ToShow' = 1 + ele.lines + 0
        BY <3>6, <4>1 DEF ToShow
      <4> QED BY <1>8, <2>3, <3>2, <3>4, <3>5, <4>1, <4>2
    <3>7. CASE "CLEAR" \notin ele.flags /\ ele.lines > 0
      <4>1. ele'.lines = ele.lines - 1 /\ stream' = stream /\ "CLEAR" \notin ele'.flags
        BY <1>1, <1>4, <3>2, <3>3, <3>7 DEF LinesAfter, StreamAfter
      <4>2. ToShow = 1 + ele.lines + 0 /\ ToShow' = 1 + (ele.lines - 1) + 0
        BY <3>7, <4>1 DEF ToShow
      <4> QED BY <1>8, <2>3, <3>2, <3>4, <3>5, <3>7, <4>1, <4>2
    <3>8. CASE "CLEAR" \notin ele.flags /\ ~(ele.lines > 0)
      <4>1. stream'[cur] = "over"
        <5>1. cur \in DOMAIN stream
          BY TrackFacts DEF OnTrack, IInv, TypeOK
        <5> QED BY <1>1, <3>2, <3>3, <3>8, <5>1 DEF StreamAfter
      <4>2. ToShow = 1 + ele.lines + 0
        BY <3>8 DEF ToShow
      <4> QED BY <1>8, <3>2, <3>4, <3>5, <4>1, <4>2
    <3> QED BY <3>6, <3>7, <3>8
  <2> QED BY <2>1, <2>2, <2>3 DEF Live
<1> QED BY <1>9, <1>10, <1>11

(* The end of a stream that is read brings the track nearer to its end,    *)
(* that of any other stream says nothing about it.                         *)
LEMMA StreamEndLowers ==
  ASSUME IInv, NoneLeft, tstatus # "FINISHED", NEW e \in DOMAIN track, StreamEnds(e)
  PROVE  Left' = Left \/ Below(Left', Left)
<1>1. /\ UNCHANGED <<track, cur, pc>> /\ stream[e] = "running"
      /\ stream' = [stream EXCEPT ![e] = "ended"]
  BY DEF StreamEnds
<1>2. Untouched /\ ele'.speed = ele.speed
  <2>1. ~ Show \/ ele'.speed = ele.speed
    BY DEF StreamEnds, Show, IInv, TypeOK, ElementData
  <2> QED BY <2>1, Painting DEF IInv
<1>3. /\ EventsLeft' = EventsLeft /\ RunningEvent' = RunningEvent
      /\ ReadsToEnd' = ReadsToEnd /\ AtWork' = AtWork
  BY <1>1, <1>2 DEF EventsLeft, RunningEvent, ReadsToEnd, AtWork, This, IsElement, Untouched
<1>4. /\ FirstLeft' \in 0..FirstLeft - 1 => Below(Left', Left)
      /\ FirstLeft' = FirstLeft /\ TimeLeft' = TimeLeft => Left' = Left
  BY <1>1, <1>2, <1>3, LeftLower DEF Untouched
<1>5. AtWork => cur \in DOMAIN stream /\ DOMAIN stream = DOMAIN track
  BY TrackFacts DEF IInv, TypeOK, NoneLeft, AtWork
<1>6. CASE AtWork /\ ReadsToEnd
  <2>1. CASE e = cur
    <3>1. stream[cur] = "running" /\ stream'[cur'] = "ended"
      BY <1>1, <1>5, <1>6, <2>1
    <3>2. FirstLeft = 1 /\ FirstLeft' = 0
      BY <1>3, <1>6, <3>1, EventValues, EventValuesNext
    <3> QED BY <1>4, <3>2
  <2>2. CASE e # cur
    <3>1. stream'[cur'] = stream[cur]
      BY <1>1, <1>5, <1>6, <2>2
    <3>2. ele' = ele
      BY <2>2 DEF StreamEnds, IInv, TypeOK, ElementData
    <3>3. ToShow' = ToShow
      BY <3>2 DEF ToShow
    <3>4. FirstLeft' = FirstLeft /\ TimeLeft' = TimeLeft
      BY <1>3, <1>6, <3>1, <3>3, EventValues, EventValuesNext
    <3> QED BY <1>4, <3>4
  <2> QED BY <2>1, <2>2
<1>7. CASE ~(AtWork /\ ReadsToEnd)
  <2>1. /\ RunningEvent'.type = RunningEvent.type /\ ele'.wait = ele.wait /\ pc' = pc
        /\ ele'.dist = ele.dist /\ ele'.accel = ele.accel /\ ele'.status = ele.status
    BY <1>1, <1>2, <1>3 DEF Untouched
  <2>2. FirstLeft' = FirstLeft /\ TimeLeft' = TimeLeft
    BY <1>2, <1>3, <1>7, <2>1, EventValues, EventValuesNext
  <2> QED BY <1>4, <2>2
<1> QED BY <1>6, <1>7

LEMMA LeftPasses ==
  ASSUME UNCHANGED <<track, cur>>, Untouched, ele'.speed = ele.speed,
         pc = "show" <=> pc' = "show",
         UNCHANGED <<ele, stream>> \/ ele.status = "FINISHED"
  PROVE  Left' = Left
<1>1. /\ EventsLeft' = EventsLeft /\ RunningEvent' = RunningEvent
      /\ ReadsToEnd' = ReadsToEnd /\ AtWork' = AtWork
  BY DEF EventsLeft, RunningEvent, ReadsToEnd, AtWork, This, IsElement, Untouched
<1>2. FirstLeft' = FirstLeft /\ TimeLeft' = TimeLeft
  <2>1. CASE ~ AtWork
    BY <1>1, <2>1, EventValues, EventValuesNext DEF Untouched
  <2>2. CASE AtWork
    <3>1. ToShow' = ToShow /\ stream'[cur'] = stream[cur] /\ ele' = ele
      BY <2>2 DEF ToShow, AtWork
    <3> QED BY <1>1, <2>2, <3>1, EventValues, EventValuesNext
  <2> QED BY <2>1, <2>2
<1> QED BY <1>1, <1>2, LeftLower DEF Untouched

(* The element begins again with one play less, or the next one begins.    *)
LEMMA EndLowers == ASSUME OnTrack, DoRepeat \/ LeaveElement PROVE Below(Left', Left)
<1>1. CASE DoRepeat
  <2>1. Repeats(cur) # 0 /\ ele.reps \in Int
    BY LastFacts DEF OnTrack
  <2>2. /\ UNCHANGED <<track, cur>> /\ ele.reps - 1 > 0
        /\ ele'.reps = ele.reps - 1
    BY <1>1, <2>1 DEF DoRepeat, Fresh
  <2>3. ele'.reps \in 0..ele.reps - 1
    BY <2>1, <2>2
  <2>4. ElementsLeft' = ElementsLeft
    BY <2>2 DEF ElementsLeft
  <2> QED BY <2>3, <2>4, LeftLower
<1>2. CASE LeaveElement
  BY <1>2, ElementDescends, LeftLower DEF OnTrack
<1> QED BY <1>1, <1>2

LEMMA TrackLowers ==
  ASSUME IInv, PlayInv, LeftInv, LastInv, NoneLeft, [Next]_vars,
         HasEnd, tstatus # "FINISHED", tstatus' # "FINISHED"
  PROVE  /\ Left' = Left \/ Below(Left', Left)
         /\ pc # "idle" /\ pc' = "idle" => Below(Left', Left) \/ AwaitsStream
<1>1. pc \notin {"idle", "element"} => OnTrack /\ ele.status # "READY"
  BY DEF OnTrack, IInv, PlaceInv, TypeOK, Places
<1>2. CASE InitElement \/ Starting
  <2>1. OnTrack
    BY <1>1, <1>2 DEF InitElement, Starting, OnTrack
  <2> QED BY <1>2, <2>1, ElementLowers
<1>3. CASE StartEvent \/ DoEvent \/ RunTimed \/ RunDistance \/ RunBmpRead \/ AllDone
  <2>1. OnTrack /\ pc' # "idle"
    BY <1>1, <1>3 DEF StartEvent, DoEvent, RunTimed, RunDistance, RunBmpRead, AllDone
  <2> QED BY <1>3, <2>1, WorkLowers
<1>4. CASE DoRepeat \/ LeaveElement
  <2>1. OnTrack
    BY <1>1, <1>4 DEF DoRepeat, LeaveElement
  <2> QED BY <1>4, <2>1, EndLowers
<1>5. CASE Show
  <2>1. OnTrack
    BY <1>1, <1>5 DEF Show
  <2> QED BY <1>5, <2>1, ShowLowers
<1>6. CASE \/ Tick \/ ElementGoesOn \/ Started \/ Working \/ Final
           \/ Continue \/ UNCHANGED vars
  <2>1. /\ UNCHANGED <<track, cur>> /\ (pc = "show" <=> pc' = "show")
        /\ ~(pc # "idle" /\ pc' = "idle")
    BY <1>6 DEF Tick, ElementGoesOn, Started, Working, Final, Continue, vars
  <2>2. UNCHANGED <<ele, stream>> \/ Final
    BY <1>6 DEF Tick, ElementGoesOn, Started, Working, Continue, vars
  <2>3. Final => ele.status = "FINISHED"
    BY <1>1 DEF OnTrack, LastInv, WayInv, Final
  <2>4. Untouched /\ ele'.speed = ele.speed
    <3>1. Final => ~ Show
      BY DEF Final, Show
    <3> QED BY <2>2, <3>1, Painting DEF IInv, Untouched
  <2> QED BY <2>1, <2>2, <2>3, <2>4, LeftPasses
<1>7. ASSUME NEW e \in DOMAIN track, StreamEnds(e)
      PROVE  /\ Left' = Left \/ Below(Left', Left)
             /\ ~(pc # "idle" /\ pc' = "idle")
  BY <1>7, StreamEndLowers DEF StreamEnds
<1>8. ~(TrackDone \/ Stop \/ Restart)
  BY DEF TrackDone, Stop, Restart
<1>9. ~ NothingToWork
  <2> SUFFICES ASSUME NothingToWork PROVE FALSE
    OBVIOUS
  <2>1. pc = "work" /\ ~ HasEvent
    BY DEF NothingToWork
  <2>2. OnTrack /\ WayInv /\ ele.status \notin {"READY", "STARTING"} /\ ele \in ElementData
    BY <1>1, <2>1 DEF OnTrack, LastInv, IInv, PlaceInv, TypeOK
  <2> QED BY <2>1, <2>2 DEF WayInv, ElementData
<1> QED BY <1>2, <1>3, <1>4, <1>5, <1>6, <1>7, <1>8, <1>9 DEF Next, InTick, Between

LEMMA TrackBegins == Init => NoneLeft
BY DEF Init, Fresh, NoneLeft

(* A track whose elements have an end comes nearer to it in every tick     *)
(* that does not wait for a stream that has not ended, and nothing puts it *)
(* back (process_events.c 129-476).                                        *)
THEOREM TracksDescend == Spec => TrackDescends
<1> DEFINE Descends ==
      HasEnd /\ tstatus # "FINISHED" /\ tstatus' # "FINISHED" =>
       /\ Left' = Left \/ Below(Left', Left)
       /\ pc # "idle" /\ pc' = "idle" => Below(Left', Left) \/ AwaitsStream
<1>1. Spec => [](PlayInv /\ LeftInv /\ LastInv /\ NoneLeft)
  BY LeftBegins, PlayKept, LeftKept, LastBegins, LastKept, TrackBegins, NoneLeftKept,
     InvariantHolds, PTL DEF Spec
<1>2. IInv /\ PlayInv /\ LeftInv /\ LastInv /\ NoneLeft /\ [Next]_vars => [Descends]_vars
  <2> SUFFICES ASSUME IInv, PlayInv, LeftInv, LastInv, NoneLeft, [Next]_vars PROVE Descends
    OBVIOUS
  <2> QED BY TrackLowers
<1> QED BY <1>1, <1>2, InvariantHolds, PTL DEF Spec, TrackDescends
=============================================================================
