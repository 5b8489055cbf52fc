----------------------------- MODULE HttpsProofs -----------------------------
(***************************************************************************)
(* Theorems of HttpsClients, for every number of slots, elements and heap  *)
(* blocks.  SlotsInv is inductive; that the slots are a pool follows from  *)
(* it step by step.                                                        *)
(***************************************************************************)
EXTENDS HttpsClients, TLAPS

LEMMA InitEstablishes == Init => SlotsInv
BY HttpsAssumption DEF Init, SlotsInv, TypeOK, Slots, TaskPlaces, Phases, OwnStream,
     NoStreamLeftOpen

(* The parts of the state of one stream, all of which a step of the timer  *)
(* task or of the httpd task may touch.                                    *)
LEMMA TimerKeeps == SlotsInv /\ (TimerTask \/ ClearTracks) => SlotsInv'
<1> USE HttpsAssumption DEF SlotsInv, TypeOK, Slots, TaskPlaces, Phases, Running
<1> SUFFICES ASSUME SlotsInv, TimerTask \/ ClearTracks PROVE SlotsInv'
  OBVIOUS
<1>1. ASSUME NEW e \in Elements, OpenUrl(e) PROVE SlotsInv'
  <2>1. PICK b \in Blocks :
          /\ IF w_bmp[e] = Null THEN b \notin live
                                ELSE b = w_bmp[e] /\ phase[b] = "IDLE"
          /\ w_bmp' = [w_bmp EXCEPT ![e] = b]
          /\ live' = live \cup {b}
          /\ phase' = [phase EXCEPT ![b] = "IDLE"]
          /\ ended' = ended \ {b}
          /\ unserved' = unserved \ {b}
    BY <1>1 DEF OpenUrl
  <2>2. tpc' = "init" /\ cur' = e /\ UNCHANGED <<slotVars, scan, up>>
    BY <1>1 DEF OpenUrl
  <2>3. TypeOK'
    BY <2>1, <2>2 DEF slotVars
  <2>4. OwnStream'
    BY <2>1, <2>2 DEF OwnStream
  <2>5. NoStreamLeftOpen'
    <3> SUFFICES ASSUME NEW c \in live', phase'[c] # "IDLE"
                 PROVE  HasReader(c)' \/ c \in ended' \/ c \in unserved'
      BY DEF NoStreamLeftOpen
    <3>1. c # b /\ c \in live /\ phase[c] # "IDLE"
      BY <2>1
    <3>2. HasReader(c) \/ c \in ended \/ c \in unserved
      BY <1>1, <3>1 DEF NoStreamLeftOpen, Opening, OpenUrl
    <3>3. HasReader(c) => HasReader(c)'
      BY <2>2 DEF HasReader, slotVars
    <3> QED BY <2>1, <3>1, <3>2, <3>3
  <2> QED BY <2>1, <2>2, <2>3, <2>4, <2>5 DEF slotVars
<1>2. ASSUME NEW e \in Elements, ShowEnd(e) PROVE SlotsInv'
  <2>1. TypeOK'
    BY <1>2 DEF ShowEnd, SetPhase, slotVars, openVars
  <2>2. OwnStream'
    BY <1>2 DEF ShowEnd, OwnStream
  <2>3. NoStreamLeftOpen'
    BY <1>2 DEF ShowEnd, SetPhase, NoStreamLeftOpen, HasReader, Opening, slotVars, openVars
  <2> QED BY <1>2, <2>1, <2>2, <2>3 DEF ShowEnd, slotVars, openVars
<1>3. ASSUME NEW e \in Elements, ResetElement(e) PROVE SlotsInv'
  <2>1. TypeOK'
    BY <1>3 DEF ResetElement, Free, slotVars, openVars
  <2>2. OwnStream'
    BY <1>3 DEF ResetElement, Free, OwnStream
  <2>3. NoStreamLeftOpen'
    BY <1>3 DEF ResetElement, Free, NoStreamLeftOpen, HasReader, Opening, slotVars, openVars
  <2> QED BY <1>3, <2>1, <2>2, <2>3 DEF ResetElement, slotVars, openVars
<1>4. ASSUME InitData PROVE SlotsInv'
  <2>1. TypeOK'
    BY <1>4 DEF InitData, SetPhase, slotVars
  <2>2. OwnStream'
    BY <1>4 DEF InitData, OwnStream
  <2>3. NoStreamLeftOpen'
    BY <1>4 DEF InitData, SetPhase, NoStreamLeftOpen, HasReader, Opening, slotVars
  <2> QED BY <1>4, <2>1, <2>2, <2>3 DEF InitData, slotVars
<1>5. ASSUME SkipSlot PROVE SlotsInv'
  BY <1>5 DEF SkipSlot, OwnStream, NoStreamLeftOpen, HasReader, Opening, slotVars, heapVars
<1>6. ASSUME NoSlot PROVE SlotsInv'
  <2>1. TypeOK'
    BY <1>6 DEF NoSlot, LeaveAlone, OpenDone, slotVars
  <2>2. OwnStream'
    BY <1>6 DEF NoSlot, OwnStream
  <2>3. NoStreamLeftOpen'
    BY <1>6 DEF NoSlot, LeaveAlone, OpenDone, NoStreamLeftOpen, HasReader, Opening, OwnStream, slotVars
  <2> QED BY <1>6, <2>1, <2>2, <2>3 DEF NoSlot, OpenDone, slotVars
<1>7. ASSUME TakeSlot PROVE SlotsInv'
  <2>1. TypeOK'
    BY <1>7 DEF TakeSlot, FoundSlot, OpenDone, heapVars
  <2>2. OwnStream'
    BY <1>7 DEF TakeSlot, OwnStream, heapVars
  <2>3. \A s \in Slots : task'[s] # "none" => status'[s] = "ACTIVE" /\ args'[s] \in Blocks
    BY <1>7 DEF TakeSlot, FoundSlot
  <2>4. \A b \in Blocks : HasReader(b) => HasReader(b)'
    BY <1>7 DEF TakeSlot, FoundSlot, HasReader
  <2>5. \A b \in Blocks : Opening(b) => HasReader(b)'
    BY <1>7 DEF TakeSlot, FoundSlot, HasReader, Opening
  <2>6. NoStreamLeftOpen'
    BY <1>7, <2>4, <2>5 DEF TakeSlot, NoStreamLeftOpen, heapVars
  <2> QED BY <1>7, <2>1, <2>2, <2>3, <2>6 DEF TakeSlot, FoundSlot, OpenDone
<1>8. ASSUME TaskNotCreated PROVE SlotsInv'
  <2>1. TypeOK'
    BY <1>8 DEF TaskNotCreated, FoundSlot, LeaveAlone, OpenDone
  <2>2. OwnStream'
    BY <1>8 DEF TaskNotCreated, OwnStream
  <2>3. NoStreamLeftOpen'
    BY <1>8 DEF TaskNotCreated, FoundSlot, LeaveAlone, OpenDone, NoStreamLeftOpen, HasReader, Opening
  <2> QED BY <1>8, <2>1, <2>2, <2>3 DEF TaskNotCreated, FoundSlot, OpenDone
<1>9. ASSUME ClearTracks PROVE SlotsInv'
  <2>1. TypeOK'
    BY <1>9 DEF ClearTracks, Free, slotVars, openVars
  <2>2. OwnStream'
    BY <1>9 DEF ClearTracks, Free, OwnStream
  <2>3. NoStreamLeftOpen'
    BY <1>9 DEF ClearTracks, Free, NoStreamLeftOpen
  <2> QED BY <1>9, <2>1, <2>2, <2>3 DEF ClearTracks, slotVars, openVars
<1> QED
  BY <1>1, <1>2, <1>3, <1>4, <1>5, <1>6, <1>7, <1>8, <1>9 DEF TimerTask

(* A reader leaves its stream only after it has announced the end, or      *)
(* through the exit that announces nothing.                                *)
LEMMA HttpKeeps == ASSUME NEW s \in Slots, SlotsInv, HttpTask(s) PROVE SlotsInv'
<1> USE HttpsAssumption DEF SlotsInv, TypeOK, Slots, TaskPlaces, Phases, Running
<1>1. CASE ClientInitFails(s)
  <2>1. TypeOK' BY <1>1 DEF ClientInitFails, Go, LeaveAlone, openVars
  <2>2. OwnStream' BY <1>1 DEF ClientInitFails, OwnStream
  <2>3. NoStreamLeftOpen'
    BY <1>1 DEF ClientInitFails, Go, LeaveAlone, NoStreamLeftOpen, HasReader, Opening, openVars
  <2> QED BY <1>1, <2>1, <2>2, <2>3 DEF ClientInitFails, Go, openVars
<1>2. CASE ConnectFails(s)
  <2>1. TypeOK' BY <1>2 DEF ConnectFails, Go, MarkEnd, openVars
  <2>2. OwnStream' BY <1>2 DEF ConnectFails, OwnStream
  <2>3. NoStreamLeftOpen'
    BY <1>2 DEF ConnectFails, Go, MarkEnd, NoStreamLeftOpen, HasReader, Opening, openVars
  <2> QED BY <1>2, <2>1, <2>2, <2>3 DEF ConnectFails, Go, openVars
<1>3. CASE InitFree(s)
  <2>1. TypeOK' BY <1>3 DEF InitFree, Go, SetPhase, openVars
  <2>2. OwnStream' BY <1>3 DEF InitFree, OwnStream
  <2>3. NoStreamLeftOpen'
    BY <1>3 DEF InitFree, Go, SetPhase, NoStreamLeftOpen, HasReader, Opening, openVars
  <2> QED BY <1>3, <2>1, <2>2, <2>3 DEF InitFree, Go, openVars
<1>4. CASE InitPhase(s)
  <2>1. TypeOK' BY <1>4 DEF InitPhase, Go, SetPhase, openVars
  <2>2. OwnStream' BY <1>4 DEF InitPhase, OwnStream
  <2>3. NoStreamLeftOpen'
    BY <1>4 DEF InitPhase, Go, SetPhase, NoStreamLeftOpen, HasReader, Opening, openVars
  <2> QED BY <1>4, <2>1, <2>2, <2>3 DEF InitPhase, Go, openVars
<1>5. CASE StopReading(s)
  <2>1. TypeOK' BY <1>5 DEF StopReading, Go, heapVars, openVars
  <2>2. OwnStream' BY <1>5 DEF StopReading, OwnStream, heapVars
  <2>3. NoStreamLeftOpen'
    BY <1>5 DEF StopReading, Go, NoStreamLeftOpen, HasReader, Opening, heapVars, openVars
  <2> QED BY <1>5, <2>1, <2>2, <2>3 DEF StopReading, Go, heapVars, openVars
<1>6. CASE Finish(s)
  <2>1. TypeOK' BY <1>6 DEF Finish, Go, MarkEnd, openVars
  <2>2. OwnStream' BY <1>6 DEF Finish, OwnStream
  <2>3. NoStreamLeftOpen'
    BY <1>6 DEF Finish, Go, MarkEnd, NoStreamLeftOpen, HasReader, Opening, openVars
  <2> QED BY <1>6, <2>1, <2>2, <2>3 DEF Finish, Go, openVars
<1>7. CASE TaskEnds(s)
  <2>1. TypeOK' BY <1>7 DEF TaskEnds, Go, heapVars, openVars
  <2>2. OwnStream' BY <1>7 DEF TaskEnds, OwnStream, heapVars
  <2>3. NoStreamLeftOpen'
    BY <1>7 DEF TaskEnds, Go, NoStreamLeftOpen, HasReader, Opening, heapVars, openVars
  <2> QED BY <1>7, <2>1, <2>2, <2>3 DEF TaskEnds, Go, heapVars, openVars
<1> QED BY <1>1, <1>2, <1>3, <1>4, <1>5, <1>6, <1>7 DEF HttpTask

LEMMA StepKeeps == SlotsInv /\ [Next]_vars => SlotsInv'
<1> SUFFICES ASSUME SlotsInv, [Next]_vars PROVE SlotsInv'
  OBVIOUS
<1>1. CASE TimerTask \/ ClearTracks
  BY <1>1, TimerKeeps
<1>2. ASSUME NEW s \in Slots, HttpTask(s) PROVE SlotsInv'
  BY <1>2, HttpKeeps
<1>4. ASSUME NEW s \in Slots, Fault(s) PROVE SlotsInv'
  BY <1>4 DEF Fault, SlotsInv, TypeOK, OwnStream, NoStreamLeftOpen, HasReader, Opening,
       slotVars, heapVars, openVars
<1>3. CASE UNCHANGED vars
  BY <1>3 DEF SlotsInv, TypeOK, OwnStream, NoStreamLeftOpen, HasReader, Opening,
       vars, slotVars, heapVars, openVars
<1> QED BY <1>1, <1>2, <1>3, <1>4 DEF Next

(* The inductive invariant, whatever the number of slots, elements and     *)
(* blocks (https_get.c 197-262, process_bmp.c 247-299).                    *)
THEOREM SlotsSafe == Spec => []SlotsInv
<1> QED BY InitEstablishes, StepKeeps, PTL DEF Spec

(* A stream that is not IDLE has a reader or an end mark (process_bmp.c    *)
(* 230-245, bmp.c 326-348), but for the three exits of https_get.c that    *)
(* tell nobody.                                                            *)
THEOREM StreamsServed == Spec => []NoStreamLeftOpen
<1>1. SlotsInv => NoStreamLeftOpen
  BY DEF SlotsInv
<1> QED BY <1>1, SlotsSafe, PTL

LEMMA PoolStep == SlotsInv /\ [Next]_vars =>
  [Pool!Next]_<<{s \in Slots : task[s] # "none"}, Lost>>
<1> DEFINE InUse == {s \in Slots : task[s] # "none"}
<1> USE HttpsAssumption DEF SlotsInv, TypeOK, Slots, TaskPlaces, Lost
<1> SUFFICES ASSUME SlotsInv, [Next]_vars
             PROVE  Pool!Next \/ UNCHANGED <<InUse, Lost>>
  OBVIOUS
<1>1. CASE TakeSlot
  <2>1. scan \in Slots /\ scan \notin InUse \cup Lost
    BY <1>1 DEF TakeSlot, FoundSlot
  <2>2. InUse' = InUse \cup {scan} /\ Lost' = Lost
    BY <1>1 DEF TakeSlot, FoundSlot
  <2> QED BY <2>1, <2>2 DEF Pool!Next, Pool!Take
<1>2. CASE TaskNotCreated
  <2>1. scan \in Slots /\ scan \notin InUse \cup Lost
    BY <1>2 DEF TaskNotCreated, FoundSlot
  <2>2. InUse' = InUse /\ Lost' = Lost \cup {scan}
    BY <1>2 DEF TaskNotCreated, FoundSlot
  <2> QED BY <2>1, <2>2 DEF Pool!Next, Pool!Lose
<1>3. ASSUME NEW s \in Slots, TaskEnds(s) PROVE Pool!Next
  <2>1. s \in InUse
    BY <1>3 DEF TaskEnds
  <2>2. InUse' = InUse \ {s} /\ Lost' = Lost
    BY <1>3 DEF TaskEnds, Go
  <2> QED BY <2>1, <2>2 DEF Pool!Next, Pool!Give
<1>4. ASSUME NEW s \in Slots, HttpTask(s), ~TaskEnds(s) PROVE UNCHANGED <<InUse, Lost>>
  <2>1. \E p \in TaskPlaces : p # "none" /\ Go(s, p)
    BY <1>4 DEF HttpTask, ClientInitFails, ConnectFails, InitFree, InitPhase, StopReading, Finish
  <2>2. task[s] # "none" /\ UNCHANGED status
    BY <1>4 DEF HttpTask, ClientInitFails, ConnectFails, InitFree, InitPhase, StopReading, Finish
  <2> QED BY <2>1, <2>2 DEF Go
<1>5. CASE \/ TimerTask /\ ~TakeSlot /\ ~TaskNotCreated
           \/ ClearTracks \/ (\E s \in Slots : Fault(s)) \/ UNCHANGED vars
  BY <1>5 DEF TimerTask, OpenUrl, ShowEnd, ResetElement, InitData, SkipSlot, NoSlot, ClearTracks,
       Fault, vars, slotVars
<1> QED BY <1>1, <1>2, <1>3, <1>4, <1>5 DEF Next, TimerTask

(* The client slots implement the pool: taken only when free, one task at  *)
(* a time, back from every exit of do_https_get (https_get.c 80-211).      *)
THEOREM SlotsImplementPool == Spec => SlotsArePool
<1>1. Init => Pool!Init
  BY DEF Init, Pool!Init, Lost
<1> QED BY <1>1, SlotsSafe, PoolStep, PTL DEF Spec, SlotsArePool, Pool!Spec

=============================================================================
