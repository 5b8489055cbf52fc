--------------------------- MODULE BmpStreamProofs ---------------------------
(***************************************************************************)
(* Proofs about BmpStream: StreamInv is inductive; it gives the exclusive  *)
(* use of the read buffers and the step simulation of ImageFeed.           *)
(***************************************************************************)
EXTENDS BmpStream, TLAPS

(* The state that bmp_open_url leaves behind satisfies the invariant. *)
LEMMA InitInv == Init => StreamInv
<1> SUFFICES ASSUME Init PROVE StreamInv
  OBVIOUS
<1> USE BmpAssumption DEF Init
<1>1. TypeOK
  <2>1. fill \in [Buffers -> Nat]
    BY DEF Buffers
  <2>2. /\ phase \in Phases /\ rpc \in ReaderPlaces /\ wpc \in WorkerPlaces
        /\ wbits \in SUBSET WorkerBits /\ rbits \in SUBSET ReaderBits
        /\ bufno \in {0} \cup Buffers /\ line \in 0 .. Lines /\ received \in 0 .. MaxBuffers /\ shown \in Nat
    BY DEF Phases, ReaderPlaces, WorkerPlaces
  <2> HIDE DEF Init
  <2>3. mem = FALSE /\ eof = FALSE /\ outcome = "none"
    BY DEF Init
  <2> QED
    BY <2>1, <2>2, <2>3 DEF TypeOK
<1>2. OneMark
  BY DEF OneMark
<1>3. PhaseInv
  BY DEF PhaseInv, HeaderPhases, DataPhases
<1>4. HandoverInv
  BY DEF HandoverInv, NothingOutstanding, Outstanding, Buffers
<1>5. CountInv
  BY DEF CountInv, EndLosesOnlyLast, NothingOutstanding, Outstanding, Buffers, DataPhases
<1>6. EndIsMarked
  BY DEF EndIsMarked
<1> QED
  BY <1>1, <1>2, <1>3, <1>4, <1>5, <1>6 DEF StreamInv

(* Every step of the http task and of the timer task preserves it. *)
LEMMA StepInv == StreamInv /\ [Next]_vars => StreamInv'
<1> SUFFICES ASSUME StreamInv, [Next]_vars PROVE StreamInv'
  OBVIOUS
<1> USE BmpAssumption
    DEF StreamInv, TypeOK, OneMark, PhaseInv, HandoverInv, CountInv, EndLosesOnlyLast,
        EndIsMarked, NothingOutstanding, Outstanding, Target, Other,
        HasData, Buffers, Phases, HeaderPhases, DataPhases, ReaderPlaces,
        WorkerPlaces, WorkerBits, ReaderBits, readerVars, workerVars, ReaderEnds
<1>1. CASE Connected
  BY <1>1 DEF Connected
<1>2. CASE ConnectFails
  BY <1>2 DEF ConnectFails
<1>3. CASE ClientInitFails
  BY <1>3 DEF ClientInitFails
<1>4. CASE InitFree
  BY <1>4 DEF InitFree
<1>5. CASE InitPhase
  BY <1>5 DEF InitPhase
<1>6. ASSUME NEW last \in BOOLEAN, Receive(last)
      PROVE StreamInv'
  <2> USE <1>6 DEF Receive
  <2>1. CASE phase \in DataPhases
    <3>1. fill' \in [{1, 2} -> Nat] /\ received' \in 0 .. MaxBuffers
      BY <2>1
    <3>2. \A b \in {1, 2} : b # Target => fill'[b] = fill[b]
      BY <2>1
    <3>3. fill'[Target] = received' /\ received' = received + 1
      BY <2>1
    <3>4. TypeOK'
      <4> HIDE DEF Receive
      <4>1. /\ UNCHANGED <<phase, mem, wbits, rbits, outcome, wpc, bufno, line, shown>>
            /\ eof' \in BOOLEAN /\ rpc' = "callback"
        BY DEF Receive
      <4> QED
        BY <3>1, <4>1
    <3>5. OneMark' /\ PhaseInv' /\ HandoverInv' /\ EndIsMarked'
      BY <2>1
    <3>6. CountInv'
      <4>1. /\ UNCHANGED <<phase, wbits, bufno, shown, outcome>>
            /\ rpc = "receive" /\ rpc' = "callback"
        OBVIOUS
      <4> HIDE DEF Receive
      <4>2. \A b \in {1, 2} : Outstanding(b) => b # Target /\ fill'[b] = shown + 1 /\ shown < received
        BY <3>2, <4>1
      <4>3. received' = received + 1 /\ received <= shown + 1 /\ shown <= received
        BY <3>3, <4>1
      <4> QED
        BY <2>1, <3>3, <4>1, <4>2, <4>3
    <3> QED
      BY <3>4, <3>5, <3>6
  <2>2. CASE phase \notin DataPhases
    BY <2>2
  <2> QED
    BY <2>1, <2>2
<1>8. CASE ReceiveNothing
  BY <1>8 DEF ReceiveNothing
<1>9. CASE CallbackEntry
  BY <1>9 DEF CallbackEntry
<1>10. CASE HeaderAccepted
  <2> USE <1>10 DEF HeaderAccepted, AfterHeader
  <2>1. /\ phase' \in {"GOT_INFO_HEADER", "GOT_SKIPPED_DATA", "GOT_FIRST_DATA_BUFFER1"}
        /\ phase # "GOT_FILE_HEADER" => mem'
        /\ phase = "GOT_FILE_HEADER" => phase' = "GOT_INFO_HEADER"
        /\ mem' \in BOOLEAN
    BY DEF NextHeaderPhase
  <2>2. rpc' \in {"finish_clear", "receive"} /\ outcome' \in {"none", "eof", "error", "stop", "timeout"}
    OBVIOUS
  <2>3. TypeOK'
    BY <2>1, <2>2
  <2>4. OneMark'
    BY <2>2
  <2>5. PhaseInv'
    BY <2>1, <2>2
  <2>6. HandoverInv'
    BY <2>1, <2>2
  <2>7. CountInv' /\ EndIsMarked'
    BY <2>1, <2>2
  <2> QED
    BY <2>3, <2>4, <2>5, <2>6, <2>7
<1>11. CASE HeaderRejected
  BY <1>11 DEF HeaderRejected
<1>12. CASE BufferFilled
  BY <1>12 DEF BufferFilled
<1>13. CASE WaitProcessed
  BY <1>13 DEF WaitProcessed
<1>14. CASE WaitStopped
  BY <1>14 DEF WaitStopped
<1>15. CASE WaitTimesOut
  BY <1>15 DEF WaitTimesOut
<1>16. CASE PublishClear
  BY <1>16 DEF PublishClear
<1>17. CASE PublishSet
  BY <1>17 DEF PublishSet
<1>18. CASE FinishClear
  BY <1>18 DEF FinishClear
<1>19. CASE FinishSet
  <2> USE <1>19 DEF FinishSet
  <2>1. wbits = {} /\ wbits' = {"NO_MORE_DATA"} /\ phase # "IDLE" /\ wpc # "free"
    OBVIOUS
  <2>2. TypeOK' /\ OneMark' /\ PhaseInv'
    BY <2>1
  <2>3. HandoverInv' /\ CountInv' /\ EndIsMarked'
    BY <2>1
  <2> QED
    BY <2>2, <2>3
<1>20. CASE Poll
  BY <1>20 DEF Poll
<1>21. ASSUME NEW b \in Buffers, TakeBuffer(b) PROVE StreamInv'
  BY <1>21 DEF TakeBuffer
<1>22. CASE TakeEnd
  BY <1>22 DEF TakeEnd
<1>23. CASE TakeTimesOut
  BY <1>23 DEF TakeTimesOut
<1>24. CASE ShowLine
  BY <1>24 DEF ShowLine
<1>25. CASE ProcessedClear
  BY <1>25 DEF ProcessedClear
<1>26. CASE ProcessedSet
  BY <1>26 DEF ProcessedSet
<1>27. CASE Stop
  BY <1>27 DEF Stop
<1>28. CASE StopClear
  BY <1>28 DEF StopClear
<1>29. CASE StopSet
  BY <1>29 DEF StopSet
<1>30. CASE FreeBuffers
  <2> USE <1>30 DEF FreeBuffers
  <2>1. bufno = 0 /\ wbits = {} /\ rpc = "done"
    OBVIOUS
  <2>2. TypeOK'
    OBVIOUS
  <2>3. OneMark'
    OBVIOUS
  <2>4. PhaseInv'
    BY <2>1
  <2>5. HandoverInv'
    BY <2>1
  <2>6. CountInv' /\ EndIsMarked'
    BY <2>1
  <2> QED
    BY <2>2, <2>3, <2>4, <2>5, <2>6
<1>31. CASE UNCHANGED vars
  BY <1>31 DEF vars
<1> HIDE DEF StreamInv
<1>32. CASE ReceiveAll \/ ReceiveLast
  BY <1>32, <1>6 DEF ReceiveAll, ReceiveLast
<1>7. Next => Reader \/ Worker
  BY DEF Next
<1> QED
  <2>1. CASE Reader
    BY <2>1, <1>1, <1>2, <1>3, <1>4, <1>5, <1>32, <1>8, <1>9, <1>10, <1>11, <1>12, <1>13,
       <1>14, <1>15, <1>16, <1>17, <1>18, <1>19
       DEF Reader
  <2>2. CASE Worker
    BY <2>2, <1>20, <1>21, <1>22, <1>23, <1>24, <1>25, <1>26, <1>27, <1>28, <1>29, <1>30
       DEF Worker, ShowTick
  <2> QED
    BY <2>1, <2>2, <1>31, <1>7

(* The inductive invariant holds in every reachable state: from it follow  *)
(* the type invariant and who may touch the read buffers when.             *)
THEOREM StreamSafe == Spec => []StreamInv
<1> QED
  BY InitInv, StepInv, PTL DEF Spec

(* The variables keep their ranges; in particular the display never reads  *)
(* past the end of a read buffer.                                          *)
THEOREM TypeCorrect == Spec => []TypeOK
<1>1. StreamInv => TypeOK
  BY DEF StreamInv
<1> QED
  BY <1>1, StreamSafe, PTL

(* Whatever the two tasks, the network and the event engine do in whatever *)
(* order, the http task never writes into a buffer that is displayed or    *)
(* waits to be displayed, and nobody uses a freed buffer.                  *)
THEOREM BuffersAreExclusive == Spec => []BuffersExclusive
<1>1. StreamInv => BuffersExclusive
  BY DEF StreamInv, PhaseInv, HandoverInv, BuffersExclusive, Filling,
         NothingOutstanding, DataPhases, Buffers
<1> QED
  BY <1>1, StreamSafe, PTL

(* A stream whose reader met the end of the image has shown all of it but  *)
(* its last buffer, or is about to.                                        *)
THEOREM OnlyLastIsLost == Spec => []EndLosesOnlyLast
<1>1. StreamInv => EndLosesOnlyLast
  BY DEF StreamInv, CountInv
<1> QED
  BY <1>1, StreamSafe, PTL

(* A poll that finds BRP_IDLE outside the HCT_INIT window finds a stream   *)
(* that is over: the http task is done with it and the buffers are free.   *)
THEOREM IdleIsOver == Spec => []IdleMeansOver
<1>1. StreamInv => IdleMeansOver
  BY DEF StreamInv, PhaseInv, IdleMeansOver
<1> QED
  BY <1>1, StreamSafe, PTL

(* The end mark of a stream whose http task is done waits for the display. *)
THEOREM EndStaysMarked == Spec => []EndIsMarked
<1>1. StreamInv => EndIsMarked
  BY DEF StreamInv
<1> QED
  BY <1>1, StreamSafe, PTL

-----------------------------------------------------------------------------
(* The reader of a stream comes to its end: each of its steps lowers       *)
(* ReaderRank, and no step of the display raises it.                       *)
LEMMA ReaderStepDescends ==
  ASSUME StreamInv, StreamInv', Reader, ReaderRank > 0
  PROVE  ReaderRank' \in Nat /\ ReaderRank' < ReaderRank
<1> USE BmpAssumption
    DEF ReaderRank, RequestsLeft, HeadersLeft, PlaceRank, HeaderPhases, DataPhases, ReaderEnds
<1>1. /\ MaxBuffers \in Nat /\ received \in 0 .. MaxBuffers /\ received' \in 0 .. MaxBuffers
      /\ rpc \in {"receive", "callback", "decode"} => phase \in HeaderPhases \cup DataPhases
  BY DEF StreamInv, TypeOK, PhaseInv
<1>2. CASE Connected \/ ConnectFails \/ ClientInitFails \/ InitFree \/ InitPhase
  BY <1>1, <1>2 DEF Connected, ConnectFails, ClientInitFails, InitFree, InitPhase
<1>3. ASSUME NEW last, Receive(last) PROVE ReaderRank' \in Nat /\ ReaderRank' < ReaderRank
  BY <1>1, <1>3 DEF Receive
<1>4. CASE ReceiveNothing \/ CallbackEntry
  BY <1>1, <1>4 DEF ReceiveNothing, CallbackEntry
<1>5. CASE HeaderAccepted
  <2>1. phase' \in NextHeaderPhase(phase) /\ received' = received /\ rpc = "decode"
        /\ phase \in HeaderPhases /\ rpc' \in {"finish_clear", "receive"}
    BY <1>5 DEF HeaderAccepted, AfterHeader
  <2> QED
    BY <1>1, <2>1 DEF NextHeaderPhase
<1>6. CASE HeaderRejected \/ BufferFilled
  BY <1>1, <1>6 DEF HeaderRejected, BufferFilled
<1>7. CASE WaitProcessed \/ WaitStopped \/ WaitTimesOut
  BY <1>1, <1>7 DEF WaitProcessed, WaitStopped, WaitTimesOut
<1>8. CASE PublishClear \/ PublishSet \/ FinishClear \/ FinishSet
  BY <1>1, <1>8 DEF PublishClear, PublishSet, FinishClear, FinishSet
<1> QED
  BY <1>2, <1>3, <1>4, <1>5, <1>6, <1>7, <1>8 DEF Reader, ReceiveAll, ReceiveLast

(* The display changes the phase only when the reader is done. *)
LEMMA WorkerKeepsRank ==
  ASSUME StreamInv, Worker
  PROVE  ReaderRank' = ReaderRank /\ ~Reader
<1>1. UNCHANGED readerVars
  BY DEF Worker, ShowTick, Poll, TakeEnd, TakeTimesOut, TakeBuffer, ShowLine, ProcessedClear,
         ProcessedSet, FreeBuffers, StopClear, StopSet, Stop, readerVars
<1>2. phase' = phase \/ rpc = "done"
  BY DEF Worker, ShowTick, Poll, TakeEnd, TakeTimesOut, TakeBuffer, ShowLine, ProcessedClear,
         ProcessedSet, FreeBuffers, StopClear, StopSet, Stop, StreamInv, PhaseInv
<1>3. ReaderRank' = ReaderRank
  BY <1>1, <1>2 DEF readerVars, ReaderRank, RequestsLeft, HeadersLeft, PlaceRank
<1>4. rpc' = rpc
  BY <1>1 DEF readerVars
<1>5. ~Reader
  BY <1>4 DEF Reader, Connected, ConnectFails, ClientInitFails, InitFree, InitPhase, ReceiveAll,
         ReceiveLast, Receive, ReceiveNothing, CallbackEntry, HeaderAccepted, AfterHeader,
         HeaderRejected, BufferFilled, WaitProcessed, WaitStopped, WaitTimesOut, PublishClear,
         PublishSet, FinishClear, FinishSet, ReaderEnds
<1> QED
  BY <1>3, <1>5

(* Every step of the http task brings its end closer, no step of the       *)
(* display moves it away (https_get.c 125-165).                            *)
THEOREM ReaderComesToItsEnd == Spec => ReaderDescends
<1> DEFINE Closer ==
      ReaderRank > 0 =>
        \/ ReaderRank' \in Nat /\ ReaderRank' < ReaderRank
        \/ ReaderRank' = ReaderRank /\ ~Reader
<1>1. StreamInv /\ StreamInv' /\ [Next]_vars => [Closer]_vars
  BY ReaderStepDescends, WorkerKeepsRank DEF Next
<1> QED
  BY <1>1, StreamSafe, PTL DEF Spec, ReaderDescends

-----------------------------------------------------------------------------
(* A stream whose reader is done comes to its free.                        *)
LEMMA DisplayStepDescends ==
  ASSUME StreamInv, [Next]_vars, ~ UNCHANGED vars, rpc = "done", phase # "IDLE"
  PROVE  rpc' = "done" /\ ClosingRank' \in 0..ClosingRank - 1
<1>1. /\ Lines \in Nat \ {0} /\ line \in 0..Lines /\ bufno \in {0, 1, 2}
      /\ wpc \in WorkerPlaces
      /\ wpc = "show" => line < Lines
      /\ bufno # 0 /\ wpc \in {"idle", "poll", "stop_clear", "stop_set"} => line < Lines
      /\ wpc \in {"show", "processed_clear", "processed_set"} <=>
           bufno # 0 /\ wpc \notin {"idle", "poll", "stop_clear", "stop_set"}
      /\ wpc # "free" => wbits = {"NO_MORE_DATA"}
  BY BmpAssumption DEF StreamInv, TypeOK, Buffers, PhaseInv, EndIsMarked
<1>2. Worker /\ rpc' = "done"
  <2>1. ~ Reader
    BY DEF Reader, Connected, ConnectFails, ClientInitFails, InitFree, InitPhase, ReceiveAll,
       ReceiveLast, Receive, ReceiveNothing, CallbackEntry, HeaderAccepted, HeaderRejected,
       BufferFilled, WaitProcessed, WaitStopped, WaitTimesOut, PublishClear, PublishSet,
       FinishClear, FinishSet
  <2>2. Worker
    BY <2>1 DEF Next
  <2>3. UNCHANGED readerVars
    BY <2>2 DEF Worker, ShowTick, Poll, TakeEnd, TakeTimesOut, TakeBuffer, ShowLine,
       ProcessedClear, ProcessedSet, FreeBuffers, StopClear, StopSet, Stop, readerVars
  <2> QED BY <2>2, <2>3 DEF readerVars
<1>3. /\ bufno = 0 => /\ wpc = "idle" => ClosingRank = 6
                      /\ wpc = "stop_clear" => ClosingRank = 5
                      /\ wpc = "stop_set" => ClosingRank = 4
                      /\ wpc = "poll" => ClosingRank = 3
                      /\ wpc = "await" => ClosingRank = 2
                      /\ wpc = "free" => ClosingRank = 1
      /\ bufno # 0 => /\ wpc = "idle" => ClosingRank = 7 * (Lines + 1 - line) + 6
                      /\ wpc = "stop_clear" => ClosingRank = 7 * (Lines + 1 - line) + 5
                      /\ wpc = "stop_set" => ClosingRank = 7 * (Lines + 1 - line) + 4
                      /\ wpc \in {"poll", "processed_clear"} => ClosingRank = 7 * (Lines + 1 - line) + 3
                      /\ wpc \in {"show", "processed_set"} => ClosingRank = 7 * (Lines + 1 - line) + 2
  BY DEF ClosingRank, TickRank
<1>4. phase' # "IDLE" =>
        /\ bufno' = 0 => /\ wpc' = "idle" => ClosingRank' = 6
                         /\ wpc' = "stop_clear" => ClosingRank' = 5
                         /\ wpc' = "stop_set" => ClosingRank' = 4
                         /\ wpc' = "poll" => ClosingRank' = 3
                         /\ wpc' = "await" => ClosingRank' = 2
                         /\ wpc' = "free" => ClosingRank' = 1
        /\ bufno' # 0 => /\ wpc' = "idle" => ClosingRank' = 7 * (Lines + 1 - line') + 6
                         /\ wpc' = "stop_clear" => ClosingRank' = 7 * (Lines + 1 - line') + 5
                         /\ wpc' = "stop_set" => ClosingRank' = 7 * (Lines + 1 - line') + 4
                         /\ wpc' \in {"poll", "processed_clear"} => ClosingRank' = 7 * (Lines + 1 - line') + 3
                         /\ wpc' \in {"show", "processed_set"} => ClosingRank' = 7 * (Lines + 1 - line') + 2
  BY DEF ClosingRank, TickRank
<1>5. CASE Poll \/ Stop \/ StopClear \/ StopSet
  <2>1. /\ UNCHANGED <<phase, bufno, line>>
        /\ \/ wpc \in {"idle", "poll"} /\ bufno = 0 /\ wpc' = "await"
           \/ wpc \in {"idle", "poll"} /\ bufno # 0 /\ wpc' = "show"
           \/ wpc = "idle" /\ wpc' = "stop_clear"
           \/ wpc = "stop_clear" /\ wpc' = "stop_set"
           \/ wpc = "stop_set" /\ wpc' = "poll"
    BY <1>5 DEF Poll, Stop, StopClear, StopSet
  <2> QED
    BY <1>1, <1>2, <1>3, <1>4, <2>1
<1>6. ~ TakeTimesOut /\ ~ (\E b \in Buffers : TakeBuffer(b))
  BY <1>1 DEF TakeTimesOut, TakeBuffer, Buffers, HasData
<1>7. CASE TakeEnd
  BY <1>1, <1>2, <1>3, <1>4, <1>7 DEF TakeEnd
<1>8. CASE ShowLine \/ ProcessedClear \/ ProcessedSet
  <2>1. bufno # 0
    BY <1>1, <1>8 DEF ShowLine, ProcessedClear, ProcessedSet
  <2>2. CASE ShowLine
    <3>1. /\ UNCHANGED <<phase, bufno>> /\ wpc = "show" /\ line' = line + 1 /\ line < Lines
          /\ wpc' \in {"idle", "processed_clear"}
      BY <1>1, <2>2 DEF ShowLine
    <3>2. ClosingRank = 7 * (Lines + 1 - line) + 2
      BY <1>3, <2>1, <3>1
    <3>3. ClosingRank' \in {7 * (Lines + 1 - (line + 1)) + 6, 7 * (Lines + 1 - (line + 1)) + 3}
      BY <1>4, <2>1, <3>1
    <3> QED
      BY <1>1, <1>2, <3>1, <3>2, <3>3
  <2>3. CASE ProcessedClear
    <3>1. UNCHANGED <<phase, bufno, line>> /\ wpc = "processed_clear" /\ wpc' = "processed_set"
      BY <2>3 DEF ProcessedClear
    <3> QED
      BY <1>1, <1>2, <1>3, <1>4, <2>1, <3>1
  <2>4. CASE ProcessedSet
    <3>1. /\ phase' = phase /\ bufno' = 0 /\ wpc = "processed_set" /\ wpc' = "idle"
      BY <2>4 DEF ProcessedSet
    <3> QED
      BY <1>1, <1>2, <1>3, <1>4, <2>1, <3>1
  <2> QED
    BY <1>8, <2>2, <2>3, <2>4
<1>9. CASE FreeBuffers
  <2>1. wpc = "free" /\ phase' = "IDLE"
    BY <1>9 DEF FreeBuffers
  <2>2. bufno = 0 /\ ClosingRank' = 0
    BY <1>1, <2>1 DEF ClosingRank, WorkerPlaces
  <2> QED
    BY <1>2, <1>3, <2>1, <2>2
<1> QED
  BY <1>2, <1>5, <1>6, <1>7, <1>8, <1>9 DEF Worker, ShowTick

(* From the last callback of the http task on every step of the display    *)
(* brings the free of the buffers closer, whatever it still had to show    *)
(* and however often it is stopped: the safety half of StreamCloses.       *)
THEOREM DisplayComesToTheEnd == Spec => DisplayDescends
<1> DEFINE Closer ==
      rpc = "done" /\ phase # "IDLE" =>
        rpc' = "done" /\ ClosingRank' \in 0..ClosingRank - 1
<1>1. StreamInv /\ [Next]_vars => [Closer]_vars
  BY DisplayStepDescends
<1> QED
  BY <1>1, StreamSafe, PTL DEF Spec, DisplayDescends

-----------------------------------------------------------------------------
(* Every step of the stream is a step of ImageFeed or leaves it unchanged. *)
LEMMA FeedStep ==
  ASSUME StreamInv, StreamInv', [Next]_vars
  PROVE  [Feed!FeedNext]_(Feed!feedVars)
<1> USE DEF Feed!feedVars, Feed!FeedNext, readerVars, workerVars, ReaderEnds
<1>1. CASE InitFree \/ InitPhase \/ HeaderAccepted \/ BufferFilled
  <2>1. UNCHANGED <<received, shown>>
    BY <1>1 DEF InitFree, InitPhase, HeaderAccepted, BufferFilled
  <2>2. phase # "IDLE" \/ rpc = "init_phase"
    BY <1>1 DEF InitFree, InitPhase, HeaderAccepted, BufferFilled, StreamInv, PhaseInv
  <2>3. phase' # "IDLE" \/ rpc' = "init_phase"
    BY <1>1 DEF InitFree, InitPhase, HeaderAccepted, BufferFilled, NextHeaderPhase, HeaderPhases
  <2> QED
    BY <2>1, <2>2, <2>3
<1>2. ASSUME NEW last, Receive(last)
      PROVE [Feed!FeedNext]_(Feed!feedVars)
  <2>1. phase # "IDLE" /\ phase' # "IDLE" /\ shown' = shown
    BY <1>2 DEF Receive, StreamInv, PhaseInv
  <2>2. received' = received \/ received' = received + 1
    BY <1>2 DEF Receive
  <2>3. received - shown < 2
    BY <1>2 DEF Receive, StreamInv, CountInv, TypeOK
  <2> QED
    BY <2>1, <2>2, <2>3 DEF Feed!Receive
<1>3. CASE ProcessedSet
  <2>1. bufno \in Buffers /\ Outstanding(bufno)
    BY <1>3 DEF ProcessedSet, StreamInv, PhaseInv, TypeOK, Outstanding
  <2>2. shown' = shown + 1 /\ shown < received
    BY <1>3, <2>1 DEF ProcessedSet, StreamInv, CountInv
  <2>3. phase # "IDLE" \/ rpc = "init_phase"
    BY <1>3 DEF ProcessedSet, StreamInv, PhaseInv
  <2>4. UNCHANGED <<phase, rpc, received>>
    BY <1>3 DEF ProcessedSet
  <2> QED
    BY <2>2, <2>3, <2>4 DEF Feed!Show
<1>4. CASE FreeBuffers
  <2>1. phase # "IDLE" /\ phase' = "IDLE" /\ rpc' # "init_phase"
    BY <1>4 DEF FreeBuffers, StreamInv, PhaseInv
  <2>2. UNCHANGED <<received, shown>>
    BY <1>4 DEF FreeBuffers
  <2> QED
    BY <2>1, <2>2 DEF Feed!Close
<1>5. CASE \/ Connected \/ ConnectFails \/ ClientInitFails \/ ReceiveNothing
           \/ CallbackEntry \/ HeaderRejected \/ WaitProcessed \/ WaitStopped
           \/ WaitTimesOut \/ PublishClear \/ PublishSet \/ FinishClear \/ FinishSet
  <2>1. UNCHANGED <<phase, received, shown>>
    BY <1>5 DEF Connected, ConnectFails, ClientInitFails, ReceiveNothing, CallbackEntry,
       HeaderRejected, WaitProcessed, WaitStopped, WaitTimesOut, PublishClear, PublishSet,
       FinishClear, FinishSet
  <2>2. rpc # "init_phase" /\ rpc' # "init_phase"
    BY <1>5 DEF Connected, ConnectFails, ClientInitFails, ReceiveNothing, CallbackEntry,
       HeaderRejected, WaitProcessed, WaitStopped, WaitTimesOut, PublishClear, PublishSet,
       FinishClear, FinishSet
  <2> QED
    BY <2>1, <2>2
<1>6. CASE \/ Poll \/ TakeEnd \/ TakeTimesOut \/ (\E b \in Buffers : TakeBuffer(b))
           \/ ShowLine \/ ProcessedClear \/ Stop \/ StopClear \/ StopSet
  <2>1. UNCHANGED <<phase, rpc, received, shown>>
    BY <1>6 DEF Poll, TakeEnd, TakeTimesOut, TakeBuffer, ShowLine, ProcessedClear, Stop,
       StopClear, StopSet
  <2> QED
    BY <2>1
<1>7. CASE UNCHANGED vars
  BY <1>7 DEF vars
<1>8. ReceiveAll \/ ReceiveLast => \E last : Receive(last)
  BY DEF ReceiveAll, ReceiveLast
<1> QED
  BY <1>1, <1>2, <1>3, <1>4, <1>5, <1>6, <1>7, <1>8
     DEF Next, Reader, Worker, ShowTick

(* The stream implements ImageFeed: buffers are shown in order, none twice *)
(* and none skipped, and the reader is at most two buffers ahead.          *)
THEOREM StreamImplementsFeed == Spec => ShownInOrder
<1>1. Init => Feed!FeedInit
  BY DEF Init, Feed!FeedInit
<1>2. StreamInv /\ StreamInv' /\ [Next]_vars => [Feed!FeedNext]_(Feed!feedVars)
  BY FeedStep
<1> QED
  BY <1>1, <1>2, StreamSafe, PTL DEF Spec, ShownInOrder, Feed!FeedSpec
=============================================================================
