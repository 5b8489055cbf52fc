------------------------------ MODULE BmpStream ------------------------------
(***************************************************************************)
(* The BMP stream of one track element, from bmp_open_url to the free of   *)
(* its buffers: components/bmp/bmp.c, main/process_bmp.c and the callback  *)
(* calls of components/https_get/https_get.c.                              *)
(*                                                                         *)
(* Two tasks share one T_BMP_WORKING.  The READER is the http task of the  *)
(* request: it fills two read buffers in turn and publishes them.  The     *)
(* WORKER is the timer task: every tick shows one pixel line.  They talk   *)
(* through two event groups, `wbits' (set by the reader, awaited by the    *)
(* worker) and `rbits' (set by the worker, awaited by the reader), and     *)
(* through bmp_read_phase.  Every call on an event group is an action of   *)
(* its own: clear-then-set pairs are two steps another task can split.     *)
(*                                                                         *)
(* A data buffer is the number of the image buffer it holds; bytes,        *)
(* colours and the LED memory are left out.                                *)
(***************************************************************************)
EXTENDS Naturals

CONSTANTS
  Lines,       \* pixel lines in one read buffer (sz_read_buffer / line size)
  MaxBuffers   \* bound of the model: the server sends at most this many buffers

ASSUME BmpAssumption == Lines \in Nat \ {0} /\ MaxBuffers \in Nat

VARIABLES
  phase,      \* bmp_read_phase
  mem,        \* read_buffer1 and read_buffer2 are allocated
  wbits,      \* s_bmp_event_group_for_worker
  rbits,      \* s_bmp_event_group_for_reader
  rpc,        \* where the reader task is
  eof,        \* the http loop ends after the running callback
  fill,       \* the two read buffers: the image buffer each of them holds
  received,   \* data buffers the reader's callback was called for
  outcome,    \* why the reader ended
  wpc,        \* where the worker is in its tick
  bufno,      \* p_data->bufno, the buffer being displayed, 0: none
  line,       \* p_data->rd_mempos in lines
  shown       \* number of the last image buffer displayed completely

readerVars == <<rpc, eof, fill, received, outcome>>
workerVars == <<wpc, bufno, line, shown>>
vars == <<phase, mem, wbits, rbits, readerVars, workerVars>>

Phases == {"IDLE", "CONNECT", "GOT_FILE_HEADER", "GOT_INFO_HEADER",
           "GOT_SKIPPED_DATA", "GOT_FIRST_DATA_BUFFER1",
           "GOT_DATA_BUFFER1", "GOT_DATA_BUFFER2"}

HeaderPhases == {"GOT_FILE_HEADER", "GOT_INFO_HEADER", "GOT_SKIPPED_DATA"}

DataPhases == {"GOT_FIRST_DATA_BUFFER1", "GOT_DATA_BUFFER1", "GOT_DATA_BUFFER2"}

Buffers == {1, 2}

Other(b) == 3 - b

(* The buffer that *buf points to while the http loop receives. *)
Target == IF phase = "GOT_DATA_BUFFER2" THEN 2 ELSE 1

HasData(b) == IF b = 1 THEN "BUFFER1_HAS_DATA" ELSE "BUFFER2_HAS_DATA"

WorkerBits == {"BUFFER1_HAS_DATA", "BUFFER2_HAS_DATA", "NO_MORE_DATA"}

ReaderBits == {"BUFFER_PROCESSED", "STOP_WORKING"}

ReaderPlaces ==
  {"connect", "init", "init_phase", "receive", "callback", "decode", "wait",
   "publish_clear", "publish_set", "finish_clear", "finish_set", "done", "lost"}

WorkerPlaces ==
  {"idle", "poll", "await", "show", "processed_clear", "processed_set",
   "stop_clear", "stop_set", "free"}

-----------------------------------------------------------------------------
(* bmp_init_data and the start of the http task: the state that            *)
(* bmp_open_url leaves behind.                                             *)

Init ==
  /\ phase = "CONNECT"
  /\ mem = FALSE
  /\ wbits = {}
  /\ rbits = {}
  /\ rpc = "connect"
  /\ eof = FALSE
  /\ fill = [b \in Buffers |-> 0]
  /\ received = 0
  /\ outcome = "none"
  /\ wpc = "idle"
  /\ bufno = 0
  /\ line = 0
  /\ shown = 0

-----------------------------------------------------------------------------
(* The reader: do_https_get and https_callback_bmp_processing.             *)

ReaderEnds(why) ==
  /\ rpc' = "finish_clear"
  /\ outcome' = IF outcome = "none" THEN why ELSE outcome

(* The server answers 200: the callback is called with HCT_INIT. *)
Connected ==
  /\ rpc = "connect"
  /\ rpc' = "init"
  /\ UNCHANGED <<phase, mem, wbits, rbits, eof, fill, received, outcome, workerVars>>

(* The connection fails or the status is not 200: HCT_FAILED. *)
ConnectFails ==
  /\ rpc = "connect"
  /\ ReaderEnds("error")
  /\ UNCHANGED <<phase, mem, wbits, rbits, eof, fill, received, workerVars>>

(* esp_http_client_init fails: the task ends without calling back. *)
ClientInitFails ==
  /\ rpc = "connect"
  /\ rpc' = "lost"
  /\ UNCHANGED <<phase, mem, wbits, rbits, eof, fill, received, outcome, workerVars>>

(* HCT_INIT, first half: bmp_free_buffers sets the phase to IDLE. *)
InitFree ==
  /\ rpc = "init"
  /\ mem' = FALSE
  /\ phase' = "IDLE"
  /\ rpc' = "init_phase"
  /\ UNCHANGED <<wbits, rbits, eof, fill, received, outcome, workerVars>>

(* HCT_INIT, second half: ask for the file header. *)
InitPhase ==
  /\ rpc = "init_phase"
  /\ phase' = "GOT_FILE_HEADER"
  /\ rpc' = "receive"
  /\ UNCHANGED <<mem, wbits, rbits, eof, fill, received, outcome, workerVars>>

(* The http loop has got what the callback asked for, a header or a whole  *)
(* buffer, or less than that before the connection ended (last): the       *)
(* callback is told the same length (expected_len) for both.               *)
Receive(last) ==
  /\ rpc = "receive"
  /\ IF phase \in DataPhases
       THEN /\ received < MaxBuffers
            /\ received' = received + 1
            /\ fill' = [fill EXCEPT ![Target] = received + 1]
       ELSE UNCHANGED <<fill, received>>
  /\ eof' = last
  /\ rpc' = "callback"
  /\ UNCHANGED <<phase, mem, wbits, rbits, outcome, workerVars>>

ReceiveAll == Receive(FALSE)

ReceiveLast == Receive(TRUE)

(* Nothing arrives: end of the stream or a read error between two buffers. *)
ReceiveNothing ==
  /\ rpc = "receive"
  /\ ReaderEnds("eof")
  /\ UNCHANGED <<phase, mem, wbits, rbits, eof, fill, received, workerVars>>

(* HCT_READING begins by clearing STOP_WORKING without looking at it. *)
CallbackEntry ==
  /\ rpc = "callback"
  /\ rbits' = rbits \ {"STOP_WORKING"}
  /\ rpc' = "decode"
  /\ UNCHANGED <<phase, mem, wbits, eof, fill, received, outcome, workerVars>>

(* After a header the loop goes on, unless the connection has ended. *)
AfterHeader ==
  IF eof THEN ReaderEnds("error") ELSE rpc' = "receive" /\ UNCHANGED outcome

NextHeaderPhase(p) ==
  CASE p = "GOT_FILE_HEADER"  -> {"GOT_INFO_HEADER"}
    [] p = "GOT_INFO_HEADER"  -> {"GOT_SKIPPED_DATA", "GOT_FIRST_DATA_BUFFER1"}
    [] p = "GOT_SKIPPED_DATA" -> {"GOT_FIRST_DATA_BUFFER1"}

(* A valid header; the info header also allocates the read buffers. *)
HeaderAccepted ==
  /\ rpc = "decode"
  /\ phase \in HeaderPhases
  /\ phase' \in NextHeaderPhase(phase)
  /\ mem' = (mem \/ phase = "GOT_INFO_HEADER")
  /\ AfterHeader
  /\ UNCHANGED <<wbits, rbits, eof, fill, received, workerVars>>

(* Not a bitmap, an unsupported one, or no memory for the read buffers. *)
HeaderRejected ==
  /\ rpc = "decode"
  /\ phase \in {"GOT_FILE_HEADER", "GOT_INFO_HEADER"}
  /\ ReaderEnds("error")
  /\ UNCHANGED <<phase, mem, wbits, rbits, eof, fill, received, workerVars>>

(* Variant for the checks: no buffer waits for its predecessor. *)
BufferFilledNoWait ==
  /\ rpc = "decode"
  /\ phase \in DataPhases
  /\ rpc' = "publish_clear"
  /\ phase' = IF Target = 1 THEN "GOT_DATA_BUFFER2" ELSE "GOT_DATA_BUFFER1"
  /\ UNCHANGED <<mem, wbits, rbits, eof, fill, received, outcome, workerVars>>

(* The first buffer is published at once, a later one after the worker has *)
(* processed its predecessor.                                              *)
BufferFilled ==
  /\ rpc = "decode"
  /\ phase \in DataPhases
  /\ rpc' = IF phase = "GOT_FIRST_DATA_BUFFER1" THEN "publish_clear" ELSE "wait"
  /\ phase' = IF Target = 1 THEN "GOT_DATA_BUFFER2" ELSE "GOT_DATA_BUFFER1"
  /\ UNCHANGED <<mem, wbits, rbits, eof, fill, received, outcome, workerVars>>

(* Variant for the checks: the wait leaves the bits set (pdFALSE). *)
WaitProcessedKeepsBits ==
  /\ rpc = "wait"
  /\ "BUFFER_PROCESSED" \in rbits
  /\ rpc' = "publish_clear"
  /\ UNCHANGED <<phase, mem, wbits, rbits, eof, fill, received, outcome, workerVars>>

(* xEventGroupWaitBits returns and clears both bits; PROCESSED is tested   *)
(* before STOP_WORKING.                                                    *)
WaitProcessed ==
  /\ rpc = "wait"
  /\ "BUFFER_PROCESSED" \in rbits
  /\ rbits' = {}
  /\ rpc' = "publish_clear"
  /\ UNCHANGED <<phase, mem, wbits, eof, fill, received, outcome, workerVars>>

WaitStopped ==
  /\ rpc = "wait"
  /\ rbits = {"STOP_WORKING"}
  /\ rbits' = {}
  /\ ReaderEnds("stop")
  /\ UNCHANGED <<phase, mem, wbits, eof, fill, received, workerVars>>

(* Variant for the checks: the wait has no limit (portMAX_DELAY). *)
WaitsForever ==
  /\ rpc = "wait"
  /\ rbits = {}
  /\ UNCHANGED vars

(* 30 seconds without a bit. *)
WaitTimesOut ==
  /\ rpc = "wait"
  /\ rbits = {}
  /\ ReaderEnds("timeout")
  /\ UNCHANGED <<phase, mem, wbits, rbits, eof, fill, received, workerVars>>

PublishClear ==
  /\ rpc = "publish_clear"
  /\ wbits' = {}
  /\ rpc' = "publish_set"
  /\ UNCHANGED <<phase, mem, rbits, eof, fill, received, outcome, workerVars>>

(* Variant for the checks: the other buffer is announced. *)
PublishSetWrongBuffer ==
  /\ rpc = "publish_set"
  /\ wbits' = wbits \cup {HasData(Target)}
  /\ IF eof THEN ReaderEnds("eof") ELSE rpc' = "receive" /\ UNCHANGED outcome
  /\ UNCHANGED <<phase, mem, rbits, eof, fill, received, workerVars>>

(* The filled buffer is the one that is not the next target. *)
PublishSet ==
  /\ rpc = "publish_set"
  /\ wbits' = wbits \cup {HasData(Other(Target))}
  /\ IF eof THEN ReaderEnds("eof") ELSE rpc' = "receive" /\ UNCHANGED outcome
  /\ UNCHANGED <<phase, mem, rbits, eof, fill, received, workerVars>>

(* HCT_FINISH and HCT_FAILED. *)
FinishClear ==
  /\ rpc = "finish_clear"
  /\ wbits' = {}
  /\ rpc' = "finish_set"
  /\ UNCHANGED <<phase, mem, rbits, eof, fill, received, outcome, workerVars>>

(* Variant for the checks: the end is not announced. *)
FinishWithoutMark ==
  /\ rpc = "finish_set"
  /\ rpc' = "done"
  /\ UNCHANGED <<phase, mem, wbits, rbits, eof, fill, received, outcome, workerVars>>

FinishSet ==
  /\ rpc = "finish_set"
  /\ wbits' = wbits \cup {"NO_MORE_DATA"}
  /\ rpc' = "done"
  /\ UNCHANGED <<phase, mem, rbits, eof, fill, received, outcome, workerVars>>

Reader ==
  \/ Connected \/ ConnectFails \/ ClientInitFails \/ InitFree \/ InitPhase
  \/ ReceiveAll \/ ReceiveLast \/ ReceiveNothing
  \/ CallbackEntry \/ HeaderAccepted \/ HeaderRejected \/ BufferFilled
  \/ WaitProcessed \/ WaitStopped \/ WaitTimesOut
  \/ PublishClear \/ PublishSet \/ FinishClear \/ FinishSet

-----------------------------------------------------------------------------
(* The worker: process_object_bmp, bmp_work and bmp_stop_processing.       *)

(* process_object_bmp: nothing to do when the phase is IDLE; otherwise     *)
(* wait for a buffer, or go on with the current one.                       *)
Poll ==
  /\ wpc = "poll" \/ (wpc = "idle" /\ phase # "IDLE")
  /\ wpc' = CASE phase = "IDLE" -> "idle"
              [] phase # "IDLE" /\ bufno = 0 -> "await"
              [] OTHER -> "show"
  /\ UNCHANGED <<phase, mem, wbits, rbits, readerVars, bufno, line, shown>>

(* get_ux_bits returns and clears all three bits; a buffer goes before the *)
(* end mark.                                                               *)
TakeBuffer(b) ==
  /\ wpc = "await"
  /\ HasData(b) \in wbits
  /\ b = 2 => HasData(1) \notin wbits
  /\ wbits' = {}
  /\ bufno' = b
  /\ line' = 0
  /\ wpc' = "show"
  /\ UNCHANGED <<phase, mem, rbits, readerVars, shown>>

TakeEnd ==
  /\ wpc = "await"
  /\ wbits = {"NO_MORE_DATA"}
  /\ wbits' = {}
  /\ bufno' = 0
  /\ line' = 0
  /\ wpc' = "free"
  /\ UNCHANGED <<phase, mem, rbits, readerVars, shown>>

(* 10 seconds without a bit: RES_NO_DATA, the last line is shown again. *)
TakeTimesOut ==
  /\ wpc = "await"
  /\ wbits = {}
  /\ wpc' = "idle"
  /\ UNCHANGED <<phase, mem, wbits, rbits, readerVars, bufno, line, shown>>

(* bmp_show_data copies one line.  read_buffer_length is always the size   *)
(* that was asked for, so a short last buffer is shown to its full size.   *)
ShowLine ==
  /\ wpc = "show"
  /\ line' = line + 1
  /\ wpc' = IF line + 1 < Lines THEN "idle" ELSE "processed_clear"
  /\ UNCHANGED <<phase, mem, wbits, rbits, readerVars, bufno, shown>>

(* set_ux_quit_bits(BUFFER_PROCESSED) clears every bit of the reader first. *)
ProcessedClear ==
  /\ wpc = "processed_clear"
  /\ rbits' = {}
  /\ wpc' = "processed_set"
  /\ UNCHANGED <<phase, mem, wbits, readerVars, bufno, line, shown>>

ProcessedSet ==
  /\ wpc = "processed_set"
  /\ rbits' = rbits \cup {"BUFFER_PROCESSED"}
  /\ shown' = fill[bufno]
  /\ bufno' = 0
  /\ line' = 0
  /\ wpc' = "idle"
  /\ UNCHANGED <<phase, mem, wbits, readerVars>>

(* bmp_stop_processing, called by the event engine at the beginning of a   *)
(* tick: the bmp_read time is over, bmp_close, or the scene is stopped.    *)
(* Unless the scene is stopped the tick goes on with process_object_bmp.   *)
Stop ==
  /\ wpc = "idle"
  /\ wpc' = "stop_clear"
  /\ UNCHANGED <<phase, mem, wbits, rbits, readerVars, bufno, line, shown>>

StopClear ==
  /\ wpc = "stop_clear"
  /\ rbits' = {}
  /\ wpc' = "stop_set"
  /\ UNCHANGED <<phase, mem, wbits, readerVars, bufno, line, shown>>

StopSet ==
  /\ wpc = "stop_set"
  /\ rbits' = rbits \cup {"STOP_WORKING"}
  /\ wpc' = "poll"
  /\ UNCHANGED <<phase, mem, wbits, readerVars, bufno, line, shown>>

(* Variant for the checks: the phase is reset, the buffers are kept. *)
FreeNothing ==
  /\ wpc = "free"
  /\ phase' = "IDLE"
  /\ wpc' = "idle"
  /\ UNCHANGED <<mem, wbits, rbits, readerVars, bufno, line, shown>>

(* RES_FINISHED: bmp_free_buffers. *)
FreeBuffers ==
  /\ wpc = "free"
  /\ mem' = FALSE
  /\ phase' = "IDLE"
  /\ wpc' = "idle"
  /\ UNCHANGED <<wbits, rbits, readerVars, bufno, line, shown>>

ShowTick ==
  \/ Poll \/ TakeEnd \/ TakeTimesOut \/ (\E b \in Buffers : TakeBuffer(b))
  \/ ShowLine \/ ProcessedClear \/ ProcessedSet \/ FreeBuffers
  \/ StopClear \/ StopSet

Worker == ShowTick \/ Stop

-----------------------------------------------------------------------------
Next == Reader \/ Worker

Spec == Init /\ [][Next]_vars

(* FreeRTOS runs the http task until it ends.  Nothing obliges anyone to   *)
(* call a stop, and nothing keeps the stream on display: it is shown only  *)
(* while its element is current, has its object and is not frozen          *)
(* (process_events.c 420-449, process_objects.c 18-59).                    *)
FairSpec == Spec /\ WF_vars(Reader)
-----------------------------------------------------------------------------
(* The state spaces of the variables; `line' within the read buffer means  *)
(* that bmp_show_data never runs past its end (process_bmp.c 51-53, 156).  *)
TypeOK ==
  /\ phase \in Phases
  /\ mem \in BOOLEAN
  /\ wbits \in SUBSET WorkerBits
  /\ rbits \in SUBSET ReaderBits
  /\ rpc \in ReaderPlaces
  /\ eof \in BOOLEAN
  /\ fill \in [Buffers -> Nat]
  /\ received \in 0 .. MaxBuffers
  /\ outcome \in {"none", "eof", "error", "stop", "timeout"}
  /\ wpc \in WorkerPlaces
  /\ bufno \in {0} \cup Buffers
  /\ line \in 0 .. Lines
  /\ shown \in Nat

(* Buffer b is being displayed, or published and not yet taken. *)
Outstanding(b) == bufno = b \/ HasData(b) \in wbits

(* The http loop is writing received bytes into buffer b. *)
Filling(b) == rpc = "receive" /\ phase \in DataPhases /\ Target = b

(* The reader never writes into a buffer that the display still needs, and *)
(* neither side touches the read buffers after they were freed: the two    *)
(* event groups are the only guard of the buffers (bmp.c 247-322).         *)
BuffersExclusive ==
  \A b \in Buffers :
    /\ ~ (Outstanding(b) /\ Filling(b))
    /\ Outstanding(b) \/ Filling(b) => mem

(* A poll of the phase that finds IDLE (process_bmp.c 187, 244) means that *)
(* the reader is done with the stream and its buffers are free, except in  *)
(* the moment between bmp_free_buffers and the next assignment of the      *)
(* HCT_INIT callback (bmp.c 126-130).                                      *)
IdleMeansOver ==
  phase = "IDLE" => ~ mem /\ rpc \in {"init_phase", "done"}

(* The http task ends and gives its slot back, whatever the display does:  *)
(* also when nothing is played any more and nobody answers (the 30 s of    *)
(* xTicksToWait, bmp.c 277 and 307).                                       *)
ReaderTerminates == <>(rpc \in {"done", "lost"})

(* A stream whose element goes on being shown, the premise, is closed and  *)
(* its buffers are freed once its reader has called back, whether it ended,*)
(* failed, was stopped or timed out: the mark NO_MORE_DATA is not lost     *)
(* (bmp.c 326-346).  A stream whose element was left or is frozen keeps    *)
(* its buffers until the element is reset.                                 *)
StreamCloses ==
  WF_vars(ShowTick) => (rpc = "done" ~> (phase = "IDLE" /\ ~ mem))

-----------------------------------------------------------------------------
(* The inductive invariant behind BuffersExclusive and ShownInOrder.       *)

NothingOutstanding == \A b \in Buffers : ~ Outstanding(b)

(* At most one mark is set, and none while a buffer is being displayed. *)
OneMark ==
  /\ \A x, y \in wbits : x = y
  /\ bufno # 0 => \A b \in Buffers : HasData(b) \notin wbits
  /\ "NO_MORE_DATA" \in wbits => rpc = "done"
  /\ rpc \in {"publish_set", "finish_set"} \/ wpc = "free" => wbits = {}

(* Where the two tasks are and what the phase says. *)
PhaseInv ==
  /\ rpc \in {"connect", "init", "lost"} => phase = "CONNECT"
  /\ rpc = "init_phase" => phase = "IDLE"
  /\ rpc \in {"receive", "callback", "decode"} => phase \in HeaderPhases \cup DataPhases
  /\ rpc \in {"wait", "publish_clear", "publish_set"}
       => phase \in {"GOT_DATA_BUFFER1", "GOT_DATA_BUFFER2"}
  /\ outcome # "none" => rpc \in {"finish_clear", "finish_set", "done"}
  /\ phase = "IDLE" => rpc \in {"init_phase", "done"} /\ ~ mem
  /\ phase = "IDLE" /\ rpc = "done" => wpc \in {"idle", "poll", "stop_clear", "stop_set"}
  /\ phase \in DataPhases \cup {"GOT_SKIPPED_DATA"} => mem
  /\ wpc = "free" => rpc = "done"
  /\ wpc \in {"show", "processed_clear", "processed_set"} <=> bufno # 0 /\ wpc # "idle"
                                                 /\ wpc \notin {"poll", "stop_clear", "stop_set"}
  /\ wpc = "show" => line < Lines
  /\ bufno # 0 /\ wpc \in {"idle", "poll", "stop_clear", "stop_set"} => line < Lines

(* Who may use which buffer: PROCESSED is the permission to publish. *)
HandoverInv ==
  /\ "BUFFER_PROCESSED" \in rbits => NothingOutstanding
  /\ rpc \in {"publish_clear", "publish_set"}
       => NothingOutstanding /\ "BUFFER_PROCESSED" \notin rbits
  /\ rpc \in {"receive", "callback", "decode"}
       => \A b \in Buffers : Outstanding(b) => b # Target
  /\ rpc = "wait" => \A b \in Buffers : Outstanding(b) => b = Target
  /\ phase \notin {"GOT_DATA_BUFFER1", "GOT_DATA_BUFFER2"}
       => NothingOutstanding /\ (rpc = "done" \/ "BUFFER_PROCESSED" \notin rbits)

(* An image whose reader met its end (no error, no stop, no time-out) is   *)
(* shown but for its last buffer, however slow the display is: every other *)
(* one was processed before its successor was published, and only the mark *)
(* of the last one can be cleared by HCT_FINISH (bmp.c 275-322, 329).      *)
EndLosesOnlyLast == outcome = "eof" => received <= shown + 1

(* How far the reader is ahead, and which image buffer is where. *)
CountInv ==
  /\ shown <= received
  /\ received <= shown + 2
  /\ EndLosesOnlyLast
  /\ phase \notin DataPhases \cup {"IDLE"} => received = 0
  /\ rpc = "init_phase" => received = 0
  /\ phase = "GOT_FIRST_DATA_BUFFER1" => shown = 0
  /\ \A b \in Buffers : Outstanding(b) => fill[b] = shown + 1 /\ shown < received
  /\ rpc = "receive" => received <= shown + 1
  /\ rpc = "receive" /\ NothingOutstanding => received = shown
  /\ rpc \in {"callback", "decode"} /\ phase \in DataPhases => fill[Target] = received
  /\ rpc \in {"callback", "decode"} /\ phase \in DataPhases /\ NothingOutstanding
       => received = shown + 1
  /\ rpc \in {"callback", "decode", "wait"} /\ phase \in DataPhases /\ ~ NothingOutstanding
       => received = shown + 2
  /\ rpc = "wait" => fill[Other(Target)] = received
  /\ rpc = "wait" /\ NothingOutstanding => received = shown + 1
  /\ rpc \in {"publish_clear", "publish_set"}
       => fill[Other(Target)] = received /\ received = shown + 1

(* The end mark is not lost (bmp.c 326-346): from the last callback of the *)
(* http task on it waits for the display, alone, and no buffer comes after *)
(* it, until the display has taken it and frees the buffers.               *)
EndIsMarked ==
  rpc = "done" =>
    IF phase = "IDLE" \/ wpc = "free" THEN wbits = {} /\ bufno = 0
    ELSE wbits = {"NO_MORE_DATA"}

StreamInv == TypeOK /\ OneMark /\ PhaseInv /\ HandoverInv /\ CountInv /\ EndIsMarked

-----------------------------------------------------------------------------
(* How far the reader is from its end: what the callback has still to ask  *)
(* for, headers and buffers, and the places up to the next request.        *)
HeadersLeft ==
  CASE phase = "GOT_FILE_HEADER"  -> 3
    [] phase = "GOT_INFO_HEADER"  -> 2
    [] phase = "GOT_SKIPPED_DATA" -> 1
    [] OTHER                      -> 0

RequestsLeft ==
  MaxBuffers - received
    + IF rpc \in {"connect", "init", "init_phase"} THEN 4
      ELSE IF rpc \in {"callback", "decode"} /\ phase \in HeaderPhases THEN HeadersLeft - 1
      ELSE HeadersLeft

PlaceRank ==
  CASE rpc \in {"callback", "connect"} -> 8
    [] rpc \in {"decode", "init"}     -> 7
    [] rpc \in {"wait", "init_phase"} -> 6
    [] rpc = "publish_clear"          -> 5
    [] rpc = "publish_set"            -> 4
    [] OTHER                          -> 3

ReaderRank ==
  CASE rpc \in {"done", "lost"} -> 0
    [] rpc = "finish_set"       -> 1
    [] rpc = "finish_clear"     -> 2
    [] OTHER                    -> 9 * RequestsLeft + PlaceRank

(* Every step of the http task brings its end closer and no step of the    *)
(* display moves it away: the headers and buffers are the only loop of     *)
(* do_https_get, and a stop, a slow or a missing display costs a time-out  *)
(* and never another round (https_get.c 125-165, bmp.c 275-322).           *)
ReaderDescends ==
  [][ReaderRank > 0 =>
       \/ ReaderRank' \in Nat /\ ReaderRank' < ReaderRank
       \/ ReaderRank' = ReaderRank /\ ~Reader]_vars

(* How far the display is from closing a stream whose reader is done: the  *)
(* lines of the buffer it still shows, then the end mark, then the free;   *)
(* a stop may come between two lines.                                      *)
TickRank ==
  CASE wpc = "idle"       -> 6
    [] wpc = "stop_clear" -> 5
    [] wpc = "stop_set"   -> 4
    [] wpc \in {"poll", "processed_clear"}             -> 3
    [] wpc \in {"show", "await", "processed_set"}      -> 2
    [] wpc = "free"       -> 1

ClosingRank ==
  IF phase = "IDLE" THEN 0
  ELSE IF bufno = 0 THEN TickRank ELSE 7 * (Lines + 1 - line) + TickRank

(* When the reader is done every step of the display, stops included,      *)
(* brings the stream closer to its free: the buffer that is being shown is *)
(* finished once, the end mark is found at the first wait, and the wait    *)
(* never times out (process_bmp.c 118-165, 187-245).                       *)
DisplayDescends ==
  [][rpc = "done" /\ phase # "IDLE" =>
       rpc' = "done" /\ ClosingRank' \in 0..ClosingRank - 1]_vars

Feed == INSTANCE ImageFeed WITH
  Window   <- 2,
  open     <- phase # "IDLE" \/ rpc = "init_phase"

(* The display shows the image in order, without a repeated or a skipped   *)
(* buffer, and the reader is never more than two buffers ahead of it.      *)
ShownInOrder == Feed!FeedSpec

=============================================================================
