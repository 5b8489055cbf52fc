---------------------------- MODULE HttpsClients ----------------------------
(***************************************************************************)
(* The image streams of several track elements and the pool of http        *)
(* clients that serves them: components/https_get/https_get.c and the      *)
(* life of w_bmp in main/process_bmp.c, process_events.c, event_util.c.    *)
(*                                                                         *)
(* The TIMER task opens a stream, shows it and resets its element.  It     *)
(* looks for a free slot while the http tasks free theirs.  An HTTP task   *)
(* works on the T_W_BMP that its slot points to, by a pointer that nobody  *)
(* takes back when the T_W_BMP is freed.  The HTTPD task frees all of them *)
(* when it clears the tracks.                                              *)
(*                                                                         *)
(* Memory is a set of blocks.  calloc may return any block that is not in  *)
(* use, also one that a task still points to.  What the two tasks of one   *)
(* stream do with its buffers is in BmpStream: here a stream has a phase,  *)
(* and an end mark that its reader sets when it is done.                   *)
(*                                                                         *)
(* A task that uses a freed block works with handles that are gone.  It    *)
(* may find them intact, then what it writes is not kept, because calloc   *)
(* clears the block; or the firmware panics, and the behaviour ends here:  *)
(* the restart is another one.                                             *)
(***************************************************************************)
EXTENDS Naturals, FiniteSets

CONSTANTS
  NSlots,     \* N_HTTPS_CLIENTS
  Elements,   \* track elements that show a BMP
  Blocks,     \* heap blocks of the size of a T_W_BMP
  Null        \* the NULL pointer, and no element

ASSUME HttpsAssumption ==
  /\ NSlots \in Nat
  /\ Null \notin Blocks \cup Elements

Slots == 1 .. NSlots

VARIABLES
  status,    \* status of each slot
  task,      \* where the http task of a slot is, "none" if there is none
  args,      \* the block the task of a slot works on (user_args)
  w_bmp,     \* the pointer of each element
  live,      \* the blocks that are allocated
  phase,     \* bmp_read_phase in each block
  ended,     \* the blocks whose event group holds NO_MORE_DATA
  unserved,  \* streams that https_get or its task left alone (ghost)
  tpc,       \* where the timer task is in bmp_open_url
  cur,       \* the element it opens, Null if none
  scan,      \* the slot it looks at next
  up         \* the firmware has not panicked

slotVars == <<status, task, args>>
heapVars == <<w_bmp, live, phase, ended, unserved>>
openVars == <<tpc, cur, scan>>
vars == <<slotVars, heapVars, openVars, up>>

Phases == {"IDLE", "CONNECT", "READING"}

TaskPlaces == {"none", "start", "init", "reading", "finish", "end"}

Init ==
  /\ status = [s \in Slots |-> "EMPTY"]
  /\ task = [s \in Slots |-> "none"]
  /\ args = [s \in Slots |-> Null]
  /\ w_bmp = [e \in Elements |-> Null]
  /\ live = {}
  /\ phase = [b \in Blocks |-> "IDLE"]
  /\ ended = {}
  /\ unserved = {}
  /\ tpc = "idle"
  /\ cur = Null
  /\ scan = 1
  /\ up = TRUE

(* No panic yet, and none in this step. *)
Running == up /\ UNCHANGED up

(* Writes through a pointer to a T_W_BMP. *)
SetPhase(b, p) == phase' = [phase EXCEPT ![b] = IF b \in live THEN p ELSE @]
MarkEnd(b) == ended' = ended \cup ({b} \cap live)
LeaveAlone(b) == unserved' = unserved \cup ({b} \cap live)

(* The T_W_BMP is all zeros: its event groups are not yet created. *)
NoGroups(b) == tpc = "init" /\ b = w_bmp[cur]

OpenDone == tpc' = "idle" /\ cur' = Null /\ scan' = 1

-----------------------------------------------------------------------------
(* The timer task: bmp_open_url and https_get.                             *)

(* The element has no stream and gets a new T_W_BMP, or it has one that is *)
(* IDLE and is used again; either way it is all zeros, and zero is IDLE.   *)
(* A stream that is not IDLE refuses.                                      *)
OpenUrl(e) ==
  /\ Running
  /\ tpc = "idle"
  /\ \E b \in Blocks :
       /\ IF w_bmp[e] = Null THEN b \notin live
                                ELSE b = w_bmp[e] /\ phase[b] = "IDLE"
       /\ w_bmp' = [w_bmp EXCEPT ![e] = b]
       /\ live' = live \cup {b}
       /\ phase' = [phase EXCEPT ![b] = "IDLE"]
       /\ ended' = ended \ {b}
       /\ unserved' = unserved \ {b}
  /\ tpc' = "init"
  /\ cur' = e
  /\ UNCHANGED <<slotVars, scan>>

(* bmp_init_data: new event groups, the stream is not IDLE any more. *)
InitData ==
  /\ Running
  /\ tpc = "init"
  /\ SetPhase(w_bmp[cur], "CONNECT")
  /\ ended' = ended \ {w_bmp[cur]}
  /\ tpc' = "scan"
  /\ UNCHANGED <<slotVars, w_bmp, live, unserved, cur, scan>>

(* https_get looks at one slot after the other, while tasks end. *)
SkipSlot ==
  /\ Running
  /\ tpc = "scan"
  /\ scan \in Slots
  /\ status[scan] = "ACTIVE"
  /\ scan' = scan + 1
  /\ UNCHANGED <<slotVars, heapVars, tpc, cur>>

(* All slots are taken: https_get returns NULL, bmp_open_url RES_OK. *)
NoSlot ==
  /\ Running
  /\ tpc = "scan"
  /\ scan \notin Slots
  /\ LeaveAlone(w_bmp[cur])
  /\ OpenDone
  /\ UNCHANGED <<slotVars, w_bmp, live, phase, ended>>

(* Variant for the checks: the slot is taken whoever has it. *)
FoundSlotAny ==
  /\ Running
  /\ tpc = "scan"
  /\ scan \in Slots
  /\ status' = [status EXCEPT ![scan] = "ACTIVE"]
  /\ OpenDone

FoundSlot ==
  /\ Running
  /\ tpc = "scan"
  /\ scan \in Slots
  /\ status[scan] = "EMPTY"
  /\ status' = [status EXCEPT ![scan] = "ACTIVE"]
  /\ OpenDone

TakeSlot ==
  /\ FoundSlot
  /\ task' = [task EXCEPT ![scan] = "start"]
  /\ args' = [args EXCEPT ![scan] = w_bmp[cur]]
  /\ UNCHANGED heapVars

(* xTaskCreate fails and nobody looks at its result: the slot is lost. *)
TaskNotCreated ==
  /\ FoundSlot
  /\ LeaveAlone(w_bmp[cur])
  /\ UNCHANGED <<task, args, w_bmp, live, phase, ended>>

(* A tick shows the stream and finds the end mark: bmp_free_buffers. *)
ShowEnd(e) ==
  /\ Running
  /\ tpc = "idle"
  /\ w_bmp[e] \in ended
  /\ phase[w_bmp[e]] # "IDLE"
  /\ ended' = ended \ {w_bmp[e]}
  /\ SetPhase(w_bmp[e], "IDLE")
  /\ UNCHANGED <<slotVars, w_bmp, live, unserved, openVars>>

Free(bs) ==
  /\ live' = live \ bs
  /\ phase' = [b \in Blocks |-> IF b \in bs THEN "IDLE" ELSE phase[b]]
  /\ ended' = ended \ bs
  /\ unserved' = unserved \ bs

(* Variant for the checks: the pointer to the freed T_W_BMP stays. *)
ResetElementKeepsPointer(e) ==
  /\ Running
  /\ tpc = "idle"
  /\ w_bmp[e] # Null
  /\ Free({w_bmp[e]})
  /\ UNCHANGED <<w_bmp, slotVars, openVars>>

(* reset_track_element: at a repeat, at the next element, at a new start.  *)
(* The buffers and the T_W_BMP are freed, whoever uses them.               *)
ResetElement(e) ==
  /\ Running
  /\ tpc = "idle"
  /\ w_bmp[e] # Null
  /\ Free({w_bmp[e]})
  /\ w_bmp' = [w_bmp EXCEPT ![e] = Null]
  /\ UNCHANGED <<slotVars, openVars>>

TimerTask ==
  \/ \E e \in Elements : OpenUrl(e) \/ ShowEnd(e) \/ ResetElement(e)
  \/ InitData \/ SkipSlot \/ NoSlot \/ TakeSlot \/ TaskNotCreated

(* The httpd task, clear_tracks: under the eventlist lock, so not while    *)
(* the timer task processes its tracks.                                    *)
ClearTracks ==
  /\ Running
  /\ tpc = "idle"
  /\ live # {}
  /\ w_bmp' = [e \in Elements |-> Null]
  /\ Free(live)
  /\ UNCHANGED <<slotVars, openVars>>

-----------------------------------------------------------------------------
(* The http task of a slot.                                                *)

Go(s, place) == Running /\ task' = [task EXCEPT ![s] = place]

(* esp_http_client_init fails: the task ends without a callback. *)
ClientInitFails(s) ==
  /\ task[s] = "start"
  /\ Go(s, "end")
  /\ LeaveAlone(args[s])
  /\ UNCHANGED <<status, args, w_bmp, live, phase, ended, openVars>>

(* No connection or not the status 200: HCT_FAILED. *)
ConnectFails(s) ==
  /\ task[s] = "start"
  /\ ~ NoGroups(args[s])
  /\ Go(s, "end")
  /\ MarkEnd(args[s])
  /\ UNCHANGED <<status, args, w_bmp, live, phase, unserved, openVars>>

(* HCT_INIT: bmp_free_buffers makes the stream IDLE for a moment. *)
InitFree(s) ==
  /\ task[s] = "start"
  /\ Go(s, "init")
  /\ SetPhase(args[s], "IDLE")
  /\ UNCHANGED <<status, args, w_bmp, live, ended, unserved, openVars>>

InitPhase(s) ==
  /\ task[s] = "init"
  /\ Go(s, "reading")
  /\ SetPhase(args[s], "READING")
  /\ UNCHANGED <<status, args, w_bmp, live, ended, unserved, openVars>>

(* HCT_READING goes on until the data, the patience or the stream ends;    *)
(* the rounds before change nothing that is kept here.                     *)
StopReading(s) ==
  /\ task[s] = "reading"
  /\ Go(s, "finish")
  /\ UNCHANGED <<status, args, heapVars, openVars>>

(* Variant for the checks: the end is not announced. *)
FinishSilently(s) ==
  /\ task[s] = "finish"
  /\ Go(s, "end")
  /\ UNCHANGED <<status, args, heapVars, openVars>>

(* HCT_FINISH. *)
Finish(s) ==
  /\ task[s] = "finish"
  /\ ~ NoGroups(args[s])
  /\ Go(s, "end")
  /\ MarkEnd(args[s])
  /\ UNCHANGED <<status, args, w_bmp, live, phase, unserved, openVars>>

(* Variant for the checks: the task ends without giving its slot back. *)
TaskEndsKeepsSlot(s) ==
  /\ task[s] = "end"
  /\ Go(s, "none")
  /\ UNCHANGED <<status, args, heapVars, openVars>>

(* http_main_task: the slot is EMPTY, the task deletes itself. *)
TaskEnds(s) ==
  /\ task[s] = "end"
  /\ Go(s, "none")
  /\ status' = [status EXCEPT ![s] = "EMPTY"]
  /\ args' = [args EXCEPT ![s] = Null]
  /\ UNCHANGED <<heapVars, openVars>>

(* The places in which a callback of the http task uses user_args. *)
UsesData(s) == task[s] \in {"start", "init", "reading", "finish"}

(* A callback goes through a freed T_W_BMP, or through an event group that *)
(* is still NULL, which FreeRTOS asserts: the firmware panics.             *)
Fault(s) ==
  /\ up
  /\ UsesData(s)
  /\ args[s] \in live => NoGroups(args[s]) /\ task[s] # "init"
  /\ up' = FALSE
  /\ UNCHANGED <<slotVars, heapVars, openVars>>

HttpTask(s) ==
  \/ ClientInitFails(s) \/ ConnectFails(s) \/ InitFree(s) \/ InitPhase(s)
  \/ StopReading(s) \/ Finish(s) \/ TaskEnds(s)

-----------------------------------------------------------------------------
Next ==
  \/ TimerTask \/ ClearTracks
  \/ \E s \in Slots : HttpTask(s) \/ Fault(s)

Spec == Init /\ [][Next]_vars
-----------------------------------------------------------------------------
(* The state spaces of the variables. *)
TypeOK ==
  /\ status \in [Slots -> {"EMPTY", "ACTIVE"}]
  /\ task \in [Slots -> TaskPlaces]
  /\ args \in [Slots -> Blocks \cup {Null}]
  /\ w_bmp \in [Elements -> Blocks \cup {Null}]
  /\ live \in SUBSET Blocks
  /\ phase \in [Blocks -> Phases]
  /\ ended \in SUBSET Blocks
  /\ unserved \in SUBSET Blocks
  /\ tpc \in {"idle", "init", "scan"}
  /\ cur \in Elements \cup {Null}
  /\ scan \in 1 .. NSlots + 1
  /\ up \in BOOLEAN

(* The slots whose task was never created. *)
Lost == {s \in Slots : status[s] = "ACTIVE" /\ task[s] = "none"}

Pool == INSTANCE ClientPool WITH
  Resources <- Slots, inUse <- {s \in Slots : task[s] # "none"}, gone <- Lost

(* The slots are a pool (https_get.c 197-262): a slot is taken only when   *)
(* it is free, has one task at a time, comes back from every exit of       *)
(* do_https_get, and the only ones that are gone are those whose task      *)
(* could not be created.                                                   *)
SlotsArePool == Pool!Spec

(* The task that will announce the end of the stream in block b. *)
HasReader(b) ==
  \E s \in Slots : args[s] = b /\ task[s] \in {"start", "init", "reading", "finish"}

Opening(b) == tpc \in {"init", "scan"} /\ w_bmp[cur] = b

(* A stream that is not IDLE keeps its element from finishing a bmp_read   *)
(* without a time (process_bmp.c 230-245).  It has a reader that will      *)
(* announce its end, or the end is announced, also when blocks are freed   *)
(* and used again under running tasks.  The three exceptions are those the *)
(* code does not look at: no free slot, no task, no http client.           *)
NoStreamLeftOpen ==
  \A b \in live : phase[b] # "IDLE" =>
    HasReader(b) \/ b \in ended \/ b \in unserved \/ Opening(b)

(* No two elements share a T_W_BMP, and every one they point to is         *)
(* allocated: the free of one element is never the loss of another.        *)
OwnStream ==
  /\ \A e \in Elements : w_bmp[e] # Null => w_bmp[e] \in live
  /\ \A e, f \in Elements : w_bmp[e] = w_bmp[f] /\ w_bmp[e] # Null => e = f

(* What all of it rests on, inductive: a task has its slot and a block,    *)
(* the timer task opens a stream that it still owns (the clear of another  *)
(* task waits for the lock), every stream has one owner and is served.     *)
SlotsInv ==
  /\ TypeOK
  /\ \A s \in Slots : task[s] # "none" => status[s] = "ACTIVE" /\ args[s] \in Blocks
  /\ tpc # "idle" => cur \in Elements /\ w_bmp[cur] # Null
  /\ OwnStream
  /\ NoStreamLeftOpen

(* bmp.c 332 and 343 report "data is gone" when an image is finished or    *)
(* failed without its data: a callback does not use a T_W_BMP that the     *)
(* timer task or a request has freed.                                      *)
FreedStreamUnused == \A s \in Slots : UsesData(s) => args[s] \in live
=============================================================================
