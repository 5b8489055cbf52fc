------------------------------- MODULE Config -------------------------------
(***************************************************************************)
(* The settings of the controller: how they are loaded from the flash and  *)
(* put in force at boot (main/config.c 85-247, main/main.c 44-69), how a   *)
(* POST to /cfg/set changes and stores them (main/rest_server_main.c       *)
(* 120-171, main/create_config.c, config.c 45-83), and how                 *)
(* /cfg/tabula_rasa wipes them (main/rest_server_get.c 431-457).           *)
(*                                                                         *)
(* Three keys stand for the eight: "numleds" sizes the buffer of the LED   *)
(* strip; "cycle" is a number with a default, like the flags and the log   *)
(* level; "name" is a text, like the time zone, the URL and the autoplay   *)
(* file.  A text that is missing and an empty one are the same to every    *)
(* reader, so a name is never absent.                                      *)
(*                                                                         *)
(* External: the flash (NVS).  A value that was set but not committed may  *)
(* or may not be there after a reboot, which can come at every step.       *)
(***************************************************************************)
EXTENDS Integers, Sequences, FiniteSets

CONSTANTS
  LedCounts,   \* the numbers of LEDs that requests ask for
  Cycles,      \* the periods that requests ask for
  Names,       \* the names that requests give
  NoText,      \* NULL or the empty text
  Absent,      \* the flash has no such key
  ContentLen   \* the length of a body

ASSUME ConfigAssumption ==
  /\ LedCounts \subseteq Int /\ 60 \in LedCounts
  /\ Cycles \subseteq Int /\ 50 \in Cycles
  /\ Absent \notin LedCounts \cup Cycles \cup Names \cup {NoText}
  /\ NoText \notin Names
  /\ ContentLen \in Nat \ {0}

VARIABLES
  nvs,        \* the committed value of each key
  pending,    \* values set since the last commit
  ram,        \* cfg_numleds, cfg_cycle, cfg_name
  dirty,      \* keys that make store_needed, or store_it, true
  strip,      \* the pixels that led_strip_pixels has room for
  numleds,    \* s_numleds: the pixels that everybody counts on
  period,     \* s_timer_period_new
  task,       \* who runs: "boot" (app_main) or "httpd"
  pc, idx,    \* where it is, and at which key
  remaining,  \* bytes of the body still to receive
  buf,        \* which byte of the body is where, 0: none
  faults,     \* what has failed since power-up (ghost)
  allowed     \* the values the flash may hold for a key (ghost)

flashVars == <<nvs, pending>>
forceVars == <<strip, numleds, period>>
bodyVars == <<remaining, buf>>
vars == <<flashVars, ram, dirty, forceVars, task, pc, idx, bodyVars, faults, allowed>>

Order == <<"numleds", "cycle", "name">>
Keys == {"numleds", "cycle", "name"}
InRange(n) == n \in 1..1000

(* global_data.c 21-28: what a value is before it is read; the defaults of *)
(* load_config are the same.                                               *)
Initial == [numleds |-> 60, cycle |-> 50, name |-> NoText]
Blank == [numleds |-> Absent, cycle |-> Absent, name |-> NoText]
NonePending == [k \in Keys |-> Absent]
NoBody == [p \in 1..ContentLen |-> 0]

Asked(k) == CASE k = "numleds" -> LedCounts [] k = "cycle" -> Cycles [] k = "name" -> Names \cup {NoText}
Legal(k) == IF k = "numleds" THEN {n \in LedCounts : InRange(n)} ELSE Asked(k)

Init ==
  /\ nvs = Blank
  /\ pending = NonePending
  /\ ram = Initial
  /\ dirty = {}
  /\ strip = 0
  /\ numleds = 0
  /\ period = 100
  /\ task = "boot"
  /\ pc = "load"
  /\ idx = 1
  /\ remaining = 0
  /\ buf = NoBody
  /\ faults = {}
  /\ allowed = [k \in Keys |-> {Blank[k]}]

-----------------------------------------------------------------------------
(* load_config and the boot.                                               *)

(* The next key, or what follows the last one.                             *)
NextKey(then) ==
  /\ pc' = IF idx < Len(Order) THEN pc ELSE then
  /\ idx' = IF idx < Len(Order) THEN idx + 1 ELSE 1

ReadFound ==
  /\ pc = "load"
  /\ LET k == Order[idx] IN
       /\ nvs[k] # Absent
       /\ ram' = [ram EXCEPT ![k] = nvs[k]]
       /\ allowed' = [allowed EXCEPT ![k] = {nvs[k]}]
  /\ NextKey("loaded")
  /\ UNCHANGED <<flashVars, dirty, forceVars, task, bodyVars, faults>>

(* Variant for the checks: a missing key ends the loop, like a failed read. *)
ReadMissingEndsLoop ==
  /\ pc = "load"
  /\ LET k == Order[idx] IN
       /\ nvs[k] = Absent
       /\ ram' = [ram EXCEPT ![k] = Initial[k]]
       /\ dirty' = dirty \cup {k}
       /\ allowed' = [allowed EXCEPT ![k] = @ \cup {Initial[k]}]
  /\ pc' = "loaded"
  /\ idx' = 1
  /\ UNCHANGED <<flashVars, forceVars, task, bodyVars, faults>>

ReadMissing ==
  /\ pc = "load"
  /\ LET k == Order[idx] IN
       /\ nvs[k] = Absent
       /\ ram' = [ram EXCEPT ![k] = Initial[k]]
       /\ dirty' = dirty \cup {k}
       /\ allowed' = [allowed EXCEPT ![k] = @ \cup {Initial[k]}]
  /\ NextKey("loaded")
  /\ UNCHANGED <<flashVars, forceVars, task, bodyVars, faults>>

(* The keys from here on keep their initial values, and load_config does   *)
(* not report it: a later store writes them.  At the name, the last key,   *)
(* this is also what a failed calloc or second nvs_get_str does (206-207): *)
(* the text stays empty.                                                   *)
ReadFails ==
  /\ pc = "load"
  /\ faults' = faults \cup {"store"}
  /\ allowed' = [k \in Keys |-> IF \E j \in idx..Len(Order) : Order[j] = k
                                THEN allowed[k] \cup {Initial[k]} ELSE allowed[k]]
  /\ pc' = "loaded"
  /\ idx' = 1
  /\ UNCHANGED <<flashVars, ram, dirty, forceVars, task, bodyVars>>

LoadEnds ==
  /\ pc = "loaded"
  /\ pc' = IF dirty = {} THEN "apply" ELSE "open"
  /\ UNCHANGED <<flashVars, ram, dirty, forceVars, task, idx, bodyVars, faults, allowed>>

(* led_strip_init and set_event_timer_period; without memory the strip has *)
(* no pixels, and the boot goes on.                                        *)
Apply ==
  /\ pc = "apply"
  /\ numleds' = IF InRange(ram["numleds"]) THEN ram["numleds"] ELSE 60
  /\ \/ /\ strip' = numleds'
        /\ UNCHANGED faults
     \/ /\ strip' = 0
        /\ faults' = faults \cup {"strip"}
  /\ period' = ram["cycle"]
  /\ task' = "httpd"
  /\ pc' = "idle"
  /\ UNCHANGED <<flashVars, ram, dirty, idx, bodyVars, allowed>>

-----------------------------------------------------------------------------
(* store_config: the results of the nvs_set calls are ignored.  A failure  *)
(* of the rest aborts a boot (ESP_ERROR_CHECK) and is ignored by /cfg/set. *)

StoreFailed ==
  /\ faults' = faults \cup {"store"}
  /\ pc' = IF task = "boot" THEN "abort" ELSE "answer"

OpenStore ==
  /\ pc = "open"
  /\ pc' = "set"
  /\ UNCHANGED <<flashVars, ram, dirty, forceVars, task, idx, bodyVars, faults, allowed>>

OpenFails ==
  /\ pc = "open"
  /\ StoreFailed
  /\ UNCHANGED <<flashVars, ram, dirty, forceVars, task, idx, bodyVars, allowed>>

SetValue ==
  /\ pc = "set"
  /\ pending' = [pending EXCEPT ![Order[idx]] = ram[Order[idx]]]
  /\ NextKey("commit")
  /\ UNCHANGED <<nvs, ram, dirty, forceVars, task, bodyVars, faults, allowed>>

SetFails ==
  /\ pc = "set"
  /\ faults' = faults \cup {"store"}
  /\ NextKey("commit")
  /\ UNCHANGED <<flashVars, ram, dirty, forceVars, task, bodyVars, allowed>>

(* What the flash holds once the values of ks, a set of keys, are in it.   *)
Written(ks) == [k \in Keys |-> IF k \in ks /\ pending[k] # Absent THEN pending[k] ELSE nvs[k]]

Commit ==
  /\ pc = "commit"
  /\ nvs' = Written(Keys)
  /\ pending' = NonePending
  /\ dirty' = {}
  /\ pc' = IF task = "boot" THEN "apply" ELSE "answer"
  /\ UNCHANGED <<ram, forceVars, task, idx, bodyVars, faults, allowed>>

CommitFails ==
  /\ pc = "commit"
  /\ StoreFailed
  /\ UNCHANGED <<flashVars, ram, dirty, forceVars, task, idx, bodyVars, allowed>>

-----------------------------------------------------------------------------
(* post_handler_main: the body of a request.  Every part that is received  *)
(* is put at the start of the buffer; a time-out only repeats the call.    *)

Post ==
  /\ pc = "idle"
  /\ remaining' = ContentLen
  /\ buf' = NoBody
  /\ pc' = "recv"
  /\ UNCHANGED <<flashVars, ram, dirty, forceVars, task, idx, faults, allowed>>

Receive ==
  /\ pc = "recv"
  /\ \E received \in 1..remaining :
       /\ buf' = [p \in 1..ContentLen |-> IF p <= received THEN ContentLen - remaining + p ELSE buf[p]]
       /\ remaining' = remaining - received
  /\ pc' = IF remaining' = 0 THEN "decode" ELSE "recv"
  /\ UNCHANGED <<flashVars, ram, dirty, forceVars, task, idx, faults, allowed>>

ReceiveFails ==
  /\ pc = "recv"
  /\ remaining' = 0
  /\ buf' = NoBody
  /\ pc' = "idle"
  /\ UNCHANGED <<flashVars, ram, dirty, forceVars, task, idx, faults, allowed>>

-----------------------------------------------------------------------------
(* decode_json4config_root: one attribute after the other; the first bad   *)
(* one ends the loop, the ones before it stay changed and are stored.      *)

(* Any text may be in the buffer, so any attribute can follow.             *)
Decode ==
  /\ pc = "decode"
  /\ pc' \in {"attr", "decoded"}
  /\ buf' = NoBody
  /\ UNCHANGED <<flashVars, ram, dirty, forceVars, task, idx, remaining, faults, allowed>>

AttributeSame ==
  /\ pc = "attr"
  /\ NextKey("decoded")
  /\ UNCHANGED <<flashVars, ram, dirty, forceVars, task, bodyVars, faults, allowed>>

(* Variant for the checks: a bad attribute returns without the store. *)
AttributeInvalidReturns ==
  /\ pc = "attr"
  /\ pc' = "answer"
  /\ idx' = 1
  /\ UNCHANGED <<flashVars, ram, dirty, forceVars, task, bodyVars, faults, allowed>>

AttributeInvalid ==
  /\ pc = "attr"
  /\ pc' = "decoded"
  /\ idx' = 1
  /\ UNCHANGED <<flashVars, ram, dirty, forceVars, task, bodyVars, faults, allowed>>

(* The new value of key k, remembered for the store.                       *)
Change(k, v) ==
  /\ ram' = [ram EXCEPT ![k] = v]
  /\ dirty' = dirty \cup {k}
  /\ allowed' = [allowed EXCEPT ![k] = @ \cup {v}]
  /\ NextKey("decoded")

AttributeChanges ==
  /\ pc = "attr"
  /\ LET k == Order[idx] IN k # "numleds" /\ \E v \in Asked(k) \ {ram[k]} : Change(k, v)
  /\ UNCHANGED <<flashVars, forceVars, task, bodyVars, faults>>

(* Variant for the checks: set_numleds takes any number. *)
NumledsNotChecked ==
  /\ pc = "attr"
  /\ Order[idx] = "numleds"
  /\ \E n \in LedCounts \ {ram["numleds"]} :
       strip' = n /\ numleds' = n /\ Change("numleds", n)
  /\ UNCHANGED <<flashVars, period, task, bodyVars, faults>>

(* set_numleds replaces the pixels first; a number out of range is refused *)
(* (AttributeInvalid).                                                     *)
NumledsChanges ==
  /\ pc = "attr"
  /\ Order[idx] = "numleds"
  /\ \E n \in LedCounts \ {ram["numleds"]} :
       InRange(n) /\ strip' = n /\ numleds' = n /\ Change("numleds", n)
  /\ UNCHANGED <<flashVars, period, task, bodyVars, faults>>

(* The old pixels are gone, s_numleds is the new number already, and       *)
(* cfg_numleds still the old one, so a request for that one changes        *)
(* nothing.                                                                *)
NoMemoryForPixels ==
  /\ pc = "attr"
  /\ Order[idx] = "numleds"
  /\ \E n \in LedCounts \ {ram["numleds"]} : InRange(n) /\ numleds' = n
  /\ strip' = 0
  /\ faults' = faults \cup {"strip"}
  /\ pc' = "decoded"
  /\ idx' = 1
  /\ UNCHANGED <<flashVars, ram, dirty, period, task, bodyVars, allowed>>

(* Variant for the checks: the new period waits for the next boot. *)
DecodeEndsStoresOnly ==
  /\ pc = "decoded"
  /\ \/ dirty = {} /\ pc' = "answer" /\ UNCHANGED period
     \/ dirty # {} /\ pc' = "open" /\ UNCHANGED period
  /\ UNCHANGED <<flashVars, ram, dirty, strip, numleds, task, idx, bodyVars, faults, allowed>>

DecodeEnds ==
  /\ pc = "decoded"
  /\ \/ dirty = {} /\ pc' = "answer" /\ UNCHANGED period
     \/ dirty # {} /\ pc' = "open" /\ period' = ram["cycle"]
  /\ UNCHANGED <<flashVars, ram, dirty, strip, numleds, task, idx, bodyVars, faults, allowed>>

(* From now on the flash must hold what is in force, if no store failed.   *)
Answer ==
  /\ pc = "answer"
  /\ allowed' = IF "store" \in faults THEN allowed ELSE [k \in Keys |-> {ram[k]}]
  /\ dirty' = {}
  /\ pc' = "idle"
  /\ UNCHANGED <<flashVars, ram, forceVars, task, idx, bodyVars, faults>>

-----------------------------------------------------------------------------
(* get_handler_reset: nvs_flash_erase may fail halfway, its result is      *)
(* ignored; then the controller restarts.                                  *)

TabulaRasa ==
  /\ pc = "idle"
  /\ \E erased \in SUBSET Keys :
       /\ nvs' = [k \in Keys |-> IF k \in erased THEN Blank[k] ELSE nvs[k]]
       /\ pending' = [k \in Keys |-> IF k \in erased THEN Absent ELSE pending[k]]
       /\ allowed' = [k \in Keys |-> IF k \in erased THEN {Blank[k]} ELSE allowed[k]]
  /\ pc' = "restart"
  /\ UNCHANGED <<ram, dirty, forceVars, task, idx, bodyVars, faults>>

(* A restart, an abort or a loss of power, at any time.                    *)
Reboot ==
  /\ \E kept \in SUBSET Keys : nvs' = Written(kept)
  /\ pending' = NonePending
  /\ ram' = Initial
  /\ dirty' = {}
  /\ strip' = 0
  /\ numleds' = 0
  /\ period' = 100
  /\ task' = "boot"
  /\ pc' = "load"
  /\ idx' = 1
  /\ remaining' = 0
  /\ buf' = NoBody
  /\ faults' = {}
  /\ UNCHANGED allowed

Next ==
  \/ ReadFound \/ ReadMissing \/ ReadFails \/ LoadEnds \/ Apply
  \/ OpenStore \/ OpenFails \/ SetValue \/ SetFails \/ Commit \/ CommitFails
  \/ Post \/ Receive \/ ReceiveFails
  \/ Decode \/ AttributeSame \/ AttributeInvalid \/ AttributeChanges
  \/ NumledsChanges \/ NoMemoryForPixels \/ DecodeEnds \/ Answer
  \/ TabulaRasa \/ Reboot

Spec == Init /\ [][Next]_vars

-----------------------------------------------------------------------------
(* Types, and what the rest rests on: only a number of LEDs in range gets  *)
(* into the settings or the flash; a key not yet read has its initial      *)
(* value; and uncommitted values are left from a failed store or belong to *)
(* the one that runs (config.c 61-72).                                     *)
Unread(k) == pc = "load" /\ \E j \in idx..Len(Order) : Order[j] = k

Values == LedCounts \cup Cycles \cup Names \cup {NoText, Absent}

Kinds ==
  /\ {nvs, pending, ram} \subseteq [Keys -> Values]
  /\ allowed \in [Keys -> SUBSET Values]
  /\ \A k \in Keys :
       /\ {nvs[k], pending[k]} \cup allowed[k] \subseteq Legal(k) \cup {Absent}
       /\ ram[k] \in Legal(k)
       /\ Unread(k) => ram[k] = Initial[k]
  /\ nvs["name"] # Absent
  /\ {strip, numleds} \subseteq LedCounts \cup {0}
  /\ period \in Cycles \cup {100}
  /\ remaining \in 0..ContentLen
  /\ buf \in [1..ContentLen -> 0..ContentLen]
  /\ faults \subseteq {"store", "strip"}
  /\ dirty \subseteq Keys

Control ==
  /\ \/ task = "boot" /\ pc \in {"load", "loaded", "open", "set", "commit", "apply", "abort"}
     \/ task = "httpd" /\ pc \in {"idle", "recv", "decode", "attr", "decoded", "open", "set",
                                  "commit", "answer", "restart"}
  /\ idx \in 1..Len(Order)
  /\ pc \notin {"load", "set", "attr"} => idx = 1
  /\ pc \in {"apply", "idle", "recv", "decode"} => dirty = {}
  /\ pc \in {"load", "loaded"} => pending = NonePending

ConfigInv == Kinds /\ Control

(* A reboot at any step, between any two writes or within an erasure,      *)
(* finds for each key the value last confirmed or found at a boot, or one  *)
(* that was decoded since, or the initial value if the key was missing or  *)
(* could not be read: never another key's reset to it (config.c 85-247).   *)
SurvivesPowerLoss ==
  \A k \in Keys : nvs[k] \in allowed[k] /\ pending[k] \in allowed[k] \cup {Absent}

(* Between two requests the flash holds what is in force, whatever the     *)
(* requests were, the refused ones included, unless a call of the NVS has  *)
(* failed since power-up (create_config.c 236-240).                        *)
AnsweredIsStored == pc = "idle" /\ "store" \notin faults => nvs = ram

(* Between two requests the period and the pixels are those of the         *)
(* settings, and there are as many pixels as everybody counts on; a strip  *)
(* without pixels has met a failed allocation (create_config.c 45-53, 237; *)
(* led_strip_util.c 120-138).                                              *)
SettingsInForce ==
  pc = "idle" =>
    /\ period = ram["cycle"]
    /\ (strip = ram["numleds"] /\ numleds = strip) \/ (strip = 0 /\ "strip" \in faults)

(* What is decoded is what was sent: rest_server_main.c:129 "Receive the   *)
(* file part by part into a buffer".                                       *)
BodyComplete == pc = "decode" => \A p \in 1..ContentLen : buf[p] = p
=============================================================================
