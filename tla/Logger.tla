------------------------------- MODULE Logger -------------------------------
(***************************************************************************)
(* The log of the controller (main/logger.c 19-60): a ring of the last     *)
(* entries in the RAM, written by every task, which the httpd task lists   *)
(* and clears (main/rest_server_get.c 55-92).  A mutex guards it, and      *)
(* nobody waits for it longer than 5 s: an entry is dropped, a request     *)
(* gets an empty answer.                                                   *)
(*                                                                         *)
(* The check for a new firmware is deleted when it takes too long          *)
(* (main/rest_server_ota.c 224-225), wherever it is: a mutex it holds is   *)
(* never given back.  A later check runs in a new task of the same name.   *)
(*                                                                         *)
(* External: the time-out may come whenever somebody else has the mutex,   *)
(* because a list is sent, entry by entry, to a client of any speed.       *)
(***************************************************************************)
EXTENDS Naturals, Sequences

CONSTANTS
  N,           \* N_LOG_ENTRIES
  Tasks,       \* the tasks that log
  Httpd,       \* the one that also lists and clears
  Deletable,   \* those that vTaskDelete may end
  Msgs,        \* what an entry says
  Empty,       \* an entry with the level ESP_LOG_NONE
  Torn,        \* an entry that is being written
  Free, Lost   \* the mutex has no holder; its holder is gone

ASSUME LoggerAssumption ==
  /\ N \in Nat \ {0}
  /\ Httpd \in Tasks /\ Deletable \subseteq Tasks \ {Httpd}
  /\ {Free, Lost} \cap Tasks = {} /\ Free # Lost
  /\ {Empty, Torn} \cap Msgs = {} /\ Empty # Torn

VARIABLES
  lock,        \* the holder of xLogSemaphore
  ring,        \* logtable
  idx,         \* log_write_idx
  pc,          \* where each task is in its call, "idle": in none
  pos, count,  \* pos and i of get_handler_list_err
  sent,        \* the entries it has sent
  book         \* the entries written since the last clear, at most N (ghost)

logVars == <<ring, idx, book>>
listVars == <<pos, count, sent>>
vars == <<lock, logVars, pc, listVars>>

Init ==
  /\ lock = Free
  /\ ring = [p \in 0..N-1 |-> Empty]
  /\ idx = 0
  /\ pc = [t \in Tasks |-> "idle"]
  /\ pos = 0
  /\ count = 0
  /\ sent = <<>>
  /\ book = <<>>

Goto(t, place) == pc' = [pc EXCEPT ![t] = place]
Wrap(p) == IF p >= N THEN p - N ELSE p

-----------------------------------------------------------------------------
(* obtain_logsem_lock and release_logsem_lock.                             *)

Calls == {"log", "list", "clear"}
Waiting(c) == CASE c = "log" -> "log_wait" [] c = "list" -> "list_wait" [] c = "clear" -> "clear_wait"

Call(t) ==
  /\ pc[t] = "idle"
  /\ \E c \in Calls : (c = "log" \/ t = Httpd) /\ Goto(t, Waiting(c))
  /\ UNCHANGED <<lock, logVars, listVars>>

Take(t) ==
  /\ lock = Free
  /\ lock' = t
  /\ \E c \in Calls : pc[t] = Waiting(c) /\ Goto(t, c)
  /\ UNCHANGED <<logVars, listVars>>

(* Variant for the checks: the mutex is waited for with portMAX_DELAY.     *)
TimesOutNever(t) == FALSE

(* The call returns without having done anything.                          *)
TimesOut(t) ==
  /\ lock # Free
  /\ pc[t] \in {Waiting(c) : c \in Calls}
  /\ Goto(t, "idle")
  /\ UNCHANGED <<lock, logVars, listVars>>

Release(t) ==
  /\ pc[t] = "release"
  /\ lock' = Free
  /\ Goto(t, "idle")
  /\ UNCHANGED <<logVars, listVars>>

-----------------------------------------------------------------------------
(* log_doit: level, time and text are written one after the other.         *)

BeginEntry(t) ==
  /\ pc[t] = "log"
  /\ ring' = [ring EXCEPT ![idx] = Torn]
  /\ Goto(t, "writing")
  /\ UNCHANGED <<lock, idx, book, listVars>>

EndEntry(t) ==
  /\ pc[t] = "writing"
  /\ \E m \in Msgs : ring' = [ring EXCEPT ![idx] = m]
  /\ Goto(t, "written")
  /\ UNCHANGED <<lock, idx, book, listVars>>

Advance(t) ==
  /\ pc[t] = "written"
  /\ idx' = Wrap(idx + 1)
  /\ book' = Append(IF Len(book) = N THEN Tail(book) ELSE book, ring[idx])
  /\ Goto(t, "release")
  /\ UNCHANGED <<lock, ring, listVars>>

-----------------------------------------------------------------------------
(* get_handler_list_err and get_handler_clear_err.                         *)

(* Variant for the checks: the list starts with the first entry.           *)
StartListAtZero(t) ==
  /\ pc[t] = "list"
  /\ pos' = 0
  /\ count' = 0
  /\ sent' = <<>>
  /\ Goto(t, "listing")
  /\ UNCHANGED <<lock, logVars>>

StartList(t) ==
  /\ pc[t] = "list"
  /\ pos' = idx
  /\ count' = 0
  /\ sent' = <<>>
  /\ Goto(t, "listing")
  /\ UNCHANGED <<lock, logVars>>

ListEntry(t) ==
  /\ pc[t] = "listing"
  /\ count < N
  /\ pos' = Wrap(pos + 1)
  /\ count' = count + 1
  /\ sent' = IF ring[pos] = Empty THEN sent ELSE Append(sent, ring[pos])
  /\ UNCHANGED <<lock, logVars, pc>>

EndList(t) ==
  /\ pc[t] = "listing"
  /\ count = N
  /\ Goto(t, "release")
  /\ UNCHANGED <<lock, logVars, listVars>>

(* Variant for the checks: only the entries are cleared.                   *)
ClearKeepsIndex(t) ==
  /\ pc[t] = "clear"
  /\ ring' = [p \in 0..N-1 |-> Empty]
  /\ book' = <<>>
  /\ Goto(t, "release")
  /\ UNCHANGED <<lock, idx, listVars>>

Clear(t) ==
  /\ pc[t] = "clear"
  /\ idx' = 0
  /\ ring' = [p \in 0..N-1 |-> Empty]
  /\ book' = <<>>
  /\ Goto(t, "release")
  /\ UNCHANGED <<lock, listVars>>

-----------------------------------------------------------------------------
(* vTaskDelete in the middle of a call.                                    *)
Delete(t) ==
  /\ t \in Deletable
  /\ pc[t] # "idle"
  /\ lock' = IF lock = t THEN Lost ELSE lock
  /\ Goto(t, "idle")
  /\ UNCHANGED <<logVars, listVars>>

Step(t) ==
  \/ Take(t) \/ TimesOut(t) \/ Release(t)
  \/ BeginEntry(t) \/ EndEntry(t) \/ Advance(t)
  \/ StartList(t) \/ ListEntry(t) \/ EndList(t) \/ Clear(t)

Next == \E t \in Tasks : Call(t) \/ Step(t) \/ Delete(t)

Spec == Init /\ [][Next]_vars

(* A task in a call goes on; nobody has to call or to be deleted.          *)
FairSpec == Spec /\ \A t \in Tasks : WF_vars(Step(t))

-----------------------------------------------------------------------------
Inside == {"log", "writing", "written", "list", "listing", "clear", "release"}
Places == Inside \cup {"idle"} \cup {Waiting(c) : c \in Calls}

(* The entry at idx is being replaced, or its writer was deleted there.    *)
Unsettled == lock = Lost \/ \E t \in Tasks : pc[t] \in {"writing", "written"}

(* What the book has at position p of the ring.                            *)
Entry(p) ==
  IF Len(book) < N THEN IF p < idx THEN book[p + 1] ELSE Empty
  ELSE IF p < idx THEN book[N - idx + p + 1] ELSE book[p - idx + 1]

(* One task at a time is inside, only httpd lists, and the ring is the     *)
(* book: its oldest entry at idx once it is full, at 0 before that, and    *)
(* no entry beyond it (logger.c 46-57, rest_server_get.c 87-88).           *)
LogInv ==
  /\ ring \in [0..N-1 -> Msgs \cup {Empty, Torn}]
  /\ idx \in 0..N-1
  /\ lock \in Tasks \cup {Free, Lost}
  /\ pc \in [Tasks -> Places]
  /\ pos \in 0..N-1 /\ count \in 0..N
  /\ sent \in Seq(Msgs \cup {Torn}) /\ book \in Seq(Msgs)
  /\ \A t \in Tasks : /\ pc[t] \in Inside <=> lock = t
                      /\ pc[t] \in {"list_wait", "list", "listing", "clear_wait", "clear"} => t = Httpd
                      /\ pc[t] = "written" => ring[idx] \in Msgs
  /\ Len(book) <= N
  /\ Len(book) < N => idx = Len(book)
  /\ \A p \in 0..N-1 : (p = idx /\ Unsettled) \/ ring[p] = Entry(p)

(* A list shows every entry since the last clear, up to N, once, complete, *)
(* the oldest first, whoever logs or is deleted meanwhile                  *)
(* (rest_server_get.c 63-75).                                              *)
ListedInOrder == pc[Httpd] = "listing" /\ count = N => sent = book

(* How far a task is from the return of its call. *)
CallRank(t) ==
  CASE pc[t] = "list_wait"                     -> N + 4
    [] pc[t] = "list"                          -> N + 3
    [] pc[t] = "listing"                       -> N - count + 2
    [] pc[t] = "log_wait"                      -> 5
    [] pc[t] = "log"                           -> 4
    [] pc[t] \in {"writing", "clear_wait"}     -> 3
    [] pc[t] \in {"written", "clear"}          -> 2
    [] pc[t] = "release"                       -> 1
    [] pc[t] = "idle"                          -> 0

(* Every step of a task brings the return of its call closer, whether it   *)
(* got the mutex or not, and no other task moves it away: neither one that *)
(* logs into the ring that is listed nor one that is deleted               *)
(* (logger.c 19-57, rest_server_get.c 55-92).                              *)
CallsDescend ==
  [][\A t \in Tasks : CallRank(t) > 0 =>
       \/ CallRank(t)' \in Nat /\ CallRank(t)' < CallRank(t)
       \/ CallRank(t)' = CallRank(t) /\ ~Step(t)]_vars

(* Every call returns, even after the holder of the mutex was deleted      *)
(* (logger.c 19-25, rest_server_ota.c 225).                                *)
CallReturns == \A t \in Tasks : pc[t] # "idle" ~> pc[t] = "idle"
=============================================================================
