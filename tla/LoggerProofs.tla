---------------------------- MODULE LoggerProofs ----------------------------
(***************************************************************************)
(* Theorems of Logger, for a ring of any length and any set of tasks.      *)
(* LogInv says what the ring holds; ListInv follows a list through it.     *)
(***************************************************************************)
EXTENDS Logger, SequenceTheorems, TLAPS

(* The entries before the oldest one are skipped, then the book is sent.   *)
ListInv ==
  pc[Httpd] = "listing" =>
    /\ pos = Wrap(idx + count)
    /\ Len(sent) = IF count > N - Len(book) THEN count - (N - Len(book)) ELSE 0
    /\ \A j \in 1..Len(sent) : sent[j] = book[j]

IInv == LogInv /\ ListInv

LEMMA InitEstablishes == Init => IInv
BY LoggerAssumption DEF Init, IInv, LogInv, ListInv, Entry, Inside, Places

(* Calls, time-outs and the mutex: the log is not touched.                 *)
LEMMA LockKeeps ==
  ASSUME LogInv, NEW t \in Tasks, Call(t) \/ Take(t) \/ TimesOut(t) \/ Release(t) \/ Delete(t)
  PROVE  LogInv'
<1> USE LoggerAssumption DEF LogInv, Goto, Inside, Places, Calls, Waiting, logVars, listVars
<1>1. CASE Call(t)
  BY <1>1 DEF Call, Unsettled, Entry
<1>2. CASE Take(t)
  <2>1. PICK c \in Calls : pc[t] = Waiting(c) /\ pc' = [pc EXCEPT ![t] = c]
    BY <1>2 DEF Take
  <2>2. lock = Free /\ lock' = t /\ UNCHANGED <<logVars, listVars>>
    BY <1>2 DEF Take
  <2>3. c \in {"list", "clear"} => t = Httpd
    BY <2>1
  <2>4. \A p \in 0..N-1 : ring'[p] = Entry(p)'
    BY <2>2 DEF Entry, Unsettled
  <2> QED BY <2>1, <2>2, <2>3, <2>4
<1>3. CASE TimesOut(t)
  BY <1>3 DEF TimesOut, Unsettled, Entry
<1>4. CASE Release(t)
  BY <1>4 DEF Release, Unsettled, Entry
<1>5. CASE Delete(t)
  <2>1. pc' = [pc EXCEPT ![t] = "idle"] /\ lock' = (IF lock = t THEN Lost ELSE lock)
        /\ UNCHANGED <<logVars, listVars>> /\ t # Httpd
    BY <1>5 DEF Delete
  <2>2. \A u \in Tasks : /\ pc'[u] \in Inside <=> lock' = u
                         /\ pc'[u] \in {"list_wait", "list", "listing", "clear_wait", "clear"} => u = Httpd
                         /\ pc'[u] = "written" => ring[idx] \in Msgs
    BY <2>1
  <2>3. Unsettled => Unsettled'
    <3>1. CASE lock = Lost
      BY <2>1, <3>1 DEF Unsettled
    <3>2. ASSUME NEW u \in Tasks, pc[u] \in {"writing", "written"} PROVE Unsettled'
      BY <2>1, <3>2 DEF Unsettled
    <3> QED BY <3>1, <3>2 DEF Unsettled
  <2>4. \A p \in 0..N-1 : (p = idx' /\ Unsettled') \/ ring'[p] = Entry(p)'
    BY <2>1, <2>3 DEF Entry
  <2> QED BY <2>1, <2>2, <2>4
<1> QED BY <1>1, <1>2, <1>3, <1>4, <1>5

(* What a new entry does to the book, or to a list.                        *)
LEMMA Appended ==
  ASSUME NEW S, NEW b \in Seq(S), NEW m \in S
  PROVE  /\ Append(b, m) \in Seq(S)
         /\ Len(Append(b, m)) = Len(b) + 1
         /\ \A i \in 1..Len(b) : Append(b, m)[i] = b[i]
         /\ Append(b, m)[Len(b) + 1] = m
         /\ Len(b) > 0 => /\ Tail(b) \in Seq(S)
                          /\ Len(Tail(b)) = Len(b) - 1
                          /\ \A i \in 1..Len(b) - 1 : Tail(b)[i] = b[i + 1]
OBVIOUS

LEMMA WriterKeeps ==
  ASSUME LogInv, NEW t \in Tasks, BeginEntry(t) \/ EndEntry(t) \/ Advance(t)
  PROVE  LogInv'
<1> USE LoggerAssumption DEF LogInv, Goto, Inside, Places, Calls, Waiting, logVars, listVars
<1>1. CASE BeginEntry(t)
  BY <1>1 DEF BeginEntry, Unsettled, Entry
<1>2. CASE EndEntry(t)
  BY <1>2 DEF EndEntry, Unsettled, Entry
<1>3. CASE Advance(t)
  <2> DEFINE m == ring[idx]
             Unchanged == UNCHANGED <<lock, ring, pos, count, sent>>
  <2>1. m \in Msgs /\ lock = t /\ idx' = Wrap(idx + 1) /\ ring' = ring /\ pc' = [pc EXCEPT ![t] = "release"]
    BY <1>3 DEF Advance
  <2>2. \A p \in 0..N-1 \ {idx} : ring[p] = Entry(p)
    OBVIOUS
  <2>. idx \in 0..N-1 /\ N \in Nat \ {0} /\ Len(book) \in 0..N /\ book \in Seq(Msgs)
       /\ (Len(book) < N => idx = Len(book))
    OBVIOUS
  <2>3. CASE Len(book) = N
    <3>1. book' = Append(Tail(book), m)
      BY <1>3, <2>3 DEF Advance
    <3>2. book' \in Seq(Msgs) /\ Len(book') = N /\ book'[N] = m /\ \A i \in 1..N-1 : book'[i] = book[i + 1]
      BY <2>1, <2>3, <3>1, Appended
    <3>3. ASSUME NEW p \in 0..N-1 PROVE ring'[p] = Entry(p)'
      <4> HIDE DEF LogInv
      <4>1. CASE p = idx
        <5>1. CASE idx = N - 1
          BY <2>1, <3>2, <4>1, <5>1 DEF Entry, Wrap
        <5>2. CASE idx + 1 < N
          BY <2>1, <3>2, <4>1, <5>2 DEF Entry, Wrap
        <5> QED BY <5>1, <5>2
      <4>2. CASE p < idx
        <5>1. ring'[p] = book[N - idx + p + 1]
          <6>1. ring[p] = Entry(p)
            BY <2>2, <4>2
          <6>2. ring'[p] = ring[p]
            BY <2>1
          <6> QED BY <2>3, <4>2, <6>1, <6>2 DEF Entry
        <5>2. N - idx + p \in 1..N-1 /\ book'[N - idx + p] = book[N - idx + p + 1]
          BY <3>2, <4>2
        <5>3. CASE idx = N - 1
          BY <2>1, <3>2, <5>1, <5>2, <5>3 DEF Entry, Wrap
        <5>4. CASE idx + 1 < N
          BY <2>1, <3>2, <4>2, <5>1, <5>2, <5>4 DEF Entry, Wrap
        <5> QED BY <5>3, <5>4
      <4>3. CASE p > idx
        BY <2>1, <2>2, <2>3, <3>2, <4>3 DEF Entry, Wrap
      <4> QED BY <4>1, <4>2, <4>3
    <3>4. Unchanged /\ idx' \in 0..N-1
      BY <1>3, <2>1 DEF Advance, Wrap
    <3> QED BY <2>1, <3>2, <3>3, <3>4
  <2>4. CASE Len(book) < N
    <3>1. book' = Append(book, m)
      BY <1>3, <2>4 DEF Advance
    <3> HIDE DEF LogInv
    <3>2. book' \in Seq(Msgs) /\ Len(book') = idx + 1 /\ book'[idx + 1] = m /\ \A i \in 1..idx : book'[i] = book[i]
      BY <2>1, <2>4, <3>1, Appended
    <3>3. ASSUME NEW p \in 0..N-1 PROVE ring'[p] = Entry(p)'
      <4> HIDE DEF LogInv
      <4>1. CASE p = idx
        BY <2>1, <2>4, <3>2, <4>1 DEF Entry, Wrap
      <4>2. CASE p < idx
        BY <2>1, <2>2, <2>4, <3>2, <4>2 DEF Entry, Wrap
      <4>3. CASE p > idx
        BY <2>1, <2>2, <2>4, <3>2, <4>3 DEF Entry, Wrap
      <4> QED BY <4>1, <4>2, <4>3
    <3> USE DEF LogInv
    <3>4. Unchanged /\ idx' \in 0..N-1 /\ (idx + 1 < N => idx' = idx + 1)
      BY <1>3, <2>1 DEF Advance, Wrap
    <3> QED BY <2>1, <2>4, <3>2, <3>3, <3>4
  <2> QED BY <2>3, <2>4
<1> QED BY <1>1, <1>2, <1>3

LEMMA HttpdKeeps ==
  ASSUME LogInv, NEW t \in Tasks, StartList(t) \/ ListEntry(t) \/ EndList(t) \/ Clear(t)
  PROVE  LogInv'
<1> USE LoggerAssumption DEF LogInv, Goto, Inside, Places, Calls, Waiting, logVars, listVars
<1>1. CASE StartList(t)
  BY <1>1 DEF StartList, Unsettled, Entry
<1>2. CASE ListEntry(t)
  <2>1. lock = t /\ ~Unsettled
    BY <1>2 DEF ListEntry, Unsettled
  <2>2. ring[pos] \in Msgs \cup {Empty}
    BY <2>1 DEF Entry
  <2>3. sent' \in Seq(Msgs \cup {Torn})
    BY <1>2, <2>2 DEF ListEntry
  <2> QED BY <1>2, <2>3, SMTT(15) DEF ListEntry, Wrap, Unsettled, Entry
<1>3. CASE EndList(t)
  BY <1>3 DEF EndList, Unsettled, Entry
<1>4. CASE Clear(t)
  BY <1>4 DEF Clear, Unsettled, Entry
<1> QED BY <1>1, <1>2, <1>3, <1>4
-----------------------------------------------------------------------------
(* A list follows the book.                                                *)
LEMMA ListKept ==
  ASSUME IInv, NEW t \in Tasks, Call(t) \/ Step(t) \/ Delete(t)
  PROVE  ListInv'
<1> USE LoggerAssumption DEF IInv, LogInv, ListInv, Goto, Inside, logVars, listVars
<1>1. CASE Call(t) \/ Take(t) \/ TimesOut(t) \/ Release(t) \/ Delete(t) \/ BeginEntry(t) \/ EndEntry(t)
  BY <1>1 DEF Call, Take, TimesOut, Release, Delete, BeginEntry, EndEntry, Calls, Waiting, Wrap
<1>2. CASE Advance(t) \/ EndList(t) \/ Clear(t)
  BY <1>2 DEF Advance, EndList, Clear
<1>3. CASE StartList(t)
  BY <1>3 DEF StartList, Wrap
<1>4. CASE ListEntry(t)
  <2>1. t = Httpd /\ lock = t /\ pc[t] = "listing" /\ count < N
    BY <1>4 DEF ListEntry
  <2>2. ~Unsettled
    BY <2>1 DEF Unsettled
  <2>3. ring[pos] = Entry(pos)
    BY <2>2
  <2>4. pos' = Wrap(idx' + count')
    BY <1>4, <2>1 DEF ListEntry, Wrap
  <2> DEFINE skip == N - Len(book)
  <2>5. CASE count < skip
    <3>1. ring[pos] = Empty
      BY <2>1, <2>3, <2>5 DEF Entry, Wrap
    <3> QED BY <1>4, <2>1, <2>4, <2>5, <3>1 DEF ListEntry
  <2>6. CASE count >= skip
    <3>1. ring[pos] = book[count - skip + 1]
      <4>1. /\ N \in Nat \ {0} /\ idx \in 0..N-1 /\ count \in 0..N-1 /\ Len(book) \in 0..N
            /\ pos = Wrap(idx + count) /\ (Len(book) < N => idx = Len(book))
        BY <2>1
      <4> HIDE DEF IInv, LogInv, ListInv
      <4>2. CASE Len(book) < N
        <5>1. pos = count - skip /\ pos < idx
          BY <2>6, <4>1, <4>2 DEF Wrap
        <5> QED BY <2>3, <4>2, <5>1 DEF Entry
      <4>3. CASE Len(book) = N /\ idx + count < N
        <5>1. pos = idx + count /\ skip = 0
          BY <4>1, <4>3 DEF Wrap
        <5> QED BY <2>3, <4>1, <4>3, <5>1 DEF Entry
      <4>4. CASE Len(book) = N /\ idx + count >= N
        <5>1. pos = idx + count - N /\ pos < idx /\ skip = 0
          BY <4>1, <4>4 DEF Wrap
        <5> QED BY <2>3, <4>1, <4>4, <5>1 DEF Entry
      <4> QED BY <4>1, <4>2, <4>3, <4>4
    <3>2. Len(sent) = count - skip /\ count - skip + 1 \in 1..Len(book)
      <4>1. count \in 0..N-1 /\ Len(book) \in 0..N /\ N \in Nat \ {0}
        BY <2>1
      <4>2. Len(sent) = IF count > skip THEN count - skip ELSE 0
        BY <2>1
      <4> HIDE DEF IInv, LogInv, ListInv
      <4> QED BY <2>6, <4>1, <4>2
    <3>. ring[pos] \in Msgs
      BY <3>1, <3>2
    <3>3. sent' = Append(sent, ring[pos])
      BY <1>4 DEF ListEntry
    <3>4. Len(sent') = count' - skip /\ \A j \in 1..Len(sent') : sent'[j] = book[j]
      <4>1. /\ Len(sent') = Len(sent) + 1
            /\ \A j \in 1..Len(sent) : sent'[j] = sent[j]
            /\ sent'[Len(sent) + 1] = ring[pos]
        BY <3>3, Appended
      <4>2. count' = count + 1 /\ \A j \in 1..Len(sent) : sent[j] = book[j]
        BY <1>4, <2>1 DEF ListEntry
      <4> HIDE DEF LogInv, ListInv
      <4>3. count \in Nat /\ skip \in Int /\ Len(sent) \in Nat
        BY DEF LogInv
      <4>4. Len(sent') = count' - skip
        BY <3>2, <4>1, <4>2, <4>3
      <4>5. ASSUME NEW j \in 1..Len(sent') PROVE sent'[j] = book[j]
        <5>1. CASE j \in 1..Len(sent)
          BY <4>1, <4>2, <5>1
        <5>2. CASE j = Len(sent) + 1
          BY <3>1, <3>2, <4>1, <5>2
        <5> QED BY <4>1, <4>3, <5>1, <5>2
      <4> QED BY <4>4, <4>5
    <3> QED BY <1>4, <2>1, <2>4, <2>6, <3>4, SMTT(15) DEF ListEntry
  <2> QED BY <2>5, <2>6
<1> QED BY <1>1, <1>2, <1>3, <1>4 DEF Step

LEMMA StepKeeps == IInv /\ [Next]_vars => IInv'
<1> SUFFICES ASSUME IInv, [Next]_vars PROVE IInv'
  OBVIOUS
<1>1. ASSUME NEW t \in Tasks, Call(t) \/ Step(t) \/ Delete(t) PROVE IInv'
  BY <1>1, LockKeeps, WriterKeeps, HttpdKeeps, ListKept DEF IInv, Step
<1>2. CASE UNCHANGED vars
  BY <1>2 DEF vars, logVars, listVars, IInv, LogInv, ListInv, Unsettled, Entry
<1> QED BY <1>1, <1>2 DEF Next

THEOREM InvariantHolds == Spec => []IInv
BY InitEstablishes, StepKeeps, PTL DEF Spec

(* One task at a time is in the log, and the ring is the book.             *)
THEOREM LogSafe == Spec => []LogInv
<1>1. IInv => LogInv
  BY DEF IInv
<1> QED BY <1>1, InvariantHolds, PTL

(* A list is the book, whoever logs or is deleted.                         *)
THEOREM ListsInOrder == Spec => []ListedInOrder
<1>1. IInv => ListedInOrder
  <2> SUFFICES ASSUME IInv, pc[Httpd] = "listing", count = N PROVE sent = book
    BY DEF ListedInOrder
  <2>1. Len(sent) = Len(book) /\ \A j \in 1..Len(sent) : sent[j] = book[j]
    BY LoggerAssumption DEF IInv, LogInv, ListInv
  <2>2. sent \in Seq(Msgs \cup {Torn}) /\ book \in Seq(Msgs \cup {Torn})
    BY DEF IInv, LogInv
  <2> QED BY <2>1, <2>2, SeqEqual
<1> QED BY <1>1, InvariantHolds, PTL
-----------------------------------------------------------------------------
(* The return of a call.  Where a task goes, and what counts its list.     *)
LEMMA RankIsNumber == LogInv => \A t \in Tasks : CallRank(t) \in Nat
BY LoggerAssumption DEF LogInv, CallRank, Places, Inside, Calls, Waiting

LEMMA OwnStepDescends ==
  ASSUME LogInv, NEW t \in Tasks, Step(t)
  PROVE  CallRank(t)' < CallRank(t)
<1>1. pc \in [Tasks -> Places] /\ count \in 0..N /\ N \in Nat \ {0}
  BY LoggerAssumption DEF LogInv
<1> USE DEF CallRank, Goto
<1>2. CASE Take(t)
  <2>1. PICK c \in Calls : pc[t] = Waiting(c) /\ pc'[t] = c
    BY <1>1, <1>2 DEF Take
  <2> QED BY <1>1, <2>1 DEF Calls, Waiting
<1>3. CASE TimesOut(t)
  <2>1. pc'[t] = "idle" /\ pc[t] \in {"log_wait", "list_wait", "clear_wait"}
    BY <1>1, <1>3 DEF TimesOut, Calls, Waiting
  <2> QED BY <1>1, <2>1
<1>4. CASE Release(t) \/ BeginEntry(t) \/ EndEntry(t) \/ Advance(t) \/ Clear(t)
  BY <1>1, <1>4 DEF Release, BeginEntry, EndEntry, Advance, Clear
<1>5. CASE StartList(t) \/ ListEntry(t) \/ EndList(t)
  BY <1>1, <1>5 DEF StartList, ListEntry, EndList
<1> QED BY <1>2, <1>3, <1>4, <1>5 DEF Step

(* What a task does to another one: nothing, because only httpd lists, and *)
(* what it does not do is a step of the other.                             *)
LEMMA OthersKeepRank ==
  ASSUME LogInv, NEW t \in Tasks, NEW u \in Tasks, t # u, Call(u) \/ Step(u) \/ Delete(u)
  PROVE  CallRank(t)' = CallRank(t) /\ ~Step(t)
<1>1. pc \in [Tasks -> Places]
  BY DEF LogInv
<1>2. pc'[t] = pc[t]
  BY <1>1 DEF Call, Step, Delete, Take, TimesOut, Release, BeginEntry, EndEntry, Advance,
              StartList, ListEntry, EndList, Clear, Goto
<1>3. pc[t] = "listing" => count' = count
  <2>1. pc[t] = "listing" => t = Httpd /\ pc[u] \notin {"list", "listing"}
    BY DEF LogInv
  <2> QED BY <2>1 DEF Call, Step, Delete, Take, TimesOut, Release, BeginEntry, EndEntry, Advance,
                      StartList, ListEntry, EndList, Clear, logVars, listVars
<1>4. CallRank(t)' = CallRank(t)
  BY <1>2, <1>3 DEF CallRank
<1>5. ~Step(t)
  <2>1. ASSUME Step(t) PROVE CallRank(t)' < CallRank(t)
    BY <2>1, OwnStepDescends
  <2>2. CallRank(t) \in Nat
    BY RankIsNumber
  <2> QED BY <1>4, <2>1, <2>2
<1> QED BY <1>4, <1>5

(* No call hangs on another one: each of its own steps brings its return   *)
(* closer and no other step moves it away (logger.c 19-57).                *)
THEOREM CallsComeBack == Spec => CallsDescend
<1> DEFINE Closer ==
      \A t \in Tasks : CallRank(t) > 0 =>
        \/ CallRank(t)' \in Nat /\ CallRank(t)' < CallRank(t)
        \/ CallRank(t)' = CallRank(t) /\ ~Step(t)
<1>1. LogInv' => \A t \in Tasks : CallRank(t)' \in Nat
  BY LoggerAssumption DEF LogInv, CallRank, Places, Inside, Calls, Waiting
<1>2. ASSUME LogInv, LogInv', Next, NEW t \in Tasks, CallRank(t) > 0
      PROVE  \/ CallRank(t)' \in Nat /\ CallRank(t)' < CallRank(t)
             \/ CallRank(t)' = CallRank(t) /\ ~Step(t)
  <2>1. PICK u \in Tasks : Call(u) \/ Step(u) \/ Delete(u)
    BY <1>2 DEF Next
  <2>2. CallRank(t)' \in Nat /\ CallRank(t) \in Nat
    BY <1>2, <1>1, RankIsNumber
  <2>3. CASE t # u
    BY <1>2, <2>1, <2>3, OthersKeepRank
  <2>4. CASE t = u /\ Step(u)
    BY <1>2, <2>2, <2>4, OwnStepDescends
  <2>5. CASE t = u /\ Call(u)
    <3>1. pc[t] = "idle"
      BY <2>5 DEF Call
    <3>2. CallRank(t) = 0
      BY <3>1 DEF CallRank
    <3> QED BY <1>2, <3>2
  <2>6. CASE t = u /\ Delete(u)
    <3>1. pc'[t] = "idle"
      BY <1>2, <2>6 DEF Delete, Goto, LogInv
    <3> QED BY <1>2, <2>2, <3>1 DEF CallRank
  <2> QED BY <2>1, <2>3, <2>4, <2>5, <2>6
<1>3. LogInv /\ LogInv' /\ [Next]_vars => [Closer]_vars
  BY <1>2
<1> QED BY <1>3, LogSafe, PTL DEF Spec, CallsDescend
=============================================================================
