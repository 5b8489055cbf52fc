------------------------------ MODULE WifiProofs ------------------------------
(***************************************************************************)
(* Theorems of WifiConnect, for every number of retries and every length   *)
(* of the event queue.                                                     *)
(***************************************************************************)
EXTENDS WifiConnect, TLAPS

(* What the event queue holds after a step: Post adds an event at the end, *)
(* the handler takes the first one.                                        *)
LEMMA Added ==
  ASSUME NEW q \in Seq(Events), NEW e \in Events
  PROVE  /\ Append(q, e) \in Seq(Events) /\ Append(q, e) # <<>>
         /\ Len(Append(q, e)) = Len(q) + 1
         /\ Append(q, e)[Len(q) + 1] = e
         /\ \A i \in 1 .. Len(q) : Append(q, e)[i] = q[i]
OBVIOUS

LEMMA Removed ==
  ASSUME NEW q \in Seq(Events), q # <<>>
  PROVE  /\ Tail(q) \in Seq(Events)
         /\ Head(q) = q[1]
         /\ Len(q) \in Nat \ {0}
         /\ Len(Tail(q)) = Len(q) - 1
         /\ \A i \in 1 .. Len(Tail(q)) : Tail(q)[i] = q[i + 1]
OBVIOUS

LEMMA AddedWaits ==
  ASSUME NEW q \in Seq(Events), NEW e \in Events, NEW d \in Events
  PROVE  /\ Waits(Append(q, e), e)
         /\ Waits(q, d) => Waits(Append(q, e), d)
         /\ ~Waits(q, d) /\ e # d => ~Waits(Append(q, e), d)
<1>1. Waits(Append(q, e), e)
  BY Added DEF Waits
<1>2. Waits(q, d) => Waits(Append(q, e), d)
  BY Added DEF Waits
<1>3. ~Waits(q, d) /\ e # d => ~Waits(Append(q, e), d)
  BY Added DEF Waits
<1> QED BY <1>1, <1>2, <1>3

LEMMA NothingWaits == \A e : ~Waits(<<>>, e)
BY DEF Waits

LEMMA RemovedWaits ==
  ASSUME NEW q \in Seq(Events), q # <<>>, NEW d \in Events
  PROVE  /\ Waits(q, d) /\ Head(q) # d => Waits(Tail(q), d)
         /\ ~Waits(q, d) => ~Waits(Tail(q), d) /\ Head(q) # d
<1>1. ASSUME Waits(q, d), Head(q) # d PROVE Waits(Tail(q), d)
  <2>1. PICK i \in 1 .. Len(q) : q[i] = d
    BY <1>1 DEF Waits
  <2>2. i - 1 \in 1 .. Len(Tail(q)) /\ Tail(q)[i - 1] = d
    BY <1>1, <2>1, Removed
  <2> QED BY <2>2 DEF Waits
<1>2. ~Waits(q, d) => ~Waits(Tail(q), d) /\ Head(q) # d
  BY Removed DEF Waits
<1> QED BY <1>1, <1>2

(* The queue of a link that is up: every lost link has a later address. *)
LEMMA AddressLast ==
  ASSUME NEW q \in Seq(Events)
  PROVE  AddressFollows(Append(q, "GOT_IP"))
<1> "GOT_IP" \in Events
  BY DEF Events
<1> DEFINE p == Append(q, "GOT_IP")
<1> HIDE DEF p
<1>1. Len(p) = Len(q) + 1 /\ p[Len(q) + 1] = "GOT_IP" /\ Len(q) \in Nat
  BY Added DEF p
<1>2. ASSUME NEW i \in 1 .. Len(p), p[i] = "DISCONNECTED"
      PROVE  \E j \in i + 1 .. Len(p) : p[j] = "GOT_IP"
  <2>1. Len(q) + 1 \in i + 1 .. Len(p)
    BY <1>1, <1>2
  <2> QED BY <1>1, <2>1
<1> QED BY <1>2 DEF AddressFollows, p

LEMMA AddressKeptLast ==
  ASSUME NEW q \in Seq(Events), NEW e \in Events, e # "DISCONNECTED", AddressFollows(q)
  PROVE  AddressFollows(Append(q, e))
<1> DEFINE p == Append(q, e)
<1> HIDE DEF p
<1>1. /\ Len(p) = Len(q) + 1 /\ p[Len(q) + 1] = e /\ Len(q) \in Nat
      /\ \A i \in 1 .. Len(q) : p[i] = q[i]
  BY Added DEF p
<1>2. ASSUME NEW i \in 1 .. Len(p), p[i] = "DISCONNECTED"
      PROVE  \E j \in i + 1 .. Len(p) : p[j] = "GOT_IP"
  <2>1. i \in 1 .. Len(q) /\ q[i] = "DISCONNECTED"
    BY <1>1, <1>2
  <2>2. PICK j \in i + 1 .. Len(q) : q[j] = "GOT_IP"
    BY <2>1 DEF AddressFollows
  <2>3. j \in i + 1 .. Len(p) /\ p[j] = "GOT_IP"
    BY <1>1, <2>1, <2>2
  <2> QED BY <2>3
<1> QED BY <1>2 DEF AddressFollows, p

(* The handler takes the first event; if that is a lost link the address   *)
(* is behind it.                                                           *)
LEMMA AddressBehind ==
  ASSUME NEW q \in Seq(Events), q # <<>>, AddressFollows(q)
  PROVE  /\ AddressFollows(Tail(q))
         /\ Head(q) = "DISCONNECTED" => Waits(Tail(q), "GOT_IP")
<1> DEFINE p == Tail(q)
<1> HIDE DEF p
<1>1. /\ Len(p) = Len(q) - 1 /\ Len(q) \in Nat \ {0} /\ Head(q) = q[1]
      /\ \A i \in 1 .. Len(p) : p[i] = q[i + 1]
  BY Removed DEF p
<1>2. ASSUME NEW i \in 1 .. Len(p), p[i] = "DISCONNECTED"
      PROVE  \E j \in i + 1 .. Len(p) : p[j] = "GOT_IP"
  <2>1. i + 1 \in 1 .. Len(q) /\ q[i + 1] = "DISCONNECTED"
    BY <1>1, <1>2
  <2>2. PICK j \in i + 2 .. Len(q) : q[j] = "GOT_IP"
    BY <2>1 DEF AddressFollows
  <2>3. j - 1 \in i + 1 .. Len(p) /\ p[j - 1] = "GOT_IP"
    BY <1>1, <2>2
  <2> QED BY <2>3
<1>3. ASSUME q[1] = "DISCONNECTED" PROVE Waits(p, "GOT_IP")
  <2>1. PICK j \in 2 .. Len(q) : q[j] = "GOT_IP"
    BY <1>1, <1>3 DEF AddressFollows
  <2>2. j - 1 \in 1 .. Len(p) /\ p[j - 1] = "GOT_IP"
    BY <1>1, <2>1
  <2> QED BY <2>2 DEF Waits
<1> QED BY <1>1, <1>2, <1>3 DEF AddressFollows, p

LEMMA InitEstablishes == Init => WifiInv
<1> SUFFICES ASSUME Init PROVE WifiInv
  OBVIOUS
<1> USE WifiAssumption DEF Init
<1>1. TypeOK
  <2>1. queue \in Seq(Events)
    OBVIOUS
  <2>2. retry \in 0 .. MaxRetry
    OBVIOUS
  <2> QED BY <2>1, <2>2 DEF TypeOK, Credentials, Bits, Statuses, Events
<1>2. /\ DecisionFounded /\ NothingYet /\ Reasons /\ LinkDownIsKnown
      /\ LinkUpIsKnown /\ TakenIsHeld
  BY DEF DecisionFounded, NothingYet, Reasons, LinkDownIsKnown, LinkUpIsKnown, TakenIsHeld
<1> QED BY <1>1, <1>2 DEF WifiInv

(* The handler works on the first event: before the task exists that can   *)
(* only be START, afterwards it is never START.                            *)
LEMMA HandledEvent ==
  ASSUME WifiInv, hpc = "entered"
  PROVE  /\ queue \in Seq(Events) /\ queue # <<>> /\ Tail(queue) \in Seq(Events)
         /\ Head(queue) = "START" =>
              /\ tpc = "none" /\ queue = <<"START">> /\ Tail(queue) = <<>>
              /\ mpc # "boot" /\ founded = {} /\ link = "off" /\ sc = "off"
         /\ Head(queue) # "START" => tpc # "none" /\ mpc # "boot" /\ ~Waits(Tail(queue), "START")
<1>1. queue \in Seq(Events) /\ queue # <<>> /\ "START" \in Events
  BY DEF WifiInv, TypeOK, Events
<1>2. Tail(queue) \in Seq(Events)
  BY <1>1, Removed
<1>3. NothingYet /\ (tpc # "none" => mpc # "boot" /\ ~Waits(queue, "START"))
  BY DEF WifiInv
<1>4. ASSUME Head(queue) = "START"
      PROVE  /\ tpc = "none" /\ queue = <<"START">> /\ Tail(queue) = <<>>
             /\ mpc # "boot" /\ founded = {} /\ link = "off" /\ sc = "off"
  <2>1. tpc = "none"
    BY <1>1, <1>3, <1>4, RemovedWaits
  <2>2. queue = <<"START">>
    BY <1>1, <1>3, <2>1 DEF NothingYet
  <2>3. Tail(queue) = <<>>
    BY <2>2
  <2> QED BY <1>1, <1>3, <2>1, <2>2, <2>3 DEF NothingYet
<1>5. ASSUME Head(queue) # "START"
      PROVE  tpc # "none" /\ mpc # "boot" /\ ~Waits(Tail(queue), "START")
  <2>1. Head(<<"START">>) = "START"
    OBVIOUS
  <2>2. tpc # "none"
    BY <1>1, <1>3, <1>5, <2>1 DEF NothingYet
  <2> QED BY <1>1, <1>3, <2>2, RemovedWaits
<1> QED BY <1>1, <1>2, <1>4, <1>5

LEMMA DisconnectedAdds ==
  ASSUME NEW q \in Seq(Events)
  PROVE  /\ Disconnected(q) \in Seq(Events)
         /\ ~Waits(q, "START") => ~Waits(Disconnected(q), "START")
BY Added, AddedWaits DEF Disconnected, Events

(* A link that is up: its address is on the way, whoever steps. *)
LEMMA DriverKeepsAddress == WifiInv /\ Driver => LinkUpIsKnown' /\ TakenIsHeld'
<1> SUFFICES ASSUME WifiInv, Driver PROVE LinkUpIsKnown' /\ TakenIsHeld'
  OBVIOUS
<1>1. /\ queue \in Seq(Events) /\ LinkUpIsKnown /\ TakenIsHeld
      /\ {"GOT_IP", "GOT_CREDENTIALS", "ACK_DONE"} \subseteq Events
  BY DEF WifiInv, TypeOK, Events
<1>2. UNCHANGED <<bits, taken, tpc>>
  BY DEF Driver, ConnectSucceeds, LinkDown, PhoneSends, AckSent, taskVars
<1>3. CASE ConnectSucceeds
  <2>1. queue' = Append(queue, "GOT_IP")
    BY <1>3 DEF ConnectSucceeds, Post
  <2>2. AddressFollows(queue') /\ Waits(queue', "GOT_IP")
    BY <1>1, <2>1, AddressLast, AddedWaits
  <2> QED BY <1>1, <1>2, <2>2 DEF LinkUpIsKnown, TakenIsHeld
<1>4. CASE LinkDown
  BY <1>1, <1>2, <1>4 DEF LinkDown, LinkUpIsKnown, TakenIsHeld
<1>5. CASE PhoneSends \/ AckSent
  <2>1. PICK e \in {"GOT_CREDENTIALS", "ACK_DONE"} : queue' = Append(queue, e)
    BY <1>5 DEF PhoneSends, AckSent, Post
  <2>2. link' = link
    BY <1>5 DEF PhoneSends, AckSent
  <2>3. AddressFollows(queue) => AddressFollows(queue')
    BY <1>1, <2>1, AddressKeptLast
  <2>4. Waits(queue, "GOT_IP") => Waits(queue', "GOT_IP")
    BY <1>1, <2>1, AddedWaits
  <2> QED BY <1>1, <1>2, <2>2, <2>3, <2>4 DEF LinkUpIsKnown, TakenIsHeld
<1> QED BY <1>3, <1>4, <1>5 DEF Driver

LEMMA EventLoopKeepsAddress == WifiInv /\ EventLoop => LinkUpIsKnown' /\ TakenIsHeld'
<1> SUFFICES ASSUME WifiInv, EventLoop PROVE LinkUpIsKnown' /\ TakenIsHeld'
  OBVIOUS
<1>1. /\ queue \in Seq(Events) /\ LinkUpIsKnown /\ TakenIsHeld /\ "GOT_IP" \in Events
      /\ hpc = "entered" => queue # <<>>
  BY DEF WifiInv, TypeOK, Events
<1>2. CASE HandlerReadsBits
  BY <1>1, <1>2 DEF HandlerReadsBits, LinkUpIsKnown, TakenIsHeld, taskVars, driverVars
<1>3. CASE StationStarts
  <2>1. link = "off" /\ tpc = "none" /\ taken' = taken
    BY <1>3, HandledEvent DEF StationStarts, Handles
  <2>2. link' # "up"
    BY <1>3, <2>1 DEF StationStarts, Connect
  <2>3. taken' = {}
    BY <1>1, <2>1 DEF TakenIsHeld
  <2> QED BY <2>2, <2>3 DEF LinkUpIsKnown, TakenIsHeld
<1>4. CASE Retry \/ GiveUp
  <2>1. /\ queue # <<>> /\ Head(queue) = "DISCONNECTED" /\ queue' = Tail(queue)
        /\ UNCHANGED <<taken, tpc>>
    BY <1>1, <1>4 DEF Retry, GiveUp, Handles, taskVars
  <2>2. link' = "up" => link = "up"
    BY <1>4 DEF Retry, GiveUp, Connect
  <2>3. link = "up" => AddressFollows(queue') /\ Waits(queue', "GOT_IP")
    BY <1>1, <2>1, AddressBehind DEF LinkUpIsKnown
  <2> QED BY <1>1, <2>1, <2>2, <2>3 DEF LinkUpIsKnown, TakenIsHeld
<1>5. CASE StopSmartConfig \/ GotCredentials
  BY <1>1, <1>5 DEF StopSmartConfig, GotCredentials, LinkUpIsKnown, TakenIsHeld, taskVars
<1>6. CASE RestartSmartConfig
  BY <1>1, <1>6 DEF RestartSmartConfig, Connect, LinkUpIsKnown, TakenIsHeld, taskVars
<1>7. CASE GotIp \/ AckDone
  <2>1. /\ queue # <<>> /\ queue' = Tail(queue) /\ link' = link /\ bits \subseteq bits'
        /\ UNCHANGED <<taken, tpc>>
    BY <1>1, <1>7 DEF GotIp, AckDone, Handles, taskVars
  <2>2. link = "up" => AddressFollows(queue')
    BY <1>1, <2>1, AddressBehind DEF LinkUpIsKnown
  <2>3. Waits(queue, "GOT_IP") => Waits(queue', "GOT_IP") \/ "CONNECTED" \in bits'
    <3>1. CASE GotIp
      BY <3>1 DEF GotIp
    <3>2. CASE AckDone
      <4>1. Head(queue) # "GOT_IP"
        BY <3>2 DEF AckDone, Handles
      <4> QED BY <1>1, <2>1, <4>1, RemovedWaits
    <3> QED BY <1>7, <3>1, <3>2
  <2> QED BY <1>1, <2>1, <2>2, <2>3 DEF LinkUpIsKnown, TakenIsHeld
<1> QED BY <1>2, <1>3, <1>4, <1>5, <1>6, <1>7 DEF EventLoop

LEMMA AddressKept == WifiInv /\ Next => LinkUpIsKnown' /\ TakenIsHeld'
<1>1. ASSUME WifiInv, SmartconfigTask PROVE LinkUpIsKnown' /\ TakenIsHeld'
  <2>1. LinkUpIsKnown /\ TakenIsHeld /\ UNCHANGED <<queue, link>>
    BY <1>1 DEF WifiInv, SmartconfigTask, TakeBits, PublishConnected, PublishFailed, TaskEnds,
                driverVars
  <2> QED BY <1>1, <2>1 DEF SmartconfigTask, TakeBits, PublishConnected, PublishFailed, TaskEnds,
                            LinkUpIsKnown, TakenIsHeld, Done
<1>2. ASSUME WifiInv, Main PROVE LinkUpIsKnown' /\ TakenIsHeld'
  <2>1. LinkUpIsKnown /\ TakenIsHeld /\ UNCHANGED <<taken, tpc, link>>
    BY <1>2 DEF WifiInv, Main, InitialiseWifi, GoOn, taskVars, driverVars
  <2>2. CASE InitialiseWifi
    <3>1. link # "up"
      BY <1>2, <2>2 DEF InitialiseWifi, WifiInv, NothingYet
    <3> QED BY <2>1, <3>1 DEF LinkUpIsKnown, TakenIsHeld
  <2>3. CASE GoOn
    BY <2>1, <2>3 DEF GoOn, driverVars, LinkUpIsKnown, TakenIsHeld
  <2> QED BY <1>2, <2>2, <2>3 DEF Main
<1> QED BY <1>1, <1>2, DriverKeepsAddress, EventLoopKeepsAddress DEF Next

LEMMA DriverKeeps == WifiInv /\ Driver => WifiInv'
<1> SUFFICES ASSUME WifiInv, Driver PROVE WifiInv'
  OBVIOUS
<1> LinkUpIsKnown' /\ TakenIsHeld'
  BY AddressKept DEF Next
<1> USE WifiAssumption DEF WifiInv, TypeOK, Credentials, Bits, Statuses, Events, Post
<1>1. tpc # "none"
  BY DEF Driver, ConnectSucceeds, LinkDown, PhoneSends, AckSent, NothingYet
<1>2. PICK e \in {"GOT_IP", "DISCONNECTED", "GOT_CREDENTIALS", "ACK_DONE"} :
        /\ queue' = Append(queue, e)
        /\ link' = "down" /\ link # "down" => e = "DISCONNECTED"
        /\ link = "down" => e = "GOT_CREDENTIALS"
  BY DEF Driver, ConnectSucceeds, LinkDown, PhoneSends, AckSent
<1>3. UNCHANGED <<bits, status, handlerVars, taskVars, mpc, config, founded>>
  BY DEF Driver, ConnectSucceeds, LinkDown, PhoneSends, AckSent
<1>4. TypeOK'
  <2>1. queue' \in Seq(Events)
    BY <1>2, Added
  <2>2. link' \in {"off", "down", "connecting", "up"} /\ sc' \in {"off", "on", "acking"}
    BY DEF Driver, ConnectSucceeds, LinkDown, PhoneSends, AckSent
  <2> QED BY <1>3, <2>1, <2>2 DEF handlerVars, taskVars
<1>5. DecisionFounded' /\ NothingYet' /\ Reasons'
  BY <1>1, <1>3 DEF DecisionFounded, NothingYet, Reasons, handlerVars, taskVars
<1>6. ~Waits(queue', "START")
  BY <1>1, <1>2, AddedWaits
<1>7. queue' # <<>>
  BY <1>2, Added, ZenonT(40)
<1>8. hpc = "restart" => sc' = "off"
  BY DEF Driver, ConnectSucceeds, LinkDown, PhoneSends, AckSent
<1>9. LinkDownIsKnown'
  <2>1. ASSUME link' = "down"
        PROVE  Waits(queue', "DISCONNECTED") \/ hpc = "restart" \/ "gave up" \in founded
               \/ (/\ founded = {} /\ sc' # "off"
                   /\ ~Waits(queue', "GOT_IP") /\ ~Waits(queue', "ACK_DONE"))
    <3>1. CASE link # "down"
      BY <1>2, <2>1, <3>1, AddedWaits
    <3>2. CASE link = "down"
      <4>1. Waits(queue, "DISCONNECTED") => Waits(queue', "DISCONNECTED")
        BY <1>2, AddedWaits
      <4>2. (sc # "off" => sc' # "off") /\ e = "GOT_CREDENTIALS"
        BY <1>2, <3>2 DEF Driver, ConnectSucceeds, LinkDown, PhoneSends, AckSent
      <4>3. queue' = Append(queue, "GOT_CREDENTIALS")
        BY <1>2, <4>2
      <4>4. ~Waits(queue, "GOT_IP") => ~Waits(queue', "GOT_IP")
        BY <4>3, AddedWaits
      <4>5. ~Waits(queue, "ACK_DONE") => ~Waits(queue', "ACK_DONE")
        BY <4>3, AddedWaits
      <4> QED BY <3>2, <4>1, <4>2, <4>4, <4>5 DEF LinkDownIsKnown
    <3> QED BY <3>1, <3>2
  <2> QED BY <1>3, <2>1 DEF LinkDownIsKnown, handlerVars
<1> QED BY <1>1, <1>3, <1>4, <1>5, <1>6, <1>7, <1>8, <1>9 DEF handlerVars, taskVars

LEMMA EventLoopKeeps == WifiInv /\ EventLoop => WifiInv'
<1> SUFFICES ASSUME WifiInv, EventLoop PROVE WifiInv'
  OBVIOUS
<1> LinkUpIsKnown' /\ TakenIsHeld'
  BY AddressKept DEF Next
<1> USE DEF WifiInv, Done
<1>1. CASE HandlerReadsBits
  <2> USE <1>1 DEF HandlerReadsBits, taskVars, driverVars
  <2>1. TypeOK'
    BY DEF TypeOK, Statuses
  <2>2. DecisionFounded' /\ NothingYet' /\ Reasons'
    BY DEF DecisionFounded, NothingYet, Reasons
  <2>3. LinkDownIsKnown'
    BY DEF LinkDownIsKnown
  <2> QED BY <2>1, <2>2, <2>3
<1>2. CASE StationStarts
  <2> USE <1>2 DEF StationStarts, Handles, HandlerReturns, Connect
  <2>1. /\ tpc = "none" /\ queue' = <<>> /\ mpc # "boot" /\ founded = {}
        /\ link = "off" /\ sc = "off" /\ status' \in {"TRY_CONNECT", "TRY_SMART_CONFIG"}
    BY HandledEvent
  <2>2. TypeOK'
    <3>1. bits' \in SUBSET Bits
      BY DEF TypeOK, Bits
    <3>2. queue' \in Seq(Events)
      BY HandledEvent
    <3>3. retry' \in 0 .. MaxRetry
      BY WifiAssumption
    <3>4. status' \in Statuses
      BY <2>1 DEF Statuses
    <3> QED BY <3>1, <3>2, <3>3, <3>4 DEF TypeOK
  <2>3. ~Waits(queue', "START") /\ ~Waits(queue', "GOT_IP") /\ ~Waits(queue', "ACK_DONE")
    BY <2>1, NothingWaits, Zenon
  <2>4. DecisionFounded' /\ NothingYet' /\ Reasons'
    BY <2>1 DEF DecisionFounded, NothingYet, Reasons
  <2>5. LinkDownIsKnown'
    <3>1. founded' = {} /\ (link' = "down" => sc' # "off")
      BY <2>1
    <3> QED BY <2>3, <3>1 DEF LinkDownIsKnown
  <2>6. tpc' # "none" /\ mpc' # "boot" /\ hpc' = "idle"
    BY <2>1
  <2> HIDE <1>2
  <2> QED BY <2>2, <2>3, <2>4, <2>5, <2>6
<1>3. CASE Retry
  <2> USE <1>3 DEF Retry, Handles, HandlerReturns, Connect, taskVars
  <2>1. /\ Tail(queue) \in Seq(Events) /\ tpc # "none" /\ mpc # "boot"
        /\ ~Waits(queue', "START")
    BY HandledEvent
  <2>2. TypeOK' /\ link' # "down"
    <3>1. retry' \in 0 .. MaxRetry
      <4>1. retry \in 0 .. MaxRetry /\ retry < MaxRetry /\ retry' = retry + 1
        BY DEF TypeOK
      <4>2. MaxRetry \in Nat
        BY WifiAssumption
      <4> HIDE <1>3
      <4> QED BY <4>1, <4>2
    <3>2. link' \in {"connecting", "up"}
      BY DEF TypeOK
    <3> QED BY <2>1, <3>1, <3>2 DEF TypeOK
  <2>3. DecisionFounded' /\ NothingYet' /\ Reasons' /\ LinkDownIsKnown'
    BY <2>1, <2>2 DEF DecisionFounded, NothingYet, Reasons, LinkDownIsKnown
  <2> QED BY <2>1, <2>2, <2>3
<1>4. CASE StopSmartConfig
  <2> USE <1>4 DEF StopSmartConfig, Handles, taskVars
  <2>1. /\ Tail(queue) \in Seq(Events) /\ tpc # "none" /\ mpc # "boot"
        /\ ~Waits(Tail(queue), "START")
    BY HandledEvent
  <2>2. queue' \in Seq(Events) /\ ~Waits(queue', "START")
    BY <2>1, DisconnectedAdds
  <2>3. TypeOK'
    BY <2>2 DEF TypeOK, Bits, Statuses, Credentials
  <2>4. DecisionFounded' /\ NothingYet' /\ Reasons' /\ LinkDownIsKnown'
    BY <2>1 DEF DecisionFounded, NothingYet, Reasons, LinkDownIsKnown
  <2> QED BY <2>1, <2>2, <2>3, <2>4
<1>5. CASE RestartSmartConfig
  <2> USE <1>5 DEF RestartSmartConfig, HandlerReturns, Connect, taskVars
  <2>1. TypeOK' /\ link' # "down"
    BY DEF TypeOK
  <2>2. DecisionFounded' /\ NothingYet' /\ Reasons' /\ LinkDownIsKnown'
    BY <2>1 DEF DecisionFounded, NothingYet, Reasons, LinkDownIsKnown
  <2> QED BY <2>1, <2>2
<1>6. CASE GiveUp
  <2> USE <1>6 DEF GiveUp, Handles, HandlerReturns, taskVars
  <2>1. /\ Tail(queue) \in Seq(Events) /\ tpc # "none" /\ mpc # "boot"
        /\ ~Waits(queue', "START")
    BY HandledEvent
  <2>2. TypeOK'
    BY <2>1 DEF TypeOK, Bits
  <2>3. DecisionFounded' /\ NothingYet' /\ Reasons' /\ LinkDownIsKnown'
    BY <2>1 DEF DecisionFounded, NothingYet, Reasons, LinkDownIsKnown
  <2> QED BY <2>1, <2>2, <2>3
<1>7. ASSUME GotIp \/ AckDone PROVE WifiInv'
  <2> USE DEF GotIp, AckDone, Handles, HandlerReturns, taskVars
  <2>1. /\ Tail(queue) \in Seq(Events) /\ tpc # "none" /\ mpc # "boot"
        /\ ~Waits(queue', "START") /\ queue' = Tail(queue)
    BY <1>7, HandledEvent
  <2>2. TypeOK'
    BY <1>7, <2>1 DEF TypeOK, Bits
  <2>3. DecisionFounded' /\ NothingYet' /\ Reasons'
    <3>1. CASE GotIp
      BY <2>1, <3>1 DEF DecisionFounded, NothingYet, Reasons
    <3>2. CASE AckDone
      BY <2>1, <3>2 DEF DecisionFounded, NothingYet, Reasons
    <3> QED BY <1>7, <3>1, <3>2
  <2>4. LinkDownIsKnown'
    <3>1. /\ queue # <<>> /\ queue \in Seq(Events) /\ "DISCONNECTED" \in Events
          /\ Head(queue) \in {"GOT_IP", "ACK_DONE"} /\ hpc # "restart"
      BY <1>7, HandledEvent DEF Events
    <3>2. Waits(queue, Head(queue))
      BY <3>1, Removed DEF Waits
    <3>3. link = "down" => Waits(queue, "DISCONNECTED") \/ "gave up" \in founded
      BY <3>1, <3>2 DEF LinkDownIsKnown
    <3>4. Waits(queue, "DISCONNECTED") => Waits(queue', "DISCONNECTED")
      BY <2>1, <3>1, RemovedWaits
    <3>5. link' = link /\ founded \subseteq founded'
      BY <1>7
    <3> QED BY <3>3, <3>4, <3>5 DEF LinkDownIsKnown
  <2> QED BY <1>7, <2>1, <2>2, <2>3, <2>4
<1>8. CASE GotCredentials
  <2> USE <1>8 DEF GotCredentials, Handles, HandlerReturns, taskVars
  <2>1. /\ Tail(queue) \in Seq(Events) /\ tpc # "none" /\ mpc # "boot"
        /\ ~Waits(Tail(queue), "START")
    BY HandledEvent
  <2>2. queue' \in Seq(Events) /\ ~Waits(queue', "START")
    BY <2>1, DisconnectedAdds
  <2>3. TypeOK'
    BY <2>2 DEF TypeOK, Bits, Statuses, Credentials
  <2>4. DecisionFounded' /\ NothingYet' /\ Reasons' /\ LinkDownIsKnown'
    BY <2>1 DEF DecisionFounded, NothingYet, Reasons, LinkDownIsKnown
  <2> QED BY <2>1, <2>2, <2>3, <2>4
<1> QED BY <1>1, <1>2, <1>3, <1>4, <1>5, <1>6, <1>7, <1>8 DEF EventLoop

LEMMA TaskKeeps == WifiInv /\ SmartconfigTask => WifiInv'
<1> SUFFICES ASSUME WifiInv, SmartconfigTask PROVE WifiInv'
  OBVIOUS
<1> LinkUpIsKnown' /\ TakenIsHeld'
  BY AddressKept DEF Next
<1> USE DEF WifiInv, Done, handlerVars, driverVars
<1>1. CASE TakeBits
  <2> USE <1>1 DEF TakeBits
  <2>1. TypeOK'
    BY DEF TypeOK, Statuses
  <2>2. DecisionFounded' /\ NothingYet' /\ Reasons' /\ LinkDownIsKnown'
    BY DEF DecisionFounded, NothingYet, Reasons, LinkDownIsKnown
  <2> QED BY <2>1, <2>2
<1>2. CASE PublishConnected
  <2> USE <1>2 DEF PublishConnected
  <2>1. TypeOK'
    BY DEF TypeOK, Statuses
  <2>2. DecisionFounded' /\ NothingYet' /\ Reasons' /\ LinkDownIsKnown'
    BY DEF DecisionFounded, NothingYet, Reasons, LinkDownIsKnown
  <2> QED BY <2>1, <2>2
<1>3. CASE PublishFailed
  <2> USE <1>3 DEF PublishFailed
  <2>1. TypeOK'
    BY DEF TypeOK, Statuses
  <2>2. DecisionFounded' /\ NothingYet' /\ Reasons' /\ LinkDownIsKnown'
    BY DEF DecisionFounded, NothingYet, Reasons, LinkDownIsKnown
  <2> QED BY <2>1, <2>2
<1>4. CASE TaskEnds
  <2> USE <1>4 DEF TaskEnds
  <2>1. TypeOK' /\ founded # {}
    BY DEF TypeOK, Reasons
  <2>2. DecisionFounded' /\ NothingYet' /\ Reasons' /\ LinkDownIsKnown'
    BY <2>1 DEF DecisionFounded, NothingYet, Reasons, LinkDownIsKnown
  <2> QED BY <2>1, <2>2
<1> QED BY <1>1, <1>2, <1>3, <1>4 DEF SmartconfigTask

LEMMA MainKeeps == WifiInv /\ Main => WifiInv'
<1> SUFFICES ASSUME WifiInv, Main PROVE WifiInv'
  OBVIOUS
<1> LinkUpIsKnown' /\ TakenIsHeld'
  BY AddressKept DEF Next
<1> USE DEF WifiInv, Done, handlerVars, taskVars
<1>1. CASE InitialiseWifi
  <2> USE <1>1 DEF InitialiseWifi, Post
  <2>1. tpc = "none" /\ queue' = <<"START">> /\ queue' \in Seq(Events)
    <3>1. tpc = "none" /\ queue = <<>>
      BY DEF NothingYet
    <3>2. queue' = Append(<<>>, "START") /\ "START" \in Events
      BY <3>1 DEF Events
    <3>3. Append(<<>>, "START") = <<"START">>
      OBVIOUS
    <3>4. <<>> \in Seq(Events)
      OBVIOUS
    <3>5. queue' \in Seq(Events)
      BY <3>2, <3>4, Added, Zenon
    <3> QED BY <3>1, <3>2, <3>3, <3>5
  <2>2. TypeOK'
    BY <2>1 DEF TypeOK, Bits, Credentials
  <2>3. DecisionFounded' /\ NothingYet' /\ Reasons' /\ LinkDownIsKnown'
    BY <2>1 DEF DecisionFounded, NothingYet, Reasons, LinkDownIsKnown
  <2> QED BY <2>1, <2>2, <2>3
<1>2. CASE GoOn
  <2> USE <1>2 DEF GoOn, driverVars
  <2>1. TypeOK'
    BY DEF TypeOK, Statuses
  <2>2. DecisionFounded' /\ NothingYet' /\ Reasons' /\ LinkDownIsKnown'
    BY DEF DecisionFounded, NothingYet, Reasons, LinkDownIsKnown
  <2> QED BY <2>1, <2>2
<1> QED BY <1>1, <1>2 DEF Main

LEMMA StepKeeps == WifiInv /\ [Next]_vars => WifiInv'
<1> SUFFICES ASSUME WifiInv, UNCHANGED vars PROVE WifiInv'
  BY DriverKeeps, EventLoopKeeps, TaskKeeps, MainKeeps DEF Next
<1> USE DEF vars, handlerVars, taskVars, driverVars
<1>1. TypeOK'
  BY DEF WifiInv, TypeOK
<1>2. DecisionFounded' /\ NothingYet' /\ Reasons'
  BY DEF WifiInv, DecisionFounded, NothingYet, Reasons
<1>3. LinkDownIsKnown' /\ LinkUpIsKnown' /\ TakenIsHeld'
  BY DEF WifiInv, LinkDownIsKnown, LinkUpIsKnown, AddressFollows, TakenIsHeld, Waits
<1> QED BY <1>1, <1>2, <1>3 DEF WifiInv, Waits

(* The inductive invariant, for every number of retries and every length   *)
(* of the event queue (wifi_config.c 147-288).                             *)
THEOREM WifiSafe == Spec => []WifiInv
<1> QED BY InitEstablishes, StepKeeps, PTL DEF Spec

(* No call of esp_smartconfig_start meets an esptouch that runs            *)
(* (wifi_config.c 193, 222), whoever stopped it.                           *)
THEOREM NeverAborts == Spec => []NoAbort
<1>1. WifiInv => NoAbort
  <2>1. WifiInv /\ Handles("START") => sc = "off"
    BY HandledEvent DEF Handles
  <2>2. WifiInv /\ hpc = "restart" => sc = "off"
    BY DEF WifiInv
  <2> QED BY <2>1, <2>2 DEF NoAbort, StartsSmartConfig
<1> QED BY <1>1, WifiSafe, PTL

(* app_main goes online, or on without network, only for its reason        *)
(* (main.c 86-127).                                                        *)
THEOREM DecisionsFounded == Spec => []DecisionFounded
<1>1. WifiInv => DecisionFounded
  BY DEF WifiInv
<1> QED BY <1>1, WifiSafe, PTL

(* With no event left and no attempt under way, a station without link     *)
(* listens to esptouch unless it has given up (wifi_config.c 201-232).     *)
THEOREM NeverDeaf == Spec => []KeepsTrying
<1>1. WifiInv => KeepsTrying
  <2>1. ASSUME WifiInv, Quiet, link = "down" PROVE sc # "off" \/ "gave up" \in founded
    <3>1. ~Waits(queue, "DISCONNECTED")
      BY <2>1, NothingWaits, Zenon DEF Quiet
    <3> QED BY <2>1, <3>1 DEF WifiInv, LinkDownIsKnown, Quiet
  <2> QED BY <2>1 DEF KeepsTrying
<1> QED BY <1>1, WifiSafe, PTL

(* With a link that is up event loop, task and app_main never all wait for *)
(* each other, unless the handler has overwritten an outcome (wifi_config.c*)
(* 215): no address is lost between lost links, retries, the bits that the *)
(* task takes together and the poll of app_main (main.c 86-109).           *)
THEOREM NobodyWaits == Spec => []NobodyWaitsInVain
<1>1. WifiInv => NobodyWaitsInVain
  <2>1. ASSUME WifiInv, AllWait, link = "up" PROVE Overwritten
    <3>1. ~Waits(queue, "GOT_IP")
      BY <2>1, NothingWaits, Zenon DEF AllWait
    <3>2. taken = {} /\ tpc \in {"wait", "ended"}
      BY <2>1 DEF WifiInv, TakenIsHeld, NothingYet, AllWait
    <3>3. tpc = "ended"
      BY <2>1, <3>1, <3>2 DEF WifiInv, LinkUpIsKnown, AllWait
    <3> QED BY <2>1, <3>3 DEF AllWait, Overwritten
  <2> QED BY <2>1 DEF NobodyWaitsInVain
<1> QED BY <1>1, WifiSafe, PTL
=============================================================================
