----------------------------- MODULE WifiConnect -----------------------------
(***************************************************************************)
(* How the controller gets into its network: main/wifi_config.c and the    *)
(* loop of app_main that waits for it (main/main.c 76-127).                *)
(*                                                                         *)
(* Three tasks share an event group and the status.  The EVENT LOOP of the *)
(* SDK calls smartconfig_event_handler for one event after the other.  The *)
(* SMARTCONFIG TASK takes the bits, all of them at once, publishes the     *)
(* outcome and deletes itself.  MAIN polls the status every 500 ms.        *)
(*                                                                         *)
(* External: the WiFi driver, which posts an event when an attempt to      *)
(* connect ends and when a link is lost, and esptouch, which posts the     *)
(* credentials that a phone sends and its end.  A boot may find any        *)
(* credentials in the NVS, so a restart is a new behaviour.                *)
(***************************************************************************)
EXTENDS Naturals, Sequences

CONSTANTS
  MaxRetry,   \* s_max_retry_num
  MaxEvents   \* events that wait; the driver waits for a place

ASSUME WifiAssumption == MaxRetry \in Nat /\ MaxEvents \in Nat

VARIABLES
  config,    \* the credentials that the driver uses: "none", "bad" or "good"
  bits,      \* s_wifi_event_group
  status,    \* s_wifi_connect_status
  retry,     \* s_retry_num
  hpc,       \* the event handler: "idle", "entered" or "restart"
  seen,      \* the bits it has read on entry, those it looks at
  tpc,       \* smartconfig_task
  taken,     \* the bits it has taken, those it looks at
  mpc,       \* app_main
  link,      \* the station: "off", "down", "connecting" or "up"
  sc,        \* esptouch: "off", "on", "acking" once it sent credentials
  queue,     \* events that the handler has still to see, the current first
  founded    \* what has happened since the boot (ghost)

handlerVars == <<retry, hpc, seen>>
taskVars == <<tpc, taken>>
driverVars == <<config, link, sc, queue>>
vars == <<bits, status, handlerVars, taskVars, mpc, driverVars, founded>>

Credentials == {"none", "bad", "good"}
Bits == {"SMART_CONFIG", "CONNECTED", "FAILED", "NO_CONNECTION_STORED", "SMART_CONFIG_RUNNING"}
Done == {"CONNECTED", "FAILED"}
Statuses == {"IDLE", "TRY_CONNECT", "TRY_SMART_CONFIG", "CONNECTED", "FAILED"}
Events == {"START", "DISCONNECTED", "GOT_IP", "GOT_CREDENTIALS", "ACK_DONE"}

Init ==
  /\ config = "none"
  /\ bits = {}
  /\ status = "IDLE"
  /\ retry = 0
  /\ hpc = "idle"
  /\ seen = {}
  /\ tpc = "none"
  /\ taken = {}
  /\ mpc = "boot"
  /\ link = "off"
  /\ sc = "off"
  /\ queue = <<>>
  /\ founded = {}

-----------------------------------------------------------------------------
(* The driver, external: what its calls do and which events it posts.      *)

Post(e) == Len(queue) < MaxEvents /\ queue' = Append(queue, e)

ConnectSucceeds ==
  /\ link = "connecting"
  /\ config = "good"
  /\ link' = "up"
  /\ Post("GOT_IP")
  /\ UNCHANGED <<bits, status, handlerVars, taskVars, mpc, config, sc, founded>>

LinkDown ==
  /\ link \in {"connecting", "up"}
  /\ link' = "down"
  /\ Post("DISCONNECTED")
  /\ UNCHANGED <<bits, status, handlerVars, taskVars, mpc, config, sc, founded>>

PhoneSends ==
  /\ sc = "on"
  /\ sc' = "acking"
  /\ Post("GOT_CREDENTIALS")
  /\ UNCHANGED <<bits, status, handlerVars, taskVars, mpc, config, link, founded>>

AckSent ==
  /\ sc = "acking"
  /\ link = "up"
  /\ sc' = "off"
  /\ Post("ACK_DONE")
  /\ UNCHANGED <<bits, status, handlerVars, taskVars, mpc, config, link, founded>>

Driver == ConnectSucceeds \/ LinkDown \/ PhoneSends \/ AckSent

(* esp_wifi_connect, without effect while connected; esp_wifi_disconnect   *)
(* posts an event if there is a link or an attempt.                        *)
Connect(l) == IF l \in {"off", "down"} THEN "connecting" ELSE l

Disconnected(q) == IF link \in {"connecting", "up"} THEN Append(q, "DISCONNECTED") ELSE q

-----------------------------------------------------------------------------
(* smartconfig_event_handler.                                              *)

(* The driver has started; later the handler gets one event after another. *)
HandlerReadsBits ==
  /\ hpc = "idle"
  /\ queue # <<>>
  /\ seen' = bits \ Done
  /\ hpc' = "entered"
  /\ UNCHANGED <<bits, status, retry, taskVars, mpc, driverVars, founded>>

Handles(e) == hpc = "entered" /\ Head(queue) = e

HandlerReturns == hpc' = "idle" /\ seen' = {}

(* WIFI_EVENT_STA_START: without stored credentials at once esptouch.      *)
StationStarts ==
  /\ Handles("START")
  /\ tpc' = "wait"
  /\ retry' = 0
  /\ queue' = Tail(queue)
  /\ HandlerReturns
  /\ \/ /\ "NO_CONNECTION_STORED" \in seen
        /\ bits' = bits \cup {"SMART_CONFIG_RUNNING"}
        /\ status' = "TRY_SMART_CONFIG"
        /\ sc' = "on"
        /\ link' = "down"
     \/ /\ "NO_CONNECTION_STORED" \notin seen
        /\ status' = "TRY_CONNECT"
        /\ link' = Connect(link)
        /\ UNCHANGED <<bits, sc>>
  /\ UNCHANGED <<taken, mpc, config, founded>>

(* WIFI_EVENT_STA_DISCONNECTED, another try. *)
Retry ==
  /\ Handles("DISCONNECTED")
  /\ retry < MaxRetry
  /\ bits' = bits \ {"CONNECTED"}
  /\ link' = Connect(link)
  /\ retry' = retry + 1
  /\ queue' = Tail(queue)
  /\ HandlerReturns
  /\ UNCHANGED <<status, taskVars, mpc, config, sc, founded>>

(* Variant for the checks: esptouch is not stopped before it is started. *)
StopSmartConfigNot ==
  /\ Handles("DISCONNECTED")
  /\ retry >= MaxRetry
  /\ "SMART_CONFIG_RUNNING" \notin seen
  /\ bits' = (bits \ {"CONNECTED"}) \cup {"SMART_CONFIG"}
  /\ status' = "TRY_SMART_CONFIG"
  /\ queue' = Disconnected(Tail(queue))
  /\ link' = "down"
  /\ hpc' = "restart"
  /\ UNCHANGED <<sc, retry, seen, taskVars, mpc, config, founded>>

(* No try left and esptouch not seen running: it is stopped ...  *)
StopSmartConfig ==
  /\ Handles("DISCONNECTED")
  /\ retry >= MaxRetry
  /\ "SMART_CONFIG_RUNNING" \notin seen
  /\ bits' = (bits \ {"CONNECTED"}) \cup {"SMART_CONFIG"}
  /\ status' = "TRY_SMART_CONFIG"
  /\ queue' = Disconnected(Tail(queue))
  /\ link' = "down"
  /\ sc' = "off"
  /\ hpc' = "restart"
  /\ UNCHANGED <<retry, seen, taskVars, mpc, config, founded>>

(* Variant for the checks: esptouch is started without another attempt. *)
RestartSmartConfigOnly ==
  /\ hpc = "restart"
  /\ sc' = "on"
  /\ HandlerReturns
  /\ UNCHANGED <<bits, status, retry, taskVars, mpc, config, link, queue, founded>>

(* ... and started again, after another attempt to connect. *)
RestartSmartConfig ==
  /\ hpc = "restart"
  /\ link' = Connect(link)
  /\ sc' = "on"
  /\ HandlerReturns
  /\ UNCHANGED <<bits, status, retry, taskVars, mpc, config, queue, founded>>

(* No try left while esptouch runs: give up. *)
GiveUp ==
  /\ Handles("DISCONNECTED")
  /\ retry >= MaxRetry
  /\ "SMART_CONFIG_RUNNING" \in seen
  /\ bits' = (bits \ {"CONNECTED"}) \cup {"FAILED"}
  /\ founded' = founded \cup {"gave up"}
  /\ queue' = Tail(queue)
  /\ HandlerReturns
  /\ UNCHANGED <<status, retry, taskVars, mpc, config, link, sc>>

(* IP_EVENT_STA_GOT_IP. *)
GotIp ==
  /\ Handles("GOT_IP")
  /\ bits' = bits \cup {"CONNECTED"}
  /\ founded' = founded \cup {"address"}
  /\ queue' = Tail(queue)
  /\ HandlerReturns
  /\ UNCHANGED <<status, retry, taskVars, mpc, config, link, sc>>

(* SC_EVENT_GOT_SSID_PSWD: stored for the next boot, configured and tried. *)
GotCredentials ==
  /\ Handles("GOT_CREDENTIALS")
  /\ config' \in {"bad", "good"}
  /\ queue' = Disconnected(Tail(queue))
  /\ link' = "connecting"
  /\ HandlerReturns
  /\ UNCHANGED <<bits, status, retry, taskVars, mpc, sc, founded>>

(* SC_EVENT_SEND_ACK_DONE: esptouch has told the phone; the code sets the  *)
(* bit of a failure.                                                       *)
AckDone ==
  /\ Handles("ACK_DONE")
  /\ bits' = bits \cup {"FAILED"}
  /\ founded' = founded \cup {"acknowledged"}
  /\ queue' = Tail(queue)
  /\ HandlerReturns
  /\ UNCHANGED <<status, retry, taskVars, mpc, config, link, sc>>

EventLoop ==
  \/ HandlerReadsBits \/ StationStarts \/ Retry \/ StopSmartConfig \/ RestartSmartConfig
  \/ GiveUp \/ GotIp \/ GotCredentials \/ AckDone

-----------------------------------------------------------------------------
(* Variant for the checks: the bit of a new search hides an outcome. *)
TakeSearchFirst ==
  /\ tpc = "wait"
  /\ bits # {}
  /\ taken' = IF "SMART_CONFIG" \in bits THEN {} ELSE bits \cap Done
  /\ bits' = {}
  /\ tpc' = "connected"
  /\ UNCHANGED <<status, handlerVars, mpc, driverVars, founded>>

(* smartconfig_task: any bit wakes it and all of them are cleared, those   *)
(* that only the handler should look at included.                          *)
TakeBits ==
  /\ tpc = "wait"
  /\ bits # {}
  /\ taken' = bits \cap Done
  /\ bits' = {}
  /\ tpc' = "connected"
  /\ UNCHANGED <<status, handlerVars, mpc, driverVars, founded>>

(* Variant for the checks: any bit counts as a connection. *)
PublishAnyBit ==
  /\ tpc = "connected"
  /\ status' = "CONNECTED"
  /\ tpc' = "failed"
  /\ UNCHANGED <<bits, handlerVars, taken, mpc, driverVars, founded>>

PublishConnected ==
  /\ tpc = "connected"
  /\ status' = IF "CONNECTED" \in taken THEN "CONNECTED" ELSE status
  /\ tpc' = "failed"
  /\ UNCHANGED <<bits, handlerVars, taken, mpc, driverVars, founded>>

PublishFailed ==
  /\ tpc = "failed"
  /\ status' = IF "FAILED" \in taken THEN "FAILED" ELSE status
  /\ tpc' = IF taken \cap Done # {} THEN "stop" ELSE "wait"
  /\ taken' = {}
  /\ UNCHANGED <<bits, handlerVars, mpc, driverVars, founded>>

TaskEnds ==
  /\ tpc = "stop"
  /\ sc' = "off"
  /\ tpc' = "ended"
  /\ UNCHANGED <<bits, status, handlerVars, taken, mpc, config, link, queue, founded>>

SmartconfigTask == TakeBits \/ PublishConnected \/ PublishFailed \/ TaskEnds

-----------------------------------------------------------------------------
(* app_main: initialise_wifi, which finds any credentials in the NVS, or   *)
(* none, or fails to read them; and then the loop.                         *)
InitialiseWifi ==
  /\ mpc = "boot"
  /\ config' \in Credentials
  /\ bits' = IF config' = "none" THEN {"NO_CONNECTION_STORED"} ELSE {}
  /\ Post("START")
  /\ mpc' = "poll"
  /\ UNCHANGED <<status, handlerVars, taskVars, link, sc, founded>>

(* Variant for the checks: the status FAILED does not end the loop. *)
GoOnlyOnline ==
  /\ mpc = "poll"
  /\ status = "CONNECTED"
  /\ mpc' = "online"
  /\ UNCHANGED <<bits, status, handlerVars, taskVars, driverVars, founded>>

(* With the REST server, or without. *)
GoOn ==
  /\ mpc = "poll"
  /\ status \in Done
  /\ mpc' = IF status = "CONNECTED" THEN "online" ELSE "offline"
  /\ UNCHANGED <<bits, status, handlerVars, taskVars, driverVars, founded>>

Main == InitialiseWifi \/ GoOn
-----------------------------------------------------------------------------
Next == Driver \/ EventLoop \/ SmartconfigTask \/ Main

Spec == Init /\ [][Next]_vars

(* The scheduler runs each task that is ready, the event loop included;    *)
(* nothing is assumed of the network and of the phone.                     *)
FairSpec ==
  Spec /\ WF_vars(EventLoop) /\ WF_vars(SmartconfigTask) /\ WF_vars(Main)
-----------------------------------------------------------------------------
(* The state spaces of the variables. *)
TypeOK ==
  /\ config \in Credentials
  /\ bits \in SUBSET Bits
  /\ status \in Statuses
  /\ retry \in 0 .. MaxRetry
  /\ hpc \in {"idle", "entered", "restart"}
  /\ seen \in SUBSET Bits
  /\ tpc \in {"none", "wait", "connected", "failed", "stop", "ended"}
  /\ taken \in SUBSET Bits
  /\ mpc \in {"boot", "poll", "online", "offline"}
  /\ link \in {"off", "down", "connecting", "up"}
  /\ sc \in {"off", "on", "acking"}
  /\ queue \in Seq(Events)
  /\ founded \in SUBSET {"address", "gave up", "acknowledged"}

(* esptouch is never started while it runs: the controller would abort in  *)
(* ESP_ERROR_CHECK (wifi_config.c 192, 225).  Two tasks stop it, the phone *)
(* ends it, one of them starts it.                                         *)
StartsSmartConfig ==
  \/ hpc = "restart"
  \/ Handles("START") /\ "NO_CONNECTION_STORED" \in seen

NoAbort == StartsSmartConfig => sc = "off"

(* Once the driver has started and nothing is left to be handled, a        *)
(* controller without link listens to esptouch, unless it has given up,    *)
(* which the handler reports (wifi_config.c 201-232): no order of lost     *)
(* links, phones and the task that stops esptouch leaves it deaf.          *)
Quiet == queue = <<>> /\ hpc = "idle" /\ link # "off"

KeepsTrying ==
  Quiet /\ link = "down" => sc # "off" \/ "gave up" \in founded

(* The loop of app_main is left for a reason (main.c 86-109): to go online *)
(* an address was assigned, and without it all tries were used up while    *)
(* esptouch ran, or esptouch has reported its end.                         *)
DecisionFounded ==
  /\ mpc = "online" => "address" \in founded
  /\ mpc = "offline" => founded \cap {"gave up", "acknowledged"} # {}

(* What the three rest on, inductive: before the task exists nothing has   *)
(* happened; a bit or an outcome has its reason; between stop and start of *)
(* esptouch nobody starts it; a link that is down has its event waiting,   *)
(* or was never tried.                                                     *)
NothingYet ==
  tpc = "none" =>
    /\ queue \in {<<>>, <<"START">>}
    /\ mpc = "boot" => queue = <<>>
    /\ link = "off" /\ sc = "off" /\ hpc # "restart" /\ founded = {}

Reasons ==
  /\ \/ "CONNECTED" \in bits \cup taken
     \/ status = "CONNECTED"
     => "address" \in founded
  /\ \/ "FAILED" \in bits \cup taken
     \/ status = "FAILED"
     => founded \cap {"gave up", "acknowledged"} # {}
  /\ tpc \in {"stop", "ended"} => founded # {}

Waits(q, e) == \E i \in 1 .. Len(q) : q[i] = e

LinkDownIsKnown ==
  link = "down" =>
    \/ Waits(queue, "DISCONNECTED")
    \/ hpc = "restart"
    \/ "gave up" \in founded
    \/ founded = {} /\ sc # "off" /\ ~Waits(queue, "GOT_IP") /\ ~Waits(queue, "ACK_DONE")

(* A link that is up has its address on the way to the task: the event     *)
(* waits, behind that of every link lost before, or the task has the bit   *)
(* before it or in its hands, or it has published an outcome.              *)
AddressFollows(q) ==
  \A i \in 1 .. Len(q) :
    q[i] = "DISCONNECTED" => \E j \in i + 1 .. Len(q) : q[j] = "GOT_IP"

LinkUpIsKnown ==
  link = "up" =>
    /\ AddressFollows(queue)
    /\ \/ Waits(queue, "GOT_IP")
       \/ "CONNECTED" \in bits \cup taken
       \/ tpc \in {"stop", "ended"}

TakenIsHeld == taken # {} => tpc \in {"connected", "failed"}

WifiInv ==
  /\ TypeOK
  /\ DecisionFounded
  /\ NothingYet
  /\ tpc # "none" => mpc # "boot" /\ ~Waits(queue, "START")
  /\ hpc = "entered" => queue # <<>>
  /\ hpc = "restart" => sc = "off"
  /\ Reasons
  /\ LinkDownIsKnown
  /\ LinkUpIsKnown
  /\ TakenIsHeld

(* The outcome that the task had published was overwritten by the handler  *)
(* (wifi_config.c 215), and no task is left that would publish another.    *)
Overwritten == tpc \in {"stop", "ended"} /\ status \notin Done

(* With a link that is up the three tasks never all wait for each other,   *)
(* the event loop for an event, the task for a bit and app_main for an     *)
(* outcome (main.c 86-109), unless an outcome was overwritten: no order of *)
(* lost links, retries and bits that are taken together loses the address. *)
AllWait ==
  /\ hpc = "idle" /\ queue = <<>>
  /\ tpc = "wait" => bits = {}
  /\ tpc \in {"none", "wait", "ended"}
  /\ mpc = "poll" /\ status \notin Done

NobodyWaitsInVain == AllWait /\ link = "up" => Overwritten

LinkStays == <>[](link = "up")

(* A link that stays up gets the controller out of the loop of app_main    *)
(* (main.c 86-109), whatever happened before: bits that the task took      *)
(* together, lost links, esptouch.  The only way to wait for ever is an    *)
(* outcome that was overwritten between two polls.                         *)
MainGoesOn == LinkStays => <>(mpc \in {"online", "offline"} \/ Overwritten)

(* README.md 26-30, "green - WIFI connected": a controller whose link      *)
(* stays up does not wait for ever with the colour of a search.            *)
ConnectedIsShown == LinkStays => <>(mpc \in {"online", "offline"})
=============================================================================
