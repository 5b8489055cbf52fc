# TLA+ verification of the esp32_ws2812 firmware

The firmware drives a WS2812 LED strip from an ESP32. Clients send scenes (JSON), settings and commands
over a REST interface; a periodic timer plays the scenes; pictures are streamed from a web server while
they are shown; the firmware updates itself over the air. These modules model the parts of the program in
which several FreeRTOS tasks meet, in which power may fail, and the engine that plays the scenes. Line
numbers are those of the source files at this commit.

## 1. Inventory

Tasks: the **timer task** (`periodic_timer_callback`), the **httpd task** (one request after the
other), one **http task** per image stream, the **OTA** tasks, the SDK's **event loop**, the
**smartconfig task**, SNTP, and `app_main`. They communicate through event groups, one mutex (the
eventlist lock), one log mutex and plain variables.

| component | code | state | operations | hard about it | correct when |
|---|---|---|---|---|---|
| playback control | `timer_events.c`, `rest_server_get.c` | request bits, run status, scene time, timer on/off, paused flag, cycle time | callback; start, stop, blank, pause, continue, new cycle | bits are read, later all cleared; timer calls from two tasks | a status other than STOPPED has a timer; a request that is still to be read is obeyed |
| event data | `event_util.c`, `decode_json.c`, `create_*.c`, `rest_server_post.c` | object, event-group and track lists, lock | load, clear, list | three separate critical sections, time-out of the lock, failure half way | elements refer to groups that exist, or an error was reported; nobody reads freed data |
| track engine | `process_events.c`, `process_objects.c` | per track: current element; per element: status, event, wait, distance, speed, acceleration, object, repeats, flags | init, starting, work, final, repeat, stop, reset | nested loops inside one tick, several waits in one counter, an end that depends on another task or on the speed | each element plays its time, as often as it says; ticks return; each brings its track nearer to its end |
| BMP stream | `components/bmp/bmp.c`, `process_bmp.c` | phase, two read buffers, two event groups, display position | http callback (init, reading, finish, failed), display tick, stop | two tasks, clear-then-set pairs, time-outs of 10 s and 30 s | buffers are exclusive, shown in order; the reader ends; a stream that goes on being shown is closed |
| HTTPS client | `components/https_get/https_get.c`, `process_bmp.c`, `process_events.c`, `event_util.c` | pool of slots, stream memory | `https_get`, http task, open, show, reset, clear | a slot or a task that cannot be had; memory freed under a running task | the slots are a pool; an open stream has somebody who ends it |
| firmware update | `rest_server_ota.c` | status, status code, answer, task handle | check, update, status; two tasks | no lock, 20 s limit, deletion of a task | one transfer at a time; status is not stuck or overwritten |
| WiFi connection | `wifi_config.c`, `main.c` | event bits, retry counter, status, credentials | event handler, smartconfig task, poll of `app_main` | clear-on-exit of all bits, one variable for the outcome, three tasks | esptouch is started once at a time; the controller is reachable or has given up; the boot goes on |
| log ring | `logger.c`, `rest_server_get.c` | ring of 50, write index, mutex | log, list, clear | wrap of the ring, deletion of a task inside | a list is complete and in order, every call returns |
| configuration | `config.c`, `create_config.c`, `global_data.c`, `rest_server_main.c` | RAM values, NVS, body buffer | load, store, set, wipe | loss of power between two writes, partly rejected input, body in parts | NVS, RAM and what is in force agree |
| LED strip | `led_strip.c`, `components/led_strip` | pixel memory, size, dirty flag, hash | paint, show, resize | resize that fails, resize against painting | the size is that of the settings |
| boot | `main.c` | - | `app_main` | REST is open before the autostart load | order of inits |
| REST dispatch | `rest_server_main.c` | - | GET and POST handlers | bodies in parts, retries | what was sent is decoded |
| web pages, files, time sync, colours, JSON access, helpers | `web_server.c`, `time_sync.c`, `color.c`, `json_util.c`, `common_util.c` | - | pure functions, I/O | - | - |

How they meet: httpd sets request bits that the callback polls, and changes the lists under the
eventlist lock that the callback holds while it plays; the callback opens image streams and shares
buffers with their http tasks; httpd frees the streams when it clears the tracks; the OTA check request
waits in the httpd task for the task it started, and may delete it inside a log call; `/cfg/set` resizes
the strip and changes the timer's period. The hazards of each, at their lines, are in `PROJECT.json`.

## 2. Modules

| module | models | proofs |
|---|---|---|
| `BmpStream` | one image stream: http task and timer task | `BmpStreamProofs` |
| `ImageFeed` | what a stream promises its display: buffers in order, at most `Window` ahead, then closed | refined by `BmpStream` |
| `HttpsClients` | several streams, the pool of http clients, the life of the stream memory | `HttpsProofs` |
| `ClientPool` | a pool of resources that are free, in use or gone | refined by `HttpsClients` |
| `Playback` | timer callback against REST requests, eventlist lock, load and clear | `PlaybackProofs` |
| `TrackEngine` | one track, step by step through `process_track` | `TrackEngineProofs` |
| `Ota` | check and update requests and their tasks | `OtaProofs` |
| `WifiConnect` | event handler, smartconfig task, loop of `app_main`; driver and phone as environment | `WifiProofs` |
| `Config` | settings in flash, RAM and in force; boot, `/cfg/set`, `/cfg/tabula_rasa`, loss of power | `ConfigProofs` |
| `Logger` | ring and mutex of the log, with the deletion of a task inside | `LoggerProofs` |
| `MCPlayback`, `MCTrackEngine` | instances for TLC: the requests, the tracks | |

**BmpStream.** The variables are the fields of `T_BMP_WORKING` that both tasks use (`phase`, `mem`), the
two event groups (`wbits`, `rbits`), the place of each task in its code (`rpc`, `wpc`) and what a buffer
holds: the number of the image buffer. Every call on an event group is a step, so the clear-then-set pairs
of `bmp.c` 282-283, 313-314, 329-330 and 363-370 can be split by the other task. Time-outs may fire
whenever the awaited bits are missing: the relation of 10 s, 30 s and the period is not used.

**HttpsClients.** A slot has its status, the place of its task and the memory block the task works on
(`user_args`); an element has its pointer `w_bmp`. `calloc` may return any block that is not allocated, also
one that a task still points to. A task whose block was freed works with an event group and buffers that are gone:
it may find them intact, then what it writes is lost with the next `calloc`, or the firmware panics (`Fault`), which
ends the behaviour (`up`); a callback also panics while its event groups are not yet created. A stream is reduced to its phase and the end mark of its reader: what
happens in between, the rounds of the read loop included, is `BmpStream`. Streams that the code leaves alone (no slot, no task, no client) are
recorded in `unserved`, so that they are the only ones that may be left open.

**Playback.** The callback is cut at every call another task can interleave with: read of the bits,
decision, clear of the bits, lock, work, timer stop. The requests are cut likewise; a load links one
element after the other to its track and then looks up its event group, without the lock. The lists are reduced
to the state of the tracks (`none`, `loaded`, `playing`, `ended`) and to what their elements refer to that is
gone (`broken`: freed groups, freed objects, a group that was never set). Waiting for the lock times out
only while the other task holds it.

**TrackEngine.** Tracks are independent but for `track_process_paused`, so one track is modelled, and all times
are in ticks. Each iteration of the loops of `process_track` and `process_track_element_work` is a step, so that
"the tick returns" is a property and not an assumption. The BMP stream of an element is `none`, `running`, `unserved`
(no slot, task or client: nobody ever ends it), `ended` or `over`. `StreamEnds` is the end of the http task,
which `BmpStream` establishes as `ReaderTerminates`; that the stream is over is found by a display. `Final` and `Show`
contain the display with its early returns (`Cleared`, `TakesStream`, `LinesAfter`, `StreamAfter`; `process_objects.c`
13-68): nothing while a wait has frozen the element or when its object has no length, only the clear in a tick that has
one, the stream only for a BMP. `Show` also adds the acceleration to the speed, `bounce` turns the speed round.

**Ota.** `status`, `code`, `reply` and `handle` are the static variables that requests and tasks share without a
lock. `Reboot` is a restart request, a power failure, or the outcome of deleting an ended task, which FreeRTOS
leaves undefined; the other outcome is that nothing happens.

**WifiConnect.** `bits` is the event group, `queue` the events the handler has still to see; the handler reads the
bits on entry (`seen`) and acts on them later, the task takes all bits at once (`taken`) and acts on them in two
steps, `app_main` polls `status`. The driver posts an event for every attempt that ends and every link that is
lost; esptouch posts the credentials of a phone, good or bad, and its end. `founded` records what has really
happened, so that an outcome can be compared with it.

**Config.** The flash has the committed values and those that were set and not committed; a loss of power keeps
any part of the latter. `load_config` is a step per key, with the defaults it stores for missing keys;
`store_config` a step per `nvs_set`; `/cfg/set` a step per attribute, which may be the same, refused, or changed.
Three keys stand for the eight, one of each kind the code treats alike. `allowed` is what the flash may hold
for a key. `numleds` is the size that everybody counts on (`s_numleds`); it stays at the new number when
the pixels for it cannot be had (`led_strip_util.c` 126), and a read may fail at any of its calls (`ReadFails`). The body of a POST is received part by part into `buf`.

**Logger.** Every task may log, httpd may also list and clear; each call waits for the mutex, works in the steps
another task can fall between, and gives the mutex back. `book` is the sequence of entries since the last clear.
A deletable task may be ended at any step: it then takes the mutex with it.

## 3. Runs

Passing runs:

| run | question | bounds | states |
|---|---|---|---|
| `bmp` | are the buffers exclusive, in order, freed; does the reader end, is its end not lost, is the stream closed while it is shown; is all but the last buffer shown? | 3 lines per buffer, up to 6 buffers | 6.5 k |
| `https` | are the slots a pool; has every open stream an end, also when memory is freed and reused? | 2 elements, 2 slots, 2 memory blocks | 90 k |
| `playback` | is the timer on while something plays, do the lists fit, is the lock given back, is a request that will be read obeyed? | all nine kinds of requests, any number of them | 542 k |
| `tracks` | do elements play their time as often as they say, the first wait in every repeat; does each step bring a tick nearer to its return, each tick a track nearer to its end; do both arrive? | 201 tracks: 84 elements alone and before another one, 28 with accelerations and with streams before another one, no element, endless ones, one without working events, one with a way and no speed; 0 or 2 lines left of a stream; counters up to 12 | 49 k |
| `ota` | one transfer at a time, no stuck check, outcome kept, requests answered? | 3 looks instead of 200, failing task creation | 459 |
| `wifi` | esptouch once at a time, never deaf without having given up, nobody waits in vain, the boot goes on? | 5 tries as in the code, 4 waiting events | 106 k |
| `config` | do flash, RAM, strip and period agree, over refused attributes, failures and losses of power? | numbers of LEDs 0, 60, 144; two periods; one name; a body of 2 parts | 2.9 M |
| `logger` | is a list complete and in order, does every call return? | a ring of 3, three tasks, one of them deletable, two messages | 174 k |

Why the bounds are enough. Three lines are the least for which a buffer is shown in part over several
ticks; six buffers use each of the two read buffers three times and end in all four phases. Two elements
and two slots give an element that finds its slot taken by its own former stream, and with two blocks
memory must be used again under a task that still points to it. Three looks give an early, a late
and a missed end of the check task. `Playback` needs no bound. The elements of `MCTrackEngine`
combine each init list (none, a wait, two waits, `wait_first`, pause, `bmp_open`) with each work list (times
of zero, one and more, a distance after a bounce, streams with and without a time, with a clear before the end and
without a length) and one or two repeats. `Turning`, `Braking` and `Braked` have an acceleration that turns
the element round, stops it on its way, and is taken back before the way; the `Readers` open a stream and read it with
each kind of object. No line and two lines left of a stream are the cases that a display distinguishes, and more than
one tick of them; `CountLimit` 12 is above the longest play of which the length is checked. Four waiting events hold a lost link, an address and both events of a phone at
once. 0 LEDs is refused, 60 the default, 144 a change; each key may be missing, readable or fail. A ring
of three wraps within a list, and a clear may come before, at and after the wrap. The theorems of section 4
have no such bounds.

Some cases are outside of what holds for `tracks`, and the properties say so. An element with repeat 0 whose
events all end in the tick in which they began is restarted in that tick for ever (`TickDescends`,
`TickReturns`). `HasEnd` in `TrackDescends` and `TrackFinishes` names what must not be: no working events; an endless
repeat; a distance with neither an acceleration nor a steady speed other than 0 (`Moves`; 0 is the speed of
an element until an event sets one, and an acceleration that was taken back may have left it at 0); a `bmp_read`
without a time whose end no display finds, because its object is no BMP or has no length (`Displays`). And a
track need not finish while it is paused, or while it reads, without a time, a stream that nobody serves
(`ReadsUnserved`); a tick that is spent on a stream whose http task is still to end brings it no nearer
(`AwaitsStream`). All of them are among the tracks checked. `wifi` excludes by name the one way to wait for ever (`Overwritten`), which has a run of
its own.

The type invariant of a module is checked as a part of its inductive invariant (`StreamInv`, `OtaInv` and so on);
that of `TrackEngine` is proved.

Runs that find a disagreement with what the repository says of itself (`PROJECT.json` quotes it):

| run | property | what TLC shows |
|---|---|---|
| `playback_freed_lists` | `FreedListUnused` | a tick between the clears plays freed event groups |
| `https_freed` | `FreedStreamUnused` | a reset frees a stream whose http task is still to call back |
| `wifi_connected_shown` | `ConnectedIsShown` | the outcome is overwritten before `app_main` has polled it; with the link back nobody publishes it again |
| `config_body` | `BodyComplete` | the second part of a body overwrites the first |

These properties are not part of the passing runs. A fifth disagreement is shown by a property that holds:
`README.md` 185, the help text of `global_data.c` 80, the comment of `esp32_ws2812_types.h` 134 and the one of
`process_events.c` 87 say that a `wait_first` waits at the first init only. Nothing sets the flag that would say so,
and `FirstWaitRepeated` (run `tracks`) states what the code does instead: the element waits in each repeat as in its
first play; the variant that waits in the first play only violates it. Everything else is checked with the behaviour of
the code as it is, the lost bits and freed memory included.

Seen while modelling, and left in the models as they are: the finish callback drops a last buffer that was not
yet taken (`bmp.c` 329; that it is never more is `EndLosesOnlyLast`); a stop set while the reader receives is
cleared unseen (`bmp.c` 139; the reader still ends, `ReaderTerminates`); a request between read and clear of the
bits is lost (`timer_events.c` 131; `RequestObeyed` excludes it by name, `Pending`); a start at the very end of a scene is left without a timer (179; the status
stays STOPPED, `ArmedWhilePlaying`); a check after a
finished update allows a second update (`rest_server_ota.c` 190, 369); `SC_EVENT_SEND_ACK_DONE` publishes a failed
connection even when the link is up, so a controller may go on without its REST server (`wifi_config.c` 285); a
store after a key that could not be read replaces its stored value by the default; after a failed allocation of pixels the
same number of LEDs is "not changed" and the strip stays dark until a reboot (`create_config.c` 45). An open stream is closed
only by a display: that of an element that is left after a timed `bmp_read`, is stopped, or has no length keeps its buffers
until the element is reset (`process_objects.c` 18-59). Not
modelled, but seen: with extended logging an event that names an unknown object goes through a NULL pointer
(`process_events.c` 120-123, 268-271); a short last buffer is reported with its full size (`https_get.c` 154), and a read that returns
less than was asked for is followed by one to the same place in the buffer (126).

`CHECK_DEADLOCK FALSE` is set where the system may stop: a stream that is over, elements whose slots are all
gone, no client that asks for anything, a finished track, a controller that has given up, a firmware that has panicked over freed memory. `Ota` and `Config` can
always reboot and a log call is always possible, so deadlock is checked there.

**Fairness.** `BmpStream`: the http task runs until it ends (FreeRTOS schedules it, every wait has a
time-out); nothing is assumed of the display, because `process_object_bmp` runs only while the element is current, has
an object and is not frozen, and nobody has to call a stop. That the display goes on is the premise of `StreamCloses`,
stated in the property itself. `HttpsClients`: safety only. `Playback`: an armed timer fires and its callback runs on; no fairness for
requests, so a slow client may hold a handler, and the lock, for ever. `TrackEngine`: the tick starts and goes
on, and a stream that has a reader ends some day (`BmpStream`); one that nobody serves (`NoStreamLeftOpen`) never does;
no fairness for stop, restart and continue. `Ota`: only the httpd task
runs; nothing is assumed of the network, nor of the tasks that use it. `WifiConnect`: event loop, smartconfig
task and `app_main` run on; nothing is assumed of the network or the phone, a link that stays up is the premise
of `MainGoesOn`. `Logger`: a task in a call goes on; nobody has to call. `Config`: safety only.

Every property of a passing run is also checked against a variant of the code in which it fails (the
operators commented "Variant for the checks"): a missing wait, a mark that is not set, a lock that is
kept, an off-by-one. The variants are in no next-state relation.

## 4. Proofs

TLAPS proves these for every value of the constants, from the assumptions named in the modules
(`Lines` of `BmpStream` at least 1, of `TrackEngine` any set of numbers; `Requests` a set of known requests; `Programs` any set of tracks, `CountLimit`, up to which
the model counts plays and ticks, at least 2; `PollLimit` at least 1;
any number of slots, elements and blocks; any retry limit and event queue; any ring of at least one entry and
set of tasks; any values of the settings that contain the two defaults):

- `BmpStreamProofs`: `StreamSafe` (`Spec => []StreamInv`) and from it `TypeCorrect`, `BuffersAreExclusive`,
  `IdleIsOver`, `OnlyLastIsLost`, `EndStaysMarked`; `StreamImplementsFeed`, the refinement of `ImageFeed`.
  `BuffersExclusive` is not inductive: that the reader may write depends on a PROCESSED that the worker
  set ticks before. `StreamInv` adds where the two tasks are for each phase (`PhaseInv`), that at most one
  mark is set (`OneMark`), that PROCESSED in `rbits` means no buffer is outstanding and is what a publication
  consumes (`HandoverInv`), and by how much the reader is ahead (`CountInv`), which also gives each step of the
  refinement: taking in a buffer maps to `Receive`, `ProcessedSet` to `Show`, freeing to `Close`, all others
  stutter. The bound `MaxBuffers` is arbitrary.
- `HttpsProofs`: `SlotsSafe`, `StreamsServed`, and `SlotsImplementPool`, the refinement of `ClientPool`. That an
  open stream has a reader or an end is inductive only together with the ownership of the memory: each element
  owns its block, so a free by one is no loss for another, and a block that is used again begins IDLE. The steps of a
  task on a freed block are among those that are proved to preserve it, the panic among them.
- `PlaybackProofs`: `PlaybackSafe` (`PlaybackInv`), `AlwaysArmed`, `ListsAlwaysFit`, and `RequestComesToItsTurn`, the argument of
  `RequestObeyed`. The invariant adds in which
  places of the callback the timer is known to be armed and the status known, and that broken references
  imply an error or a clear in progress.
- `TrackEngineProofs`: `TypeCorrect`, `FrozenThaws`, `RepeatsAsOften`, `PlaysTheTime`, `FirstWaitDelaysRepeats`,
  `TicksDescend`, `TracksDescend`.
  - `FrozenInv` says where in a tick an element can be frozen, and that it then has a wait; `RepeatInv` that plays
    and remaining repeats make up the number of repeats, with one play counted ahead between the final events
    and the decision about the repeat.
  - `PlaysTheTime` and `FirstWaitDelaysRepeats`: at each place of a tick, `TimeInv` says how many ticks have passed: those of the events that
    are done, and of the one that runs what its counter has lost. The sum over an event list (`WorkTicks`) and the
    number of ticks of several waits in one counter (`InitTicks`) are computed by lemmas for every list; the
    induction they need is over a set of numbers, from the least-number principle (`Induction`), so that no theorem
    with an operator parameter is used.
  - `TicksDescend`: the measure is the elements, the plays and the steps that are left. `LeftInv` and `PlayInv` give
    its ranges; the one step that could raise it, the repeat of an endless element, needs a tick to have passed
    since the element began, which `PlayInv` derives from the event that takes time.
  - `TracksDescend`: the measure (`Left`) is five numbers: the elements, the plays, the events, what must happen before
    the running event gets nearer to its end (the end of the http task, or the turn of the speed by the acceleration),
    and what this event has still to wait, to go or to show. `LastInv` says that an element with an end is in one of its
    events, that speed, acceleration and object are those in force there (`SetInv`: `InForce` follows the last event of
    a type, `Steady` that no acceleration has changed the speed, a `bounce` keeps it from 0), and that there is a time, a way
    or a stream left when it is shown (`WayInv`). Every early return of the display is a case of the proof: a stream
    that has ended is over after its lines and one clear, because no wait has frozen the element (`FrozenInv`) and its
    object has a length.
- `OtaProofs`: `OtaSafe` (`OtaInv`), `TypesCorrect`, `OneTransferAtATime`, `NoCheckLeftBehind`, and the action
  property `OutcomeNotOverwritten`. The invariant says who owns `ota_task_status`: as long as a check task lives,
  the handle names it and its request is waiting; that is why deleting it by the handle leaves nothing behind.
- `WifiProofs`: `WifiSafe` (`WifiInv`), `NeverAborts`, `NeverDeaf`, `DecisionsFounded`, `NobodyWaits`. The invariant says that each bit and
  outcome has its reason (`Reasons`) and that a link that is down has an event waiting, a restart under way, an
  esptouch that has heard nothing yet, or was given up (`LinkDownIsKnown`).
- `ConfigProofs`: `ConfigSafe` (`ConfigInv`), `PowerLossSurvived`, `AnswersStored`, `InForce`. The strengthening follows
  the keys: during a store those before `idx` are pending with the value of the RAM, the others untouched
  (`Clean`); what is in the RAM may be in the flash (`RamAllowed`); strip and period follow the RAM except while
  a change is on its way (`Forced`).
- `LoggerProofs`: `LogSafe` (`LogInv`), `ListsInOrder`. `LogInv` gives each place of the ring as a place of the book;
  `ListInv` follows a list: the empty entries before the oldest one are skipped, then the book is sent.

**Descents.** A liveness property is out of the prover's reach, what its argument rests on is not: a number that
each step of the task in question lowers, and that no step of another task raises. These are proved for
every value of the constants, so that only fairness is left to TLC:

| liveness property | theorem | what it says of the code |
|---|---|---|
| `ReaderTerminates` | `ReaderComesToItsEnd` | headers and buffers are the only loop of `do_https_get`; the display cannot prolong it |
| `StreamCloses` | `DisplayComesToTheEnd`, `EndStaysMarked` | as long as there are displays: what is being shown is finished once, the end mark is still there, no wait times out, whatever stops come |
| `RequestObeyed` | `RequestComesToItsTurn` | no handler puts the callback back; only `/li` can hold the lock it waits for; what the callback has read it does, unless the bits are replaced |
| `TickReturns` | `TicksDescend` | the three loops inside one tick have a common measure |
| `TrackFinishes` | `TracksDescend` | a tick that does not wait for a stream brings the track nearer to its end; nothing takes it away again |
| `CheckAnswered` | `AnswerComes` | the check request looks at most `PollLimit` times, nobody prolongs it |
| `CallReturns` | `CallsComeBack` | a log call goes straight on once it has the mutex |
| `MainGoesOn` | `NobodyWaits` | with the link up event handler, smartconfig task and `app_main` never all wait for each other unless an outcome was overwritten |

Only model-checked: the eight liveness properties themselves, that is the step from the measure to "some day" under
fairness, and the four runs that end in a violation.

## 5. Abstractions

Bytes, colours, positions, texts and the JSON syntax are left out, with them brightness and
`w_len_factor`, which stays 1 because nothing sets its delta. Speeds and ways of `TrackEngine` are integers, a time of 0
stands for all that are not positive (the default of `bmp_read` is -1), and an object has one data entry and exists. An out-of-memory of small allocations is not modelled where the
code does not look at it. `Playback` treats `process_tracks` as one step under the lock, `TrackEngine` opens that
step up. In `BmpStream` the element is not reset while its stream runs; in `HttpsClients` it is. There
the use of freed memory has two outcomes, a panic or intact handles; what is then written is not kept, because `calloc`
clears the block, and a task that blocks for ever is one that takes no further step. The flags of the
configuration are bits of one number and are stored like any other number. Log levels and times are left out.

## 6. Not modelled

- The painting of objects and the encoder of the LED strip: arithmetic on colours of which no other part reads a
  result. That `set_numleds` may free the pixels while the callback paints is visible in `Config` only as the
  step that replaces them.
- The load and the start of the autostart scene in `app_main` (`main.c` 129-132). It is a second loading task beside
  httpd; `Playback` has one. `ListsFitTogether` and its proof are about requests.
- The composition of `Playback` with `TrackEngine`: a reset that is skipped because the lock timed out is a step
  of the first, tracks that were never reset are states of the second.
- Web pages and file access, time sync, mDNS, NetBIOS: input and output without state that is read elsewhere.
- Colours, JSON access and common helpers: functions on values and text. `waitforConnect`: nobody calls it.

## 7. Plan

1. `Boot`: `app_main` as a third task in `Playback`, with the load of the autostart file and `scenes_autostart`.
2. `LedStrip`: paint operations against a resize, dirty flag and hash of the shown data.
3. `Player`: an abstract player (stopped, running, paused), with `Playback` refining it for the status.
