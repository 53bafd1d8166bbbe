# A verification of the CM4-WRT-A firmware and of picod

The repository holds two programs. The firmware of an RP2040 (`src/pico`, "the Pico")
powers, resets and watches a Raspberry Pi Compute Module 4. The daemon `picod` on that
CM4 (`src/CM4/src`) talks to it over a UART: it reads temperatures, sets fans and the
watchdog, confirms shutdown requests, and shows all of this on a web page or on ubus.
The modules here model both programs, TLC checks them on small instances and TLAPS
proves what matters most for every value of the constants.

    tlc -config MCPicoControl.cfg MCPicoControl
    tlapm PicoControl_proofs.tla

## Inventory

| Component | State it keeps | Operations | What is hard | What makes it correct |
|---|---|---|---|---|
| Pico control (`cm4-wrt-a.c`, `pico_pkt_watchdog.c`, `pico_pkt_shutdown.c`) | packet buffer, watchdog settings and alarm, two request flags, the confirmation, rails, button time | main loop, timer, GPIO and UART interrupts, `reset_the_cm4` | interrupts between any two statements of the main loop; alarms that outlive their owner; latched edges | resets stay within `max_retries` + 1, an enabled watchdog has an alarm, rails are on for a CM4 that is up, presses are served |
| Serial link (`PacketHandler.cpp`, `on_uart_rx`, request functions) | bytes on the line, the place of either side in a packet, answer queues | request, flush, write, wait, read, dispatch; receive, execute, reply | packets have no frame but their length; a flush cuts answers; late answers; restarts in mid-packet | either side keeps step; a caller gets its own answer; no power-off unasked; requests end |
| `ConcurrentQueue` | queue, mutex, condition variable | `isFull`, `push`, `wait_and_pop` with a limit | check and push apart, notification after unlocking, time-outs | a bounded first-in first-out mailbox without lost wake-ups |
| picod process (`main.cpp`, `Event`, `PacketHandler::run`, start and stop of `WebServer`) | threads, serial port, two events, the server's socket and pool | start, initialise, monitor, quit, join | order of start and stop across threads, self-requests, an exhausted pool | nobody uses a closed port, nothing outlives main, picod ends when told to |
| Web server routes and `ubus` methods | requests in progress | read and write fans, watchdog, version, status | settings cut to 16 bits or a byte before they are checked; answers without a name of their request | what the Pico has is what was last asked; what is reported as done is done |
| Version transfer | place in the string, on the Pico; the string so far, in picod | one request per piece | either side may give up between pieces | no gap and no repetition in what picod has |
| Fans, tachometer, temperatures | duty cycles, speeds | read, write, timer | a float made a byte, two's complement by hand, 16-bit counters | a reading is shown as it was measured |
| Sensor histories (`pico_monitor`) | one queue per sensor, time stamps | poll, save, send | queues trimmed one by one, failed polls whose answers come late, other threads that take or leave answers | the charts are one history, and how far it is behind its time stamps is bounded |
| `SSEDispatcher` | event number, message, pause flag | `wait_event`, `send_event`, `pause`, `resume` | events between two waits, a slow browser, a pause while others write | no event is replaced while it is written, none goes back in time, a pause holds |
| Packets (`pico_pkt_*.h` and `.c`) | the Pico's one answer buffer, which all handlers share; the bytes of a request so far; the place in the version | pack and unpack, both sides; receive what a reset has cut | bytes an earlier answer left, numbers by hand, different flags per kind; half a request and the next picod's first one make a packet nobody has sent | the host reads what the Pico meant, a write gives what was asked, a start puts everything right |
| Heartbeat (`pico_monitor`, `init_pico`, `picod.service` against the watchdog) | where the monitor is and for how long, silence, the alarm | poll, wait, publish to InfluxDB, crash, restart | nobody sends heartbeats: the polls, with output from the same thread between them, are all there is | only what is silent is reset, and silence is noticed |
| Quit event and signals (`Event.cpp`, `main.cpp`) | flag, mutex, the handler on top of a thread | `set`, `isSet`, `wait`, `quit_signal_handler` | a handler that locks what the thread below it holds | everybody hears the event |
| ubus server (`ubus_server.cpp`) | the loop's timer, subscribers, handlers for signals | connect, notify, rearm, subscribe, end | lost answers, lost ubusd, a loop that looks at no event | polling goes on, subscribers are served |
| TMP103 (`TMP103_I2C.cpp`, `i2c.c`) | the device's address, the sensors' pointers | probe, point, read | the monitor, the workers and the ubus methods share both without a lock | a caller gets its own zone's temperature |
| Ping, `pico-cli`, the website, the builds | little or none | I/O and formatting | | not modelled |

How they interact: `picod`'s threads (monitor, web server workers, and the reader itself
for shutdown packets) share the port through `send_pico_request` and get answers from the
reader through one `ConcurrentQueue` per packet kind. The Pico executes one packet at a
time in its main loop; its interrupts raise flags that the loop takes at its top and
pulse the CM4's RUN pin. The CM4's nEXTRST line tells the Pico whether the CM4 is up.
Every packet is a sign of life for the watchdog.

`PROJECT.json` lists every component with its status, and the hazards with the lines
where they bite.

## Modules

| Module | Models |
|---|---|
| `PicoControl` | the Pico's control of the CM4, with the CM4, the button and time around it |
| `PicoHistory` | `PicoControl` with a history variable, for a question about the past |
| `SerialLink` | the UART byte by byte with both of its ends |
| `ConcurrentQueue`, `TimedMailbox` | the queue between its critical sections, and what its users take it for |
| `PicodLifecycle` | picod's threads, port and web server from start to end |
| `PicoSettings` | version, fans and watchdog settings from file, web page and ubus to the Pico and back |
| `SensorCharts` | readings from the Pico's sensors, through the queue of their answers, to the charts' histories |
| `SensorStream` | events from the monitor to the browsers |
| `PowerContract` | what the owner of a board may rely on: when power is cut and RUN pulsed; `PicoControl` implements it |
| `Packets` | the bytes of all packets, the Pico's answer buffer, and requests that a reset cuts |
| `Heartbeat` | picod's monitor, crashes and restarts against the watchdog, in time |
| `QuitEvent` | the mutex inside the quit event, and signal handlers |
| `UbusServer` | what main's thread does in the build for OpenWrt |
| `TMP103` | the I2C sensors behind their unlocked device |
| `Picod` | the composition of these three: the threads of picod and what they share beside the port |
| `FanPercent` | a duty cycle's way through a byte, used by `PicoSettings` and `Packets` |
| `*_proofs` | theorems about the module of that name; those about `Heartbeat` are in `PicodLifecycle_proofs`, with the rest of how picod ends and starts again |
| `MC*` | values of the constants for TLC |

`SerialLink` uses its queues as `TimedMailbox` describes them (an offer, a take, giving up
on an empty queue are single steps); `ConcurrentQueue` is shown to implement it. A
definition marked "Slip" is a plausible mistake in the definition after it. It is part of
no specification; putting it in the place of the original shows that a property notices.

### PicoControl

Variables have the names of the code. `pc` is where the main loop is; it is cut wherever
it touches state that an interrupt touches too, so `pkt_watchdog` is seven steps and the
two flags at the top of the loop are served in `send`, `sent`, `rails`, `pulse`,
`pulsed`. Alarm, GPIO and UART interrupts have the same priority on one core: each runs
to its end, so each is one action, and the main loop stands while one is pending
(`Goto`). `Receive` is `on_uart_rx` at the last byte of a packet.

* Time is counted in alarm periods of 100 ms. `Tick` needs the main loop to have come
  round since the last one, unless `blink_led` holds it, and an alarm added in this
  instant is not due. `quiet` is the time since `lastHostMessageTime`, `held` since
  `buttonDownTime`; both stop at the greatest value that is compared with them.
* `alarms` are the slots of the SDK's alarm pool with the watchdog's callback, `handle`
  is `cm4_watchdog_timer.alarm_id`. An alarm of which `handle` knows nothing stays in the
  pool until its callback returns false: this is what the SDK does and what makes two
  alarms possible.
* The CM4 is `off`, in `reset`, running `linux`, or running `picod`; it powers off,
  reboots and boots as it likes. The button bounces: up to `MaxMoves` edges in a tick.
* `allowance` and `stale` are history: resets the latest settings still allow, and
  whether RUN was pulsed, or the CM4 rebooted, while an earlier confirmation still stood.
  `PicoHistory` adds `owed`, where the main loop was when a press was accepted.

### SerialLink

A byte knows the packet it was written for and its place there. The code sees only
`MagicOf`: the magic number at place 0, the payload's value after it, and zeros. `Read`
takes any number of bytes that `read` may return; `Flush`, `Write` and `Wait` are the parts
of `send_pico_request` and `get_pico_response`; a wait may end with nothing only when its
queue is empty, at any time. `OnUartRx`
drops zeros at the start of a packet and stores everything else, also while the main loop
is busy with the packet before. `Restart` is a restart of the CM4: picod and the
bytes in its buffers are gone, the Pico keeps its place.

Payloads are abstracted to one value (`PayloadMagic`), which may be that of a magic
number; packets have 2 or 3 bytes for 32. Writing to the port is one step: the kernel takes
the whole packet under the mutex, or the write fails and nothing is sent, which no caller
looks at. A port that takes a part of a packet is left out: the kernel's buffer has room for
far more requests than can wait. The line itself hands the packet over byte by byte.

### ConcurrentQueue

What a method does under `the_mutex` is a step. Between `isFull` and `push`, between
`push` and its `notify_one`, while a thread waits and until it has the mutex again, other
threads run. picod has one producer; the module allows any number.

### PicodLifecycle

`main` goes from `start` through `init_pico` to `pico_monitor` (`wait`, `request`), then
`WebServer::stop` (`stop`, `post`) and the joins; leaving without a join is `terminated`.
A critical section of `Event` is a step, and as `Event::wait` has no predicate it may
return at any time with the flag. `conn` follows each connection through the pool;
`Self` is the one `WebServer::stop` makes to its own server. A stream takes a worker
until the server's socket is closed or the browser leaves. The build is the one with the
web interface; signals are sent to a picod whose handler is installed.

### PicoSettings

Here the values matter, and the link is reduced to what `SerialLink` shows of it. `Send` is
a request with its execution on the Pico, or without (`RequestLost`); an answer in
`coming` is delivered, late or not, or lost; `Pop` takes the oldest answer of the kind,
whoever asked for it, and `GiveUp` ends a wait. `todo` holds what a handler has still to
ask: `StartUp` is `init_pico`, `Status` is `get_pico_status`, `TurnOffFans` is asked by the
reader, who delivers nothing meanwhile. The routes and the ubus methods make the same
requests and share `Handlers`.

* A duty cycle is a whole percentage. `Packed` computes what `(uint8_t)(x * 100.0f)` yields
  for `x = n / 100.0f`, in single precision with rounding to even; it is used for every
  crossing of the link, in both directions.
* `Narrow` is the conversion to 16 bits. It comes before `Sanitized` in the routes
  (`SetWatchdog`) and after it for `picod.conf` (`Sanitize`, `InitWatchdog`).
  The further narrowing of JSON numbers to 32 bits is left out.
* A piece of the version is the positions of its characters, so a gap, a repetition and a
  missing start can be told apart.
* `asked`, `first`, `left` and `mixed` are history: the last percentage written, the Pico's
  place when picod started, the settings as a request found or left them, and the kinds of
  which requests met. Two requests of one kind that meet do get each other's
  answers; `ReportsTrue` leaves them out, and `mixed` makes the exemption explicit.

### SensorCharts

`TachometerTimer` and `PicoAnswers` are the Pico's, `PollBegins`, `PollAnswered` and
`PollFails` the monitor's; the other threads (a status page, a method on ubus) ask the same
question with `OtherAsks` and share `temperatureQueue`. Nothing tells which request an answer
belongs to. A poll or a caller that gives up leaves its answer on its way: it is queued when it
comes (`Dispatch`), taken by whoever pops next, and shown under the time of that poll. From
then on every point is late by one poll, until the queue overflows or an answer is lost.
`measured` (the answers themselves, with the poll at which the Pico read its sensors) and
`missed` (requests that were given up) are history.

`ChartsTrue` has three parts. `PointsWhole`: all charts show the same answer at one place, in
hundredths. `PointsInOrder`: no place shows something older than a place before it.
`LagBounded`: a point is behind its time stamp by no more polls than requests were given up so
far, and one for each thread that may ask at the same time. The bound is exact: the run finds
behaviours that reach it, also with `missed` and with `Others` alone. With no request given
up and nobody else asking, a point is what its sensor showed at its time stamp.

Temperatures are counted in eighths of a degree, which single precision represents
exactly, and in hundredths after the packet; how an ADC value becomes a temperature is left
out. An answer arrives whole or not at all (`Lost`); what a cut one does to the reader is
`SerialLink`'s.

### SensorStream

`Update` and `SendEvent` are the monitor's; the rest are the workers, each serving `/stream`
for a browser. A critical section of `SSEDispatcher` is a step, except that `m_` stays taken
while a worker writes. `wait_event` waits a millisecond for one number: it is `Notified` or
`TimedOut`. `overrun` (events a stream has written during a pause) is history.

An event's number is all that its readers' steps depend on, never what it carries, so the
two halves share no variable and each has the monitor's way from a saved poll to an event as a
choice of its own. `MCSensorStream` checks them in one run, one at rest while the other moves
(`half`): with no variable and no property in common, a step of one cannot change what a
property says of the other. `TypesOK` takes the histories' and the queue's length and `rpm`'s
sixteen bits (`Words`) among its claims.

### Packets

Each handler of the Pico is one action: it takes a request that the host's functions have
packed, changes the Pico's settings, and packs its answer into `resp`, which keeps every byte
that the answer does not write. `Heard` is what the host unpacks, `meant` the history it is
compared with. The floating-point fraction of a duty cycle is `FanPercent`'s `Packed`,
the version's characters are their positions. The link is taken to work.

`Cut` is a reset of the CM4 (the watchdog's, a button's or its own) after any number of
bytes of a request. They stay in `rx`, the Pico's `pkt.req` up to `rx_idx`, and `StartUp`,
one request of `init_pico` at a time, completes them. What `Execute` then runs has the
first half of one request and the second half of another, so a write may be made of a read,
a timeout of a duty cycle. Answers are followed up to the first reset, settings beyond it.

### Heartbeat

`PicoControl` counts alarm periods and leaves picod free; here picod's durations are
constants, in any unit. `phase` is where the monitor is, `left` the most it may still take:
a phase may end earlier, but the alarm (`Period`) and the CM4's boot are exact. `Arrives` is
`update_watchdog` at the last byte of any packet. `PublishCrashes` is a `Post` to
InfluxDB without a response, whose body `publish` reads; `Quits`, `Ends` and `Restarts` follow
`picod.service`. `PageAsks` is a worker of the web server, which may also change the
watchdog's settings. Links are lossless and the button is left alone.

picod compares its timeout with nothing but one second, and so does the module: `Timeouts`
may hold any. `LongestSilence` is what the durations add up to where picod is, and
`OnlyTheSilentAreReset` says of each timeout which phases are long enough to be taken for
silence. So a timeout above `Round + Wire` spares a monitor that works, and one above
`Absence + Wire` also a picod that crashes; with a shorter one, a working CM4 is reset, and the
property says where.

### Picod

`PicodLifecycle` has picod's threads in their order of start and end; `Picod` has the same
threads between, with what they share beside the serial port. At the start one of the two
builds is chosen: `main = "monitor"` is the one with the web server, in which main polls
and workers serve `/quit/now` and the page; in the other main runs the loop of libubox.
Each of the three modules below can be read by itself (`SensorSpec` is the sensors alone);
`Picod` decides whose thread takes their steps.

**QuitEvent.** What is between two operations on `mtx_` is a step. A thread runs only while
no handler is on top of it (`Runs`), which stops its sensor and loop too; the handler may
come at any point, also while its thread holds the mutex, and then waits for it for ever
(`HandlerStuck`). `wait_for` may return at any time.

**UbusServer.** `uloop_run` is external: the loop takes one ready thing at a time, and takes
an expired timer out of its list before the callback. Which handlers are installed while it
runs depends on libubox, so `keeps` is chosen at the start. The requests of the object's
methods are `PicoSettings`'; that they read the sensor is `Sensor(Main)`.

**TMP103.** An ioctl is a step and may fail. `addr` is the one field of `device_` that a call
changes, `pointer` what a transfer leaves behind in a sensor. The constant `Temperature`
gives each zone its own reading, so a mixed-up address would show; a transfer reads the
register in one step, so that a reading that changes between steps would show nothing more.
`retVal` and `measured` are of the last call that returned. All callers leave out the zone,
so `deviceIndex` is `{0}`: `ReadingIsTheZones` holds because of that, and the slip that lets
callers choose a zone breaks it.

## Runs

| Run | Question | Bounds, and why they are enough |
|---|---|---|
| `control` | Do resets stay within the budget, does an enabled watchdog have an alarm and a CM4 that is up its rails, and does all of it implement `PowerContract`? | two alarm slots (an orphan and the current one), one retry, which a reset takes, packets that enable, enable again, disable without a retry, confirm and mean nothing, at any step; all button, power and reboot orders; a blink in which an alarm fires |
| `control_liveness` | Does the watchdog give up on a silent host, are long presses served, are short ones answered? | thresholds 3 and 4, so that a short press is possible between two ticks of the loop; two edges of the button in a tick, so that it bounces |
| `link_clients` | Do both sides keep step, and does a caller get its own answer? | two threads, three requests, two kinds, packets of three bytes, payloads that look like a magic number |
| `link_liveness` | Does every request end, with a restart and a shutdown packet? | one thread and the reader, one restart between any two bytes, one press |
| `queue` | Is the queue a mailbox without lost wake-ups? | two producers and three consumers on two places: a rival for everything |
| `lifecycle` | Is the port open when used, does main return last, is the socket closed once, does picod end? | two browsers and main's own connection on two workers: the pool can be exhausted |
| `settings` | Do fans and watchdog have what was asked, is the version without gaps, are reports true? | a web worker beside start-up and shutdown packets; odd values: a duty cycle that loses one, 65536, -1; a string of two pieces; one answer on its way |
| `stream` | Are charts one history of what was measured, and how late are they? Is an event safe while it is written, does a pause hold? | a history of two points and four polls, so that it overflows twice; two requests given up, one other thread and a queue of two, so that it overflows as well; a temperature below zero, a speed that wraps; two streams and four events |
| `packets` | Does the host read exactly what the Pico meant, after any earlier answers? Does a start put right what the pieces of cut requests have done? | readings and settings on both sides of a byte and of the sign; a version of two pieces and a bit; two resets with no complete start between them, each in any place of any request, so that a packet can be made of three |
| `heartbeat` | Does the watchdog reset only what is silent, notice silence, and bring picod back? | durations of one to three units; timeouts below, at and above the silence of a working monitor (7) and of a restart (11), so that an off-by-one shows at either |
| `picod` | Does everybody hear the quit event, does polling go on, do subscribers get what is polled, does a caller get its own sensor's temperature? | both builds; main, the reader and a worker; a signal at any point of any of them; two changes of subscription on their way; two zones, one below zero |
| `false_shutdown` | Does a CM4 power off only when a shutdown was asked? It does not: see below. | the least that shows it |

`lifecycle` and `picod` run without the deadlock check: a process that has ended takes no
step, and one whose handler waits for a mutex of its own thread, or whose main waits for a
server that nobody stops, takes none either. Everything else is checked for deadlocks.

### What the code does differently from what it says

* `false_shutdown`: the flush before a request may cut the answer to another thread's.
  The reader has no way to find the start of a packet again; a payload byte `D` is then
  taken for a shutdown packet and picod powers the CM4 off.

Behaviours that users of the code should know. The properties exempt them by name, or claim
nothing about them, and the hazards list those that a property touches:

* After a reset the watchdog does not start its timeout anew, so the next reset follows one
  alarm period (100 ms) later, though the comment at `picod.conf:16-18` describes the
  timeout as the time in which the CM4 has to be heard.
* `reset_the_cm4` turns the rails on for a CM4 that was shut down, but when the confirmation
  still stands at the falling edge the RST handler turns them off again
  (`pico_pkt_shutdown.c:28-29`); `stale` names the case in `RailsOnWhileUp`.
* `quit_signal_handler` locks the quit event's mutex. On top of a thread that has it, it
  waits for that thread, and picod does not end (`HandlerStuck` in `QuitIsHeard` and
  `SubscribersServed`).
* In the build for OpenWrt nothing in `uloop_run` looks at the quit event. SIGTERM either
  ends the reader only, and main serves ubus without it, or ends the loop only, and main
  joins a reader that nobody has told to quit. `QuitIsHeard` asks only for the reader.
* `Server::stop` tests `is_running_`, which stays true until the listening loop has ended.
  Two requests to `/quit/now` (`WebServer::stop` makes one itself) both pass; in a debug
  build the assertion on the socket at `httplib.h:9485` fails for the second. The exchange
  of the socket that follows is what `ClosedOnce` is about.
* The web page posts the duty cycle for the fan in the input's attribute
  (`dashboard.js:34`), which selecting another fan does not change.
* Half of a reset picod's packet may become a `D` that confirms a shutdown while a new
  CM4 is up. `PicoControl` allows a confirmation at any time.
* The main loop clears the shutdown flag after it has sent the packet. A press accepted in
  between is cleared with it and no packet follows; `QueuedPressAnswered` shows that this
  gap is the only one.
* main stops the web server by a request to itself. When all workers hold streams it is
  not served and picod does not end (the premise `~Hung` of `QuitEndsPicod`).
* 53 % and 59 % lose one on each crossing of the link: a fan set to 53 % runs at 52 %, and
  59 % becomes 58 % (`FansAsAsked` allows one).
* A watchdog timeout of 65536 s becomes one second, retries of 65536 become none, and a
  negative percentage from ubus becomes 100 %.
* When a version transfer broke off, the next picod gets the rest of the string
  (`VersionRun` allows a start other than 0).
* picod does not compare the watchdog's timeout with its own silences. With the defaults a
  poll, its answer, a restart and the start come to some 8 s of a timeout of 10 s, but a
  connection to InfluxDB may take the database client's own time limit, up to 300 s, and the
  watchdog then resets a CM4 that works (the second case of `OnlyTheSilentAreReset`).
* A late answer is reported as the success of the next request of its kind, and so is
  another thread's (`mixed` in `ReportsTrue`). A temperature poll that gives up leaves its
  answer to the next poll, and the charts are late from then on (`LagBounded`).

### Fairness

* `PicoControl`: the main loop, the interrupts and time go on (weak fairness of
  `MainLoop`, `AlarmIsr`, `GpioIsr`, `Tick`): a processor executes and a clock ticks.
  Nothing is assumed of the CM4, of picod or of the button. `SilentHostGivesUp` takes the
  silence as its premise.
* `HardResetServed` is checked without packets of unknown kind. Those make the Pico blink
  for more than a second, in which a button can be pressed again for every round of the
  loop, and then the shutdown flag, which is tested first, can starve the hard reset.
* `SerialLink`: each sender, the reader, the receive interrupt and the Pico's loop go on.
  For a sender this includes that it gets the mutex, which the bounded number of requests
  guarantees. No sender needs to begin, and no answer needs to come.
* `PicodLifecycle`: every thread goes on. A queued connection is served if workers become
  free again and again (strong fairness): the pool's jobs are taken in the order they
  came. Browsers need not leave. `QuitEndsPicod` has a premise, `~Hung`: a quit during the
  start of the server, when `stop` does nothing, or a pool full of streams leaves main
  waiting for a server that nobody has told to stop. These are hazards, listed as such.
* `Heartbeat`: time passes, a phase that is over ends, and the alarm's interrupt is taken.
  `StoppedIsBroughtBack` needs no timeout above a restart, only one above the wait for an
  answer: a smaller one would reset picod during its start again and again.
* `Picod`: threads run on. The event's mutex, free again and again, is got (strong fairness):
  its users are away from it for up to a second between two calls. Reading the sensor, the
  event and the loop are choices of one thread, so main comes to the event, to an expired
  timer and to news of subscribers under strong fairness: it reads the sensor once in each
  poll or call, and libubox serves timers, descriptors and its end in every turn. Nobody needs
  to quit, and no signal needs to come.

## Proofs

All theorems are about `Spec` (`BeatSpec` of `Heartbeat`, `ChartsSpec` of `SensorCharts`), hold
for every value of the constants that the module's assumptions allow, and rest on no other
assumption.

| Theorem | States | Argument |
|---|---|---|
| `TypeCorrect` | `PicoControl`'s types, among them that `max_retries` never wraps | by action, one part of the state at a time |
| `WatchdogBudget` | `NoExtraResets` | `Budget`: `max_retries <= allowance`, and one less if the watchdog is enabled. `NoExtraResets` alone is not inductive: an allowance of 0 says nothing about the retry that is about to be taken |
| `WatchdogStaysAlive` | `WatchdogAlive` | `AliveInv`: between adding the alarm and storing its handle the flag is false, and the new alarm is not due |
| `RailsFollowConfirmation` | `RailsOnWhileUp` | `RailsInv`: relates rails, confirmation and latched edges, which decide what the next edge handler does |
| `PicoFraming` | `PicoInStep` | `LineInv`: the bytes on the line have consecutive places, starting at `rx_idx` |
| `HostFraming` | `HostInStep` | `HostInv`: the same for the kernel's buffer followed by what the Pico has still to write, and `Len(resp)`; it needs `LineInv` for the requests the Pico answers |
| `LinkTypeCorrect` | `SerialLink`'s types | `HostInv` for the bytes and their places, and the callers' states, which framing does not depend on, one part at a time |
| `AnswersAreOwn` | `OwnAnswer` | `RequestInv`: one request at a time is followed from the line through the Pico and back to its queue. While requests do not overlap, either nothing but shutdown packets is anywhere, or the last request is at one of four stages: `OnLine`, `Taken` by the Pico, `Answering` (at most one answer on its way, whole unless its front is gone), `Answered`. Needs `HostInv` for the case that nothing was lost, and that "free" is no thread |
| `QueueTypeCorrect`, `NoWakeupIsLost`, `CheckedPacketsFindRoom` | the queue's invariants | counting the threads on their way to the queue, and those between check and push |
| `OneProducerFindsRoom` | with one producer no packet is dropped after the check | from `CheckedPacketsFindRoom` |
| `QueueIsAMailbox` | `ConcurrentQueue` implements `TimedMailbox` | each step maps to a step of the mailbox or to none; a caller that is notified or awake is one that waits |
| `LifecycleTypeCorrect` | `PicodLifecycle`'s types and that the pool never runs more jobs than it has workers | cardinality of the running connections |
| `PortIsOpen` | `UsesOpenPort` | `PortInv`: the event implies a reader in its loop, or the quit event; all others start after the event. `ConnInv`: only a server that was started has connections |
| `AllJoined` | `NothingOutlivesMain` | `WebInv` and `ConnInv`: main is past a join only when that thread has ended, and the server ends with no connection left |
| `ContractKept` | `KeepsContract`: `PicoControl` implements `PowerContract` | each step maps to one of the contract or to none. `PressWaits`: the main loop is in the hard reset only while the request stands; `Budget` again for the watchdog |
| `OneCloses` | `ClosedOnce` | the handlers that have found the socket open are counted |
| `HeartbeatTypeCorrect` | `Heartbeat`'s types | by action |
| `SilenceNoticed` | `SilenceIsNoticed` | `Alarmed`: while the alarm counts down, silence and what is left of the alarm stay below timeout and period |
| `WorkingIsNotReset` | `OnlyTheSilentAreReset` | `Heard`: in each phase the silence so far and what is left of the phase stay within the phases passed, which is `LongestSilence` there. Rests on no relation between timeouts and durations |
| `PicodTypeCorrect` | `Picod`'s types, that the event's mutex belongs to the thread or handler between lock and unlock, and that main ends after the reader | `EventInv`: a handler holds the mutex only on top of a thread that does not, since the handler that meets its own thread stays outside |
| `ReadingsTrue` | `ReadingIsTheZones` | all threads store the same address and the same pointer, so it does not matter whose is last |
| `StreamTypeCorrect` | `SensorStream`'s types | an event that is to be sent has been counted |
| `ChartsTypeCorrect` | `SensorCharts`' types | `ChartInv` for the lengths, the queue and the threads that wait |
| `SettingsTypeCorrect` | `PicoSettings`'s types | `PicoInv`, `AskInv`, `AnswerInv`: what `Sanitized`, `Narrow`, `Capped` and `Clamped` leave, of users' requests and of the file, in either order |
| `FansFollow` | `FansAsAsked` | `PicoInv`: a fan has `Carried` of what was asked. `ByteExact`: `Packed`, with its two roundings to 24 bits, loses one of 53 and of 59 and nothing of the other percentages; what it has left crosses the link unchanged again (`CarriedAgain`) |
| `WatchdogLeavesASecond` | `ArmedTimeout` | `PicoInv` and `WatchdogOrders`: no request sets a timeout of zero |
| `VersionWithoutGaps` | `VersionRun` | `VersionInv`: at most one piece is on its way, it continues `picoVersion`, and main asks again only when none is and the Pico stands where `picoVersion` ends |
| `ReportsAreTrue` | `ReportsTrue` | `ReportInv`: of a kind in which no requests met, everything on its way answers the one request that is waited for |
| `ChartsStayTrue` | `ChartsTrue` (of `ChartsSpec`) | `ChartInv`. `Backlog`: every request, answer and queue entry has somebody who waits for it or was given up. So an answer at place p was asked at most so many polls ago (`Placed`), and its age can only be paid for by giving up; `Ordered`: charts, queue and line are in the order in which the Pico measured; `Aligned`: all histories have one length. `CodecExact`: packing and unpacking keep the hundredths of every temperature up to 327 degrees |
| `LatestIsWritten` | `WritesLatest` | `EventInv`: numbers of events only grow, and who has the mutex writes |
| `PauseIsObeyed` | `PauseHolds` | `PauseInv`: during a pause a stream that writes has not yet written since the pause |
| `ByteExact` | `Packed` for every percentage: one less for 53 and for 59, the percentage itself for all others | both roundings to 24 bits, by the exponent of the fraction |
| `AnswersAreTrue` | `AnswersTrue` | one lemma per kind (`TemperatureHeard`, `FanHeard`, `WatchdogHeard`, `VersionHeard`): every byte the host reads is one that this answer has written, so the buffer before it does not matter; `Carries` follows words through the bytes, `FlagsHeard` bits through the flags, and the text ends at its own zero or at the packet's end. `Answering`: a write leaves settings that fit 16 bits, and the place in the version lies in it |
| `StartUpRestores` | `RestartRestores` | `Pieces`: what waits in `rx` is the beginning of one request and after it 70s and zeros, the first of them a 70, since only the version is asked for while anything waits. So a packet made of pieces that claims to write the watchdog has either its own timeout, or a 70 among the timeout's bytes, or a 70 for its flags and no write at all (`PiecesArm`); what follows it is zeros and is dropped (`ReceiveMore`). `PackedIsPercent` for the fans: the Pico has nothing to cut |

What the argument for `Packets` needs of `Packed`, that it is at most 100, is proved there once
more: `Packets` and `PicoSettings` have too many names in common for one module to extend both.

Only model-checked: all liveness properties (fairness and ENABLED are beyond the
provers) and the violation. Every safety property of every passing run is a theorem.

## Not modelled

Most lines of the repository are not this project's own: of about 68 000, some 60 000 are
vendored (`json.hpp`, `httplib.h`, `fmt`, `cxxopts.hpp`, `NLTemplate`, and the JavaScript
libraries of the page). Of these only the parts of httplib on which picod's end depends and
the one-byte transfers of `i2c.c` are modelled; the rest are libraries as good or bad
as elsewhere. Of the roughly 5 800 lines of firmware and daemon, the models cover about
two fifths; what is left is mostly declarations, comments, printing, parsing of options and JSON,
and set-up of peripherals.

Left out in particular: floating point apart from `Packed` (thermistors, PWM levels),
formatting and parsing, charts and layout of the website, the text of the points for
InfluxDB, `pico-cli` (a client of the HTTP routes that asks once and prints the answer), and
`ping`, which picod never sends. The page in the browser keeps no state that the Pico or
picod rely on; its posts are requests of `PicoSettings`. libubox and libubus are not in the repository; `UbusServer`
models what `ubus_server.cpp` counts on. In `PicodLifecycle` the
requests to the Pico are "answered or not"; `SerialLink` says which. In `SerialLink`
the power-off itself and in `PicoControl` the bytes are left to the other module. The bytes
of `Packets` cross no link, and the values of `SerialLink`'s payloads are one.

## Plan

Done, in this order: `PicoControl`, `SerialLink`, `ConcurrentQueue`, `PicodLifecycle`,
`PicoSettings`, `SensorCharts` and `SensorStream`, and for each the invariants that matter most proved; then
`PowerContract` and its refinement, `Heartbeat` (the composition of picod with the Pico's
watchdog), `Packets` with the requests that resets cut, and `Picod`. Left:

* A composition of `PicoControl` with the bytes of `Packets`, so that the watchdog's own
  reset and the packet it cuts are one behaviour: with both modules' detail it is beyond
  TLC today. Each module has the other's part as a choice (`Cut`, `Restart`, `Receive`).
