------------------------------ MODULE PicoControl ------------------------------
(***************************************************************************)
(* The part of the RP2040 ("Pico") firmware that decides whether the CM4   *)
(* host runs: the main loop, the watchdog, the shutdown button, the RST    *)
(* edge handler and the power rails (src/pico/cm4-wrt-a.c,                 *)
(* pico_pkt_watchdog.c, pico_pkt_shutdown.c).                              *)
(*                                                                         *)
(* One core runs the main loop.  The alarm, GPIO and UART interrupts share *)
(* one priority: an interrupt runs to its end and preempts the main loop   *)
(* between any two of its steps, so an ISR is one action and the main loop *)
(* is cut wherever it touches state that an ISR touches too.               *)
(*                                                                         *)
(* Time advances in alarm periods (100 ms).  The unit of the thresholds    *)
(* and timeouts is scaled down; only their order matters.                  *)
(***************************************************************************)
EXTENDS Integers, FiniteSets

CONSTANTS
    WatchdogRequests, \* bodies of the watchdog requests the host may send
    OtherMagics,      \* the other first bytes that may arrive
    ButtonFitted,     \* is a button wired to the jumper J16
    GracefulMin,      \* GRACEFUL_SHUTDOWN_MIN_THRESH_uSEC, in ticks
    HardMin,          \* HARD_RESET_MIN_THRESH_uSEC, in ticks
    DefaultTimeout,   \* cm4_watchdog_timeout_sec at power on, in ticks
    BlinkTicks,       \* how long blink_led holds the main loop
    Alarms,           \* the slots of the SDK's alarm pool
    NoAlarm,          \* a timer that holds no slot
    MaxQuiet,         \* bound: silence is counted up to this many ticks
    MaxMoves          \* bound: edges of the button, bounces included, in a tick

Body == [write : BOOLEAN, enable : BOOLEAN, retries : Nat, timeout : Nat]

ASSUME ConstantsAssumption ==
    /\ WatchdogRequests \subseteq Body
    /\ OtherMagics \subseteq {"shutdown", "status", "unknown"}
    /\ ButtonFitted \in BOOLEAN
    /\ GracefulMin \in Nat \ {0}
    /\ HardMin \in Nat
    /\ GracefulMin < HardMin
    /\ DefaultTimeout \in Nat
    /\ BlinkTicks \in Nat \ {0}
    /\ NoAlarm \notin Alarms
    /\ MaxQuiet \in Nat /\ MaxMoves \in Nat
    /\ DefaultTimeout <= MaxQuiet
    /\ \A b \in WatchdogRequests : b.timeout <= MaxQuiet

VARIABLES
    \* the main loop
    pc,          \* where it is
    looped,      \* it has passed its top since the last tick
    blinkLeft,   \* ticks blink_led still takes
    \* struct pkt_buf pkt
    req,         \* the packet in pkt.req
    ready,       \* pkt.ready
    \* the watchdog
    quiet,       \* ticks since lastHostMessageTime, up to MaxQuiet
    cm4_watchdog_timeout_sec,
    is_cm4_watchdog_enabled,
    max_retries,
    s,           \* the watchdog request being processed
    alarms,      \* slots of the alarm pool that hold the watchdog's callback
    handle,      \* cm4_watchdog_timer.alarm_id
    due,         \* alarms whose interrupt is pending
    \* requests from an ISR to the main loop
    is_host_shutdown_request_pending,
    is_host_hard_reset_request_pending,
    \* power
    is_cm4_graceful_shutdown,
    rails,       \* LED_PWR, PCIE_SWITCH_PWR_EN and M2_PWR_EN, always set alike
    \* the CM4 and its nEXTRST line
    cm4,
    rstIrq,      \* latched edges of CM4_RST_GPIO
    \* the button
    button,
    moves,       \* edges of the button since the last tick
    btnIrq,      \* latched edges of SHUTDOWN_REQUEST_GPIO
    held,        \* ticks since buttonDownTime, up to HardMin
    is_CM4_in_USB_Boot_mode,
    \* history, read by no action of the firmware
    allowance,   \* watchdog resets the host's latest settings still allow
    stale        \* RUN was pulsed, or the CM4 rebooted, on an old confirmation

loopVars  == <<pc, looped, blinkLeft>>
pktVars   == <<req, ready>>
confVars  == <<cm4_watchdog_timeout_sec, max_retries, s>>
armVars   == <<is_cm4_watchdog_enabled, alarms, handle>>
flagVars  == <<is_host_shutdown_request_pending, is_host_hard_reset_request_pending>>
powerVars == <<is_cm4_graceful_shutdown, rails, stale>>
btnVars   == <<button, moves, held>>
irqVars   == <<due, rstIrq, btnIrq>>

vars == <<loopVars, pktVars, quiet, confVars, armVars, flagVars, powerVars,
          cm4, btnVars, irqVars, is_CM4_in_USB_Boot_mode, allowance>>

Labels == {"top", "send", "sent", "rails", "pulse", "pulsed", "poll", "dispatch",
           "retries", "timeout", "switch", "add", "arm", "cancel", "reply", "blink"}
Edges  == {"FALL", "RISE"}
Zero   == [write |-> FALSE, enable |-> FALSE, retries |-> 0, timeout |-> 0]
Packet == [magic : {"none", "watchdog"} \cup OtherMagics,
           body : WatchdogRequests \cup {Zero}]

Up == cm4 \in {"linux", "picod"}             \* the level of CM4_RST_GPIO
IrqPending == due # {} \/ rstIrq # {} \/ btnIrq # {}

LoopType == pc \in Labels /\ looped \in BOOLEAN /\ blinkLeft \in 0 .. BlinkTicks
PktType == req \in Packet /\ ready \in BOOLEAN
ConfType ==
    /\ cm4_watchdog_timeout_sec \in 0 .. MaxQuiet
    /\ max_retries \in Nat
    /\ s \in WatchdogRequests \cup {Zero}
ArmType ==
    /\ is_cm4_watchdog_enabled \in BOOLEAN
    /\ alarms \subseteq Alarms
    /\ handle \in Alarms \cup {NoAlarm}
    /\ due \subseteq alarms
FlagType ==
    /\ is_host_shutdown_request_pending \in BOOLEAN
    /\ is_host_hard_reset_request_pending \in BOOLEAN
PowerType == is_cm4_graceful_shutdown \in BOOLEAN /\ rails \in BOOLEAN /\ stale \in BOOLEAN
Cm4Type == cm4 \in {"off", "reset", "linux", "picod"}
ButtonType == button \in {"up", "down"} /\ moves \in 0 .. MaxMoves /\ held \in 0 .. HardMin
EdgeType ==
    rstIrq \subseteq Edges /\ btnIrq \subseteq Edges /\ is_CM4_in_USB_Boot_mode \in BOOLEAN

TypeOK ==
    /\ LoopType /\ PktType /\ ConfType /\ ArmType /\ FlagType /\ PowerType /\ Cm4Type
    /\ ButtonType /\ EdgeType
    /\ quiet \in 0 .. MaxQuiet /\ allowance \in Int

(***************************************************************************)
(* Power on: init_board has turned the rails and CM4_EN on and, unless the *)
(* USB boot jumper is set, has enabled the RST and button interrupts.      *)
(***************************************************************************)
Init ==
    /\ pc = "top" /\ looped = FALSE /\ blinkLeft = 0
    /\ req = [magic |-> "none", body |-> Zero] /\ ready = FALSE
    /\ quiet = 0
    /\ cm4_watchdog_timeout_sec = DefaultTimeout
    /\ max_retries = 0 /\ s = Zero
    /\ is_cm4_watchdog_enabled = FALSE /\ alarms = {} /\ handle = NoAlarm
    /\ is_host_shutdown_request_pending = FALSE
    /\ is_host_hard_reset_request_pending = FALSE
    /\ is_cm4_graceful_shutdown = FALSE /\ rails = TRUE /\ stale = FALSE
    /\ cm4 = "reset"
    /\ button = "up" /\ moves = 0 /\ held = 0
    /\ due = {} /\ rstIrq = {} /\ btnIrq = {}
    /\ is_CM4_in_USB_Boot_mode \in BOOLEAN
    /\ allowance = 0

-----------------------------------------------------------------------------
(* reset_the_cm4 *)

\* RUN_PG is driven low and high again: a CM4 that is up falls into reset, one
\* that is off is started.  The CM4's side of it is external.
PulseRun ==
    /\ cm4' = "reset"
    /\ rstIrq' = IF Up /\ ~is_CM4_in_USB_Boot_mode THEN rstIrq \cup {"FALL"} ELSE rstIrq

\* Does the pulse meet a confirmation that a falling edge will obey?
StalePulse == is_cm4_graceful_shutdown /\ (Up \/ "FALL" \in rstIrq)

\* Slip: reset_the_cm4 only pulses RUN.
RailsUntouched == UNCHANGED rails

RailsOn == rails' = TRUE

\* The whole of reset_the_cm4 as an ISR runs it.
ResetInIsr ==
    /\ RailsOn
    /\ PulseRun
    /\ stale' = StalePulse
    /\ UNCHANGED is_cm4_graceful_shutdown

-----------------------------------------------------------------------------
(* The main loop *)

Goto(from, to) == pc = from /\ ~IrqPending /\ pc' = to /\ UNCHANGED blinkLeft

\* The if / else if at the top of the loop.
Top ==
    /\ \/ is_host_shutdown_request_pending /\ Goto("top", "send")
       \/ /\ ~is_host_shutdown_request_pending
          /\ is_host_hard_reset_request_pending
          /\ Goto("top", "rails")
       \/ /\ ~is_host_shutdown_request_pending
          /\ ~is_host_hard_reset_request_pending
          /\ Goto("top", "poll")
    /\ looped' = TRUE
    /\ UNCHANGED <<pktVars, quiet, confVars, armVars, flagVars, powerVars, cm4,
                   btnVars, irqVars, is_CM4_in_USB_Boot_mode, allowance>>

\* send_shutdown_request: what picod makes of it, if it gets it, is HostConfirms.
SendShutdownRequest ==
    /\ Goto("send", "sent")
    /\ UNCHANGED <<looped, pktVars, quiet, confVars, armVars, flagVars, powerVars,
                   cm4, btnVars, irqVars, is_CM4_in_USB_Boot_mode, allowance>>

\* Slip: the flag is left to its setter.
LeaveShutdownRequest ==
    /\ Goto("sent", "poll")
    /\ UNCHANGED <<looped, pktVars, quiet, confVars, armVars, flagVars, powerVars, cm4,
                   btnVars, irqVars, is_CM4_in_USB_Boot_mode, allowance>>

ClearShutdownRequest ==
    /\ Goto("sent", "poll")
    /\ is_host_shutdown_request_pending' = FALSE
    /\ UNCHANGED <<looped, pktVars, quiet, confVars, armVars, powerVars, cm4, btnVars,
                   irqVars, is_host_hard_reset_request_pending,
                   is_CM4_in_USB_Boot_mode, allowance>>

\* reset_the_cm4 called from the loop: an ISR may run between its two halves.
HardResetRails ==
    /\ Goto("rails", "pulse")
    /\ RailsOn
    /\ UNCHANGED <<looped, pktVars, quiet, confVars, armVars, flagVars, cm4, btnVars,
                   irqVars, is_cm4_graceful_shutdown, stale,
                   is_CM4_in_USB_Boot_mode, allowance>>

HardResetPulse ==
    /\ Goto("pulse", "pulsed")
    /\ PulseRun
    /\ UNCHANGED rails
    /\ stale' = (StalePulse \/ (~rails /\ (is_cm4_graceful_shutdown \/ stale)))
    /\ UNCHANGED <<looped, pktVars, quiet, confVars, armVars, flagVars, btnVars, due,
                   btnIrq, is_cm4_graceful_shutdown, is_CM4_in_USB_Boot_mode, allowance>>

\* Slip: the flag of the other branch is cleared.
ClearOtherFlag ==
    /\ Goto("pulsed", "poll")
    /\ is_host_shutdown_request_pending' = FALSE
    /\ UNCHANGED <<looped, pktVars, quiet, confVars, armVars, powerVars, cm4, btnVars,
                   irqVars, is_host_hard_reset_request_pending,
                   is_CM4_in_USB_Boot_mode, allowance>>

\* Slip: a reset is taken to answer both requests.
ClearBothFlags ==
    /\ Goto("pulsed", "poll")
    /\ is_host_shutdown_request_pending' = FALSE
    /\ is_host_hard_reset_request_pending' = FALSE
    /\ UNCHANGED <<looped, pktVars, quiet, confVars, armVars, powerVars, cm4, btnVars,
                   irqVars, is_CM4_in_USB_Boot_mode, allowance>>

ClearHardReset ==
    /\ Goto("pulsed", "poll")
    /\ is_host_hard_reset_request_pending' = FALSE
    /\ UNCHANGED <<looped, pktVars, quiet, confVars, armVars, powerVars, cm4, btnVars,
                   irqVars, is_host_shutdown_request_pending,
                   is_CM4_in_USB_Boot_mode, allowance>>

\* have_request = (pkt.ready == true), then pkt.ready = false.
Poll ==
    /\ \/ ready /\ Goto("poll", "dispatch")
       \/ ~ready /\ Goto("poll", "top")
    /\ ready' = FALSE
    /\ UNCHANGED <<looped, req, quiet, confVars, armVars, flagVars, powerVars, cm4,
                   btnVars, irqVars, is_CM4_in_USB_Boot_mode, allowance>>

\* An unknown magic: pkt is wiped, a packet that arrived since Poll with it,
\* and the LED blinks while the loop stands still.
Discard ==
    /\ req.magic \in {"none", "unknown"}
    /\ pc = "dispatch" /\ ~IrqPending /\ pc' = "blink"
    /\ blinkLeft' = BlinkTicks
    /\ req' = [magic |-> "none", body |-> Zero]
    /\ ready' = FALSE
    /\ UNCHANGED <<looped, quiet, confVars, armVars, flagVars, powerVars, cm4,
                   btnVars, irqVars, is_CM4_in_USB_Boot_mode, allowance>>

BlinkEnds ==
    /\ blinkLeft = 0
    /\ Goto("blink", "top")
    /\ UNCHANGED <<looped, pktVars, quiet, confVars, armVars, flagVars, powerVars, cm4,
                   btnVars, irqVars, is_CM4_in_USB_Boot_mode, allowance>>

\* ping, temperature, fan and version requests: an answer and nothing else.
ExecStatus ==
    /\ req.magic = "status"
    /\ Goto("dispatch", "reply")
    /\ UNCHANGED <<looped, pktVars, quiet, confVars, armVars, flagVars, powerVars, cm4,
                   btnVars, irqVars, is_CM4_in_USB_Boot_mode, allowance>>

\* The host confirms that it is about to power off.
PktShutdown ==
    /\ req.magic = "shutdown"
    /\ Goto("dispatch", "top")
    /\ is_cm4_graceful_shutdown' = TRUE
    /\ UNCHANGED <<looped, pktVars, quiet, confVars, armVars, flagVars, cm4, btnVars,
                   irqVars, rails, stale, is_CM4_in_USB_Boot_mode, allowance>>

\* The response goes out with uart_write_blocking.
Reply ==
    /\ Goto("reply", "top")
    /\ UNCHANGED <<looped, pktVars, quiet, confVars, armVars, flagVars, powerVars, cm4,
                   btnVars, irqVars, is_CM4_in_USB_Boot_mode, allowance>>

-----------------------------------------------------------------------------
(* pkt_watchdog *)

WatchdogUnpack ==
    /\ req.magic = "watchdog"
    /\ Goto("dispatch", IF req.body.write THEN "retries" ELSE "reply")
    /\ s' = req.body
    /\ UNCHANGED <<looped, pktVars, quiet, cm4_watchdog_timeout_sec, max_retries, armVars,
                   flagVars, powerVars, cm4, btnVars, irqVars,
                   is_CM4_in_USB_Boot_mode, allowance>>

SetRetries ==
    /\ Goto("retries", "timeout")
    /\ max_retries' = s.retries
    /\ allowance' = s.retries + 1
    /\ UNCHANGED <<looped, pktVars, quiet, cm4_watchdog_timeout_sec, s, armVars, flagVars,
                   powerVars, cm4, btnVars, irqVars, is_CM4_in_USB_Boot_mode>>

SetTimeout ==
    /\ Goto("timeout", "switch")
    /\ cm4_watchdog_timeout_sec' = s.timeout
    /\ UNCHANGED <<looped, pktVars, quiet, max_retries, s, armVars, flagVars, powerVars,
                   cm4, btnVars, irqVars, is_CM4_in_USB_Boot_mode, allowance>>

\* The tests of s.enable and is_cm4_watchdog_enabled; s.write holds here.
TestEnabled ==
    /\ Goto("switch", CASE s.enable /\ ~is_cm4_watchdog_enabled -> "add"
                        [] ~s.enable /\ is_cm4_watchdog_enabled -> "cancel"
                        [] OTHER -> "reply")
    /\ UNCHANGED <<looped, pktVars, quiet, confVars, armVars, flagVars, powerVars, cm4,
                   btnVars, irqVars, is_CM4_in_USB_Boot_mode, allowance>>

\* add_repeating_timer_ms of the SDK fails when the pool has no free slot.
AddTimer ==
    /\ \/ \E a \in Alarms \ alarms :
            /\ alarms' = alarms \cup {a}
            /\ handle' = a
            /\ Goto("add", "arm")
       \/ /\ alarms = Alarms
          /\ handle' = NoAlarm
          /\ Goto("add", "reply")
          /\ UNCHANGED alarms
    /\ UNCHANGED <<looped, pktVars, quiet, confVars, is_cm4_watchdog_enabled, flagVars,
                   powerVars, cm4, btnVars, irqVars, is_CM4_in_USB_Boot_mode,
                   allowance>>

\* Its result is stored in is_cm4_watchdog_enabled.
Arm ==
    /\ Goto("arm", "reply")
    /\ is_cm4_watchdog_enabled' = TRUE
    /\ allowance' = max_retries + 1
    /\ UNCHANGED <<looped, pktVars, quiet, confVars, alarms, handle, flagVars, powerVars,
                   cm4, btnVars, irqVars, is_CM4_in_USB_Boot_mode>>

\* cancel_repeating_timer of the SDK succeeds when alarm_id names a live alarm.
CancelTimer ==
    /\ Goto("cancel", "reply")
    /\ IF handle \in alarms
       THEN alarms' = alarms \ {handle} /\ is_cm4_watchdog_enabled' = FALSE
       ELSE UNCHANGED <<alarms, is_cm4_watchdog_enabled>>
    /\ handle' = NoAlarm
    /\ UNCHANGED <<looped, pktVars, quiet, confVars, flagVars, powerVars, cm4, btnVars,
                   irqVars, is_CM4_in_USB_Boot_mode, allowance>>

-----------------------------------------------------------------------------
(* Interrupts *)

HostSilent == quiet >= cm4_watchdog_timeout_sec

\* The callback on a disabled watchdog returns false: the SDK drops the alarm
\* and clears the alarm_id that all alarms of the one timer struct share.
DropAlarm(a) ==
    /\ ~is_cm4_watchdog_enabled
    /\ alarms' = alarms \ {a}
    /\ handle' = NoAlarm
    /\ UNCHANGED <<is_cm4_watchdog_enabled, max_retries, is_host_shutdown_request_pending,
                   powerVars, cm4, rstIrq, allowance>>

\* Slip: the callback returns is_CM4_alive.
KeepWhileAlive(a) ==
    IF HostSilent THEN alarms' = alarms \ {a} /\ handle' = NoAlarm
                  ELSE UNCHANGED <<alarms, handle>>

\* The callback returns true and the SDK rearms the alarm.
KeepAlarm(a) == UNCHANGED <<alarms, handle>>

\* Slip: max_retries-- wherever it stands.
TakeRetryUnguarded ==
    max_retries' = max_retries - 1 /\ is_cm4_watchdog_enabled' = (max_retries > 0)

\* Slip: the last retry does not disable the watchdog.
TakeRetryForever ==
    /\ max_retries' = IF max_retries > 0 THEN max_retries - 1 ELSE 0
    /\ UNCHANGED is_cm4_watchdog_enabled

TakeRetry ==
    IF max_retries > 0
    THEN max_retries' = max_retries - 1 /\ UNCHANGED is_cm4_watchdog_enabled
    ELSE is_cm4_watchdog_enabled' = FALSE /\ UNCHANGED max_retries

\* The host has been silent for too long: the CM4 is reset.
WatchdogReset(a) ==
    /\ is_cm4_watchdog_enabled
    /\ HostSilent
    /\ ~is_host_shutdown_request_pending
    /\ ResetInIsr
    /\ is_host_shutdown_request_pending' = TRUE
    /\ TakeRetry
    /\ allowance' = allowance - 1
    /\ KeepAlarm(a)

WatchdogWaits(a) ==
    /\ is_cm4_watchdog_enabled
    /\ ~HostSilent \/ is_host_shutdown_request_pending
    /\ KeepAlarm(a)
    /\ UNCHANGED <<is_cm4_watchdog_enabled, max_retries, is_host_shutdown_request_pending,
                   powerVars, cm4, rstIrq, allowance>>

\* cm4_watchdog_timer_callback, once for every alarm that is due.
WatchdogTimerCallback(a) ==
    /\ a \in due
    /\ due' = due \ {a}
    /\ DropAlarm(a) \/ WatchdogReset(a) \/ WatchdogWaits(a)
    /\ UNCHANGED <<loopVars, pktVars, quiet, cm4_watchdog_timeout_sec, s, btnVars, btnIrq,
                   is_host_hard_reset_request_pending, is_CM4_in_USB_Boot_mode>>

\* detect_shutdown_events: both edges latched together count as a press.
ButtonPressed ==
    /\ "FALL" \in btnIrq
    /\ btnIrq' = {}
    /\ held' = 0
    /\ UNCHANGED <<loopVars, pktVars, quiet, confVars, armVars, flagVars, powerVars, cm4,
                   button, moves, due, rstIrq, is_CM4_in_USB_Boot_mode, allowance>>

\* Released while the CM4 is down: start it, however short the press was.
ButtonStartsCm4 ==
    /\ btnIrq = {"RISE"}
    /\ btnIrq' = {}
    /\ ~Up
    /\ ResetInIsr
    /\ UNCHANGED <<loopVars, pktVars, quiet, confVars, armVars, flagVars, btnVars, due,
                   is_CM4_in_USB_Boot_mode, allowance>>

\* Released while it is up: the length of the press decides.
ButtonReleased ==
    /\ btnIrq = {"RISE"}
    /\ btnIrq' = {}
    /\ Up
    /\ is_host_shutdown_request_pending' =
          (is_host_shutdown_request_pending \/ (held >= GracefulMin /\ held < HardMin))
    /\ is_host_hard_reset_request_pending' =
          (is_host_hard_reset_request_pending \/ held >= HardMin)
    /\ UNCHANGED <<loopVars, pktVars, quiet, confVars, armVars, powerVars, cm4, btnVars,
                   due, rstIrq, is_CM4_in_USB_Boot_mode, allowance>>

\* Slip: every falling edge is taken for a power-off.
Cm4FellForGood ==
    /\ "FALL" \in rstIrq
    /\ rstIrq' = {}
    /\ rails' = FALSE
    /\ UNCHANGED <<loopVars, pktVars, quiet, confVars, armVars, flagVars, cm4, btnVars,
                   due, btnIrq, is_cm4_graceful_shutdown, stale,
                   is_CM4_in_USB_Boot_mode, allowance>>

\* handle_cm4_events: a falling edge, alone or with a rising one.
Cm4Fell ==
    /\ "FALL" \in rstIrq
    /\ rstIrq' = {}
    /\ rails' = (rails /\ ~is_cm4_graceful_shutdown)
    /\ UNCHANGED <<loopVars, pktVars, quiet, confVars, armVars, flagVars, cm4, btnVars,
                   due, btnIrq, is_cm4_graceful_shutdown, stale,
                   is_CM4_in_USB_Boot_mode, allowance>>

Cm4Rose ==
    /\ rstIrq = {"RISE"}
    /\ rstIrq' = {}
    /\ is_cm4_graceful_shutdown' = FALSE
    /\ UNCHANGED <<loopVars, pktVars, quiet, confVars, armVars, flagVars, cm4, btnVars,
                   due, btnIrq, rails, stale, is_CM4_in_USB_Boot_mode, allowance>>

\* on_uart_rx takes the last byte of a packet from picod.  It may overwrite one
\* the main loop has not looked at.
Receive(p) ==
    /\ req' = p
    /\ ready' = TRUE
    /\ quiet' = 0
    /\ UNCHANGED <<loopVars, confVars, armVars, flagVars, powerVars, btnVars, irqVars, cm4,
                   is_CM4_in_USB_Boot_mode, allowance>>

-----------------------------------------------------------------------------
(* The world around the Pico: picod, the CM4, the button and the clock *)

\* A request of picod, or bytes that are none.
HostRequests ==
    /\ cm4 = "picod"
    /\ \/ \E b \in WatchdogRequests : Receive([magic |-> "watchdog", body |-> b])
       \/ \E m \in OtherMagics \ {"shutdown"} : Receive([magic |-> m, body |-> Zero])

\* picod confirms a shutdown packet.  Its bytes may also come from pieces of other
\* requests (Packets), or late, so nothing says that a packet was sent for it.
HostConfirms ==
    /\ cm4 = "picod"
    /\ "shutdown" \in OtherMagics
    /\ Receive([magic |-> "shutdown", body |-> Zero])

Latch(edge) == IF is_CM4_in_USB_Boot_mode THEN {} ELSE {edge}

\* The CM4 goes down, for good or to boot again, for a reason of its own.  One
\* that never started picod is in state "picod" too, and silent.
Cm4GoesDown(to) ==
    /\ cm4 = "picod"
    /\ cm4' = to
    /\ rstIrq' = rstIrq \cup Latch("FALL")
    /\ UNCHANGED <<loopVars, pktVars, quiet, confVars, armVars, flagVars, btnVars, due,
                   btnIrq, rails, is_cm4_graceful_shutdown, is_CM4_in_USB_Boot_mode,
                   allowance>>

Cm4PowersOff == Cm4GoesDown("off") /\ UNCHANGED stale

Cm4Reboots ==
    Cm4GoesDown("reset") /\ stale' = (stale \/ is_cm4_graceful_shutdown)

Cm4Boots ==
    /\ cm4 = "reset"
    /\ cm4' = "linux"
    /\ rstIrq' = rstIrq \cup Latch("RISE")
    /\ UNCHANGED <<loopVars, pktVars, quiet, confVars, armVars, flagVars, powerVars, btnVars,
                   due, btnIrq, is_CM4_in_USB_Boot_mode, allowance>>

\* A press and a release may come as close together as contacts bounce.
MoveButton(from, to, edge) ==
    /\ ButtonFitted
    /\ button = from
    /\ button' = to
    /\ moves < MaxMoves
    /\ moves' = moves + 1
    /\ btnIrq' = btnIrq \cup Latch(edge)
    /\ UNCHANGED <<loopVars, pktVars, quiet, confVars, armVars, flagVars, powerVars, cm4,
                   held, due, rstIrq, is_CM4_in_USB_Boot_mode, allowance>>

PressButton   == MoveButton("up", "down", "FALL")
ReleaseButton == MoveButton("down", "up", "RISE")

CapAt(bound, n) == IF n < bound THEN n ELSE bound

(***************************************************************************)
(* One alarm period passes.  Interrupts are handled, and the main loop     *)
(* comes round at least once, in far less than that, unless blink_led      *)
(* holds it.  An alarm added this instant is not due yet.  Linux needs     *)
(* longer than a period to start picod.                                    *)
(***************************************************************************)
Tick ==
    /\ ~IrqPending
    /\ looped \/ blinkLeft > 0
    /\ looped' = FALSE
    /\ blinkLeft' = IF blinkLeft > 0 THEN blinkLeft - 1 ELSE 0
    /\ quiet' = CapAt(MaxQuiet, quiet + 1)
    /\ held' = CapAt(HardMin, held + 1)
    /\ moves' = 0
    /\ due' = IF pc = "arm" THEN alarms \ {handle} ELSE alarms
    /\ cm4' \in IF cm4 = "linux" THEN {"linux", "picod"} ELSE {cm4}
    /\ UNCHANGED <<pc, pktVars, confVars, armVars, flagVars, powerVars, button,
                   rstIrq, btnIrq, is_CM4_in_USB_Boot_mode, allowance>>

-----------------------------------------------------------------------------
MainLoop ==
    \/ Top \/ SendShutdownRequest \/ ClearShutdownRequest
    \/ HardResetRails \/ HardResetPulse \/ ClearHardReset
    \/ Poll \/ Discard \/ BlinkEnds \/ ExecStatus \/ PktShutdown \/ Reply
    \/ WatchdogUnpack \/ SetRetries \/ SetTimeout \/ TestEnabled
    \/ AddTimer \/ Arm \/ CancelTimer

AlarmIsr == \E a \in Alarms : WatchdogTimerCallback(a)

GpioIsr == ButtonPressed \/ ButtonStartsCm4 \/ ButtonReleased \/ Cm4Fell \/ Cm4Rose

Environment ==
    \/ HostRequests \/ HostConfirms
    \/ Cm4PowersOff \/ Cm4Reboots \/ Cm4Boots
    \/ PressButton \/ ReleaseButton

Next == MainLoop \/ AlarmIsr \/ GpioIsr \/ Environment \/ Tick

Spec == Init /\ [][Next]_vars

\* The processor keeps executing and time keeps passing.  Nothing is assumed of
\* picod, of the CM4 or of whoever presses the button.
FairSpec ==
    /\ Spec
    /\ WF_vars(MainLoop)
    /\ WF_vars(AlarmIsr)
    /\ WF_vars(GpioIsr)
    /\ WF_vars(Tick)

-----------------------------------------------------------------------------
(* What the firmware owes the CM4 *)

\* After the host's latest watchdog settings took effect, the CM4 is reset by
\* the watchdog at most max_retries + 1 times, whatever the alarm's interrupt
\* finds half done in pkt_watchdog.
NoExtraResets == allowance >= 0

\* An enabled watchdog has an alarm that will look at it: the flag is never true
\* while every callback has returned false or was cancelled.
WatchdogAlive == is_cm4_watchdog_enabled => alarms # {}

\* A CM4 that is up or starting has its rails, unless RUN was pulsed or it
\* rebooted while an earlier confirmation still stood: only the next rising edge
\* withdraws is_cm4_graceful_shutdown of pico_pkt_shutdown.c.
RailsOnWhileUp == cm4 # "off" /\ ~rails => stale

\* If the host stays silent for good the watchdog runs out of retries: each
\* reset waits for the main loop to take the previous one's flag back.
SilentHostGivesUp == <>[]HostSilent => <>[]~is_cm4_watchdog_enabled

\* A long press is served: the shutdown flag, tested first at the top of the
\* loop and raised again by every watchdog reset, does not starve it.  That is so
\* while the LED does not blink: blink_led holds the loop for long enough to press
\* the button again.
HardResetServed ==
    is_host_hard_reset_request_pending ~> ~is_host_hard_reset_request_pending

\* Seen from outside: somebody has let go of the button, and the main loop or the
\* interrupt has not dealt with it.
ButtonWaits == "RISE" \in btnIrq \/ is_host_hard_reset_request_pending

Contract == INSTANCE PowerContract WITH
    cm4 <- IF Up THEN "up" ELSE cm4,
    rails <- rails,
    agreed <- is_cm4_graceful_shutdown,
    wanted <- ButtonWaits,
    budget <- allowance

\* All the firmware does to the CM4's power, from every interleaving of the main loop
\* with its interrupts, is what PowerContract allows: no cut without the CM4's word,
\* no pulse of RUN but for a silent host within its budget or for the button.
KeepsContract == Contract!Spec
================================================================================
