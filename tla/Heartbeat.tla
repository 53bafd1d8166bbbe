------------------------------- MODULE Heartbeat -------------------------------
(***************************************************************************)
(* Does the watchdog tell a picod that works from one that does not?       *)
(*                                                                         *)
(* picod sends no heartbeats: the temperature requests of its monitor keep *)
(* the Pico quiet, and between two of them lie the answer's wait, output   *)
(* to InfluxDB from the same thread, the poll interval and, if picod ends  *)
(* or crashes, its restart by systemd.  This module composes, in time, the *)
(* monitor (WebServer.cpp, main.cpp, picod.service) with the watchdog      *)
(* (pico_pkt_watchdog.c).                                                  *)
(*                                                                         *)
(* The unit of time is arbitrary.  A duration of picod is the longest its  *)
(* phase may last, and the phase may end earlier; that of the alarm and of *)
(* the CM4's boot are exact.  The link loses nothing and nobody touches    *)
(* the button: SerialLink and PicoControl are about that.                  *)
(***************************************************************************)
EXTENDS Integers

CONSTANTS
    Period,    \* of the watchdog's alarm, 100 ms
    Wire,      \* from send_pico_request to the last byte at the Pico
    Answer,    \* get_pico_response, 1 s
    Publish,   \* what the monitor does with an answer, InfluxDB included
    Interval,  \* temperature_poll_interval_seconds
    Leave,     \* from the quit event to the end of picod
    Restart,   \* RestartSec of picod.service
    Start,     \* from exec to the first request; is_init_done may take 3 s of it
    Boot,      \* from a pulse on RUN to the exec of picod
    Timeouts,  \* values of pico_watchdog_timeout_seconds
    Retries,   \* values of pico_watchdog_max_retries
    MaxQuiet   \* bound: silence is counted up to this

ASSUME DurationAssumption ==
    /\ \A d \in {Period, Wire, Answer, Publish, Interval, Leave, Restart, Start, Boot} : d \in Nat
    /\ Timeouts \subseteq Nat \ {0} /\ Retries \subseteq Nat
    /\ Timeouts # {} /\ Retries # {}
    /\ 0 < Period /\ Period < Boot
    /\ MaxQuiet \in Nat /\ \A t \in Timeouts : t + Period <= MaxQuiet

VARIABLES
    phase,    \* what the CM4 and picod's main thread are doing
    asked,    \* the request they are at
    left,     \* the time after which the phase is over
    service,  \* "on" until systemd is told to stop picod
    quiet,    \* time since lastHostMessageTime
    alarm,    \* time to the next callback
    is_cm4_watchdog_enabled,
    cm4_watchdog_timeout_sec,
    max_retries

picod == <<phase, asked, left, service>>
settings == <<is_cm4_watchdog_enabled, cm4_watchdog_timeout_sec, max_retries>>
vars == <<picod, quiet, alarm, settings>>

Requests == {"version", "fan", "watchdog", "temperature"}

BeatTypeOK ==
    /\ phase \in {"boot", "start", "send", "answer", "publish", "wait", "leave", "down", "stopped"}
    /\ asked \in Requests
    /\ left \in Nat /\ quiet \in Nat /\ alarm \in Nat
    /\ service \in {"on", "off"}
    /\ is_cm4_watchdog_enabled \in BOOLEAN
    /\ cm4_watchdog_timeout_sec \in Timeouts /\ max_retries \in Nat

BeatInit ==
    /\ phase = "boot" /\ left = Boot /\ asked = "version" /\ service = "on"
    /\ quiet = 0 /\ alarm = Period
    /\ is_cm4_watchdog_enabled = FALSE
    /\ cm4_watchdog_timeout_sec \in Timeouts /\ max_retries \in Retries

-----------------------------------------------------------------------------
(* picod *)

Enter(p, most) == phase' = p /\ left' = most

Send(request) == Enter("send", Wire) /\ asked' = request

Booted ==
    /\ phase = "boot" /\ left = 0
    /\ Enter("start", Start)
    /\ UNCHANGED <<asked, service, quiet, alarm, settings>>

FirstRequest ==
    /\ phase = "start"
    /\ Send("version")
    /\ UNCHANGED <<service, quiet, alarm, settings>>

\* pkt_watchdog of the Pico: the timer starts if it did not run.
Configure ==
    /\ is_cm4_watchdog_enabled' \in BOOLEAN
    /\ cm4_watchdog_timeout_sec' \in Timeouts /\ max_retries' \in Retries
    /\ alarm' = IF is_cm4_watchdog_enabled THEN alarm ELSE Period

\* Slip: only packets about the watchdog count as a sign of life.
OnlyWatchdogCounts ==
    /\ phase = "send"
    /\ quiet' = IF asked = "watchdog" THEN 0 ELSE quiet
    /\ Enter("answer", Answer)
    /\ IF asked = "watchdog" THEN Configure ELSE UNCHANGED <<alarm, settings>>
    /\ UNCHANGED <<asked, service>>

\* The last byte is there: on_uart_rx calls update_watchdog, whatever the packet.
Arrives ==
    /\ phase = "send"
    /\ quiet' = 0
    /\ Enter("answer", Answer)
    /\ IF asked = "watchdog" THEN Configure ELSE UNCHANGED <<alarm, settings>>
    /\ UNCHANGED <<asked, service>>

\* init_pico: get_pico_version, init_fan_pwm, init_watchdog, answered or not.
NextOfInit ==
    /\ phase = "answer"
    /\ \/ asked = "version" /\ Send("fan")
       \/ asked = "fan" /\ Send("watchdog")
       \/ asked = "watchdog" /\ Enter("wait", Interval) /\ UNCHANGED asked
    /\ UNCHANGED <<service, quiet, alarm, settings>>

Wakes ==
    /\ phase = "wait"
    /\ Send("temperature")
    /\ UNCHANGED <<service, quiet, alarm, settings>>

\* Without an answer the monitor goes back to its wait.
AnswerEnds ==
    /\ phase = "answer" /\ asked = "temperature"
    /\ Enter("publish", Publish) \/ Enter("wait", Interval)
    /\ UNCHANGED <<asked, service, quiet, alarm, settings>>

Published ==
    /\ phase = "publish"
    /\ Enter("wait", Interval)
    /\ UNCHANGED <<asked, service, quiet, alarm, settings>>

\* Post returned no response, and publish() looks at its body.
PublishCrashes ==
    /\ phase = "publish"
    /\ Enter("down", Restart)
    /\ UNCHANGED <<asked, service, quiet, alarm, settings>>

\* The quit event is seen: a signal, /quit/now or, for good, systemctl stop.
Quits ==
    /\ phase = "wait"
    /\ Enter("leave", Leave)
    /\ service' \in {"on", "off"}
    /\ UNCHANGED <<asked, quiet, alarm, settings>>

\* picod leaves the watchdog as it is.
Ends ==
    /\ phase = "leave"
    /\ IF service = "on" THEN Enter("down", Restart) ELSE Enter("stopped", 0)
    /\ UNCHANGED <<asked, service, quiet, alarm, settings>>

Restarts ==
    /\ phase = "down"
    /\ Enter("start", Start)
    /\ UNCHANGED <<asked, service, quiet, alarm, settings>>

\* The web server's workers make requests of their own while the monitor runs.
PageAsks ==
    /\ asked = "temperature" /\ phase \in {"send", "answer", "publish", "wait"}
    /\ quiet' = 0
    /\ Configure \/ UNCHANGED <<alarm, settings>>
    /\ UNCHANGED picod

-----------------------------------------------------------------------------
(* The Pico's alarm and time *)

\* Slip: the comparison lets the timeout itself pass.
CallbackLate ==
    /\ is_cm4_watchdog_enabled /\ alarm = 0
    /\ quiet <= cm4_watchdog_timeout_sec
    /\ alarm' = Period
    /\ UNCHANGED <<picod, quiet, settings>>

Callback ==
    /\ is_cm4_watchdog_enabled /\ alarm = 0
    /\ quiet < cm4_watchdog_timeout_sec
    /\ alarm' = Period
    /\ UNCHANGED <<picod, quiet, settings>>

\* Slip: a reset without a retry left does not disable the watchdog.
ResetForEver ==
    /\ is_cm4_watchdog_enabled /\ alarm = 0
    /\ quiet >= cm4_watchdog_timeout_sec
    /\ alarm' = Period
    /\ max_retries' = IF max_retries > 0 THEN max_retries - 1 ELSE 0
    /\ Enter("boot", Boot)
    /\ service' = "on"
    /\ UNCHANGED <<asked, quiet, is_cm4_watchdog_enabled, cm4_watchdog_timeout_sec>>

\* The CM4 starts over, and systemd starts picod again, as often as there are retries.
CallbackResets ==
    /\ is_cm4_watchdog_enabled /\ alarm = 0
    /\ quiet >= cm4_watchdog_timeout_sec
    /\ alarm' = Period
    /\ IF max_retries > 0
       THEN max_retries' = max_retries - 1 /\ UNCHANGED is_cm4_watchdog_enabled
       ELSE is_cm4_watchdog_enabled' = FALSE /\ UNCHANGED max_retries
    /\ Enter("boot", Boot)
    /\ service' = "on"
    /\ UNCHANGED <<asked, quiet, cm4_watchdog_timeout_sec>>

\* Nothing is late: time stands while a phase or the alarm is over.
Tick ==
    /\ phase = "stopped" \/ left > 0
    /\ is_cm4_watchdog_enabled => alarm > 0
    /\ left' = IF left > 0 THEN left - 1 ELSE 0
    /\ alarm' = IF alarm > 0 THEN alarm - 1 ELSE 0
    /\ quiet' = IF quiet < MaxQuiet THEN quiet + 1 ELSE quiet
    /\ UNCHANGED <<phase, asked, service, settings>>

-----------------------------------------------------------------------------
Picod ==
    \/ Booted \/ FirstRequest \/ Arrives \/ NextOfInit \/ Wakes \/ AnswerEnds
    \/ Published \/ PublishCrashes \/ Quits \/ Ends \/ Restarts

Alarm == Callback \/ CallbackResets

BeatNext == Picod \/ PageAsks \/ Alarm \/ Tick

BeatSpec == BeatInit /\ [][BeatNext]_vars

\* Time passes, what is over ends, and the alarm's interrupt is taken.
FairBeatSpec == BeatSpec /\ WF_vars(Tick) /\ WF_vars(Picod) /\ WF_vars(Alarm)

-----------------------------------------------------------------------------
\* The silence of a monitor that goes its round, and of a picod that ends and is
\* started again, until its first request is sent.
Round == Answer + Publish + Interval
Absence == Round + Leave + Restart + Start

\* The longest silence there can have been when picod's phase is over.
LongestSilence ==
    CASE phase = "answer"  -> Answer
      [] phase = "publish" -> Answer + Publish
      [] phase = "wait"    -> Round
      [] phase = "leave"   -> Round + Leave
      [] phase = "down"    -> Round + Leave + Restart
      [] phase = "start"   -> Absence
      [] phase = "send"    -> Wire + (IF asked = "temperature" THEN Round
                                      ELSE IF asked = "version" THEN Absence ELSE Answer)

\* With any timeout, the watchdog resets a CM4 that is booting, one whose picod has
\* been stopped for good, or one whose timeout is not above LongestSilence: the time
\* picod may be silent where it is.  So a timeout above Round + Wire spares a monitor
\* that works, however slow its database, and one above Absence + Wire a picod that
\* crashes or is restarted as well, whatever settings change meanwhile.
OnlyTheSilentAreReset ==
    [][phase' = "boot" => \/ phase \in {"stopped", "boot"}
                          \/ cm4_watchdog_timeout_sec <= LongestSilence]_vars

\* Silence is noticed: an enabled watchdog never lets more pass than the timeout and
\* one period of its alarm.
SilenceIsNoticed ==
    is_cm4_watchdog_enabled /\ phase # "boot" => quiet < cm4_watchdog_timeout_sec + Period

\* A picod that was stopped under an enabled watchdog works again in the end, if no
\* timeout ends while one answer is waited for.
StoppedIsBroughtBack == phase = "stopped" /\ is_cm4_watchdog_enabled ~> phase = "wait"
================================================================================
