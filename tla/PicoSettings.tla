------------------------------ MODULE PicoSettings ------------------------------
(***************************************************************************)
(* What picod and its users ask of the Pico and what they are told: the    *)
(* version, the fans' duty cycles and the watchdog's settings, from        *)
(* picod.conf, the web page and ubus through the packets to the Pico and   *)
(* back, with the numbers cut and rounded as the code does it.             *)
(*                                                                         *)
(* The link is reduced to what SerialLink shows of it: a request is        *)
(* executed or lost, an answer arrives, late or not, or is lost, and       *)
(* threads that wait for the same kind share one queue.  A float that the  *)
(* code computes as n / 100.0f is written n.                               *)
(***************************************************************************)
EXTENDS FanPercent, Integers, Sequences, FiniteSets

CONSTANTS
    Workers,       \* threads that serve settings: the web server's, or the ubus loop
    Main,          \* the thread that runs init_pico
    Reader,        \* the thread that delivers answers and handles shutdown packets
    Configs,       \* contents of picod.conf
    AskedPercents, \* fan_pwm_pct in requests of users; ubus allows negative numbers
    AskedWatchdog, \* watchdog settings in requests of users
    VersionLen,    \* strlen(VERSION_STR)
    PieceLen,      \* characters of it in a packet
    QueueMax,      \* ConcurrentQueue's max_queue_size
    MaxComing      \* bound: answers on their way at a time

Fans == {1, 2}     \* SYS_FAN1, CM4_FAN
Kinds == {"version", "fan", "watchdog"}
Threads == Workers \cup {Main, Reader}

ASSUME SettingsAssumption ==
    /\ Main \notin Workers /\ Reader \notin Workers \cup {Main}
    /\ VersionLen \in Nat /\ PieceLen \in Nat \ {0}
    /\ AskedPercents \subseteq Int
    /\ AskedWatchdog \subseteq [enable : BOOLEAN, timeout : Int, retries : Int]
    /\ Configs \subseteq [pwm : Int, enable : BOOLEAN, timeout : Nat, retries : Nat]
    /\ QueueMax \in Nat \ {0} /\ MaxComing \in Nat \ {0}

VARIABLES
    \* the Pico
    duty,        \* pwm_fan[].duty_cycle
    wd,          \* enabled, timeout and retries of the watchdog
    dataIndex,   \* where pico_pkt_version_resp_pack goes on
    \* between the Pico and its callers
    coming,      \* answers sent and not yet read
    pktQueues_,
    \* picod
    todo,        \* requests each thread has still to make
    want,        \* the request it waits for, or None
    picoVersion,
    \* history
    asked,       \* for every fan, the percentage of the last write the Pico executed
    first,       \* dataIndex when init_pico asked for the version
    left,        \* what the request in want asked about, as the Pico had it then
    mixed        \* kinds of which a request met another that was not answered yet

picoVars == <<duty, wd, dataIndex>>
linkVars == <<coming, pktQueues_>>
vars == <<picoVars, linkVars, todo, want, picoVersion, asked, first, left, mixed>>

None == [kind |-> "none"]

-----------------------------------------------------------------------------
(* Conversions *)

\* The web server and ubus cap an unsigned percentage; a negative one is a large one.
Capped(p) == IF p \in 0 .. 100 THEN p ELSE 100

\* SANITIZE_PWM_INPUT, and the same on the Pico.
Clamped(p) == IF p < 0 THEN 0 ELSE IF p > 100 THEN 100 ELSE p

Narrow(n) == n % 2^16

\* Slip: the lower limit is forgotten.
SanitizedAbove(t) == IF t > 65535 THEN 65535 ELSE t

Sanitized(t) == IF t < 1 THEN 1 ELSE IF t > 65535 THEN 65535 ELSE t

-----------------------------------------------------------------------------
(* Requests.  The name of a fan, and what a handler rejects, are left out. *)

Version == [kind |-> "version"]
FanRequest(write, pct) == [kind |-> "fan", write |-> write, pct |-> pct]
WatchdogRequest(write, enable, timeout, retries) ==
    [kind |-> "watchdog", write |-> write, enable |-> enable,
     timeout |-> timeout, retries |-> retries]

SetFan(f, p) == FanRequest(TRUE, [g \in {f} |-> Capped(p)])
ReadFan(f) == FanRequest(FALSE, [g \in {f} |-> 0])
TurnOffFans == FanRequest(TRUE, [f \in Fans |-> 0])

\* The 16 bits of the packet are taken before sanitize_watchdog_timeout looks.
SetWatchdog(s) ==
    WatchdogRequest(TRUE, s.enable, Sanitized(Narrow(s.timeout)), Narrow(s.retries))

\* What get_pico_status asks for, one after the other.
Status == <<FanRequest(FALSE, [f \in Fans |-> 0]), WatchdogRequest(FALSE, FALSE, 0, 0)>>

Handlers ==
    {<<SetFan(f, p)>> : f \in Fans, p \in AskedPercents}
    \cup {<<ReadFan(f)>> : f \in Fans}
    \cup {<<SetWatchdog(s)>> : s \in AskedWatchdog}
    \cup {Status}

\* Settings::sanitize sees the whole timeout.
Sanitize(c) == [c EXCEPT !.pwm = Clamped(@), !.timeout = Sanitized(@)]

InitFanPwm(c) == FanRequest(TRUE, [f \in Fans |-> c.pwm])
InitWatchdog(c) == WatchdogRequest(TRUE, c.enable, Narrow(c.timeout), Narrow(c.retries))

\* init_pico, with the settings of picod.conf.
StartUp(c) == <<Version, InitFanPwm(Sanitize(c)), InitWatchdog(Sanitize(c))>>

-----------------------------------------------------------------------------
Duties == [Fans -> 0 .. 100]
Watchdogs == [enabled : BOOLEAN, timeout : 0 .. 65535, retries : 0 .. 65535]

\* The settings that a request of kind k is about.
About(k, d, w) == CASE k = "fan" -> d [] k = "watchdog" -> w [] OTHER -> None

TypeOK ==
    /\ duty \in Duties /\ wd \in Watchdogs
    /\ dataIndex = 0 \/ dataIndex \in 1 .. VersionLen - 1
    /\ \A i \in DOMAIN coming : coming[i].kind \in Kinds
    /\ DOMAIN pktQueues_ = Kinds
    /\ \A k \in Kinds : \A i \in DOMAIN pktQueues_[k] : pktQueues_[k][i].kind = k
    /\ DOMAIN todo = Threads /\ DOMAIN want = Threads
    /\ \A t \in Threads : want[t] = None \/ want[t].kind \in Kinds
    /\ picoVersion \in Seq(0 .. VersionLen)
    /\ asked \in [Fans -> 0 .. 100] /\ first \in 0 .. VersionLen
    /\ \A t \in Threads : left[t] = None \/ left[t] \in Duties \/ left[t] \in Watchdogs
    /\ mixed \subseteq Kinds

\* The Pico has just been powered up, and picod starts with some picod.conf.
Init ==
    /\ duty = [f \in Fans |-> 50]
    /\ wd = [enabled |-> FALSE, timeout |-> 30, retries |-> 0]
    /\ dataIndex = 0
    /\ coming = <<>> /\ pktQueues_ = [k \in Kinds |-> <<>>]
    /\ \E c \in Configs : todo = [t \in Threads |-> IF t = Main THEN StartUp(c) ELSE <<>>]
    /\ want = [t \in Threads |-> None]
    /\ picoVersion = <<>>
    /\ asked = duty /\ first = 0 /\ mixed = {}
    /\ left = [t \in Threads |-> None]

-----------------------------------------------------------------------------
(* The Pico executes a request *)

Answer(a) == coming' = Append(coming, a)

\* The bytes of the request; a fan that is not addressed has a zero.
Bytes(r) == [f \in Fans |-> IF f \in DOMAIN r.pct THEN Packed[r.pct[f]] ELSE 0]

\* Slip: the fan's identifier is not compared.
SetDutyAll(r) == duty' = [f \in Fans |-> Clamped(Bytes(r)[f])]

SetDuty(r) ==
    duty' = [f \in Fans |-> IF f \in DOMAIN r.pct THEN Clamped(Bytes(r)[f]) ELSE duty[f]]

\* Slip: a read answers with what the request carries.
EchoedAlways(r, f) == Packed[Bytes(r)[f]]

\* A read answers with the duty cycle, a write with the request's value, not clamped.
Echoed(r, f) == Packed[IF ~r.write /\ f \in DOMAIN r.pct THEN duty[f] ELSE Bytes(r)[f]]

PktFanPwm(r) ==
    /\ IF r.write
       THEN /\ SetDuty(r)
            /\ asked' = [f \in Fans |-> IF f \in DOMAIN r.pct THEN r.pct[f] ELSE asked[f]]
       ELSE UNCHANGED <<duty, asked>>
    /\ Answer([kind |-> "fan", write |-> r.write, success |-> TRUE,
               pct |-> [f \in Fans |-> Echoed(r, f)]])
    /\ UNCHANGED <<wd, dataIndex>>

\* pico_pkt_watchdog_resp_pack, and what its unpacking yields.
WatchdogReport(write, ok, w) ==
    [kind |-> "watchdog", write |-> write, success |-> ok,
     enabled |-> w.enabled, timeout |-> w.timeout, retries |-> w.retries]

\* The SDK may have no alarm left to add, or find none to cancel.
PktWatchdog(r) ==
    LET toggle == r.write /\ r.enable # wd.enabled
        kept == IF r.write THEN r ELSE wd
    IN  \E ok \in IF toggle THEN BOOLEAN ELSE {TRUE} :
          /\ wd' = [enabled |-> IF toggle /\ ok THEN r.enable ELSE wd.enabled,
                    timeout |-> kept.timeout, retries |-> kept.retries]
          /\ Answer(WatchdogReport(r.write, ok, wd'))
          /\ UNCHANGED <<duty, dataIndex, asked>>

\* Slip: the index is not reset at the end of the string.
NextIndexKept(end) == end

NextIndex(end) == IF end = VersionLen THEN 0 ELSE end

\* A piece is the positions in VERSION_STR of its characters.
PktVersion ==
    LET end == IF dataIndex + PieceLen < VersionLen THEN dataIndex + PieceLen ELSE VersionLen
    IN  /\ Answer([kind |-> "version", sop |-> dataIndex = 0, eop |-> end = VersionLen,
                   piece |-> [i \in 1 .. end - dataIndex |-> dataIndex + i - 1]])
        /\ dataIndex' = NextIndex(end)
        /\ UNCHANGED <<duty, wd, asked>>

Execute(r) ==
    \/ r.kind = "fan" /\ PktFanPwm(r)
    \/ r.kind = "watchdog" /\ PktWatchdog(r)
    \/ r.kind = "version" /\ PktVersion

\* Nothing reaches the Pico, or nothing that it takes for a packet.
RequestLost == UNCHANGED <<picoVars, coming, asked>>

-----------------------------------------------------------------------------
(* picod's threads *)

Idle(t) == todo[t] = <<>> /\ want[t] = None

\* The web server and ubus begin to serve when init_pico has returned.
Begin(t) ==
    /\ Idle(t) /\ Idle(Main)
    /\ \E h \in Handlers : todo' = [todo EXCEPT ![t] = h]
    /\ UNCHANGED <<picoVars, linkVars, want, picoVersion, asked, first, left, mixed>>

\* A shutdown packet makes the reader turn the fans off before it powers off.
HandleShutdown ==
    /\ Idle(Reader)
    /\ todo' = [todo EXCEPT ![Reader] = <<TurnOffFans>>]
    /\ UNCHANGED <<picoVars, linkVars, want, picoVersion, asked, first, left, mixed>>

\* Another request of the kind may yet be answered.
Unanswered(k) ==
    \/ \E t \in Threads : want[t].kind = k
    \/ pktQueues_[k] # <<>>
    \/ \E i \in DOMAIN coming : coming[i].kind = k

Send(t) ==
    /\ todo[t] # <<>> /\ want[t] = None
    /\ Len(coming) < MaxComing
    /\ LET r == Head(todo[t]) IN
       /\ want' = [want EXCEPT ![t] = r]
       /\ Execute(r) \/ RequestLost
       /\ mixed' = IF Unanswered(r.kind) THEN mixed \cup {r.kind} ELSE mixed
    /\ todo' = [todo EXCEPT ![t] = Tail(@)]
    /\ left' = [left EXCEPT ![t] = About(todo[t][1].kind, duty', wd')]
    /\ UNCHANGED <<pktQueues_, picoVersion, first>>

\* While the reader is in pkt_shutdown it reads nothing.  A full queue takes nothing.
Deliver ==
    /\ coming # <<>> /\ Idle(Reader)
    /\ coming' = Tail(coming)
    /\ pktQueues_' = [pktQueues_ EXCEPT ![Head(coming).kind] =
           IF Len(@) < QueueMax THEN Append(@, Head(coming)) ELSE @]
    /\ UNCHANGED <<picoVars, todo, want, picoVersion, asked, first, left, mixed>>

\* The flush before another request, or a reader out of step, costs an answer.
AnswerLost ==
    /\ coming # <<>>
    /\ coming' = Tail(coming)
    /\ UNCHANGED <<picoVars, pktQueues_, todo, want, picoVersion, asked, first,
                   left, mixed>>

\* Slip: picoVersion is cleared before every piece.
JoinedAnew(a) == a.piece

\* get_pico_version puts the pieces together ...
Joined(a) == (IF a.sop THEN <<>> ELSE picoVersion) \o a.piece

\* ... and asks again until one has the end of the string.
Rest(t, a) ==
    IF a.kind = "version" /\ ~a.eop THEN <<Version>> \o todo[t] ELSE todo[t]

Settled(t) ==
    /\ want' = [want EXCEPT ![t] = None]
    /\ left' = [left EXCEPT ![t] = None]
    /\ UNCHANGED <<picoVars, coming, asked, first, mixed>>

\* get_pico_response takes the oldest answer of the kind, whoever asked.
Pop(t) ==
    /\ want[t] # None
    /\ LET k == want[t].kind
           a == Head(pktQueues_[k])
       IN  /\ pktQueues_[k] # <<>>
           /\ pktQueues_' = [pktQueues_ EXCEPT ![k] = Tail(@)]
           /\ todo' = [todo EXCEPT ![t] = Rest(t, a)]
           /\ picoVersion' = IF k = "version" THEN Joined(a) ELSE picoVersion
    /\ Settled(t)

\* The second is over.  Nobody looks at the result of a start-up request.
GiveUp(t) ==
    /\ want[t] # None
    /\ pktQueues_[want[t].kind] = <<>>
    /\ Settled(t)
    /\ UNCHANGED <<pktQueues_, todo, picoVersion>>

\* The CM4 is reset or powered up and picod starts afresh; the Pico runs on.
StartPicod ==
    /\ \E c \in Configs : todo' = [t \in Threads |-> IF t = Main THEN StartUp(c) ELSE <<>>]
    /\ want' = [t \in Threads |-> None]
    /\ picoVersion' = <<>> /\ first' = dataIndex
    /\ coming' = <<>> /\ pktQueues_' = [k \in Kinds |-> <<>>] /\ mixed' = {}
    /\ left' = [t \in Threads |-> None]
    /\ UNCHANGED <<duty, dataIndex, asked>>

Restart == UNCHANGED wd /\ StartPicod

\* The watchdog resets a silent CM4 and takes a retry, or disables itself.
WatchdogResets ==
    /\ wd.enabled
    /\ wd' = IF wd.retries > 0 THEN [wd EXCEPT !.retries = @ - 1]
             ELSE [wd EXCEPT !.enabled = FALSE]
    /\ StartPicod

Next ==
    \/ \E t \in Workers : Begin(t)
    \/ \E t \in Threads : Send(t) \/ Pop(t) \/ GiveUp(t)
    \/ HandleShutdown \/ Deliver \/ AnswerLost
    \/ Restart \/ WatchdogResets

Spec == Init /\ [][Next]_vars

-----------------------------------------------------------------------------
\* Whatever was written, by picod.conf, by users or on shutdown, in any order and
\* with any loss: a fan has the percentage last asked for it, or one less, which
\* is what the conversion to a byte (pico_pkt_fan_pwm.h:76-77) may cost.
FansAsAsked == \A f \in Fans : duty[f] \in {asked[f] - 1, asked[f]}

\* An enabled watchdog leaves the CM4 at least a second, also after a timeout that
\* is zero modulo 2^16 (sanitize_watchdog_timeout): one of zero would reset it at
\* every alarm.
ArmedTimeout == wd.enabled => wd.timeout >= 1

\* While picod starts, and after, picoVersion has no gap and nothing twice, whatever
\* was lost: it is what the Pico sent from where it stood.
VersionRun == \A i \in DOMAIN picoVersion : picoVersion[i] = first + i - 1

\* send_fan_pwm_request and send_watchdog_request return true.
Accepted(r, a) == a.success /\ (r.kind = "fan" => a.write = r.write)

\* What the user is told is so on the Pico.  The report of a fan is cut to a byte
\* twice more on its way.
Truthful(t, a) ==
    IF a.kind = "fan"
    THEN \A f \in DOMAIN want[t].pct : Packed[a.pct[f]] = left[t][f]
    ELSE left[t] = [enabled |-> a.enabled, timeout |-> a.timeout, retries |-> a.retries]

Told(t, k) == want[t].kind = k /\ pktQueues_[k] # <<>> /\ Accepted(want[t], Head(pktQueues_[k]))

\* A request that is reported as successful reports the settings the Pico had when
\* it had executed it, unless requests of that kind met: this includes the answer
\* to a request that was given up.
ReportsTrue ==
    \A t \in Threads : \A k \in {"fan", "watchdog"} :
        Told(t, k) /\ k \notin mixed => Truthful(t, Head(pktQueues_[k]))
================================================================================
