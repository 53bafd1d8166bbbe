-------------------------------- MODULE Packets --------------------------------
(***************************************************************************)
(* The packets of src/pico/pico_pkt_*.h byte by byte: what the host packs  *)
(* the Pico unpacks, and what the Pico packs the host unpacks.             *)
(*                                                                         *)
(* A request begins as zeros.  The answers of all kinds are packed into    *)
(* one buffer of the Pico, pkt.resp, that keeps what the last answer left  *)
(* there, and every kind has its flags, its target or its data in other    *)
(* bytes.  The link is taken to work: SerialLink shows what it does.       *)
(*                                                                         *)
(* A reset of the CM4 may cut a request: the bytes that have arrived wait  *)
(* in pkt.req for those of the next picod, and its first request completes *)
(* them to a packet that nobody has sent.  Answers are followed up to the  *)
(* first reset, settings beyond it.                                        *)
(***************************************************************************)
EXTENDS FanPercent, Sequences, FiniteSets

CONSTANTS
    Readings,      \* what the Pico's sensors may show, in hundredths of a degree
    Speeds,        \* and its tachometers, in revolutions per minute
    AskedPercents, \* fan_pwm_pct in requests, already capped
    AskedWatchdog, \* watchdog settings in requests, already cut to 16 bits
    Configured,    \* fan_pwm_pct of both fans in picod.conf ...
    ConfiguredWatchdog,
    VersionLen,    \* strlen(VERSION_STR)
    MaxResets      \* bound: resets with no complete start in between

Fans == {1, 2}      \* SYS_FAN1, CM4_FAN
Sensors == 0 .. 4   \* ntc1 .. ntc4 and the Pico's own
Places == 0 .. 15   \* of the PICO_PKT_LEN bytes

\* The numbers of two bytes, with sign and without, and a watchdog's seconds.
Reading == -32767 .. 32767
Word == 0 .. 65535
Seconds == 1 .. 65535
Armed == [enable : BOOLEAN, timeout : Seconds, retries : Word]

ASSUME PacketsAssumption ==
    /\ Readings \subseteq [Sensors -> Reading]
    /\ Speeds \subseteq [Fans -> Word]
    /\ AskedPercents \subseteq 0 .. 100
    /\ AskedWatchdog \cup {ConfiguredWatchdog} \subseteq Armed
    /\ Configured \in [Fans -> 0 .. 100]
    /\ VersionLen \in 0 .. 100 /\ MaxResets \in Nat

VARIABLES
    resp,       \* the Pico's pkt.resp
    duty,       \* pwm_fan[].duty_cycle, in hundredths
    wd,         \* the watchdog's settings
    dataIndex,  \* where pico_pkt_version_resp_pack goes on
    meant,      \* history: what the last answer is to tell the host
    rx,         \* the bytes in pkt.req, rx_idx of them
    startup,    \* the next request of init_pico, "no" before the first reset, or "done"
    resets      \* since picod was up

settings == <<duty, wd, dataIndex>>
cut == <<rx, startup, resets>>
pvars == <<resp, settings, meant, cut>>

Nothing == [kind |-> "nothing"]
Zeros == [i \in Places |-> 0]

Init ==
    /\ resp = Zeros
    /\ duty = [f \in Fans |-> 50]
    /\ wd = [enable |-> FALSE, timeout |-> 30, retries |-> 0]
    /\ dataIndex = 0 /\ meant = Nothing
    /\ rx = <<>> /\ startup = "no" /\ resets = 0

-----------------------------------------------------------------------------
(* Bytes *)

Magic == [temperature |-> 65, fan |-> 66, watchdog |-> 67, version |-> 70]

\* buf with the sequence bytes from place at on.
Put(buf, at, bytes) ==
    [i \in Places |-> IF i \in at .. at + Len(bytes) - 1 THEN bytes[i - at + 1] ELSE buf[i]]

\* The bytes as they go over the link.
Sent(buf) == [i \in 1 .. 16 |-> buf[i - 1]]
Packet(bytes) == [i \in Places |-> bytes[i + 1]]

U16(n) == <<n % 256, n \div 256>>
FromU16(buf, at) == buf[at] + 256 * buf[at + 1]

Weight(b, k) == IF b THEN 2^k ELSE 0
Bit(byte, k) == (byte \div 2^k) % 2 = 1

\* PACK_TEMPERATURE and UNPACK_TEMPERATURE, which negate 16 bits by hand.
Signed(n) == IF n < 0 THEN 65535 - (-n) + 1 ELSE n
FromSigned(d) == IF Bit(d, 15) THEN -(65535 - (d - 1)) ELSE d

-----------------------------------------------------------------------------
(* Requests of the host, as the Pico unpacks them *)

\* A bit for every fan.
Target(fans) == Weight(1 \in fans, 0) + Weight(2 \in fans, 1)

\* pico_pkt_fan_pwm_req_pack and _unpack; asked has the fans of the request.
FanRequest(write, asked) ==
    Put(Put(Zeros, 0, <<Magic.fan, Target(DOMAIN asked), Weight(write, 0)>>),
        3, [f \in Fans |-> IF f \in DOMAIN asked THEN Packed[asked[f]] ELSE 0])

Addressed(buf) == {f \in Fans : Bit(buf[1], f - 1)}
Percents(buf) == [f \in Fans |-> buf[2 + f]]

\* pico_pkt_watchdog_req_pack: only a write has the numbers.
WatchdogRequest(write, s) ==
    Put(Put(Zeros, 0, <<Magic.watchdog, Weight(write, 0) + Weight(s.enable, 2)>>),
        2, IF write THEN U16(s.timeout) \o U16(s.retries) ELSE <<>>)

\* pico_pkt_watchdog_unpack, which both sides use.
WatchdogOf(buf) ==
    [enable |-> Bit(buf[1], 2), timeout |-> FromU16(buf, 2), retries |-> FromU16(buf, 4)]

-----------------------------------------------------------------------------
(* The Pico's handlers *)

PktTemperature ==
    \E t \in Readings, v \in Speeds :
        /\ resp' = Put(resp, 0, <<Magic.temperature, Weight(TRUE, 0)>>
                          \o U16(Signed(t[0])) \o U16(Signed(t[1])) \o U16(Signed(t[2]))
                          \o U16(Signed(t[3])) \o U16(Signed(t[4])) \o U16(v[1]) \o U16(v[2]))
        /\ meant' = [kind |-> "temperature", success |-> TRUE, readings |-> t, speeds |-> v]
        /\ UNCHANGED <<settings, cut>>

Clamped(p) == IF p > 100 THEN 100 ELSE p

\* pico_pkt_fan_pwm_resp_pack: a fan that is not addressed has the request's zero.
FanAnswer(fans, pct, write, success) ==
    Put(Put(resp, 0, <<Magic.fan, Target(fans), Weight(write, 0) + Weight(success, 1)>>
                     \o [f \in Fans |-> Packed[pct[f]]]),
        5, [i \in 1 .. 11 |-> 0])

\* The fan's part of a report, which a read has from the Pico and a write from the request.
ReportedFan(f, write, asked) ==
    IF f \notin DOMAIN asked THEN 0
    ELSE IF write THEN Packed[Packed[asked[f]]] ELSE Packed[duty[f]]

\* What pkt_fan_pwm makes of the duty cycles.
Duties(req) ==
    [f \in Fans |-> IF Bit(req[2], 0) /\ f \in Addressed(req) THEN Clamped(Percents(req)[f])
                    ELSE duty[f]]

PktFanPwm ==
    \E fs \in SUBSET Fans, write \in BOOLEAN : \E asked \in [fs -> AskedPercents] :
        LET req == FanRequest(write, asked)
            w == Bit(req[2], 0)
            fans == Addressed(req)
            pct == [f \in Fans |-> IF ~w /\ f \in fans THEN duty[f] ELSE Percents(req)[f]]
        IN  /\ duty' = Duties(req)
            /\ resp' = FanAnswer(fans, pct, w, fans # {})
            /\ meant' = [kind |-> "fan", write |-> write, success |-> fs # {}, fans |-> fs,
                         percents |-> [f \in Fans |-> ReportedFan(f, write, asked)]]
            /\ UNCHANGED <<wd, dataIndex, cut>>

\* pico_pkt_watchdog_resp_pack.
WatchdogAnswer(write, success, s) ==
    Put(Put(resp, 0, <<Magic.watchdog, Weight(write, 0) + Weight(success, 1) + Weight(s.enable, 2)>>
                     \o U16(s.timeout) \o U16(s.retries)),
        6, [i \in 1 .. 10 |-> 0])

\* The settings after a request; ok: the SDK has added or cancelled the alarm.
Toggles(buf) == Bit(buf[1], 0) /\ Bit(buf[1], 2) # wd.enable

WatchdogAfter(buf, ok) ==
    IF ~Bit(buf[1], 0) THEN wd
    ELSE [WatchdogOf(buf) EXCEPT !.enable = IF Toggles(buf) /\ ~ok THEN wd.enable ELSE @]

PktWatchdog ==
    \E write \in BOOLEAN, asked \in AskedWatchdog :
        LET buf == WatchdogRequest(write, asked)
        IN  \E ok \in IF Toggles(buf) THEN BOOLEAN ELSE {TRUE} :
              /\ wd' = WatchdogAfter(buf, ok)
              /\ resp' = WatchdogAnswer(Bit(buf[1], 0), ok, wd')
              /\ meant' = [kind |-> "watchdog", write |-> write, success |-> ok,
                           settings |-> IF write THEN [asked EXCEPT !.enable = wd'.enable]
                                        ELSE wd]
              /\ UNCHANGED <<duty, dataIndex, cut>>

\* VERSION_STR, whose characters are their positions here.
Text(from, to) == [i \in 1 .. to - from |-> from + i]

\* Slip: the loop looks for the string's end before it copies.
EndLeft(piece) == piece

\* The last piece is closed with a zero unless it fills the packet.
Closed(piece) == IF Len(piece) < 14 THEN Append(piece, 0) ELSE piece

\* pico_pkt_version_resp_pack.
PieceEnd == IF dataIndex + 14 < VersionLen THEN dataIndex + 14 ELSE VersionLen

NextIndex == IF PieceEnd = VersionLen THEN 0 ELSE PieceEnd

PktVersion ==
    LET end == PieceEnd
        sop == dataIndex = 0
        eop == end = VersionLen
    IN  /\ resp' = Put(resp, 0, <<Magic.version, Weight(sop, 0) + Weight(eop, 1)>>
                                \o Closed(Text(dataIndex, end)))
        /\ dataIndex' = NextIndex
        /\ meant' = [kind |-> "version", sop |-> sop, eop |-> eop, text |-> Text(dataIndex, end)]
        /\ UNCHANGED <<duty, wd, cut>>

\* A packet that no handler knows clears the buffer and is not answered; the
\* confirmation of a shutdown is not answered either, and leaves it alone.
Unknown ==
    /\ resp' = Zeros /\ meant' = Nothing
    /\ UNCHANGED <<settings, cut>>

-----------------------------------------------------------------------------
(* A reset of the CM4 in the middle of a request *)

\* Slip: the zeros that follow a packet are taken for the next one.
KeepZeros(bytes) == bytes

\* on_uart_rx drops zeros before a packet.
DropZeros(bytes) ==
    LET nonzero == {i \in DOMAIN bytes : bytes[i] # 0}
    IN  IF nonzero = {} THEN <<>>
        ELSE SubSeq(bytes, CHOOSE i \in nonzero : \A k \in nonzero : i <= k, Len(bytes))

\* The main loop gives a whole packet to its handler.
Execute(req) ==
    /\ duty' = IF req[0] = Magic.fan THEN Duties(req) ELSE duty
    /\ IF req[0] = Magic.watchdog
       THEN \E ok \in IF Toggles(req) THEN BOOLEAN ELSE {TRUE} : wd' = WatchdogAfter(req, ok)
       ELSE UNCHANGED wd
    /\ dataIndex' = IF req[0] = Magic.version THEN NextIndex ELSE dataIndex

\* Bytes arrive after those that wait; at most one packet is complete with them.
Receive(bytes) ==
    LET all == IF rx = <<>> THEN DropZeros(bytes) ELSE rx \o bytes
    IN  IF Len(all) < 16
        THEN rx' = all /\ UNCHANGED settings
        ELSE /\ rx' = DropZeros(SubSeq(all, 17, Len(all)))
             /\ Execute(Packet(all))

OneByte(magic) == Put(Zeros, 0, <<magic>>)

\* What a running picod sends; a packet of any other kind is its magic and zeros.
Requests ==
    {OneByte(magic) : magic \in {Magic.temperature, Magic.version, 68}}
    \cup {FanRequest(write, asked) : write \in BOOLEAN,
             asked \in UNION {[fs -> AskedPercents] : fs \in SUBSET Fans}}
    \cup {WatchdogRequest(write, s) : write \in BOOLEAN, s \in AskedWatchdog}

\* init_pico: get_pico_version, init_fan_pwm and init_watchdog.
StartUpRequest ==
    [version |-> OneByte(Magic.version), fans |-> FanRequest(TRUE, Configured),
     watchdog |-> WatchdogRequest(TRUE, ConfiguredWatchdog)]

\* The CM4 is reset when length bytes of a request have gone out.
Cut ==
    /\ resets' = resets + 1 /\ resets' <= MaxResets
    /\ startup' = "version" /\ resp' = Zeros /\ meant' = Nothing
    /\ \E req \in IF startup \in {"no", "done"} THEN Requests ELSE {StartUpRequest[startup]} :
           \E length \in 0 .. 15 : Receive(SubSeq(Sent(req), 1, length))

\* The next picod starts; it asks for the version until it has the last piece or no
\* answer.
StartUp ==
    /\ startup \in DOMAIN StartUpRequest
    /\ Receive(Sent(StartUpRequest[startup]))
    /\ startup' = CASE startup = "version" -> IF dataIndex' > dataIndex THEN "version" ELSE "fans"
                    [] startup = "fans" -> "watchdog"
                    [] startup = "watchdog" -> "done"
    /\ resets' = IF startup' = "done" THEN 0 ELSE resets
    /\ UNCHANGED <<resp, meant>>

Whole == PktTemperature \/ PktFanPwm \/ PktWatchdog \/ PktVersion \/ Unknown

Next ==
    \/ startup = "no" /\ Whole
    \/ Cut \/ StartUp

Spec == Init /\ [][Next]_pvars

-----------------------------------------------------------------------------
(* What the host makes of an answer *)

\* pico_pkt_version_resp_unpack stops at a zero or at the end of the packet.
HeardText(buf) ==
    LET end == CHOOSE e \in 2 .. 16 :
                   (e = 16 \/ buf[e] = 0) /\ \A i \in 2 .. e - 1 : buf[i] # 0
    IN  [i \in 1 .. end - 2 |-> buf[i + 1]]

Heard(kind, buf) ==
    CASE kind = "temperature" ->
           [kind |-> kind, success |-> Bit(buf[1], 0),
            readings |-> [s \in Sensors |-> FromSigned(FromU16(buf, 2 + 2 * s))],
            speeds |-> [f \in Fans |-> FromU16(buf, 10 + 2 * f)]]
      [] kind = "fan" ->
           [kind |-> kind, write |-> Bit(buf[2], 0), success |-> Bit(buf[2], 1),
            fans |-> Addressed(buf), percents |-> Percents(buf)]
      [] kind = "watchdog" ->
           [kind |-> kind, write |-> Bit(buf[1], 0), success |-> Bit(buf[1], 1),
            settings |-> WatchdogOf(buf)]
      [] kind = "version" ->
           [kind |-> kind, sop |-> Bit(buf[1], 0), eop |-> Bit(buf[1], 1),
            text |-> HeardText(buf)]

\* Whatever answers the buffer held before: the host reads exactly what the Pico
\* meant to tell it, by an answer of its kind, and a write gave the Pico what was
\* asked.
AnswersTrue ==
    meant # Nothing =>
        /\ resp[0] = Magic[meant.kind]
        /\ Heard(meant.kind, resp) = meant

\* Wherever resets cut requests, and whatever packets come out of their pieces: they
\* leave an enabled watchdog its second, and a picod that has started has put fans and
\* watchdog right and finds the Pico at the start of a packet.
RestartRestores ==
    /\ wd.enable => wd.timeout >= 1
    /\ startup = "done" =>
        /\ rx = <<>>
        /\ duty = [f \in Fans |-> Packed[Configured[f]]]
        /\ [wd EXCEPT !.enable = ConfiguredWatchdog.enable] = ConfiguredWatchdog
================================================================================
