------------------------------ MODULE SensorCharts ------------------------------
(***************************************************************************)
(* From the Pico's sensors to the histories that the charts show:          *)
(* pkt_temperature and the tachometer on the Pico, the queue of its        *)
(* answers in picod, and WebServer::pico_monitor, which polls the sensors  *)
(* and keeps histories of them next to their time stamps.                  *)
(*                                                                         *)
(* Nothing tells which request an answer belongs to.  One that comes after *)
(* its thread has given up stays in the queue, the next request of any     *)
(* thread takes it, and whoever asks later gets an older answer too.       *)
(*                                                                         *)
(* A temperature is counted in eighths of a degree, which single precision *)
(* represents exactly, and in hundredths once it has been in a packet.     *)
(* Time is counted in polls.                                               *)
(***************************************************************************)
EXTENDS Integers, Sequences

CONSTANTS
    Sensors,  \* the NTC thermistors and the Pico's own sensor
    Fans,     \* SYS_FAN1 and CM4_FAN
    Readings, \* temperatures, in eighths of a degree
    Pulses,   \* tachometer pulses in a second
    History,  \* sensor_history_in_seconds
    Others,   \* threads that may ask at a time besides the monitor
    QueueMax, \* max_queue_size
    MaxPolls, \* bound: polls of the monitor
    MaxMissed \* bound: requests that are given up

ASSUME ChartsAssumption ==
    /\ \A t \in Readings : t \in Int /\ -2621 <= t /\ t <= 2621
    /\ Pulses \subseteq Nat
    /\ History \in Nat \ {0} /\ QueueMax \in Nat \ {0}
    /\ Others \in Nat /\ MaxPolls \in Nat /\ MaxMissed \in Nat

VARIABLES
    \* the Pico
    rpm,              \* pwm_fan[].rpm
    requests,         \* temperature requests on their way to it
    coming,           \* its answers on their way to picod
    \* PacketHandler
    temperatureQueue, \* pktQueues_[PICO_PKT_TEMPERATURE_MAGIC]
    asking,           \* threads besides the monitor that wait for an answer
    \* WebServer
    waiting,          \* the monitor waits for an answer
    polls,
    timeStamps_, tempDict_, rpmDict_,
    \* history
    measured,         \* what the Pico had measured, and when, for every place
    missed            \* requests that were given up

linkVars == <<requests, coming>>
historyVars == <<timeStamps_, tempDict_, rpmDict_, measured>>
chartsVars ==
    <<rpm, linkVars, temperatureQueue, asking, waiting, polls, historyVars, missed>>

\* x * 100.0f cut to a whole number, for |x| = n / 8.
Hundredths(n) == (n * 25) \div 2

\* Slip: the sign is not restored.
UnpackedUnsigned(data) == data

\* PACK_TEMPERATURE and UNPACK_TEMPERATURE: two's complement in 16 bits.
Pack(n) == IF n < 0 THEN (65536 - Hundredths(-n)) % 65536 ELSE Hundredths(n)
Unpacked(data) == IF data >= 32768 THEN -(65536 - data) ELSE data

\* tachometer_timer_callback: pulses, and pulses * 60, in 16 bits.
Rpm(pulses) == ((pulses % 65536) * 60) % 65536

\* uint16_t
Words == 0 .. 65535

ChartsTypeOK ==
    /\ rpm \in [Fans -> Words]
    /\ requests \in Nat /\ asking \in 0 .. Others /\ missed \in 0 .. MaxMissed
    /\ Len(temperatureQueue) <= QueueMax
    /\ waiting \in BOOLEAN /\ polls \in 0 .. MaxPolls
    /\ Len(timeStamps_) <= History
    /\ \A s \in Sensors : Len(tempDict_[s]) <= History
    /\ \A f \in Fans : Len(rpmDict_[f]) <= History

\* picod has just started.
ChartsInit ==
    /\ rpm = [f \in Fans |-> 0]
    /\ requests = 0 /\ coming = <<>> /\ temperatureQueue = <<>>
    /\ asking = 0 /\ waiting = FALSE /\ polls = 0 /\ missed = 0
    /\ timeStamps_ = <<>> /\ measured = <<>>
    /\ tempDict_ = [s \in Sensors |-> <<>>] /\ rpmDict_ = [f \in Fans |-> <<>>]

-----------------------------------------------------------------------------
(* The Pico, and the line between it and picod *)

TachometerTimer ==
    /\ \E p \in [Fans -> Pulses] : rpm' = [f \in Fans |-> Rpm(p[f])]
    /\ UNCHANGED <<linkVars, temperatureQueue, asking, waiting, polls, historyVars, missed>>

\* pkt_temperature: the sensors are read when the request is there.
PicoAnswers ==
    /\ requests > 0
    /\ requests' = requests - 1
    /\ \E t \in [Sensors -> Readings] :
          coming' = Append(coming, [at |-> polls, temperature |-> t, rpm |-> rpm])
    /\ UNCHANGED <<rpm, temperatureQueue, asking, waiting, polls, historyVars, missed>>

\* A request is not understood, or an answer is cut by another request's tcflush.
Lost ==
    /\ \/ requests > 0 /\ requests' = requests - 1 /\ UNCHANGED coming
       \/ coming # <<>> /\ coming' = Tail(coming) /\ UNCHANGED requests
    /\ UNCHANGED <<rpm, temperatureQueue, asking, waiting, polls, historyVars, missed>>

\* The reader queues an answer for whoever pops it, unless the queue is full.
Dispatch ==
    /\ coming # <<>>
    /\ coming' = Tail(coming)
    /\ temperatureQueue' = IF Len(temperatureQueue) = QueueMax
                           THEN temperatureQueue
                           ELSE Append(temperatureQueue, Head(coming))
    /\ UNCHANGED <<rpm, requests, asking, waiting, polls, historyVars, missed>>

-----------------------------------------------------------------------------
(* Threads besides the monitor: a status page, or a method of the ubus server *)

OtherAsks ==
    /\ asking < Others
    /\ asking' = asking + 1
    /\ requests' = requests + 1
    /\ UNCHANGED <<rpm, coming, temperatureQueue, waiting, polls, historyVars, missed>>

\* It takes the oldest answer, which need not be its own.
OtherAnswered ==
    /\ asking > 0 /\ temperatureQueue # <<>>
    /\ asking' = asking - 1
    /\ temperatureQueue' = Tail(temperatureQueue)
    /\ UNCHANGED <<rpm, linkVars, waiting, polls, historyVars, missed>>

\* Its second is over.  What it asked for may come yet.
OtherGivesUp ==
    /\ asking > 0 /\ temperatureQueue = <<>> /\ missed < MaxMissed
    /\ asking' = asking - 1
    /\ missed' = missed + 1
    /\ UNCHANGED <<rpm, linkVars, temperatureQueue, waiting, polls, historyVars>>

-----------------------------------------------------------------------------
(* The monitor *)

\* Slip: the oldest is dropped only when there is one too many.
SavedLate(q, x) == Append(IF Len(q) > History THEN Tail(q) ELSE q, x)

\* saveTemperatureSensorReading and saveFanRpmSensorReading.
Saved(q, x) == Append(IF Len(q) = History THEN Tail(q) ELSE q, x)

Stamped(q, x) == Append(IF Len(q) = History THEN Tail(q) ELSE q, x)

\* The packet with the temperatures, packed and unpacked.
Carried(t) == [s \in Sensors |-> Unpacked(Pack(t[s]))]

\* The poll interval is over, and a request is sent.
PollBegins ==
    /\ ~waiting /\ polls < MaxPolls
    /\ polls' = polls + 1
    /\ requests' = requests + 1
    /\ waiting' = TRUE
    /\ UNCHANGED <<rpm, coming, temperatureQueue, asking, historyVars, missed>>

\* The monitor takes the oldest answer, saves what it carries, and the present time.
PollAnswered ==
    /\ waiting /\ temperatureQueue # <<>>
    /\ temperatureQueue' = Tail(temperatureQueue)
    /\ LET answer == Head(temperatureQueue) IN
          /\ tempDict_' =
                [s \in Sensors |-> Saved(tempDict_[s], Carried(answer.temperature)[s])]
          /\ rpmDict_' = [f \in Fans |-> Saved(rpmDict_[f], answer.rpm[f])]
          /\ timeStamps_' = Stamped(timeStamps_, polls)
          /\ measured' = Stamped(measured, answer)
    /\ waiting' = FALSE
    /\ UNCHANGED <<rpm, linkVars, asking, polls, missed>>

\* Slip: at the next interval the request is repeated, until it is answered.
PollAgain ==
    /\ waiting /\ temperatureQueue = <<>> /\ missed < MaxMissed
    /\ requests' = requests + 1
    /\ polls < MaxPolls /\ polls' = polls + 1
    /\ UNCHANGED <<rpm, coming, temperatureQueue, asking, waiting, historyVars, missed>>

\* The second is over: the histories stay as they are, and the answer may come yet.
PollFails ==
    /\ waiting /\ temperatureQueue = <<>> /\ missed < MaxMissed
    /\ missed' = missed + 1
    /\ waiting' = FALSE
    /\ UNCHANGED <<rpm, linkVars, temperatureQueue, asking, polls, historyVars>>

-----------------------------------------------------------------------------
Link == TachometerTimer \/ PicoAnswers \/ Lost \/ Dispatch

OtherThreads == OtherAsks \/ OtherAnswered \/ OtherGivesUp

Poll == PollBegins \/ PollAnswered \/ PollFails

ChartsNext == Link \/ OtherThreads \/ Poll

ChartsSpec == ChartsInit /\ [][ChartsNext]_chartsVars

-----------------------------------------------------------------------------
\* The temperature t as it should be shown: in hundredths, cut towards zero.
Shown(t) == IF t < 0 THEN -Hundredths(-t) ELSE Hundredths(t)

\* At every place all charts show one and the same answer, whole and in hundredths.
PointsWhole ==
    \A i \in DOMAIN timeStamps_ :
        /\ \A s \in Sensors :
              i \in DOMAIN tempDict_[s] /\ tempDict_[s][i] = Shown(measured[i].temperature[s])
        /\ \A f \in Fans :
              i \in DOMAIN rpmDict_[f] /\ rpmDict_[f][i] = measured[i].rpm[f]

\* No place shows what was measured before what an earlier place shows.
PointsInOrder ==
    \A i, j \in DOMAIN timeStamps_ : i <= j => measured[i].at <= measured[j].at

\* How many polls an answer is older than its time stamp.
Lag(i) == timeStamps_[i] - measured[i].at

\* Every request that was given up may set the charts back by one poll, for good, and
\* so may each other thread that asks at the time; nothing else does.
LagBounded == \A i \in DOMAIN timeStamps_ : Lag(i) \in 0 .. missed + Others

\* The charts are one history of the sensors, whichever polls failed, whatever came
\* late or was lost and whoever took another's answer, behind its time stamps by as
\* many polls as explained above: with no request given up and nobody else asking,
\* every point is what its sensor showed at its time stamp (pico_monitor).
ChartsTrue == PointsWhole /\ PointsInOrder /\ LagBounded
================================================================================
