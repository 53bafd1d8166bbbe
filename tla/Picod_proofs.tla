------------------------------ MODULE Picod_proofs ------------------------------
(***************************************************************************)
(* Proofs about Picod for any number of workers, signals, subscribers and  *)
(* zones: its types, with the owner of the quit event's mutex, and that    *)
(* the unlocked I2C device gives every caller its own zone's temperature.  *)
(***************************************************************************)
EXTENDS Picod, SequenceTheorems, TLAPS

USE DEF busVars, callVars, TEMPERATURE_REGISTER_RO

-----------------------------------------------------------------------------
(* The sensors: arithmetic *)

\* The zone of a call is the first one, in every caller.
LEMMA FirstZone ==
    /\ 0 \in Zones /\ MAX_NUM_DEVICES \in Nat
    /\ \A i \in deviceIndex : i % MAX_NUM_DEVICES = 0
<1>1. MAX_NUM_DEVICES \in Nat /\ MAX_NUM_DEVICES > 0 BY SensorAssumption
<1>2. 0 % MAX_NUM_DEVICES = 0 BY <1>1
<1> QED BY <1>1, <1>2 DEF Zones, deviceIndex

\* The decoding of a byte is its two's complement.
LEMMA Decoded ==
    ASSUME NEW byte \in 0 .. 255
    PROVE  /\ decodeTemperature(byte) = SignedByte(byte)
           /\ decodeTemperature(byte) \in -128 .. 127
           /\ SignedByte(byte) \in -128 .. 127
<1>1. CASE byte < 128 BY <1>1, SMTT(30) DEF decodeTemperature, SignedByte
<1>2. CASE byte >= 128 BY <1>2, SMTT(30) DEF decodeTemperature, SignedByte
<1> QED BY <1>1, <1>2

\* What a sensor measures is a byte.
LEMMA Measured ==
    ASSUME NEW z \in Zones
    PROVE  Temperature[z] \in 0 .. 255
BY SensorAssumption, Zenon

-----------------------------------------------------------------------------
(* The sensors: types *)

\* A transfer of the zero, or none, keeps the pointer registers.
LEMMA PointerType ==
    ASSUME SensorTypeOK, NEW zone, WriteByte(zone, 0) \/ UNCHANGED pointer
    PROVE  pointer' \in [Zones -> 0 .. 3]
<1>1. 0 \in 0 .. 3 OBVIOUS
<1> QED BY <1>1 DEF SensorTypeOK, WriteByte

LEMMA CallTypes ==
    ASSUME SensorTypeOK, NEW t \in Callers, getTemperature(t)
    PROVE  SensorTypeOK'
<1>1. PICK i \in deviceIndex :
        Absent(t, i) \/ Select(t, i) \/ PointToTemperature(t) \/ ReadTemperature(t)
  BY DEF getTemperature, deviceIndex
<1>2. i % MAX_NUM_DEVICES = 0 /\ 0 \in Zones BY FirstZone
<1>3. CASE Absent(t, i)
  <2>1. -273 \in -273 .. 127 OBVIOUS
  <2> QED BY <1>3, <2>1 DEF Absent, Returns, SensorTypeOK
<1>4. CASE Select(t, i)
  <2>1. idx' = [idx EXCEPT ![t] = 0] /\ addr' = 0 BY <1>2, <1>4 DEF Select
  <2>2. idx' \in [Callers -> Zones] /\ addr' \in Zones BY <1>2, <2>1 DEF SensorTypeOK
  <2>3. stage' \in [Callers -> {"out", "point", "read"}] BY <1>4 DEF Select, SensorTypeOK
  <2> QED BY <1>4, <2>2, <2>3 DEF Select, SensorTypeOK
<1>5. CASE PointToTemperature(t)
  <2>1. stage' \in [Callers -> {"out", "point", "read"}]
    BY <1>5 DEF PointToTemperature, SensorTypeOK
  <2>2. pointer' \in [Zones -> 0 .. 3]
    BY <1>5, PointerType DEF PointToTemperature
  <2> QED BY <1>5, <2>1, <2>2 DEF PointToTemperature, SensorTypeOK
<1>6. CASE ReadTemperature(t)
  <2>1. \A z \in Zones : Temperature[z] \in 0 .. 255 BY Measured
  <2>2. ByteAt(addr) \in 0 .. 255 BY <2>1, SensorAssumption DEF ByteAt, SensorTypeOK
  <2>3. decodeTemperature(ByteAt(addr)) \in -273 .. 127
    <3>1. decodeTemperature(ByteAt(addr)) \in -128 .. 127 BY <2>2, Decoded, Zenon
    <3> QED BY <3>1
  <2>4. stage' \in [Callers -> {"out", "point", "read"}]
    BY <1>6 DEF ReadTemperature, Returns, SensorTypeOK
  <2>7. retVal' \in -273 .. 127
    <3>1. -273 \in -273 .. 127 OBVIOUS
    <3> QED BY <1>6, <2>3, <3>1 DEF ReadTemperature, Returns
  <2>5. SignedByte(Temperature[idx[t]]) \in -128 .. 127
    <3>1. idx[t] \in Zones BY Zenon DEF SensorTypeOK
    <3> QED BY <2>1, <3>1, Decoded, Zenon
  <2>6. measured' \in -128 .. 127 BY <1>6, <2>5 DEF ReadTemperature
  <2> QED BY <1>6, <2>4, <2>6, <2>7 DEF ReadTemperature, SensorTypeOK
<1> QED BY <1>1, <1>3, <1>4, <1>5, <1>6

LEMMA ConstructTypes ==
    ASSUME SensorTypeOK, BusMissing \/ Probe
    PROVE  SensorTypeOK'
<1>1. CASE BusMissing BY <1>1, FirstZone DEF BusMissing, SensorTypeOK
<1>2. CASE Probe
  <2>1. probing \in Zones /\ probing' \in 0 .. MAX_NUM_DEVICES
    BY <1>2, FirstZone DEF Probe, Constructed, SensorTypeOK, Zones
  <2>2. pointer' \in [Zones -> 0 .. 3] BY <1>2, PointerType DEF Probe
  <2>3. present' \in [Zones -> BOOLEAN] BY <1>2 DEF Probe, SensorTypeOK
  <2> QED BY <1>2, <2>1, <2>2, <2>3 DEF Probe, SensorTypeOK
<1> QED BY <1>1, <1>2

-----------------------------------------------------------------------------
(* The sensors: readings *)

\* The stores of the threads do not harm each other because they store the same: the
\* first zone's address, and zero.  A pointer that could not be written is zero before.
SensorInv ==
    /\ \A z \in Zones : pointer[z] = TEMPERATURE_REGISTER_RO
    /\ \A t \in Callers : stage[t] # "out" => Constructed /\ addr = 0 /\ idx[t] = 0
    /\ ReadingIsTheZones

LEMMA CallReads ==
    ASSUME SensorTypeOK, SensorInv, NEW t \in Callers, getTemperature(t)
    PROVE  SensorInv'
<1> USE DEF SensorInv, ReadingIsTheZones
<1>1. PICK i \in deviceIndex :
        Absent(t, i) \/ Select(t, i) \/ PointToTemperature(t) \/ ReadTemperature(t)
  BY DEF getTemperature, deviceIndex
<1>2. i % MAX_NUM_DEVICES = 0 /\ 0 \in Zones BY FirstZone
<1>3. CASE Absent(t, i)
  BY <1>3 DEF Absent, Returns, SensorTypeOK, Constructed
<1>4. CASE Select(t, i)
  BY <1>2, <1>4 DEF Select, SensorTypeOK, Constructed
<1>5. CASE PointToTemperature(t)
  <2>1. \A z \in Zones : pointer'[z] = 0
    BY <1>5 DEF PointToTemperature, WriteByte, SensorTypeOK
  <2> QED BY <1>5, <2>1 DEF PointToTemperature, SensorTypeOK, Constructed
<1>6. CASE ReadTemperature(t)
  <2>1. addr = 0 /\ idx[t] = 0 BY <1>6 DEF ReadTemperature
  <2>2. ByteAt(addr) = Temperature[0] BY <1>2, <2>1 DEF ByteAt
  <2>3. Temperature[0] \in 0 .. 255 BY <1>2, Measured, SMTT(30)
  <2>4. decodeTemperature(Temperature[0]) = SignedByte(Temperature[0]) BY <2>3, Decoded, ZenonT(60)
  <2>5. \A u \in Callers : stage'[u] # "out" => stage[u] # "out"
    BY <1>6 DEF ReadTemperature, Returns, SensorTypeOK
  <2>6. ReadingIsTheZones'
    BY <1>6, <2>1, <2>2, <2>4 DEF ReadTemperature, Returns
  <2> QED BY <1>6, <2>5, <2>6 DEF ReadTemperature, Constructed
<1> QED BY <1>1, <1>3, <1>4, <1>5, <1>6

LEMMA ConstructReads ==
    ASSUME SensorTypeOK, SensorInv, BusMissing \/ Probe
    PROVE  SensorInv'
<1>1. CASE BusMissing
  BY <1>1, FirstZone DEF BusMissing, SensorInv, Constructed, ReadingIsTheZones
<1>2. CASE Probe
  <2>1. \A t \in Callers : stage'[t] = "out" BY <1>2 DEF Probe, SensorInv
  <2>2. \A z \in Zones : pointer'[z] = 0
    BY <1>2 DEF Probe, WriteByte, SensorTypeOK, SensorInv
  <2> QED BY <1>2, <2>1, <2>2 DEF Probe, SensorInv, ReadingIsTheZones
<1> QED BY <1>1, <1>2

-----------------------------------------------------------------------------
(* The quit event *)


\* The mutex has its owner, and the handler never has it on top of its owner.
EventInv ==
    /\ EventTypeOK
    /\ \A t \in Threads : handler[t] = "held" => ~InSection(t)

\* The parts of EventInv about one thread and about the values.
Owns(t) == InSection(t) \/ handler[t] = "held"

Values ==
    /\ flag_ \in BOOLEAN
    /\ mtx_ \in Threads \cup {"free"}
    /\ at \in [Threads -> {"busy", "lock", "held", "waiting", "relock", "woken", "ended"}]
    /\ handler \in [Threads -> {"none", "lock", "held"}]

LEMMA EventInvIs ==
    EventInv <=> /\ Values /\ signals \in 0 .. MaxSignals
                 /\ \A t \in Threads : Owns(t) <=> mtx_ = t
                 /\ \A t \in Threads : handler[t] = "held" => ~InSection(t)
BY Zenon DEF EventInv, EventTypeOK, Owns, Values

LEMMA CallEvent ==
    ASSUME EventInv, NEW t \in Threads, Call(t)
    PROVE  EventInv'
<1> USE EventInvIs
<1>1. Values' BY DEF Values, Call, Goto
<1>2. \A u \in Threads : InSection(u)' <=> InSection(u)
  BY DEF Values, Call, Goto, InSection
<1>3. UNCHANGED <<handler, mtx_, signals>> BY DEF Call
<1> QED BY <1>1, <1>2, <1>3 DEF EventInv, EventTypeOK, Values

LEMMA LockEvent ==
    ASSUME EventInv, NEW t \in Threads,
           Lock(t, "lock", "held") \/ Lock(t, "relock", "woken")
    PROVE  EventInv'
<1>1. /\ Values /\ mtx_ = "free" /\ mtx_' = t /\ handler[t] = "none"
      /\ UNCHANGED <<flag_, handler, signals>>
      /\ \/ at' = [at EXCEPT ![t] = "held"]
         \/ at' = [at EXCEPT ![t] = "woken"]
  BY EventInvIs DEF Lock, Goto, Runs
<1>2. Values' BY <1>1 DEF Values
<1>3. \A u \in Threads : InSection(u)' <=> (u = t \/ InSection(u))
  BY <1>1 DEF Values, InSection
<1>4. \A u \in Threads : ~InSection(u) /\ handler[u] # "held"
  BY <1>1, EventAssumption DEF EventInv, EventTypeOK, Owns
<1>5. \A u \in Threads : (InSection(u) \/ handler[u] = "held")' <=> mtx_' = u
  BY <1>1, <1>3, <1>4
<1> QED BY <1>1, <1>2, <1>3, <1>4, <1>5 DEF EventInv, EventTypeOK, Values

\* A thread leaves its section, and the mutex with it.
LEMMA LeaveEvent ==
    ASSUME EventInv, NEW t \in Threads, InSection(t), Runs(t),
           NEW to \in {"busy", "waiting", "ended"},
           at' = [at EXCEPT ![t] = to], mtx_' = "free", flag_' \in BOOLEAN,
           UNCHANGED <<handler, signals>>
    PROVE  EventInv'
<1>1. Values BY EventInvIs
<1>2. Values' BY <1>1 DEF Values
<1>3. \A u \in Threads : InSection(u)' <=> (u # t /\ InSection(u))
  BY <1>1 DEF Values, InSection
<1>4. mtx_ = t BY EventInvIs DEF Owns
<1>5. \A u \in Threads : u # t => ~InSection(u) /\ handler[u] # "held"
  BY <1>4 DEF EventInv, EventTypeOK
<1>6. \A u \in Threads : ~InSection(u)' /\ handler'[u] # "held"
  BY <1>3, <1>5 DEF Runs
<1>7. \A u \in Threads : mtx_' # u BY EventAssumption
<1>8. signals' \in 0 .. MaxSignals BY EventInvIs
<1> QED BY <1>2, <1>6, <1>7, <1>8 DEF EventInv, EventTypeOK, Values

LEMMA ProceedsEvent ==
    ASSUME EventInv, NEW t \in Threads, Proceeds(t)
    PROVE  EventInv'
<1>0. Values BY EventInvIs
<1>1. CASE t = Reader /\ IsSet
  <2>1. InSection(t) /\ Runs(t) /\ mtx_' = "free" /\ UNCHANGED <<flag_, handler, signals>>
    BY <1>1 DEF IsSet, Return, Goto, InSection
  <2>2. at' = [at EXCEPT ![t] = "ended"] \/ at' = [at EXCEPT ![t] = "busy"]
    BY <1>1 DEF IsSet, Return, Goto
  <2> QED BY <1>0, <2>1, <2>2, LeaveEvent DEF Values
<1>2. CASE t = Main /\ WaitBegins
  <2>1. InSection(t) /\ Runs(t) /\ mtx_' = "free" /\ UNCHANGED <<flag_, handler, signals>>
    BY <1>2 DEF WaitBegins, Goto, InSection
  <2>2. at' = [at EXCEPT ![t] = "waiting"] BY <1>2 DEF WaitBegins, Goto
  <2> QED BY <1>0, <2>1, <2>2, LeaveEvent DEF Values
<1>3. CASE t = Main /\ WaitEnds
  <2>1. Values' BY <1>0, <1>3 DEF Values, WaitEnds, Goto
  <2>2. \A u \in Threads : InSection(u)' <=> InSection(u)
    BY <1>0, <1>3 DEF Values, WaitEnds, Goto, InSection
  <2>3. UNCHANGED <<handler, mtx_, signals>> BY <1>3 DEF WaitEnds
  <2> QED BY <2>1, <2>2, <2>3 DEF EventInv, EventTypeOK, Values
<1>4. CASE t = Main /\ WaitReturns
  <2>1. InSection(t) /\ Runs(t) /\ mtx_' = "free" /\ UNCHANGED <<flag_, handler, signals>>
    BY <1>4 DEF WaitReturns, Return, Goto, InSection
  <2>2. at' = [at EXCEPT ![t] = "ended"] \/ at' = [at EXCEPT ![t] = "busy"]
    BY <1>4 DEF WaitReturns, Return, Goto
  <2> QED BY <1>0, <2>1, <2>2, LeaveEvent DEF Values
<1>5. CASE Set(t)
  <2>1. InSection(t) /\ Runs(t) /\ mtx_' = "free" /\ flag_' \in BOOLEAN
        /\ UNCHANGED <<handler, signals>>
    BY <1>5 DEF Set, Goto, InSection
  <2>2. at' = [at EXCEPT ![t] = "ended"] BY <1>5 DEF Set, Goto
  <2> QED BY <2>1, <2>2, LeaveEvent
<1> QED BY <1>1, <1>2, <1>3, <1>4, <1>5 DEF Proceeds

LEMMA HandlerEvent ==
    ASSUME EventInv, NEW t \in Threads,
           HandlerLocks(t) \/ HandlerSets(t) \/ Signal(t)
    PROVE  EventInv'
<1>0. Values /\ signals \in 0 .. MaxSignals BY EventInvIs
<1>a. MaxSignals \in Nat BY EventAssumption
<1>1. CASE HandlerLocks(t)
  <2>1. Values' BY <1>0, <1>1 DEF Values, HandlerLocks
  <2>2. \A u \in Threads : ~InSection(u) /\ handler[u] # "held"
    BY <1>1, EventAssumption DEF EventInv, EventTypeOK, HandlerLocks
  <2>3. \A u \in Threads : InSection(u)' <=> InSection(u)
    BY <1>1 DEF HandlerLocks, InSection
  <2>4. \A u \in Threads : handler'[u] = "held" <=> u = t
    BY <1>0, <1>1, <2>2 DEF Values, HandlerLocks
  <2>5. mtx_' = t /\ UNCHANGED signals BY <1>1 DEF HandlerLocks
  <2> QED BY <1>0, <2>1, <2>2, <2>3, <2>4, <2>5 DEF EventInv, EventTypeOK, Values
<1>2. CASE HandlerSets(t)
  <2>1. Values' BY <1>0, <1>2 DEF Values, HandlerSets
  <2>2. mtx_ = t /\ ~InSection(t) BY <1>2 DEF EventInv, EventTypeOK, HandlerSets
  <2>3. \A u \in Threads : u # t => ~InSection(u) /\ handler[u] # "held"
    BY <2>2 DEF EventInv, EventTypeOK
  <2>4. \A u \in Threads : InSection(u)' <=> InSection(u)
    BY <1>2 DEF HandlerSets, InSection
  <2>5. \A u \in Threads : handler'[u] # "held"
    BY <1>0, <1>2, <2>3 DEF Values, HandlerSets
  <2>6. mtx_' = "free" /\ UNCHANGED signals BY <1>2 DEF HandlerSets
  <2>7. \A u \in Threads : mtx_' # u BY <2>6, EventAssumption
  <2>8. \A u \in Threads : ~InSection(u)' BY <2>2, <2>3, <2>4
  <2> QED BY <1>0, <2>1, <2>5, <2>6, <2>7, <2>8 DEF EventInv, EventTypeOK, Values
<1>3. CASE Signal(t)
  <2>1. Values' BY <1>0, <1>3 DEF Values, Signal
  <2>2. \A u \in Threads : InSection(u)' <=> InSection(u)
    BY <1>3 DEF Signal, InSection
  <2>3. \A u \in Threads : handler'[u] = "held" <=> handler[u] = "held"
    BY <1>0, <1>3 DEF Values, Signal, Runs
  <2>4. UNCHANGED mtx_ BY <1>3 DEF Signal
  <2>5. signals' \in 0 .. MaxSignals BY <1>0, <1>a, <1>3 DEF Signal
  <2> QED BY <2>1, <2>2, <2>3, <2>4, <2>5 DEF EventInv, EventTypeOK, Values
<1> QED BY <1>1, <1>2, <1>3

-----------------------------------------------------------------------------
(* The loop of libubox *)

\* No step of the loop or of a subscriber leaves the types.
LEMMA UbusTypes ==
    ASSUME UbusTypeOK,
           \/ Starts \/ Turn \/ SubscribeCb \/ ConnectionLost \/ JoinReader
           \/ UloopSignal \/ Subscribers
    PROVE  UbusTypeOK'
<1>0. MaxNews \in Nat BY UbusAssumption
<1>1. CASE Starts BY <1>1 DEF Starts, Connect, ConnectFails, UbusTypeOK, subscriberVars
<1>2. CASE Turn
  <2>1. CASE TimerExpires BY <2>1 DEF TimerExpires, UbusTypeOK, subscriberVars
  <2>2. CASE NotifyTemperature
    <3>1. last' \in {"failed", "notified", "unheard"} /\ armed' \in BOOLEAN
      BY <2>2 DEF NotifyTemperature, Rearm
    <3> QED BY <2>2, <3>1 DEF NotifyTemperature, UbusTypeOK, subscriberVars
  <2>3. CASE LoopEnds BY <2>3 DEF LoopEnds, UbusTypeOK, subscriberVars
  <2> QED BY <1>2, <2>1, <2>2, <2>3 DEF Turn
<1>3. CASE SubscribeCb
  <2>1. news \in Seq(BOOLEAN) /\ news # <<>> /\ Len(news) <= MaxNews
    BY <1>3 DEF SubscribeCb, UbusTypeOK
  <2>2. Head(news) \in BOOLEAN /\ Tail(news) \in Seq(BOOLEAN)
    BY <2>1, HeadTailProperties
  <2>3. Len(Tail(news)) <= MaxNews BY <1>0, <2>1, HeadTailProperties
  <2> QED BY <1>3, <2>2, <2>3 DEF SubscribeCb, TakeOver, UbusTypeOK
<1>4. CASE ConnectionLost BY <1>4 DEF ConnectionLost, UbusTypeOK, subscriberVars
<1>5. CASE JoinReader BY <1>5 DEF JoinReader, UbusTypeOK, subscriberVars
<1>6. CASE UloopSignal BY <1>6 DEF UloopSignal, UbusTypeOK, subscriberVars
<1>7. CASE Subscribers
  <2>1. subscribed' \in BOOLEAN /\ news' = Append(news, subscribed')
    BY <1>7 DEF Subscribers, UbusTypeOK
  <2>2. news' \in Seq(BOOLEAN) /\ Len(news') = Len(news) + 1
    BY <2>1, AppendProperties DEF UbusTypeOK
  <2>3. Len(news') <= MaxNews
    BY <1>0, <1>7, <2>2, LenProperties DEF Subscribers, UbusTypeOK
  <2> QED BY <1>7, <2>1, <2>2, <2>3 DEF Subscribers, UbusTypeOK
<1> QED BY <1>1, <1>2, <1>3, <1>4, <1>5, <1>6, <1>7

-----------------------------------------------------------------------------
(* picod *)

\* A reader that has come to its end stays there.
LEMMA EndedStays ==
    ASSUME Values, NEW t \in Threads, at[Reader] = "ended",
           Call(t) \/ Proceeds(t) \/ Locks(t) \/ HandlerSets(t) \/ Signal(t)
    PROVE  at'[Reader] = "ended"
<1>0. at \in [Threads -> {"busy", "lock", "held", "waiting", "relock", "woken", "ended"}]
      /\ Reader \in Threads
  BY DEF Values, Threads
<1>1. ASSUME NEW from \in {"busy", "lock", "held", "waiting", "relock", "woken"}, NEW to,
             NEW u \in Threads, Goto(u, from, to)
      PROVE  at'[Reader] = "ended"
  <2>1. u # Reader BY <1>1 DEF Goto
  <2>2. at' = [at EXCEPT ![u] = to] BY <1>1 DEF Goto
  <2> QED BY <1>0, <2>1, <2>2
<1>2. CASE Call(t)
  <2>1. Goto(t, "busy", "lock") BY <1>2 DEF Call
  <2> QED BY <1>1, <2>1
<1>3. CASE Proceeds(t)
  <2>1. CASE IsSet \/ WaitReturns
    <3>1. Main \in Threads BY DEF Threads
    <3>2. \/ Goto(Reader, "held", IF flag_ THEN "ended" ELSE "busy")
          \/ Goto(Main, "woken", IF flag_ THEN "ended" ELSE "busy")
      BY <2>1 DEF IsSet, WaitReturns, Return
    <3> QED BY <1>0, <1>1, <3>1, <3>2, Zenon
  <2>2. CASE WaitBegins \/ WaitEnds
    <3>1. Main \in Threads BY DEF Threads
    <3>2. Goto(Main, "held", "waiting") \/ Goto(Main, "waiting", "relock")
      BY <2>2 DEF WaitBegins, WaitEnds
    <3> QED BY <1>1, <3>1, <3>2
  <2>3. CASE Set(t)
    <3>1. Goto(t, "held", "ended") BY <2>3 DEF Set
    <3> QED BY <1>1, <3>1
  <2> QED BY <1>3, <2>1, <2>2, <2>3 DEF Proceeds
<1>4. CASE Locks(t)
  <2>1. CASE HandlerLocks(t) BY <2>1 DEF HandlerLocks
  <2>2. CASE Lock(t, "lock", "held") \/ Lock(t, "relock", "woken")
    <3>1. Goto(t, "lock", "held") \/ Goto(t, "relock", "woken") BY <2>2 DEF Lock
    <3> QED BY <1>1, <3>1
  <2> QED BY <1>4, <2>1, <2>2 DEF Locks
<1>5. CASE HandlerSets(t) \/ Signal(t) BY <1>5 DEF HandlerSets, Signal
<1> QED BY <1>2, <1>3, <1>4, <1>5

\* What is true of each part, and what joins them.
Inv ==
    /\ EventInv /\ UbusTypeOK /\ SensorTypeOK /\ SensorInv
    /\ main = "ended" => at[Reader] = "ended"

LEMMA InvInit == Init => Inv
<1> SUFFICES ASSUME Init PROVE Inv OBVIOUS
<1>1. EventInv
  <2>1. signals = 0 /\ signals \in 0 .. MaxSignals
    BY EventAssumption DEF Init, EventInit
  <2>3. Values BY DEF Init, EventInit, Values
  <2>2. \A t \in Threads : ~Owns(t) /\ handler[t] # "held" /\ mtx_ # t
    BY EventAssumption DEF Init, EventInit, Owns, InSection
  <2> QED BY <2>1, <2>2, <2>3, EventInvIs DEF Owns
<1>2. UbusTypeOK
  <2>1. news = <<>> /\ <<>> \in Seq(BOOLEAN) /\ Len(<<>>) = 0 /\ MaxNews \in Nat
    BY UbusAssumption, EmptySeq DEF Init, UbusInit
  <2>2. Len(news) <= MaxNews BY <2>1
  <2>3. main \in {"monitor", "init"} /\ keeps \in BOOLEAN
    BY DEF Init, UbusInit
  <2> QED BY <2>1, <2>2, <2>3 DEF Init, UbusInit, UbusTypeOK
<1>3. SensorTypeOK BY FirstZone DEF Init, SensorInit, SensorTypeOK
<1>4. SensorInv BY DEF Init, SensorInit, SensorInv, ReadingIsTheZones
<1>5. main # "ended" BY DEF Init, UbusInit
<1> QED BY <1>1, <1>2, <1>3, <1>4, <1>5 DEF Inv

LEMMA InvStays == Inv /\ [Next]_vars => Inv'
<1> SUFFICES ASSUME Inv, [Next]_vars PROVE Inv' OBVIOUS
<1> DEFINE SensorRest == UNCHANGED svars
           EventRest == UNCHANGED evars
           UbusRest == UNCHANGED uvars
<1>1. EventRest => EventInv' /\ at' = at
  BY DEF evars, Inv, EventInv, EventTypeOK, InSection
<1>2. UbusRest => UbusTypeOK' /\ main' = main
  BY DEF uvars, subscriberVars, Inv, UbusTypeOK
<1>3. SensorRest => SensorTypeOK' /\ SensorInv'
  BY DEF svars, Inv, SensorTypeOK, SensorInv, Constructed, ReadingIsTheZones
<1>4. CASE Construct
  <2>1. EventRest /\ UbusRest /\ (BusMissing \/ Probe) BY <1>4 DEF Construct
  <2>2. SensorTypeOK' /\ SensorInv'
    BY <2>1, ConstructTypes, ConstructReads DEF Inv
  <2> QED BY <1>1, <1>2, <2>1, <2>2 DEF Inv
<1>5. ASSUME NEW t \in Threads, Sensor(t) PROVE Inv'
  <2>1. EventRest /\ UbusRest /\ t \in Callers /\ getTemperature(t)
    BY <1>5, PicodAssumption DEF Sensor
  <2>2. SensorTypeOK' /\ SensorInv' BY <2>1, CallTypes, CallReads DEF Inv
  <2> QED BY <1>1, <1>2, <2>1, <2>2 DEF Inv
<1>6. ASSUME NEW t \in Threads, Comes(t) \/ Acts(t) \/ Gets(t) \/ Interrupted(t) PROVE Inv'
  <2>1. UbusRest /\ SensorRest BY <1>6 DEF Comes, Acts, Gets, Interrupted
  <2>2. Call(t) \/ Proceeds(t) \/ Locks(t) \/ HandlerSets(t) \/ Signal(t)
    BY <1>6 DEF Comes, Acts, Gets, Interrupted
  <2>3. EventInv'
    BY <2>2, CallEvent, LockEvent, ProceedsEvent, HandlerEvent DEF Locks, Inv
  <2>4. main = "ended" => at'[Reader] = "ended"
    BY <2>2, EndedStays, EventInvIs DEF Inv
  <2> QED BY <1>2, <1>3, <2>1, <2>3, <2>4 DEF Inv
<1>7. CASE UloopInterrupted
  <2>1. UloopSignal /\ SensorRest /\ UNCHANGED <<flag_, mtx_, at, handler>>
        /\ signals' = signals + 1 /\ signals < MaxSignals /\ main' = main
    BY <1>7 DEF UloopInterrupted, UloopSignal
  <2>2. UbusTypeOK' BY <2>1, UbusTypes DEF Inv
  <2>3. signals' \in 0 .. MaxSignals
    BY <2>1, EventAssumption DEF Inv, EventInv, EventTypeOK
  <2>4. EventInv' BY <2>1, <2>3 DEF Inv, EventInv, EventTypeOK, InSection
  <2> QED BY <1>3, <2>1, <2>2, <2>4 DEF Inv
<1>8. CASE UbusMain \/ SubscribersChange
  <2>1. EventRest /\ SensorRest BY <1>8 DEF UbusMain, Main_, SubscribersChange
  <2>2. \/ Starts \/ Turn \/ SubscribeCb \/ ConnectionLost \/ JoinReader
        \/ Subscribers
    BY <1>8 DEF UbusMain, Main_, SubscribersChange
  <2>3. UbusTypeOK' BY <2>2, UbusTypes DEF Inv
  <2>4. main' = "ended" => main = "ended" \/ at[Reader] = "ended"
    BY <2>2 DEF Starts, Connect, ConnectFails, Turn, TimerExpires, NotifyTemperature,
                LoopEnds, SubscribeCb, ConnectionLost, JoinReader, Subscribers
  <2> QED BY <1>1, <1>3, <2>1, <2>3, <2>4 DEF Inv
<1>9. CASE UNCHANGED vars
  <2>1. EventRest /\ UbusRest /\ SensorRest BY <1>9 DEF vars
  <2> QED BY <1>1, <1>2, <1>3, <2>1 DEF Inv
<1> QED BY <1>4, <1>5, <1>6, <1>7, <1>8, <1>9 DEF Next

\* The mutex of the quit event belongs to whoever is between lock and unlock, main
\* leaves only after the reader, and all values keep their types.
THEOREM PicodTypeCorrect == Spec => []TypeOK
<1>1. Inv => TypeOK BY DEF Inv, EventInv, TypeOK
<1> QED BY <1>1, InvInit, InvStays, PTL DEF Spec

\* However many threads ask at once, each gets its zone's temperature or -273.
THEOREM ReadingsTrue == Spec => []ReadingIsTheZones
<1>1. Inv => ReadingIsTheZones BY DEF Inv, SensorInv
<1> QED BY <1>1, InvInit, InvStays, PTL DEF Spec
================================================================================
