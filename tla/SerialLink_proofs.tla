---------------------------- MODULE SerialLink_proofs ----------------------------
(***************************************************************************)
(* Proofs about SerialLink, for every set of threads, packet length, queue *)
(* size and number of requests.                                            *)
(*                                                                         *)
(* A line is in step with a receiver when its bytes are consecutive places *)
(* of packets, begin where the receiver is and end with the last byte of a *)
(* packet; only then does a packet written behind it continue it.          *)
(*                                                                         *)
(* As long as requests do not overlap there is one at a time, which goes   *)
(* through four stages: on the line, taken by the Pico, being answered,    *)
(* and answered; between two of them nothing but shutdown packets moves.   *)
(***************************************************************************)
EXTENDS SerialLink, SequenceTheorems, TLAPS

\* The bytes of q continue a packet at place p and end with a whole one.
InStep(q, p) ==
    /\ q \in Seq(Byte)
    /\ p \in Places
    /\ q = <<>> => p = 0
    /\ q # <<>> => q[1].pos = p /\ q[Len(q)].pos = PktLen - 1
    /\ \A i \in 1 .. Len(q), d \in Places :
          i + d <= Len(q) /\ q[i].pos + d < PktLen => q[i + d].pos = q[i].pos + d
    /\ \A i \in 1 .. Len(q) - 1 : q[i].pos = PktLen - 1 => q[i + 1].pos = 0

\* What the firmware never puts at the first place of a packet is a zero.
Sound(q) == \A i \in 1 .. Len(q) : q[i].magic # "none"

LEMMA Lengths == PktLen \in Nat \ {0} /\ PayloadLen \in Nat
BY LinkAssumption

LEMMA PacketInStep ==
    ASSUME NEW k \in Magics, NEW n \in Nat
    PROVE  /\ InStep(Packet(k, n), 0)
           /\ Packet(k, n) # <<>>
           /\ Sound(Packet(k, n))
<1> USE Lengths
<1>1. /\ Packet(k, n) \in Seq(Byte)
      /\ Len(Packet(k, n)) = PktLen
      /\ \A i \in 1 .. PktLen : Packet(k, n)[i] = [magic |-> k, id |-> n, pos |-> i - 1]
  BY DEF Packet, Byte, Places
<1>2. Packet(k, n) # <<>>
  BY <1>1
<1>3. k # "none"
  BY LinkAssumption DEF Magics
<1>4. Sound(Packet(k, n))
  BY <1>1, <1>3 DEF Sound
<1> QED
  BY <1>1, <1>2, <1>4 DEF InStep, Places

\* A packet written behind a line that is in step leaves it in step.
LEMMA WriteKeepsStep ==
    ASSUME NEW q, NEW p, InStep(q, p), Sound(q), NEW k \in Magics, NEW n \in Nat
    PROVE  InStep(q \o Packet(k, n), p) /\ Sound(q \o Packet(k, n))
<1> USE Lengths
<1> DEFINE r == Packet(k, n)
           c == q \o r
<1>1. InStep(r, 0) /\ r # <<>> /\ Sound(r)
  BY PacketInStep
<1> HIDE DEF r
<1>2. q \in Seq(Byte) /\ r \in Seq(Byte) /\ c \in Seq(Byte) /\ Len(c) = Len(q) + Len(r)
  BY <1>1 DEF InStep
<1>3. \A i \in 1 .. Len(c) : c[i] = IF i <= Len(q) THEN q[i] ELSE r[i - Len(q)]
  BY <1>2
<1>4. Len(r) > 0 /\ c # <<>>
  BY <1>1, <1>2
<1>5. Sound(c)
  BY <1>1, <1>2, <1>3 DEF Sound
<1>6. c[1].pos = p
  <2>1. CASE q = <<>>
    BY <2>1, <1>1, <1>2, <1>3, <1>4 DEF InStep
  <2>2. CASE q # <<>>
    BY <2>2, <1>2, <1>3, <1>4 DEF InStep
  <2> QED
    BY <2>1, <2>2
<1>7. c[Len(c)].pos = PktLen - 1
  BY <1>1, <1>2, <1>3, <1>4 DEF InStep
<1>8. ASSUME NEW i \in 1 .. Len(c), NEW d \in Places, i + d <= Len(c), c[i].pos + d < PktLen
      PROVE  c[i + d].pos = c[i].pos + d
  <2>1. CASE i + d <= Len(q)
    BY <2>1, <1>2, <1>3, <1>8 DEF InStep, Places
  <2>2. CASE i <= Len(q) /\ i + d > Len(q)
    <3> DEFINE e == Len(q) - i
    <3>1. e \in Places /\ e < d /\ i + e = Len(q) /\ q[i] \in Byte
      BY <2>2, <1>2, <1>8 DEF Places
    <3>2. q[i].pos \in Nat /\ q[i].pos + e < PktLen /\ q[i].pos + d < PktLen
      BY <2>2, <3>1, <1>2, <1>3, <1>8 DEF Byte, Places
    <3>3. q[Len(q)].pos = q[i].pos + e /\ q[Len(q)].pos = PktLen - 1
      BY <2>2, <3>1, <3>2, <1>2, SMTT(30) DEF InStep
    <3> QED
      BY <3>1, <3>2, <3>3, <1>2 DEF Places
  <2>3. CASE i > Len(q)
    <3>1. c[i] = r[i - Len(q)] /\ c[i + d] = r[i - Len(q) + d]
      BY <2>3, <1>2, <1>3, <1>8 DEF Places
    <3>2. i - Len(q) \in 1 .. Len(r) /\ i - Len(q) + d <= Len(r)
      BY <2>3, <1>2, <1>8 DEF Places
    <3> QED
      BY <3>1, <3>2, <1>1, <1>8 DEF InStep
  <2> QED
    BY <1>2, <1>8, <2>1, <2>2, <2>3 DEF Places
<1>9. ASSUME NEW i \in 1 .. Len(c) - 1, c[i].pos = PktLen - 1
      PROVE  c[i + 1].pos = 0
  <2>1. CASE i < Len(q)
    BY <2>1, <1>2, <1>3, <1>9 DEF InStep
  <2>2. CASE i = Len(q)
    BY <2>2, <1>1, <1>2, <1>3, <1>4 DEF InStep
  <2>3. CASE i > Len(q)
    <3>1. c[i] = r[i - Len(q)] /\ c[i + 1] = r[i - Len(q) + 1]
      BY <2>3, <1>2, <1>3, <1>4, <1>9
    <3>2. i - Len(q) \in 1 .. Len(r) - 1
      BY <2>3, <1>2, <1>9
    <3> QED
      BY <3>1, <3>2, <1>1, <1>9 DEF InStep
  <2> QED
    BY <1>2, <1>9, <2>1, <2>2, <2>3
<1> QED
  BY <1>2, <1>4, <1>5, <1>6, <1>7, <1>8, <1>9 DEF InStep, r

\* Taking n bytes, at most to the end of the packet, moves the receiver n places on.
LEMMA DropKeepsStep ==
    ASSUME NEW q, NEW p, InStep(q, p), NEW n \in 1 .. Len(q), p + n <= PktLen
    PROVE  InStep(SubSeq(q, n + 1, Len(q)), IF p + n = PktLen THEN 0 ELSE p + n)
<1> USE Lengths
<1> DEFINE t == SubSeq(q, n + 1, Len(q))
           o == IF p + n = PktLen THEN 0 ELSE p + n
<1>1. /\ q \in Seq(Byte) /\ Len(q) \in Nat \ {0} /\ q # <<>>
      /\ t \in Seq(Byte) /\ Len(t) = Len(q) - n
      /\ \A i \in 1 .. Len(t) : t[i] = q[i + n]
  BY DEF InStep
<1>2. p \in Nat /\ o \in Places /\ n \in Nat
  BY DEF InStep, Places
<1>3. q[1].pos = p /\ q[Len(q)].pos = PktLen - 1
  BY <1>1 DEF InStep
<1>4. q[n].pos = p + n - 1
  <2>1. n - 1 \in Places /\ 1 + (n - 1) = n /\ q[1].pos + (n - 1) < PktLen
    BY <1>2, <1>3 DEF Places
  <2>2. 1 + (n - 1) <= Len(q) /\ 1 \in 1 .. Len(q)
    BY <1>1, <2>1
  <2>3. q[1 + (n - 1)].pos = q[1].pos + (n - 1)
    BY <2>1, <2>2 DEF InStep
  <2> QED
    BY <1>2, <1>3, <2>1, <2>3
<1>7. o = IF p + n = PktLen THEN 0 ELSE p + n
  OBVIOUS
<1> HIDE DEF t, o
<1>5. ASSUME n = Len(q) PROVE InStep(t, o)
  <2>1. t = <<>>
    BY <1>1, <1>5, EmptySeq
  <2>2. o = 0
    BY <1>1, <1>2, <1>3, <1>4, <1>5, <1>7
  <2>3. Len(t) = 0
    BY <1>1, <1>5
  <2> QED
    BY <1>1, <1>2, <2>1, <2>2, <2>3 DEF InStep
<1>6. ASSUME n < Len(q) PROVE InStep(t, o)
  <2>1. t # <<>>
    BY <1>1, <1>6
  <2>2. t[1].pos = o
    <3>1. t[1] = q[n + 1]
      BY <1>1, <1>6
    <3>2. CASE p + n = PktLen
      <4>1. n \in 1 .. Len(q) - 1 /\ q[n].pos = PktLen - 1
        BY <3>2, <1>1, <1>2, <1>4, <1>6
      <4>2. q[n + 1].pos = 0
        BY <4>1 DEF InStep
      <4> QED
        BY <3>1, <3>2, <4>2, <1>7
    <3>3. CASE p + n < PktLen
      <4>1. n \in Places /\ 1 + n <= Len(q) /\ q[1].pos + n < PktLen
        BY <3>3, <1>1, <1>2, <1>3, <1>6 DEF Places
      <4>2. q[1 + n].pos = q[1].pos + n
        BY <4>1, <1>1 DEF InStep
      <4> QED
        BY <3>1, <3>3, <4>2, <1>2, <1>3, <1>7
    <3> QED
      BY <1>2, <3>2, <3>3
  <2>3. t[Len(t)].pos = PktLen - 1
    BY <1>1, <1>3, <1>6
  <2>4. ASSUME NEW i \in 1 .. Len(t), NEW d \in Places, i + d <= Len(t), t[i].pos + d < PktLen
        PROVE  t[i + d].pos = t[i].pos + d
    <3>1. d \in Nat /\ i \in 1 .. Len(t) /\ i + d \in 1 .. Len(t)
      BY <2>4, <1>1 DEF Places
    <3>2. t[i] = q[i + n] /\ t[i + d] = q[(i + d) + n]
      BY <3>1, <1>1
    <3>3. i + n \in 1 .. Len(q) /\ (i + n) + d <= Len(q) /\ (i + d) + n = (i + n) + d
      BY <3>1, <1>1, <1>2
    <3>4. q[(i + n) + d].pos = q[i + n].pos + d
      BY <2>4, <3>2, <3>3 DEF InStep
    <3> QED
      BY <3>2, <3>3, <3>4
  <2>5. ASSUME NEW i \in 1 .. Len(t) - 1, t[i].pos = PktLen - 1
        PROVE  t[i + 1].pos = 0
    <3>1. i \in 1 .. Len(t) /\ i + 1 \in 1 .. Len(t) /\ i + n \in 1 .. Len(q) - 1
      BY <2>5, <1>1, <1>2
    <3>2. t[i] = q[i + n] /\ t[i + 1] = q[(i + 1) + n] /\ (i + 1) + n = (i + n) + 1
      BY <3>1, <1>1, <1>2
    <3>3. q[(i + n) + 1].pos = 0
      BY <2>5, <3>1, <3>2 DEF InStep
    <3> QED
      BY <3>2, <3>3
  <2> QED
    BY <1>1, <1>2, <2>1, <2>2, <2>3, <2>4, <2>5 DEF InStep
<1> QED
  BY <1>1, <1>5, <1>6 DEF t, o

\* Taking the first byte moves the receiver one place on.
LEMMA TakeKeepsStep ==
    ASSUME NEW q, NEW p, InStep(q, p), Sound(q), q # <<>>
    PROVE  /\ InStep(Tail(q), NextPlace(p))
           /\ Sound(Tail(q))
           /\ Head(q).pos = p
           /\ Head(q) \in Byte
           /\ Head(q).magic # "none"
<1> USE Lengths
<1>1. /\ q \in Seq(Byte) /\ Len(q) \in Nat \ {0} /\ p \in Nat /\ p < PktLen
      /\ Tail(q) = SubSeq(q, 2, Len(q)) /\ Len(Tail(q)) = Len(q) - 1
      /\ \A i \in 1 .. Len(q) - 1 : Tail(q)[i] = q[i + 1]
      /\ Head(q) = q[1]
  BY DEF InStep, Places
<1>2. InStep(Tail(q), NextPlace(p))
  <2>1. 1 \in 1 .. Len(q) /\ p + 1 <= PktLen /\ Tail(q) = SubSeq(q, 1 + 1, Len(q))
    BY <1>1
  <2>2. InStep(SubSeq(q, 1 + 1, Len(q)), IF p + 1 = PktLen THEN 0 ELSE p + 1)
    BY <2>1, DropKeepsStep
  <2> QED
    BY <2>1, <2>2 DEF NextPlace
<1>3. Sound(Tail(q)) /\ Head(q).pos = p /\ Head(q) \in Byte /\ Head(q).magic # "none"
  BY <1>1 DEF Sound, InStep
<1> QED
  BY <1>2, <1>3

-----------------------------------------------------------------------------
(* From picod to the Pico *)

SenderType ==
    /\ kind \in [Senders -> Magics]
    /\ number \in [Senders -> Nat]
    /\ requests \in Nat

LineType ==
    /\ output \in Seq(Byte)
    /\ rx_idx \in Places
    /\ req \in [Places -> Byte]
    /\ restarts \in Nat

\* Before any restart the line continues the packet the interrupt is taking.
LineInStep == restarts = 0 => InStep(output, rx_idx) /\ Sound(output)

LineInv == SenderType /\ LineType /\ LineInStep

LEMMA RequestType ==
    ASSUME SenderType, NEW s, NEW k \in Magics, Request(s, k)
    PROVE  SenderType'
<1>1. requests' \in Nat
  BY DEF SenderType, Request
<1>2. kind' \in [Senders -> Magics]
  BY DEF SenderType, Request
<1>3. number' \in [Senders -> Nat]
  BY <1>1 DEF SenderType, Request
<1> QED
  BY <1>1, <1>2, <1>3 DEF SenderType

LEMMA ReturnType == ASSUME SenderType, NEW s, Return(s) PROVE SenderType'
<1>1. CASE s = Reader
  BY <1>1, RequestType DEF Return, Magics
<1>2. CASE s # Reader
  BY <1>2 DEF Return, SenderType
<1> QED
  BY <1>1, <1>2

\* What the senders' own steps do to their kinds and numbers.
LEMMA SenderTypeStep == ASSUME SenderType, [Next]_vars PROVE SenderType'
<1>1. Kinds \subseteq Magics /\ "fan" \in Magics
  BY LinkAssumption DEF Magics
<1>2. ASSUME NEW c \in Clients, Begin(c) PROVE SenderType'
  BY <1>1, <1>2, RequestType DEF Begin
<1>3. ASSUME NEW s \in Senders, Send(s) PROVE SenderType'
  <2>1. CASE Flush(s)
    BY <2>1 DEF Flush, SenderType, bounds
  <2>2. CASE Write(s)
    BY <2>2 DEF Write, SenderType, bounds
  <2>3. CASE Pop(s)
    BY <2>3, ReturnType DEF Pop
  <2>4. CASE GiveUp(s)
    BY <2>4, ReturnType DEF GiveUp
  <2> QED
    BY <1>3, <2>1, <2>2, <2>3, <2>4 DEF Send, Wait
<1>4. CASE ReaderThread
  <2>1. CASE HandleShutdown
    BY <1>1, <2>1, RequestType DEF HandleShutdown
  <2>2. CASE Read \/ Enqueue \/ HostDiscards \/ PowerOff
    BY <2>2 DEF Read, Enqueue, HostDiscards, PowerOff, SenderType, bounds
  <2> QED
    BY <1>4, <2>1, <2>2 DEF ReaderThread
<1>5. CASE OnUartRx \/ RaiseShutdown
  BY <1>5 DEF OnUartRx, RaiseShutdown, SenderType, hostVars, bounds
<1>6. CASE MainLoop
  BY <1>6 DEF MainLoop, Top, UartWrite, Notified, Poll, Dispatch, PicoDiscards, BlinkEnds,
              Exec, PktShutdown, Replied, SenderType, hostVars, bounds
<1>7. CASE Restart
  BY <1>1, <1>7 DEF Restart, SenderType
<1>8. CASE UNCHANGED vars
  BY <1>8 DEF vars, hostVars, bounds, SenderType
<1> QED
  BY <1>2, <1>3, <1>4, <1>5, <1>6, <1>7, <1>8 DEF Next

LEMMA LineKept ==
    ASSUME LineType, LineInStep, UNCHANGED <<output, rx_idx, req, restarts>>
    PROVE  LineType' /\ LineInStep'
BY DEF LineType, LineInStep, InStep, Sound

LEMMA LineWrite ==
    ASSUME SenderType, LineType, LineInStep, NEW s \in Senders, Write(s), output' # output
    PROVE  LineType' /\ LineInStep'
<1>1. kind[s] \in Magics /\ number[s] \in Nat
  BY DEF SenderType
<1>2. output' = output \o Packet(kind[s], number[s]) /\ UNCHANGED <<rx_idx, req, restarts>>
  BY DEF Write, rxVars, bounds
<1>3. Packet(kind[s], number[s]) \in Seq(Byte)
  BY <1>1, PacketInStep DEF InStep
<1>4. LineType'
  BY <1>2, <1>3 DEF LineType
<1>5. ASSUME restarts' = 0 PROVE InStep(output', rx_idx') /\ Sound(output')
  <2>1. InStep(output, rx_idx) /\ Sound(output)
    BY <1>2, <1>5 DEF LineInStep
  <2> QED
    BY <1>1, <1>2, <2>1, WriteKeepsStep
<1>6. LineInStep'
  BY <1>5 DEF LineInStep
<1> QED
  BY <1>4, <1>6

LEMMA LineReceive ==
    ASSUME LineType, LineInStep, OnUartRx
    PROVE  LineType' /\ LineInStep'
<1> USE Lengths
<1>1. output # <<>> /\ output' = Tail(output) /\ UNCHANGED restarts
  BY DEF OnUartRx, bounds
<1>2. Head(output) \in Byte /\ Tail(output) \in Seq(Byte)
  BY <1>1 DEF LineType
<1>3. LineType'
  <2>1. CASE Dropped(Head(output))
    BY <1>1, <1>2, <2>1 DEF OnUartRx, LineType, rxVars
  <2>2. CASE ~Dropped(Head(output))
    BY <1>1, <1>2, <2>2 DEF OnUartRx, LineType, NextPlace, Places
  <2> QED
    BY <2>1, <2>2
<1>4. ASSUME restarts' = 0 PROVE InStep(output', rx_idx') /\ Sound(output')
  <2>1. InStep(output, rx_idx) /\ Sound(output)
    BY <1>1, <1>4 DEF LineInStep
  <2>2. /\ InStep(Tail(output), NextPlace(rx_idx)) /\ Sound(Tail(output))
        /\ Head(output).pos = rx_idx /\ Head(output).magic # "none"
    BY <1>1, <2>1, TakeKeepsStep
  <2>3. ~Dropped(Head(output))
    BY <2>2 DEF Dropped, IsNull
  <2>4. rx_idx' = NextPlace(rx_idx)
    BY <2>3 DEF OnUartRx
  <2> QED
    BY <1>1, <2>2, <2>4
<1>5. LineInStep'
  BY <1>4 DEF LineInStep
<1> QED
  BY <1>3, <1>5

LEMMA LineStep == ASSUME LineInv, [Next]_vars PROVE LineInv'
<1>1. SenderType /\ LineType /\ LineInStep
  BY DEF LineInv
<1>2. SenderType'
  BY <1>1, SenderTypeStep
<1>3. LineType' /\ LineInStep'
  <2>1. ASSUME NEW c \in Clients, Begin(c) PROVE LineType' /\ LineInStep'
    BY <1>1, <2>1, LineKept DEF Begin, rxVars
  <2>2. ASSUME NEW s \in Senders, Send(s) PROVE LineType' /\ LineInStep'
    <3>1. CASE Write(s) /\ output' # output
      BY <1>1, <3>1, LineWrite
    <3>2. CASE Flush(s) \/ Pop(s) \/ GiveUp(s)
      BY <1>1, <3>2, LineKept DEF Flush, Pop, GiveUp, rxVars, bounds
    <3>3. CASE Write(s) /\ UNCHANGED output
      BY <1>1, <3>3, LineKept DEF Write, rxVars, bounds
    <3> QED
      BY <2>2, <3>1, <3>2, <3>3 DEF Send, Wait
  <2>3. CASE ReaderThread
    BY <1>1, <2>3, LineKept
    DEF ReaderThread, Read, Enqueue, HandleShutdown, HostDiscards, PowerOff, rxVars, bounds
  <2>4. CASE OnUartRx
    BY <1>1, <2>4, LineReceive
  <2>5. CASE PicoDiscards
    <3>1. UNCHANGED <<output, rx_idx, restarts>> /\ req' = [i \in Places |-> Wiped]
      BY <2>5 DEF PicoDiscards, bounds
    <3>2. Wiped \in Byte
      BY Lengths DEF Wiped, Byte, Places
    <3> QED
      BY <1>1, <3>1, <3>2 DEF LineType, LineInStep, InStep, Sound
  <2>6. CASE MainLoop /\ ~PicoDiscards
    BY <1>1, <2>6, LineKept
    DEF MainLoop, Top, UartWrite, Notified, Poll, Dispatch, BlinkEnds, Exec, PktShutdown,
        Replied, rxVars, bounds
  <2>7. CASE RaiseShutdown \/ UNCHANGED vars
    BY <1>1, <2>7, LineKept DEF RaiseShutdown, rxVars, bounds, vars
  <2>8. CASE Restart
    <3>1. restarts' = restarts + 1 /\ output' = <<>> /\ UNCHANGED <<rx_idx, req>>
      BY <2>8 DEF Restart, rxVars
    <3>2. <<>> \in Seq(Byte)
      BY EmptySeq
    <3> QED
      BY <1>1, <3>1, <3>2 DEF LineType, LineInStep
  <2> QED
    BY <2>1, <2>2, <2>3, <2>4, <2>5, <2>6, <2>7, <2>8 DEF Next
<1> QED
  BY <1>2, <1>3 DEF LineInv

LEMMA LineInit == ASSUME Init PROVE LineInv
<1>1. "fan" \in Magics /\ Wiped \in Byte /\ 0 \in Places
  BY Lengths, LinkAssumption DEF Magics, Wiped, Byte, Places
<1>2. SenderType
  BY <1>1 DEF Init, SenderType
<1>3. LineType
  BY <1>1, EmptySeq DEF Init, LineType
<1>4. LineInStep
  BY <1>1, EmptySeq DEF Init, LineInStep, InStep, Sound
<1> QED
  BY <1>2, <1>3, <1>4 DEF LineInv

\* The Pico's receive interrupt never loses its place in on_uart_rx unless the
\* CM4 is restarted while it writes: dropping zeros and wiping pkt are harmless.
THEOREM PicoFraming == Spec => []PicoInStep
<1>1. LineInv => PicoInStep
  BY DEF LineInv, LineInStep, PicoInStep, InStep
<1> QED
  BY <1>1, LineInit, LineStep, PTL DEF Spec

-----------------------------------------------------------------------------
(* From the Pico to picod *)

ReaderPlace == IF Len(resp) = PktLen THEN 0 ELSE Len(resp)

ComingType == resp \in Seq(Byte) /\ input \in Seq(Byte) /\ sending \in Seq(Byte)

\* A packet that is complete is being dispatched, and no other.
ReaderType ==
    /\ DOMAIN pc = Senders
    /\ Len(resp) <= PktLen
    /\ Len(resp) = PktLen <=> pc[Reader] = "dispatch"

\* The Pico writes one packet at a time, of a kind that exists.
WriterType ==
    /\ ppc \notin {"notify", "reply"} => sending = <<>>
    /\ handler \in Magics \cup {"none"}
    /\ ppc = "exec" => handler \in Magics

\* Until bytes are lost, what comes continues the packet the reader is at.
ComingInStep == ~cut => InStep(Coming, ReaderPlace) /\ Sound(Coming)

HostInv == LineInv /\ ComingType /\ ReaderType /\ WriterType /\ ComingInStep

HostGoal == ComingType' /\ ReaderType' /\ WriterType' /\ ComingInStep'

\* Steps that touch neither the bytes nor the two places.
LEMMA ComingKept ==
    ASSUME ComingType, ComingInStep, UNCHANGED <<resp, input, sending, cut>>
    PROVE  ComingType' /\ ComingInStep'
BY DEF ComingType, ComingInStep, InStep, Sound, Coming, ReaderPlace

LEMMA WriterKept ==
    ASSUME WriterType, UNCHANGED <<ppc, sending, handler>>
    PROVE  WriterType'
BY DEF WriterType

\* A sender other than a dispatching reader moves on.
LEMMA ReaderKept ==
    ASSUME ReaderType, UNCHANGED resp, NEW s \in Senders, NEW l,
           pc' = [pc EXCEPT ![s] = l], pc[s] # "dispatch", l # "dispatch"
    PROVE  ReaderType'
<1>1. Reader \in Senders
  BY DEF Senders
<1> QED
  BY <1>1 DEF ReaderType

LEMMA ReturnKept ==
    ASSUME ReaderType, UNCHANGED resp, NEW s \in Senders, Return(s), pc[s] = "wait"
    PROVE  ReaderType'
BY ReaderKept DEF Return, Request

LEMMA FlushFrames ==
    ASSUME HostInv, NEW s \in Senders, Flush(s)
    PROVE  HostGoal
<1>1. ComingType'
  BY EmptySeq DEF HostInv, ComingType, Flush, loopVars
<1>2. ReaderType'
  BY ReaderKept DEF HostInv, Flush
<1>3. WriterType'
  BY WriterKept DEF HostInv, Flush, loopVars
<1>4. ComingInStep'
  <2>1. ASSUME ~cut' PROVE ~cut /\ UNCHANGED <<resp, input, sending>>
    BY <2>1 DEF Flush, loopVars
  <2> QED
    BY <2>1 DEF HostInv, ComingInStep, InStep, Sound, Coming, ReaderPlace
<1> QED
  BY <1>1, <1>2, <1>3, <1>4 DEF HostGoal

LEMMA SenderFrames ==
    ASSUME HostInv, NEW s \in Senders, Send(s)
    PROVE  HostGoal
<1>1. CASE Flush(s)
  BY <1>1, FlushFrames
<1>2. CASE Write(s)
  <2>1. ReaderType'
    BY <1>2, ReaderKept DEF HostInv, Write
  <2> QED
    BY <1>2, <2>1, ComingKept, WriterKept DEF HostInv, HostGoal, Write, loopVars
<1>3. CASE Pop(s) \/ GiveUp(s)
  <2>1. ReaderType'
    BY <1>3, ReturnKept DEF HostInv, Pop, GiveUp
  <2> QED
    BY <1>3, <2>1, ComingKept, WriterKept DEF HostInv, HostGoal, Pop, GiveUp, loopVars, history
<1> QED
  BY <1>1, <1>2, <1>3 DEF Send, Wait

LEMMA BeginFrames ==
    ASSUME HostInv, NEW c \in Clients, Begin(c)
    PROVE  HostGoal
<1>1. ReaderType'
  <2>1. c \in Senders
    BY DEF Senders
  <2> QED
    BY <2>1, ReaderKept DEF HostInv, Begin, Request
<1> QED
  BY <1>1, ComingKept, WriterKept DEF HostInv, HostGoal, Begin, loopVars, history

LEMMA ReadFrames == ASSUME HostInv, Read PROVE HostGoal
<1> USE Lengths
<1>1. PICK n \in 1 .. Len(input) :
        /\ n <= PktLen - Len(resp)
        /\ resp' = resp \o SubSeq(input, 1, n)
        /\ input' = SubSeq(input, n + 1, Len(input))
  BY DEF Read, ReadLimit
<1>2. /\ resp \in Seq(Byte) /\ input \in Seq(Byte) /\ sending \in Seq(Byte)
      /\ sending' = sending /\ cut' = cut
  BY DEF HostInv, ComingType, Read, loopVars, history
<1>3. /\ resp' \in Seq(Byte) /\ Len(resp') = Len(resp) + n
      /\ input' \in Seq(Byte) /\ Len(input') = Len(input) - n
      /\ \A i \in 1 .. Len(input') : input'[i] = input[i + n]
  BY <1>1, <1>2, SMTT(30)
<1>4. Reader \in Senders /\ pc[Reader] = "read"
  BY DEF Senders, Read
<1>5. ReaderType'
  BY <1>1, <1>2, <1>3, <1>4 DEF HostInv, ReaderType, Read
<1>6. Coming' = SubSeq(Coming, n + 1, Len(Coming))
  <2> DEFINE i1 == input'
             c == input \o sending
             c1 == i1 \o sending
             r == SubSeq(c, n + 1, Len(c))
  <2>1. /\ c \in Seq(Byte) /\ Len(c) = Len(input) + Len(sending)
        /\ \A i \in 1 .. Len(c) :
              c[i] = IF i <= Len(input) THEN input[i] ELSE sending[i - Len(input)]
    BY <1>2, ConcatProperties
  <2> HIDE DEF i1
  <2>2. /\ i1 \in Seq(Byte) /\ Len(i1) = Len(input) - n
        /\ \A i \in 1 .. Len(i1) : i1[i] = input[i + n]
    BY <1>3 DEF i1
  <2>3. /\ c1 \in Seq(Byte) /\ Len(c1) = Len(i1) + Len(sending)
        /\ \A i \in 1 .. Len(c1) : c1[i] = IF i <= Len(i1) THEN i1[i] ELSE sending[i - Len(i1)]
    BY <1>2, <2>2, ConcatProperties, ZenonT(60)
  <2>4. n \in Nat /\ n >= 1 /\ n <= Len(input) /\ Len(input) \in Nat /\ Len(sending) \in Nat
    BY <1>2
  <2> HIDE DEF c, c1
  <2>5. /\ r \in Seq(Byte) /\ Len(r) = Len(c) - n
        /\ \A i \in 1 .. Len(r) : r[i] = c[i + n]
    BY <2>1, <2>4
  <2> HIDE DEF r
  <2>6. Len(r) = Len(c1)
    BY <2>1, <2>2, <2>3, <2>4, <2>5
  <2>7. ASSUME NEW i \in 1 .. Len(r) PROVE r[i] = c1[i]
    <3>1. i + n \in 1 .. Len(c) /\ i \in 1 .. Len(c1) /\ r[i] = c[i + n]
      BY <2>1, <2>4, <2>5, <2>6
    <3>2. CASE i + n <= Len(input)
      BY <3>1, <3>2, <2>1, <2>2, <2>3, <2>4
    <3>3. CASE i + n > Len(input)
      <4>1. c[i + n] = sending[i + n - Len(input)]
        BY <3>1, <3>3, <2>1, <2>4
      <4>2. c1[i] = sending[i - Len(i1)] /\ i - Len(i1) = i + n - Len(input)
        BY <3>1, <3>3, <2>2, <2>3, <2>4
      <4> QED
        BY <3>1, <4>1, <4>2
    <3> QED
      BY <2>4, <3>2, <3>3
  <2>8. r = c1
    BY <2>3, <2>5, <2>6, <2>7, SeqEqual
  <2> QED
    BY <1>2, <2>8 DEF r, c, c1, i1, Coming
<1>7. ASSUME ~cut' PROVE InStep(Coming', ReaderPlace') /\ Sound(Coming')
  <2>1. InStep(Coming, ReaderPlace) /\ Sound(Coming)
    BY <1>2, <1>7 DEF HostInv, ComingInStep
  <2>2. ReaderPlace = Len(resp)
    BY <1>4 DEF HostInv, ReaderType, ReaderPlace
  <2>3. /\ Coming \in Seq(Byte) /\ Len(Coming) = Len(input) + Len(sending)
        /\ n \in 1 .. Len(Coming) /\ Len(resp) + n <= PktLen
    BY <1>1, <1>2 DEF Coming
  <2>4. InStep(Coming', IF Len(resp) + n = PktLen THEN 0 ELSE Len(resp) + n)
    BY <1>6, <2>1, <2>2, <2>3, DropKeepsStep
  <2>5. Sound(Coming')
    BY <1>6, <2>1, <2>3 DEF Sound
  <2> QED
    BY <1>3, <2>4, <2>5 DEF ReaderPlace
<1>8. WriterType'
  BY WriterKept DEF HostInv, Read, loopVars
<1> QED
  BY <1>2, <1>3, <1>5, <1>7, <1>8 DEF HostGoal, ComingType, ComingInStep

\* A packet that was complete leaves the buffer empty.
LEMMA DispatchFrames ==
    ASSUME HostInv, Enqueue \/ HandleShutdown \/ HostDiscards
    PROVE  HostGoal
<1>1. /\ pc[Reader] = "dispatch" /\ resp' = <<>>
      /\ UNCHANGED <<input, sending, ppc, handler, cut>>
      /\ \E l \in {"read", "flush"} : pc' = [pc EXCEPT ![Reader] = l]
  BY DEF Enqueue, HandleShutdown, HostDiscards, Request, loopVars, history
<1>2. Len(resp) = PktLen /\ Len(resp') = 0 /\ resp' \in Seq(Byte)
  BY <1>1, EmptySeq DEF HostInv, ReaderType
<1>3. ReaderPlace = 0 /\ ReaderPlace' = 0
  BY <1>2, Lengths DEF ReaderPlace
<1>4. ReaderType'
  <2>1. Reader \in Senders
    BY DEF Senders
  <2> QED
    BY <1>1, <1>2, <2>1, Lengths DEF HostInv, ReaderType
<1>5. ComingType'
  BY <1>1, <1>2 DEF HostInv, ComingType
<1>6. ComingInStep'
  <2>1. Coming' = Coming /\ cut' = cut
    BY <1>1 DEF Coming
  <2> QED
    BY <1>3, <2>1 DEF HostInv, ComingInStep, InStep, Sound
<1>7. WriterType'
  BY <1>1, WriterKept DEF HostInv
<1> QED
  BY <1>4, <1>5, <1>6, <1>7 DEF HostGoal

LEMMA ReaderFrames == ASSUME HostInv, ReaderThread PROVE HostGoal
<1>1. CASE Read
  BY <1>1, ReadFrames
<1>2. CASE Enqueue \/ HandleShutdown \/ HostDiscards
  BY <1>2, DispatchFrames
<1>3. CASE PowerOff
  <2>1. ReaderType'
    BY <1>3, ReaderKept DEF HostInv, PowerOff, Senders
  <2> QED
    BY <1>3, <2>1, ComingKept, WriterKept DEF HostInv, HostGoal, PowerOff, loopVars, history
<1> QED
  BY <1>1, <1>2, <1>3 DEF ReaderThread

\* A packet put on its way while nothing is being written.
LEMMA StartFrames ==
    ASSUME HostInv, NEW k \in Magics, NEW n \in Nat, sending = <<>>, sending' = Packet(k, n),
           UNCHANGED <<resp, input, cut>>
    PROVE  ComingType' /\ ComingInStep'
<1>1. Packet(k, n) \in Seq(Byte)
  BY PacketInStep DEF InStep
<1>2. Coming = input /\ Coming' = input \o Packet(k, n)
  BY ConcatEmptySeq DEF Coming, HostInv, ComingType
<1>3. ComingType'
  BY <1>1 DEF HostInv, ComingType
<1>4. ASSUME ~cut' PROVE InStep(Coming', ReaderPlace') /\ Sound(Coming')
  <2>1. InStep(input, ReaderPlace) /\ Sound(input)
    BY <1>2, <1>4 DEF HostInv, ComingInStep
  <2>2. InStep(input \o Packet(k, n), ReaderPlace) /\ Sound(input \o Packet(k, n))
    BY <2>1, WriteKeepsStep
  <2> QED
    BY <1>2, <2>2 DEF ReaderPlace
<1> QED
  BY <1>3, <1>4 DEF ComingInStep

LEMMA ReaderStays == ASSUME ReaderType, UNCHANGED <<pc, resp>> PROVE ReaderType'
BY DEF ReaderType

LEMMA TopFrames == ASSUME HostInv, Top PROVE HostGoal
<1>1. ReaderType'
  BY ReaderStays DEF HostInv, Top, hostVars
<1>2. sending = <<>> /\ handler' = handler
  BY DEF HostInv, WriterType, Top
<1>3. CASE is_host_shutdown_request_pending
  <2>1. ppc' = "notify" /\ sending' = Packet("shutdown", 0) /\ UNCHANGED <<resp, input, cut>>
    BY <1>3 DEF Top, hostVars, history
  <2>2. "shutdown" \in Magics /\ 0 \in Nat
    BY DEF Magics
  <2>3. ComingType' /\ ComingInStep'
    BY <1>2, <2>1, <2>2, StartFrames
  <2> QED
    BY <1>1, <1>2, <2>1, <2>3 DEF HostInv, HostGoal, WriterType
<1>4. CASE ~is_host_shutdown_request_pending
  <2>1. ppc' = "poll" /\ UNCHANGED <<resp, input, sending, cut>>
    BY <1>4 DEF Top, hostVars, history
  <2>2. ComingType' /\ ComingInStep'
    BY <2>1, ComingKept DEF HostInv
  <2> QED
    BY <1>1, <1>2, <2>1, <2>2 DEF HostInv, HostGoal, WriterType
<1> QED
  BY <1>3, <1>4

LEMMA ExecFrames == ASSUME HostInv, Exec PROVE HostGoal
<1>1. ReaderType'
  BY ReaderStays DEF HostInv, Exec, hostVars
<1>2. /\ ppc = "exec" /\ ppc' = "reply" /\ sending = <<>>
      /\ handler \in Magics /\ handler' = handler
  BY DEF HostInv, WriterType, Exec
<1>3. PayloadId \in Nat
  <2>1. req[PktLen - 1].id \in Nat
    BY Lengths DEF HostInv, LineInv, LineType, Places, Byte
  <2> QED
    BY <2>1 DEF PayloadId
<1>4. sending' = Packet(handler, PayloadId) /\ UNCHANGED <<resp, input, cut>>
  BY DEF Exec, hostVars, history
<1>5. ComingType' /\ ComingInStep'
  BY <1>2, <1>3, <1>4, StartFrames
<1> QED
  BY <1>1, <1>2, <1>5 DEF HostGoal, WriterType

\* A byte moves from the Pico's hands to the kernel's buffer.
LEMMA UartWriteFrames == ASSUME HostInv, UartWrite PROVE HostGoal
<1>1. /\ sending # <<>> /\ input' = Append(input, Head(sending)) /\ sending' = Tail(sending)
      /\ UNCHANGED <<pc, resp, ppc, handler, cut>> /\ ppc \in {"notify", "reply"}
  BY DEF UartWrite, hostVars, history
<1>2. input \in Seq(Byte) /\ sending \in Seq(Byte)
  BY DEF HostInv, ComingType
<1>3. Head(sending) \in Byte /\ Tail(sending) \in Seq(Byte)
  BY <1>1, <1>2, HeadTailProperties
<1>4. ComingType'
  BY <1>1, <1>2, <1>3 DEF HostInv, ComingType
<1>5. Coming' = Coming
  <2> DEFINE a == Append(input, Head(sending)) \o Tail(sending)
             c == input \o sending
  <2>1. c \in Seq(Byte) /\ a \in Seq(Byte) /\ Len(a) = Len(c)
    BY <1>1, <1>2, <1>3
  <2>2. \A i \in 1 .. Len(a) : a[i] = c[i]
    BY <1>1, <1>2, <1>3
  <2> HIDE DEF a, c
  <2>3. a = c
    BY <2>1, <2>2, SeqEqual
  <2> QED
    BY <1>1, <2>3 DEF a, c, Coming
<1>6. ComingInStep'
  BY <1>1, <1>5 DEF HostInv, ComingInStep, InStep, Sound, ReaderPlace
<1>7. ReaderType' /\ WriterType'
  BY <1>1, ReaderStays DEF HostInv, WriterType
<1> QED
  BY <1>4, <1>6, <1>7 DEF HostGoal

LEMMA DispatchTypes == ASSUME HostInv, Dispatch PROVE HostGoal
<1>1. req[0] \in Byte
  BY Lengths DEF HostInv, LineInv, LineType, Places
<1>2. MagicOf(req[0]) \in Magics \cup {"none"}
  BY <1>1, LinkAssumption DEF MagicOf, Byte
<1>3. /\ handler' \in Magics /\ ppc' = "exec" /\ sending = <<>>
      /\ UNCHANGED <<pc, resp, input, sending, cut>>
  BY <1>2 DEF Dispatch, HostInv, WriterType, hostVars, history
<1> QED
  BY <1>3, ComingKept, ReaderStays DEF HostInv, HostGoal, WriterType

LEMMA OtherLoopFrames ==
    ASSUME HostInv, Notified \/ Poll \/ PicoDiscards \/ BlinkEnds \/ PktShutdown \/ Replied
    PROVE  HostGoal
<1>1. /\ UNCHANGED <<pc, resp, input, sending, cut, handler>>
      /\ ppc' \notin {"notify", "reply", "exec"}
  BY DEF Notified, Poll, PicoDiscards, BlinkEnds, PktShutdown, Replied, hostVars, history
<1>2. sending = <<>>
  BY DEF HostInv, WriterType, Notified, Poll, PicoDiscards, BlinkEnds, PktShutdown, Replied
<1> QED
  BY <1>1, <1>2, ComingKept, ReaderStays DEF HostInv, HostGoal, WriterType

LEMMA HostStep == ASSUME HostInv, [Next]_vars PROVE HostInv'
<1>1. LineInv'
  BY LineStep DEF HostInv
<1>2. HostGoal
  <2>1. ASSUME NEW c \in Clients, Begin(c) PROVE HostGoal
    BY <2>1, BeginFrames
  <2>2. ASSUME NEW s \in Senders, Send(s) PROVE HostGoal
    BY <2>2, SenderFrames
  <2>3. CASE ReaderThread
    BY <2>3, ReaderFrames
  <2>4. CASE MainLoop
    BY <2>4, TopFrames, ExecFrames, UartWriteFrames, DispatchTypes, OtherLoopFrames DEF MainLoop
  <2>5. CASE OnUartRx \/ RaiseShutdown \/ UNCHANGED vars
    <3>1. UNCHANGED <<pc, resp, input, sending, cut, ppc, handler>>
      BY <2>5 DEF OnUartRx, RaiseShutdown, vars, hostVars, loopVars, history
    <3> QED
      BY <3>1, ComingKept, ReaderStays, WriterKept DEF HostInv, HostGoal
  <2>6. CASE Restart
    <3>1. /\ pc' = [s \in Senders |-> IF s = Reader THEN "read" ELSE "idle"]
          /\ resp' = <<>> /\ input' = <<>> /\ cut' = TRUE
          /\ UNCHANGED <<ppc, handler, sending>>
      BY <2>6 DEF Restart, loopVars
    <3>2. ReaderType'
      BY <3>1, Lengths, EmptySeq DEF ReaderType, Senders
    <3>3. ComingType' /\ ComingInStep'
      BY <3>1, EmptySeq DEF HostInv, ComingType, ComingInStep
    <3> QED
      BY <3>1, <3>2, <3>3, WriterKept DEF HostInv, HostGoal
  <2> QED
    BY <2>1, <2>2, <2>3, <2>4, <2>5, <2>6 DEF Next
<1> QED
  BY <1>1, <1>2 DEF HostInv, HostGoal

LEMMA HostInit == ASSUME Init PROVE HostInv
<1> USE Lengths
<1>1. LineInv
  BY LineInit
<1>2. resp = <<>> /\ input = <<>> /\ sending = <<>> /\ <<>> \in Seq(Byte) /\ Len(resp) = 0
  BY EmptySeq DEF Init
<1>3. ComingType
  BY <1>2 DEF ComingType
<1>4. ReaderType
  BY <1>2 DEF Init, ReaderType, Senders
<1>5. WriterType
  BY DEF Init, WriterType
<1>6. Coming = <<>> /\ ReaderPlace = 0
  BY <1>2, ConcatEmptySeq DEF Coming, ReaderPlace
<1>7. ComingInStep
  BY <1>2, <1>6 DEF ComingInStep, InStep, Sound, Places
<1> QED
  BY <1>1, <1>3, <1>4, <1>5, <1>7 DEF HostInv

\* handle_message_from_pico never loses its place through short reads: only
\* tcflush or a restart of the CM4 can make it, by taking bytes away.
THEOREM HostFraming == Spec => []HostInStep
<1>1. HostInv => HostInStep
  <2> SUFFICES ASSUME HostInv, ~cut, Coming # <<>>, pc[Reader] = "read"
               PROVE  Head(Coming).pos = Len(resp)
    BY DEF HostInStep
  <2>1. InStep(Coming, ReaderPlace) /\ ReaderPlace = Len(resp)
    BY DEF HostInv, ComingInStep, ReaderType, ReaderPlace
  <2>2. Coming \in Seq(Byte) /\ Head(Coming) = Coming[1]
    BY <2>1 DEF InStep
  <2> QED
    BY <2>1, <2>2 DEF InStep
<1> QED
  BY <1>1, HostInit, HostStep, PTL DEF Spec

-----------------------------------------------------------------------------
(* Types of what framing does not depend on *)

SenderPlaces == {"idle", "read", "dispatch", "flush", "write", "wait", "poweroff"}
LoopPlaces == {"top", "notify", "poll", "dispatch", "exec", "reply", "blink"}

ThreadType == pc \in [Senders -> SenderPlaces] /\ m_ \in Senders \cup {"free"}

\* A full queue takes nothing, as isFull() and push() have it.
QueueType == pktQueues_ \in [Kinds -> {q \in Seq(Seq(Byte)) : Len(q) <= QueueMax}]

LoopType == ppc \in LoopPlaces /\ ready \in BOOLEAN

FlagType ==
    /\ is_host_shutdown_request_pending \in BOOLEAN /\ is_cm4_graceful_shutdown \in BOOLEAN
    /\ cut \in BOOLEAN /\ overlap \in BOOLEAN

CountType ==
    /\ presses \in 0 .. MaxPresses /\ restarts \in 0 .. MaxRestarts
    /\ unanswered \subseteq Nat

RestType == ThreadType /\ QueueType /\ LoopType /\ FlagType /\ CountType

LEMMA ReturnMoves ==
    ASSUME ThreadType, NEW s \in Senders, Return(s) PROVE pc' \in [Senders -> SenderPlaces]
BY DEF ThreadType, Return, Request, SenderPlaces

LEMMA SenderMoves ==
    ASSUME ThreadType, NEW s \in Senders, Send(s) PROVE ThreadType'
<1>1. CASE Flush(s) \/ Write(s)
  <2>1. PICK l \in SenderPlaces : pc' = [pc EXCEPT ![s] = l]
    BY <1>1 DEF Flush, Write, SenderPlaces
  <2>2. m_' \in {s, "free"}
    BY <1>1 DEF Flush, Write
  <2> QED
    BY <2>1, <2>2 DEF ThreadType
<1>2. CASE Pop(s) \/ GiveUp(s)
  <2>1. m_' = m_ /\ Return(s)
    BY <1>2 DEF Pop, GiveUp
  <2> QED
    BY <2>1, ReturnMoves DEF ThreadType
<1> QED
  BY <1>1, <1>2 DEF Send, Wait

LEMMA ThreadTypeStep == ASSUME ThreadType, [Next]_vars PROVE ThreadType'
<1>1. Reader \in Senders /\ Clients \subseteq Senders
  BY DEF Senders
<1>2. ASSUME NEW c \in Clients, Begin(c) PROVE ThreadType'
  BY <1>1, <1>2 DEF ThreadType, Begin, Request, SenderPlaces
<1>3. ASSUME NEW s \in Senders, Send(s) PROVE ThreadType'
  BY <1>3, SenderMoves
<1>4. CASE ReaderThread
  <2>1. PICK l \in SenderPlaces : pc' = [pc EXCEPT ![Reader] = l] /\ m_' = m_
    BY <1>4 DEF ReaderThread, Read, Enqueue, HandleShutdown, HostDiscards, PowerOff, Request,
                SenderPlaces
  <2> QED
    BY <1>1, <2>1 DEF ThreadType
<1>5. CASE Restart
  BY <1>5 DEF Restart, ThreadType, SenderPlaces
<1>6. CASE OnUartRx \/ MainLoop \/ RaiseShutdown \/ UNCHANGED vars
  <2>1. UNCHANGED hostVars
    BY <1>6 DEF OnUartRx, RaiseShutdown, vars, MainLoop, Top, UartWrite, Notified, Poll,
                Dispatch, PicoDiscards, BlinkEnds, Exec, PktShutdown, Replied
  <2> QED
    BY <2>1 DEF hostVars, ThreadType
<1> QED
  BY <1>2, <1>3, <1>4, <1>5, <1>6 DEF Next

LEMMA QueueTypeStep == ASSUME HostInv, QueueType, [Next]_vars PROVE QueueType'
<1> DEFINE Bounded == {q \in Seq(Seq(Byte)) : Len(q) <= QueueMax}
<1>1. QueueMax \in Nat \ {0} /\ resp \in Seq(Byte)
  BY LinkAssumption DEF HostInv, ComingType
<1>2. ASSUME NEW q \in Bounded PROVE Stored(q) \in Bounded
  BY <1>1 DEF Stored
<1>3. ASSUME NEW q \in Bounded, q # <<>> PROVE Tail(q) \in Bounded
  BY <1>1, <1>3
<1>4. <<>> \in Bounded
  BY <1>1
<1>5. QueueType <=> pktQueues_ \in [Kinds -> Bounded]
  BY DEF QueueType
<1>6. QueueType' <=> pktQueues_' \in [Kinds -> Bounded]
  BY DEF QueueType
<1> HIDE DEF Bounded
<1>7. ASSUME NEW s \in Senders, Pop(s) PROVE QueueType'
  <2>1. pktQueues_[kind[s]] # <<>> /\ pktQueues_' = [pktQueues_ EXCEPT ![kind[s]] = Tail(@)]
    BY <1>7 DEF Pop
  <2>2. CASE kind[s] \in Kinds
    <3>1. Tail(pktQueues_[kind[s]]) \in Bounded
      BY <2>1, <2>2, <1>3, <1>5
    <3> QED
      BY <2>1, <3>1, <1>5, <1>6
  <2>3. CASE kind[s] \notin Kinds
    BY <2>1, <2>3, <1>5, <1>6
  <2> QED
    BY <2>2, <2>3
<1>8. CASE Enqueue
  <2>1. PICK k \in Kinds : pktQueues_' = [pktQueues_ EXCEPT ![k] = Stored(@)]
    BY <1>8 DEF Enqueue
  <2> QED
    BY <2>1, <1>2, <1>5, <1>6
<1>9. CASE Restart
  <2>1. pktQueues_' = [k \in Kinds |-> <<>>]
    BY <1>9 DEF Restart
  <2> QED
    BY <2>1, <1>4, <1>6
<1>10. ASSUME UNCHANGED pktQueues_ PROVE QueueType'
  BY <1>10 DEF QueueType
<1>11. ASSUME NEW s \in Senders, Send(s), ~Pop(s) PROVE UNCHANGED pktQueues_
  BY <1>11 DEF Send, Wait, Flush, Write, GiveUp
<1>12. CASE \/ \E c \in Clients : Begin(c)
            \/ Read \/ HandleShutdown \/ HostDiscards \/ PowerOff
            \/ OnUartRx \/ MainLoop \/ RaiseShutdown \/ UNCHANGED vars
  <2>1. UNCHANGED pktQueues_
    BY <1>12 DEF Begin, Read, HandleShutdown, HostDiscards, PowerOff, OnUartRx, RaiseShutdown,
                 vars, hostVars, MainLoop, Top, UartWrite, Notified, Poll, Dispatch,
                 PicoDiscards, BlinkEnds, Exec, PktShutdown, Replied
  <2> QED
    BY <2>1, <1>10
<1> QED
  BY <1>7, <1>8, <1>9, <1>10, <1>11, <1>12 DEF Next, ReaderThread

LEMMA LoopTypeStep == ASSUME LoopType, [Next]_vars PROVE LoopType'
<1>1. CASE OnUartRx
  <2>1. ppc' = ppc
    BY <1>1 DEF OnUartRx, loopVars
  <2>2. ready' \in BOOLEAN
    <3>1. CASE Dropped(Head(output))
      BY <1>1, <3>1 DEF OnUartRx, rxVars, LoopType
    <3>2. CASE ~Dropped(Head(output))
      <4>1. ready' = (ready \/ rx_idx + 1 = PktLen)
        BY <1>1, <3>2 DEF OnUartRx
      <4> QED
        BY <4>1, Zenon
    <3> QED
      BY <3>1, <3>2
  <2> QED
    BY <2>1, <2>2 DEF LoopType
<1>2. CASE MainLoop
  <2>1. ppc' \in LoopPlaces
    BY <1>2 DEF MainLoop, Top, UartWrite, Notified, Poll, Dispatch, PicoDiscards, BlinkEnds,
                Exec, PktShutdown, Replied, LoopType, LoopPlaces
  <2>2. ready' \in {ready, FALSE}
    BY <1>2 DEF MainLoop, Top, UartWrite, Notified, Poll, Dispatch, PicoDiscards, BlinkEnds,
                Exec, PktShutdown, Replied, rxVars
  <2>3. ready' \in BOOLEAN
    BY <2>2, Zenon DEF LoopType
  <2> QED
    BY <2>1, <2>3 DEF LoopType
<1>3. CASE ~(OnUartRx \/ MainLoop)
  <2>1. UNCHANGED <<ppc, ready>>
    BY <1>3 DEF Next, Begin, Send, Wait, Flush, Write, Pop, GiveUp, ReaderThread, Read, Enqueue,
                HandleShutdown, HostDiscards, PowerOff, RaiseShutdown, Restart, vars, loopVars,
                rxVars
  <2> QED
    BY <2>1 DEF LoopType
<1> QED
  BY <1>1, <1>2, <1>3

LEMMA FlagTypeStep == ASSUME FlagType, [Next]_vars PROVE FlagType'
<1>1. is_host_shutdown_request_pending' \in {is_host_shutdown_request_pending, TRUE, FALSE}
  BY DEF Next, Begin, Send, Wait, Flush, Write, Pop, GiveUp, ReaderThread, Read, Enqueue,
         HandleShutdown, HostDiscards, PowerOff, RaiseShutdown, Restart, OnUartRx, MainLoop, Top,
         UartWrite, Notified, Poll, Dispatch, PicoDiscards, BlinkEnds, Exec, PktShutdown,
         Replied, vars, loopVars
<1>2. is_cm4_graceful_shutdown' \in {is_cm4_graceful_shutdown, TRUE}
  BY DEF Next, Begin, Send, Wait, Flush, Write, Pop, GiveUp, ReaderThread, Read, Enqueue,
         HandleShutdown, HostDiscards, PowerOff, RaiseShutdown, Restart, OnUartRx, MainLoop, Top,
         UartWrite, Notified, Poll, Dispatch, PicoDiscards, BlinkEnds, Exec, PktShutdown,
         Replied, vars
<1>3. \/ UNCHANGED <<cut, overlap>>
      \/ cut' = (cut \/ input # <<>>) /\ overlap' = (overlap \/ unanswered # {})
      \/ cut' = TRUE /\ overlap' = (overlap \/ unanswered # {})
  BY DEF Next, Begin, Send, Wait, Flush, Write, Pop, GiveUp, ReaderThread, Read, Enqueue,
         HandleShutdown, HostDiscards, PowerOff, RaiseShutdown, Restart, OnUartRx, MainLoop, Top,
         UartWrite, Notified, Poll, Dispatch, PicoDiscards, BlinkEnds, Exec, PktShutdown,
         Replied, vars, history
<1>4. cut' \in BOOLEAN /\ overlap' \in BOOLEAN
  BY <1>3, Zenon DEF FlagType
<1>5. is_host_shutdown_request_pending' \in BOOLEAN /\ is_cm4_graceful_shutdown' \in BOOLEAN
  BY <1>1, <1>2, Zenon DEF FlagType
<1> QED
  BY <1>4, <1>5 DEF FlagType

LEMMA CountTypeStep == ASSUME SenderType, CountType, [Next]_vars PROVE CountType'
<1>1. CASE RaiseShutdown
  BY <1>1, LinkAssumption DEF RaiseShutdown, CountType, history
<1>2. CASE Restart
  BY <1>2, LinkAssumption DEF Restart, CountType
<1>3. ASSUME NEW s \in Senders, Write(s) PROVE CountType'
  BY <1>3 DEF Write, CountType, SenderType, bounds
<1>4. ASSUME NEW s \in Senders, Pop(s) PROVE CountType'
  BY <1>4 DEF Pop, CountType, bounds
<1>5. ASSUME UNCHANGED <<presses, restarts, unanswered>> PROVE CountType'
  BY <1>5 DEF CountType
<1>6. ASSUME NEW s \in Senders, Flush(s) \/ GiveUp(s)
      PROVE  UNCHANGED <<presses, restarts, unanswered>>
  BY <1>6 DEF Flush, GiveUp, bounds, history
<1>7. CASE \/ \E c \in Clients : Begin(c)
           \/ ReaderThread \/ OnUartRx \/ MainLoop \/ UNCHANGED vars
  BY <1>5, <1>7 DEF Begin, ReaderThread, Read, Enqueue, HandleShutdown, HostDiscards, PowerOff,
                    OnUartRx, MainLoop, Top, UartWrite, Notified, Poll, Dispatch, PicoDiscards,
                    BlinkEnds, Exec, PktShutdown, Replied, vars, bounds, history
<1> QED
  BY <1>1, <1>2, <1>3, <1>4, <1>5, <1>6, <1>7 DEF Next, Send, Wait

LEMMA RestInit == ASSUME Init PROVE RestType
<1>1. ThreadType /\ LoopType
  BY DEF Init, ThreadType, SenderPlaces, LoopType, LoopPlaces
<1>2. QueueType
  BY LinkAssumption DEF Init, QueueType
<1>3. FlagType
  BY Zenon DEF Init, FlagType
<1>4. CountType
  BY LinkAssumption DEF Init, CountType
<1> QED
  BY <1>1, <1>2, <1>3, <1>4 DEF RestType

\* RestType is inductive with HostInv.
LEMMA RestStep == ASSUME HostInv, RestType, [Next]_vars PROVE RestType'
<1>1. SenderType
  BY DEF HostInv, LineInv
<1> QED
  BY <1>1, ThreadTypeStep, QueueTypeStep, LoopTypeStep, FlagTypeStep, CountTypeStep DEF RestType

\* Both ends of the link keep their types; no packet is longer than the buffers of
\* either side, and no queue longer than max_queue_size (PacketHandler.cpp,
\* ConcurrentQueue.hpp, cm4-wrt-a.c).
THEOREM LinkTypeCorrect == Spec => []TypeOK
<1>1. Init => HostInv /\ RestType
  BY HostInit, RestInit
<1>2. HostInv /\ RestType /\ [Next]_vars => (HostInv /\ RestType)'
  BY HostStep, RestStep
<1>3. HostInv /\ RestType => TypeOK
  <2> SUFFICES ASSUME HostInv, RestType PROVE TypeOK
    OBVIOUS
  <2>1. \A q \in {resp, input, output, sending} : \A i \in DOMAIN q : q[i] \in Byte
    BY DEF HostInv, LineInv, LineType, ComingType
  <2>2. \A k \in Kinds : Len(pktQueues_[k]) <= QueueMax
    BY DEF RestType, QueueType
  <2> QED
    BY <2>1, <2>2 DEF HostInv, LineInv, SenderType, LineType, ReaderType, WriterType, RestType,
       ThreadType, LoopType, FlagType, CountType, SenderPlaces, LoopPlaces, TypeOK
<1> QED
  BY <1>1, <1>2, <1>3, PTL DEF Spec
-----------------------------------------------------------------------------
(* Every caller gets its own answer *)

At(k, n, p) == [magic |-> k, id |-> n, pos |-> p]

\* All that is on its way to picod, with what the reader has of it.
Stream == resp \o Coming

\* Shutdown packets, or what is left of them, and nothing else.
Bare(q) == \A i \in 1 .. Len(q) : q[i].magic = "shutdown"

\* The packet (k, n) comes after o bytes; if o < 0, part of it is gone.
HoldsAt(q, k, n, o) ==
    /\ o + PktLen <= Len(q)
    /\ \A i \in 1 .. Len(q) :
          IF i - o - 1 \in Places THEN q[i] = At(k, n, i - o - 1) ELSE q[i].magic = "shutdown"

\* At most one answer, amid shutdown packets.
Holds(q, k, n) == \E o \in Int : HoldsAt(q, k, n, o)

LEMMA PacketBytes ==
    ASSUME NEW k \in Magics, NEW n \in Nat
    PROVE  /\ Packet(k, n) \in Seq(Byte) /\ Len(Packet(k, n)) = PktLen
           /\ \A i \in 1 .. PktLen : Packet(k, n)[i] = At(k, n, i - 1)
BY Lengths DEF Packet, Byte, Places, At

LEMMA BareJoin ==
    ASSUME NEW a \in Seq(Byte), NEW b \in Seq(Byte)
    PROVE  Bare(a \o b) <=> Bare(a) /\ Bare(b)
<1> DEFINE c == a \o b
<1>1. /\ c \in Seq(Byte) /\ Len(c) = Len(a) + Len(b)
      /\ \A i \in 1 .. Len(a) + Len(b) : c[i] = IF i <= Len(a) THEN a[i] ELSE b[i - Len(a)]
  BY ConcatProperties
<1>2. Len(a) \in Nat /\ Len(b) \in Nat
  OBVIOUS
<1> HIDE DEF c
<1>3. ASSUME Bare(a), Bare(b) PROVE Bare(c)
  BY <1>1, <1>2, <1>3, SMTT(30) DEF Bare
<1>4. ASSUME Bare(c) PROVE Bare(a)
  <2> SUFFICES ASSUME NEW i \in 1 .. Len(a) PROVE a[i].magic = "shutdown"
    BY DEF Bare
  <2>1. i \in 1 .. Len(c) /\ c[i] = a[i]
    BY <1>1, <1>2
  <2> QED
    BY <1>4, <2>1 DEF Bare
<1>5. ASSUME Bare(c) PROVE Bare(b)
  <2> SUFFICES ASSUME NEW i \in 1 .. Len(b) PROVE b[i].magic = "shutdown"
    BY DEF Bare
  <2>1. Len(a) + i \in 1 .. Len(c) /\ c[Len(a) + i] = b[i]
    BY <1>1, <1>2
  <2> QED
    BY <1>5, <2>1 DEF Bare
<1> QED
  BY <1>3, <1>4, <1>5 DEF c

LEMMA BarePacket == Bare(Packet("shutdown", 0)) /\ Bare(<<>>)
<1> DEFINE q == Packet("shutdown", 0)
<1>1. "shutdown" \in Magics /\ 0 \in Nat
  BY DEF Magics
<1>2. Len(q) = PktLen /\ \A i \in 1 .. PktLen : q[i] = At("shutdown", 0, i - 1)
  BY <1>1, PacketBytes
<1> HIDE DEF q
<1>3. Bare(q)
  BY <1>2 DEF Bare, At
<1>4. Bare(<<>>)
  BY DEF Bare
<1> QED
  BY <1>3, <1>4 DEF q

LEMMA BareHolds ==
    ASSUME NEW q \in Seq(Byte), Bare(q), NEW k, NEW n
    PROVE  Holds(q, k, n)
<1>1. Len(q) \in Nat /\ 0 - PktLen \in Int
  BY Lengths
<1>2. HoldsAt(q, k, n, 0 - PktLen)
  BY <1>1, Lengths DEF HoldsAt, Bare, Places
<1> QED
  BY <1>1, <1>2 DEF Holds

LEMMA HoldsJoin ==
    ASSUME NEW a \in Seq(Byte), NEW b \in Seq(Byte), Bare(b), NEW k, NEW n, Holds(a, k, n)
    PROVE  Holds(a \o b, k, n)
<1> DEFINE c == a \o b
<1>1. /\ c \in Seq(Byte) /\ Len(c) = Len(a) + Len(b)
      /\ \A i \in 1 .. Len(a) + Len(b) : c[i] = IF i <= Len(a) THEN a[i] ELSE b[i - Len(a)]
  BY ConcatProperties
<1>2. Len(a) \in Nat /\ Len(b) \in Nat
  OBVIOUS
<1>3. PICK o \in Int : HoldsAt(a, k, n, o)
  BY DEF Holds
<1> HIDE DEF c
<1>4. ASSUME NEW i \in 1 .. Len(c)
      PROVE  IF i - o - 1 \in Places THEN c[i] = At(k, n, i - o - 1) ELSE c[i].magic = "shutdown"
  <2>1. CASE i <= Len(a)
    <3>1. c[i] = a[i] /\ i \in 1 .. Len(a)
      BY <1>1, <1>2, <2>1
    <3> QED
      BY <1>3, <3>1 DEF HoldsAt
  <2>2. CASE i > Len(a)
    <3>1. c[i] = b[i - Len(a)] /\ i - Len(a) \in 1 .. Len(b)
      BY <1>1, <1>2, <2>2
    <3>2. i - o - 1 \notin Places
      BY <1>2, <1>3, <2>2, Lengths DEF HoldsAt, Places
    <3> QED
      BY <3>1, <3>2 DEF Bare
  <2> QED
    BY <1>2, <2>1, <2>2
<1>5. o + PktLen <= Len(c)
  BY <1>1, <1>2, <1>3, Lengths DEF HoldsAt
<1> QED
  BY <1>4, <1>5 DEF c, HoldsAt, Holds

LEMMA HoldsAnswer ==
    ASSUME NEW a \in Seq(Byte), Bare(a), NEW k \in Magics, NEW n \in Nat
    PROVE  Holds(a \o Packet(k, n), k, n)
<1> DEFINE b == Packet(k, n)
           c == a \o b
<1>1. b \in Seq(Byte) /\ Len(b) = PktLen /\ \A i \in 1 .. PktLen : b[i] = At(k, n, i - 1)
  BY PacketBytes
<1> HIDE DEF b
<1>2. /\ c \in Seq(Byte) /\ Len(c) = Len(a) + Len(b)
      /\ \A i \in 1 .. Len(a) + Len(b) : c[i] = IF i <= Len(a) THEN a[i] ELSE b[i - Len(a)]
  BY <1>1, ConcatProperties
<1>3. Len(a) \in Nat
  OBVIOUS
<1> HIDE DEF c
<1>4. ASSUME NEW i \in 1 .. Len(c)
      PROVE  IF i - Len(a) - 1 \in Places THEN c[i] = At(k, n, i - Len(a) - 1)
             ELSE c[i].magic = "shutdown"
  <2>1. CASE i <= Len(a)
    <3>1. c[i] = a[i] /\ i \in 1 .. Len(a) /\ i - Len(a) - 1 \notin Places
      BY <1>1, <1>2, <1>3, <2>1, Lengths DEF Places
    <3> QED
      BY <3>1 DEF Bare
  <2>2. CASE i > Len(a)
    <3>1. c[i] = b[i - Len(a)] /\ i - Len(a) \in 1 .. PktLen
      BY <1>1, <1>2, <1>3, <2>2, Lengths
    <3>2. i - Len(a) - 1 \in Places
      BY <3>1, Lengths DEF Places
    <3> QED
      BY <1>1, <3>1, <3>2
  <2> QED
    BY <1>3, <2>1, <2>2
<1>5. Len(a) \in Int /\ Len(a) + PktLen <= Len(c)
  BY <1>1, <1>2, <1>3, Lengths
<1> QED
  BY <1>4, <1>5 DEF b, c, HoldsAt, Holds

\* The reader disposes of the PktLen bytes it has.
LEMMA HoldsRest ==
    ASSUME NEW a \in Seq(Byte), NEW b \in Seq(Byte), Len(a) = PktLen,
           NEW k, NEW n, Holds(a \o b, k, n)
    PROVE  Holds(b, k, n)
<1> DEFINE c == a \o b
<1>1. /\ c \in Seq(Byte) /\ Len(c) = PktLen + Len(b)
      /\ \A i \in 1 .. PktLen + Len(b) : c[i] = IF i <= PktLen THEN a[i] ELSE b[i - PktLen]
  BY ConcatProperties
<1>2. PICK o \in Int : HoldsAt(c, k, n, o)
  BY DEF Holds
<1>3. Len(b) \in Nat
  OBVIOUS
<1> HIDE DEF c
<1>4. ASSUME NEW i \in 1 .. Len(b)
      PROVE  IF i - (o - PktLen) - 1 \in Places THEN b[i] = At(k, n, i - (o - PktLen) - 1)
             ELSE b[i].magic = "shutdown"
  <2>1. /\ i + PktLen \in 1 .. Len(c) /\ c[i + PktLen] = b[i]
        /\ (i + PktLen) - o - 1 = i - (o - PktLen) - 1
    BY <1>1, <1>3, Lengths, SMTT(30)
  <2> QED
    BY <1>2, <2>1 DEF HoldsAt
<1>5. o - PktLen \in Int /\ (o - PktLen) + PktLen <= Len(b)
  BY <1>1, <1>2, <1>3, Lengths DEF HoldsAt
<1> QED
  BY <1>4, <1>5 DEF HoldsAt, Holds

\* If what it has begins like an answer, it is the answer, and there is no other.
LEMMA HoldsFront ==
    ASSUME NEW a \in Seq(Byte), NEW b \in Seq(Byte), Len(a) = PktLen,
           NEW k \in Magics, NEW n \in Nat, Holds(a \o b, k, n),
           a[1].magic # "shutdown", a[1].pos = 0
    PROVE  a = Packet(k, n) /\ Bare(b)
<1> DEFINE c == a \o b
<1>1. /\ c \in Seq(Byte) /\ Len(c) = PktLen + Len(b)
      /\ \A i \in 1 .. PktLen + Len(b) : c[i] = IF i <= PktLen THEN a[i] ELSE b[i - PktLen]
  BY ConcatProperties
<1>2. PICK o \in Int : HoldsAt(c, k, n, o)
  BY DEF Holds
<1>3. Len(b) \in Nat
  OBVIOUS
<1> HIDE DEF c
<1>4. o = 0
  <2>1. 1 \in 1 .. Len(c) /\ c[1] = a[1]
    BY <1>1, <1>3, Lengths
  <2>2. 1 - o - 1 \in Places /\ a[1] = At(k, n, 1 - o - 1)
    BY <1>2, <2>1 DEF HoldsAt
  <2>3. a[1].pos = 1 - o - 1
    BY <2>2 DEF At
  <2> QED
    BY <2>3
<1>5. \A i \in 1 .. PktLen : a[i] = Packet(k, n)[i]
  <2> TAKE i \in 1 .. PktLen
  <2>1. i \in 1 .. Len(c) /\ c[i] = a[i] /\ i - 0 - 1 \in Places /\ i - 0 - 1 = i - 1
    BY <1>1, <1>3, Lengths DEF Places
  <2>2. a[i] = At(k, n, i - 1)
    BY <1>2, <1>4, <2>1 DEF HoldsAt
  <2> QED
    BY <2>2, PacketBytes
<1>6. a = Packet(k, n)
  <2>1. Packet(k, n) \in Seq(Byte) /\ Len(Packet(k, n)) = PktLen
    BY PacketBytes
  <2> QED
    BY <1>5, <2>1, SeqEqual
<1>7. Bare(b)
  <2> SUFFICES ASSUME NEW i \in 1 .. Len(b) PROVE b[i].magic = "shutdown"
    BY DEF Bare
  <2>1. /\ i + PktLen \in 1 .. Len(c) /\ c[i + PktLen] = b[i]
        /\ (i + PktLen) - 0 - 1 \notin Places
    BY <1>1, <1>3, Lengths DEF Places
  <2> QED
    BY <1>2, <1>4, <2>1 DEF HoldsAt
<1> QED
  BY <1>6, <1>7

\* Its bytes are of that packet or of a shutdown packet.
LEMMA HoldsMagic ==
    ASSUME NEW a \in Seq(Byte), NEW b \in Seq(Byte), a # <<>>,
           NEW k, NEW n, Holds(a \o b, k, n), a[1].magic # "shutdown"
    PROVE  a[1].magic = k
<1> DEFINE c == a \o b
<1>1. PICK o \in Int : HoldsAt(c, k, n, o)
  BY DEF Holds
<1>2. 1 \in 1 .. Len(c) /\ c[1] = a[1]
  BY ConcatProperties
<1>3. a[1] = At(k, n, 1 - o - 1)
  BY <1>1, <1>2 DEF HoldsAt
<1> QED
  BY <1>3 DEF At

\* How far the Pico and the reader are with the request (k, n), the last one.
NothingBack == Bare(Stream) /\ \A k \in Kinds : pktQueues_[k] = <<>>
LoopFree == ~ready /\ ppc \notin {"dispatch", "exec"}
LineFree == output = <<>> /\ rx_idx = 0

Resting == NothingBack /\ LoopFree /\ LineFree

OnLine(k, n) ==
    /\ NothingBack /\ LoopFree
    /\ Len(output) + rx_idx = PktLen
    /\ \A i \in 1 .. Len(output) : output[i] = At(k, n, rx_idx + i - 1)
    /\ \A i \in Places : i < rx_idx => req[i] = At(k, n, i)

Taken(k, n) ==
    /\ NothingBack /\ LineFree
    /\ \A i \in Places : req[i] = At(k, n, i)
    /\ \/ ready /\ ppc \notin {"dispatch", "exec"}
       \/ ~ready /\ ppc = "dispatch"
       \/ ~ready /\ ppc = "exec" /\ handler = k

Answering(k, n) ==
    /\ LineFree /\ LoopFree
    /\ Holds(Stream, k, n) /\ \A j \in Kinds : pktQueues_[j] = <<>>

Answered(k, n) ==
    /\ LineFree /\ LoopFree
    /\ Bare(Stream)
    /\ k \in Kinds /\ pktQueues_[k] = <<Packet(k, n)>>
    /\ \A j \in Kinds : j # k => pktQueues_[j] = <<>>

Stage(k, n) == OnLine(k, n) \/ Taken(k, n) \/ Answering(k, n) \/ Answered(k, n)

\* A step of the Pico or of the reader keeps a request at some stage.
Advance ==
    /\ Resting => Resting'
    /\ \A k \in Magics, n \in Nat : Stage(k, n) => Stage(k, n)'

LEMMA StreamType ==
    ASSUME ComingType
    PROVE  /\ resp \in Seq(Byte) /\ input \in Seq(Byte) /\ sending \in Seq(Byte)
           /\ Coming \in Seq(Byte) /\ Stream \in Seq(Byte)
           /\ Stream = (resp \o input) \o sending
<1>1. resp \in Seq(Byte) /\ input \in Seq(Byte) /\ sending \in Seq(Byte)
  BY DEF ComingType
<1>2. Coming \in Seq(Byte) /\ resp \o input \in Seq(Byte)
  BY <1>1, ConcatProperties DEF Coming
<1>3. Stream \in Seq(Byte)
  BY <1>1, <1>2, ConcatProperties DEF Stream
<1>4. Stream = (resp \o input) \o sending
  BY <1>1, ConcatAssociative, SMTT(30) DEF Coming, Stream
<1> QED
  BY <1>1, <1>2, <1>3, <1>4

LEMMA StreamKept == ASSUME UNCHANGED <<resp, input, sending>> PROVE Stream' = Stream
BY DEF Stream, Coming

LEMMA Associative == \A x, y, z \in Seq(Byte) : (x \o y) \o z = x \o (y \o z)
BY ConcatAssociative

LEMMA Parting ==
    ASSUME NEW r \in Seq(Byte), NEW q \in Seq(Byte), NEW t \in Seq(Byte), NEW n \in 1 .. Len(q)
    PROVE  (r \o SubSeq(q, 1, n)) \o (SubSeq(q, n + 1, Len(q)) \o t) = r \o (q \o t)
<1> DEFINE S == Seq(Byte)
           Cat(x, y) == x \o y
           a == SubSeq(q, 1, n)
           b == SubSeq(q, n + 1, Len(q))
<1>1. \A x, y \in S : Cat(x, y) \in S
  BY ConcatProperties
<1>2. \A x, y, z \in S : Cat(Cat(x, y), z) = Cat(x, Cat(y, z))
  BY Associative
<1>3. a \in S /\ b \in S /\ r \in S /\ t \in S
  OBVIOUS
<1>4. Cat(a, b) = q
  <2>1. n \in 1 - 1 .. Len(q) /\ 1 \in 1 .. Len(q) + 1 /\ Len(q) \in n .. Len(q)
    OBVIOUS
  <2>2. a \o b = SubSeq(q, 1, Len(q))
    BY <2>1, ConcatAdjacentSubSeq
  <2> QED
    BY <2>2, SubSeqFull
<1> HIDE DEF S, Cat, a, b
<1>5. Cat(Cat(r, a), Cat(b, t)) = Cat(r, Cat(q, t))
  <2>1. Cat(Cat(r, a), Cat(b, t)) = Cat(r, Cat(a, Cat(b, t)))
    BY <1>1, <1>2, <1>3
  <2>2. Cat(a, Cat(b, t)) = Cat(q, t)
    BY <1>2, <1>3, <1>4
  <2> QED
    BY <2>1, <2>2
<1> QED
  BY <1>5 DEF Cat, a, b

\* Bytes that move on are still on their way.
LEMMA ReadStream == ASSUME ComingType, Read PROVE Stream' = Stream
<1>1. PICK n \in 1 .. Len(input) :
        resp' = resp \o SubSeq(input, 1, n) /\ input' = SubSeq(input, n + 1, Len(input))
  BY DEF Read
<1>2. resp \in Seq(Byte) /\ input \in Seq(Byte) /\ sending \in Seq(Byte) /\ sending' = sending
  BY DEF ComingType, Read, loopVars
<1>3. (resp \o SubSeq(input, 1, n)) \o (SubSeq(input, n + 1, Len(input)) \o sending)
        = resp \o (input \o sending)
  <2>1. resp \in Seq(Byte) /\ input \in Seq(Byte) /\ sending \in Seq(Byte)
    BY <1>2
  <2> QED
    BY <2>1, Parting
<1> QED
  BY <1>1, <1>2, <1>3 DEF Stream, Coming

LEMMA UartWriteStream == ASSUME ComingType, UartWrite PROVE Stream' = Stream
<1>1. /\ sending # <<>> /\ input' = Append(input, Head(sending)) /\ sending' = Tail(sending)
      /\ resp' = resp
  BY DEF UartWrite, hostVars
<1>2. input \in Seq(Byte) /\ sending \in Seq(Byte)
  BY DEF ComingType
<1>3. Coming' = Coming
  <2> DEFINE a == Append(input, Head(sending)) \o Tail(sending)
             c == input \o sending
  <2>1. c \in Seq(Byte) /\ a \in Seq(Byte) /\ Len(a) = Len(c)
    BY <1>1, <1>2
  <2>2. \A i \in 1 .. Len(a) : a[i] = c[i]
    BY <1>1, <1>2
  <2> HIDE DEF a, c
  <2>3. a = c
    BY <2>1, <2>2, SeqEqual
  <2> QED
    BY <1>1, <2>3 DEF a, c, Coming
<1> QED
  BY <1>1, <1>3 DEF Stream

\* What the Pico begins to write comes last.
LEMMA StartStream ==
    ASSUME ComingType, sending = <<>>, NEW q \in Seq(Byte), sending' = q, UNCHANGED <<resp, input>>
    PROVE  Stream' = Stream \o q
<1>1. resp \in Seq(Byte) /\ input \in Seq(Byte)
  BY DEF ComingType
<1>2. Coming = input
  BY <1>1, ConcatEmptySeq DEF Coming
<1>3. Stream' = resp \o (input \o q)
  BY DEF Stream, Coming
<1> QED
  BY <1>1, <1>2, <1>3, ConcatAssociative DEF Stream

\* Steps that change no stage.
LEMMA StageKept ==
    ASSUME Stream' = Stream, UNCHANGED <<pktQueues_, output, rx_idx, req, ready, handler, ppc>>
    PROVE  Advance
<1>1. /\ NothingBack' = NothingBack /\ LoopFree' = LoopFree /\ LineFree' = LineFree
  BY DEF NothingBack, LoopFree, LineFree, Bare
<1>2. Resting => Resting'
  BY <1>1 DEF Resting
<1>3. ASSUME NEW k \in Magics, NEW n \in Nat, Stage(k, n) PROVE Stage(k, n)'
  <2>1. CASE OnLine(k, n)
    BY <1>1, <2>1 DEF OnLine, Stage
  <2>2. CASE Taken(k, n)
    BY <1>1, <2>2 DEF Taken, Stage
  <2>3. CASE Answering(k, n)
    BY <1>1, <2>3 DEF Answering, Holds, HoldsAt, Stage
  <2>4. CASE Answered(k, n)
    BY <1>1, <2>4 DEF Answered, Bare, Stage
  <2> QED
    BY <1>3, <2>1, <2>2, <2>3, <2>4 DEF Stage
<1> QED
  BY <1>2, <1>3 DEF Advance

\* The main loop goes round, or writes another shutdown packet.
LEMMA StageTurns ==
    ASSUME ComingType,
           Stream' = Stream \/ Stream' = Stream \o Packet("shutdown", 0),
           UNCHANGED <<pktQueues_, output, rx_idx, req, ready, handler>>,
           ppc \notin {"dispatch", "exec"}, ppc' \notin {"dispatch", "exec"}
    PROVE  Advance
<1>1. Stream \in Seq(Byte)
  BY StreamType
<1>2. Bare(Stream) => Bare(Stream')
  <2>1. Packet("shutdown", 0) \in Seq(Byte)
    BY PacketBytes DEF Magics
  <2> QED
    BY <1>1, <2>1, BareJoin, BarePacket, ZenonT(60)
<1>3. ASSUME NEW k \in Magics, NEW n \in Nat, Holds(Stream, k, n) PROVE Holds(Stream', k, n)
  <2>1. Packet("shutdown", 0) \in Seq(Byte)
    BY PacketBytes DEF Magics
  <2> QED
    BY <1>1, <1>3, <2>1, HoldsJoin, BarePacket
<1>4. (NothingBack => NothingBack') /\ (LoopFree => LoopFree') /\ (LineFree => LineFree')
  BY <1>2 DEF NothingBack, LoopFree, LineFree
<1>5. Resting => Resting'
  BY <1>4 DEF Resting
<1>6. ASSUME NEW k \in Magics, NEW n \in Nat, Stage(k, n) PROVE Stage(k, n)'
  <2>1. CASE OnLine(k, n)
    BY <1>4, <2>1 DEF OnLine, Stage
  <2>2. CASE Taken(k, n)
    BY <1>4, <2>2 DEF Taken, Stage
  <2>3. CASE Answering(k, n)
    BY <1>3, <1>4, <2>3 DEF Answering, Stage
  <2>4. CASE Answered(k, n)
    BY <1>2, <1>4, <2>4 DEF Answered, Stage
  <2> QED
    BY <1>6, <2>1, <2>2, <2>3, <2>4 DEF Stage
<1> QED
  BY <1>5, <1>6 DEF Advance

LEMMA PollAdvances == ASSUME Poll PROVE Advance
<1>1. /\ ppc = "poll" /\ ready' = FALSE /\ ppc' = IF ready THEN "dispatch" ELSE "top"
      /\ UNCHANGED <<resp, input, sending, pktQueues_, output, rx_idx, req, handler>>
  BY DEF Poll, hostVars
<1>2. Stream' = Stream /\ NothingBack' = NothingBack /\ LineFree' = LineFree
  BY <1>1 DEF Stream, Coming, NothingBack, LineFree, Bare
<1>3. LoopFree => LoopFree'
  BY <1>1 DEF LoopFree
<1>4. Resting => Resting'
  BY <1>2, <1>3 DEF Resting
<1>5. ASSUME NEW k \in Magics, NEW n \in Nat, Stage(k, n) PROVE Stage(k, n)'
  <2>1. CASE OnLine(k, n)
    BY <1>1, <1>2, <1>3, <2>1 DEF OnLine, Stage
  <2>2. CASE Taken(k, n)
    BY <1>1, <1>2, <2>2 DEF Taken, Stage
  <2>3. CASE Answering(k, n)
    BY <1>1, <1>2, <1>3, <2>3 DEF Answering, Stage
  <2>4. CASE Answered(k, n)
    BY <1>1, <1>2, <1>3, <2>4 DEF Answered, Stage
  <2> QED
    BY <1>5, <2>1, <2>2, <2>3, <2>4 DEF Stage
<1> QED
  BY <1>4, <1>5 DEF Advance

\* The main loop is at work on a request only when it has been received whole.
LEMMA WorkIsTaken ==
    ASSUME ppc \in {"dispatch", "exec"}
    PROVE  ~Resting /\ \A k \in Magics, n \in Nat : Stage(k, n) => Taken(k, n)
BY DEF Resting, LoopFree, Stage, OnLine, Answering, Answered

LEMMA AtFields ==
    ASSUME NEW k, NEW n, NEW p
    PROVE  At(k, n, p).magic = k /\ At(k, n, p).id = n /\ At(k, n, p).pos = p
BY DEF At

LEMMA TakenMagic ==
    ASSUME NEW k \in Magics, NEW n \in Nat, Taken(k, n)
    PROVE  MagicOf(req[0]) = k /\ PayloadId = n
<1>1. \A i \in Places : req[i] = At(k, n, i)
  BY DEF Taken
<1>2. 0 \in Places /\ PktLen - 1 \in Places
  BY Lengths DEF Places
<1>3. MagicOf(req[0]) = k
  <2>1. req[0].magic = k /\ req[0].pos = 0
    BY <1>1, <1>2, AtFields
  <2> QED
    BY <2>1 DEF MagicOf
<1>4. \A i \in Places : req[i].id = n
  BY <1>1, AtFields
<1> QED
  BY <1>2, <1>3, <1>4 DEF PayloadId

LEMMA DispatchAdvances == ASSUME Dispatch \/ PicoDiscards PROVE Advance
<1>1. ppc = "dispatch"
  BY DEF Dispatch, PicoDiscards
<1>2. ASSUME NEW k \in Magics, NEW n \in Nat, Taken(k, n) PROVE Stage(k, n)'
  <2>1. MagicOf(req[0]) = k /\ k # "none"
    BY <1>2, TakenMagic, LinkAssumption DEF Magics
  <2>2. /\ handler' = k /\ ppc' = "exec"
        /\ UNCHANGED <<resp, input, sending, pktQueues_, output, rx_idx, req, ready>>
    BY <2>1 DEF Dispatch, PicoDiscards, hostVars, rxVars
  <2>3. NothingBack' = NothingBack /\ LineFree' = LineFree
    BY <2>2 DEF Stream, Coming, NothingBack, LineFree, Bare
  <2> QED
    BY <1>1, <1>2, <2>2, <2>3 DEF Taken, Stage
<1> QED
  BY <1>1, <1>2, WorkIsTaken DEF Advance

LEMMA ExecAdvances == ASSUME HostInv, Exec PROVE Advance
<1>1. /\ ppc = "exec" /\ ppc' = "reply" /\ sending = <<>> /\ sending' = Packet(handler, PayloadId)
      /\ UNCHANGED <<resp, input, pktQueues_, output, rx_idx, ready>>
  BY DEF Exec, hostVars, rxVars, HostInv, WriterType
<1>2. ComingType
  BY DEF HostInv
<1>3. ASSUME NEW k \in Magics, NEW n \in Nat, Taken(k, n) PROVE Stage(k, n)'
  <2>1. PayloadId = n /\ handler = k /\ ~ready /\ LineFree /\ NothingBack
    BY <1>1, <1>3, TakenMagic DEF Taken
  <2>2. Packet(k, n) \in Seq(Byte)
    BY PacketBytes
  <2>3. Stream' = Stream \o Packet(k, n)
    BY <1>1, <1>2, <2>1, <2>2, StartStream
  <2>4. Holds(Stream', k, n)
    BY <1>2, <2>1, <2>3, StreamType, HoldsAnswer DEF NothingBack
  <2>5. LineFree' /\ LoopFree'
    BY <1>1, <2>1 DEF LineFree, LoopFree
  <2> QED
    BY <1>1, <2>1, <2>4, <2>5 DEF NothingBack, Answering, Stage
<1> QED
  BY <1>1, <1>3, WorkIsTaken DEF Advance

\* The confirmation of a shutdown is not answered.
LEMMA PktShutdownAdvances == ASSUME ComingType, PktShutdown PROVE Advance
<1>1. /\ ppc = "exec" /\ ppc' = "top"
      /\ UNCHANGED <<resp, input, sending, pktQueues_, output, rx_idx, ready>>
  BY DEF PktShutdown, hostVars, rxVars
<1>2. Stream' = Stream /\ Stream \in Seq(Byte)
  BY <1>1, StreamType DEF Stream, Coming
<1>3. ASSUME NEW k \in Magics, NEW n \in Nat, Taken(k, n) PROVE Stage(k, n)'
  <2>1. ~ready /\ LineFree /\ NothingBack
    BY <1>1, <1>3 DEF Taken
  <2>2. Holds(Stream', k, n)
    BY <1>2, <2>1, BareHolds DEF NothingBack
  <2>3. LineFree' /\ LoopFree'
    BY <1>1, <2>1 DEF LineFree, LoopFree
  <2> QED
    BY <1>1, <2>1, <2>2, <2>3 DEF NothingBack, Answering, Stage
<1> QED
  BY <1>1, <1>3, WorkIsTaken DEF Advance

\* The interrupt takes the next byte of the request, which is no zero to be dropped.
LEMMA OnUartRxAdvances == ASSUME LineType, OnUartRx PROVE Advance
<1> USE Lengths
<1>1. /\ output # <<>> /\ output' = Tail(output)
      /\ UNCHANGED <<resp, input, sending, pktQueues_, ppc, handler>>
  BY DEF OnUartRx, hostVars, loopVars
<1>2. ~LineFree
  BY <1>1 DEF LineFree
<1>3. /\ output \in Seq(Byte) /\ rx_idx \in Places /\ req \in [Places -> Byte]
      /\ Len(output) \in Nat \ {0} /\ Head(output) = output[1]
      /\ Len(Tail(output)) = Len(output) - 1
      /\ \A i \in 1 .. Len(output) - 1 : Tail(output)[i] = output[i + 1]
  BY <1>1 DEF LineType
<1>4. NothingBack' = NothingBack
  BY <1>1 DEF Stream, Coming, NothingBack, Bare
<1>5. ASSUME NEW k \in Magics, NEW n \in Nat, OnLine(k, n) PROVE Stage(k, n)'
  <2>1. /\ NothingBack /\ ~ready /\ ppc \notin {"dispatch", "exec"}
        /\ Len(output) + rx_idx = PktLen
        /\ \A i \in 1 .. Len(output) : output[i] = At(k, n, rx_idx + i - 1)
        /\ \A i \in Places : i < rx_idx => req[i] = At(k, n, i)
    BY <1>5 DEF OnLine, LoopFree
  <2>2. Head(output) = At(k, n, rx_idx)
    BY <1>3, <2>1 DEF Places
  <2>3. ~Dropped(Head(output))
    <3>1. k # "none"
      BY LinkAssumption DEF Magics
    <3>2. rx_idx = 0 => At(k, n, rx_idx).magic # "none" /\ ~(At(k, n, rx_idx).pos > PayloadLen)
      BY <3>1 DEF At
    <3> QED
      BY <2>2, <3>2 DEF Dropped, IsNull
  <2>4. /\ req' = [req EXCEPT ![rx_idx] = At(k, n, rx_idx)]
        /\ rx_idx' = NextPlace(rx_idx)
        /\ ready' = (ready \/ rx_idx + 1 = PktLen)
    BY <2>2, <2>3 DEF OnUartRx
  <2>5. \A i \in Places : i <= rx_idx => req'[i] = At(k, n, i)
    BY <1>3, <2>1, <2>4 DEF Places
  <2>6. CASE rx_idx + 1 = PktLen
    <3>1. ready' /\ rx_idx' = 0
      BY <2>4, <2>6 DEF NextPlace
    <3>2. Len(output) = 1 /\ output' = <<>>
      BY <1>1, <1>3, <2>1, <2>6 DEF Places
    <3>3. \A i \in Places : req'[i] = At(k, n, i)
      BY <1>3, <2>5, <2>6 DEF Places
    <3> QED
      BY <1>1, <1>4, <2>1, <3>1, <3>2, <3>3 DEF LineFree, Taken, Stage
  <2>7. CASE rx_idx + 1 # PktLen
    <3>1. ~ready' /\ rx_idx' = rx_idx + 1
      BY <2>1, <2>4, <2>7 DEF NextPlace
    <3>2. Len(output') + rx_idx' = PktLen
      BY <1>1, <1>3, <2>1, <3>1 DEF Places
    <3>3. ASSUME NEW i \in 1 .. Len(output') PROVE output'[i] = At(k, n, rx_idx' + i - 1)
      <4>1. /\ i \in 1 .. Len(output) - 1 /\ i + 1 \in 1 .. Len(output)
            /\ rx_idx + (i + 1) - 1 = (rx_idx + 1) + i - 1
        BY <1>1, <1>3 DEF Places
      <4>2. output'[i] = output[i + 1]
        BY <1>1, <1>3, <4>1
      <4>3. output[i + 1] = At(k, n, rx_idx + (i + 1) - 1)
        BY <2>1, <4>1
      <4> QED
        BY <3>1, <4>1, <4>2, <4>3
    <3>4. \A i \in Places : i < rx_idx' => req'[i] = At(k, n, i)
      BY <1>3, <2>5, <3>1 DEF Places
    <3>5. LoopFree'
      BY <1>1, <2>1, <3>1 DEF LoopFree
    <3> QED
      BY <1>4, <2>1, <3>2, <3>3, <3>4, <3>5 DEF OnLine, Stage
  <2> QED
    BY <2>6, <2>7
<1>6. ASSUME NEW k \in Magics, NEW n \in Nat, Stage(k, n) PROVE Stage(k, n)'
  BY <1>2, <1>5, <1>6 DEF Stage, Taken, Answering, Answered
<1>7. ~Resting
  BY <1>2 DEF Resting
<1> QED
  BY <1>6, <1>7 DEF Advance

\* No two requests overlapped, and no payload passes for a magic number if bytes were lost.
Calm == ~overlap /\ (cut => PayloadMagic = "none")

\* As long as nothing was lost, the reader has the front of a packet.
Front == ~cut /\ resp # <<>> => resp[1].pos = 0

LEMMA FrontStep == ASSUME HostInv, Front, [Next]_vars PROVE Front'
<1>1. ASSUME resp' = <<>> PROVE Front'
  BY <1>1 DEF Front
<1>2. ASSUME UNCHANGED resp, ~cut' => ~cut PROVE Front'
  BY <1>2 DEF Front
<1>3. CASE Read
  <2>1. PICK n \in 1 .. Len(input) : resp' = resp \o SubSeq(input, 1, n)
    BY <1>3 DEF Read
  <2>2. resp \in Seq(Byte) /\ input \in Seq(Byte) /\ sending \in Seq(Byte) /\ cut' = cut
    BY <1>3 DEF HostInv, ComingType, Read, history
  <2>3. CASE resp = <<>>
    <3>1. resp'[1] = input[1]
      BY <2>1, <2>2, <2>3
    <3>2. Coming # <<>> /\ Coming[1] = input[1]
      BY <2>1, <2>2 DEF Coming
    <3>3. ReaderPlace = 0
      BY <2>3, Lengths DEF ReaderPlace
    <3> QED
      BY <2>2, <3>1, <3>2, <3>3 DEF Front, HostInv, ComingInStep, InStep
  <2>4. CASE resp # <<>>
    <3>1. resp'[1] = resp[1]
      BY <2>1, <2>2, <2>4
    <3> QED
      BY <2>2, <2>4, <3>1 DEF Front
  <2> QED
    BY <2>3, <2>4
<1>4. CASE Enqueue \/ HandleShutdown \/ HostDiscards \/ Restart
  BY <1>1, <1>4 DEF Enqueue, HandleShutdown, HostDiscards, Restart
<1>5. ASSUME NEW s \in Senders, Send(s) PROVE Front'
  <2>1. UNCHANGED resp /\ (cut' = cut \/ cut' = (cut \/ input # <<>>))
    BY <1>5 DEF Send, Wait, Flush, Write, Pop, GiveUp, history
  <2>2. ~cut' => ~cut
    BY <2>1, Zenon
  <2> QED
    BY <1>2, <2>1, <2>2
<1>6. CASE \/ \E c \in Clients : Begin(c)
           \/ PowerOff \/ OnUartRx \/ MainLoop \/ RaiseShutdown \/ UNCHANGED vars
  <2>1. UNCHANGED <<resp, cut>>
    BY <1>6 DEF Begin, PowerOff, OnUartRx, MainLoop, Top, UartWrite, Notified, Poll, Dispatch,
                PicoDiscards, BlinkEnds, Exec, PktShutdown, Replied, RaiseShutdown, vars,
                hostVars, history
  <2> QED
    BY <1>2, <2>1
<1> QED
  BY <1>3, <1>4, <1>5, <1>6 DEF Next, ReaderThread

\* The reader puts the answer into the queue of its kind; whatever else it has, it
\* drops or takes for what it is, a shutdown packet.
LEMMA ReaderAdvances ==
    ASSUME HostInv, RestType, Front, Calm, Enqueue \/ HandleShutdown \/ HostDiscards
    PROVE  Advance
<1>1. /\ pc[Reader] = "dispatch" /\ resp' = <<>>
      /\ UNCHANGED <<input, sending, output, rx_idx, req, ready, handler, ppc>>
  BY DEF Enqueue, HandleShutdown, HostDiscards, loopVars, rxVars
<1>2. /\ resp \in Seq(Byte) /\ Coming \in Seq(Byte) /\ Len(resp) = PktLen /\ resp # <<>>
  BY <1>1, StreamType, Lengths DEF HostInv, ReaderType
<1>3. Stream = resp \o Coming /\ Stream' = Coming
  <2>1. Coming' = Coming
    BY <1>1 DEF Coming
  <2> QED
    BY <1>1, <1>2, <2>1, ConcatEmptySeq DEF Stream
<1>4. LineFree' = LineFree /\ LoopFree' = LoopFree
  BY <1>1 DEF LineFree, LoopFree
<1>5. ASSUME Bare(Stream) PROVE Bare(Stream') /\ UNCHANGED pktQueues_
  <2>1. Bare(resp) /\ Bare(Coming)
    BY <1>2, <1>3, <1>5, BareJoin
  <2>2. resp[1].magic = "shutdown"
    BY <1>2, <2>1, Lengths DEF Bare
  <2>3. "shutdown" \notin Kinds /\ "none" \notin Kinds
    BY LinkAssumption
  <2>4. ~Enqueue
    BY <2>2, <2>3 DEF Enqueue, MagicOf
  <2> QED
    BY <1>3, <2>1, <2>4 DEF HandleShutdown, HostDiscards
<1>6. NothingBack => NothingBack'
  BY <1>5 DEF NothingBack
<1>7. Resting => Resting'
  BY <1>4, <1>6 DEF Resting
<1>8. ASSUME NEW k \in Magics, NEW n \in Nat, Answering(k, n) PROVE Stage(k, n)'
  <2>1. /\ LineFree /\ LoopFree /\ Holds(resp \o Coming, k, n)
        /\ \A j \in Kinds : pktQueues_[j] = <<>>
    BY <1>3, <1>8 DEF Answering
  <2>2. CASE Enqueue
    <3>1. MagicOf(resp[1]) \in Kinds
      BY <2>2 DEF Enqueue
    <3>2. resp[1].magic # "shutdown"
      BY <3>1, LinkAssumption DEF MagicOf
    <3>3. resp[1].pos = 0
      <4>1. PayloadMagic # "none" \/ resp[1].pos = 0
        BY <3>1, LinkAssumption DEF MagicOf
      <4> QED
        BY <1>2, <4>1 DEF Calm, Front
    <3>4. resp = Packet(k, n) /\ Bare(Coming)
      BY <1>2, <2>1, <3>2, <3>3, HoldsFront
    <3>5. MagicOf(resp[1]) = k /\ k \in Kinds
      <4>1. resp[1].magic = k
        BY <1>2, <2>1, <3>2, HoldsMagic
      <4> QED
        BY <3>1, <3>3, <4>1 DEF MagicOf
    <3>6. pktQueues_' = [pktQueues_ EXCEPT ![k] = Stored(@)]
      BY <2>2, <3>5 DEF Enqueue
    <3>7. pktQueues_'[k] = <<Packet(k, n)>> /\ \A j \in Kinds : j # k => pktQueues_'[j] = <<>>
      <4>1. pktQueues_[k] = <<>> /\ DOMAIN pktQueues_ = Kinds
        BY <2>1, <3>5 DEF RestType, QueueType
      <4>2. Stored(<<>>) = <<Packet(k, n)>>
        BY <3>4, LinkAssumption DEF Stored
      <4> QED
        BY <2>1, <3>5, <3>6, <4>1, <4>2
    <3> QED
      BY <1>3, <1>4, <2>1, <3>4, <3>5, <3>7 DEF Answered, Stage
  <2>3. CASE HandleShutdown \/ HostDiscards
    <3>1. UNCHANGED pktQueues_
      BY <2>3 DEF HandleShutdown, HostDiscards
    <3>2. Holds(Stream', k, n)
      BY <1>2, <1>3, <2>1, HoldsRest
    <3> QED
      BY <1>4, <2>1, <3>1, <3>2 DEF Answering, Stage
  <2> QED
    BY <2>2, <2>3
<1>9. ASSUME NEW k \in Magics, NEW n \in Nat, Stage(k, n) PROVE Stage(k, n)'
  <2>1. CASE OnLine(k, n)
    BY <1>1, <1>4, <1>6, <2>1 DEF OnLine, Stage
  <2>2. CASE Taken(k, n)
    BY <1>1, <1>4, <1>6, <2>2 DEF Taken, Stage
  <2>3. CASE Answering(k, n)
    BY <1>8, <2>3
  <2>4. CASE Answered(k, n)
    BY <1>4, <1>5, <2>4 DEF Answered, Stage
  <2> QED
    BY <1>9, <2>1, <2>2, <2>3, <2>4 DEF Stage
<1> QED
  BY <1>7, <1>9 DEF Advance

LEMMA MainLoopAdvances == ASSUME HostInv, MainLoop PROVE Advance
<1>1. ComingType
  BY DEF HostInv
<1>2. CASE Top
  <2>1. /\ ppc = "top" /\ ppc' \in {"notify", "poll"}
        /\ UNCHANGED <<resp, input, pktQueues_, output, rx_idx, req, ready, handler>>
    BY <1>2 DEF Top, hostVars, rxVars
  <2>2. CASE is_host_shutdown_request_pending
    <3>1. sending = <<>> /\ sending' = Packet("shutdown", 0) /\ Packet("shutdown", 0) \in Seq(Byte)
      BY <1>2, <2>2, PacketBytes DEF Top, HostInv, WriterType, Magics
    <3>2. Stream' = Stream \o Packet("shutdown", 0)
      BY <1>1, <2>1, <3>1, StartStream
    <3> QED
      BY <1>1, <2>1, <3>2, StageTurns
  <2>3. CASE ~is_host_shutdown_request_pending
    <3>1. Stream' = Stream
      BY <1>2, <2>1, <2>3, StreamKept DEF Top
    <3> QED
      BY <1>1, <2>1, <3>1, StageTurns
  <2> QED
    BY <2>2, <2>3
<1>3. CASE UartWrite
  <2>1. Stream' = Stream /\ UNCHANGED <<pktQueues_, output, rx_idx, req, ready, handler, ppc>>
    BY <1>1, <1>3, UartWriteStream DEF UartWrite, hostVars, rxVars
  <2> QED
    BY <2>1, StageKept
<1>4. CASE Notified \/ BlinkEnds \/ Replied
  <2>1. /\ UNCHANGED <<resp, input, sending, pktQueues_, output, rx_idx, req, ready, handler>>
        /\ ppc \notin {"dispatch", "exec"} /\ ppc' \notin {"dispatch", "exec"}
    BY <1>4 DEF Notified, BlinkEnds, Replied, hostVars, rxVars
  <2> QED
    BY <1>1, <2>1, StreamKept, StageTurns
<1> QED
  BY <1>1, <1>2, <1>3, <1>4, PollAdvances, DispatchAdvances, ExecAdvances, PktShutdownAdvances
  DEF MainLoop

-----------------------------------------------------------------------------
(* The threads of picod *)

\* Only the holder of the mutex is between the flush and the end of its write.
Holder == \A s \in Senders : pc[s] = "write" => m_ = s

Nobody == \A s \in Senders : pc[s] # "wait"

\* At most one thread waits, for the answer to (k, n), and none writes another.
Waiting(k, n) ==
    /\ \A s \in Senders : pc[s] # "write"
    /\ \A s \in Senders : pc[s] = "wait" => kind[s] = k /\ number[s] = n /\ k \in Kinds
    /\ \A s, t \in Senders : pc[s] = "wait" /\ pc[t] = "wait" => s = t

Quiet == unanswered = {} /\ Nobody /\ Resting
Pending(k, n) == unanswered = {n} /\ Waiting(k, n) /\ Stage(k, n)
Phase == Quiet \/ \E k \in Magics, n \in Nat : Pending(k, n)

\* As long as requests do not overlap there is one at a time, or none.
RequestInv == Holder /\ Front /\ (Calm => Phase)

\* Nobody begins to wait or to write.
Settled ==
    \A s \in Senders :
        /\ pc'[s] = "wait" => pc[s] = "wait" /\ kind'[s] = kind[s] /\ number'[s] = number[s]
        /\ pc'[s] = "write" => pc[s] = "write"

LEMMA PhaseKept ==
    ASSUME Phase, Settled, Advance, UNCHANGED unanswered PROVE Phase'
<1>1. CASE Quiet
  BY <1>1 DEF Quiet, Nobody, Settled, Advance, Phase
<1>2. ASSUME NEW k \in Magics, NEW n \in Nat, Pending(k, n) PROVE Pending(k, n)'
  <2>1. Waiting(k, n)'
    BY <1>2 DEF Pending, Waiting, Settled
  <2>2. Stage(k, n)'
    BY <1>2 DEF Pending, Advance
  <2> QED
    BY <1>2, <2>1, <2>2 DEF Pending
<1> QED
  BY <1>1, <1>2 DEF Phase

LEMMA ReturnSettles ==
    ASSUME ThreadType, SenderType, NEW s \in Senders, pc[s] = "wait", Return(s)
    PROVE  Settled /\ pc'[s] # "wait"
<1>1. \E l \in {"idle", "flush"} : pc' = [pc EXCEPT ![s] = l]
  BY DEF Return, Request
<1>2. \A t \in Senders : t # s => kind'[t] = kind[t] /\ number'[t] = number[t]
  BY DEF Return, Request, SenderType
<1> QED
  BY <1>1, <1>2 DEF ThreadType, Settled

LEMMA RequestSettles ==
    ASSUME ThreadType, SenderType, NEW s \in Senders, NEW k, Request(s, k)
    PROVE  Settled
<1>1. pc' = [pc EXCEPT ![s] = "flush"]
  BY DEF Request
<1>2. \A t \in Senders : t # s => kind'[t] = kind[t] /\ number'[t] = number[t]
  BY DEF Request, SenderType
<1> QED
  BY <1>1, <1>2 DEF ThreadType, Settled

LEMMA PlaceSettles ==
    ASSUME ThreadType, NEW s \in Senders, NEW l \in {"idle", "read", "dispatch"},
           pc' = [pc EXCEPT ![s] = l], UNCHANGED <<kind, number>>
    PROVE  Settled
BY DEF ThreadType, Settled

\* What is no step of a sender and no restart.
LEMMA OthersSettle ==
    ASSUME ThreadType, SenderType, [Next]_vars, ~Restart, ~\E s \in Senders : Send(s)
    PROVE  Settled /\ UNCHANGED m_
<1>1. Reader \in Senders /\ Clients \subseteq Senders
  BY DEF Senders
<1>2. CASE \E c \in Clients : Begin(c)
  BY <1>1, <1>2, RequestSettles DEF Begin
<1>3. CASE HandleShutdown
  BY <1>1, <1>3, RequestSettles DEF HandleShutdown
<1>4. CASE Read \/ Enqueue \/ HostDiscards \/ PowerOff
  <2>1. \E l \in {"idle", "read", "dispatch"} : pc' = [pc EXCEPT ![Reader] = l]
    BY <1>4 DEF Read, Enqueue, HostDiscards, PowerOff
  <2>2. UNCHANGED <<kind, number, m_>>
    BY <1>4 DEF Read, Enqueue, HostDiscards, PowerOff
  <2> QED
    BY <1>1, <2>1, <2>2, PlaceSettles
<1>5. CASE OnUartRx \/ MainLoop \/ RaiseShutdown \/ UNCHANGED vars
  <2>1. UNCHANGED <<pc, kind, number, m_>>
    BY <1>5 DEF OnUartRx, RaiseShutdown, vars, hostVars, MainLoop, Top, UartWrite, Notified, Poll,
                Dispatch, PicoDiscards, BlinkEnds, Exec, PktShutdown, Replied
  <2> QED
    BY <2>1 DEF Settled
<1> QED
  BY <1>2, <1>3, <1>4, <1>5 DEF Next, ReaderThread

LEMMA HolderStep == ASSUME HostInv, RestType, Holder, [Next]_vars PROVE Holder'
<1>1. ThreadType /\ SenderType
  BY DEF HostInv, LineInv, RestType
<1>2. ASSUME Settled, UNCHANGED m_ PROVE Holder'
  BY <1>2 DEF Settled, Holder
<1>3. ASSUME NEW s \in Senders, Flush(s) PROVE Holder'
  <2>1. m_ = "free" /\ m_' = s /\ pc' = [pc EXCEPT ![s] = "write"]
    BY <1>3 DEF Flush
  <2>2. "free" \notin Senders
    BY LinkAssumption
  <2> QED
    BY <1>1, <2>1, <2>2 DEF ThreadType, Holder
<1>4. ASSUME NEW s \in Senders, Write(s) PROVE Holder'
  <2>1. m_ = s
    BY <1>4 DEF Write, Holder
  <2>2. \E l \in {"poweroff", "wait"} : pc' = [pc EXCEPT ![s] = l]
    BY <1>4 DEF Write
  <2> QED
    BY <1>1, <2>1, <2>2 DEF ThreadType, Holder
<1>5. ASSUME NEW s \in Senders, Pop(s) \/ GiveUp(s) PROVE Holder'
  <2>1. pc[s] = "wait" /\ Return(s) /\ m_' = m_
    BY <1>5 DEF Pop, GiveUp
  <2> QED
    BY <1>1, <1>2, <2>1, ReturnSettles
<1>6. CASE Restart
  BY <1>6 DEF Restart, Holder
<1>7. CASE ~Restart /\ ~\E s \in Senders : Send(s)
  <2>1. Settled /\ UNCHANGED m_
    BY <1>1, <1>7, OthersSettle
  <2> QED
    BY <1>2, <2>1
<1> QED
  BY <1>3, <1>4, <1>5, <1>6, <1>7 DEF Send, Wait

\* Nobody has waited or written while it is quiet, so what is flushed is no answer.
LEMMA FlushIsQuiet ==
    ASSUME HostInv, RestType, Phase, NEW s \in Senders, Flush(s), ~overlap' PROVE Phase'
<1>1. unanswered = {}
  BY DEF Flush
<1>2. Quiet
  BY <1>1 DEF Phase, Pending
<1>3. /\ pc' = [pc EXCEPT ![s] = "write"] /\ input' = <<>>
      /\ UNCHANGED <<resp, sending, pktQueues_, output, rx_idx, ready, ppc, unanswered>>
  BY DEF Flush, loopVars, rxVars
<1>4. resp \in Seq(Byte) /\ input \in Seq(Byte) /\ sending \in Seq(Byte) /\ Coming \in Seq(Byte)
  BY StreamType DEF HostInv
<1>5. Bare(resp) /\ Bare(sending)
  <2>1. Bare(resp \o Coming)
    BY <1>2 DEF Quiet, Resting, NothingBack, Stream
  <2>2. Bare(resp) /\ Bare(Coming)
    BY <1>4, <2>1, BareJoin
  <2> QED
    BY <1>4, <2>2, BareJoin DEF Coming
<1>6. Stream' = resp \o sending
  <2>1. Coming' = sending
    BY <1>3, <1>4, ConcatEmptySeq DEF Coming
  <2> QED
    BY <1>3, <2>1 DEF Stream
<1>7. Bare(Stream')
  BY <1>4, <1>5, <1>6, BareJoin
<1>8. Resting'
  BY <1>2, <1>3, <1>7 DEF Quiet, Resting, NothingBack, LoopFree, LineFree
<1>9. Nobody'
  BY <1>2, <1>3 DEF RestType, ThreadType, Quiet, Nobody
<1> QED
  BY <1>1, <1>3, <1>8, <1>9 DEF Quiet, Phase

\* The request is on its way, or, if the write failed, it will never be answered.
LEMMA WriteStarts ==
    ASSUME HostInv, RestType, Holder, Phase, NEW s \in Senders, Write(s) PROVE Phase'
<1>1. PICK k \in Magics, n \in Nat : kind[s] = k /\ number[s] = n
  BY DEF HostInv, LineInv, SenderType
<1>2. pc[s] = "write" /\ m_ = s
  BY DEF Write, Holder
<1>3. Quiet
  BY <1>2 DEF Phase, Pending, Waiting
<1>4. /\ unanswered' = unanswered \cup {n}
      /\ pc' = [pc EXCEPT ![s] = IF k = "shutdown" THEN "poweroff" ELSE "wait"]
      /\ UNCHANGED <<kind, number, resp, input, sending, pktQueues_, req, rx_idx, ready, ppc>>
  BY <1>1 DEF Write, loopVars, rxVars
<1>5. Waiting(k, n)'
  <2>1. \A t \in Senders : t # s => pc'[t] = pc[t] /\ pc[t] # "write" /\ pc[t] # "wait"
    BY <1>2, <1>3, <1>4 DEF Holder, Quiet, Nobody, RestType, ThreadType
  <2>2. pc'[s] # "write" /\ (pc'[s] = "wait" => k # "shutdown")
    BY <1>4 DEF RestType, ThreadType
  <2>3. kind'[s] = k /\ number'[s] = n /\ (k # "shutdown" => k \in Kinds)
    BY <1>1, <1>4 DEF Magics
  <2>4. \A t \in Senders : pc'[t] # "write" /\ (pc'[t] = "wait" => t = s)
    BY <2>1, <2>2
  <2> QED
    BY <2>2, <2>3, <2>4 DEF Waiting
<1>6. ASSUME output' = output \o Packet(k, n) PROVE Stage(k, n)'
  <2>1. output = <<>> /\ rx_idx = 0 /\ NothingBack /\ LoopFree
    BY <1>3 DEF Quiet, Resting, LineFree
  <2>2. /\ Packet(k, n) \in Seq(Byte) /\ Len(Packet(k, n)) = PktLen
        /\ \A i \in 1 .. PktLen : Packet(k, n)[i] = At(k, n, i - 1)
    BY <1>1, PacketBytes
  <2>3. output' = Packet(k, n) /\ rx_idx' = 0
    BY <1>4, <1>6, <2>1, <2>2, ConcatEmptySeq
  <2>4. NothingBack' /\ LoopFree'
    BY <1>4, <2>1 DEF NothingBack, LoopFree, Stream, Coming
  <2>5. Len(output') + rx_idx' = PktLen
    BY <2>2, <2>3, Lengths
  <2>6. \A i \in 1 .. Len(output') : output'[i] = At(k, n, rx_idx' + i - 1)
    BY <2>2, <2>3
  <2>7. \A i \in Places : ~(i < rx_idx')
    BY <2>3 DEF Places
  <2>8. OnLine(k, n)'
    BY <2>4, <2>5, <2>6, <2>7 DEF OnLine
  <2> QED
    BY <2>8 DEF Stage
<1>7. ASSUME UNCHANGED output PROVE Stage(k, n)'
  <2>1. Stream' = Stream /\ Stream \in Seq(Byte)
    BY <1>4, StreamKept, StreamType DEF HostInv
  <2>2. Bare(Stream) /\ LineFree /\ LoopFree /\ \A j \in Kinds : pktQueues_[j] = <<>>
    BY <1>3 DEF Quiet, Resting, NothingBack
  <2>3. Holds(Stream', k, n)
    BY <2>1, <2>2, BareHolds
  <2>4. LineFree' /\ LoopFree' /\ \A j \in Kinds : pktQueues_'[j] = <<>>
    BY <1>4, <1>7, <2>2 DEF LineFree, LoopFree
  <2> QED
    BY <2>3, <2>4 DEF Answering, Stage
<1>8. Stage(k, n)'
  BY <1>1, <1>6, <1>7 DEF Write
<1>9. unanswered' = {n}
  BY <1>3, <1>4 DEF Quiet
<1> QED
  BY <1>1, <1>5, <1>8, <1>9 DEF Pending, Phase

\* Who finds something in the queue finds the answer to its own request.
LEMMA Found ==
    ASSUME Phase, NEW s \in Senders, pc[s] = "wait", pktQueues_[kind[s]] # <<>>
    PROVE  /\ kind[s] \in Kinds /\ number[s] \in Nat
           /\ unanswered = {number[s]}
           /\ Waiting(kind[s], number[s]) /\ Answered(kind[s], number[s])
<1>1. ~Quiet
  BY DEF Quiet, Nobody
<1>2. PICK k \in Magics, n \in Nat : Pending(k, n)
  BY <1>1 DEF Phase
<1>3. kind[s] = k /\ number[s] = n /\ k \in Kinds
  BY <1>2 DEF Pending, Waiting
<1>4. Answered(k, n)
  BY <1>2, <1>3 DEF Pending, Stage, OnLine, Taken, NothingBack, Answering
<1> QED
  BY <1>2, <1>3, <1>4 DEF Pending

LEMMA PopEnds ==
    ASSUME HostInv, RestType, Phase, NEW s \in Senders, Pop(s) PROVE Phase'
<1> DEFINE k == kind[s]
<1>1. /\ pc[s] = "wait" /\ Return(s) /\ pktQueues_[k] # <<>>
      /\ pktQueues_' = [pktQueues_ EXCEPT ![k] = Tail(@)]
      /\ unanswered' = unanswered \ {number[s]}
      /\ UNCHANGED <<resp, input, sending, output, rx_idx, ready, ppc>>
  BY DEF Pop, loopVars, rxVars
<1>2. k \in Kinds /\ unanswered = {number[s]} /\ Waiting(k, number[s]) /\ Answered(k, number[s])
  BY <1>1, Found
<1>3. Settled /\ pc'[s] # "wait"
  BY <1>1, ReturnSettles DEF HostInv, LineInv, RestType
<1>4. Nobody'
  BY <1>1, <1>2, <1>3 DEF Waiting, Settled, Nobody
<1>5. unanswered' = {}
  BY <1>1, <1>2
<1>6. \A j \in Kinds : pktQueues_'[j] = <<>>
  <2>1. DOMAIN pktQueues_ = Kinds
    BY DEF RestType, QueueType
  <2>2. /\ pktQueues_[k] = <<Packet(k, number[s])>>
        /\ \A j \in Kinds : j # k => pktQueues_[j] = <<>>
    BY <1>2 DEF Answered
  <2>3. Tail(pktQueues_[k]) = <<>>
    BY <2>2
  <2> HIDE DEF k
  <2> QED
    BY <1>1, <1>2, <2>1, <2>2, <2>3
<1>7. Resting'
  BY <1>1, <1>2, <1>6 DEF Answered, Resting, NothingBack, LineFree, LoopFree, Stream, Coming
<1> QED
  BY <1>4, <1>5, <1>7 DEF Quiet, Phase

\* A restart finds no request underway, or it makes the next one overlap.
LEMMA RestartIsQuiet ==
    ASSUME HostInv, Phase, Restart, ~overlap' PROVE Phase'
<1>1. unanswered = {} /\ unanswered' = {}
  BY DEF Restart
<1>2. Quiet
  BY <1>1 DEF Phase, Pending
<1>3. /\ resp' = <<>> /\ input' = <<>> /\ output' = <<>> /\ pktQueues_' = [j \in Kinds |-> <<>>]
      /\ UNCHANGED <<sending, rx_idx, ready, ppc>>
      /\ pc' = [s \in Senders |-> IF s = Reader THEN "read" ELSE "idle"]
  BY DEF Restart, loopVars, rxVars
<1>4. resp \in Seq(Byte) /\ input \in Seq(Byte) /\ sending \in Seq(Byte) /\ Coming \in Seq(Byte)
  BY StreamType DEF HostInv
<1>5. Bare(sending)
  <2>1. Bare(resp \o Coming)
    BY <1>2 DEF Quiet, Resting, NothingBack, Stream
  <2>2. Bare(Coming)
    BY <1>4, <2>1, BareJoin
  <2> QED
    BY <1>4, <2>2, BareJoin DEF Coming
<1>6. Stream' = sending
  BY <1>3, <1>4, ConcatEmptySeq DEF Stream, Coming
<1>7. Resting'
  BY <1>2, <1>3, <1>5, <1>6 DEF Quiet, Resting, NothingBack, LineFree, LoopFree
<1>8. Nobody'
  BY <1>3 DEF Nobody
<1> QED
  BY <1>1, <1>7, <1>8 DEF Quiet, Phase

LEMMA PhaseStep ==
    ASSUME HostInv, RestType, RequestInv, Calm', [Next]_vars PROVE Phase'
<1>1. ThreadType /\ SenderType /\ ComingType /\ LineType
  BY DEF HostInv, LineInv, RestType
<1>2. Calm
  <2>1. /\ overlap' = overlap \/ overlap' = (overlap \/ unanswered # {})
        /\ cut' = cut \/ cut' = (cut \/ input # <<>>) \/ cut' = TRUE
    BY DEF Next, Begin, Send, Wait, Flush, Write, Pop, GiveUp, ReaderThread, Read, Enqueue,
           HandleShutdown, HostDiscards, PowerOff, RaiseShutdown, Restart, OnUartRx, MainLoop,
           Top, UartWrite, Notified, Poll, Dispatch, PicoDiscards, BlinkEnds, Exec, PktShutdown,
           Replied, vars, history
  <2>2. (~overlap' => ~overlap) /\ (cut => cut')
    <3>1. ~overlap' => ~overlap
      BY <2>1, Zenon
    <3>2. CASE cut' = TRUE
      BY <3>1, <3>2, Zenon
    <3>3. CASE cut' = cut
      BY <3>1, <3>3, Zenon
    <3>4. CASE cut' = (cut \/ input # <<>>)
      BY <3>1, <3>4, Zenon
    <3> QED
      BY <2>1, <3>1, <3>2, <3>3, <3>4, Zenon
  <2>3. ~overlap' /\ (cut' => PayloadMagic = "none")
    BY DEF Calm
  <2> QED
    BY <2>2, <2>3, Zenon DEF Calm
<1>3. Phase /\ Holder /\ Front /\ ~overlap'
  BY <1>2 DEF RequestInv, Calm
<1>4. ASSUME NEW s \in Senders, Send(s) PROVE Phase'
  <2>1. CASE GiveUp(s)
    <3>1. /\ pc[s] = "wait" /\ Return(s)
          /\ UNCHANGED <<resp, input, sending, pktQueues_, output, rx_idx, req, ready, handler,
                         ppc, unanswered>>
      BY <2>1 DEF GiveUp, loopVars, rxVars, history
    <3>2. Settled /\ Advance
      BY <1>1, <3>1, ReturnSettles, StreamKept, StageKept
    <3> QED
      BY <1>3, <3>1, <3>2, PhaseKept
  <2> QED
    BY <1>3, <1>4, <2>1, FlushIsQuiet, WriteStarts, PopEnds DEF Send, Wait
<1>5. CASE Restart
  BY <1>3, <1>5, RestartIsQuiet
<1>6. CASE ~Restart /\ ~\E s \in Senders : Send(s)
  <2>1. Settled
    BY <1>1, <1>6, OthersSettle
  <2>2. UNCHANGED unanswered
    BY <1>6 DEF Next, Begin, ReaderThread, Read, Enqueue, HandleShutdown, HostDiscards, PowerOff,
                RaiseShutdown, OnUartRx, MainLoop, Top, UartWrite, Notified, Poll, Dispatch,
                PicoDiscards, BlinkEnds, Exec, PktShutdown, Replied, vars, history
  <2>3. Advance
    <3>1. CASE (\E c \in Clients : Begin(c)) \/ PowerOff \/ RaiseShutdown \/ UNCHANGED vars
      <4>1. UNCHANGED <<resp, input, sending, pktQueues_, output, rx_idx, req, ready, handler, ppc>>
        BY <3>1 DEF Begin, PowerOff, RaiseShutdown, vars, hostVars, loopVars, rxVars
      <4> QED
        BY <4>1, StreamKept, StageKept
    <3>2. CASE Read
      <4>1. UNCHANGED <<pktQueues_, output, rx_idx, req, ready, handler, ppc>>
        BY <3>2 DEF Read, loopVars, rxVars
      <4> QED
        BY <1>1, <3>2, <4>1, ReadStream, StageKept
    <3>3. CASE Enqueue \/ HandleShutdown \/ HostDiscards
      BY <1>2, <1>3, <3>3, ReaderAdvances
    <3>4. CASE OnUartRx \/ MainLoop
      BY <1>1, <3>4, OnUartRxAdvances, MainLoopAdvances
    <3> QED
      BY <1>6, <3>1, <3>2, <3>3, <3>4 DEF Next, ReaderThread
  <2> QED
    BY <1>3, <2>1, <2>2, <2>3, PhaseKept
<1> QED
  BY <1>4, <1>5, <1>6

LEMMA RequestInit == ASSUME Init PROVE RequestInv
<1>1. Stream = <<>>
  BY ConcatEmptySeq, EmptySeq DEF Init, Stream, Coming
<1>2. Resting
  BY <1>1, BarePacket DEF Init, Resting, NothingBack, LoopFree, LineFree
<1>3. Holder /\ Nobody /\ unanswered = {}
  BY DEF Init, Holder, Nobody
<1>4. Front
  BY DEF Init, Front
<1> QED
  BY <1>2, <1>3, <1>4 DEF RequestInv, Phase, Quiet

\* get_pico_response hands a caller the answer to its own request, whole, although
\* the queues know nothing but the kind: with one request at a time nothing older
\* can be in them, and send_pico_request's flush, a restart or a torn shutdown
\* packet does not change that unless a payload passes for a magic number.
THEOREM AnswersAreOwn == Spec => []OwnAnswer
<1> DEFINE AllInv == HostInv /\ RestType /\ RequestInv
<1>1. Init => AllInv
  BY HostInit, RestInit, RequestInit
<1>2. AllInv /\ [Next]_vars => AllInv'
  <2> SUFFICES ASSUME HostInv, RestType, RequestInv, [Next]_vars
               PROVE  HostInv' /\ RestType' /\ RequestInv'
    OBVIOUS
  <2>1. HostInv' /\ RestType'
    BY HostStep, RestStep
  <2>2. Holder' /\ Front'
    BY HolderStep, FrontStep DEF RequestInv
  <2>3. Calm' => Phase'
    BY PhaseStep
  <2> QED
    BY <2>1, <2>2, <2>3 DEF RequestInv
<1>3. AllInv => OwnAnswer
  <2> SUFFICES ASSUME RequestInv, NEW s \in Senders, pc[s] = "wait",
                      pktQueues_[kind[s]] # <<>>, Calm
               PROVE  Head(pktQueues_[kind[s]]) = Packet(kind[s], number[s])
    BY DEF OwnAnswer, Calm
  <2>1. Answered(kind[s], number[s])
    BY Found DEF RequestInv
  <2> QED
    BY <2>1 DEF Answered
<1> HIDE DEF AllInv
<1> QED
  BY <1>1, <1>2, <1>3, PTL DEF Spec
================================================================================
