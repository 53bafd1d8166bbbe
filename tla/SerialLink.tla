------------------------------- MODULE SerialLink -------------------------------
(***************************************************************************)
(* The serial link between picod and the Pico, byte by byte: the threads   *)
(* of picod that send requests and wait for the answer, the thread that    *)
(* reads the port, puts packets together and hands them to the queues      *)
(* (src/CM4/src/PacketHandler.cpp, ConcurrentQueue.hpp, pkt_shutdown), and *)
(* the Pico's receive interrupt and main loop (src/pico/cm4-wrt-a.c).      *)
(*                                                                         *)
(* A byte remembers the packet it was written for and its place in it, so  *)
(* that the model can tell a whole packet from a torn one.  The code sees  *)
(* only its value: the magic number at place 0, then PayloadLen bytes,     *)
(* which may have the value of a magic number by chance, then zeros.       *)
(***************************************************************************)
EXTENDS Integers, Sequences, FiniteSets

CONSTANTS
    Clients,      \* picod's threads that send requests: monitor, web server, ubus
    Reader,       \* the thread in PacketHandler::run
    Kinds,        \* the packets that are answered; "fan" is one
    PktLen,       \* PICO_PKT_LEN
    PayloadLen,   \* non-zero bytes after the magic
    PayloadMagic, \* the magic number they have the value of, or "none"
    QueueMax,     \* ConcurrentQueue's max_queue_size
    MaxRequests,  \* bound: requests the clients begin
    MaxPresses,   \* bound: shutdown packets the Pico begins
    MaxRestarts   \* bound: restarts of the CM4

Magics == Kinds \cup {"shutdown"}
Senders == Clients \cup {Reader}

ASSUME LinkAssumption ==
    /\ Reader \notin Clients /\ "free" \notin Senders
    /\ "fan" \in Kinds /\ Kinds \subseteq {"fan", "watchdog", "temperature"}
    /\ PktLen \in Nat \ {0} /\ PayloadLen \in Nat /\ PayloadLen < PktLen
    /\ PayloadMagic \in Magics \cup {"none"}
    /\ QueueMax \in Nat \ {0}
    /\ MaxRequests \in Nat /\ MaxPresses \in Nat /\ MaxRestarts \in Nat

VARIABLES
    \* picod
    pc,         \* where each sender is
    kind,       \* what it sends
    number,     \* the number of its request
    m_,         \* the mutex of send_pico_request: its holder, or "free"
    pktQueues_, \* for every kind, packets to be popped
    resp,       \* pkt.resp of the reader, up to numBytesRead
    input,      \* bytes in the kernel's receive buffer
    \* the line from picod to the Pico
    output,
    \* the Pico
    ppc,        \* where its main loop is
    req,        \* pkt.req
    rx_idx,
    ready,
    handler,    \* the kind the main loop is processing
    sending,    \* what uart_write_blocking has not written yet
    is_host_shutdown_request_pending,
    is_cm4_graceful_shutdown,
    \* counters and history
    requests, presses, restarts,
    cut,        \* a flush or a restart has discarded bytes meant for picod
    unanswered, \* requests written, or supposed to be, and not answered
    overlap     \* one was begun while another was unanswered

hostVars  == <<pc, kind, number, m_, pktQueues_, resp>>
loopVars  == <<ppc, handler, sending, is_host_shutdown_request_pending>>
rxVars    == <<req, rx_idx, ready>>
bounds    == <<requests, presses, restarts>>
history   == <<cut, unanswered, overlap>>
vars == <<hostVars, input, output, loopVars, rxVars, is_cm4_graceful_shutdown,
          bounds, history>>

Places == 0 .. PktLen - 1
Byte == [magic : Magics \cup {"none"}, id : Nat, pos : Places]
Wiped == [magic |-> "none", id |-> 0, pos |-> 0]

\* The packet of kind k that carries the number n, and its i-th byte.
Packet(k, n) == [i \in 1 .. PktLen |-> [magic |-> k, id |-> n, pos |-> i - 1]]

\* The place after p, in this packet or the next.
NextPlace(p) == IF p + 1 = PktLen THEN 0 ELSE p + 1

IsNull(b) == b.magic = "none" \/ b.pos > PayloadLen

\* The value of a byte as a magic number.  The payload of a shutdown packet is a
\* flag; a temperature, a speed, a duty cycle or a timeout can be anything.
MagicOf(b) ==
    IF b.pos = 0 THEN b.magic
    ELSE IF b.magic \in Kinds /\ ~IsNull(b) THEN PayloadMagic
    ELSE "none"

TypeOK ==
    /\ pc \in [Senders -> {"idle", "read", "dispatch", "flush", "write", "wait", "poweroff"}]
    /\ kind \in [Senders -> Magics] /\ number \in [Senders -> Nat]
    /\ m_ \in Senders \cup {"free"}
    /\ \A k \in Kinds : Len(pktQueues_[k]) <= QueueMax
    /\ Len(resp) <= PktLen
    /\ \A q \in {resp, input, output, sending} : \A i \in DOMAIN q : q[i] \in Byte
    /\ ppc \in {"top", "notify", "poll", "dispatch", "exec", "reply", "blink"}
    /\ req \in [Places -> Byte] /\ rx_idx \in Places /\ ready \in BOOLEAN
    /\ handler \in Magics \cup {"none"}
    /\ is_host_shutdown_request_pending \in BOOLEAN /\ is_cm4_graceful_shutdown \in BOOLEAN
    /\ requests \in Nat
    /\ presses \in 0 .. MaxPresses /\ restarts \in 0 .. MaxRestarts
    /\ cut \in BOOLEAN /\ unanswered \subseteq Nat /\ overlap \in BOOLEAN

\* picod has opened and flushed the port and the Pico waits for a packet.
Init ==
    /\ pc = [s \in Senders |-> IF s = Reader THEN "read" ELSE "idle"]
    /\ kind = [s \in Senders |-> "fan"] /\ number = [s \in Senders |-> 0]
    /\ m_ = "free"
    /\ pktQueues_ = [k \in Kinds |-> <<>>]
    /\ resp = <<>> /\ input = <<>> /\ output = <<>>
    /\ ppc = "top" /\ req = [i \in Places |-> Wiped] /\ rx_idx = 0 /\ ready = FALSE
    /\ handler = "none" /\ sending = <<>>
    /\ is_host_shutdown_request_pending = FALSE /\ is_cm4_graceful_shutdown = FALSE
    /\ requests = 0 /\ presses = 0 /\ restarts = 0
    /\ cut = FALSE /\ unanswered = {} /\ overlap = FALSE

-----------------------------------------------------------------------------
(* Senders: send_fan_pwm_request and its like, and pkt_shutdown on the reader *)

Request(s, k) ==
    /\ pc' = [pc EXCEPT ![s] = "flush"]
    /\ kind' = [kind EXCEPT ![s] = k]
    /\ requests' = requests + 1
    /\ number' = [number EXCEPT ![s] = requests']

Begin(c) ==
    /\ pc[c] = "idle"
    /\ requests < MaxRequests
    /\ \E k \in Kinds : Request(c, k)
    /\ UNCHANGED <<m_, pktQueues_, resp, input, output, loopVars, rxVars,
                   is_cm4_graceful_shutdown, presses, restarts, history>>

\* send_pico_request takes the mutex and discards what nobody has read yet.
Flush(s) ==
    /\ pc[s] = "flush"
    /\ m_ = "free"
    /\ m_' = s
    /\ input' = <<>>
    /\ cut' = (cut \/ input # <<>>)
    /\ overlap' = (overlap \/ unanswered # {})
    /\ pc' = [pc EXCEPT ![s] = "write"]
    /\ UNCHANGED <<kind, number, pktQueues_, resp, output, loopVars, rxVars,
                   is_cm4_graceful_shutdown, bounds, unanswered>>

\* It writes the request, or fails to, and releases the mutex.  The callers ignore
\* what it returns and wait, or power the CM4 off, all the same.
Write(s) ==
    /\ pc[s] = "write"
    /\ \/ output' = output \o Packet(kind[s], number[s])
       \/ UNCHANGED output
    /\ m_' = "free"
    /\ pc' = [pc EXCEPT ![s] = IF kind[s] = "shutdown" THEN "poweroff" ELSE "wait"]
    /\ unanswered' = unanswered \cup {number[s]}
    /\ UNCHANGED <<kind, number, pktQueues_, resp, input, loopVars, rxVars,
                   is_cm4_graceful_shutdown, bounds, cut, overlap>>

\* The caller goes on: pkt_shutdown has turned the fans off, answered or not,
\* and now confirms.
Return(s) ==
    IF s = Reader THEN Request(s, "shutdown")
    ELSE pc' = [pc EXCEPT ![s] = "idle"] /\ UNCHANGED <<kind, number, requests>>

\* Slip: the front is copied and stays.
Peek(s) ==
    /\ pc[s] = "wait"
    /\ pktQueues_[kind[s]] # <<>>
    /\ unanswered' = unanswered \ {number[s]}
    /\ Return(s)
    /\ UNCHANGED <<m_, pktQueues_, resp, input, output, loopVars, rxVars,
                   is_cm4_graceful_shutdown, presses, restarts, cut, overlap>>

\* get_pico_response: the front of the queue of the kind that was sent.
Pop(s) ==
    /\ pc[s] = "wait"
    /\ pktQueues_[kind[s]] # <<>>
    /\ pktQueues_' = [pktQueues_ EXCEPT ![kind[s]] = Tail(@)]
    /\ unanswered' = unanswered \ {number[s]}
    /\ Return(s)
    /\ UNCHANGED <<m_, resp, input, output, loopVars, rxVars,
                   is_cm4_graceful_shutdown, presses, restarts, cut, overlap>>

\* The second is over, or the condition variable woke without a packet.
GiveUp(s) ==
    /\ pc[s] = "wait"
    /\ pktQueues_[kind[s]] = <<>>
    /\ Return(s)
    /\ UNCHANGED <<m_, pktQueues_, resp, input, output, loopVars, rxVars,
                   is_cm4_graceful_shutdown, presses, restarts, history>>

\* Slip: wait_and_pop without the time limit.
WaitForever(s) == Pop(s)

Wait(s) == Pop(s) \/ GiveUp(s)

\* pkt_shutdown ends with the poweroff command, and the reader reads on until
\* the CM4 goes down.
PowerOff ==
    /\ pc[Reader] = "poweroff"
    /\ pc' = [pc EXCEPT ![Reader] = "read"]
    /\ UNCHANGED <<kind, number, m_, pktQueues_, resp, input, output, loopVars, rxVars,
                   is_cm4_graceful_shutdown, bounds, history>>

-----------------------------------------------------------------------------
(* The reader: PacketHandler::handle_message_from_pico *)

\* Slip: numBytesToRead is not reduced after a short read.
WholePacket == PktLen

\* read() returns some of the bytes that are there, never more than are missing.
ReadLimit == PktLen - Len(resp)

Read ==
    /\ pc[Reader] = "read"
    /\ \E n \in 1 .. Len(input) :
          /\ n <= ReadLimit
          /\ resp' = resp \o SubSeq(input, 1, n)
          /\ input' = SubSeq(input, n + 1, Len(input))
    /\ pc' = [pc EXCEPT ![Reader] = IF Len(resp') = PktLen THEN "dispatch" ELSE "read"]
    /\ UNCHANGED <<kind, number, m_, pktQueues_, output, loopVars, rxVars,
                   is_cm4_graceful_shutdown, bounds, history>>

\* Slip: neither of the two looks at max_queue_size.
StoredAlways(q) == Append(q, resp)

\* isFull() and push(): a full queue does not take the packet.
Stored(q) == IF Len(q) < QueueMax THEN Append(q, resp) ELSE q

\* The magic selects the queue.
Enqueue ==
    LET k == MagicOf(resp[1]) IN
    /\ pc[Reader] = "dispatch"
    /\ k \in Kinds
    /\ pktQueues_' = [pktQueues_ EXCEPT ![k] = Stored(@)]
    /\ resp' = <<>>
    /\ pc' = [pc EXCEPT ![Reader] = "read"]
    /\ UNCHANGED <<kind, number, m_, input, output, loopVars, rxVars,
                   is_cm4_graceful_shutdown, bounds, history>>

\* A shutdown packet is handled on the spot, by this thread.
HandleShutdown ==
    /\ pc[Reader] = "dispatch"
    /\ MagicOf(resp[1]) = "shutdown"
    /\ resp' = <<>>
    /\ Request(Reader, "fan")
    /\ UNCHANGED <<m_, pktQueues_, input, output, loopVars, rxVars,
                   is_cm4_graceful_shutdown, presses, restarts, history>>

\* "Host out of sync."
HostDiscards ==
    /\ pc[Reader] = "dispatch"
    /\ MagicOf(resp[1]) = "none"
    /\ resp' = <<>>
    /\ pc' = [pc EXCEPT ![Reader] = "read"]
    /\ UNCHANGED <<kind, number, m_, pktQueues_, input, output, loopVars, rxVars,
                   is_cm4_graceful_shutdown, bounds, history>>

\* The CM4 is reset and picod starts afresh: what was in its memory, or in the
\* kernel's buffers on either side, is gone.  The Pico has noticed nothing.
Restart ==
    /\ restarts < MaxRestarts
    /\ restarts' = restarts + 1
    /\ pc' = [s \in Senders |-> IF s = Reader THEN "read" ELSE "idle"]
    /\ kind' = [s \in Senders |-> "fan"] /\ number' = [s \in Senders |-> 0]
    /\ m_' = "free" /\ pktQueues_' = [k \in Kinds |-> <<>>]
    /\ resp' = <<>> /\ input' = <<>> /\ output' = <<>>
    /\ cut' = TRUE
    /\ overlap' = (overlap \/ unanswered # {}) /\ unanswered' = {}
    /\ UNCHANGED <<loopVars, rxVars, is_cm4_graceful_shutdown, requests, presses>>

-----------------------------------------------------------------------------
(* The Pico *)

\* Slip: zeros are dropped wherever they are.
DroppedAnywhere(b) == IsNull(b)

\* on_uart_rx: zeros before a packet are dropped.
Dropped(b) == IsNull(b) /\ rx_idx = 0

OnUartRx ==
    /\ output # <<>>
    /\ output' = Tail(output)
    /\ LET b == Head(output) IN
       IF Dropped(b) THEN UNCHANGED rxVars
       ELSE /\ req' = [req EXCEPT ![rx_idx] = b]
            /\ rx_idx' = NextPlace(rx_idx)
            /\ ready' = (ready \/ rx_idx + 1 = PktLen)
    /\ UNCHANGED <<hostVars, input, loopVars, is_cm4_graceful_shutdown, bounds, history>>

\* An ISR raises the flag: a button press or a watchdog reset.
RaiseShutdown ==
    /\ presses < MaxPresses
    /\ presses' = presses + 1
    /\ is_host_shutdown_request_pending' = TRUE
    /\ UNCHANGED <<hostVars, input, output, ppc, handler, sending, rxVars,
                   is_cm4_graceful_shutdown, requests, restarts, history>>

\* The top of the main loop; send_shutdown_request builds its packet.
Top ==
    /\ ppc = "top"
    /\ IF is_host_shutdown_request_pending
       THEN ppc' = "notify" /\ sending' = Packet("shutdown", 0)
       ELSE ppc' = "poll" /\ UNCHANGED sending
    /\ UNCHANGED <<hostVars, input, output, handler, is_host_shutdown_request_pending, rxVars,
                   is_cm4_graceful_shutdown, bounds, history>>

\* uart_write_blocking: the FIFO is off, so one byte at a time.
UartWrite ==
    /\ ppc \in {"notify", "reply"}
    /\ sending # <<>>
    /\ input' = Append(input, Head(sending))
    /\ sending' = Tail(sending)
    /\ UNCHANGED <<hostVars, output, ppc, handler, is_host_shutdown_request_pending, rxVars,
                   is_cm4_graceful_shutdown, bounds, history>>

Notified ==
    /\ ppc = "notify" /\ sending = <<>>
    /\ ppc' = "poll"
    /\ is_host_shutdown_request_pending' = FALSE
    /\ UNCHANGED <<hostVars, input, output, handler, sending, rxVars,
                   is_cm4_graceful_shutdown, bounds, history>>

Poll ==
    /\ ppc = "poll"
    /\ ppc' = IF ready THEN "dispatch" ELSE "top"
    /\ ready' = FALSE
    /\ UNCHANGED <<hostVars, input, output, handler, sending, req, rx_idx,
                   is_host_shutdown_request_pending, is_cm4_graceful_shutdown, bounds, history>>

\* The magic number selects the handler ...
Dispatch ==
    /\ ppc = "dispatch"
    /\ MagicOf(req[0]) # "none"
    /\ handler' = MagicOf(req[0])
    /\ ppc' = "exec"
    /\ UNCHANGED <<hostVars, input, output, sending, rxVars, is_host_shutdown_request_pending,
                   is_cm4_graceful_shutdown, bounds, history>>

\* ... or there is none: pkt is wiped, rx_idx is not, and the LED blinks.
PicoDiscards ==
    /\ ppc = "dispatch"
    /\ MagicOf(req[0]) = "none"
    /\ req' = [i \in Places |-> Wiped]
    /\ ready' = FALSE
    /\ ppc' = "blink"
    /\ UNCHANGED <<hostVars, input, output, handler, sending, rx_idx,
                   is_host_shutdown_request_pending, is_cm4_graceful_shutdown, bounds, history>>

BlinkEnds ==
    /\ ppc = "blink"
    /\ ppc' = "top"
    /\ UNCHANGED <<hostVars, input, output, handler, sending, rxVars,
                   is_host_shutdown_request_pending, is_cm4_graceful_shutdown, bounds, history>>

\* The number the payload carries; 0 if it stems from several packets.
PayloadId ==
    IF \A i \in Places : req[i].id = req[PktLen - 1].id THEN req[PktLen - 1].id ELSE 0

\* A request is executed and answered with what its payload says.
Exec ==
    /\ ppc = "exec"
    /\ handler # "shutdown"
    /\ sending' = Packet(handler, PayloadId)
    /\ ppc' = "reply"
    /\ UNCHANGED <<hostVars, input, output, handler, rxVars, is_host_shutdown_request_pending,
                   is_cm4_graceful_shutdown, bounds, history>>

\* The confirmation is not answered.
PktShutdown ==
    /\ ppc = "exec"
    /\ handler = "shutdown"
    /\ is_cm4_graceful_shutdown' = TRUE
    /\ ppc' = "top"
    /\ UNCHANGED <<hostVars, input, output, handler, sending, rxVars,
                   is_host_shutdown_request_pending, bounds, history>>

Replied ==
    /\ ppc = "reply" /\ sending = <<>>
    /\ ppc' = "top"
    /\ UNCHANGED <<hostVars, input, output, handler, sending, rxVars,
                   is_host_shutdown_request_pending, is_cm4_graceful_shutdown, bounds, history>>

-----------------------------------------------------------------------------
Send(s) == Flush(s) \/ Write(s) \/ Wait(s)

ReaderThread == Read \/ Enqueue \/ HandleShutdown \/ HostDiscards \/ PowerOff

MainLoop ==
    \/ Top \/ UartWrite \/ Notified \/ Poll \/ Dispatch \/ PicoDiscards \/ BlinkEnds
    \/ Exec \/ PktShutdown \/ Replied

Next ==
    \/ \E c \in Clients : Begin(c)
    \/ \E s \in Senders : Send(s)
    \/ ReaderThread \/ OnUartRx \/ MainLoop
    \/ RaiseShutdown \/ Restart

Spec == Init /\ [][Next]_vars

\* Threads, interrupts and the Pico keep running; a sender need not begin.
FairSpec ==
    /\ Spec
    /\ \A s \in Senders : WF_vars(Send(s))
    /\ WF_vars(ReaderThread) /\ WF_vars(OnUartRx) /\ WF_vars(MainLoop)

-----------------------------------------------------------------------------
\* Everything on its way to the reader.
Coming == input \o sending

\* Unless the CM4 was restarted while it wrote, the Pico's receive interrupt is
\* at the right place of the packet, whatever the main loop wiped meanwhile: the
\* mutex keeps requests apart and only zeros before a packet are dropped.
PicoInStep == restarts = 0 /\ output # <<>> => Head(output).pos = rx_idx

\* Unless bytes were flushed or lost to a restart, the reader is at the right
\* place of the packet, however short its reads are.
HostInStep ==
    ~cut /\ Coming # <<>> /\ pc[Reader] = "read" => Head(Coming).pos = Len(resp)

\* A caller gets the answer to its own request, whole, as long as no request was
\* sent while another was unanswered: the queue holds nothing older.  Even a flush
\* that cuts a shutdown packet, or a restart, does no harm unless a payload passes
\* for a magic number.
OwnAnswer ==
    \A s \in Senders :
        /\ pc[s] = "wait" /\ pktQueues_[kind[s]] # <<>>
        /\ ~overlap
        /\ cut => PayloadMagic = "none"
        => Head(pktQueues_[kind[s]]) = Packet(kind[s], number[s])

Busy(s) == pc[s] \notin {"idle", "read"}

\* Every request comes back and pkt_shutdown reaches its poweroff, although the
\* reader is itself supposed to read the answer it waits for in there.
RequestsReturn == \A s \in Senders : Busy(s) ~> ~Busy(s)

\* "The Pico sends this packet to the CM4 upon detecting a button press"
\* (pico_pkt_shutdown.h:25-26): picod does not power the CM4 off unasked.
ShutdownAsked == [][HandleShutdown => presses > 0]_vars
================================================================================
