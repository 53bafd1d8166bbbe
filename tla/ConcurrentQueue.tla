----------------------------- MODULE ConcurrentQueue -----------------------------
(***************************************************************************)
(* ConcurrentQueue<BufPtr> as picod uses it (src/CM4/src/ConcurrentQueue.hpp *)
(* and PacketHandler.cpp): the reader asks isFull() and pushes, the        *)
(* requesting threads call wait_and_pop with a time limit.                 *)
(*                                                                         *)
(* What a method does under the_mutex is one step.  Between two steps, the *)
(* mutex is free: between isFull and push, between the push and its        *)
(* notify_one, and while a thread waits on the_condition_variable or, once *)
(* woken, for the mutex.                                                   *)
(***************************************************************************)
EXTENDS Integers, Sequences, FiniteSets

CONSTANTS
    Producers,
    Consumers,
    Packets,
    MaxSize    \* max_queue_size

Threads == Producers \cup Consumers

ASSUME QueueAssumption ==
    /\ IsFiniteSet(Threads)
    /\ Producers \cap Consumers = {}
    /\ MaxSize \in Nat \ {0}

VARIABLES
    the_queue,
    pc,      \* where every thread is
    packet   \* what a producer is about to push

qvars == <<the_queue, pc, packet>>

TypeOK ==
    /\ the_queue \in Seq(Packets) /\ Len(the_queue) <= MaxSize
    /\ pc \in [Threads -> {"idle", "push", "notify", "waiting", "notified", "woke"}]
    /\ packet \in [Producers -> Packets]

Init ==
    /\ the_queue = <<>>
    /\ pc = [t \in Threads |-> "idle"]
    /\ packet \in [Producers -> Packets]

Goto(t, to) == pc' = [pc EXCEPT ![t] = to]

\* Slip: the comparison comes one packet late.
FullTooLate == Len(the_queue) > MaxSize

\* isFull compares the size with the limit.
Full == Len(the_queue) = MaxSize

\* if (... !pktQ->isFull() ...): a full queue loses the packet.
CheckFull(p) ==
    /\ pc[p] = "idle"
    /\ ~Full
    /\ \E d \in Packets : packet' = [packet EXCEPT ![p] = d]
    /\ Goto(p, "push")
    /\ UNCHANGED the_queue

\* Slip: push relies on isFull() having been asked.
PushAddsUnchecked(p) ==
    /\ the_queue' = Append(the_queue, packet[p])
    /\ Goto(p, "notify")

\* Slip: only the packet that ends the emptiness is announced.
PushAddsQuietly(p) ==
    /\ Len(the_queue) < MaxSize
    /\ the_queue' = Append(the_queue, packet[p])
    /\ Goto(p, IF the_queue = <<>> THEN "notify" ELSE "idle")

PushAdds(p) ==
    /\ Len(the_queue) < MaxSize
    /\ the_queue' = Append(the_queue, packet[p])
    /\ Goto(p, "notify")

\* push does not trust the check and notifies nobody when it drops.
PushDrops(p) ==
    /\ Len(the_queue) >= MaxSize
    /\ Goto(p, "idle")
    /\ UNCHANGED the_queue

Push(p) ==
    /\ pc[p] = "push"
    /\ PushAdds(p) \/ PushDrops(p)
    /\ UNCHANGED packet

\* notify_one wakes one of those that wait, if any does.
NotifyOne(p) ==
    /\ pc[p] = "notify"
    /\ \/ /\ \A c \in Consumers : pc[c] # "waiting"
          /\ Goto(p, "idle")
       \/ \E c \in Consumers :
             /\ pc[c] = "waiting"
             /\ pc' = [pc EXCEPT ![p] = "idle", ![c] = "notified"]
    /\ UNCHANGED <<the_queue, packet>>

\* wait_and_pop up to the wait.
PopAtOnce(c) ==
    /\ pc[c] = "idle"
    /\ the_queue # <<>>
    /\ the_queue' = Tail(the_queue)
    /\ UNCHANGED <<pc, packet>>

StartWait(c) ==
    /\ pc[c] = "idle"
    /\ the_queue = <<>>
    /\ Goto(c, "waiting")
    /\ UNCHANGED <<the_queue, packet>>

\* wait_for returns unnotified: the time is over, or it woke spuriously.
Wake(c) ==
    /\ pc[c] = "waiting"
    /\ Goto(c, "woke")
    /\ UNCHANGED <<the_queue, packet>>

\* Slip: the status of wait_for decides instead of the queue.
PopIfNotified(c) ==
    /\ pc[c] \in {"notified", "woke"}
    /\ the_queue' = IF the_queue = <<>> \/ pc[c] = "woke" THEN the_queue ELSE Tail(the_queue)
    /\ Goto(c, "idle")
    /\ UNCHANGED packet

\* wait_and_pop after the wait, whatever ended it.
PopAfterWait(c) ==
    /\ pc[c] \in {"notified", "woke"}
    /\ the_queue' = IF the_queue = <<>> THEN the_queue ELSE Tail(the_queue)
    /\ Goto(c, "idle")
    /\ UNCHANGED packet

Next ==
    \/ \E p \in Producers : CheckFull(p) \/ Push(p) \/ NotifyOne(p)
    \/ \E c \in Consumers : PopAtOnce(c) \/ StartWait(c) \/ Wake(c) \/ PopAfterWait(c)

Spec == Init /\ [][Next]_qvars

-----------------------------------------------------------------------------
\* Threads that will look at the queue, or wake one that will, unprompted.
OnTheWay == {t \in Threads : pc[t] \in {"notify", "notified", "woke"}}

\* No lost wake-up: while a thread waits, every packet in the queue is matched by
\* a thread on its way to it, although push notifies after it has unlocked and a
\* notified thread may find its packet taken.
NoLostWakeup ==
    (\E c \in Consumers : pc[c] = "waiting") => Len(the_queue) <= Cardinality(OnTheWay)

Pushing == {p \in Producers : pc[p] = "push"}

\* The room isFull() has seen is still there in push(), but for one packet per
\* rival: n producers lose at most n - 1 packets that passed the check, and
\* picod's single reader loses none.
RoomAfterCheck ==
    Len(the_queue) + Cardinality(Pushing) < MaxSize + Cardinality(Producers)

\* The queue is what its users take it for.
Mailbox == INSTANCE TimedMailbox WITH
    Callers <- Consumers,
    contents <- the_queue,
    caller <- [c \in Consumers |-> IF pc[c] = "idle" THEN "idle" ELSE "waiting"]

ImplementsMailbox == Mailbox!Spec
================================================================================
