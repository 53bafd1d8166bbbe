------------------------------ MODULE TimedMailbox ------------------------------
(***************************************************************************)
(* What picod's threads count on when they hand packets over: a bounded    *)
(* first-in first-out store.  A caller gets the oldest packet, and leaves  *)
(* with nothing only at a moment when there is nothing to take.  SerialLink *)
(* uses its queues this way.                                               *)
(***************************************************************************)
EXTENDS Integers, Sequences

CONSTANTS Callers, Packets, MaxSize

VARIABLES
    contents, \* packets in the order they were offered
    caller    \* "idle" or "waiting", for every caller

mvars == <<contents, caller>>

Init ==
    /\ contents = <<>>
    /\ caller = [c \in Callers |-> "idle"]

Offer(d) ==
    /\ Len(contents) < MaxSize
    /\ contents' = Append(contents, d)
    /\ UNCHANGED caller

TakeAtOnce(c) ==
    /\ caller[c] = "idle"
    /\ contents # <<>>
    /\ contents' = Tail(contents)
    /\ UNCHANGED caller

StartWaiting(c) ==
    /\ caller[c] = "idle"
    /\ contents = <<>>
    /\ caller' = [caller EXCEPT ![c] = "waiting"]
    /\ UNCHANGED contents

Take(c) ==
    /\ caller[c] = "waiting"
    /\ contents # <<>>
    /\ contents' = Tail(contents)
    /\ caller' = [caller EXCEPT ![c] = "idle"]

GiveUp(c) ==
    /\ caller[c] = "waiting"
    /\ contents = <<>>
    /\ caller' = [caller EXCEPT ![c] = "idle"]
    /\ UNCHANGED contents

Next ==
    \/ \E d \in Packets : Offer(d)
    \/ \E c \in Callers : TakeAtOnce(c) \/ StartWaiting(c) \/ Take(c) \/ GiveUp(c)

Spec == Init /\ [][Next]_mvars
================================================================================
