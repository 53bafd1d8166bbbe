-------------------------- MODULE ConcurrentQueue_proofs --------------------------
(***************************************************************************)
(* Proofs about ConcurrentQueue, for any threads, packets and queue size.  *)
(***************************************************************************)
EXTENDS ConcurrentQueue, FiniteSetTheorems, SequenceTheorems, TLAPS

-----------------------------------------------------------------------------
(* Types *)

LEMMA ThreadKinds ==
    /\ \A p \in Producers : p \in Threads /\ p \notin Consumers
    /\ \A c \in Consumers : c \in Threads /\ c \notin Producers
    /\ MaxSize \in Nat \ {0}
BY QueueAssumption DEF Threads

LEMMA TypeInit == ASSUME Init PROVE TypeOK
BY ThreadKinds, EmptySeq DEF Init, TypeOK

LEMMA ProducerType ==
    ASSUME TypeOK, NEW p \in Producers, CheckFull(p) \/ Push(p) \/ NotifyOne(p)
    PROVE  TypeOK'
<1> USE ThreadKinds
<1>1. CASE CheckFull(p)
  BY <1>1 DEF TypeOK, CheckFull, Goto
<1>2. CASE Push(p)
  <2>1. CASE PushAdds(p)
    <3>1. packet[p] \in Packets
      BY DEF TypeOK
    <3>2. the_queue' \in Seq(Packets) /\ Len(the_queue') = Len(the_queue) + 1
      BY <2>1, <3>1 DEF TypeOK, PushAdds
    <3> QED
      BY <1>2, <2>1, <3>2 DEF TypeOK, Push, PushAdds, Goto
  <2>2. CASE PushDrops(p)
    BY <1>2, <2>2 DEF TypeOK, Push, PushDrops, Goto
  <2> QED
    BY <1>2, <2>1, <2>2 DEF Push
<1>3. CASE NotifyOne(p)
  BY <1>3 DEF TypeOK, NotifyOne, Goto
<1> QED
  BY <1>1, <1>2, <1>3

LEMMA ConsumerType ==
    ASSUME TypeOK, NEW c \in Consumers,
           PopAtOnce(c) \/ StartWait(c) \/ Wake(c) \/ PopAfterWait(c)
    PROVE  TypeOK'
<1> USE ThreadKinds
<1>1. CASE PopAtOnce(c)
  BY <1>1 DEF TypeOK, PopAtOnce
<1>2. CASE StartWait(c) \/ Wake(c)
  BY <1>2 DEF TypeOK, StartWait, Wake, Goto
<1>3. CASE PopAfterWait(c)
  <2>1. the_queue' \in Seq(Packets) /\ Len(the_queue') <= MaxSize
    BY <1>3 DEF TypeOK, PopAfterWait
  <2> QED
    BY <1>3, <2>1 DEF TypeOK, PopAfterWait, Goto
<1> QED
  BY <1>1, <1>2, <1>3

LEMMA TypeStep == ASSUME TypeOK, [Next]_qvars PROVE TypeOK'
<1>1. CASE UNCHANGED qvars
  BY <1>1 DEF TypeOK, qvars
<1> QED
  BY <1>1, ProducerType, ConsumerType DEF Next

\* The size of the_queue never exceeds max_queue_size.
THEOREM QueueTypeCorrect == Spec => []TypeOK
BY TypeInit, TypeStep, PTL DEF Spec

-----------------------------------------------------------------------------
(* No lost wake-up *)

LEMMA OnTheWayFinite == IsFiniteSet(OnTheWay) /\ Cardinality(OnTheWay) \in Nat
<1>1. OnTheWay \subseteq Threads /\ IsFiniteSet(Threads)
  BY QueueAssumption DEF OnTheWay
<1> QED
  BY <1>1, FS_Subset, FS_CardinalityType

\* One thread more on its way, or one less.
LEMMA OneMore ==
    ASSUME NEW t, t \notin OnTheWay, OnTheWay' = OnTheWay \cup {t}
    PROVE  Cardinality(OnTheWay') = Cardinality(OnTheWay) + 1
BY OnTheWayFinite, FS_AddElement

LEMMA OneLess ==
    ASSUME NEW t \in OnTheWay, OnTheWay' = OnTheWay \ {t}
    PROVE  Cardinality(OnTheWay') = Cardinality(OnTheWay) - 1
BY OnTheWayFinite, FS_RemoveElement

LEMMA ProducerWakes ==
    ASSUME TypeOK, NoLostWakeup, NEW p \in Producers, CheckFull(p) \/ Push(p) \/ NotifyOne(p)
    PROVE  NoLostWakeup'
<1> USE ThreadKinds
<1> SUFFICES ASSUME \E c \in Consumers : pc'[c] = "waiting"
             PROVE  Len(the_queue') <= Cardinality(OnTheWay')
  BY DEF NoLostWakeup
<1>1. CASE CheckFull(p)
  <2>1. OnTheWay' = OnTheWay /\ the_queue' = the_queue
    BY <1>1 DEF OnTheWay, CheckFull, Goto, TypeOK
  <2>2. \E c \in Consumers : pc[c] = "waiting"
    BY <1>1 DEF CheckFull, Goto, TypeOK
  <2> QED
    BY <2>1, <2>2 DEF NoLostWakeup
<1>2. CASE Push(p)
  <2>1. pc[p] = "push" /\ \E c \in Consumers : pc[c] = "waiting"
    BY <1>2 DEF Push, PushAdds, PushDrops, Goto, TypeOK
  <2>2. Len(the_queue) <= Cardinality(OnTheWay)
    BY <2>1 DEF NoLostWakeup
  <2>3. CASE PushAdds(p)
    <3>1. OnTheWay' = OnTheWay \cup {p} /\ p \notin OnTheWay
      BY <2>1, <2>3 DEF OnTheWay, PushAdds, Goto, TypeOK
    <3>2. Len(the_queue') = Len(the_queue) + 1
      BY <2>3 DEF PushAdds, TypeOK
    <3>3. Cardinality(OnTheWay') = Cardinality(OnTheWay) + 1
      BY <3>1, OneMore
    <3>4. Len(the_queue) \in Nat
      BY DEF TypeOK
    <3> QED
      BY <2>2, <3>2, <3>3, <3>4, OnTheWayFinite
  <2>4. CASE PushDrops(p)
    <3>1. OnTheWay' = OnTheWay /\ the_queue' = the_queue
      BY <2>1, <2>4 DEF OnTheWay, PushDrops, Goto, TypeOK
    <3> QED
      BY <2>2, <3>1
  <2> QED
    BY <1>2, <2>3, <2>4 DEF Push
<1>3. CASE NotifyOne(p)
  <2>1. PICK c \in Consumers :
             /\ pc[c] = "waiting"
             /\ pc' = [pc EXCEPT ![p] = "idle", ![c] = "notified"]
    BY <1>3 DEF NotifyOne, Goto, TypeOK
  <2>2. Len(the_queue) <= Cardinality(OnTheWay) /\ the_queue' = the_queue /\ pc[p] = "notify"
    BY <1>3, <2>1 DEF NoLostWakeup, NotifyOne
  <2>3. p \in OnTheWay /\ c \notin OnTheWay /\ c # p /\ OnTheWay' = (OnTheWay \ {p}) \cup {c}
    BY <2>1, <2>2 DEF OnTheWay, TypeOK
  <2>4. Cardinality(OnTheWay') = Cardinality(OnTheWay)
    <3>1. /\ IsFiniteSet(OnTheWay \ {p})
          /\ Cardinality(OnTheWay \ {p}) = Cardinality(OnTheWay) - 1
      BY <2>3, OnTheWayFinite, FS_RemoveElement
    <3>2. Cardinality((OnTheWay \ {p}) \cup {c}) = Cardinality(OnTheWay \ {p}) + 1
      BY <2>3, <3>1, FS_AddElement
    <3> QED
      BY <2>3, <3>1, <3>2, OnTheWayFinite
  <2> QED
    BY <2>2, <2>4
<1> QED
  BY <1>1, <1>2, <1>3

LEMMA ConsumerWakes ==
    ASSUME TypeOK, NoLostWakeup, NEW c \in Consumers,
           PopAtOnce(c) \/ StartWait(c) \/ Wake(c) \/ PopAfterWait(c)
    PROVE  NoLostWakeup'
<1> USE ThreadKinds
<1> SUFFICES ASSUME NEW d \in Consumers, pc'[d] = "waiting"
             PROVE  Len(the_queue') <= Cardinality(OnTheWay')
  BY DEF NoLostWakeup
<1>1. CASE PopAtOnce(c)
  <2>1. OnTheWay' = OnTheWay /\ pc' = pc /\ Len(the_queue') = Len(the_queue) - 1
    BY <1>1 DEF OnTheWay, PopAtOnce, TypeOK
  <2>2. Len(the_queue) <= Cardinality(OnTheWay) /\ Len(the_queue) \in Nat
    BY <2>1 DEF NoLostWakeup, TypeOK
  <2> QED
    BY <2>1, <2>2, OnTheWayFinite
<1>2. CASE StartWait(c)
  <2>1. Len(the_queue') = 0 /\ OnTheWay' = OnTheWay
    BY <1>2, EmptySeq DEF OnTheWay, StartWait, Goto, TypeOK
  <2> QED
    BY <2>1, OnTheWayFinite
<1>3. CASE Wake(c)
  <2>1. OnTheWay' = OnTheWay \cup {c} /\ c \notin OnTheWay /\ the_queue' = the_queue
    BY <1>3 DEF OnTheWay, Wake, Goto, TypeOK
  <2>2. Len(the_queue) <= Cardinality(OnTheWay) /\ Len(the_queue) \in Nat
    BY <1>3 DEF NoLostWakeup, Wake, TypeOK
  <2>3. Cardinality(OnTheWay') = Cardinality(OnTheWay) + 1
    BY <2>1, OneMore
  <2> QED
    BY <2>1, <2>2, <2>3, OnTheWayFinite
<1>4. CASE PopAfterWait(c)
  <2>1. OnTheWay' = OnTheWay \ {c} /\ c \in OnTheWay /\ pc[d] = "waiting"
    BY <1>4 DEF OnTheWay, PopAfterWait, Goto, TypeOK
  <2>2. Len(the_queue) <= Cardinality(OnTheWay) /\ Len(the_queue) \in Nat
    BY <2>1 DEF NoLostWakeup, TypeOK
  <2>3. /\ Cardinality(OnTheWay') = Cardinality(OnTheWay) - 1
        /\ Cardinality(OnTheWay') \in Nat
    <3>1. Cardinality(OnTheWay') = Cardinality(OnTheWay) - 1
      BY <2>1, OneLess
    <3>2. IsFiniteSet(OnTheWay \ {c})
      BY <2>1, OnTheWayFinite, FS_RemoveElement
    <3> QED
      BY <2>1, <3>1, <3>2, FS_CardinalityType
  <2>4. CASE the_queue = <<>>
    BY <1>4, <2>3, <2>4, EmptySeq DEF PopAfterWait
  <2>5. CASE the_queue # <<>>
    <3>1. Len(the_queue') = Len(the_queue) - 1
      BY <1>4, <2>5 DEF PopAfterWait, TypeOK
    <3> QED
      BY <2>2, <2>3, <3>1, OnTheWayFinite
  <2> QED
    BY <2>4, <2>5
<1> QED
  BY <1>1, <1>2, <1>3, <1>4

LEMMA WakeupStep == ASSUME TypeOK, NoLostWakeup, [Next]_qvars PROVE NoLostWakeup'
<1>1. CASE UNCHANGED qvars
  BY <1>1 DEF NoLostWakeup, OnTheWay, qvars
<1> QED
  BY <1>1, ProducerWakes, ConsumerWakes DEF Next

\* No packet waits in the queue for a thread that nobody is going to wake.
THEOREM NoWakeupIsLost == Spec => []NoLostWakeup
<1>1. Init => NoLostWakeup
  BY ThreadKinds DEF Init, NoLostWakeup
<1> QED
  BY <1>1, TypeInit, TypeStep, WakeupStep, PTL DEF Spec

-----------------------------------------------------------------------------
(* The check before a push *)

LEMMA PushingFinite ==
    /\ IsFiniteSet(Producers) /\ Cardinality(Producers) \in Nat
    /\ IsFiniteSet(Pushing) /\ Cardinality(Pushing) \in Nat
    /\ Cardinality(Pushing) <= Cardinality(Producers)
<1>1. IsFiniteSet(Producers)
  BY QueueAssumption, FS_Subset DEF Threads
<1>2. Pushing \subseteq Producers
  BY DEF Pushing
<1> QED
  BY <1>1, <1>2, FS_Subset, FS_CardinalityType

LEMMA ProducerRoom ==
    ASSUME TypeOK, RoomAfterCheck, NEW p \in Producers, CheckFull(p) \/ Push(p) \/ NotifyOne(p)
    PROVE  RoomAfterCheck'
<1> USE ThreadKinds
<1>1. CASE CheckFull(p)
  <2>1. Len(the_queue') < MaxSize /\ Len(the_queue') \in Nat
    BY <1>1 DEF CheckFull, Full, TypeOK
  <2>2. Cardinality(Pushing') <= Cardinality(Producers) /\ Cardinality(Pushing') \in Nat
    <3>1. Pushing' \subseteq Producers
      BY DEF Pushing
    <3> QED
      BY <3>1, PushingFinite, FS_Subset, FS_CardinalityType
  <2> QED
    BY <2>1, <2>2, PushingFinite DEF RoomAfterCheck
<1>2. CASE Push(p)
  <2>1. p \in Pushing /\ Pushing' = Pushing \ {p}
    BY <1>2 DEF Pushing, Push, PushAdds, PushDrops, Goto, TypeOK
  <2>2. Cardinality(Pushing') = Cardinality(Pushing) - 1
    BY <2>1, PushingFinite, FS_RemoveElement
  <2>3. Len(the_queue') <= Len(the_queue) + 1 /\ Len(the_queue') \in Nat /\ Len(the_queue) \in Nat
    <3>1. CASE PushAdds(p)
      BY <3>1 DEF PushAdds, TypeOK
    <3>2. CASE PushDrops(p)
      BY <3>2 DEF PushDrops, TypeOK
    <3> QED
      BY <1>2, <3>1, <3>2 DEF Push
  <2> QED
    BY <2>2, <2>3, PushingFinite DEF RoomAfterCheck
<1>3. CASE NotifyOne(p)
  BY <1>3, ZenonT(60) DEF RoomAfterCheck, Pushing, NotifyOne, Goto, TypeOK
<1> QED
  BY <1>1, <1>2, <1>3

LEMMA ConsumerRoom ==
    ASSUME TypeOK, RoomAfterCheck, NEW c \in Consumers,
           PopAtOnce(c) \/ StartWait(c) \/ Wake(c) \/ PopAfterWait(c)
    PROVE  RoomAfterCheck'
<1> USE ThreadKinds
<1>1. Pushing' = Pushing
  BY DEF Pushing, PopAtOnce, StartWait, Wake, PopAfterWait, Goto, TypeOK
<1>2. the_queue' = the_queue \/ (the_queue # <<>> /\ the_queue' = Tail(the_queue))
  BY DEF PopAtOnce, StartWait, Wake, PopAfterWait
<1>3. Len(the_queue') <= Len(the_queue) /\ Len(the_queue') \in Nat /\ Len(the_queue) \in Nat
  BY <1>2 DEF TypeOK
<1> QED
  BY <1>1, <1>3, PushingFinite DEF RoomAfterCheck

LEMMA RoomStep == ASSUME TypeOK, RoomAfterCheck, [Next]_qvars PROVE RoomAfterCheck'
<1>1. CASE UNCHANGED qvars
  BY <1>1 DEF RoomAfterCheck, Pushing, qvars
<1> QED
  BY <1>1, ProducerRoom, ConsumerRoom DEF Next

\* isFull() and push() are two critical sections: at most one packet per rival
\* producer is dropped between them.
THEOREM CheckedPacketsFindRoom == Spec => []RoomAfterCheck
<1>1. ASSUME Init PROVE RoomAfterCheck
  <2>1. Len(the_queue) = 0 /\ Pushing = {}
    BY <1>1, ThreadKinds, EmptySeq DEF Init, Pushing
  <2>2. Cardinality(Pushing) = 0
    BY <2>1, FS_EmptySet
  <2> QED
    BY <2>1, <2>2, ThreadKinds, PushingFinite DEF RoomAfterCheck
<1> QED
  BY <1>1, RoomStep, TypeInit, TypeStep, PTL DEF Spec

\* With one producer, as in picod, push() never drops a packet that passed isFull().
THEOREM OneProducerFindsRoom ==
    ASSUME \A p, q \in Producers : p = q
    PROVE  Spec => [](\A p \in Producers : pc[p] = "push" => Len(the_queue) < MaxSize)
<1>1. ASSUME TypeOK, RoomAfterCheck, NEW p \in Producers, pc[p] = "push"
      PROVE  Len(the_queue) < MaxSize
  <2>1. Producers = {p} /\ Pushing = {p}
    BY <1>1 DEF Pushing
  <2>2. Cardinality({p}) = 1
    BY FS_Singleton
  <2>3. Len(the_queue) + 1 < MaxSize + 1 /\ Len(the_queue) \in Nat /\ MaxSize \in Nat
    BY <1>1, <2>1, <2>2, ThreadKinds DEF RoomAfterCheck, TypeOK
  <2> QED
    BY <2>3
<1>2. TypeOK /\ RoomAfterCheck => \A p \in Producers : pc[p] = "push" => Len(the_queue) < MaxSize
  BY <1>1
<1> QED
  BY <1>2, QueueTypeCorrect, CheckedPacketsFindRoom, PTL

-----------------------------------------------------------------------------
(* The queue implements the mailbox *)

CallerOf == [c \in Consumers |-> IF pc[c] = "idle" THEN "idle" ELSE "waiting"]

LEMMA MailboxInit == ASSUME Init PROVE Mailbox!Init
BY ThreadKinds DEF Init, Mailbox!Init

LEMMA ProducerMaps ==
    ASSUME TypeOK, NEW p \in Producers, CheckFull(p) \/ Push(p) \/ NotifyOne(p)
    PROVE  [Mailbox!Next]_Mailbox!mvars
<1> USE ThreadKinds
<1>1. CallerOf' = CallerOf
  <2>1. ASSUME NEW c \in Consumers PROVE pc'[c] = "idle" <=> pc[c] = "idle"
    BY DEF TypeOK, CheckFull, Push, PushAdds, PushDrops, NotifyOne, Goto
  <2> QED
    BY <2>1 DEF CallerOf
<1>2. CASE Push(p) /\ PushAdds(p)
  <2>1. Mailbox!Offer(packet[p])
    BY <1>1, <1>2 DEF PushAdds, Mailbox!Offer, CallerOf
  <2>2. packet[p] \in Packets
    BY DEF TypeOK
  <2> QED
    BY <2>1, <2>2 DEF Mailbox!Next
<1>3. CASE the_queue' = the_queue
  BY <1>1, <1>3 DEF Mailbox!mvars, CallerOf
<1> QED
  BY <1>2, <1>3 DEF CheckFull, Push, PushDrops, NotifyOne

LEMMA ConsumerMaps ==
    ASSUME TypeOK, NEW c \in Consumers,
           PopAtOnce(c) \/ StartWait(c) \/ Wake(c) \/ PopAfterWait(c)
    PROVE  [Mailbox!Next]_Mailbox!mvars
<1> USE ThreadKinds
<1>1. CASE PopAtOnce(c)
  <2>1. Mailbox!TakeAtOnce(c)
    BY <1>1 DEF PopAtOnce, Mailbox!TakeAtOnce
  <2> QED
    BY <2>1 DEF Mailbox!Next
<1>2. CASE StartWait(c)
  <2>1. CallerOf' = [CallerOf EXCEPT ![c] = "waiting"]
    BY <1>2 DEF CallerOf, StartWait, Goto, TypeOK
  <2>2. Mailbox!StartWaiting(c)
    BY <1>2, <2>1 DEF StartWait, CallerOf, Mailbox!StartWaiting
  <2> QED
    BY <2>2 DEF Mailbox!Next
<1>3. CASE Wake(c)
  <2>1. CallerOf' = CallerOf
    BY <1>3 DEF CallerOf, Wake, Goto, TypeOK
  <2> QED
    BY <1>3, <2>1 DEF Wake, CallerOf, Mailbox!mvars
<1>4. CASE PopAfterWait(c)
  <2>1. CallerOf[c] = "waiting" /\ CallerOf' = [CallerOf EXCEPT ![c] = "idle"]
    BY <1>4 DEF CallerOf, PopAfterWait, Goto, TypeOK
  <2>2. Mailbox!Take(c) \/ Mailbox!GiveUp(c)
    BY <1>4, <2>1 DEF PopAfterWait, CallerOf, Mailbox!Take, Mailbox!GiveUp
  <2> QED
    BY <2>2 DEF Mailbox!Next
<1> QED
  BY <1>1, <1>2, <1>3, <1>4

LEMMA StepMaps == ASSUME TypeOK, [Next]_qvars PROVE [Mailbox!Next]_Mailbox!mvars
<1>1. CASE UNCHANGED qvars
  BY <1>1 DEF qvars, Mailbox!mvars
<1> QED
  BY <1>1, ProducerMaps, ConsumerMaps DEF Next

\* Whatever the threads do between the critical sections, the queue is a bounded
\* first-in first-out mailbox that is left empty-handed only when it is empty.
THEOREM QueueIsAMailbox == Spec => ImplementsMailbox
<1>1. TypeOK /\ [Next]_qvars => [Mailbox!Next]_Mailbox!mvars
  BY StepMaps
<1>2. Init => Mailbox!Init
  BY MailboxInit
<1> QED
  BY <1>1, <1>2, TypeInit, TypeStep, PTL DEF Spec, ImplementsMailbox, Mailbox!Spec
================================================================================
