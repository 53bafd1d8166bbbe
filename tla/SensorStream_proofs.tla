-------------------------- MODULE SensorStream_proofs --------------------------
(***************************************************************************)
(* Proofs about SensorCharts and SensorStream, for any streams, sensors,   *)
(* readings, other threads and lengths of the history and of the queue.    *)
(***************************************************************************)
EXTENDS SensorCharts, SensorStream, SequenceTheorems, TLAPS

-----------------------------------------------------------------------------
(* Charts *)

LEMMA HundredthsRange ==
    ASSUME NEW n \in Nat, n <= 2621
    PROVE  Hundredths(n) \in Nat /\ Hundredths(n) <= 32762 /\ (n # 0 => Hundredths(n) # 0)
BY DEF Hundredths

LEMMA ComplementExact ==
    ASSUME NEW h \in Nat, h # 0, h <= 32762
    PROVE  (65536 - h) % 65536 = 65536 - h /\ Unpacked(65536 - h) = -h
<1>1. (65536 - h) % 65536 = 65536 - h
  OBVIOUS
<1>2. Unpacked(65536 - h) = -h
  BY DEF Unpacked
<1> QED
  BY <1>1, <1>2

LEMMA CodecExact ==
    ASSUME NEW t \in Readings PROVE Unpacked(Pack(t)) = Shown(t) /\ Shown(t) \in Int
<1>1. t \in Int /\ -2621 <= t /\ t <= 2621
  BY ChartsAssumption
<1>2. CASE t < 0
  <2>1. PICK n \in Nat : n = -t /\ n # 0 /\ n <= 2621
    BY <1>1, <1>2
  <2>2. PICK h \in Nat : h = Hundredths(n) /\ h # 0 /\ h <= 32762
    BY <2>1, HundredthsRange
  <2>3. Pack(t) = (65536 - h) % 65536 /\ Shown(t) = -h
    BY <1>2, <2>1, <2>2 DEF Pack, Shown
  <2> QED
    BY <2>2, <2>3, ComplementExact
<1>3. CASE ~(t < 0)
  <2>1. t \in Nat
    BY <1>1, <1>3
  <2>2. PICK h \in Nat : h = Hundredths(t) /\ h <= 32762
    BY <1>1, <2>1, HundredthsRange
  <2>3. Pack(t) = h /\ Shown(t) = h
    BY <1>3, <2>2 DEF Pack, Shown
  <2> QED
    BY <2>2, <2>3 DEF Unpacked
<1> QED
  BY <1>2, <1>3

\* Where a series of length n, which has n points, is continued from, and its new length.
Kept(n, i) == IF n = History THEN i + 1 ELSE i
Grown(n) == IF n = History THEN History ELSE n + 1

\* A series keeps its order, loses its oldest point at most, and ends in the new one.
Continues(q, x, n, r) ==
    /\ Len(r) = Grown(n)
    /\ \A i \in 1 .. Grown(n) : r[i] = IF i = Grown(n) THEN x ELSE q[Kept(n, i)]

LEMMA SavedSeries ==
    ASSUME NEW S, NEW q \in Seq(S), NEW x \in S, NEW n \in Nat, Len(q) = n, n <= History
    PROVE  Saved(q, x) \in Seq(S) /\ Continues(q, x, n, Saved(q, x))
<1> History \in Nat \ {0}
  BY ChartsAssumption
<1>1. CASE Len(q) = History
  <2> DEFINE r == Tail(q)
  <2>1. q # <<>>
    BY <1>1
  <2>2. r \in Seq(S) /\ Len(r) = Len(q) - 1 /\ \A i \in 1 .. Len(r) : r[i] = q[i + 1]
    BY <2>1
  <2>3. Saved(q, x) = Append(r, x)
    BY <1>1 DEF Saved
  <2> HIDE DEF r
  <2> QED
    BY <1>1, <2>2, <2>3 DEF Continues, Kept, Grown
<1>2. CASE Len(q) # History
  <2>1. Saved(q, x) = Append(q, x)
    BY <1>2 DEF Saved
  <2> QED
    BY <1>2, <2>1 DEF Continues, Kept, Grown
<1> QED
  BY <1>1, <1>2

Answers == [at : Nat, temperature : [Sensors -> Readings], rpm : [Fans -> Int]]

\* All series have the length of the time stamps.
Aligned ==
    /\ timeStamps_ \in Seq(Int) /\ Len(timeStamps_) <= History
    /\ measured \in Seq(Answers) /\ Len(measured) = Len(timeStamps_)
    /\ tempDict_ \in [Sensors -> Seq(Int)]
    /\ \A s \in Sensors : Len(tempDict_[s]) = Len(timeStamps_)
    /\ rpmDict_ \in [Fans -> Seq(Int)]
    /\ \A f \in Fans : Len(rpmDict_[f]) = Len(timeStamps_)

LineTypes ==
    /\ rpm \in [Fans -> Int]
    /\ requests \in Nat /\ coming \in Seq(Answers) /\ temperatureQueue \in Seq(Answers)
    /\ asking \in Nat /\ polls \in Nat /\ missed \in Nat
    /\ asking <= Others

Awaited == IF waiting THEN 1 ELSE 0

\* Every answer that is there or may come has somebody who waits for it, or was given up.
Backlog ==
    requests + Len(coming) + Len(temperatureQueue) <= missed + asking + Awaited

\* An answer is the older the more others have to be taken before it, and is never from
\* a poll to come.
NotOlder(answer, place) ==
    answer.at <= polls /\ polls - answer.at + place <= missed + Others + Awaited

Placed ==
    /\ \A p \in 1 .. Len(temperatureQueue) : NotOlder(temperatureQueue[p], p)
    /\ \A p \in 1 .. Len(coming) : NotOlder(coming[p], Len(temperatureQueue) + p)

Past == \A i \in 1 .. Len(measured) : measured[i].at <= polls

Sorted(q) == \A i, j \in 1 .. Len(q) : i <= j => q[i].at <= q[j].at
Before(q, r) == \A i \in 1 .. Len(q), j \in 1 .. Len(r) : q[i].at <= r[j].at

\* The charts, the queue and the line are in the order in which the Pico measured.
Ordered ==
    /\ Sorted(measured) /\ Sorted(temperatureQueue) /\ Sorted(coming)
    /\ Before(measured, temperatureQueue) /\ Before(measured, coming)
    /\ Before(temperatureQueue, coming)

ChartInv ==
    /\ Aligned /\ LineTypes
    /\ Backlog /\ Placed /\ Ordered
    /\ Past /\ PointsWhole /\ LagBounded

LEMMA TailOf ==
    ASSUME NEW q \in Seq(Answers), q # <<>>
    PROVE  /\ Head(q) \in Answers /\ Head(q) = q[1] /\ Len(q) \in Nat \ {0}
           /\ Tail(q) \in Seq(Answers) /\ Len(Tail(q)) = Len(q) - 1
           /\ \A i \in 1 .. Len(q) - 1 : Tail(q)[i] = q[i + 1]
OBVIOUS

LEMMA AppendOf ==
    ASSUME NEW q \in Seq(Answers), NEW a \in Answers
    PROVE  /\ Append(q, a) \in Seq(Answers) /\ Len(Append(q, a)) = Len(q) + 1
           /\ Append(q, a)[Len(q) + 1] = a
           /\ \A i \in 1 .. Len(q) : Append(q, a)[i] = q[i]
OBVIOUS

LEMMA AtOf == ASSUME NEW a \in Answers PROVE a.at \in Nat
BY DEF Answers

LEMMA AtIs == ASSUME NEW q \in Seq(Answers) PROVE \A i \in 1 .. Len(q) : q[i].at \in Nat
<1>1. \A i \in 1 .. Len(q) : q[i] \in Answers
  OBVIOUS
<1> QED
  BY <1>1, AtOf, Zenon

\* What one answer less, or one more at the end, leaves of the order.
LEMMA TailOrder ==
    ASSUME NEW q \in Seq(Answers), q # <<>>, Sorted(q)
    PROVE  /\ Sorted(Tail(q))
           /\ \A r \in Seq(Answers) : Before(q, r) => Before(Tail(q), r)
           /\ \A r \in Seq(Answers) : Before(r, q) => Before(r, Tail(q))
           /\ \A i \in 1 .. Len(Tail(q)) : Head(q).at <= Tail(q)[i].at
<1>1. /\ Head(q) = q[1] /\ Len(q) \in Nat \ {0} /\ Len(Tail(q)) = Len(q) - 1
      /\ \A i \in 1 .. Len(q) - 1 : Tail(q)[i] = q[i + 1]
  BY TailOf
<1> DEFINE t == Tail(q)
<1>2. Len(t) = Len(q) - 1 /\ \A i \in 1 .. Len(t) : i + 1 \in 1 .. Len(q) /\ t[i] = q[i + 1]
  BY <1>1
<1> HIDE DEF t
<1>3. Sorted(t)
  BY <1>1, <1>2 DEF Sorted
<1>4. \A r \in Seq(Answers) : Before(q, r) => Before(t, r)
  BY <1>1, <1>2 DEF Before
<1>5. \A r \in Seq(Answers) : Before(r, q) => Before(r, t)
  BY <1>1, <1>2 DEF Before
<1>6. \A i \in 1 .. Len(t) : Head(q).at <= t[i].at
  BY <1>1, <1>2 DEF Sorted
<1> QED
  BY <1>1, <1>3, <1>4, <1>5, <1>6 DEF t

LEMMA AppendOrder ==
    ASSUME NEW q \in Seq(Answers), NEW a \in Answers, Sorted(q),
           \A i \in 1 .. Len(q) : q[i].at <= a.at
    PROVE  /\ Sorted(Append(q, a))
           /\ \A r \in Seq(Answers) :
                 Before(q, r) /\ (\A i \in 1 .. Len(r) : a.at <= r[i].at)
                 => Before(Append(q, a), r)
           /\ \A r \in Seq(Answers) :
                 Before(r, q) /\ (\A i \in 1 .. Len(r) : r[i].at <= a.at)
                 => Before(r, Append(q, a))
<1> DEFINE s == Append(q, a)
<1>1. /\ Len(s) = Len(q) + 1 /\ Len(q) \in Nat /\ s[Len(q) + 1] = a
      /\ \A i \in 1 .. Len(q) : s[i] = q[i]
  BY AppendOf
<1> HIDE DEF s
<1>2. \A i \in 1 .. Len(s) : (i \in 1 .. Len(q) /\ s[i] = q[i]) \/ (i = Len(s) /\ s[i] = a)
  BY <1>1
<1>3. a.at \in Nat
  BY DEF Answers
<1>4. Sorted(s)
  BY <1>1, <1>2, <1>3 DEF Sorted
<1>5. \A r \in Seq(Answers) :
         Before(q, r) /\ (\A i \in 1 .. Len(r) : a.at <= r[i].at) => Before(s, r)
  BY <1>2 DEF Before
<1>6. \A r \in Seq(Answers) :
         Before(r, q) /\ (\A i \in 1 .. Len(r) : r[i].at <= a.at) => Before(r, s)
  BY <1>2 DEF Before
<1> QED
  BY <1>4, <1>5, <1>6 DEF s

LEMMA AwaitedIs == Awaited \in {0, 1} /\ (waiting => Awaited = 1) /\ (~waiting => Awaited = 0)
BY Zenon DEF Awaited

LEMMA NobodyElseWaits == ASSUME UNCHANGED waiting PROVE Awaited' = Awaited
BY Zenon DEF Awaited

LEMMA OthersIs == Others \in Nat /\ History \in Nat \ {0}
BY ChartsAssumption, Zenon

\* Steps that leave the histories alone.
LEMMA HistoriesStay ==
    ASSUME Aligned, Past, PointsWhole, LagBounded, LineTypes, LineTypes',
           missed <= missed', polls <= polls', UNCHANGED historyVars
    PROVE  Aligned' /\ Past' /\ PointsWhole' /\ LagBounded'
<1> USE DEF historyVars
<1>1. Aligned'
  BY DEF Aligned
<1>2. PointsWhole'
  BY DEF PointsWhole
<1>3. LagBounded'
  <2>1. ASSUME NEW i \in DOMAIN timeStamps_ PROVE Lag(i)' \in 0 .. missed' + Others
    <3>1. Lag(i) \in 0 .. missed + Others /\ Lag(i)' = Lag(i)
      BY DEF LagBounded, Lag
    <3> QED
      BY <3>1, OthersIs DEF LineTypes
  <2> QED
    BY <2>1 DEF LagBounded
<1>4. Past'
  <2>1. ASSUME NEW i \in 1 .. Len(measured) PROVE measured[i].at <= polls'
    <3>1. measured[i].at \in Nat /\ measured[i].at <= polls
      BY AtIs DEF Past, Aligned
    <3> QED
      BY <3>1 DEF LineTypes
  <2> QED
    BY <2>1 DEF Past
<1> QED
  BY <1>1, <1>2, <1>3, <1>4

LEMMA ChartInit == ASSUME ChartsInit PROVE ChartInv
<1> USE ChartsAssumption
<1>1. Aligned
  BY EmptySeq DEF ChartsInit, Aligned
<1>2. LineTypes
  BY EmptySeq DEF ChartsInit, LineTypes
<1>3. Backlog
  BY AwaitedIs DEF ChartsInit, Backlog
<1>4. Placed
  BY DEF ChartsInit, Placed
<1>5. Ordered
  BY DEF ChartsInit, Ordered, Sorted, Before
<1>6. Past /\ PointsWhole /\ LagBounded
  BY DEF ChartsInit, Past, PointsWhole, LagBounded
<1> QED
  BY <1>1, <1>2, <1>3, <1>4, <1>5, <1>6 DEF ChartInv

LEMMA OrderStays ==
    ASSUME Ordered, UNCHANGED <<measured, temperatureQueue, coming>> PROVE Ordered'
BY DEF Ordered, Sorted, Before

LEMMA Later ==
    ASSUME NEW a \in Answers, NEW p \in Nat, NotOlder(a, p + 1), LineTypes
    PROVE  NotOlder(a, p)
<1>1. a.at \in Nat
  BY AtOf
<1> QED
  BY <1>1, AwaitedIs, OthersIs DEF NotOlder, LineTypes

\* A step that lets an answer be as old as before, and moves none.
LEMMA PlacesStay ==
    ASSUME LineTypes, Placed, UNCHANGED <<temperatureQueue, coming>>,
           \A a \in Answers, p \in Nat : NotOlder(a, p) => NotOlder(a, p)'
    PROVE  Placed'
<1>1. \A p \in 1 .. Len(temperatureQueue) : temperatureQueue[p] \in Answers /\ p \in Nat
  BY DEF LineTypes
<1>2. \A p \in 1 .. Len(coming) : coming[p] \in Answers /\ Len(temperatureQueue) + p \in Nat
  BY DEF LineTypes
<1>3. \A p \in 1 .. Len(temperatureQueue) : NotOlder(temperatureQueue[p], p)'
  BY <1>1 DEF Placed
<1>4. \A p \in 1 .. Len(coming) : NotOlder(coming[p], Len(temperatureQueue) + p)'
  BY <1>2 DEF Placed
<1> QED
  BY <1>3, <1>4 DEF Placed

LEMMA CountsStep ==
    ASSUME ChartInv, OtherAsks \/ OtherGivesUp \/ PollBegins \/ PollFails
    PROVE  ChartInv'
<1> USE AwaitedIs, OthersIs
<1>1. CASE OtherAsks
  <2> USE <1>1 DEF OtherAsks
  <2>1. Awaited' = Awaited
    BY NobodyElseWaits
  <2>2. LineTypes'
    BY DEF ChartInv, LineTypes
  <2>3. Backlog'
    BY <2>1 DEF ChartInv, LineTypes, Backlog
  <2>4. \A a \in Answers, p \in Nat : NotOlder(a, p) => NotOlder(a, p)'
    BY <2>1 DEF NotOlder
  <2>5. Placed'
    BY <2>4, PlacesStay DEF ChartInv
  <2>6. Ordered'
    BY OrderStays DEF ChartInv, historyVars
  <2>7. missed <= missed' /\ polls <= polls' /\ UNCHANGED historyVars
    BY DEF ChartInv, LineTypes
  <2>8. Aligned' /\ Past' /\ PointsWhole' /\ LagBounded'
    BY <2>2, <2>7, HistoriesStay DEF ChartInv
  <2> QED
    BY <2>2, <2>3, <2>5, <2>6, <2>8 DEF ChartInv
<1>2. CASE OtherGivesUp
  <2> USE <1>2 DEF OtherGivesUp, linkVars
  <2>1. Awaited' = Awaited
    BY NobodyElseWaits
  <2>2. LineTypes'
    BY DEF ChartInv, LineTypes
  <2>3. Backlog'
    BY <2>1 DEF ChartInv, LineTypes, Backlog
  <2>4. \A a \in Answers, p \in Nat : NotOlder(a, p) => NotOlder(a, p)'
    BY <2>1, AtOf DEF NotOlder, ChartInv, LineTypes
  <2>5. Placed'
    BY <2>4, PlacesStay DEF ChartInv
  <2>6. Ordered'
    BY OrderStays DEF ChartInv, historyVars
  <2>7. missed <= missed' /\ polls <= polls' /\ UNCHANGED historyVars
    BY DEF ChartInv, LineTypes
  <2>8. Aligned' /\ Past' /\ PointsWhole' /\ LagBounded'
    BY <2>2, <2>7, HistoriesStay DEF ChartInv
  <2> QED
    BY <2>2, <2>3, <2>5, <2>6, <2>8 DEF ChartInv
<1>3. CASE PollBegins
  <2> USE <1>3 DEF PollBegins
  <2>1. Awaited = 0 /\ Awaited' = 1
    BY Zenon DEF Awaited
  <2>2. LineTypes'
    BY DEF ChartInv, LineTypes
  <2>3. Backlog'
    BY <2>1 DEF ChartInv, LineTypes, Backlog
  <2>4. \A a \in Answers, p \in Nat : NotOlder(a, p) => NotOlder(a, p)'
    BY <2>1, AtOf DEF NotOlder, ChartInv, LineTypes
  <2>5. Placed'
    BY <2>4, PlacesStay DEF ChartInv
  <2>6. Ordered'
    BY OrderStays DEF ChartInv, historyVars
  <2>7. missed <= missed' /\ polls <= polls' /\ UNCHANGED historyVars
    BY DEF ChartInv, LineTypes
  <2>8. Aligned' /\ Past' /\ PointsWhole' /\ LagBounded'
    BY <2>2, <2>7, HistoriesStay DEF ChartInv
  <2> QED
    BY <2>2, <2>3, <2>5, <2>6, <2>8 DEF ChartInv
<1>4. CASE PollFails
  <2> USE <1>4 DEF PollFails, linkVars
  <2>1. Awaited = 1 /\ Awaited' = 0
    BY Zenon DEF Awaited
  <2>2. LineTypes'
    BY DEF ChartInv, LineTypes
  <2>3. Backlog'
    BY <2>1 DEF ChartInv, LineTypes, Backlog
  <2>4. \A a \in Answers, p \in Nat : NotOlder(a, p) => NotOlder(a, p)'
    BY <2>1, AtOf DEF NotOlder, ChartInv, LineTypes
  <2>5. Placed'
    BY <2>4, PlacesStay DEF ChartInv
  <2>6. Ordered'
    BY OrderStays DEF ChartInv, historyVars
  <2>7. missed <= missed' /\ polls <= polls' /\ UNCHANGED historyVars
    BY DEF ChartInv, LineTypes
  <2>8. Aligned' /\ Past' /\ PointsWhole' /\ LagBounded'
    BY <2>2, <2>7, HistoriesStay DEF ChartInv
  <2> QED
    BY <2>2, <2>3, <2>5, <2>6, <2>8 DEF ChartInv
<1> QED
  BY <1>1, <1>2, <1>3, <1>4

LEMMA PicoKeepsCharts == ASSUME ChartInv, PicoAnswers PROVE ChartInv'
<1> USE AwaitedIs, OthersIs DEF PicoAnswers
<1>1. PICK a \in Answers : a.at = polls /\ coming' = Append(coming, a)
  <2>1. PICK t \in [Sensors -> Readings] :
           coming' = Append(coming, [at |-> polls, temperature |-> t, rpm |-> rpm])
    OBVIOUS
  <2>2. [at |-> polls, temperature |-> t, rpm |-> rpm] \in Answers
    BY DEF Answers, ChartInv, LineTypes
  <2> QED
    BY <2>1, <2>2
<1>2. Awaited' = Awaited
  BY NobodyElseWaits
<1>3. coming \in Seq(Answers) /\ coming' \in Seq(Answers)
  BY <1>1, AppendOf DEF ChartInv, LineTypes
<1>4. /\ Len(coming') = Len(coming) + 1 /\ coming'[Len(coming) + 1] = a
      /\ \A i \in 1 .. Len(coming) : coming'[i] = coming[i]
  BY <1>1, <1>3, AppendOf
<1>5. LineTypes'
  BY <1>3 DEF ChartInv, LineTypes
<1>6. Backlog'
  BY <1>2, <1>3, <1>4 DEF ChartInv, LineTypes, Backlog
<1>7. NotOlder(a, Len(temperatureQueue) + Len(coming) + 1)
  BY <1>1, <1>3 DEF ChartInv, LineTypes, Backlog, NotOlder
<1>8. Placed'
  <2>1. \A b, p : NotOlder(b, p)' <=> NotOlder(b, p)
    BY <1>2 DEF NotOlder
  <2>2. ASSUME NEW p \in 1 .. Len(coming')
        PROVE  NotOlder(coming'[p], Len(temperatureQueue) + p)
    <3>1. CASE p \in 1 .. Len(coming)
      BY <1>3, <1>4, <3>1 DEF ChartInv, Placed
    <3>2. CASE p = Len(coming) + 1
      <4>1. Len(temperatureQueue) + p = Len(temperatureQueue) + Len(coming) + 1
        BY <1>3, <3>2 DEF ChartInv, LineTypes
      <4>2. coming'[p] = a
        BY <1>4, <3>2
      <4> QED
        BY <1>7, <4>1, <4>2
    <3> QED
      BY <1>3, <1>4, <3>1, <3>2
  <2>3. \A p \in 1 .. Len(temperatureQueue) : NotOlder(temperatureQueue[p], p)
    BY DEF ChartInv, Placed
  <2> QED
    BY <2>1, <2>2, <2>3 DEF Placed
<1>9. Ordered'
  <2>1. \A i \in 1 .. Len(coming) : coming[i].at <= a.at
    BY <1>1 DEF ChartInv, Placed, NotOlder
  <2>2. \A i \in 1 .. Len(temperatureQueue) : temperatureQueue[i].at <= a.at
    BY <1>1 DEF ChartInv, Placed, NotOlder
  <2>3. \A i \in 1 .. Len(measured) : measured[i].at <= a.at
    BY <1>1 DEF ChartInv, Past
  <2>4. Sorted(coming) /\ Before(measured, coming) /\ Before(temperatureQueue, coming)
    BY DEF ChartInv, Ordered
  <2>5. measured \in Seq(Answers) /\ temperatureQueue \in Seq(Answers)
    BY DEF ChartInv, Aligned, LineTypes
  <2>6. /\ Sorted(Append(coming, a))
        /\ Before(measured, Append(coming, a))
        /\ Before(temperatureQueue, Append(coming, a))
    BY <1>3, <2>1, <2>2, <2>3, <2>4, <2>5, AppendOrder
  <2> QED
    BY <1>1, <2>6 DEF ChartInv, Ordered, Sorted, Before, historyVars
<1>10. missed <= missed' /\ polls <= polls' /\ UNCHANGED historyVars
  BY DEF ChartInv, LineTypes
<1>11. Aligned' /\ Past' /\ PointsWhole' /\ LagBounded'
  BY <1>5, <1>10, HistoriesStay DEF ChartInv
<1> QED
  BY <1>5, <1>6, <1>8, <1>9, <1>11 DEF ChartInv

\* An answer that has not got through, or into a full queue.
LEMMA AnswerVanishes ==
    ASSUME ChartInv, coming # <<>>, coming' = Tail(coming),
           UNCHANGED <<rpm, requests, temperatureQueue, asking, waiting, polls, historyVars, missed>>
    PROVE  ChartInv'
<1> USE AwaitedIs, OthersIs
<1>1. Awaited' = Awaited
  BY NobodyElseWaits
<1>2. coming \in Seq(Answers) /\ temperatureQueue \in Seq(Answers) /\ measured \in Seq(Answers)
  BY DEF ChartInv, LineTypes, Aligned
<1>3. /\ coming' \in Seq(Answers) /\ Len(coming') = Len(coming) - 1 /\ Len(coming) \in Nat \ {0}
      /\ \A i \in 1 .. Len(coming) - 1 : coming'[i] = coming[i + 1]
  BY <1>2, TailOf
<1>4. LineTypes'
  BY <1>3 DEF ChartInv, LineTypes
<1>5. Backlog'
  <2>1. requests + Len(coming) + Len(temperatureQueue) <= missed + asking + Awaited
    BY DEF ChartInv, Backlog
  <2>2. requests + (Len(coming) - 1) + Len(temperatureQueue) <= missed + asking + Awaited
    BY <1>2, <2>1 DEF ChartInv, LineTypes
  <2> QED
    BY <1>1, <1>3, <2>2 DEF Backlog
<1>6. Placed'
  <2>1. ASSUME NEW p \in 1 .. Len(coming')
        PROVE  NotOlder(coming[p], Len(temperatureQueue) + p)'
    <3>1. p + 1 \in 1 .. Len(coming) /\ coming'[p] = coming[p + 1]
      BY <1>3
    <3>2. PICK a \in Answers : a = coming[p + 1]
      BY <1>2, <3>1
    <3>3. PICK n \in Nat : n = Len(temperatureQueue) + p
      BY <1>2
    <3>4. n + 1 = Len(temperatureQueue) + (p + 1)
      BY <1>2, <3>3
    <3>5. NotOlder(coming[p + 1], Len(temperatureQueue) + (p + 1))
      BY <3>1 DEF ChartInv, Placed
    <3>6. NotOlder(a, n)
      BY <3>2, <3>4, <3>5, Later DEF ChartInv
    <3> QED
      BY <1>1, <3>1, <3>2, <3>3, <3>6 DEF NotOlder
  <2>2. \A p \in 1 .. Len(temperatureQueue) : NotOlder(temperatureQueue[p], p)'
    BY <1>1 DEF ChartInv, Placed, NotOlder
  <2> QED
    BY <2>1, <2>2 DEF Placed
<1>7. Ordered'
  <2>1. /\ Sorted(Tail(coming)) /\ Before(measured, Tail(coming))
        /\ Before(temperatureQueue, Tail(coming))
    BY <1>2, TailOrder DEF ChartInv, Ordered
  <2> QED
    BY <2>1 DEF ChartInv, Ordered, Sorted, Before, historyVars
<1>8. missed <= missed' /\ polls <= polls'
  BY DEF ChartInv, LineTypes
<1>9. Aligned' /\ Past' /\ PointsWhole' /\ LagBounded'
  BY <1>4, <1>8, HistoriesStay DEF ChartInv
<1> QED
  BY <1>4, <1>5, <1>6, <1>7, <1>9 DEF ChartInv

LEMMA LostKeepsCharts == ASSUME ChartInv, Lost PROVE ChartInv'
<1>1. CASE requests > 0 /\ requests' = requests - 1 /\ UNCHANGED coming
  <2> USE <1>1, AwaitedIs, OthersIs DEF Lost
  <2>1. Awaited' = Awaited
    BY NobodyElseWaits
  <2>2. LineTypes'
    BY DEF ChartInv, LineTypes
  <2>3. Backlog'
    BY <2>1 DEF ChartInv, LineTypes, Backlog
  <2>4. \A a \in Answers, p \in Nat : NotOlder(a, p) => NotOlder(a, p)'
    BY <2>1 DEF NotOlder
  <2>5. Placed'
    BY <2>4, PlacesStay DEF ChartInv
  <2>6. Ordered'
    BY OrderStays DEF ChartInv, historyVars
  <2>7. missed <= missed' /\ polls <= polls' /\ UNCHANGED historyVars
    BY DEF ChartInv, LineTypes
  <2>8. Aligned' /\ Past' /\ PointsWhole' /\ LagBounded'
    BY <2>2, <2>7, HistoriesStay DEF ChartInv
  <2> QED
    BY <2>2, <2>3, <2>5, <2>6, <2>8 DEF ChartInv
<1>2. CASE coming # <<>> /\ coming' = Tail(coming) /\ UNCHANGED requests
  BY <1>2, AnswerVanishes DEF Lost
<1> QED
  BY <1>1, <1>2 DEF Lost

LEMMA DispatchKeepsCharts == ASSUME ChartInv, Dispatch PROVE ChartInv'
<1> USE AwaitedIs, OthersIs DEF Dispatch
<1>1. CASE Len(temperatureQueue) = QueueMax
  BY <1>1, AnswerVanishes
<1>2. CASE Len(temperatureQueue) # QueueMax
  <2> DEFINE a == Head(coming)
             n == Len(temperatureQueue)
  <2>1. temperatureQueue' = Append(temperatureQueue, a) /\ coming' = Tail(coming)
    BY <1>2
  <2>2. Awaited' = Awaited
    BY NobodyElseWaits
  <2>3. /\ coming \in Seq(Answers) /\ coming # <<>>
        /\ temperatureQueue \in Seq(Answers) /\ measured \in Seq(Answers)
    BY DEF ChartInv, LineTypes, Aligned
  <2>4. /\ coming' \in Seq(Answers) /\ Len(coming') = Len(coming) - 1 /\ Len(coming) \in Nat \ {0}
        /\ \A i \in 1 .. Len(coming) - 1 : coming'[i] = coming[i + 1]
        /\ a \in Answers /\ a = coming[1]
    BY <2>1, <2>3, TailOf
  <2> HIDE DEF a
  <2>5. /\ temperatureQueue' \in Seq(Answers) /\ Len(temperatureQueue') = n + 1
        /\ temperatureQueue'[n + 1] = a
        /\ \A i \in 1 .. n : temperatureQueue'[i] = temperatureQueue[i]
    BY <2>1, <2>3, <2>4, AppendOf
  <2>6. LineTypes'
    BY <2>4, <2>5 DEF ChartInv, LineTypes
  <2>7. Backlog'
    <3>1. requests + Len(coming) + n <= missed + asking + Awaited
      BY DEF ChartInv, Backlog
    <3>2. requests + (Len(coming) - 1) + (n + 1) <= missed + asking + Awaited
      BY <2>3, <3>1 DEF ChartInv, LineTypes
    <3> QED
      BY <2>2, <2>4, <2>5, <3>2 DEF Backlog
  <2>8. Placed'
    <3>1. ASSUME NEW p \in 1 .. n + 1 PROVE NotOlder(temperatureQueue[p], p)'
      <4>1. CASE p \in 1 .. n
        BY <2>2, <2>5, <4>1 DEF ChartInv, Placed, NotOlder
      <4>2. CASE p = n + 1
        <5>1. 1 \in 1 .. Len(coming)
          BY <2>4
        <5>2. NotOlder(coming[1], n + 1)
          BY <5>1 DEF ChartInv, Placed
        <5>3. PICK b \in Answers : b = a
          BY <2>4
        <5>4. NotOlder(b, p)
          BY <2>4, <4>2, <5>2, <5>3
        <5>5. temperatureQueue'[p] = b
          BY <2>5, <4>2, <5>3
        <5> QED
          BY <2>2, <5>4, <5>5 DEF NotOlder
      <4> QED
        BY <2>3, <4>1, <4>2
    <3>2. ASSUME NEW p \in 1 .. Len(coming')
          PROVE  NotOlder(coming[p], Len(temperatureQueue) + p)'
      <4>1. p + 1 \in 1 .. Len(coming) /\ coming'[p] = coming[p + 1]
        BY <2>4
      <4>2. NotOlder(coming[p + 1], n + (p + 1))
        BY <4>1 DEF ChartInv, Placed
      <4>3. PICK b \in Answers : b = coming[p + 1]
        BY <2>3, <4>1
      <4>4. PICK k \in Nat : k = n + (p + 1)
        BY <2>3
      <4>5. Len(temperatureQueue') + p = k
        BY <2>3, <2>5, <4>4
      <4>6. NotOlder(b, k)
        BY <4>2, <4>3, <4>4
      <4> QED
        BY <2>2, <4>1, <4>3, <4>5, <4>6 DEF NotOlder
    <3> QED
      BY <2>5, <3>1, <3>2 DEF Placed
  <2>9. Ordered'
    <3>1. /\ Sorted(Tail(coming)) /\ Before(measured, Tail(coming))
          /\ Before(temperatureQueue, Tail(coming))
          /\ \A i \in 1 .. Len(Tail(coming)) : a.at <= Tail(coming)[i].at
      BY <2>3, TailOrder DEF ChartInv, Ordered, a
    <3>2. \A i \in 1 .. n : temperatureQueue[i].at <= a.at
      BY <2>4 DEF ChartInv, Ordered, Before
    <3>3. \A i \in 1 .. Len(measured) : measured[i].at <= a.at
      BY <2>4 DEF ChartInv, Ordered, Before
    <3>4. Sorted(temperatureQueue) /\ Before(measured, temperatureQueue)
      BY DEF ChartInv, Ordered
    <3>5. Tail(coming) \in Seq(Answers)
      BY <2>3
    <3>6. /\ Sorted(Append(temperatureQueue, a))
          /\ Before(Append(temperatureQueue, a), Tail(coming))
          /\ Before(measured, Append(temperatureQueue, a))
      BY <2>3, <2>4, <3>1, <3>2, <3>3, <3>4, <3>5, AppendOrder
    <3> QED
      BY <2>1, <3>1, <3>6 DEF ChartInv, Ordered, Sorted, Before, historyVars
  <2>10. missed <= missed' /\ polls <= polls' /\ UNCHANGED historyVars
    BY DEF ChartInv, LineTypes
  <2>11. Aligned' /\ Past' /\ PointsWhole' /\ LagBounded'
    BY <2>6, <2>10, HistoriesStay DEF ChartInv
  <2> QED
    BY <2>6, <2>7, <2>8, <2>9, <2>11 DEF ChartInv
<1> QED
  BY <1>1, <1>2

\* Whoever takes the oldest answer brings all others nearer.
LEMMA PlacesMoveUp ==
    ASSUME LineTypes, Placed, temperatureQueue # <<>>,
           temperatureQueue' = Tail(temperatureQueue), coming' = coming,
           \A a \in Answers, p \in Nat : NotOlder(a, p + 1) => NotOlder(a, p)'
    PROVE  Placed'
<1> DEFINE n == Len(temperatureQueue)
<1>1. coming \in Seq(Answers) /\ temperatureQueue \in Seq(Answers)
  BY DEF LineTypes
<1>2. /\ n \in Nat \ {0} /\ Len(temperatureQueue') = n - 1
      /\ \A i \in 1 .. n - 1 : temperatureQueue'[i] = temperatureQueue[i + 1]
  BY <1>1, TailOf
<1>3. ASSUME NEW p \in 1 .. n - 1 PROVE NotOlder(temperatureQueue[p], p)'
  <2>1. p + 1 \in 1 .. n /\ temperatureQueue'[p] = temperatureQueue[p + 1] /\ p \in Nat
    BY <1>2
  <2>2. PICK a \in Answers : a = temperatureQueue[p + 1]
    BY <1>1, <2>1
  <2>3. NotOlder(a, p + 1)
    BY <2>1, <2>2 DEF Placed
  <2>4. NotOlder(a, p)'
    BY <2>1, <2>3
  <2> QED
    BY <2>1, <2>2, <2>4 DEF NotOlder
<1>4. ASSUME NEW p \in 1 .. Len(coming) PROVE NotOlder(coming[p], Len(temperatureQueue) + p)'
  <2>1. PICK a \in Answers : a = coming[p]
    BY <1>1
  <2>2. PICK k \in Nat : k = n - 1 + p
    <3>1. n \in Nat /\ n >= 1
      BY <1>2
    <3> HIDE DEF n
    <3>2. n - 1 + p \in Nat
      BY <3>1
    <3> QED
      BY <3>2
  <2>3. k + 1 = n + p
    BY <1>2, <2>2
  <2>4. NotOlder(coming[p], n + p)
    BY DEF Placed
  <2>5. NotOlder(a, k + 1)
    BY <2>1, <2>3, <2>4
  <2>6. NotOlder(a, k)'
    BY <2>5
  <2>7. Len(temperatureQueue') + p = k
    BY <1>2, <2>2
  <2> QED
    BY <2>1, <2>6, <2>7 DEF NotOlder
<1> QED
  BY <1>2, <1>3, <1>4 DEF Placed

LEMMA OtherKeepsCharts == ASSUME ChartInv, OtherAnswered PROVE ChartInv'
<1> USE AwaitedIs, OthersIs DEF OtherAnswered, linkVars
<1>1. Awaited' = Awaited
  BY NobodyElseWaits
<1>2. /\ temperatureQueue \in Seq(Answers) /\ coming \in Seq(Answers)
      /\ measured \in Seq(Answers)
  BY DEF ChartInv, LineTypes, Aligned
<1>3. /\ temperatureQueue' \in Seq(Answers)
      /\ Len(temperatureQueue') = Len(temperatureQueue) - 1
  BY <1>2, TailOf
<1>4. LineTypes'
  BY <1>3 DEF ChartInv, LineTypes
<1>5. Backlog'
  <2>1. requests + Len(coming) + Len(temperatureQueue) <= missed + asking + Awaited
    BY DEF ChartInv, Backlog
  <2>2. requests + Len(coming) + (Len(temperatureQueue) - 1) <= missed + (asking - 1) + Awaited
    BY <1>2, <2>1 DEF ChartInv, LineTypes
  <2> QED
    BY <1>1, <1>3, <2>2 DEF Backlog
<1>6. Placed'
  <2>1. ASSUME NEW a \in Answers, NEW p \in Nat, NotOlder(a, p + 1) PROVE NotOlder(a, p)'
    <3>1. NotOlder(a, p)
      BY <2>1, Later DEF ChartInv
    <3> QED
      BY <1>1, <3>1 DEF NotOlder
  <2> QED
    BY <2>1, PlacesMoveUp DEF ChartInv
<1>7. Ordered'
  <2>1. /\ Sorted(Tail(temperatureQueue)) /\ Before(measured, Tail(temperatureQueue))
        /\ Before(Tail(temperatureQueue), coming)
    BY <1>2, TailOrder DEF ChartInv, Ordered
  <2> QED
    BY <2>1 DEF ChartInv, Ordered, Sorted, Before, historyVars
<1>8. missed <= missed' /\ polls <= polls' /\ UNCHANGED historyVars
  BY DEF ChartInv, LineTypes
<1>9. Aligned' /\ Past' /\ PointsWhole' /\ LagBounded'
  BY <1>4, <1>8, HistoriesStay DEF ChartInv
<1> QED
  BY <1>4, <1>5, <1>6, <1>7, <1>9 DEF ChartInv

\* What the monitor's charts become with the oldest answer.
LEMMA PollExtends ==
    ASSUME ChartInv, PollAnswered
    PROVE  LET answer == Head(temperatureQueue)
               n == Len(timeStamps_)
           IN /\ answer \in Answers
              /\ timeStamps_' \in Seq(Int) /\ Continues(timeStamps_, polls, n, timeStamps_')
              /\ measured' \in Seq(Answers) /\ Continues(measured, answer, n, measured')
              /\ \A s \in Sensors :
                    /\ tempDict_'[s] \in Seq(Int)
                    /\ Continues(tempDict_[s], Shown(answer.temperature[s]), n, tempDict_'[s])
              /\ \A f \in Fans :
                    /\ rpmDict_'[f] \in Seq(Int)
                    /\ Continues(rpmDict_[f], answer.rpm[f], n, rpmDict_'[f])
              /\ tempDict_' \in [Sensors -> Seq(Int)] /\ rpmDict_' \in [Fans -> Seq(Int)]
<1> DEFINE answer == Head(temperatureQueue)
           n == Len(timeStamps_)
<1>1. answer \in Answers
  BY TailOf DEF ChartInv, LineTypes, PollAnswered
<1>2. /\ tempDict_' = [s \in Sensors |-> Saved(tempDict_[s], Carried(answer.temperature)[s])]
      /\ rpmDict_' = [f \in Fans |-> Saved(rpmDict_[f], answer.rpm[f])]
      /\ timeStamps_' = Stamped(timeStamps_, polls)
      /\ measured' = Stamped(measured, answer)
  BY DEF PollAnswered
<1>3. Aligned /\ polls \in Int
  BY DEF ChartInv, LineTypes
<1> HIDE DEF answer
<1>4. n \in Nat /\ n <= History
  BY <1>3 DEF Aligned
<1>5. timeStamps_' \in Seq(Int) /\ Continues(timeStamps_, polls, n, timeStamps_')
  <2>1. timeStamps_' = Saved(timeStamps_, polls)
    BY <1>2 DEF Stamped, Saved
  <2>2. timeStamps_ \in Seq(Int)
    BY <1>3 DEF Aligned
  <2> QED
    BY <1>3, <1>4, <2>1, <2>2, SavedSeries
<1>6. measured' \in Seq(Answers) /\ Continues(measured, answer, n, measured')
  <2>1. measured' = Saved(measured, answer)
    BY <1>2 DEF Stamped, Saved
  <2>2. measured \in Seq(Answers) /\ Len(measured) = n
    BY <1>3 DEF Aligned
  <2> QED
    BY <1>1, <1>4, <2>1, <2>2, SavedSeries
<1>7. answer.temperature \in [Sensors -> Readings] /\ answer.rpm \in [Fans -> Int]
  BY <1>1 DEF Answers
<1>8. ASSUME NEW s \in Sensors
      PROVE  /\ tempDict_'[s] \in Seq(Int)
             /\ Continues(tempDict_[s], Shown(answer.temperature[s]), n, tempDict_'[s])
  <2>1. PICK t \in Readings : t = answer.temperature[s]
    BY <1>7
  <2>2. Carried(answer.temperature)[s] = Unpacked(Pack(t))
    BY <2>1 DEF Carried
  <2>3. Carried(answer.temperature)[s] = Shown(t) /\ Shown(t) \in Int
    BY <2>2, CodecExact
  <2>4. tempDict_'[s] = Saved(tempDict_[s], Shown(t))
    BY <1>2, <2>3
  <2>5. tempDict_[s] \in Seq(Int) /\ Len(tempDict_[s]) = n
    BY <1>3 DEF Aligned
  <2>6. tempDict_'[s] \in Seq(Int) /\ Continues(tempDict_[s], Shown(t), n, tempDict_'[s])
    BY <1>4, <2>3, <2>4, <2>5, SavedSeries
  <2> QED
    BY <2>1, <2>6
<1>9. ASSUME NEW f \in Fans
      PROVE  /\ rpmDict_'[f] \in Seq(Int)
             /\ Continues(rpmDict_[f], answer.rpm[f], n, rpmDict_'[f])
  <2>1. rpmDict_'[f] = Saved(rpmDict_[f], answer.rpm[f])
    BY <1>2
  <2>2. rpmDict_[f] \in Seq(Int) /\ Len(rpmDict_[f]) = n /\ answer.rpm[f] \in Int
    BY <1>3, <1>7 DEF Aligned
  <2> QED
    BY <1>4, <2>1, <2>2, SavedSeries
<1>10. tempDict_' \in [Sensors -> Seq(Int)] /\ rpmDict_' \in [Fans -> Seq(Int)]
  BY <1>2, <1>8, <1>9
<1> QED
  BY <1>1, <1>5, <1>6, <1>8, <1>9, <1>10 DEF answer

LEMMA PollKeepsCharts == ASSUME ChartInv, PollAnswered PROVE ChartInv'
<1> DEFINE a == Head(temperatureQueue)
           L == Len(timeStamps_)
           G == Grown(L)
<1>1. Awaited = 1 /\ Awaited' = 0
  BY Zenon DEF Awaited, PollAnswered
<1>2. /\ temperatureQueue \in Seq(Answers) /\ coming \in Seq(Answers)
      /\ measured \in Seq(Answers) /\ temperatureQueue # <<>>
      /\ temperatureQueue' = Tail(temperatureQueue) /\ coming' = coming
  BY DEF ChartInv, LineTypes, Aligned, PollAnswered, linkVars
<1>3. /\ a \in Answers /\ a = temperatureQueue[1] /\ Len(temperatureQueue) \in Nat \ {0}
      /\ temperatureQueue' \in Seq(Answers)
      /\ Len(temperatureQueue') = Len(temperatureQueue) - 1
  BY <1>2, TailOf
<1>4. /\ timeStamps_' \in Seq(Int) /\ Continues(timeStamps_, polls, L, timeStamps_')
      /\ measured' \in Seq(Answers) /\ Continues(measured, a, L, measured')
  BY PollExtends
<1>5. /\ \A s \in Sensors :
            /\ tempDict_'[s] \in Seq(Int)
            /\ Continues(tempDict_[s], Shown(a.temperature[s]), L, tempDict_'[s])
      /\ \A f \in Fans :
            /\ rpmDict_'[f] \in Seq(Int)
            /\ Continues(rpmDict_[f], a.rpm[f], L, rpmDict_'[f])
      /\ tempDict_' \in [Sensors -> Seq(Int)] /\ rpmDict_' \in [Fans -> Seq(Int)]
  BY PollExtends
<1>6. L \in Nat /\ L <= History /\ G \in Nat \ {0} /\ G <= History
  BY OthersIs DEF ChartInv, Aligned, Grown
<1>7. \A i \in 1 .. G : i # G => Kept(L, i) \in 1 .. L
  BY <1>6, OthersIs DEF Kept, Grown
<1>8. NotOlder(a, 1)
  BY <1>3 DEF ChartInv, Placed
<1>9. Len(measured) = L /\ Len(measured') = G /\ Len(timeStamps_') = G
  BY <1>4 DEF ChartInv, Aligned, Continues
<1>10. \A i \in 1 .. G :
          \/ i = G /\ measured'[i] = a /\ timeStamps_'[i] = polls
          \/ /\ i # G /\ Kept(L, i) \in 1 .. L
             /\ measured'[i] = measured[Kept(L, i)] /\ timeStamps_'[i] = timeStamps_[Kept(L, i)]
  BY <1>4, <1>7 DEF Continues
<1> HIDE DEF a, L, G
<1>11. Aligned'
  <2>1. \A s \in Sensors : Len(tempDict_'[s]) = G
    BY <1>5 DEF Continues, G
  <2>2. \A f \in Fans : Len(rpmDict_'[f]) = G
    BY <1>5 DEF Continues, G
  <2> QED
    BY <1>4, <1>5, <1>6, <1>9, <2>1, <2>2 DEF Aligned
<1>12. LineTypes'
  BY <1>2, <1>3 DEF ChartInv, LineTypes, PollAnswered, linkVars
<1>13. Backlog'
  <2>1. requests + Len(coming) + Len(temperatureQueue) <= missed + asking + 1
    BY <1>1 DEF ChartInv, Backlog
  <2>2. requests + Len(coming) + (Len(temperatureQueue) - 1) <= missed + asking + 0
    BY <1>2, <2>1 DEF ChartInv, LineTypes
  <2> QED
    BY <1>1, <1>2, <1>3, <2>2 DEF Backlog, PollAnswered, linkVars
<1>14. Placed'
  <2>1. ASSUME NEW b \in Answers, NEW p \in Nat, NotOlder(b, p + 1) PROVE NotOlder(b, p)'
    <3>1. b.at \in Nat
      BY AtOf
    <3> QED
      BY <1>1, <2>1, <3>1, OthersIs DEF NotOlder, ChartInv, LineTypes, PollAnswered
  <2> QED
    BY <1>2, <2>1, PlacesMoveUp DEF ChartInv
<1>15. Ordered'
  <2>1. /\ Sorted(Tail(temperatureQueue)) /\ Before(measured, Tail(temperatureQueue))
        /\ Before(Tail(temperatureQueue), coming)
        /\ \A i \in 1 .. Len(Tail(temperatureQueue)) : a.at <= Tail(temperatureQueue)[i].at
    BY <1>2, TailOrder DEF ChartInv, Ordered, a
  <2>2. \A i \in 1 .. Len(measured) : measured[i].at <= a.at
    BY <1>3 DEF ChartInv, Ordered, Before
  <2>3. \A i \in 1 .. Len(coming) : a.at <= coming[i].at
    BY <1>3 DEF ChartInv, Ordered, Before
  <2>4. Sorted(measured')
    <3>1. ASSUME NEW i \in 1 .. G, NEW j \in 1 .. G, i <= j
          PROVE  measured'[i].at <= measured'[j].at
      <4>1. CASE i = G
        BY <1>3, <1>6, <1>10, <3>1, <4>1, AtOf
      <4>2. CASE i # G /\ j = G
        BY <1>9, <1>10, <2>2, <4>2
      <4>3. CASE i # G /\ j # G
        <5>1. Kept(L, i) <= Kept(L, j)
          BY <3>1 DEF Kept
        <5> QED
          BY <1>9, <1>10, <4>3, <5>1 DEF ChartInv, Ordered, Sorted
      <4> QED
        BY <4>1, <4>2, <4>3
    <3> QED
      BY <1>9, <3>1 DEF Sorted
  <2>5. Before(measured', Tail(temperatureQueue))
    BY <1>9, <1>10, <2>1 DEF Before
  <2>6. Before(measured', coming)
    BY <1>9, <1>10, <2>3 DEF Before, ChartInv, Ordered
  <2> QED
    BY <1>2, <2>1, <2>4, <2>5, <2>6 DEF ChartInv, Ordered, Sorted, Before
<1>16. Past'
  <2>1. a.at <= polls
    BY <1>8 DEF NotOlder
  <2>2. \A i \in 1 .. G : measured'[i].at <= polls
    BY <1>9, <1>10, <2>1 DEF ChartInv, Past
  <2> QED
    BY <1>9, <2>2 DEF Past, PollAnswered
<1>17. PointsWhole'
  <2> SUFFICES ASSUME NEW i \in 1 .. G
               PROVE  /\ \A s \in Sensors :
                            /\ i \in DOMAIN tempDict_'[s]
                            /\ tempDict_'[s][i] = Shown(measured'[i].temperature[s])
                      /\ \A f \in Fans :
                            i \in DOMAIN rpmDict_'[f] /\ rpmDict_'[f][i] = measured'[i].rpm[f]
    BY <1>4, <1>9 DEF PointsWhole
  <2>1. /\ \A s \in Sensors : i \in DOMAIN tempDict_'[s]
        /\ \A f \in Fans : i \in DOMAIN rpmDict_'[f]
    BY <1>5 DEF Continues, G
  <2>2. CASE i = G
    <3>1. measured'[i] = a
      BY <1>10, <2>2
    <3> QED
      BY <1>5, <2>1, <2>2, <3>1 DEF Continues, G
  <2>3. CASE i # G
    <3>1. measured'[i] = measured[Kept(L, i)] /\ Kept(L, i) \in 1 .. L
      BY <1>10, <2>3
    <3>2. /\ \A s \in Sensors :
               tempDict_[s][Kept(L, i)] = Shown(measured[Kept(L, i)].temperature[s])
          /\ \A f \in Fans : rpmDict_[f][Kept(L, i)] = measured[Kept(L, i)].rpm[f]
      BY <3>1 DEF ChartInv, PointsWhole, Aligned, L
    <3> QED
      BY <1>5, <2>1, <2>3, <3>1, <3>2 DEF Continues, G
  <2> QED
    BY <2>2, <2>3
<1>18. LagBounded'
  <2>1. ASSUME NEW i \in 1 .. G
        PROVE  timeStamps_'[i] - measured'[i].at \in 0 .. missed + Others
    <3>1. CASE i = G
      <4>1. a.at \in Nat /\ a.at <= polls /\ polls - a.at + 1 <= missed + Others + 1
        BY <1>1, <1>3, <1>8, AtOf DEF NotOlder
      <4>2. polls - a.at \in 0 .. missed + Others
        BY <4>1, OthersIs DEF ChartInv, LineTypes
      <4> QED
        BY <1>10, <3>1, <4>2
    <3>2. CASE i # G
      <4>1. Kept(L, i) \in DOMAIN timeStamps_
        BY <1>10, <3>2 DEF ChartInv, Aligned, L
      <4>2. timeStamps_[Kept(L, i)] - measured[Kept(L, i)].at \in 0 .. missed + Others
        BY <4>1 DEF ChartInv, LagBounded, Lag
      <4> QED
        BY <1>10, <3>2, <4>2
    <3> QED
      BY <3>1, <3>2
  <2> QED
    BY <1>4, <1>9, <2>1 DEF LagBounded, Lag, PollAnswered
<1> QED
  BY <1>11, <1>12, <1>13, <1>14, <1>15, <1>16, <1>17, <1>18 DEF ChartInv
LEMMA RpmType ==
    ASSUME NEW p \in [Fans -> Pulses], NEW f \in Fans PROVE Rpm(p[f]) \in Int
<1>1. Pulses \subseteq Nat
  BY ChartsAssumption
<1>2. \A n \in Pulses : n \in Nat
  BY <1>1, SMT
<1>3. p[f] \in Pulses
  OBVIOUS
<1>4. \A n \in Nat : Rpm(n) \in Int
  BY DEF Rpm
<1> QED
  BY <1>2, <1>3, <1>4

LEMMA ChartStep == ASSUME ChartInv, [ChartsNext]_chartsVars PROVE ChartInv'
<1>1. CASE PicoAnswers
  BY <1>1, PicoKeepsCharts
<1>2. CASE Lost
  BY <1>2, LostKeepsCharts
<1>3. CASE Dispatch
  BY <1>3, DispatchKeepsCharts
<1>4. CASE OtherAsks \/ OtherGivesUp \/ PollBegins \/ PollFails
  BY <1>4, CountsStep
<1>5. CASE OtherAnswered
  BY <1>5, OtherKeepsCharts
<1>6. CASE PollAnswered
  BY <1>6, PollKeepsCharts
<1>7. ASSUME rpm' \in [Fans -> Int],
             UNCHANGED <<linkVars, temperatureQueue, asking, waiting, polls, historyVars, missed>>
      PROVE  ChartInv'
  <2> USE <1>7, AwaitedIs, OthersIs DEF linkVars
  <2>1. Awaited' = Awaited
    BY NobodyElseWaits
  <2>2. LineTypes'
    BY DEF ChartInv, LineTypes
  <2>3. Backlog'
    BY <2>1 DEF ChartInv, LineTypes, Backlog
  <2>4. \A a \in Answers, p \in Nat : NotOlder(a, p) => NotOlder(a, p)'
    BY <2>1 DEF NotOlder
  <2>5. Placed'
    BY <2>4, PlacesStay DEF ChartInv
  <2>6. Ordered'
    BY OrderStays DEF ChartInv, historyVars
  <2>7. missed <= missed' /\ polls <= polls'
    BY DEF ChartInv, LineTypes
  <2>8. Aligned' /\ Past' /\ PointsWhole' /\ LagBounded'
    BY <2>2, <2>7, HistoriesStay DEF ChartInv
  <2> QED
    BY <2>2, <2>3, <2>5, <2>6, <2>8 DEF ChartInv
<1>8. CASE TachometerTimer
  <2>1. rpm' \in [Fans -> Int]
    <3>1. PICK p \in [Fans -> Pulses] : rpm' = [f \in Fans |-> Rpm(p[f])]
      BY <1>8 DEF TachometerTimer
    <3>2. \A f \in Fans : Rpm(p[f]) \in Int
      BY RpmType
    <3> QED
      BY <3>1, <3>2
  <2> QED
    BY <1>7, <1>8, <2>1 DEF TachometerTimer
<1>9. CASE UNCHANGED chartsVars
  <2>1. rpm' \in [Fans -> Int]
    BY <1>9 DEF chartsVars, ChartInv, LineTypes
  <2> QED
    BY <1>7, <1>9, <2>1 DEF chartsVars
<1> QED
  BY <1>1, <1>2, <1>3, <1>4, <1>5, <1>6, <1>8, <1>9
  DEF ChartsNext, Link, OtherThreads, Poll

LEMMA ChartInvImplies == ASSUME ChartInv PROVE ChartsTrue
<1>1. PointsWhole /\ LagBounded
  BY DEF ChartInv
<1>2. PointsInOrder
  BY DEF ChartInv, Aligned, Ordered, Sorted, PointsInOrder
<1> QED
  BY <1>1, <1>2 DEF ChartsTrue

\* Whatever is lost, late or taken by others, the charts are one history of the sensors,
\* and behind their time stamps by no more polls than requests were given up and others
\* ask at a time: for any length of the history and of the queue and any readings
\* (WebServer::pico_monitor, PacketHandler::get_pico_response).
THEOREM ChartsStayTrue == ChartsSpec => []ChartsTrue
<1>1. ChartsInit => ChartInv
  BY ChartInit
<1>2. ChartInv /\ [ChartsNext]_chartsVars => ChartInv'
  BY ChartStep
<1>3. ChartInv => ChartsTrue
  BY ChartInvImplies
<1> QED
  BY <1>1, <1>2, <1>3, PTL DEF ChartsSpec

LEMMA WordsAre == \A n : n \in Words <=> n \in Int /\ 0 <= n /\ n <= 65535
<1>1. PICK m \in Nat : m = 65535
  BY SMT
<1>2. Words = 0 .. m
  BY <1>1, SMT DEF Words
<1>3. \A n : n \in 0 .. m <=> n \in Int /\ 0 <= n /\ n <= m
  BY SMT
<1>4. \A n : n \in Words <=> n \in Int /\ 0 <= n /\ n <= m
  BY <1>2, <1>3, Zenon
<1> QED
  BY <1>1, <1>4, SMT

LEMMA RpmRange == ASSUME NEW n \in Nat PROVE Rpm(n) \in Words
<1>1. PICK k \in Nat : k = (n % 65536) * 60
  OBVIOUS
<1>2. k % 65536 \in Int /\ 0 <= k % 65536 /\ k % 65536 <= 65535
  BY SMT
<1>3. Rpm(n) \in Int /\ 0 <= Rpm(n) /\ Rpm(n) <= 65535
  BY <1>1, <1>2, SMT DEF Rpm
<1> QED
  BY <1>3, WordsAre, SMT

LEMMA SpeedsFit ==
    ASSUME NEW p \in [Fans -> Pulses] PROVE [f \in Fans |-> Rpm(p[f])] \in [Fans -> Words]
<1>1. Pulses \subseteq Nat
  BY ChartsAssumption
<1>2. ASSUME NEW f \in Fans PROVE Rpm(p[f]) \in Words
  <2>1. p[f] \in Pulses
    OBVIOUS
  <2>2. p[f] \in Nat
    BY <1>1, <2>1, Zenon
  <2> QED
    BY <2>2, RpmRange, Zenon
<1> QED
  BY <1>2, Zenon

SpeedTypes == rpm \in [Fans -> Words]

\* The queue has room when an answer is queued, and the bounds are kept.
Bounds ==
    /\ temperatureQueue \in Seq(Answers) /\ Len(temperatureQueue) <= QueueMax
    /\ polls \in 0 .. MaxPolls /\ missed \in 0 .. MaxMissed

Waits == waiting \in BOOLEAN

LEMMA SpeedsStep == ASSUME SpeedTypes, [ChartsNext]_chartsVars PROVE SpeedTypes'
<1>1. CASE TachometerTimer
  <2>1. PICK p \in [Fans -> Pulses] : rpm' = [f \in Fans |-> Rpm(p[f])]
    BY <1>1 DEF TachometerTimer
  <2> QED
    BY <2>1, SpeedsFit, Zenon DEF SpeedTypes
<1>2. CASE UNCHANGED rpm
  BY <1>2, Zenon DEF SpeedTypes
<1>3. CASE ~TachometerTimer
  <2>1. UNCHANGED rpm
    BY <1>3, Zenon DEF ChartsNext, Link, OtherThreads, Poll,
       PicoAnswers, Lost, Dispatch, OtherAsks, OtherAnswered, OtherGivesUp, PollBegins,
       PollAnswered, PollFails, chartsVars
  <2> QED
    BY <1>2, <2>1
<1> QED
  BY <1>1, <1>3

LEMMA BoundsStep ==
    ASSUME Bounds, coming \in Seq(Answers), [ChartsNext]_chartsVars PROVE Bounds'
<1> USE ChartsAssumption DEF Bounds
<1>1. CASE TachometerTimer \/ PicoAnswers \/ Lost
  BY <1>1 DEF TachometerTimer, PicoAnswers, Lost
<1>2. CASE Dispatch
  <2>1. Head(coming) \in Answers
    BY <1>2, TailOf DEF Dispatch
  <2> HIDE DEF Answers
  <2> QED
    BY <1>2, <2>1 DEF Dispatch
<1>3. CASE OtherAsks \/ OtherGivesUp \/ PollBegins \/ PollFails
  BY <1>3 DEF OtherAsks, OtherGivesUp, PollBegins, PollFails, linkVars
<1>4. CASE OtherAnswered \/ PollAnswered
  <2>1. temperatureQueue' = Tail(temperatureQueue) /\ temperatureQueue # <<>>
        /\ UNCHANGED <<polls, missed>>
    BY <1>4 DEF OtherAnswered, PollAnswered
  <2> QED
    BY <2>1, TailOf
<1>5. CASE UNCHANGED chartsVars
  BY <1>5 DEF chartsVars
<1> QED
  BY <1>1, <1>2, <1>3, <1>4, <1>5 DEF ChartsNext, Link, OtherThreads, Poll

LEMMA WaitsStep == ASSUME Waits, [ChartsNext]_chartsVars PROVE Waits'
BY Zenon DEF Waits, ChartsNext, Link, OtherThreads, Poll, TachometerTimer, PicoAnswers, Lost,
   Dispatch, OtherAsks, OtherAnswered, OtherGivesUp, PollBegins, PollAnswered, PollFails,
   chartsVars

\* The histories stay within their length, the queue within its size and every speed
\* within 16 bits, for any constants (WebServer, tachometer_timer_callback).
THEOREM ChartsTypeCorrect == ChartsSpec => []ChartsTypeOK
<1>1. ChartsInit => ChartInv /\ SpeedTypes /\ Bounds /\ Waits
  <2> SUFFICES ASSUME ChartsInit PROVE ChartInv /\ SpeedTypes /\ Bounds /\ Waits
    OBVIOUS
  <2>1. SpeedTypes
    BY DEF ChartsInit, SpeedTypes, Words
  <2>2. Bounds
    BY ChartsAssumption, EmptySeq DEF ChartsInit, Bounds
  <2>3. Waits
    BY Zenon DEF ChartsInit, Waits
  <2> QED
    BY <2>1, <2>2, <2>3, ChartInit
<1>2. ChartInv /\ SpeedTypes /\ Bounds /\ Waits /\ [ChartsNext]_chartsVars
      => (ChartInv /\ SpeedTypes /\ Bounds /\ Waits)'
  <2>1. ChartInv => coming \in Seq(Answers)
    BY DEF ChartInv, LineTypes
  <2> QED
    BY <2>1, ChartStep, SpeedsStep, BoundsStep, WaitsStep
<1>3. ChartInv /\ SpeedTypes /\ Bounds /\ Waits => ChartsTypeOK
  <2> SUFFICES ASSUME ChartInv, SpeedTypes, Bounds, Waits PROVE ChartsTypeOK
    OBVIOUS
  <2>1. /\ Len(timeStamps_) <= History
        /\ \A s \in Sensors : Len(tempDict_[s]) <= History
        /\ \A f \in Fans : Len(rpmDict_[f]) <= History
    BY DEF ChartInv, Aligned
  <2>2. requests \in Nat /\ asking \in 0 .. Others
    BY OthersIs DEF ChartInv, LineTypes
  <2>3. Len(temperatureQueue) <= QueueMax /\ polls \in 0 .. MaxPolls /\ missed \in 0 .. MaxMissed
    BY DEF Bounds
  <2> QED
    BY <2>1, <2>2, <2>3, Zenon DEF ChartsTypeOK, SpeedTypes, Waits
<1> QED
  BY <1>1, <1>2, <1>3, PTL DEF ChartsSpec

-----------------------------------------------------------------------------
(* Events *)

EventTypes ==
    /\ sequence_number_ \in Int /\ id_ \in Int /\ cid_ \in Int /\ message_ \in Int
    /\ m_ \in Streams \cup {"free"}
    /\ spc \in [Streams -> {"out", "wait", "write"}]
    /\ awaited \in [Streams -> Int] /\ got \in [Streams -> Int]

\* Numbers grow; the writer has the mutex; what a stream waits for it has not got.
EventInv ==
    /\ EventTypes
    /\ cid_ < id_
    /\ message_ < sequence_number_
    /\ mpc = "send" => message_ < sequence_number_ - 1
    /\ \A s \in Streams :
          /\ got[s] <= message_
          /\ spc[s] = "write" => m_ = s
          /\ spc[s] \in {"wait", "write"} /\ awaited[s] <= cid_ => got[s] < message_
          /\ spc[s] = "write" => cid_ = awaited[s]

LEMMA EventInit == ASSUME Init PROVE EventInv
BY DEF Init, EventInv, EventTypes

LEMMA EventStep == ASSUME EventInv, [Next]_vars PROVE EventInv'
<1> USE DEF EventInv, EventTypes, eventVars, streamVars
<1>1. CASE Update
  BY <1>1 DEF Update
<1>2. CASE SendEvent
  <2>1. \A s \in Streams : spc[s] # "write"
    BY <1>2, StreamAssumption DEF SendEvent
  <2> QED
    BY <1>2, <2>1 DEF SendEvent
<1>3. CASE BeginServing \/ Pause \/ Resume
  BY <1>3 DEF BeginServing, Pause, Resume
<1>4. ASSUME NEW s \in Streams, StartWait(s) PROVE EventInv'
  BY <1>4 DEF StartWait
<1>5. ASSUME NEW s \in Streams, Notified(s) PROVE EventInv'
  <2>1. \A r \in Streams : spc[r] # "write"
    BY <1>5, StreamAssumption DEF Notified
  <2> QED
    BY <1>5, <2>1 DEF Notified
<1>6. ASSUME NEW s \in Streams, TimedOut(s) PROVE EventInv'
  BY <1>6 DEF TimedOut
<1>7. ASSUME NEW s \in Streams, Write(s) PROVE EventInv'
  <2>1. \A r \in Streams : r # s => spc[r] # "write"
    BY <1>7 DEF Write
  <2> QED
    BY <1>7, <2>1 DEF Write
<1>8. CASE UNCHANGED vars
  BY <1>8 DEF vars
<1> HIDE DEF EventInv, EventTypes, eventVars, streamVars
<1> QED
  BY <1>1, <1>2, <1>3, <1>4, <1>5, <1>6, <1>7, <1>8 DEF Next, Monitor, Worker

\* For any number of streams, the event a worker writes is the one it waited for and
\* later than all it has written (SSEDispatcher::wait_event).
THEOREM LatestIsWritten == Spec => []WritesLatest
<1>1. Init => EventInv
  BY EventInit
<1>2. EventInv /\ [Next]_vars => EventInv'
  BY EventStep
<1>3. EventInv => WritesLatest
  BY DEF EventInv, EventTypes, WritesLatest
<1> QED
  BY <1>1, <1>2, <1>3, PTL DEF Spec

-----------------------------------------------------------------------------
(* Pause *)

\* While the flag is set nobody begins to write.
PauseInv ==
    /\ stopEvent_ \in BOOLEAN
    /\ spc \in [Streams -> {"out", "wait", "write"}]
    /\ overrun \in [Streams -> Int]
    /\ stopEvent_ => \A s \in Streams : overrun[s] <= IF spc[s] = "write" THEN 0 ELSE 1

LEMMA PauseInit == ASSUME Init PROVE PauseInv
<1>1. ~stopEvent_
  BY DEF Init
<1>2. stopEvent_ \in BOOLEAN
  BY Zenon DEF Init
<1>3. spc \in [Streams -> {"out", "wait", "write"}]
  BY DEF Init
<1>4. overrun \in [Streams -> Int]
  BY DEF Init
<1> QED
  BY <1>1, <1>2, <1>3, <1>4, Zenon DEF PauseInv

LEMMA PauseStep == ASSUME PauseInv, [Next]_vars PROVE PauseInv'
<1> USE DEF PauseInv, eventVars, streamVars
<1>1. CASE Update \/ SendEvent
  BY <1>1 DEF Update, SendEvent
<1>2. CASE BeginServing
  BY <1>2 DEF BeginServing
<1>3. CASE Pause
  BY <1>3 DEF Pause
<1>4. CASE Resume
  BY <1>4 DEF Resume
<1>5. ASSUME NEW s \in Streams, StartWait(s) \/ TimedOut(s) PROVE PauseInv'
  BY <1>5 DEF StartWait, TimedOut
<1>6. ASSUME NEW s \in Streams, Notified(s) PROVE PauseInv'
  BY <1>6 DEF Notified, MayWrite
<1>7. ASSUME NEW s \in Streams, Write(s) PROVE PauseInv'
  BY <1>7 DEF Write
<1>8. CASE UNCHANGED vars
  BY <1>8 DEF vars
<1> HIDE DEF PauseInv, eventVars, streamVars
<1> QED
  BY <1>1, <1>2, <1>3, <1>4, <1>5, <1>6, <1>7, <1>8 DEF Next, Monitor, Worker

\* For any number of streams, after /api/stop each writes at most the event it is
\* writing (SSEDispatcher::pause).
THEOREM PauseIsObeyed == Spec => []PauseHolds
<1>1. Init => PauseInv
  BY PauseInit
<1>2. PauseInv /\ [Next]_vars => PauseInv'
  BY PauseStep
<1>3. PauseInv => PauseHolds
  BY DEF PauseInv, PauseHolds
<1> QED
  BY <1>1, <1>2, <1>3, PTL DEF Spec

-----------------------------------------------------------------------------
(* Types *)

\* What an event's number is made from: when one is to be sent, it has been counted.
Counters ==
    /\ mpc \in {"poll", "send"}
    /\ sequence_number_ \in Nat /\ id_ \in Nat /\ cid_ \in -1 .. id_ - 1
    /\ message_ \in Nat \cup {-1}
    /\ mpc = "send" => sequence_number_ # 0

Flags == running \in BOOLEAN /\ stopEvent_ \in BOOLEAN

WorkerTypes ==
    /\ m_ \in Streams \cup {"free"}
    /\ spc \in [Streams -> {"out", "wait", "write"}]
    /\ awaited \in [Streams -> Nat] /\ got \in [Streams -> Nat \cup {-1}]
    /\ overrun \in [Streams -> Nat]

StreamTypes == Counters /\ Flags /\ WorkerTypes

LEMMA TypesInit == ASSUME Init PROVE StreamTypes
<1>1. Counters
  BY StreamAssumption DEF Init, Counters
<1>2. Flags
  BY Zenon DEF Init, Flags
<1>3. WorkerTypes
  BY DEF Init, WorkerTypes
<1> QED
  BY <1>1, <1>2, <1>3 DEF StreamTypes

LEMMA CountersStep == ASSUME Counters, [Next]_vars PROVE Counters'
<1> USE StreamAssumption DEF Counters, eventVars
<1>1. CASE Update \/ SendEvent
  BY <1>1 DEF Update, SendEvent
<1>2. CASE BeginServing \/ Pause \/ Resume
  BY <1>2 DEF BeginServing, Pause, Resume
<1>3. ASSUME NEW s \in Streams, Worker(s) PROVE Counters'
  BY <1>3 DEF Worker, StartWait, Notified, TimedOut, Write
<1>4. CASE UNCHANGED vars
  BY <1>4 DEF vars
<1> HIDE DEF Counters, eventVars
<1> QED
  BY <1>1, <1>2, <1>3, <1>4 DEF Next, Monitor

LEMMA FlagsStep == ASSUME Flags, [Next]_vars PROVE Flags'
<1> USE DEF Flags
<1>1. CASE Update \/ SendEvent
  BY <1>1, Zenon DEF Update, SendEvent
<1>2. CASE BeginServing \/ Pause \/ Resume
  BY <1>2, Zenon DEF BeginServing, Pause, Resume
<1>3. ASSUME NEW s \in Streams, Worker(s) PROVE Flags'
  BY <1>3, Zenon DEF Worker, StartWait, Notified, TimedOut, Write
<1>4. CASE UNCHANGED vars
  BY <1>4, Zenon DEF vars
<1> HIDE DEF Flags
<1> QED
  BY <1>1, <1>2, <1>3, <1>4 DEF Next, Monitor

LEMMA WorkersStep == ASSUME Counters, WorkerTypes, [Next]_vars PROVE WorkerTypes'
<1> USE DEF Counters, WorkerTypes, eventVars, streamVars
<1>1. CASE Update \/ SendEvent
  BY <1>1 DEF Update, SendEvent
<1>2. CASE BeginServing \/ Pause \/ Resume
  BY <1>2 DEF BeginServing, Pause, Resume
<1>3. ASSUME NEW s \in Streams, StartWait(s) \/ TimedOut(s) PROVE WorkerTypes'
  BY <1>3 DEF StartWait, TimedOut
<1>4. ASSUME NEW s \in Streams, Notified(s) PROVE WorkerTypes'
  BY <1>4 DEF Notified
<1>5. ASSUME NEW s \in Streams, Write(s) PROVE WorkerTypes'
  BY <1>5 DEF Write
<1>6. CASE UNCHANGED vars
  BY <1>6 DEF vars
<1> HIDE DEF Counters, WorkerTypes, eventVars, streamVars
<1> QED
  BY <1>1, <1>2, <1>3, <1>4, <1>5, <1>6 DEF Next, Monitor, Worker

\* The numbers of events stay within their types for any number of streams: none is
\* sent that was not counted (WebServer::update, SSEDispatcher).
THEOREM StreamTypeCorrect == Spec => []TypeOK
<1>1. Init => StreamTypes
  BY TypesInit
<1>2. StreamTypes /\ [Next]_vars => StreamTypes'
  BY CountersStep, FlagsStep, WorkersStep DEF StreamTypes
<1>3. StreamTypes => TypeOK
  <2> SUFFICES ASSUME StreamTypes PROVE TypeOK
    OBVIOUS
  <2>1. Counters /\ Flags /\ WorkerTypes
    BY DEF StreamTypes
  <2>2. /\ mpc \in {"poll", "send"}
        /\ sequence_number_ \in Nat /\ id_ \in Nat /\ cid_ \in -1 .. id_ - 1
        /\ message_ \in Nat \cup {-1}
    BY <2>1 DEF Counters
  <2>3. running \in BOOLEAN /\ stopEvent_ \in BOOLEAN
    BY <2>1, Zenon DEF Flags
  <2>4. /\ m_ \in Streams \cup {"free"}
        /\ spc \in [Streams -> {"out", "wait", "write"}]
        /\ awaited \in [Streams -> Nat] /\ got \in [Streams -> Nat \cup {-1}]
        /\ overrun \in [Streams -> Nat]
    BY <2>1 DEF WorkerTypes
  <2> QED
    BY <2>2, <2>3, <2>4, Zenon DEF TypeOK
<1> QED
  BY <1>1, <1>2, <1>3, PTL DEF Spec
================================================================================
