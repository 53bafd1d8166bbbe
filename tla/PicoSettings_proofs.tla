--------------------------- MODULE PicoSettings_proofs ---------------------------
(***************************************************************************)
(* Proofs about PicoSettings, for every picod.conf, every request of users, *)
(* every length of the version and of its pieces, and any losses.          *)
(***************************************************************************)
EXTENDS PicoSettings, SequenceTheorems, TLAPS

(* A percentage's way through a byte *)

\* RoundEven is off by a half at most, and even then.
LEMMA RoundEvenNear ==
    ASSUME NEW n \in Nat, NEW d \in {100, 64, 128}
    PROVE  /\ RoundEven(n, d) \in Nat
           /\ 2 * (d * RoundEven(n, d) - n) \in -d .. d
           /\ 2 * (d * RoundEven(n, d) - n) \in {-d, d} => RoundEven(n, d) % 2 = 0
BY DEF RoundEven

\* The exponent of the fraction, for every percentage.
LEMMA Scale ==
    ASSUME NEW n \in 1 .. 100
    PROVE  \E k \in 22 .. 30 : n * 2^k >= 100 * 2^23 /\ n * 2^k < 100 * 2^24
<1>1. n = 1 => n * 2^30 >= 100 * 2^23 /\ n * 2^30 < 100 * 2^24
  OBVIOUS
<1>2. n \in 2 .. 3 => n * 2^29 >= 100 * 2^23 /\ n * 2^29 < 100 * 2^24
  OBVIOUS
<1>3. n \in 4 .. 6 => n * 2^28 >= 100 * 2^23 /\ n * 2^28 < 100 * 2^24
  OBVIOUS
<1>4. n \in 7 .. 12 => n * 2^27 >= 100 * 2^23 /\ n * 2^27 < 100 * 2^24
  OBVIOUS
<1>5. n \in 13 .. 24 => n * 2^26 >= 100 * 2^23 /\ n * 2^26 < 100 * 2^24
  OBVIOUS
<1>6. n \in 25 .. 49 => n * 2^25 >= 100 * 2^23 /\ n * 2^25 < 100 * 2^24
  OBVIOUS
<1>7. n \in 50 .. 99 => n * 2^24 >= 100 * 2^23 /\ n * 2^24 < 100 * 2^24
  OBVIOUS
<1>8. n = 100 => n * 2^23 >= 100 * 2^23 /\ n * 2^23 < 100 * 2^24
  OBVIOUS
<1> QED
  BY <1>1, <1>2, <1>3, <1>4, <1>5, <1>6, <1>7, <1>8

\* The quotients that the exponents of single precision lead to.
Steps == {2^15, 2^16, 2^17, 2^18, 2^19, 2^20, 2^21, 2^22, 2^23, 2^24}

LEMMA StepsAreNat == ASSUME NEW d \in Steps PROVE d \in Nat /\ d > 1 /\ d % 2 = 0
BY DEF Steps

LEMMA ScaleSteps ==
    ASSUME NEW k \in 22 .. 30
    PROVE  /\ 2^k \in Nat
           /\ 2^k = 64 * 2^(k - 6) /\ 2^(k - 6) \in Steps
           /\ 2^k = 128 * 2^(k - 7) /\ 2^(k - 7) \in Steps
<1>1. CASE k = 22
  <2>1. 2^22 = 64 * 2^16 /\ 2^22 = 128 * 2^15 /\ 22 - 6 = 16 /\ 22 - 7 = 15
    OBVIOUS
  <2> QED
    BY <1>1, <2>1 DEF Steps
<1>2. CASE k = 23
  <2>1. 2^23 = 64 * 2^17 /\ 2^23 = 128 * 2^16 /\ 23 - 6 = 17 /\ 23 - 7 = 16
    OBVIOUS
  <2> QED
    BY <1>2, <2>1 DEF Steps
<1>3. CASE k = 24
  <2>1. 2^24 = 64 * 2^18 /\ 2^24 = 128 * 2^17 /\ 24 - 6 = 18 /\ 24 - 7 = 17
    OBVIOUS
  <2> QED
    BY <1>3, <2>1 DEF Steps
<1>4. CASE k = 25
  <2>1. 2^25 = 64 * 2^19 /\ 2^25 = 128 * 2^18 /\ 25 - 6 = 19 /\ 25 - 7 = 18
    OBVIOUS
  <2> QED
    BY <1>4, <2>1 DEF Steps
<1>5. CASE k = 26
  <2>1. 2^26 = 64 * 2^20 /\ 2^26 = 128 * 2^19 /\ 26 - 6 = 20 /\ 26 - 7 = 19
    OBVIOUS
  <2> QED
    BY <1>5, <2>1 DEF Steps
<1>6. CASE k = 27
  <2>1. 2^27 = 64 * 2^21 /\ 2^27 = 128 * 2^20 /\ 27 - 6 = 21 /\ 27 - 7 = 20
    OBVIOUS
  <2> QED
    BY <1>6, <2>1 DEF Steps
<1>7. CASE k = 28
  <2>1. 2^28 = 64 * 2^22 /\ 2^28 = 128 * 2^21 /\ 28 - 6 = 22 /\ 28 - 7 = 21
    OBVIOUS
  <2> QED
    BY <1>7, <2>1 DEF Steps
<1>8. CASE k = 29
  <2>1. 2^29 = 64 * 2^23 /\ 2^29 = 128 * 2^22 /\ 29 - 6 = 23 /\ 29 - 7 = 22
    OBVIOUS
  <2> QED
    BY <1>8, <2>1 DEF Steps
<1>9. CASE k = 30
  <2>1. 2^30 = 64 * 2^24 /\ 2^30 = 128 * 2^23 /\ 30 - 6 = 24 /\ 30 - 7 = 23
    OBVIOUS
  <2> QED
    BY <1>9, <2>1 DEF Steps
<1> QED
  BY <1>1, <1>2, <1>3, <1>4, <1>5, <1>6, <1>7, <1>8, <1>9

LEMMA QuotientExact ==
    ASSUME NEW n \in Nat \ {0}, NEW t \in Nat, NEW d \in Steps
    PROVE  /\ t - n * d \in {0, 1} => t \div d = n
           /\ t - n * d = -1 => t \div d = n - 1
BY DEF Steps

\* What is left of a percentage that has crossed the link.
Loses == {53, 59}

Carried(n) == IF n \in Loses THEN n - 1 ELSE n

\* Rounding the product down is too little only for two percentages.
LEMMA FractionKept ==
    ASSUME NEW n \in 1 .. 100, NEW k \in 22 .. 30, NEW m \in Nat,
           n * 2^k >= 100 * 2^23, n * 2^k < 100 * 2^24,
           2 * (100 * m - n * 2^k) \in -100 .. 100, m * 100 < 2^30, n \notin Loses
    PROVE  100 * m - n * 2^k >= -32
<1>1. ASSUME k = 30 PROVE 100 * m - n * 2^k >= -32
  <2>1. n \in 1 .. 1 /\ 2^k = 2^30
    BY <1>1, SMT
  <2> QED
    BY <2>1, SMT DEF Loses
<1>2. ASSUME k = 29 PROVE 100 * m - n * 2^k >= -32
  <2>1. n \in 2 .. 3 /\ 2^k = 2^29
    BY <1>2, SMT
  <2> QED
    BY <2>1, SMT DEF Loses
<1>3. ASSUME k = 28 PROVE 100 * m - n * 2^k >= -32
  <2>1. n \in 4 .. 6 /\ 2^k = 2^28
    BY <1>3, SMT
  <2> QED
    BY <2>1, SMT DEF Loses
<1>4. ASSUME k = 27 PROVE 100 * m - n * 2^k >= -32
  <2>1. n \in 7 .. 12 /\ 2^k = 2^27
    BY <1>4, SMT
  <2> QED
    BY <2>1, SMT DEF Loses
<1>5. ASSUME k = 26 PROVE 100 * m - n * 2^k >= -32
  <2>1. n \in 13 .. 24 /\ 2^k = 2^26
    BY <1>5, SMT
  <2> QED
    BY <2>1, SMT DEF Loses
<1>6. ASSUME k = 25 PROVE 100 * m - n * 2^k >= -32
  <2>1. n \in 25 .. 49 /\ 2^k = 2^25
    BY <1>6, SMT
  <2> QED
    BY <2>1, SMT DEF Loses
<1>7. ASSUME k = 24 PROVE 100 * m - n * 2^k >= -32
  <2>1. n \in 50 .. 99 /\ 2^k = 2^24
    BY <1>7, SMT
  <2> QED
    BY <2>1, SMT DEF Loses
<1>8. ASSUME k = 23 PROVE 100 * m - n * 2^k >= -32
  <2>1. n \in 100 .. 100 /\ 2^k = 2^23
    BY <1>8, SMT
  <2> QED
    BY <2>1, SMT DEF Loses
<1>9. k # 22
  <2>1. ASSUME k = 22 PROVE n * 2^22 >= 100 * 2^23
    BY <2>1
  <2>2. n * 2^22 < 100 * 2^23
    OBVIOUS
  <2> QED
    BY <2>1, <2>2
<1> QED
  BY <1>1, <1>2, <1>3, <1>4, <1>5, <1>6, <1>7, <1>8, <1>9

\* For those two it is.
LEMMA FractionCut ==
    ASSUME NEW n \in Loses, NEW k \in 22 .. 30, NEW m \in Nat,
           n * 2^k >= 100 * 2^23, n * 2^k < 100 * 2^24, 2 * (100 * m - n * 2^k) \in -100 .. 100
    PROVE  m * 100 < 2^30 /\ 100 * m - n * 2^k < -32
<1>1. n \in 53 .. 59
  BY DEF Loses
<1>2. k = 24
  <2>1. ASSUME k = 22 PROVE FALSE
    <3>1. n * 2^22 >= 100 * 2^23
      BY <2>1
    <3> QED
      BY <1>1, <3>1, SMT
  <2>2. ASSUME k = 23 PROVE FALSE
    <3>1. n * 2^23 >= 100 * 2^23
      BY <2>2
    <3> QED
      BY <1>1, <3>1, SMT
  <2>3. ASSUME k = 25 PROVE FALSE
    <3>1. n * 2^25 < 100 * 2^24
      BY <2>3
    <3> QED
      BY <1>1, <3>1, SMT
  <2>4. ASSUME k = 26 PROVE FALSE
    <3>1. n * 2^26 < 100 * 2^24
      BY <2>4
    <3> QED
      BY <1>1, <3>1, SMT
  <2>5. ASSUME k = 27 PROVE FALSE
    <3>1. n * 2^27 < 100 * 2^24
      BY <2>5
    <3> QED
      BY <1>1, <3>1, SMT
  <2>6. ASSUME k = 28 PROVE FALSE
    <3>1. n * 2^28 < 100 * 2^24
      BY <2>6
    <3> QED
      BY <1>1, <3>1, SMT
  <2>7. ASSUME k = 29 PROVE FALSE
    <3>1. n * 2^29 < 100 * 2^24
      BY <2>7
    <3> QED
      BY <1>1, <3>1, SMT
  <2>8. ASSUME k = 30 PROVE FALSE
    <3>1. n * 2^30 < 100 * 2^24
      BY <2>8
    <3> QED
      BY <1>1, <3>1, SMT
  <2> QED
    BY <2>1, <2>2, <2>3, <2>4, <2>5, <2>6, <2>7, <2>8
<1>3. 2^k = 2^24
  BY <1>2
<1>4. CASE n = 53
  BY <1>3, <1>4, SMT
<1>5. CASE n = 59
  BY <1>3, <1>5, SMT
<1> QED
  BY <1>4, <1>5 DEF Loses

\* From the rounded fraction m / 2^k back to hundredths.
LEMMA ProductExact ==
    ASSUME NEW n \in 1 .. 100, NEW k \in 22 .. 30, NEW m \in Nat,
           n * 2^k >= 100 * 2^23, n * 2^k < 100 * 2^24, 2 * (100 * m - n * 2^k) \in -100 .. 100
    PROVE  /\ m * 100 < 2^30 => RoundEven(m * 100, 2^6) \div 2^(k - 6) = Carried(n)
           /\ ~(m * 100 < 2^30) => RoundEven(m * 100, 2^7) \div 2^(k - 7) = Carried(n)
<1>1. n \in Nat \ {0} /\ m * 100 \in Nat
  OBVIOUS
<1>2. CASE m * 100 < 2^30
  <2> DEFINE t == RoundEven(m * 100, 64)
             d == 2^(k - 6)
             w == n * d
  <2>1. /\ t \in Nat /\ 2 * (64 * t - m * 100) \in -64 .. 64
        /\ 2 * (64 * t - m * 100) \in {-64, 64} => t % 2 = 0
    BY <1>1, RoundEvenNear
  <2>2. 2^k = 64 * d /\ d \in Steps
    BY ScaleSteps, ZenonT(60)
  <2>3. d \in Nat /\ d % 2 = 0
    BY <2>2, StepsAreNat
  <2>4. IF n \in Loses THEN 100 * m - n * 2^k < -32 ELSE 100 * m - n * 2^k >= -32
    BY <1>2, FractionKept, FractionCut
  <2>5. t = RoundEven(m * 100, 2^6)
    OBVIOUS
  <2> HIDE DEF t, d
  <2>6. w \in Nat /\ n * 2^k = 64 * w
    BY <2>2, <2>3
  <2>7. w % 2 = 0
    <3>1. PICK h \in Nat : d = 2 * h
      BY <2>3
    <3>2. w = 2 * (n * h) /\ n * h \in Nat
      BY <3>1
    <3> QED
      BY <3>2
  <2> HIDE DEF w
  <2>8. IF n \in Loses THEN t - w = -1 ELSE t - w \in {0, 1}
    BY <2>1, <2>4, <2>6, <2>7
  <2>9. t \div d = Carried(n)
    BY <1>1, <2>1, <2>2, <2>8, QuotientExact DEF w, Carried
  <2> QED
    BY <1>2, <2>5, <2>9 DEF d
<1>3. CASE ~(m * 100 < 2^30)
  <2> DEFINE t == RoundEven(m * 100, 128)
             d == 2^(k - 7)
             w == n * d
  <2>1. t \in Nat /\ 2 * (128 * t - m * 100) \in -128 .. 128
    BY <1>1, RoundEvenNear
  <2>2. 2^k = 128 * d /\ d \in Steps
    BY ScaleSteps
  <2>3. d \in Nat
    BY <2>2, StepsAreNat
  <2>5. t = RoundEven(m * 100, 2^7)
    OBVIOUS
  <2> HIDE DEF t, d
  <2>6. w \in Nat /\ n * 2^k = 128 * w
    BY <2>2, <2>3
  <2> HIDE DEF w
  <2>8. t - w \in {0, 1}
    BY <2>1, <2>6
  <2>9. t \div d = Carried(n)
    <3>1. n \notin Loses
      BY <1>3, FractionCut
    <3> QED
      BY <1>1, <2>1, <2>2, <2>8, <3>1, QuotientExact DEF w, Carried
  <2> QED
    BY <1>3, <2>5, <2>9 DEF d
<1> QED
  BY <1>2, <1>3

\* PACK_FAN_PWM loses one of 53 and of 59, and nothing of any other percentage.
THEOREM ByteExact ==
    ASSUME NEW n \in 0 .. 100
    PROVE  Packed[n] = Carried(n)
<1>1. n \in Byte
  BY DEF Byte
<1>2. CASE n = 0
  BY <1>1, <1>2 DEF Packed, Carried, Loses
<1>3. CASE n # 0
  <2> DEFINE e == CHOOSE k \in 22 .. 30 : n * 2^k >= 100 * 2^23 /\ n * 2^k < 100 * 2^24
             m == RoundEven(n * 2^e, 100)
             s == IF m * 100 < 2^30 THEN 6 ELSE 7
  <2>1. e \in 22 .. 30 /\ n * 2^e >= 100 * 2^23 /\ n * 2^e < 100 * 2^24
    <3>1. n \in 1 .. 100
      BY <1>3
    <3>2. \E k \in 22 .. 30 : n * 2^k >= 100 * 2^23 /\ n * 2^k < 100 * 2^24
      BY <3>1, Scale
    <3> QED
      BY <3>2
  <2>2. Packed[n] = RoundEven(m * 100, 2^s) \div 2^(e - s)
    BY <1>1, <1>3, Zenon DEF Packed
  <2> HIDE DEF e
  <2>3. n \in Nat /\ 2^e \in Nat
    BY <2>1, ScaleSteps
  <2>4. n * 2^e \in Nat /\ 100 \in {100, 64, 128}
    BY <2>3
  <2>5. m \in Nat /\ 2 * (100 * m - n * 2^e) \in -100 .. 100
    BY <2>4, RoundEvenNear, SMTT(30)
  <2> HIDE DEF m
  <2>6. /\ m * 100 < 2^30 => RoundEven(m * 100, 2^6) \div 2^(e - 6) = Carried(n)
        /\ ~(m * 100 < 2^30) => RoundEven(m * 100, 2^7) \div 2^(e - 7) = Carried(n)
    <3>1. n \in 1 .. 100
      BY <1>3
    <3> QED
      BY <1>3, <2>1, <2>5, <3>1, ProductExact, ZenonT(60)
  <2>7. Packed[n] = Carried(n)
    BY <2>2, <2>6, Zenon
  <2> QED
    BY <1>3, <2>7
<1> QED
  BY <1>2, <1>3

LEMMA CarriedAgain ==
    ASSUME NEW n \in 0 .. 100
    PROVE  Carried(n) \in 0 .. 100 /\ Carried(Carried(n)) = Carried(n) /\ Carried(n) \in {n - 1, n}
BY DEF Carried, Loses

-----------------------------------------------------------------------------
(* What picod's threads may ask *)

Percent == 0 .. 100
Word == 0 .. 65535

FanOrders ==
    [kind : {"fan"}, write : BOOLEAN, pct : UNION {[F -> Percent] : F \in SUBSET Fans}]

WatchdogRequests ==
    [kind : {"watchdog"}, write : BOOLEAN, enable : BOOLEAN, timeout : Word, retries : Word]

\* No request sets a timeout of less than a second.
WatchdogOrders == {r \in WatchdogRequests : r.write => r.timeout >= 1}

Orders == FanOrders \cup WatchdogOrders
Requests == {Version} \cup Orders

LEMMA SingleIsSeq == ASSUME NEW S, NEW x \in S PROVE <<x>> \in Seq(S)
OBVIOUS

LEMMA PairIsSeq == ASSUME NEW S, NEW x \in S, NEW y \in S PROVE <<x, y>> \in Seq(S)
OBVIOUS

LEMMA OrdersAreRequests == ASSUME NEW q \in Seq(Orders) PROVE q \in Seq(Requests)
BY DEF Requests

LEMMA WordIs == \A n : n \in Word <=> n \in Int /\ 0 <= n /\ n <= 65535
<1>1. PICK m \in Nat : m = 65535
  BY SMT
<1>2. Word = 0 .. m
  BY <1>1, SMT DEF Word
<1>3. \A n : n \in 0 .. m <=> n \in Int /\ 0 <= n /\ n <= m
  BY SMT
<1>4. \A n : n \in Word <=> n \in Int /\ 0 <= n /\ n <= m
  BY <1>2, <1>3, Zenon
<1> QED
  BY <1>1, <1>4, SMT

LEMMA SanitizedArms == ASSUME NEW n \in Int PROVE Sanitized(n) \in Word /\ Sanitized(n) >= 1
<1>1. Sanitized(n) \in Int /\ Sanitized(n) >= 1 /\ Sanitized(n) <= 65535
  BY SMT DEF Sanitized
<1> QED
  BY <1>1, WordIs, SMT

LEMMA NarrowIsWord == ASSUME NEW n \in Int PROVE Narrow(n) \in Word
<1>1. 2^16 = 65536
  BY SMT
<1>2. n % 65536 \in Int /\ 0 <= n % 65536 /\ n % 65536 <= 65535
  BY SMT
<1>3. Narrow(n) \in Int /\ 0 <= Narrow(n) /\ Narrow(n) <= 65535
  BY <1>1, <1>2, SMT DEF Narrow
<1> QED
  BY <1>3, WordIs, SMT

\* The limit of 65535 comes before the 16 bits when a file is read, so they cut nothing.
LEMMA NarrowKeeps == ASSUME NEW n \in Int PROVE Narrow(Sanitized(n)) >= 1
<1>1. 2^16 = 65536
  BY SMT
<1> QED
  BY <1>1, SMT DEF Narrow, Sanitized

LEMMA WordIsInt == ASSUME NEW n \in Word PROVE n \in Int /\ n >= 0
BY WordIs, SMT

LEMMA CappedIsPercent == ASSUME NEW n \in Int PROVE Capped(n) \in Percent
BY DEF Capped, Percent

LEMMA ClampedIsPercent == ASSUME NEW n \in Int PROVE Clamped(n) \in Percent
BY DEF Clamped, Percent

LEMMA FanAsks ==
    ASSUME NEW F \in SUBSET Fans, NEW q \in [F -> Percent], NEW w \in BOOLEAN
    PROVE  FanRequest(w, q) \in Orders
<1>1. q \in UNION {[G -> Percent] : G \in SUBSET Fans}
  OBVIOUS
<1> QED
  BY <1>1 DEF FanRequest, FanOrders, Orders

LEMMA WatchdogAsks ==
    ASSUME NEW w \in BOOLEAN, NEW e \in BOOLEAN, NEW n \in Word, NEW r \in Word, w => n >= 1
    PROVE  WatchdogRequest(w, e, n, r) \in Orders
BY DEF WatchdogRequest, WatchdogRequests, WatchdogOrders, Orders

LEMMA WatchdogReadAsks == WatchdogRequest(FALSE, FALSE, 0, 0) \in Orders
<1> DEFINE no == FALSE
<1>1. no \in BOOLEAN /\ (no => 0 >= 1)
  BY Zenon
<1>2. 0 \in Word
  BY DEF Word
<1> HIDE DEF no
<1>3. WatchdogRequest(no, no, 0, 0) \in Orders
  BY <1>1, <1>2, WatchdogAsks
<1> QED
  BY <1>3 DEF no

\* init_pico asks for the version and then gives two orders.
LEMMA StartUpAsks ==
    ASSUME NEW c \in Configs
    PROVE  /\ StartUp(c) \in Seq(Requests) /\ StartUp(c) # <<>>
           /\ Head(StartUp(c)) = Version /\ Tail(StartUp(c)) \in Seq(Orders)
<1> DEFINE d == Sanitize(c)
<1>1. c \in [pwm : Int, enable : BOOLEAN, timeout : Nat, retries : Nat]
  BY SettingsAssumption
<1>2. d.pwm = Clamped(c.pwm) /\ d.timeout = Sanitized(c.timeout) /\ d.retries = c.retries
  BY <1>1 DEF Sanitize
<1>3. d.enable \in BOOLEAN
  BY <1>1, Zenon DEF Sanitize
<1>4. InitFanPwm(d) \in Orders
  <2>1. [f \in Fans |-> d.pwm] \in [Fans -> Percent]
    BY <1>1, <1>2, ClampedIsPercent
  <2>2. TRUE \in BOOLEAN
    BY Zenon
  <2> QED
    BY <2>1, <2>2, FanAsks DEF InitFanPwm
<1>5. InitWatchdog(d) \in Orders
  <2>1. c.timeout \in Int /\ c.retries \in Int
    BY <1>1
  <2>2. Sanitized(c.timeout) \in Int
    BY <2>1, SanitizedArms, WordIsInt
  <2>3. Narrow(Sanitized(c.timeout)) \in Word /\ Narrow(Sanitized(c.timeout)) >= 1
    BY <2>1, <2>2, NarrowIsWord, NarrowKeeps
  <2>4. Narrow(d.retries) \in Word
    BY <1>2, <2>1, NarrowIsWord
  <2> QED
    BY <1>2, <1>3, <2>3, <2>4, WatchdogAsks, Zenon DEF InitWatchdog
<1>6. StartUp(c) = <<Version, InitFanPwm(d), InitWatchdog(d)>>
  BY DEF StartUp
<1> HIDE DEF d
<1> QED
  BY <1>4, <1>5, <1>6 DEF Requests

LEMMA HandlersAsk == ASSUME NEW h \in Handlers PROVE h \in Seq(Orders)
<1>1. ASSUME NEW f \in Fans, NEW p \in AskedPercents PROVE SetFan(f, p) \in Orders
  <2>1. Capped(p) \in Percent
    BY SettingsAssumption, CappedIsPercent
  <2>2. [g \in {f} |-> Capped(p)] \in [{f} -> Percent]
    BY <2>1
  <2>3. TRUE \in BOOLEAN
    BY Zenon
  <2> QED
    BY <2>2, <2>3, FanAsks DEF SetFan
<1>2. ASSUME NEW f \in Fans PROVE ReadFan(f) \in Orders
  <2>1. [g \in {f} |-> 0] \in [{f} -> Percent]
    BY DEF Percent
  <2>2. FALSE \in BOOLEAN
    BY Zenon
  <2> QED
    BY <2>1, <2>2, FanAsks DEF ReadFan
<1>3. ASSUME NEW s \in AskedWatchdog PROVE SetWatchdog(s) \in Orders
  <2>1. s \in [enable : BOOLEAN, timeout : Int, retries : Int]
    BY SettingsAssumption
  <2>2. Narrow(s.timeout) \in Word /\ Narrow(s.timeout) \in Int /\ Narrow(s.retries) \in Word
    BY <2>1, NarrowIsWord, WordIsInt
  <2>3. Sanitized(Narrow(s.timeout)) \in Word /\ Sanitized(Narrow(s.timeout)) >= 1
    BY <2>2, SanitizedArms
  <2>4. TRUE \in BOOLEAN /\ s.enable \in BOOLEAN
    BY <2>1, Zenon
  <2> QED
    BY <2>2, <2>3, <2>4, WatchdogAsks, Zenon DEF SetWatchdog
<1>4. Status \in Seq(Orders)
  <2>1. [f \in Fans |-> 0] \in [Fans -> Percent]
    BY DEF Percent
  <2>2. FALSE \in BOOLEAN
    BY Zenon
  <2>3. FanRequest(FALSE, [f \in Fans |-> 0]) \in Orders
    BY <2>1, <2>2, FanAsks
  <2> QED
    BY <2>3, WatchdogReadAsks, PairIsSeq DEF Status
<1> DEFINE sets == {<<SetFan(f, p)>> : f \in Fans, p \in AskedPercents}
           reads == {<<ReadFan(f)>> : f \in Fans}
           dogs == {<<SetWatchdog(s)>> : s \in AskedWatchdog}
<1>5. ASSUME h \in sets PROVE h \in Seq(Orders)
  <2>1. PICK f \in Fans, p \in AskedPercents : h = <<SetFan(f, p)>>
    BY <1>5
  <2> QED
    BY <2>1, <1>1, SingleIsSeq
<1>6. ASSUME h \in reads PROVE h \in Seq(Orders)
  <2>1. PICK f \in Fans : h = <<ReadFan(f)>>
    BY <1>6
  <2> QED
    BY <2>1, <1>2, SingleIsSeq
<1>7. ASSUME h \in dogs PROVE h \in Seq(Orders)
  <2>1. PICK s \in AskedWatchdog : h = <<SetWatchdog(s)>>
    BY <1>7
  <2> QED
    BY <2>1, <1>3, SingleIsSeq
<1>8. Handlers = sets \cup reads \cup dogs \cup {Status}
  BY DEF Handlers
<1> HIDE DEF sets, reads, dogs
<1> QED
  BY <1>4, <1>5, <1>6, <1>7, <1>8

LEMMA TurnOffAsks == <<TurnOffFans>> \in Seq(Orders)
<1>1. [f \in Fans |-> 0] \in [Fans -> Percent]
  BY DEF Percent
<1>2. TRUE \in BOOLEAN
  BY Zenon
<1>3. TurnOffFans \in Orders
  BY <1>1, <1>2, FanAsks DEF TurnOffFans
<1> QED
  BY <1>3, SingleIsSeq

-----------------------------------------------------------------------------
(* The Pico's settings *)

LEMMA WatchdogFields == Watchdogs = [enabled : BOOLEAN, timeout : Word, retries : Word]
BY DEF Watchdogs, Word

\* A fan has what its last write has left of the percentage, whatever was read, lost or
\* restarted in between.
PicoInv ==
    /\ asked \in [Fans -> Percent]
    /\ duty = [f \in Fans |-> Carried(asked[f])]
    /\ wd \in Watchdogs /\ wd.timeout >= 1
    /\ dataIndex \in Nat /\ (dataIndex = 0 \/ dataIndex < VersionLen)

LEMMA DutyIsPercent == ASSUME PicoInv PROVE duty \in [Fans -> Percent]
<1>1. /\ \A f \in Fans : asked[f] \in Percent
      /\ duty = [f \in Fans |-> Carried(asked[f])]
  BY DEF PicoInv
<1>2. \A f \in Fans : Carried(asked[f]) \in Percent
  BY <1>1, CarriedAgain, Zenon DEF Percent
<1> QED
  BY <1>1, <1>2

\* What a write of a fan leaves.
LEMMA ByteOfOrder ==
    ASSUME NEW r \in FanOrders, NEW f \in DOMAIN r.pct
    PROVE  /\ f \in Fans /\ r.pct[f] \in Percent
           /\ Bytes(r)[f] = Carried(r.pct[f])
           /\ Clamped(Bytes(r)[f]) = Carried(r.pct[f])
<1>1. PICK F \in SUBSET Fans : r.pct \in [F -> Percent]
  BY DEF FanOrders
<1>2. f \in Fans /\ r.pct[f] \in Percent
  BY <1>1
<1>3. Packed[r.pct[f]] = Carried(r.pct[f])
  BY <1>2, ByteExact DEF Percent
<1>4. Bytes(r)[f] = Packed[r.pct[f]]
  BY <1>2 DEF Bytes
<1>5. Carried(r.pct[f]) \in Percent
  BY <1>2, CarriedAgain DEF Percent
<1> QED
  BY <1>2, <1>3, <1>4, <1>5 DEF Clamped, Percent

LEMMA FanExecuted ==
    ASSUME PicoInv, NEW r \in FanOrders, PktFanPwm(r) PROVE PicoInv'
<1>1. UNCHANGED <<wd, dataIndex>>
  BY DEF PktFanPwm
<1>2. asked' \in [Fans -> Percent] /\ duty' = [f \in Fans |-> Carried(asked'[f])]
  <2>1. CASE r.write
    <3>1. asked' = [f \in Fans |-> IF f \in DOMAIN r.pct THEN r.pct[f] ELSE asked[f]]
      BY <2>1 DEF PktFanPwm
    <3>2. duty' = [f \in Fans |-> IF f \in DOMAIN r.pct THEN Clamped(Bytes(r)[f]) ELSE duty[f]]
      BY <2>1 DEF PktFanPwm, SetDuty
    <3>3. \A f \in Fans : asked'[f] \in Percent
      BY <3>1, ByteOfOrder DEF PicoInv
    <3>4. \A f \in Fans : duty'[f] = Carried(asked'[f])
      BY <3>1, <3>2, ByteOfOrder DEF PicoInv
    <3> QED
      BY <3>1, <3>2, <3>3, <3>4
  <2>2. CASE ~r.write
    BY <2>2 DEF PktFanPwm, PicoInv
  <2> QED
    BY <2>1, <2>2
<1> QED
  BY <1>1, <1>2 DEF PicoInv

LEMMA WatchdogExecuted ==
    ASSUME PicoInv, NEW r \in WatchdogOrders, PktWatchdog(r) PROVE PicoInv'
<1>1. UNCHANGED <<duty, dataIndex, asked>>
  BY DEF PktWatchdog
<1>2. /\ r.write \in BOOLEAN /\ r.enable \in BOOLEAN
      /\ r.timeout \in Word /\ r.retries \in Word /\ (r.write => r.timeout >= 1)
  BY DEF WatchdogOrders, WatchdogRequests
<1>3. wd.timeout \in Word /\ wd.retries \in Word /\ wd.timeout >= 1
  BY WatchdogFields DEF PicoInv
<1>4. wd.enabled \in BOOLEAN
  BY WatchdogFields DEF PicoInv
<1>5. PICK e \in {r.enable, wd.enabled} :
        wd' = [enabled |-> e, timeout |-> IF r.write THEN r.timeout ELSE wd.timeout,
               retries |-> IF r.write THEN r.retries ELSE wd.retries]
  BY DEF PktWatchdog
<1>6. e \in BOOLEAN
  BY <1>2, <1>4, <1>5, Zenon
<1>7. wd' \in Watchdogs
  BY <1>2, <1>3, <1>5, <1>6, WatchdogFields
<1>8. wd'.timeout >= 1
  BY <1>2, <1>3, <1>5
<1> QED
  BY <1>1, <1>7, <1>8 DEF PicoInv

LEMMA VersionExecuted == ASSUME PicoInv, PktVersion PROVE PicoInv'
<1>1. UNCHANGED <<duty, wd, asked>>
  BY DEF PktVersion
<1>2. VersionLen \in Nat /\ PieceLen \in Nat \ {0}
  BY SettingsAssumption
<1>3. dataIndex' \in Nat /\ (dataIndex' = 0 \/ dataIndex' < VersionLen)
  BY <1>2 DEF PktVersion, NextIndex, PicoInv
<1> QED
  BY <1>1, <1>3 DEF PicoInv

\* The three kinds do not share a request.
LEMMA KindOfRequest ==
    ASSUME NEW r \in Requests
    PROVE  /\ r.kind = "fan" => r \in FanOrders
           /\ r.kind = "watchdog" => r \in WatchdogOrders
           /\ r.kind = "version" <=> r \notin Orders
           /\ r.kind \in Kinds /\ r # None
BY DEF Requests, Orders, FanOrders, WatchdogOrders, WatchdogRequests, Version, Kinds, None

LEMMA RequestExecuted ==
    ASSUME PicoInv, NEW r \in Requests, Execute(r) \/ RequestLost PROVE PicoInv'
<1>1. CASE RequestLost
  BY <1>1 DEF RequestLost, picoVars, PicoInv
<1>2. CASE Execute(r)
  BY <1>2, KindOfRequest, FanExecuted, WatchdogExecuted, VersionExecuted DEF Execute
<1> QED
  BY <1>1, <1>2

LEMMA WordLess == ASSUME NEW n \in Word, n > 0 PROVE n - 1 \in Word
<1>1. n \in Int /\ 0 <= n /\ n <= 65535
  BY WordIs, SMT
<1>2. n - 1 \in Int /\ 0 <= n - 1 /\ n - 1 <= 65535
  BY <1>1, SMT
<1> QED
  BY <1>2, WordIs, SMT

LEMMA WatchdogTakesRetry ==
    ASSUME PicoInv, WatchdogResets PROVE PicoInv'
<1>1. UNCHANGED <<duty, dataIndex, asked>>
  BY DEF WatchdogResets, StartPicod
<1>2. wd.timeout \in Word /\ wd.retries \in Word /\ wd.timeout >= 1
  BY WatchdogFields DEF PicoInv
<1>3. wd.enabled \in BOOLEAN /\ FALSE \in BOOLEAN
  BY WatchdogFields, Zenon DEF PicoInv
<1>4. wd = [enabled |-> wd.enabled, timeout |-> wd.timeout, retries |-> wd.retries]
  BY WatchdogFields DEF PicoInv
<1>5. CASE wd.retries > 0
  <2>1. wd' = [enabled |-> wd.enabled, timeout |-> wd.timeout, retries |-> wd.retries - 1]
    BY <1>4, <1>5 DEF WatchdogResets
  <2>2. wd.retries - 1 \in Word
    BY <1>2, <1>5, WordLess
  <2>3. wd' \in Watchdogs
    BY <1>2, <1>3, <2>1, <2>2, WatchdogFields
  <2> QED
    BY <1>1, <1>2, <2>1, <2>3 DEF PicoInv
<1>6. CASE ~(wd.retries > 0)
  <2> DEFINE no == FALSE
  <2>1. wd' = [enabled |-> no, timeout |-> wd.timeout, retries |-> wd.retries]
    BY <1>4, <1>6 DEF WatchdogResets
  <2>2. no \in BOOLEAN
    BY <1>3
  <2> HIDE DEF no
  <2>3. wd' \in Watchdogs
    BY <1>2, <2>1, <2>2, WatchdogFields
  <2> QED
    BY <1>1, <1>2, <2>1, <2>3 DEF PicoInv
<1> QED
  BY <1>5, <1>6

-----------------------------------------------------------------------------
(* Who asks what *)

\* Only main asks for the version, and goes on to give orders.
AskInv ==
    /\ todo \in [Threads -> Seq(Requests)]
    /\ want \in [Threads -> Requests \cup {None}]
    /\ \A t \in Threads : todo[t] # <<>> => Tail(todo[t]) \in Seq(Orders)
    /\ \A t \in Threads : t # Main => todo[t] \in Seq(Orders) /\ want[t] \in Orders \cup {None}
    /\ want[Main] # None => todo[Main] \in Seq(Orders)

LEMMA StartUpIsAsked ==
    ASSUME NEW c \in Configs,
           todo' = [t \in Threads |-> IF t = Main THEN StartUp(c) ELSE <<>>],
           want' = [t \in Threads |-> None]
    PROVE  AskInv'
<1>1. /\ StartUp(c) \in Seq(Requests) /\ StartUp(c) # <<>>
      /\ Head(StartUp(c)) = Version /\ Tail(StartUp(c)) \in Seq(Orders)
  BY StartUpAsks
<1>2. <<>> \in Seq(Requests) /\ <<>> \in Seq(Orders) /\ Main \in Threads
  BY EmptySeq DEF Threads
<1>3. None # Version
  BY DEF None, Version
<1> QED
  BY <1>1, <1>2, <1>3 DEF AskInv

LEMMA BeginAsks ==
    ASSUME AskInv, NEW t \in Threads, NEW h \in Seq(Orders), want[t] = None,
           todo' = [todo EXCEPT ![t] = h], want' = want
    PROVE  AskInv'
<1>1. h \in Seq(Requests) /\ (h # <<>> => Tail(h) \in Seq(Orders))
  BY OrdersAreRequests
<1>2. None # Version
  BY DEF None, Version
<1> QED
  BY <1>1, <1>2 DEF AskInv

LEMMA SendAsks ==
    ASSUME AskInv, NEW t \in Threads, Send(t) PROVE AskInv'
<1> DEFINE r == Head(todo[t])
<1>1. /\ todo[t] \in Seq(Requests) /\ todo[t] # <<>> /\ Tail(todo[t]) \in Seq(Orders)
      /\ want' = [want EXCEPT ![t] = r] /\ todo' = [todo EXCEPT ![t] = Tail(@)]
  BY DEF Send, AskInv
<1>2. r \in Requests /\ Tail(todo[t]) \in Seq(Requests)
  BY <1>1
<1>3. Tail(todo[t]) # <<>> => Tail(Tail(todo[t])) \in Seq(Orders)
  BY <1>1
<1>4. t # Main => r \in Orders
  BY <1>1 DEF AskInv
<1> HIDE DEF r
<1> QED
  BY <1>1, <1>2, <1>3, <1>4 DEF AskInv

LEMMA PopAsks ==
    ASSUME AskInv, NEW t \in Threads, Pop(t), NEW a, todo' = [todo EXCEPT ![t] = Rest(t, a)],
           a.kind = want[t].kind
    PROVE  AskInv'
<1>1. want[t] # None /\ want' = [want EXCEPT ![t] = None]
  BY DEF Pop, Settled
<1>2. want[t] \in Requests /\ None # Version
  BY <1>1 DEF AskInv, None, Version
<1>3. CASE a.kind = "version" /\ ~a.eop
  <2>1. want[t] \notin Orders
    BY <1>2, <1>3, KindOfRequest
  <2>2. want[t] = Version /\ t = Main
    BY <1>1, <1>2, <2>1 DEF Requests, AskInv
  <2>3. Rest(t, a) = <<Version>> \o todo[Main] /\ todo[Main] \in Seq(Orders)
    BY <1>3, <2>2 DEF Rest, AskInv
  <2>4. /\ Rest(t, a) \in Seq(Requests) /\ Rest(t, a) # <<>>
        /\ Tail(Rest(t, a)) = todo[Main]
    <3>1. <<Version>> \in Seq(Requests) /\ todo[Main] \in Seq(Requests)
      BY <2>3, OrdersAreRequests DEF Requests
    <3> QED
      BY <2>3, <3>1
  <2> QED
    BY <1>1, <1>2, <2>2, <2>3, <2>4 DEF AskInv
<1>4. CASE ~(a.kind = "version" /\ ~a.eop)
  <2>1. Rest(t, a) = todo[t]
    BY <1>4 DEF Rest
  <2>2. todo' = todo
    BY <2>1 DEF AskInv
  <2> QED
    BY <1>1, <1>2, <2>2 DEF AskInv
<1> QED
  BY <1>3, <1>4

LEMMA GiveUpAsks == ASSUME AskInv, NEW t \in Threads, GiveUp(t) PROVE AskInv'
<1>1. None # Version /\ want' = [want EXCEPT ![t] = None] /\ todo' = todo
  BY DEF None, Version, GiveUp, Settled
<1> QED
  BY <1>1 DEF AskInv

LEMMA RestartAsks == ASSUME StartPicod PROVE AskInv'
<1>1. PICK c \in Configs : todo' = [t \in Threads |-> IF t = Main THEN StartUp(c) ELSE <<>>]
  BY DEF StartPicod
<1> QED
  BY <1>1, StartUpIsAsked DEF StartPicod

-----------------------------------------------------------------------------
(* Answers on their way *)

FanAnswers ==
    [kind : {"fan"}, write : BOOLEAN, success : BOOLEAN, pct : [Fans -> Percent]]

WatchdogAnswers ==
    [kind : {"watchdog"}, write : BOOLEAN, success : BOOLEAN,
     enabled : BOOLEAN, timeout : Word, retries : Word]

VersionAnswers ==
    [kind : {"version"}, sop : BOOLEAN, eop : BOOLEAN, piece : Seq(0 .. VersionLen)]

Answers == FanAnswers \cup WatchdogAnswers \cup VersionAnswers

LEMMA KindOfAnswer ==
    ASSUME NEW a \in Answers
    PROVE  a.kind \in Kinds /\ (a.kind = "version" => a.piece \in Seq(0 .. VersionLen))
BY DEF Answers, FanAnswers, WatchdogAnswers, VersionAnswers, Kinds

Settings == {None} \cup Duties \cup Watchdogs

AnswerInv ==
    /\ coming \in Seq(Answers)
    /\ pktQueues_ \in [Kinds -> Seq(Answers)]
    /\ \A k \in Kinds : \A i \in DOMAIN pktQueues_[k] : pktQueues_[k][i].kind = k
    /\ picoVersion \in Seq(0 .. VersionLen)
    /\ first \in 0 .. VersionLen
    /\ left \in [Threads -> Settings]
    /\ mixed \in SUBSET Kinds

\* What the Pico answers, and that a fan's report is what the fan has.
LEMMA FanAnswered ==
    ASSUME PicoInv, NEW r \in FanOrders, PktFanPwm(r)
    PROVE  \E a \in FanAnswers :
             /\ coming' = Append(coming, a)
             /\ \A f \in DOMAIN r.pct : Packed[a.pct[f]] = duty'[f]
<1> DEFINE yes == TRUE
           p == [f \in Fans |-> Echoed(r, f)]
           a == [kind |-> "fan", write |-> r.write, success |-> yes, pct |-> p]
<1>1. r.write \in BOOLEAN
  BY Zenon DEF FanOrders
<1>2. yes \in BOOLEAN
  BY Zenon
<1>3. \A n \in Percent : Packed[n] = Carried(n) /\ Carried(n) \in Percent
  BY ByteExact, CarriedAgain DEF Percent
<1>4. \A f \in Fans : f \notin DOMAIN r.pct => Echoed(r, f) = 0
  <2>1. ASSUME NEW f \in Fans, f \notin DOMAIN r.pct PROVE Echoed(r, f) = 0
    <3>1. Bytes(r)[f] = 0
      BY <2>1 DEF Bytes
    <3>2. Packed[0] = 0
      BY ByteExact DEF Carried, Loses
    <3> QED
      BY <2>1, <3>1, <3>2 DEF Echoed
  <2> QED
    BY <2>1
<1>5. \A f \in DOMAIN r.pct : duty'[f] \in Percent /\ Echoed(r, f) = Carried(duty'[f])
                             /\ Carried(duty'[f]) = duty'[f] /\ f \in Fans
  <2> SUFFICES ASSUME NEW f \in DOMAIN r.pct
               PROVE  duty'[f] \in Percent /\ Echoed(r, f) = Carried(duty'[f])
                      /\ Carried(duty'[f]) = duty'[f] /\ f \in Fans
    OBVIOUS
  <2>1. /\ f \in Fans /\ r.pct[f] \in Percent /\ Bytes(r)[f] = Carried(r.pct[f])
        /\ Clamped(Bytes(r)[f]) = Carried(r.pct[f])
    BY ByteOfOrder
  <2>2. CASE r.write
    <3>1. duty'[f] = Carried(r.pct[f])
      BY <2>1, <2>2 DEF PktFanPwm, SetDuty
    <3>2. Carried(r.pct[f]) \in Percent /\ Carried(Carried(r.pct[f])) = Carried(r.pct[f])
      BY <2>1, CarriedAgain DEF Percent
    <3>3. Echoed(r, f) = Packed[Bytes(r)[f]]
      BY <2>2 DEF Echoed
    <3> QED
      BY <2>1, <3>1, <3>2, <3>3, <1>3
  <2>3. CASE ~r.write
    <3>1. duty' = duty /\ Echoed(r, f) = Packed[duty[f]]
      BY <2>3 DEF PktFanPwm, Echoed
    <3>2. duty[f] = Carried(asked[f]) /\ asked[f] \in Percent
      BY <2>1 DEF PicoInv
    <3>3. Carried(asked[f]) \in Percent /\ Carried(Carried(asked[f])) = Carried(asked[f])
      BY <3>2, CarriedAgain DEF Percent
    <3> QED
      BY <2>1, <3>1, <3>2, <3>3, <1>3
  <2> QED
    BY <2>2, <2>3
<1>6. \A f \in Fans : Echoed(r, f) \in Percent
  <2>1. 0 \in Percent
    BY DEF Percent
  <2> QED
    BY <1>4, <1>5, <2>1
<1>7. p \in [Fans -> Percent]
  BY <1>6
<1>8. coming' = Append(coming, a)
  BY DEF PktFanPwm, Answer
<1>9. \A f \in DOMAIN r.pct : Packed[a.pct[f]] = duty'[f]
  BY <1>3, <1>5
<1> HIDE DEF yes, p
<1>10. a \in FanAnswers
  BY <1>1, <1>2, <1>7 DEF FanAnswers
<1> QED
  BY <1>8, <1>9, <1>10

\* The watchdog's report is what it has, also when it could not be set.
LEMMA WatchdogAnswered ==
    ASSUME PicoInv, PicoInv', NEW r \in WatchdogOrders, PktWatchdog(r)
    PROVE  \E a \in WatchdogAnswers :
             /\ coming' = Append(coming, a)
             /\ wd' = [enabled |-> a.enabled, timeout |-> a.timeout, retries |-> a.retries]
<1>1. r.write \in BOOLEAN
  BY Zenon DEF WatchdogOrders, WatchdogRequests
<1>2. PICK ok \in BOOLEAN : coming' = Append(coming, WatchdogReport(r.write, ok, wd'))
  <2>1. ASSUME NEW S, S = BOOLEAN \/ S = {TRUE}, NEW ok \in S PROVE ok \in BOOLEAN
    BY <2>1, Zenon
  <2> QED
    BY <2>1 DEF PktWatchdog, Answer
<1>3. wd' \in [enabled : BOOLEAN, timeout : Word, retries : Word]
  BY WatchdogFields DEF PicoInv
<1> DEFINE a == WatchdogReport(r.write, ok, wd')
<1>4. a \in WatchdogAnswers
  BY <1>1, <1>3 DEF WatchdogReport, WatchdogAnswers
<1>5. wd' = [enabled |-> a.enabled, timeout |-> a.timeout, retries |-> a.retries]
  BY <1>3 DEF WatchdogReport
<1> QED
  BY <1>2, <1>4, <1>5

LEMMA PieceIsSeq ==
    ASSUME NEW m \in Nat, NEW n \in Int, NEW d \in Nat, n \in Nat, d + n <= m
    PROVE  /\ [i \in 1 .. n |-> d + i - 1] \in Seq(0 .. m)
           /\ Len([i \in 1 .. n |-> d + i - 1]) = n
OBVIOUS

\* A piece goes on where the Pico stands, and ends where it then stands.
LEMMA VersionAnswered ==
    ASSUME PicoInv, PktVersion
    PROVE  \E a \in VersionAnswers :
             /\ coming' = Append(coming, a)
             /\ a.sop => dataIndex = 0
             /\ \A i \in DOMAIN a.piece : a.piece[i] = dataIndex + i - 1
             /\ ~a.eop => dataIndex' = dataIndex + Len(a.piece)
<1> DEFINE end == IF dataIndex + PieceLen < VersionLen THEN dataIndex + PieceLen ELSE VersionLen
           sop == (dataIndex = 0)
           eop == (end = VersionLen)
           p == [i \in 1 .. end - dataIndex |-> dataIndex + i - 1]
           a == [kind |-> "version", sop |-> sop, eop |-> eop, piece |-> p]
<1>1. /\ coming' = Append(coming, a)
      /\ dataIndex' = IF end = VersionLen THEN 0 ELSE end
  BY DEF PktVersion, NextIndex, Answer
<1>2. VersionLen \in Nat /\ PieceLen \in Nat \ {0} /\ dataIndex \in Nat /\ dataIndex <= VersionLen
  BY SettingsAssumption DEF PicoInv
<1>3. end - dataIndex \in Nat /\ end \in Nat /\ end <= VersionLen
  BY <1>2
<1>4. p \in Seq(0 .. VersionLen) /\ Len(p) = end - dataIndex
  BY <1>2, <1>3, PieceIsSeq
<1>5. sop \in BOOLEAN /\ eop \in BOOLEAN
  BY Zenon
<1>6. eop \/ dataIndex' = dataIndex + Len(p)
  BY <1>1, <1>2, <1>3, <1>4
<1>7. \A i \in DOMAIN p : p[i] = dataIndex + i - 1
  OBVIOUS
<1>8. sop => dataIndex = 0
  OBVIOUS
<1> HIDE DEF sop, eop, p
<1>9. a \in VersionAnswers
  BY <1>4, <1>5 DEF VersionAnswers
<1>10. a.sop = sop /\ a.eop = eop /\ a.piece = p
  BY Zenon
<1> QED
  BY <1>1, <1>6, <1>7, <1>8, <1>9, <1>10, Zenon

\* Answers of kind k that may yet be taken.
OnWay(k) ==
    {coming[i] : i \in {j \in DOMAIN coming : coming[j].kind = k}}
    \cup {pktQueues_[k][i] : i \in DOMAIN pktQueues_[k]}

LEMMA TailOf ==
    ASSUME NEW S, NEW q \in Seq(S), q # <<>>
    PROVE  /\ Tail(q) \in Seq(S) /\ Head(q) \in S /\ Head(q) = q[1]
           /\ 1 \in DOMAIN q
           /\ \A i \in DOMAIN Tail(q) : i + 1 \in DOMAIN q /\ Tail(q)[i] = q[i + 1]
OBVIOUS

LEMMA AppendOf ==
    ASSUME NEW S, NEW q \in Seq(S), NEW x \in S
    PROVE  /\ Append(q, x) \in Seq(S)
           /\ DOMAIN Append(q, x) = DOMAIN q \cup {Len(q) + 1}
           /\ \A i \in DOMAIN q : Append(q, x)[i] = q[i]
           /\ Append(q, x)[Len(q) + 1] = x
OBVIOUS

\* What a request may add, by its kind.
LEMMA SendAnswers ==
    ASSUME PicoInv, PicoInv', AskInv, NEW t \in Threads, Send(t)
    PROVE  /\ want[t] = None /\ want' = [want EXCEPT ![t] = Head(todo[t])]
           /\ Head(todo[t]) \in Requests /\ pktQueues_' = pktQueues_
           /\ \/ coming' = coming
              \/ \E a \in Answers : coming' = Append(coming, a) /\ a.kind = Head(todo[t]).kind
<1> DEFINE r == Head(todo[t])
<1>1. todo[t] \in Seq(Requests) /\ todo[t] # <<>>
  BY DEF Send, AskInv
<1>2. r \in Requests
  BY <1>1
<1>3. Execute(r) \/ RequestLost
  BY DEF Send
<1>4. want[t] = None /\ want' = [want EXCEPT ![t] = r] /\ pktQueues_' = pktQueues_
  BY DEF Send
<1> HIDE DEF r
<1>5. coming' = coming \/ \E a \in Answers : coming' = Append(coming, a) /\ a.kind = r.kind
  <2>1. CASE RequestLost
    BY <2>1 DEF RequestLost
  <2>2. CASE r.kind = "fan" /\ PktFanPwm(r)
    <3>1. PICK a \in FanAnswers : coming' = Append(coming, a)
      BY <1>2, <2>2, KindOfRequest, FanAnswered
    <3>2. a \in Answers /\ a.kind = "fan"
      BY DEF Answers, FanAnswers
    <3> QED
      BY <2>2, <3>1, <3>2
  <2>3. CASE r.kind = "watchdog" /\ PktWatchdog(r)
    <3>1. PICK a \in WatchdogAnswers : coming' = Append(coming, a)
      BY <1>2, <2>3, KindOfRequest, WatchdogAnswered
    <3>2. a \in Answers /\ a.kind = "watchdog"
      BY DEF Answers, WatchdogAnswers
    <3> QED
      BY <2>3, <3>1, <3>2
  <2>4. CASE r.kind = "version" /\ PktVersion
    <3>1. PICK a \in VersionAnswers : coming' = Append(coming, a)
      BY <2>4, VersionAnswered
    <3>2. a \in Answers /\ a.kind = "version"
      BY DEF Answers, VersionAnswers
    <3> QED
      BY <2>4, <3>1, <3>2
  <2> QED
    BY <1>3, <2>1, <2>2, <2>3, <2>4 DEF Execute
<1> QED
  BY <1>2, <1>4, <1>5 DEF r

LEMMA AboutIsSetting ==
    ASSUME PicoInv', NEW k \in Kinds
    PROVE  About(k, duty', wd') \in Settings
<1>1. duty' \in Duties /\ wd' \in Watchdogs
  <2>1. \A f \in Fans : Carried(asked'[f]) \in Percent
    BY CarriedAgain DEF PicoInv, Percent
  <2> QED
    BY <2>1 DEF PicoInv, Duties, Percent
<1>2. About(k, duty', wd') \in {None, duty', wd'}
  BY DEF About
<1> QED
  BY <1>1, <1>2 DEF Settings

LEMMA SendTyped ==
    ASSUME PicoInv, PicoInv', AskInv, AnswerInv, NEW t \in Threads, Send(t)
    PROVE  AnswerInv'
<1> DEFINE r == Head(todo[t])
<1>1. UNCHANGED <<pktQueues_, picoVersion, first>>
  BY DEF Send
<1>2. r \in Requests /\ r.kind \in Kinds
  BY SendAnswers, KindOfRequest
<1>3. coming' \in Seq(Answers)
  BY SendAnswers, AppendOf, SMTT(30) DEF AnswerInv
<1>4. r = todo[t][1]
  BY DEF AskInv, Send
<1>5. left' \in [Threads -> Settings]
  BY <1>2, <1>4, AboutIsSetting DEF Send, AnswerInv
<1>6. mixed' \in SUBSET Kinds
  BY <1>2 DEF Send, AnswerInv
<1> QED
  BY <1>1, <1>3, <1>5, <1>6 DEF AnswerInv

LEMMA DeliverTyped == ASSUME AnswerInv, Deliver PROVE AnswerInv'
<1> DEFINE a == Head(coming)
           k == a.kind
           q == IF Len(pktQueues_[k]) < QueueMax THEN Append(pktQueues_[k], a) ELSE pktQueues_[k]
<1>1. coming' = Tail(coming) /\ coming' \in Seq(Answers) /\ a \in Answers
  BY TailOf DEF Deliver, AnswerInv
<1>2. k \in Kinds
  BY <1>1, KindOfAnswer
<1>3. pktQueues_' = [pktQueues_ EXCEPT ![k] = q]
  BY DEF Deliver
<1>4. q \in Seq(Answers) /\ \A i \in DOMAIN q : q[i].kind = k
  <2>1. pktQueues_[k] \in Seq(Answers) /\ \A i \in DOMAIN pktQueues_[k] : pktQueues_[k][i].kind = k
    BY <1>2 DEF AnswerInv
  <2> QED
    BY <1>1, <2>1, AppendOf, SMTT(30)
<1>5. UNCHANGED <<picoVersion, first, left, mixed>>
  BY DEF Deliver
<1> HIDE DEF a, k, q
<1>6. pktQueues_' \in [Kinds -> Seq(Answers)]
  BY <1>2, <1>3, <1>4 DEF AnswerInv
<1>7. \A c \in Kinds : \A i \in DOMAIN pktQueues_'[c] : pktQueues_'[c][i].kind = c
  BY <1>2, <1>3, <1>4 DEF AnswerInv
<1> QED
  BY <1>1, <1>5, <1>6, <1>7 DEF AnswerInv

\* The answer that is taken, and what is left in its queue.
LEMMA PopTakes ==
    ASSUME AskInv, AnswerInv, NEW t \in Threads, Pop(t)
    PROVE  \E a \in Answers :
             /\ want[t] \in Requests /\ a.kind = want[t].kind /\ a.kind \in Kinds
             /\ a \in OnWay(a.kind)
             /\ pktQueues_[a.kind] \in Seq(Answers) /\ pktQueues_[a.kind] # <<>>
             /\ pktQueues_[a.kind][1] = a
             /\ pktQueues_' = [pktQueues_ EXCEPT ![a.kind] = Tail(@)]
             /\ todo' = [todo EXCEPT ![t] = Rest(t, a)]
             /\ picoVersion' = IF a.kind = "version" THEN Joined(a) ELSE picoVersion
<1> DEFINE k == want[t].kind
           a == Head(pktQueues_[k])
<1>1. want[t] # None /\ pktQueues_[k] # <<>>
  BY DEF Pop
<1>2. want[t] \in Requests /\ k \in Kinds
  BY <1>1, KindOfRequest DEF AskInv
<1>3. pktQueues_[k] \in Seq(Answers) /\ \A i \in DOMAIN pktQueues_[k] : pktQueues_[k][i].kind = k
  BY <1>2 DEF AnswerInv
<1>4. a \in Answers /\ a = pktQueues_[k][1] /\ 1 \in DOMAIN pktQueues_[k]
  BY <1>1, <1>3, TailOf
<1>5. a.kind = k
  BY <1>3, <1>4
<1>6. /\ pktQueues_' = [pktQueues_ EXCEPT ![k] = Tail(@)]
      /\ todo' = [todo EXCEPT ![t] = Rest(t, a)]
      /\ picoVersion' = IF k = "version" THEN Joined(a) ELSE picoVersion
  BY DEF Pop
<1>7. a \in OnWay(k)
  BY <1>4 DEF OnWay
<1> HIDE DEF a, k
<1>8. want[t] \in Requests /\ a.kind = want[t].kind /\ a.kind \in Kinds
  BY <1>2, <1>5 DEF k
<1> QED
  BY <1>1, <1>3, <1>4, <1>5, <1>6, <1>7, <1>8

LEMMA NoneIsSetting == None \in Settings
BY DEF Settings

LEMMA PopTyped == ASSUME AskInv, AnswerInv, NEW t \in Threads, Pop(t) PROVE AnswerInv'
<1>1. PICK a \in Answers :
         /\ a.kind \in Kinds
         /\ pktQueues_[a.kind] \in Seq(Answers) /\ pktQueues_[a.kind] # <<>>
         /\ pktQueues_' = [pktQueues_ EXCEPT ![a.kind] = Tail(@)]
         /\ picoVersion' = IF a.kind = "version" THEN Joined(a) ELSE picoVersion
  BY PopTakes
<1>2. UNCHANGED <<coming, first, mixed>> /\ left' = [left EXCEPT ![t] = None]
  BY DEF Pop, Settled
<1>3. left' \in [Threads -> Settings]
  BY <1>2, NoneIsSetting DEF AnswerInv
<1>4. picoVersion' \in Seq(0 .. VersionLen)
  <2>1. CASE a.kind = "version"
    <3>1. a.piece \in Seq(0 .. VersionLen) /\ picoVersion \in Seq(0 .. VersionLen)
      BY <2>1, KindOfAnswer DEF AnswerInv
    <3>2. <<>> \o a.piece \in Seq(0 .. VersionLen) /\ picoVersion \o a.piece \in Seq(0 .. VersionLen)
      BY <3>1, EmptySeq, ConcatProperties
    <3> QED
      BY <1>1, <2>1, <3>2 DEF Joined
  <2>2. CASE a.kind # "version"
    BY <1>1, <2>2 DEF AnswerInv
  <2> QED
    BY <2>1, <2>2
<1>5. /\ Tail(pktQueues_[a.kind]) \in Seq(Answers)
      /\ \A i \in DOMAIN Tail(pktQueues_[a.kind]) : Tail(pktQueues_[a.kind])[i].kind = a.kind
  BY <1>1, TailOf, SMTT(30) DEF AnswerInv
<1>6. pktQueues_' \in [Kinds -> Seq(Answers)]
  BY <1>1, <1>5 DEF AnswerInv
<1>7. \A c \in Kinds : \A i \in DOMAIN pktQueues_'[c] : pktQueues_'[c][i].kind = c
  BY <1>1, <1>5 DEF AnswerInv
<1> QED
  BY <1>2, <1>3, <1>4, <1>6, <1>7 DEF AnswerInv

LEMMA GiveUpTyped == ASSUME AnswerInv, NEW t \in Threads, GiveUp(t) PROVE AnswerInv'
<1>1. /\ UNCHANGED <<coming, pktQueues_, picoVersion, first, mixed>>
      /\ left' = [left EXCEPT ![t] = None]
  BY DEF GiveUp, Settled
<1>2. left' \in [Threads -> Settings]
  BY <1>1, NoneIsSetting DEF AnswerInv
<1> QED
  BY <1>1, <1>2 DEF AnswerInv

LEMMA StartTyped ==
    ASSUME PicoInv, coming' = <<>>, pktQueues_' = [k \in Kinds |-> <<>>], picoVersion' = <<>>,
           first' = dataIndex, left' = [t \in Threads |-> None], mixed' = {}
    PROVE  AnswerInv'
<1>1. first' \in 0 .. VersionLen
  BY SettingsAssumption DEF PicoInv
<1>2. <<>> \in Seq(Answers) /\ <<>> \in Seq(0 .. VersionLen) /\ DOMAIN <<>> = {}
  BY EmptySeq
<1>3. left' \in [Threads -> Settings]
  BY NoneIsSetting
<1> QED
  BY <1>1, <1>2, <1>3 DEF AnswerInv

-----------------------------------------------------------------------------
(* Who still waits for what is on its way *)

LEMMA VersionIsKind == "version" \in Kinds /\ "fan" \in Kinds /\ "watchdog" \in Kinds
BY DEF Kinds

LEMMA OnWayDelivered ==
    ASSUME AnswerInv, Deliver, NEW c \in Kinds PROVE OnWay(c)' \subseteq OnWay(c)
<1> DEFINE a == Head(coming)
           k == a.kind
<1>1. coming' = Tail(coming) /\ coming \in Seq(Answers) /\ coming # <<>>
  BY DEF Deliver, AnswerInv
<1>2. a \in Answers /\ a = coming[1] /\ 1 \in DOMAIN coming
  BY <1>1, TailOf
<1>3. k \in Kinds
  BY <1>2, KindOfAnswer
<1>4. pktQueues_'[c] = pktQueues_[c] \/ (c = k /\ pktQueues_'[c] = Append(pktQueues_[c], a))
  BY <1>3 DEF Deliver, AnswerInv
<1>5. pktQueues_[c] \in Seq(Answers)
  BY DEF AnswerInv
<1>6. \A i \in DOMAIN coming' : i + 1 \in DOMAIN coming /\ coming'[i] = coming[i + 1]
  BY <1>1, TailOf
<1> HIDE DEF a
<1>7. \A i \in DOMAIN pktQueues_'[c] : pktQueues_'[c][i] \in OnWay(c)
  BY <1>2, <1>4, <1>5, AppendOf, SMTT(30) DEF OnWay
<1>8. \A i \in DOMAIN coming' : coming'[i].kind = c => coming'[i] \in OnWay(c)
  BY <1>6 DEF OnWay
<1> QED
  BY <1>7, <1>8 DEF OnWay

LEMMA OnWayLost ==
    ASSUME AnswerInv, AnswerLost, NEW c \in Kinds PROVE OnWay(c)' \subseteq OnWay(c)
<1>1. coming' = Tail(coming) /\ coming \in Seq(Answers) /\ coming # <<>> /\ pktQueues_' = pktQueues_
  BY DEF AnswerLost, AnswerInv
<1>2. \A i \in DOMAIN coming' : i + 1 \in DOMAIN coming /\ coming'[i] = coming[i + 1]
  BY <1>1, TailOf
<1> QED
  BY <1>1, <1>2 DEF OnWay

LEMMA OnWayPopped ==
    ASSUME AskInv, AnswerInv, NEW t \in Threads, Pop(t), NEW c \in Kinds
    PROVE  OnWay(c)' \subseteq OnWay(c)
<1>1. PICK a \in Answers :
         /\ a.kind \in Kinds
         /\ pktQueues_[a.kind] \in Seq(Answers) /\ pktQueues_[a.kind] # <<>>
         /\ pktQueues_' = [pktQueues_ EXCEPT ![a.kind] = Tail(@)]
  BY PopTakes
<1>2. coming' = coming
  BY DEF Pop, Settled
<1>3. pktQueues_'[c] = pktQueues_[c] \/ (c = a.kind /\ pktQueues_'[c] = Tail(pktQueues_[a.kind]))
  BY <1>1 DEF AnswerInv
<1>4. \A i \in DOMAIN Tail(pktQueues_[a.kind]) :
        i + 1 \in DOMAIN pktQueues_[a.kind] /\ Tail(pktQueues_[a.kind])[i] = pktQueues_[a.kind][i + 1]
  BY <1>1, TailOf
<1>5. \A i \in DOMAIN pktQueues_'[c] : pktQueues_'[c][i] \in OnWay(c)
  BY <1>3, <1>4 DEF OnWay
<1> QED
  BY <1>2, <1>5 DEF OnWay

LEMMA OnWaySent ==
    ASSUME AnswerInv, NEW a \in Answers, coming' = Append(coming, a), pktQueues_' = pktQueues_,
           NEW c \in Kinds
    PROVE  /\ OnWay(c)' \subseteq OnWay(c) \cup {a}
           /\ a.kind # c => OnWay(c)' \subseteq OnWay(c)
<1>1. /\ DOMAIN coming' = DOMAIN coming \cup {Len(coming) + 1}
      /\ \A i \in DOMAIN coming : coming'[i] = coming[i]
      /\ coming'[Len(coming) + 1] = a
  BY AppendOf DEF AnswerInv
<1> QED
  BY <1>1 DEF OnWay

LEMMA OnWaySame ==
    ASSUME UNCHANGED <<coming, pktQueues_>>, NEW c PROVE OnWay(c)' = OnWay(c)
BY DEF OnWay

\* A thread waits for a kind that nobody else asks for: all that may answer it is true.
ReportInv ==
    \A t \in Threads : \A k \in {"fan", "watchdog"} :
        want[t].kind = k /\ k \notin mixed => \A a \in OnWay(k) : Truthful(t, a)

\* The executed request's answer is true at once.
LEMMA AnswerIsTrue ==
    ASSUME PicoInv, PicoInv', AskInv, NEW t \in Threads, Send(t),
           Head(todo[t]).kind \in {"fan", "watchdog"},
           NEW a \in Answers, coming' = Append(coming, a), coming \in Seq(Answers),
           left \in [Threads -> Settings]
    PROVE  Truthful(t, a)'
<1> DEFINE r == Head(todo[t])
<1>1. r \in Requests /\ want'[t] = r
  BY SendAnswers DEF AskInv
<1>2. left'[t] = About(r.kind, duty', wd')
  <2>1. r = todo[t][1]
    BY DEF AskInv, Send
  <2> QED
    BY <2>1 DEF Send
<1>3. Execute(r) \/ RequestLost
  BY DEF Send
<1>4. \A b, d \in Answers : Append(coming, b) = Append(coming, d) => b = d
  BY AppendOf
<1>5. coming' # coming
  <2>1. Len(coming') = Len(coming) + 1 /\ Len(coming) \in Nat
    OBVIOUS
  <2> QED
    BY <2>1
<1> HIDE DEF r
<1>6. CASE r.kind = "fan"
  <2>1. PktFanPwm(r)
    BY <1>3, <1>5, <1>6 DEF Execute, RequestLost
  <2>2. r \in FanOrders
    BY <1>1, <1>6, KindOfRequest
  <2>3. PICK b \in FanAnswers :
           coming' = Append(coming, b) /\ \A f \in DOMAIN r.pct : Packed[b.pct[f]] = duty'[f]
    BY <2>1, <2>2, FanAnswered
  <2>4. b = a /\ b.kind = "fan"
    BY <1>4, <2>3 DEF Answers, FanAnswers
  <2>5. left'[t] = duty'
    BY <1>2, <1>6 DEF About
  <2> QED
    BY <1>1, <2>3, <2>4, <2>5 DEF Truthful
<1>7. CASE r.kind = "watchdog"
  <2>1. PktWatchdog(r)
    BY <1>3, <1>5, <1>7 DEF Execute, RequestLost
  <2>2. r \in WatchdogOrders
    BY <1>1, <1>7, KindOfRequest
  <2>3. PICK b \in WatchdogAnswers :
           /\ coming' = Append(coming, b)
           /\ wd' = [enabled |-> b.enabled, timeout |-> b.timeout, retries |-> b.retries]
    BY <2>1, <2>2, WatchdogAnswered
  <2>4. b = a /\ b.kind = "watchdog"
    BY <1>4, <2>3 DEF Answers, WatchdogAnswers
  <2>5. left'[t] = wd'
    BY <1>2, <1>7 DEF About
  <2> QED
    BY <2>3, <2>4, <2>5 DEF Truthful
<1> QED
  BY <1>6, <1>7 DEF r

\* Whoever still waits as before keeps what is true of the answers on their way.
LEMMA WaitersKeep ==
    ASSUME ReportInv, NEW t \in Threads, NEW k \in {"fan", "watchdog"},
           want'[t].kind = k, k \notin mixed', want'[t] = want[t], left'[t] = left[t],
           mixed \subseteq mixed', OnWay(k)' \subseteq OnWay(k)
    PROVE  \A a \in OnWay(k)' : Truthful(t, a)'
<1>1. \A a \in OnWay(k) : Truthful(t, a)
  BY DEF ReportInv
<1>2. \A a \in OnWay(k) : Truthful(t, a)'
  BY <1>1, ZenonT(60) DEF Truthful
<1> QED
  BY <1>2

LEMMA SendReports ==
    ASSUME PicoInv, PicoInv', AskInv, AnswerInv, ReportInv, NEW s \in Threads, Send(s)
    PROVE  ReportInv'
<1> DEFINE r == Head(todo[s])
<1>1. /\ want' = [want EXCEPT ![s] = r] /\ pktQueues_' = pktQueues_
      /\ \/ coming' = coming
         \/ \E a \in Answers : coming' = Append(coming, a) /\ a.kind = r.kind
  BY SendAnswers
<1>2. mixed' = IF Unanswered(r.kind) THEN mixed \cup {r.kind} ELSE mixed
  BY DEF Send
<1>3. \A t \in Threads : t # s => want'[t] = want[t] /\ left'[t] = left[t]
  BY DEF Send, AskInv, AnswerInv
<1> SUFFICES ASSUME NEW t \in Threads, NEW k \in {"fan", "watchdog"},
                    want'[t].kind = k, k \notin mixed'
             PROVE  \A a \in OnWay(k)' : Truthful(t, a)'
  BY DEF ReportInv
<1>4. k \in Kinds
  BY VersionIsKind
<1>5. CASE t = s
  <2>1. r.kind = k /\ ~Unanswered(k)
    BY <1>1, <1>2, <1>5 DEF AskInv
  <2>2. OnWay(k) = {}
    BY <2>1, EmptySeq DEF Unanswered, OnWay
  <2>3. CASE coming' = coming
    BY <1>1, <2>2, <2>3, OnWaySame
  <2>4. ASSUME NEW a \in Answers, coming' = Append(coming, a) PROVE \A b \in OnWay(k)' : Truthful(t, b)'
    <3>1. OnWay(k)' \subseteq {a}
      BY <1>1, <1>4, <2>2, <2>4, OnWaySent
    <3>2. Truthful(t, a)'
      BY <1>5, <2>1, <2>4, AnswerIsTrue DEF AnswerInv
    <3> QED
      BY <3>1, <3>2
  <2> QED
    BY <1>1, <2>3, <2>4
<1>6. CASE t # s
  <2>1. want'[t] = want[t] /\ left'[t] = left[t]
    BY <1>3, <1>6
  <2>2. r.kind # k
    BY <1>2, <2>1 DEF Unanswered
  <2>3. OnWay(k)' \subseteq OnWay(k)
    BY <1>1, <1>4, <2>2, OnWaySame, OnWaySent
  <2>4. mixed \subseteq mixed'
    BY <1>2
  <2> HIDE DEF r
  <2> QED
    BY <2>1, <2>3, <2>4, WaitersKeep
<1> QED
  BY <1>5, <1>6

LEMMA SettledReports ==
    ASSUME AskInv, AnswerInv, ReportInv, NEW s \in Threads, Settled(s),
           \A k \in Kinds : OnWay(k)' \subseteq OnWay(k)
    PROVE  ReportInv'
<1>1. want' = [want EXCEPT ![s] = None] /\ left' = [left EXCEPT ![s] = None] /\ mixed' = mixed
  BY DEF Settled
<1> SUFFICES ASSUME NEW t \in Threads, NEW k \in {"fan", "watchdog"},
                    want'[t].kind = k, k \notin mixed'
             PROVE  \A a \in OnWay(k)' : Truthful(t, a)'
  BY DEF ReportInv
<1>2. t # s
  BY <1>1 DEF AskInv, None
<1>3. want'[t] = want[t] /\ left'[t] = left[t]
  BY <1>1, <1>2 DEF AskInv, AnswerInv
<1> QED
  BY <1>1, <1>3, WaitersKeep, VersionIsKind

LEMMA OthersReport ==
    ASSUME ReportInv, UNCHANGED <<want, left, mixed>>,
           \A k \in Kinds : OnWay(k)' \subseteq OnWay(k)
    PROVE  ReportInv'
<1> SUFFICES ASSUME NEW t \in Threads, NEW k \in {"fan", "watchdog"},
                    want'[t].kind = k, k \notin mixed'
             PROVE  \A a \in OnWay(k)' : Truthful(t, a)'
  BY DEF ReportInv
<1> QED
  BY WaitersKeep, VersionIsKind

LEMMA StartReports == ASSUME want' = [t \in Threads |-> None] PROVE ReportInv'
BY DEF ReportInv, None

-----------------------------------------------------------------------------
(* The version *)

Asking == todo[Main] # <<>> /\ Head(todo[Main]) = Version

\* An answer to the version's request goes on where picoVersion ends, and the Pico
\* stands where the answer ends.
Continues(a) ==
    /\ \A i \in DOMAIN a.piece : a.piece[i] = first + Len(picoVersion) + i - 1
    /\ a.sop => picoVersion = <<>>
    /\ ~a.eop => dataIndex = first + Len(picoVersion) + Len(a.piece)

\* There is at most one piece on its way.
Alone ==
    /\ \A i, j \in DOMAIN coming :
          coming[i].kind = "version" /\ coming[j].kind = "version" => i = j
    /\ Len(pktQueues_["version"]) <= 1
    /\ pktQueues_["version"] # <<>> => \A i \in DOMAIN coming : coming[i].kind # "version"

VersionInv ==
    /\ VersionRun
    /\ Alone
    /\ Asking => OnWay("version") = {} /\ dataIndex = first + Len(picoVersion)
    /\ want[Main] = Version => \A a \in OnWay("version") : Continues(a)

LEMMA NothingIn == ASSUME NEW S, NEW q \in Seq(S), DOMAIN q = {} PROVE q = <<>>
<1>1. Len(q) \in Nat /\ DOMAIN q = 1 .. Len(q)
  OBVIOUS
<1>2. Len(q) = 0
  BY <1>1
<1> QED
  BY <1>2, EmptySeq

LEMMA OrdersAskNoVersion ==
    ASSUME NEW q \in Seq(Orders), q # <<>> PROVE Head(q) # Version
<1>1. Head(q) \in Orders
  OBVIOUS
<1>2. Version \notin Orders
  BY KindOfRequest DEF Requests, Version
<1> QED
  BY <1>1, <1>2

\* A step that neither asks for the version nor brings a piece.
LEMMA OthersContinue ==
    ASSUME VersionInv, Alone', OnWay("version")' \subseteq OnWay("version"),
           UNCHANGED <<picoVersion, first, dataIndex>>,
           Asking' => Asking, want'[Main] = Version => want[Main] = Version
    PROVE  VersionInv'
<1>1. VersionRun'
  BY DEF VersionInv, VersionRun
<1>2. Asking' => OnWay("version")' = {} /\ dataIndex' = first' + Len(picoVersion')
  BY DEF VersionInv
<1>3. want'[Main] = Version => \A a \in OnWay("version")' : Continues(a)'
  <2>1. \A a : Continues(a) => Continues(a)'
    BY DEF Continues
  <2> QED
    BY <2>1 DEF VersionInv
<1> QED
  BY <1>1, <1>2, <1>3 DEF VersionInv

LEMMA AloneTail ==
    ASSUME AnswerInv, Alone, coming # <<>>, coming' = Tail(coming), pktQueues_' = pktQueues_
    PROVE  Alone'
<1>1. \A i \in DOMAIN coming' : i + 1 \in DOMAIN coming /\ coming'[i] = coming[i + 1]
  BY TailOf DEF AnswerInv
<1>2. DOMAIN coming \subseteq Int /\ DOMAIN coming' \subseteq Int
  BY TailOf DEF AnswerInv
<1> QED
  BY <1>1, <1>2 DEF Alone

LEMMA AloneDelivered == ASSUME AnswerInv, Alone, Deliver PROVE Alone'
<1> DEFINE a == Head(coming)
           q == pktQueues_["version"]
<1>1. coming' = Tail(coming) /\ coming \in Seq(Answers) /\ coming # <<>>
  BY DEF Deliver, AnswerInv
<1>2. a \in Answers /\ a = coming[1] /\ 1 \in DOMAIN coming
  BY <1>1, TailOf
<1>3. a.kind \in Kinds
  BY <1>2, KindOfAnswer
<1>4. \/ pktQueues_'["version"] = q
      \/ a.kind = "version" /\ pktQueues_'["version"] = Append(q, a)
  BY <1>3, VersionIsKind DEF Deliver, AnswerInv
<1>5. /\ \A i \in DOMAIN coming' : i + 1 \in DOMAIN coming /\ coming'[i] = coming[i + 1]
      /\ DOMAIN coming \subseteq Int /\ \A i \in DOMAIN coming' : i \in Int /\ i >= 1
  BY <1>1, TailOf
<1>6. q \in Seq(Answers)
  BY VersionIsKind DEF AnswerInv
<1>7. CASE pktQueues_'["version"] = q
  BY <1>5, <1>7 DEF Alone
<1>8. CASE a.kind = "version" /\ pktQueues_'["version"] = Append(q, a)
  <2>1. q = <<>>
    BY <1>2, <1>8 DEF Alone
  <2>2. \A i \in DOMAIN coming' : coming'[i].kind # "version"
    BY <1>2, <1>5, <1>8 DEF Alone
  <2>3. Len(pktQueues_'["version"]) <= 1
    BY <1>6, <1>8, <2>1
  <2> QED
    BY <2>2, <2>3 DEF Alone
<1> QED
  BY <1>4, <1>7, <1>8

LEMMA SendContinues ==
    ASSUME PicoInv, PicoInv', AskInv, AskInv', AnswerInv, VersionInv, NEW t \in Threads, Send(t)
    PROVE  VersionInv'
<1> DEFINE r == Head(todo[t])
<1>1. /\ want' = [want EXCEPT ![t] = r] /\ pktQueues_' = pktQueues_ /\ r \in Requests
      /\ \/ coming' = coming
         \/ \E a \in Answers : coming' = Append(coming, a) /\ a.kind = r.kind
  BY SendAnswers
<1>2. /\ todo' = [todo EXCEPT ![t] = Tail(@)] /\ todo[t] # <<>> /\ UNCHANGED <<picoVersion, first>>
      /\ Execute(r) \/ RequestLost
  BY DEF Send
<1>3. t = Main => ~Asking'
  <2>1. todo[t] \in Seq(Requests) /\ Tail(todo[t]) \in Seq(Orders)
    BY <1>2 DEF AskInv
  <2> QED
    BY <1>2, <2>1, OrdersAskNoVersion DEF Asking, AskInv
<1>4. t # Main => want'[Main] = want[Main] /\ todo'[Main] = todo[Main]
  BY <1>1, <1>2 DEF AskInv, Threads
<1>5. r.kind = "version" => r = Version /\ t = Main
  <2>1. t # Main => r \in Orders
    BY <1>2 DEF AskInv
  <2> QED
    BY <1>1, <2>1, KindOfRequest DEF Requests
<1>6. Main \in Threads
  BY DEF Threads
<1>7. CASE r.kind # "version"
  <2>1. dataIndex' = dataIndex
    BY <1>2, <1>7 DEF Execute, RequestLost, picoVars, PktFanPwm, PktWatchdog
  <2>2. OnWay("version")' \subseteq OnWay("version")
    BY <1>1, <1>7, OnWaySame, OnWaySent, VersionIsKind
  <2>3. Alone'
    <3>1. CASE coming' = coming
      BY <1>1, <3>1 DEF VersionInv, Alone
    <3>2. ASSUME NEW a \in Answers, coming' = Append(coming, a), a.kind # "version" PROVE Alone'
      <4>1. /\ DOMAIN coming' = DOMAIN coming \cup {Len(coming) + 1}
            /\ \A i \in DOMAIN coming : coming'[i] = coming[i]
            /\ coming'[Len(coming) + 1] = a
        BY <3>2, AppendOf DEF AnswerInv
      <4> QED
        BY <1>1, <3>2, <4>1 DEF VersionInv, Alone
    <3> QED
      BY <1>1, <1>7, <3>1, <3>2
  <2>4. r # Version
    BY <1>7 DEF Version
  <2>5. want'[Main] = Version => want[Main] = Version
    BY <1>1, <1>4, <1>6, <2>4 DEF AskInv
  <2>6. Asking' => Asking
    BY <1>3, <1>4 DEF Asking
  <2> QED
    BY <1>2, <2>1, <2>2, <2>3, <2>5, <2>6, OthersContinue
<1>8. CASE r.kind = "version"
  <2>1. r = Version /\ t = Main /\ Asking
    BY <1>2, <1>5, <1>8 DEF Asking
  <2>2. OnWay("version") = {} /\ dataIndex = first + Len(picoVersion)
    BY <2>1 DEF VersionInv
  <2>3. VersionRun'
    BY <1>2 DEF VersionInv, VersionRun
  <2>4. ~Asking'
    BY <1>3, <2>1
  <2>5. /\ \A i \in DOMAIN coming : coming[i].kind # "version"
        /\ DOMAIN pktQueues_["version"] = {}
    BY <2>2 DEF OnWay
  <2>6. Len(pktQueues_["version"]) <= 1 /\ pktQueues_["version"] = <<>>
    <3>1. pktQueues_["version"] \in Seq(Answers)
      BY VersionIsKind DEF AnswerInv
    <3>2. pktQueues_["version"] = <<>>
      BY <2>5, <3>1, NothingIn
    <3> QED
      BY <3>2
  <2>7. CASE coming' = coming
    <3>1. OnWay("version")' = {}
      BY <1>1, <2>2, <2>7, OnWaySame
    <3>2. Alone'
      BY <1>1, <2>5, <2>6, <2>7 DEF Alone
    <3> QED
      BY <2>3, <2>4, <3>1, <3>2 DEF VersionInv
  <2>8. ASSUME NEW b \in Answers, coming' = Append(coming, b) PROVE VersionInv'
    <3>1. Len(coming') = Len(coming) + 1 /\ Len(coming) \in Nat
      BY <2>8 DEF AnswerInv
    <3>2. PktVersion
      BY <1>2, <1>8, <3>1 DEF Execute, RequestLost
    <3>3. PICK a \in VersionAnswers :
             /\ coming' = Append(coming, a)
             /\ a.sop => dataIndex = 0
             /\ \A i \in DOMAIN a.piece : a.piece[i] = dataIndex + i - 1
             /\ ~a.eop => dataIndex' = dataIndex + Len(a.piece)
      BY <3>2, VersionAnswered
    <3>4. a \in Answers
      BY DEF Answers
    <3>5. OnWay("version")' \subseteq {a}
      BY <1>1, <2>2, <3>3, <3>4, OnWaySent, VersionIsKind
    <3>6. picoVersion \in Seq(0 .. VersionLen) /\ Len(picoVersion) \in Nat /\ first \in Nat
      BY SettingsAssumption DEF AnswerInv
    <3>7. Continues(a)'
      <4>1. \A i \in DOMAIN a.piece : a.piece[i] = first + Len(picoVersion) + i - 1
        BY <2>2, <3>3
      <4>2. a.sop => picoVersion = <<>>
        BY <2>2, <3>3, <3>6
      <4>3. ~a.eop => dataIndex' = first + Len(picoVersion) + Len(a.piece)
        BY <2>2, <3>3
      <4> QED
        BY <1>2, <4>1, <4>2, <4>3 DEF Continues
    <3>8. Alone'
      <4>1. /\ DOMAIN coming' = DOMAIN coming \cup {Len(coming) + 1}
            /\ \A i \in DOMAIN coming : coming'[i] = coming[i]
        BY <2>8, AppendOf DEF AnswerInv
      <4> QED
        BY <1>1, <2>5, <2>6, <4>1 DEF Alone
    <3> QED
      BY <2>3, <2>4, <3>5, <3>7, <3>8 DEF VersionInv
  <2> QED
    BY <1>1, <2>7, <2>8
<1> QED
  BY <1>7, <1>8

\* The pieces that are put together.
LEMMA JoinedRun ==
    ASSUME NEW S, NEW v \in Seq(S), NEW p \in Seq(S), NEW n \in Int,
           \A i \in DOMAIN v : v[i] = n + i - 1,
           \A i \in DOMAIN p : p[i] = n + Len(v) + i - 1
    PROVE  /\ \A i \in DOMAIN (v \o p) : (v \o p)[i] = n + i - 1
           /\ Len(v \o p) = Len(v) + Len(p)
<1>1. /\ Len(v \o p) = Len(v) + Len(p) /\ DOMAIN (v \o p) = 1 .. Len(v) + Len(p)
      /\ \A i \in 1 .. Len(v) + Len(p) : (v \o p)[i] = IF i <= Len(v) THEN v[i] ELSE p[i - Len(v)]
  OBVIOUS
<1>2. Len(v) \in Nat /\ Len(p) \in Nat /\ DOMAIN v = 1 .. Len(v) /\ DOMAIN p = 1 .. Len(p)
  OBVIOUS
<1>3. ASSUME NEW i \in 1 .. Len(v) + Len(p) PROVE (v \o p)[i] = n + i - 1
  <2>1. CASE i <= Len(v)
    BY <1>1, <1>2, <2>1, SMTT(30)
  <2>2. CASE ~(i <= Len(v))
    <3>1. i - Len(v) \in DOMAIN p
      BY <1>2, <2>2
    <3> QED
      BY <1>1, <1>2, <2>2, <3>1
  <2> QED
    BY <2>1, <2>2
<1> QED
  BY <1>1, <1>3

LEMMA PopContinues ==
    ASSUME AskInv, AnswerInv, VersionInv, NEW t \in Threads, Pop(t) PROVE VersionInv'
<1>1. PICK a \in Answers :
         /\ want[t] \in Requests /\ a.kind = want[t].kind /\ a.kind \in Kinds
         /\ a \in OnWay(a.kind)
         /\ pktQueues_[a.kind] \in Seq(Answers) /\ pktQueues_[a.kind] # <<>>
         /\ pktQueues_[a.kind][1] = a
         /\ pktQueues_' = [pktQueues_ EXCEPT ![a.kind] = Tail(@)]
         /\ todo' = [todo EXCEPT ![t] = Rest(t, a)]
         /\ picoVersion' = IF a.kind = "version" THEN Joined(a) ELSE picoVersion
  BY PopTakes
<1>2. /\ UNCHANGED <<coming, first, dataIndex>> /\ want' = [want EXCEPT ![t] = None]
      /\ want[t] # None
  BY DEF Pop, Settled, picoVars
<1>3. None # Version /\ Main \in Threads
  BY DEF None, Version, Threads
<1>4. CASE a.kind # "version"
  <2>1. pktQueues_'["version"] = pktQueues_["version"]
    BY <1>1, <1>4, VersionIsKind DEF AnswerInv
  <2>2. Alone'
    BY <1>2, <2>1 DEF VersionInv, Alone
  <2>3. todo' = todo
    BY <1>1, <1>4 DEF Rest, AskInv
  <2>4. Asking' => Asking
    BY <2>3 DEF Asking
  <2>5. want'[Main] = Version => want[Main] = Version
    BY <1>2, <1>3 DEF AskInv
  <2>6. picoVersion' = picoVersion
    BY <1>1, <1>4
  <2>7. OnWay("version")' \subseteq OnWay("version")
    BY OnWayPopped, VersionIsKind
  <2> QED
    BY <1>2, <2>2, <2>4, <2>5, <2>6, <2>7, OthersContinue
<1>5. CASE a.kind = "version"
  <2>1. want[t] = Version /\ t = Main
    <3>1. want[t] \notin Orders
      BY <1>1, <1>5, KindOfRequest
    <3> QED
      BY <1>1, <1>2, <3>1 DEF Requests, AskInv
  <2>2. Continues(a)
    BY <1>1, <1>5, <2>1 DEF VersionInv
  <2>3. /\ picoVersion \in Seq(0 .. VersionLen) /\ a.piece \in Seq(0 .. VersionLen)
        /\ Len(picoVersion) \in Nat /\ Len(a.piece) \in Nat /\ first \in Nat
    BY <1>5, KindOfAnswer, SettingsAssumption DEF AnswerInv
  <2>4. picoVersion' = picoVersion \o a.piece
    BY <1>1, <1>5, <2>2 DEF Joined, Continues
  <2>5. VersionRun' /\ Len(picoVersion') = Len(picoVersion) + Len(a.piece)
    <3>1. \A i \in DOMAIN picoVersion : picoVersion[i] = first + i - 1
      BY DEF VersionInv, VersionRun
    <3>2. \A i \in DOMAIN a.piece : a.piece[i] = first + Len(picoVersion) + i - 1
      BY <2>2 DEF Continues
    <3>3. /\ \A i \in DOMAIN (picoVersion \o a.piece) : (picoVersion \o a.piece)[i] = first + i - 1
          /\ Len(picoVersion \o a.piece) = Len(picoVersion) + Len(a.piece)
      BY <2>3, <3>1, <3>2, JoinedRun, SMTT(30)
    <3> QED
      BY <1>2, <2>4, <3>3 DEF VersionRun
  <2>6. /\ pktQueues_'["version"] = <<>>
        /\ \A i \in DOMAIN coming : coming[i].kind # "version"
    <3> DEFINE q == pktQueues_["version"]
    <3>1. q \in Seq(Answers) /\ q # <<>> /\ Len(q) <= 1
      BY <1>1, <1>5 DEF VersionInv, Alone
    <3>2. Tail(q) = <<>>
      BY <3>1
    <3>3. pktQueues_'["version"] = Tail(q)
      BY <1>1, <1>5, VersionIsKind DEF AnswerInv
    <3> QED
      BY <3>1, <3>2, <3>3 DEF VersionInv, Alone
  <2>7. OnWay("version")' = {}
    BY <1>2, <2>6 DEF OnWay
  <2>8. Alone'
    BY <1>2, <2>6, EmptySeq DEF Alone
  <2>9. Asking' => dataIndex' = first' + Len(picoVersion')
    <3>1. CASE a.eop
      <4>1. todo'[Main] = todo[Main] /\ todo[Main] \in Seq(Orders)
        BY <1>1, <1>2, <2>1, <3>1 DEF Rest, AskInv
      <4> QED
        BY <4>1, OrdersAskNoVersion DEF Asking
    <3>2. CASE ~a.eop
      <4>1. dataIndex = first + Len(picoVersion) + Len(a.piece)
        BY <2>2, <3>2 DEF Continues
      <4> DEFINE m == Len(picoVersion)
                 n == Len(a.piece)
      <4>2. m \in Nat /\ n \in Nat /\ first \in Nat /\ dataIndex = first + m + n
        BY <2>3, <4>1
      <4>3. Len(picoVersion') = m + n
        BY <2>5
      <4> HIDE DEF m, n
      <4>4. dataIndex = first + Len(picoVersion')
        BY <4>2, <4>3
      <4> QED
        BY <1>2, <4>4
    <3> QED
      BY <3>1, <3>2
  <2>10. want'[Main] # Version
    BY <1>2, <1>3, <2>1 DEF AskInv
  <2> QED
    BY <2>5, <2>7, <2>8, <2>9, <2>10 DEF VersionInv
<1> QED
  BY <1>4, <1>5

LEMMA PlusNothing == ASSUME NEW n \in Nat PROVE n + 0 = n
OBVIOUS

LEMMA StartContinues ==
    ASSUME coming' = <<>>, pktQueues_' = [k \in Kinds |-> <<>>], picoVersion' = <<>>,
           first' = dataIndex', want' = [t \in Threads |-> None], PicoInv'
    PROVE  VersionInv'
<1>1. pktQueues_'["version"] = <<>>
  BY VersionIsKind
<1>2. DOMAIN <<>> = {} /\ Len(<<>>) = 0
  BY EmptySeq
<1>3. want'[Main] # Version
  BY DEF None, Version, Threads
<1>4. OnWay("version")' = {}
  BY <1>1, <1>2 DEF OnWay
<1>5. Alone' /\ VersionRun'
  <2>1. DOMAIN coming' = {} /\ DOMAIN picoVersion' = {} /\ Len(pktQueues_'["version"]) <= 1
    BY <1>1, <1>2
  <2> QED
    BY <1>1, <2>1 DEF Alone, VersionRun
<1>6. dataIndex' = first' + Len(picoVersion')
  <2>1. dataIndex' \in Nat
    BY DEF PicoInv
  <2>2. Len(picoVersion') = 0 /\ first' \in Nat /\ first' = dataIndex'
    BY <1>2, <2>1
  <2>3. first' + 0 = first'
    BY <2>2, PlusNothing
  <2> QED
    BY <2>2, <2>3, Zenon
<1> QED
  BY <1>3, <1>4, <1>5, <1>6 DEF VersionInv

-----------------------------------------------------------------------------
(* The settings *)

SettingsInv == PicoInv /\ AskInv /\ AnswerInv /\ ReportInv /\ VersionInv

LEMMA SettingsInit == ASSUME Init PROVE SettingsInv
<1>1. PicoInv
  <2> DEFINE no == FALSE
  <2>1. wd = [enabled |-> no, timeout |-> 30, retries |-> 0] /\ dataIndex = 0
        /\ duty = [f \in Fans |-> 50] /\ asked = duty
    BY DEF Init
  <2>2. no \in BOOLEAN
    BY Zenon
  <2>3. 30 \in Word /\ 0 \in Word
    BY DEF Word
  <2> HIDE DEF no
  <2>4. wd \in Watchdogs /\ wd.timeout >= 1
    BY <2>1, <2>2, <2>3, WatchdogFields
  <2>5. Carried(50) = 50 /\ 50 \in Percent
    BY DEF Carried, Loses, Percent
  <2> QED
    BY <2>1, <2>4, <2>5 DEF PicoInv
<1>2. PICK c \in Configs : todo = [t \in Threads |-> IF t = Main THEN StartUp(c) ELSE <<>>]
  BY DEF Init
<1>3. want = [t \in Threads |-> None]
  BY DEF Init
<1>4. AskInv
  <2>1. /\ StartUp(c) \in Seq(Requests) /\ StartUp(c) # <<>>
        /\ Head(StartUp(c)) = Version /\ Tail(StartUp(c)) \in Seq(Orders)
    BY StartUpAsks
  <2>2. <<>> \in Seq(Requests) /\ <<>> \in Seq(Orders) /\ Main \in Threads
    BY EmptySeq DEF Threads
  <2> QED
    BY <1>2, <1>3, <2>1, <2>2 DEF AskInv
<1>5. AnswerInv
  <2>1. <<>> \in Seq(Answers) /\ <<>> \in Seq(0 .. VersionLen) /\ DOMAIN <<>> = {}
    BY EmptySeq
  <2>2. left \in [Threads -> Settings]
    BY NoneIsSetting DEF Init
  <2>3. first \in 0 .. VersionLen
    BY SettingsAssumption DEF Init
  <2> QED
    BY <2>1, <2>2, <2>3 DEF Init, AnswerInv
<1>6. ReportInv
  BY <1>3 DEF ReportInv, None
<1>7. VersionInv
  <2>1. coming = <<>> /\ pktQueues_["version"] = <<>> /\ picoVersion = <<>> /\ first = 0 /\ dataIndex = 0
    BY VersionIsKind DEF Init
  <2>2. DOMAIN <<>> = {} /\ Len(<<>>) = 0
    BY EmptySeq
  <2>3. OnWay("version") = {}
    BY <2>1, <2>2 DEF OnWay
  <2>4. Alone /\ VersionRun
    BY <2>1, <2>2 DEF Alone, VersionRun
  <2>5. want[Main] # Version
    BY <1>3 DEF None, Version, Threads
  <2>6. dataIndex = first + Len(picoVersion)
    BY <2>1, <2>2
  <2> QED
    BY <2>3, <2>4, <2>5, <2>6 DEF VersionInv
<1> QED
  BY <1>1, <1>4, <1>5, <1>6, <1>7 DEF SettingsInv

LEMMA StartKeeps == ASSUME PicoInv, PicoInv', StartPicod PROVE SettingsInv'
<1>1. /\ coming' = <<>> /\ pktQueues_' = [k \in Kinds |-> <<>>] /\ picoVersion' = <<>>
      /\ first' = dataIndex /\ dataIndex' = dataIndex /\ mixed' = {}
      /\ left' = [t \in Threads |-> None] /\ want' = [t \in Threads |-> None]
  BY DEF StartPicod
<1>2. AskInv'
  BY RestartAsks
<1>3. AnswerInv'
  BY <1>1, StartTyped
<1>4. ReportInv'
  BY <1>1, StartReports
<1>5. VersionInv'
  BY <1>1, StartContinues
<1> QED
  BY <1>2, <1>3, <1>4, <1>5 DEF SettingsInv

\* Another thread than main gets something to do.
LEMMA BeginKeeps ==
    ASSUME SettingsInv, NEW t \in Threads \ {Main}, NEW h \in Seq(Orders), Idle(t),
           todo' = [todo EXCEPT ![t] = h],
           UNCHANGED <<picoVars, linkVars, want, picoVersion, asked, first, left, mixed>>
    PROVE  SettingsInv'
<1>1. /\ PicoInv /\ AskInv /\ AnswerInv /\ ReportInv /\ VersionInv
      /\ UNCHANGED <<duty, wd, dataIndex, coming, pktQueues_>>
  BY DEF SettingsInv, picoVars, linkVars
<1>2. PicoInv' /\ AnswerInv'
  BY <1>1 DEF PicoInv, AnswerInv
<1>3. AskInv'
  BY <1>1, BeginAsks DEF Idle
<1>4. \A k \in Kinds : OnWay(k)' \subseteq OnWay(k)
  BY <1>1, OnWaySame
<1>5. ReportInv'
  BY <1>1, <1>4, OthersReport
<1>6. Asking' => Asking
  BY <1>1 DEF Asking, AskInv
<1>7. Alone'
  BY <1>1 DEF VersionInv, Alone
<1>8. VersionInv'
  BY <1>1, <1>4, <1>6, <1>7, OthersContinue, VersionIsKind
<1> QED
  BY <1>2, <1>3, <1>5, <1>8 DEF SettingsInv

LEMMA SettingsStep == ASSUME SettingsInv, [Next]_vars PROVE SettingsInv'
<1> USE DEF SettingsInv
<1>1. ASSUME NEW t \in Workers, Begin(t) PROVE SettingsInv'
  <2>1. PICK h \in Handlers : todo' = [todo EXCEPT ![t] = h]
    BY <1>1 DEF Begin
  <2>2. h \in Seq(Orders) /\ t \in Threads \ {Main}
    BY HandlersAsk, SettingsAssumption DEF Threads
  <2>3. Idle(t) /\ UNCHANGED <<picoVars, linkVars, want, picoVersion, asked, first, left, mixed>>
    BY <1>1 DEF Begin
  <2> QED
    BY <2>1, <2>2, <2>3, BeginKeeps
<1>2. ASSUME NEW t \in Threads, Send(t) PROVE SettingsInv'
  <2>1. Head(todo[t]) \in Requests /\ (Execute(Head(todo[t])) \/ RequestLost)
    <3>1. todo[t] \in Seq(Requests) /\ todo[t] # <<>>
      BY <1>2 DEF Send, AskInv
    <3>2. Head(todo[t]) \in Requests
      BY <3>1
    <3> QED
      BY <1>2, <3>2 DEF Send
  <2>2. PicoInv'
    BY <2>1, RequestExecuted
  <2>3. AskInv'
    BY <1>2, SendAsks
  <2>4. AnswerInv'
    BY <1>2, <2>2, SendTyped
  <2>5. ReportInv'
    BY <1>2, <2>2, SendReports
  <2>6. VersionInv'
    BY <1>2, <2>2, <2>3, SendContinues
  <2> QED
    BY <2>2, <2>3, <2>4, <2>5, <2>6
<1>3. ASSUME NEW t \in Threads, Pop(t) PROVE SettingsInv'
  <2>1. PicoInv'
    BY <1>3 DEF Pop, Settled, picoVars, PicoInv
  <2>2. AskInv'
    <3>1. PICK a \in Answers : a.kind = want[t].kind /\ todo' = [todo EXCEPT ![t] = Rest(t, a)]
      BY <1>3, PopTakes
    <3> QED
      BY <1>3, <3>1, PopAsks
  <2>3. AnswerInv'
    BY <1>3, PopTyped
  <2>4. ReportInv'
    BY <1>3, OnWayPopped, SettledReports DEF Pop
  <2>5. VersionInv'
    BY <1>3, PopContinues
  <2> QED
    BY <2>1, <2>2, <2>3, <2>4, <2>5
<1>4. ASSUME NEW t \in Threads, GiveUp(t) PROVE SettingsInv'
  <2>1. /\ Settled(t) /\ want' = [want EXCEPT ![t] = None]
        /\ UNCHANGED <<picoVars, duty, wd, dataIndex, asked, coming, pktQueues_, todo, picoVersion, first>>
    BY <1>4 DEF GiveUp, Settled, picoVars
  <2>2. PicoInv'
    BY <2>1 DEF PicoInv
  <2>3. AskInv' /\ AnswerInv'
    BY <1>4, GiveUpAsks, GiveUpTyped
  <2>4. \A k \in Kinds : OnWay(k)' \subseteq OnWay(k)
    BY <2>1, OnWaySame
  <2>5. ReportInv'
    BY <2>1, <2>4, SettledReports
  <2>6. (Asking' => Asking) /\ Alone'
    BY <2>1 DEF Asking, VersionInv, Alone
  <2>7. want'[Main] = Version => want[Main] = Version
    BY <2>1 DEF AskInv, None, Version, Threads
  <2>8. VersionInv'
    BY <2>1, <2>4, <2>6, <2>7, OthersContinue, VersionIsKind
  <2> QED
    BY <2>2, <2>3, <2>5, <2>8
<1>5. CASE HandleShutdown
  <2>1. Reader \in Threads \ {Main}
    BY SettingsAssumption DEF Threads
  <2>2. /\ Idle(Reader) /\ todo' = [todo EXCEPT ![Reader] = <<TurnOffFans>>]
        /\ UNCHANGED <<picoVars, linkVars, want, picoVersion, asked, first, left, mixed>>
    BY <1>5 DEF HandleShutdown
  <2> QED
    BY <2>1, <2>2, TurnOffAsks, BeginKeeps
<1>6. CASE Deliver \/ AnswerLost
  <2>1. /\ UNCHANGED <<duty, wd, dataIndex, todo, want, picoVersion, asked, first, left, mixed>>
        /\ coming # <<>> /\ coming' = Tail(coming)
    BY <1>6 DEF Deliver, AnswerLost, picoVars
  <2>2. PicoInv' /\ AskInv'
    BY <2>1 DEF PicoInv, AskInv
  <2>3. AnswerInv'
    <3>1. CASE Deliver
      BY <3>1, DeliverTyped
    <3>2. CASE AnswerLost
      <4>1. coming' \in Seq(Answers)
        BY <2>1, TailOf DEF AnswerInv
      <4>2. pktQueues_' = pktQueues_
        BY <3>2 DEF AnswerLost
      <4> QED
        BY <2>1, <4>1, <4>2 DEF AnswerInv
    <3> QED
      BY <1>6, <3>1, <3>2
  <2>4. \A k \in Kinds : OnWay(k)' \subseteq OnWay(k)
    BY <1>6, OnWayDelivered, OnWayLost
  <2>5. ReportInv'
    BY <2>1, <2>4, OthersReport
  <2>6. Alone'
    BY <1>6, AloneDelivered, AloneTail DEF AnswerLost, VersionInv
  <2>7. Asking' => Asking
    BY <2>1 DEF Asking
  <2>8. VersionInv'
    BY <2>1, <2>4, <2>6, <2>7, OthersContinue, VersionIsKind
  <2> QED
    BY <2>2, <2>3, <2>5, <2>8
<1>7. CASE Restart
  <2>1. PicoInv'
    BY <1>7 DEF Restart, StartPicod, PicoInv
  <2> QED
    BY <1>7, <2>1, StartKeeps DEF Restart
<1>8. CASE WatchdogResets
  BY <1>8, WatchdogTakesRetry, StartKeeps DEF WatchdogResets
<1>9. CASE UNCHANGED vars
  <2>1. UNCHANGED <<duty, wd, dataIndex, coming, pktQueues_, todo, want, picoVersion,
                    asked, first, left, mixed>>
    BY <1>9 DEF vars, picoVars, linkVars
  <2>2. PicoInv' /\ AskInv' /\ AnswerInv'
    BY <2>1 DEF PicoInv, AskInv, AnswerInv
  <2>3. \A k \in Kinds : OnWay(k)' \subseteq OnWay(k)
    BY <2>1, OnWaySame
  <2>4. (Asking' => Asking) /\ Alone'
    BY <2>1 DEF Asking, VersionInv, Alone
  <2>5. ReportInv'
    BY <2>1, <2>3, OthersReport
  <2>6. VersionInv'
    BY <2>1, <2>3, <2>4, OthersContinue, VersionIsKind
  <2> QED
    BY <2>2, <2>5, <2>6
<1> QED
  BY <1>1, <1>2, <1>3, <1>4, <1>5, <1>6, <1>7, <1>8, <1>9 DEF Next

LEMMA SettingsAlways == Spec => []SettingsInv
<1>1. Init => SettingsInv
  BY SettingsInit
<1>2. SettingsInv /\ [Next]_vars => SettingsInv'
  BY SettingsStep
<1> QED
  BY <1>1, <1>2, PTL DEF Spec

-----------------------------------------------------------------------------
\* Every request, answer and setting is of its type, for any picod.conf, any requests
\* of users and any losses: no percentage over 100 and no word over 16 bits leaves
\* picod (SANITIZE_PWM_INPUT, Settings::sanitize, sanitize_watchdog_timeout).
THEOREM SettingsTypeCorrect == Spec => []TypeOK
<1>1. SettingsInv => TypeOK
  <2> SUFFICES ASSUME PicoInv, AskInv, AnswerInv PROVE TypeOK
    BY DEF SettingsInv
  <2>1. duty \in Duties /\ wd \in Watchdogs /\ asked \in [Fans -> 0 .. 100]
    BY DutyIsPercent DEF PicoInv, Duties, Percent
  <2>2. dataIndex = 0 \/ dataIndex \in 1 .. VersionLen - 1
    BY SettingsAssumption DEF PicoInv
  <2>3. \A i \in DOMAIN coming : coming[i].kind \in Kinds
    <3>1. \A i \in DOMAIN coming : coming[i] \in Answers
      BY DEF AnswerInv
    <3> QED
      BY <3>1, KindOfAnswer
  <2>4. \A t \in Threads : want[t] = None \/ want[t].kind \in Kinds
    BY KindOfRequest DEF AskInv
  <2>5. \A t \in Threads : left[t] = None \/ left[t] \in Duties \/ left[t] \in Watchdogs
    BY DEF AnswerInv, Settings
  <2>6. DOMAIN pktQueues_ = Kinds /\ DOMAIN todo = Threads /\ DOMAIN want = Threads
    BY DEF AnswerInv, AskInv
  <2>7. /\ \A k \in Kinds : \A i \in DOMAIN pktQueues_[k] : pktQueues_[k][i].kind = k
        /\ picoVersion \in Seq(0 .. VersionLen) /\ first \in 0 .. VersionLen
        /\ mixed \subseteq Kinds
    BY DEF AnswerInv
  <2> QED
    BY <2>1, <2>2, <2>3, <2>4, <2>5, <2>6, <2>7 DEF TypeOK
<1> QED
  BY <1>1, SettingsAlways, PTL

\* A fan has the percentage last asked for it, or one less, whatever init_pico, users
\* and shutdown packets wrote and whatever was lost: PACK_FAN_PWM's truncation does not
\* add up over reads, writes and restarts.
THEOREM FansFollow == Spec => []FansAsAsked
<1>1. SettingsInv => FansAsAsked
  <2> SUFFICES ASSUME PicoInv, NEW f \in Fans PROVE duty[f] \in {asked[f] - 1, asked[f]}
    BY DEF SettingsInv, FansAsAsked
  <2>1. duty[f] = Carried(asked[f]) /\ asked[f] \in 0 .. 100
    BY DEF PicoInv, Percent
  <2> QED
    BY <2>1, CarriedAgain
<1> QED
  BY <1>1, SettingsAlways, PTL

\* An enabled watchdog leaves the CM4 at least a second, for any picod.conf, any
\* requests of users and any losses (sanitize_watchdog_timeout, Settings::sanitize).
THEOREM WatchdogLeavesASecond == Spec => []ArmedTimeout
<1>1. SettingsInv => ArmedTimeout
  BY DEF SettingsInv, PicoInv, ArmedTimeout
<1> QED
  BY <1>1, SettingsAlways, PTL

\* picoVersion has no gap and nothing twice, for a version and pieces of any length
\* (get_pico_version, pico_pkt_version_resp_pack): it asks again only when nothing that
\* could answer it is on its way.
THEOREM VersionWithoutGaps == Spec => []VersionRun
<1>1. SettingsInv => VersionRun
  BY DEF SettingsInv, VersionInv
<1> QED
  BY <1>1, SettingsAlways, PTL

\* A success that get_pico_response reports is true of the Pico when it had executed the
\* request, for any number of threads, as long as requests of one kind do not meet.
THEOREM ReportsAreTrue == Spec => []ReportsTrue
<1>1. SettingsInv => ReportsTrue
  <2> SUFFICES ASSUME AnswerInv, ReportInv, NEW t \in Threads, NEW k \in {"fan", "watchdog"},
                      Told(t, k), k \notin mixed
               PROVE  Truthful(t, Head(pktQueues_[k]))
    BY DEF SettingsInv, ReportsTrue
  <2>1. want[t].kind = k /\ pktQueues_[k] # <<>>
    BY DEF Told
  <2>2. pktQueues_[k] \in Seq(Answers)
    BY VersionIsKind DEF AnswerInv
  <2>3. Head(pktQueues_[k]) = pktQueues_[k][1] /\ 1 \in DOMAIN pktQueues_[k]
    BY <2>1, <2>2, TailOf
  <2>4. Head(pktQueues_[k]) \in OnWay(k)
    BY <2>3 DEF OnWay
  <2> QED
    BY <2>1, <2>4 DEF ReportInv
<1> QED
  BY <1>1, SettingsAlways, PTL
================================================================================
