----------------------------- MODULE Packets_proofs -----------------------------
(***************************************************************************)
(* Proofs about Packets, for any readings, requests, configuration and     *)
(* version and however many resets.                                        *)
(*                                                                         *)
(* The first half is about bytes: that each kind of answer is read as it   *)
(* was packed whatever the buffer held (TemperatureHeard, WatchdogHeard,   *)
(* FanHeard, VersionHeard).  The second is about pieces of requests: a     *)
(* packet that comes out of pieces is the beginning of one request and     *)
(* then the one of the version, which is a byte 70 and zeros, and that is  *)
(* why it can neither stop a watchdog's time nor leave bytes behind.       *)
(***************************************************************************)
EXTENDS Packets, SequenceTheorems, TLAPS

-----------------------------------------------------------------------------
(* Bytes *)

LEMMA Powers == 2^0 = 1 /\ 2^1 = 2 /\ 2^2 = 4 /\ 2^15 = 32768
BY SMT

LEMMA BytesOfWord ==
    ASSUME NEW n \in Nat
    PROVE  /\ U16(n) \in Seq(Int) /\ Len(U16(n)) = 2
           /\ U16(n)[1] \in Nat /\ U16(n)[2] \in Nat /\ U16(n)[1] + 256 * U16(n)[2] = n
BY DEF U16

LEMMA ReadingIs == \A n : n \in Reading <=> n \in Int /\ -32767 <= n /\ n <= 32767
<1>1. PICK m \in Nat : m = 32767
  BY SMT
<1>2. Reading = -m .. m
  BY <1>1, SMT DEF Reading
<1>3. \A n : n \in -m .. m <=> n \in Int /\ -m <= n /\ n <= m
  BY SMT
<1>4. \A n : n \in Reading <=> n \in Int /\ -m <= n /\ n <= m
  BY <1>2, <1>3, Zenon
<1> QED
  BY <1>1, <1>4, SMT

LEMMA WordIs == \A n : n \in Word <=> n \in Int /\ 0 <= n /\ n <= 65535
<1>1. PICK m \in Nat : m = 65535
  BY SMT
<1>2. Word = 0 .. m
  BY <1>1, SMT DEF Word
<1>3. \A n : n \in 0 .. m <=> n \in Int /\ 0 <= n /\ n <= m
  BY SMT
<1>4. \A n : n \in Word <=> n \in Int /\ 0 <= n /\ n <= m
  BY <1>2, <1>3, Zenon
<1> QED
  BY <1>1, <1>4, SMT

LEMMA SecondsIs == \A n : n \in Seconds <=> n \in Int /\ 1 <= n /\ n <= 65535
<1>1. PICK m \in Nat : m = 65535
  BY SMT
<1>2. Seconds = 1 .. m
  BY <1>1, SMT DEF Seconds
<1>3. \A n : n \in 1 .. m <=> n \in Int /\ 1 <= n /\ n <= m
  BY SMT
<1>4. \A n : n \in Seconds <=> n \in Int /\ 1 <= n /\ n <= m
  BY <1>2, <1>3, Zenon
<1> QED
  BY <1>1, <1>4, SMT

LEMMA ReadingBounds ==
    ASSUME NEW n \in Reading
    PROVE  n \in Int /\ -32767 <= n /\ n <= 32767
BY ReadingIs, SMT

LEMMA WordBounds ==
    ASSUME NEW n \in Word
    PROVE  n \in Nat /\ n <= 65535
BY WordIs, SMT

\* The negation by hand in 16 bits is undone by the one of the other side.
LEMMA SignedHeard ==
    ASSUME NEW n \in Int, -32767 <= n, n <= 32767
    PROVE  Signed(n) \in Nat /\ FromSigned(Signed(n)) = n
<1>1. CASE n < 0
  <2>1. Signed(n) = 65536 + n
    BY <1>1 DEF Signed
  <2>2. (65536 + n) \div 32768 = 1
    BY <1>1
  <2>3. Bit(65536 + n, 15)
    BY <2>2, Powers, SMT DEF Bit
  <2>4. FromSigned(65536 + n) = -(65535 - (65536 + n - 1))
    BY <2>3 DEF FromSigned
  <2> QED
    BY <1>1, <2>1, <2>4
<1>2. CASE n >= 0
  <2>1. Signed(n) = n
    BY <1>2 DEF Signed
  <2>2. n \div 32768 = 0
    BY <1>2
  <2>3. ~Bit(n, 15)
    BY <2>2, Powers, SMT DEF Bit
  <2> QED
    BY <1>2, <2>1, <2>3 DEF FromSigned
<1> QED
  BY <1>1, <1>2

\* The flags of a byte do not disturb one another.
LEMMA FlagsHeard ==
    ASSUME NEW a \in BOOLEAN, NEW b \in BOOLEAN, NEW c \in BOOLEAN,
           NEW n, n = Weight(a, 0) + Weight(b, 1) + Weight(c, 2)
    PROVE  n \in 0 .. 7 /\ Bit(n, 0) = a /\ Bit(n, 1) = b /\ Bit(n, 2) = c
<1>1. /\ Weight(a, 0) = IF a THEN 1 ELSE 0
      /\ Weight(b, 1) = IF b THEN 2 ELSE 0
      /\ Weight(c, 2) = IF c THEN 4 ELSE 0
  BY Powers DEF Weight
<1> DEFINE x == IF a THEN 1 ELSE 0
           y == IF b THEN 2 ELSE 0
           z == IF c THEN 4 ELSE 0
<1>2. /\ x \in {0, 1} /\ (x = 1 <=> a)
      /\ y \in {0, 2} /\ (y = 2 <=> b)
      /\ z \in {0, 4} /\ (z = 4 <=> c)
  BY SMT
<1>3. n = x + y + z
  BY <1>1
<1> HIDE DEF x, y, z
<1>4. n \in 0 .. 7
  BY <1>2, <1>3
<1>5. Bit(n, 0) <=> x = 1
  BY <1>2, <1>3, Powers, SMT DEF Bit
<1>6. Bit(n, 1) <=> y = 2
  BY <1>2, <1>3, Powers, SMT DEF Bit
<1>7. Bit(n, 2) <=> z = 4
  BY <1>2, <1>3, Powers, SMT DEF Bit
<1>8. Bit(n, 0) \in BOOLEAN /\ Bit(n, 1) \in BOOLEAN /\ Bit(n, 2) \in BOOLEAN
  BY Zenon DEF Bit
<1>9. (Bit(n, 0) <=> a) /\ (Bit(n, 1) <=> b) /\ (Bit(n, 2) <=> c)
  BY <1>2, <1>5, <1>6, <1>7, Zenon
<1> QED
  BY <1>4, <1>8, <1>9, Zenon

LEMMA PutAt ==
    ASSUME NEW buf, NEW at, NEW bytes, NEW i \in Places
    PROVE  Put(buf, at, bytes)[i] =
               IF i \in at .. at + Len(bytes) - 1 THEN bytes[i - at + 1] ELSE buf[i]
BY DEF Put

\* A word after bytes.
LEMMA WordAppended ==
    ASSUME NEW s \in Seq(Int), NEW n \in Nat, NEW k \in Nat, Len(s) = k
    PROVE  /\ s \o U16(n) \in Seq(Int) /\ Len(s \o U16(n)) = k + 2
           /\ (s \o U16(n))[k + 1] = U16(n)[1] /\ (s \o U16(n))[k + 2] = U16(n)[2]
           /\ \A i \in 1 .. k : (s \o U16(n))[i] = s[i]
<1> DEFINE w == U16(n)
<1>1. w \in Seq(Int) /\ Len(w) = 2
  BY BytesOfWord
<1> HIDE DEF w
<1>2. /\ s \o w \in Seq(Int) /\ Len(s \o w) = Len(s) + Len(w)
      /\ \A i \in 1 .. Len(s) + Len(w) : (s \o w)[i] = IF i <= Len(s) THEN s[i] ELSE w[i - Len(s)]
  BY <1>1, ConcatProperties
<1>3. (s \o w)[k + 1] = w[1] /\ (s \o w)[k + 2] = w[2]
  BY <1>1, <1>2, SMT
<1>4. \A i \in 1 .. k : (s \o w)[i] = s[i]
  BY <1>1, <1>2, SMT
<1> QED
  BY <1>1, <1>2, <1>3, <1>4 DEF w
-----------------------------------------------------------------------------
(* Answers of the temperature and of the watchdog: words after two bytes *)

\* words[0 .. k - 1] after two bytes.
Carries(s, k, words) ==
    /\ s \in Seq(Int) /\ Len(s) = 2 + 2 * k
    /\ \A i \in 0 .. k - 1 : s[3 + 2 * i] + 256 * s[4 + 2 * i] = words[i]

LEMMA CarriesMore ==
    ASSUME NEW s, NEW k \in Nat, NEW words, Carries(s, k, words), NEW n \in Nat, n = words[k]
    PROVE  /\ Carries(s \o U16(n), k + 1, words)
           /\ (s \o U16(n))[1] = s[1] /\ (s \o U16(n))[2] = s[2]
<1> DEFINE r == s \o U16(n)
           m == 2 + 2 * k
<1>1. s \in Seq(Int) /\ Len(s) = m /\ m \in Nat
  BY DEF Carries
<1>2. /\ r \in Seq(Int) /\ Len(r) = m + 2
      /\ r[m + 1] = U16(n)[1] /\ r[m + 2] = U16(n)[2]
      /\ \A i \in 1 .. m : r[i] = s[i]
  <2> HIDE DEF m
  <2> QED
    BY <1>1, WordAppended, ZenonT(60)
<1> HIDE DEF r
<1>3. ASSUME NEW i \in 0 .. k PROVE r[3 + 2 * i] + 256 * r[4 + 2 * i] = words[i]
  <2>1. CASE i = k
    <3>1. r[3 + 2 * i] = U16(n)[1] /\ r[4 + 2 * i] = U16(n)[2]
      BY <1>2, <2>1
    <3>2. U16(n)[1] + 256 * U16(n)[2] = n
      BY BytesOfWord
    <3> QED
      BY <2>1, <3>1, <3>2
  <2>2. CASE i # k
    <3>1. i \in 0 .. k - 1 /\ 3 + 2 * i \in 1 .. 2 + 2 * k /\ 4 + 2 * i \in 1 .. 2 + 2 * k
      BY <2>2
    <3>2. r[3 + 2 * i] = s[3 + 2 * i] /\ r[4 + 2 * i] = s[4 + 2 * i]
      BY <1>2, <3>1
    <3> QED
      BY <3>1, <3>2 DEF Carries
  <2> QED
    BY <2>1, <2>2
<1>4. r[1] = s[1] /\ r[2] = s[2]
  BY <1>2
<1>5. Len(r) = 2 + 2 * (k + 1) /\ (k + 1) - 1 = k
  BY <1>2
<1>6. Carries(r, k + 1, words)
  BY <1>2, <1>3, <1>5 DEF Carries
<1> QED
  BY <1>4, <1>6 DEF r

LEMMA CarriesNone ==
    ASSUME NEW a \in Int, NEW b \in Int, NEW words
    PROVE  Carries(<<a, b>>, 0, words) /\ <<a, b>>[1] = a /\ <<a, b>>[2] = b
BY DEF Carries

LEMMA PutFirst ==
    ASSUME NEW buf, NEW bytes, Len(bytes) \in Nat, NEW i \in Places, i < Len(bytes)
    PROVE  Put(buf, 0, bytes)[i] = bytes[i + 1]
<1>1. i \in Nat
  BY DEF Places
<1>2. i \in 0 .. 0 + Len(bytes) - 1 /\ i - 0 + 1 = i + 1
  BY <1>1
<1> QED
  BY <1>2, PutAt

\* A word that was put is the word that is read.
LEMMA WordHeard ==
    ASSUME NEW s, NEW k \in 0 .. 7, NEW words, Carries(s, k, words), NEW buf, NEW i \in 0 .. k - 1
    PROVE  FromU16(Put(buf, 0, s), 2 + 2 * i) = words[i]
<1> DEFINE n == 2 + 2 * k
           a == 2 + 2 * i
           b == 2 + 2 * i + 1
<1>1. n \in Nat /\ Len(s) = n
  BY DEF Carries
<1>2. a \in Places /\ b \in Places /\ a < n /\ b < n /\ a + 1 = 3 + 2 * i /\ b + 1 = 4 + 2 * i
  BY DEF Places
<1>3. s[3 + 2 * i] + 256 * s[4 + 2 * i] = words[i]
  BY DEF Carries
<1>4. FromU16(Put(buf, 0, s), a) = Put(buf, 0, s)[a] + 256 * Put(buf, 0, s)[b]
  BY DEF FromU16
<1> HIDE DEF n, a, b
<1>5. Put(buf, 0, s)[a] = s[a + 1] /\ Put(buf, 0, s)[b] = s[b + 1]
  BY <1>1, <1>2, PutFirst
<1> QED
  BY <1>2, <1>3, <1>4, <1>5 DEF a

LEMMA FirstHeard ==
    ASSUME NEW s, NEW k \in 0 .. 7, NEW words, Carries(s, k, words), NEW buf
    PROVE  Put(buf, 0, s)[0] = s[1] /\ Put(buf, 0, s)[1] = s[2]
<1> DEFINE n == 2 + 2 * k
<1>1. n \in Nat /\ Len(s) = n /\ 0 < n /\ 1 < n
  BY DEF Carries
<1>2. 0 \in Places /\ 1 \in Places /\ 0 + 1 = 1 /\ 1 + 1 = 2
  BY DEF Places
<1> HIDE DEF n
<1>3. Put(buf, 0, s)[0] = s[0 + 1] /\ Put(buf, 0, s)[1] = s[1 + 1]
  BY <1>1, <1>2, PutFirst
<1> QED
  BY <1>2, <1>3

WithTwo(a, b, words) == <<a, b>> \o U16(words[0]) \o U16(words[1])

LEMMA TwoWords ==
    ASSUME NEW a \in Int, NEW b \in Int, NEW words, words[0] \in Nat, words[1] \in Nat
    PROVE  /\ Carries(WithTwo(a, b, words), 2, words)
           /\ WithTwo(a, b, words)[1] = a /\ WithTwo(a, b, words)[2] = b
<1> DEFINE s0 == <<a, b>>
           s1 == s0 \o U16(words[0])
           s2 == s1 \o U16(words[1])
<1>1. Carries(s0, 0, words) /\ s0[1] = a /\ s0[2] = b
  BY CarriesNone
<1> HIDE DEF s0
<1>2. Carries(s1, 0 + 1, words) /\ s1[1] = a /\ s1[2] = b
  BY <1>1, CarriesMore
<1>3. 0 + 1 = 1 /\ 1 + 1 = 2
  OBVIOUS
<1> HIDE DEF s1
<1>4. Carries(s2, 1 + 1, words) /\ s2[1] = a /\ s2[2] = b
  BY <1>2, <1>3, CarriesMore
<1> QED
  BY <1>3, <1>4, Zenon DEF WithTwo, s2, s1, s0

WithSeven(a, b, words) ==
    <<a, b>> \o U16(words[0]) \o U16(words[1]) \o U16(words[2])
             \o U16(words[3]) \o U16(words[4]) \o U16(words[5]) \o U16(words[6])

LEMMA SevenWords ==
    ASSUME NEW a \in Int, NEW b \in Int, NEW words, \A i \in 0 .. 6 : words[i] \in Nat
    PROVE  /\ Carries(WithSeven(a, b, words), 7, words)
           /\ WithSeven(a, b, words)[1] = a /\ WithSeven(a, b, words)[2] = b
<1> DEFINE s2 == WithTwo(a, b, words)
           s3 == s2 \o U16(words[2])
           s4 == s3 \o U16(words[3])
           s5 == s4 \o U16(words[4])
           s6 == s5 \o U16(words[5])
           s7 == s6 \o U16(words[6])
<1>1. /\ words[0] \in Nat /\ words[1] \in Nat /\ words[2] \in Nat /\ words[3] \in Nat
      /\ words[4] \in Nat /\ words[5] \in Nat /\ words[6] \in Nat
  OBVIOUS
<1>2. 2 + 1 = 3 /\ 3 + 1 = 4 /\ 4 + 1 = 5 /\ 5 + 1 = 6 /\ 6 + 1 = 7
  OBVIOUS
<1>3. Carries(s2, 2, words) /\ s2[1] = a /\ s2[2] = b
  BY <1>1, TwoWords
<1> HIDE DEF s2
<1>4. Carries(s3, 2 + 1, words) /\ s3[1] = a /\ s3[2] = b
  BY <1>2, <1>1, <1>3, CarriesMore, ZenonT(60)
<1> HIDE DEF s3
<1>5. Carries(s4, 3 + 1, words) /\ s4[1] = a /\ s4[2] = b
  BY <1>2, <1>1, <1>4, CarriesMore, ZenonT(60)
<1> HIDE DEF s4
<1>6. Carries(s5, 4 + 1, words) /\ s5[1] = a /\ s5[2] = b
  BY <1>2, <1>1, <1>5, CarriesMore, ZenonT(60)
<1> HIDE DEF s5
<1>7. Carries(s6, 5 + 1, words) /\ s6[1] = a /\ s6[2] = b
  BY <1>2, <1>1, <1>6, CarriesMore, ZenonT(60)
<1> HIDE DEF s6
<1>8. Carries(s7, 6 + 1, words) /\ s7[1] = a /\ s7[2] = b
  BY <1>2, <1>1, <1>7, CarriesMore, ZenonT(60)
<1> QED
  BY <1>2, <1>8, Zenon DEF WithSeven, WithTwo, s7, s6, s5, s4, s3, s2

ReadingSet == [Sensors -> Reading]
SpeedSet == [Fans -> Word]

LEMMA ReadingHeard ==
    ASSUME NEW t \in ReadingSet, NEW i \in Sensors
    PROVE  Signed(t[i]) \in Nat /\ FromSigned(Signed(t[i])) = t[i]
<1>1. t[i] \in Reading
  BY DEF ReadingSet
<1> QED
  BY <1>1, ReadingBounds, SignedHeard

LEMMA SpeedIsNat == ASSUME NEW v \in SpeedSet PROVE v[1] \in Nat /\ v[2] \in Nat
<1>1. v[1] \in Word /\ v[2] \in Word
  BY DEF SpeedSet, Fans
<1> QED
  BY <1>1, WordBounds

LEMMA SameFunction ==
    ASSUME NEW S, NEW T, NEW f \in [S -> T], NEW g, g = [x \in S |-> g[x]],
           \A x \in S : g[x] = f[x]
    PROVE  g = f
OBVIOUS

TemperatureBytes(t, v) ==
    <<Magic.temperature, Weight(TRUE, 0)>>
        \o U16(Signed(t[0])) \o U16(Signed(t[1])) \o U16(Signed(t[2]))
        \o U16(Signed(t[3])) \o U16(Signed(t[4])) \o U16(v[1]) \o U16(v[2])

\* Every reading and speed arrives as it was taken.
LEMMA TemperatureHeard ==
    ASSUME NEW t \in ReadingSet, NEW v \in SpeedSet, NEW buf,
           NEW after, after = Put(buf, 0, TemperatureBytes(t, v))
    PROVE  /\ after[0] = Magic.temperature
           /\ Heard("temperature", after) =
                  [kind |-> "temperature", success |-> TRUE, readings |-> t, speeds |-> v]
<1> DEFINE words == [i \in 0 .. 6 |-> IF i <= 4 THEN Signed(t[i]) ELSE v[i - 4]]
           s == TemperatureBytes(t, v)
<1>1. Weight(TRUE, 0) = 1 /\ Magic.temperature = 65
  BY Powers DEF Weight, Magic
<1>2. \A i \in Sensors : words[i] = Signed(t[i])
  BY DEF Sensors
<1>3. words[5] = v[1] /\ words[6] = v[2]
  OBVIOUS
<1> HIDE DEF words
<1>4. 0 \in Sensors /\ 1 \in Sensors /\ 2 \in Sensors /\ 3 \in Sensors /\ 4 \in Sensors
  BY DEF Sensors
<1>5. Carries(s, 7, words) /\ s[1] = 65 /\ s[2] = 1
  <2>1. /\ Signed(t[0]) \in Nat /\ Signed(t[1]) \in Nat /\ Signed(t[2]) \in Nat
        /\ Signed(t[3]) \in Nat /\ Signed(t[4]) \in Nat
    BY <1>4, ReadingHeard
  <2>2. /\ words[0] = Signed(t[0]) /\ words[1] = Signed(t[1]) /\ words[2] = Signed(t[2])
        /\ words[3] = Signed(t[3]) /\ words[4] = Signed(t[4])
    BY <1>2, <1>4
  <2>3. s = <<65, 1>> \o U16(Signed(t[0])) \o U16(Signed(t[1])) \o U16(Signed(t[2]))
            \o U16(Signed(t[3])) \o U16(Signed(t[4])) \o U16(v[1]) \o U16(v[2])
    BY <1>1, Zenon DEF TemperatureBytes
  <2>4. 65 \in Int /\ 1 \in Int
    OBVIOUS
  <2>5. \A i \in 0 .. 6 : words[i] \in Nat
    BY <1>3, <2>1, <2>2, SpeedIsNat
  <2>6. /\ Carries(WithSeven(65, 1, words), 7, words)
        /\ WithSeven(65, 1, words)[1] = 65 /\ WithSeven(65, 1, words)[2] = 1
    BY <2>4, <2>5, SevenWords
  <2>7. s = WithSeven(65, 1, words)
    BY <1>3, <2>2, <2>3, Zenon DEF WithSeven
  <2> HIDE DEF s
  <2> QED
    BY <2>6, <2>7
<1>6. after = Put(buf, 0, s)
  BY Zenon
<1> HIDE DEF s
<1>7. after[0] = 65 /\ after[1] = 1
  BY <1>6, <1>5, FirstHeard
<1>8. \A i \in 0 .. 6 : FromU16(after, 2 + 2 * i) = words[i]
  BY <1>6, <1>5, WordHeard
<1>9. Bit(after[1], 0) = TRUE
  BY <1>7, Powers DEF Bit
<1>10. [i \in Sensors |-> FromSigned(FromU16(after, 2 + 2 * i))] = t
  <2> DEFINE g == [i \in Sensors |-> FromSigned(FromU16(after, 2 + 2 * i))]
  <2>1. ASSUME NEW i \in Sensors PROVE g[i] = t[i]
    <3>1. i \in 0 .. 6
      BY DEF Sensors
    <3>2. FromU16(after, 2 + 2 * i) = Signed(t[i])
      BY <1>2, <1>8, <3>1
    <3> QED
      BY <3>2, ReadingHeard
  <2>2. g = [i \in Sensors |-> g[i]]
    OBVIOUS
  <2> HIDE DEF g
  <2>3. g = t
    BY <2>1, <2>2, SameFunction DEF ReadingSet
  <2> QED
    BY <2>3 DEF g
<1>11. [f \in Fans |-> FromU16(after, 10 + 2 * f)] = v
  <2> DEFINE g == [f \in Fans |-> FromU16(after, 10 + 2 * f)]
  <2>1. FromU16(after, 2 + 2 * 5) = v[1] /\ FromU16(after, 2 + 2 * 6) = v[2]
    BY <1>3, <1>8
  <2>2. 2 + 2 * 5 = 10 + 2 * 1 /\ 2 + 2 * 6 = 10 + 2 * 2
    OBVIOUS
  <2>3. ASSUME NEW f \in Fans PROVE g[f] = v[f]
    BY <2>1, <2>2 DEF Fans
  <2>4. g = [f \in Fans |-> g[f]]
    OBVIOUS
  <2> HIDE DEF g
  <2>5. g = v
    BY <2>3, <2>4, SameFunction DEF SpeedSet
  <2> QED
    BY <2>5 DEF g
<1>12. Heard("temperature", after) =
           [kind |-> "temperature", success |-> Bit(after[1], 0),
            readings |-> [i \in Sensors |-> FromSigned(FromU16(after, 2 + 2 * i))],
            speeds |-> [f \in Fans |-> FromU16(after, 10 + 2 * f)]]
  BY Zenon DEF Heard
<1> QED
  BY <1>1, <1>7, <1>9, <1>10, <1>11, <1>12, Zenon

LEMMA PutBelow ==
    ASSUME NEW buf, NEW at \in Nat, NEW bytes, NEW i \in Places, i < at
    PROVE  Put(buf, at, bytes)[i] = buf[i]
<1>1. i \notin at .. at + Len(bytes) - 1
  BY DEF Places
<1> QED
  BY <1>1, PutAt

LEMMA PutFrom ==
    ASSUME NEW buf, NEW at \in Nat, NEW bytes, Len(bytes) \in Nat,
           NEW i \in Places, at <= i, i < at + Len(bytes)
    PROVE  Put(buf, at, bytes)[i] = bytes[i - at + 1]
<1>1. i \in at .. at + Len(bytes) - 1
  BY DEF Places
<1> QED
  BY <1>1, PutAt

Watchdogs == [enable : BOOLEAN, timeout : Word, retries : Word]

LEMMA SecondsAreWords == ASSUME NEW n \in Seconds PROVE n \in Word /\ n \in Nat /\ 1 <= n
<1>1. n \in Int /\ 1 <= n /\ n <= 65535
  BY SecondsIs, SMT
<1>2. n \in Word
  BY <1>1, WordIs, SMT
<1> QED
  BY <1>1, <1>2, SMT

LEMMA WatchdogFields ==
    ASSUME NEW s \in Watchdogs
    PROVE  /\ s.enable \in BOOLEAN /\ s.timeout \in Nat /\ s.retries \in Nat
           /\ s = [enable |-> s.enable, timeout |-> s.timeout, retries |-> s.retries]
<1>1. s.timeout \in Word /\ s.retries \in Word
  BY DEF Watchdogs
<1>2. s.enable \in BOOLEAN
  BY Zenon DEF Watchdogs
<1>3. s = [enable |-> s.enable, timeout |-> s.timeout, retries |-> s.retries]
  BY DEF Watchdogs
<1> QED
  BY <1>1, <1>2, <1>3, WordBounds

LEMMA AddZero ==
    ASSUME NEW a \in Int, NEW b \in Int, NEW z, z = 0
    PROVE  a + z + b = a + b /\ a + b + z = a + b /\ a + z = a
OBVIOUS

LEMMA WatchdogFlags ==
    ASSUME NEW w \in BOOLEAN, NEW c \in BOOLEAN, NEW n, n = Weight(w, 0) + Weight(c, 2)
    PROVE  n \in 0 .. 7 /\ Bit(n, 0) = w /\ Bit(n, 2) = c
<1>1. Weight(FALSE, 1) = 0
  BY DEF Weight
<1>2. Weight(w, 0) \in Int /\ Weight(c, 2) \in Int
  BY Powers DEF Weight
<1>3. n = Weight(w, 0) + Weight(FALSE, 1) + Weight(c, 2)
  BY <1>1, <1>2, AddZero, Zenon
<1>4. FALSE \in BOOLEAN
  BY Zenon
<1> QED
  BY <1>3, <1>4, FlagsHeard, ZenonT(60)

LEMMA TwoFlags ==
    ASSUME NEW a \in BOOLEAN, NEW b \in BOOLEAN, NEW n, n = Weight(a, 0) + Weight(b, 1)
    PROVE  n \in 0 .. 7 /\ Bit(n, 0) = a /\ Bit(n, 1) = b
<1>1. Weight(FALSE, 2) = 0
  BY DEF Weight
<1>2. Weight(a, 0) \in Int /\ Weight(b, 1) \in Int
  BY Powers DEF Weight
<1>3. n = Weight(a, 0) + Weight(b, 1) + Weight(FALSE, 2)
  BY <1>1, <1>2, AddZero, ZenonT(60)
<1>4. FALSE \in BOOLEAN
  BY Zenon
<1> QED
  BY <1>3, <1>4, FlagsHeard, ZenonT(60)

LEMMA OneFlag ==
    ASSUME NEW a \in BOOLEAN
    PROVE  Weight(a, 0) \in 0 .. 1 /\ Bit(Weight(a, 0), 0) = a
<1>1. Weight(FALSE, 1) = 0 /\ FALSE \in BOOLEAN
  BY Zenon DEF Weight
<1>2. Weight(a, 0) \in 0 .. 1
  BY Powers DEF Weight
<1>3. Weight(a, 0) \in Int
  BY <1>2
<1>4. Weight(a, 0) = Weight(a, 0) + Weight(FALSE, 1)
  BY <1>1, <1>3, AddZero, Zenon
<1>5. Bit(Weight(a, 0), 0) = a
  BY <1>1, <1>4, TwoFlags, Zenon
<1> QED
  BY <1>2, <1>5

\* What the host makes of an answer about the watchdog is what the Pico put there,
\* whatever the buffer held.
LEMMA WatchdogHeard ==
    ASSUME NEW w \in BOOLEAN, NEW ok \in BOOLEAN, NEW s \in Watchdogs
    PROVE  /\ WatchdogAnswer(w, ok, s)[0] = Magic.watchdog
           /\ Heard("watchdog", WatchdogAnswer(w, ok, s)) =
                  [kind |-> "watchdog", write |-> w, success |-> ok, settings |-> s]
<1> DEFINE words == [i \in 0 .. 1 |-> IF i = 0 THEN s.timeout ELSE s.retries]
           flags == Weight(w, 0) + Weight(ok, 1) + Weight(s.enable, 2)
           bytes == <<Magic.watchdog, flags>> \o U16(s.timeout) \o U16(s.retries)
           inner == Put(resp, 0, bytes)
           after == WatchdogAnswer(w, ok, s)
<1>1. /\ s.enable \in BOOLEAN /\ s.timeout \in Nat /\ s.retries \in Nat
      /\ s = [enable |-> s.enable, timeout |-> s.timeout, retries |-> s.retries]
  BY WatchdogFields
<1>2. flags \in 0 .. 7 /\ Bit(flags, 0) = w /\ Bit(flags, 1) = ok /\ Bit(flags, 2) = s.enable
  BY <1>1, FlagsHeard, Zenon
<1>3. words[0] = s.timeout /\ words[1] = s.retries
  OBVIOUS
<1>4. after = Put(inner, 6, [i \in 1 .. 10 |-> 0])
  BY DEF WatchdogAnswer
<1> HIDE DEF flags, words, after
<1>5. Magic.watchdog = 67
  BY DEF Magic
<1>6. Carries(bytes, 2, words) /\ bytes[1] = 67 /\ bytes[2] = flags
  <2>1. 67 \in Int /\ flags \in Int
    BY <1>2
  <2>2. bytes = WithTwo(67, flags, words)
    BY <1>3, <1>5, Zenon DEF WithTwo
  <2>3. words[0] \in Nat /\ words[1] \in Nat
    BY <1>1, <1>3
  <2> DEFINE r == WithTwo(67, flags, words)
  <2>4. Carries(r, 2, words) /\ r[1] = 67 /\ r[2] = flags
    BY <2>1, <2>3, TwoWords
  <2> HIDE DEF bytes, r
  <2> QED
    BY <2>2, <2>4 DEF r
<1> HIDE DEF bytes
<1>7. inner[0] = 67 /\ inner[1] = flags
  BY <1>6, FirstHeard
<1>8. FromU16(inner, 2) = s.timeout /\ FromU16(inner, 4) = s.retries
  <2>1. FromU16(inner, 2 + 2 * 0) = words[0] /\ FromU16(inner, 2 + 2 * 1) = words[1]
    BY <1>6, WordHeard
  <2>2. 2 + 2 * 0 = 2 /\ 2 + 2 * 1 = 4
    OBVIOUS
  <2> QED
    BY <1>3, <2>1, <2>2
<1> HIDE DEF inner
<1>9. \A i \in 0 .. 5 : after[i] = inner[i]
  BY <1>4, PutBelow DEF Places
<1>10. after[0] = 67 /\ after[1] = flags
  BY <1>7, <1>9
<1>11. FromU16(after, 2) = s.timeout /\ FromU16(after, 4) = s.retries
  BY <1>8, <1>9 DEF FromU16
<1>12. WatchdogOf(after) = s
  <2>1. WatchdogOf(after) =
            [enable |-> Bit(flags, 2), timeout |-> FromU16(after, 2), retries |-> FromU16(after, 4)]
    BY <1>10, Zenon DEF WatchdogOf
  <2> QED
    BY <1>1, <1>2, <1>11, <2>1, Zenon
<1>13. Heard("watchdog", after) =
           [kind |-> "watchdog", write |-> Bit(after[1], 0), success |-> Bit(after[1], 1),
            settings |-> WatchdogOf(after)]
  BY Zenon DEF Heard
<1>14. Heard("watchdog", after) =
           [kind |-> "watchdog", write |-> w, success |-> ok, settings |-> s]
  BY <1>2, <1>10, <1>12, <1>13, Zenon
<1> QED
  BY <1>5, <1>10, <1>14 DEF after

Pair(v, w) == U16(v) \o U16(w)

LEMMA WordPair ==
    ASSUME NEW v \in Nat, NEW w \in Nat
    PROVE  /\ Len(Pair(v, w)) = 4 /\ \A i \in 1 .. 4 : Pair(v, w)[i] \in Nat
           /\ Pair(v, w)[1] + 256 * Pair(v, w)[2] = v
           /\ Pair(v, w)[3] + 256 * Pair(v, w)[4] = w
<1> DEFINE p == Pair(v, w)
<1>1. /\ U16(v) \in Seq(Int) /\ Len(U16(v)) = 2
      /\ U16(v)[1] \in Nat /\ U16(v)[2] \in Nat /\ U16(v)[1] + 256 * U16(v)[2] = v
      /\ U16(w)[1] \in Nat /\ U16(w)[2] \in Nat /\ U16(w)[1] + 256 * U16(w)[2] = w
  BY BytesOfWord
<1>2. /\ Len(p) = 2 + 2 /\ p[2 + 1] = U16(w)[1] /\ p[2 + 2] = U16(w)[2]
      /\ \A i \in 1 .. 2 : p[i] = U16(v)[i]
  <2> DEFINE k == Len(U16(v))
  <2>1. /\ Len(p) = k + 2 /\ p[k + 1] = U16(w)[1] /\ p[k + 2] = U16(w)[2]
        /\ \A i \in 1 .. k : p[i] = U16(v)[i]
    <3>1. U16(v) \in Seq(Int) /\ Len(U16(v)) \in Nat
      BY <1>1
    <3> QED
      BY <3>1, WordAppended DEF Pair
  <2> QED
    BY <1>1, <2>1
<1> HIDE DEF p
<1>3. p[1] = U16(v)[1] /\ p[2] = U16(v)[2] /\ p[3] = U16(w)[1] /\ p[4] = U16(w)[2] /\ Len(p) = 4
  BY <1>2
<1>4. \A i \in 1 .. 4 : p[i] \in Nat
  <2>1. p[1] \in Nat /\ p[2] \in Nat /\ p[3] \in Nat /\ p[4] \in Nat
    BY <1>1, <1>3
  <2>2. \A i \in 1 .. 4 : i = 1 \/ i = 2 \/ i = 3 \/ i = 4
    OBVIOUS
  <2> QED
    BY <2>1, <2>2, Zenon
<1>5. p[1] + 256 * p[2] = v /\ p[3] + 256 * p[4] = w
  BY <1>1, <1>3
<1> QED
  BY <1>3, <1>4, <1>5 DEF p

LEMMA ArmedFields ==
    ASSUME NEW s \in Armed
    PROVE  s \in Watchdogs /\ s.timeout \in Nat /\ 1 <= s.timeout
<1>1. s.timeout \in Seconds /\ s.retries \in Word
  BY DEF Armed
<1>2. s.timeout \in Word /\ s.timeout \in Nat /\ 1 <= s.timeout
  BY <1>1, SecondsAreWords
<1>3. s.enable \in BOOLEAN
  BY Zenon DEF Armed
<1>4. s = [enable |-> s.enable, timeout |-> s.timeout, retries |-> s.retries]
  BY DEF Armed
<1>5. s \in Watchdogs
  BY <1>1, <1>2, <1>3, <1>4, Zenon DEF Watchdogs
<1> QED
  BY <1>2, <1>5

\* The bytes of a request about the watchdog: a write has its numbers where they are
\* read.
LEMMA WatchdogRequestBytes ==
    ASSUME NEW write \in BOOLEAN, NEW s \in Watchdogs, NEW buf, buf = WatchdogRequest(write, s)
    PROVE  /\ \A i \in Places : buf[i] \in Nat
           /\ buf[0] = 67 /\ Bit(buf[1], 0) = write /\ Bit(buf[1], 2) = s.enable
           /\ write => FromU16(buf, 2) = s.timeout /\ FromU16(buf, 4) = s.retries
<1> DEFINE flags == Weight(write, 0) + Weight(s.enable, 2)
           head == <<67, flags>>
           inner == Put(Zeros, 0, head)
           words == Pair(s.timeout, s.retries)
<1>1. s.enable \in BOOLEAN /\ s.timeout \in Nat /\ s.retries \in Nat
  BY WatchdogFields
<1>2. flags \in 0 .. 7 /\ Bit(flags, 0) = write /\ Bit(flags, 2) = s.enable
  BY <1>1, WatchdogFlags
<1>3. Magic.watchdog = 67
  BY DEF Magic
<1>4. buf = Put(inner, 2, IF write THEN words ELSE <<>>)
  BY <1>3, Zenon DEF WatchdogRequest, Pair
<1> HIDE DEF flags
<1>5. Len(head) = 2 /\ head[1] = 67 /\ head[2] = flags
  OBVIOUS
<1> HIDE DEF head
<1>6. \A i \in Places : inner[i] = IF i = 0 THEN 67 ELSE IF i = 1 THEN flags ELSE 0
  <2>1. ASSUME NEW i \in Places, i < 2 PROVE inner[i] = head[i + 1]
    <3>1. Len(head) \in Nat /\ i < Len(head)
      BY <1>5, <2>1
    <3> QED
      BY <3>1, PutFirst
  <2>2. ASSUME NEW i \in Places, ~(i < 2) PROVE inner[i] = 0
    <3>1. i \notin 0 .. 0 + Len(head) - 1
      BY <1>5, <2>2
    <3>2. inner[i] = Zeros[i]
      BY <3>1, PutAt
    <3> QED
      BY <3>2 DEF Zeros
  <2>3. ASSUME NEW i \in Places
        PROVE  inner[i] = IF i = 0 THEN 67 ELSE IF i = 1 THEN flags ELSE 0
    <3>1. i \in Nat
      BY DEF Places
    <3>2. CASE i = 0
      BY <1>5, <2>1, <3>2
    <3>3. CASE i = 1
      BY <1>5, <2>1, <3>3
    <3>4. CASE i # 0 /\ i # 1
      BY <2>2, <3>1, <3>4
    <3> QED
      BY <3>2, <3>3, <3>4
  <2> QED
    BY <2>3
<1>7. \A i \in Places : inner[i] \in Nat
  BY <1>2, <1>6
<1> HIDE DEF inner
<1>8. buf[0] = 67 /\ buf[1] = flags
  BY <1>4, <1>6, PutBelow DEF Places
<1>9. CASE write
  <2>1. /\ Len(words) = 4 /\ \A i \in 1 .. 4 : words[i] \in Nat
        /\ words[1] + 256 * words[2] = s.timeout /\ words[3] + 256 * words[4] = s.retries
    <3>1. PICK v \in Nat : v = s.timeout
      BY <1>1
    <3>2. PICK w \in Nat : w = s.retries
      BY <1>1
    <3>3. words = Pair(v, w)
      BY <3>1, <3>2
    <3> HIDE DEF words
    <3>4. /\ Len(Pair(v, w)) = 4 /\ \A i \in 1 .. 4 : Pair(v, w)[i] \in Nat
          /\ Pair(v, w)[1] + 256 * Pair(v, w)[2] = v /\ Pair(v, w)[3] + 256 * Pair(v, w)[4] = w
      BY WordPair
    <3> QED
      BY <3>1, <3>2, <3>3, <3>4, Zenon
  <2> HIDE DEF words
  <2>2. buf = Put(inner, 2, words)
    BY <1>4, <1>9, Zenon
  <2>3. ASSUME NEW i \in Places, 2 <= i, i < 2 + 4 PROVE buf[i] = words[i - 2 + 1]
    <3>1. 2 \in Nat /\ Len(words) \in Nat /\ 2 <= i /\ i < 2 + Len(words)
      BY <2>1, <2>3
    <3> QED
      BY <2>2, <3>1, PutFrom
  <2>4. /\ 2 \in Places /\ 3 \in Places /\ 4 \in Places /\ 5 \in Places
        /\ 2 - 2 + 1 = 1 /\ 3 - 2 + 1 = 2 /\ 4 - 2 + 1 = 3 /\ 5 - 2 + 1 = 4
    BY DEF Places
  <2>5. buf[2] = words[1] /\ buf[3] = words[2] /\ buf[4] = words[3] /\ buf[5] = words[4]
    BY <2>3, <2>4
  <2>6. 2 + 1 = 3 /\ 4 + 1 = 5
    OBVIOUS
  <2>7. FromU16(buf, 2) = s.timeout /\ FromU16(buf, 4) = s.retries
    BY <2>1, <2>5, <2>6 DEF FromU16
  <2>8. ASSUME NEW i \in Places PROVE buf[i] \in Nat
    <3>1. i \in Nat
      BY DEF Places
    <3>2. CASE 2 <= i /\ i < 2 + 4
      <4>1. i - 2 + 1 \in 1 .. 4
        BY <3>1, <3>2
      <4> QED
        BY <2>1, <2>3, <3>2, <4>1
    <3>3. CASE ~(2 <= i /\ i < 2 + 4)
      <4>1. i \notin 2 .. 2 + Len(words) - 1
        BY <2>1, <3>1, <3>3
      <4>2. buf[i] = inner[i]
        BY <2>2, <4>1, PutAt
      <4> QED
        BY <1>7, <4>2
    <3> QED
      BY <3>2, <3>3
  <2> QED
    BY <1>2, <1>8, <2>7, <2>8
<1>10. CASE ~write
  <2>1. buf = Put(inner, 2, <<>>)
    BY <1>4, <1>10, Zenon
  <2>2. ASSUME NEW i \in Places PROVE buf[i] \in Nat
    <3>1. i \notin 2 .. 2 + Len(<<>>) - 1
      BY DEF Places
    <3>2. buf[i] = inner[i]
      BY <2>1, <3>1, PutAt
    <3> QED
      BY <1>7, <3>2
  <2> QED
    BY <1>2, <1>8, <1>10, <2>2
<1> QED
  BY <1>9, <1>10

-----------------------------------------------------------------------------
(* Requests and answers about the fans *)

LEMMA TargetAddressed ==
    ASSUME NEW fs \in SUBSET Fans, NEW buf, buf[1] = Target(fs)
    PROVE  Addressed(buf) = fs
<1>1. (1 \in fs) \in BOOLEAN /\ (2 \in fs) \in BOOLEAN
  OBVIOUS
<1>2. Bit(Target(fs), 0) = (1 \in fs) /\ Bit(Target(fs), 1) = (2 \in fs)
  BY <1>1, TwoFlags, Zenon DEF Target
<1>3. 1 - 1 = 0 /\ 2 - 1 = 1
  OBVIOUS
<1>4. \A f \in Fans : f = 1 \/ f = 2
  BY DEF Fans
<1>5. \A f \in Fans : Bit(buf[1], f - 1) <=> f \in fs
  BY <1>2, <1>3, <1>4, Zenon
<1> QED
  BY <1>5 DEF Addressed

ThreeAnd(a, b, c, g) == <<a, b, c>> \o g

LEMMA ThreeThenFans ==
    ASSUME NEW a, NEW b, NEW c, NEW g, g = [f \in Fans |-> g[f]]
    PROVE  /\ Len(ThreeAnd(a, b, c, g)) = 5
           /\ ThreeAnd(a, b, c, g)[1] = a /\ ThreeAnd(a, b, c, g)[2] = b
           /\ ThreeAnd(a, b, c, g)[3] = c
           /\ ThreeAnd(a, b, c, g)[4] = g[1] /\ ThreeAnd(a, b, c, g)[5] = g[2]
<1> DEFINE S == {a, b, c, g[1], g[2]}
           h == <<a, b, c>>
<1>1. h \in Seq(S) /\ Len(h) = 3 /\ h[1] = a /\ h[2] = b /\ h[3] = c
  OBVIOUS
<1>2. Fans = 1 .. 2
  BY DEF Fans
<1>3. g \in Seq(S) /\ Len(g) = 2
  <2>1. \A f \in 1 .. 2 : g[f] \in S
    OBVIOUS
  <2>2. g = [f \in 1 .. 2 |-> g[f]]
    BY <1>2
  <2> HIDE DEF S
  <2> QED
    BY <2>1, <2>2
<1> HIDE DEF S, h
<1>4. /\ Len(h \o g) = Len(h) + Len(g)
      /\ \A i \in 1 .. Len(h) + Len(g) : (h \o g)[i] = IF i <= Len(h) THEN h[i] ELSE g[i - Len(h)]
  BY <1>1, <1>3, ConcatProperties
<1> DEFINE r == h \o g
<1>5. Len(r) = 5 /\ \A i \in 1 .. 5 : r[i] = IF i <= 3 THEN h[i] ELSE g[i - 3]
  <2> DEFINE m == Len(h)
             n == Len(g)
  <2>1. m = 3 /\ n = 2 /\ Len(r) = m + n
    BY <1>1, <1>3, <1>4
  <2>2. \A i \in 1 .. m + n : r[i] = IF i <= m THEN h[i] ELSE g[i - m]
    BY <1>4
  <2> HIDE DEF m, n, r
  <2> QED
    BY <2>1, <2>2
<1>6. r = ThreeAnd(a, b, c, g)
  BY DEF ThreeAnd, h
<1> HIDE DEF r
<1>7. r[1] = h[1] /\ r[2] = h[2] /\ r[3] = h[3] /\ r[4] = g[1] /\ r[5] = g[2]
  BY <1>5
<1> QED
  BY <1>1, <1>5, <1>6, <1>7

\* The bytes of a request about fans.
LEMMA FanRequestBytes ==
    ASSUME NEW write \in BOOLEAN, NEW fs \in SUBSET Fans, NEW q, DOMAIN q = fs,
           NEW buf, buf = FanRequest(write, q)
    PROVE  /\ buf[0] = 66 /\ Addressed(buf) = fs /\ Bit(buf[2], 0) = write
           /\ Percents(buf) = [f \in Fans |-> IF f \in fs THEN Packed[q[f]] ELSE 0]
<1> DEFINE head == <<Magic.fan, Target(DOMAIN q), Weight(write, 0)>>
           g == [f \in Fans |-> IF f \in DOMAIN q THEN Packed[q[f]] ELSE 0]
           inner == Put(Zeros, 0, head)
<1>1. buf = Put(inner, 3, g)
  BY DEF FanRequest
<1>2. /\ Len(head) = 3
      /\ head[1] = Magic.fan /\ head[2] = Target(DOMAIN q) /\ head[3] = Weight(write, 0)
  OBVIOUS
<1>3. Len(g) = 2
  <2>1. g = [f \in 1 .. 2 |-> IF f \in DOMAIN q THEN Packed[q[f]] ELSE 0]
    BY DEF Fans
  <2> QED
    BY <2>1
<1>4. \A f \in Fans : g[f] = IF f \in fs THEN Packed[q[f]] ELSE 0
  BY Zenon
<1> HIDE DEF head, g
<1>5. ASSUME NEW i \in Places, i < 3 PROVE buf[i] = head[i + 1]
  <2>1. inner[i] = head[i + 1]
    <3>1. Len(head) \in Nat /\ i < Len(head)
      BY <1>2, <1>5
    <3> QED
      BY <3>1, PutFirst
  <2>2. buf[i] = inner[i]
    BY <1>1, <1>5, PutBelow
  <2> QED
    BY <2>1, <2>2
<1> HIDE DEF inner
<1>6. /\ 0 \in Places /\ 1 \in Places /\ 2 \in Places /\ 3 \in Places /\ 4 \in Places
      /\ 0 + 1 = 1 /\ 1 + 1 = 2 /\ 2 + 1 = 3
  BY DEF Places
<1>7. buf[0] = Magic.fan /\ buf[1] = Target(DOMAIN q) /\ buf[2] = Weight(write, 0)
  BY <1>2, <1>5, <1>6
<1>8. ASSUME NEW i \in Places, 3 <= i, i < 3 + 2 PROVE buf[i] = g[i - 3 + 1]
  <2>1. 3 \in Nat /\ Len(g) \in Nat /\ 3 <= i /\ i < 3 + Len(g)
    BY <1>3, <1>8
  <2> QED
    BY <1>1, <2>1, PutFrom
<1>9. buf[2 + 1] = g[1] /\ buf[2 + 2] = g[2]
  BY <1>6, <1>8
<1>10. \A f \in Fans : f = 1 \/ f = 2
  BY DEF Fans
<1>11. \A f \in Fans : buf[2 + f] = IF f \in fs THEN Packed[q[f]] ELSE 0
  BY <1>4, <1>9, <1>10, Zenon
<1>12. Percents(buf) = [f \in Fans |-> IF f \in fs THEN Packed[q[f]] ELSE 0]
  BY <1>11, Zenon DEF Percents
<1>13. Addressed(buf) = fs
  BY <1>7, TargetAddressed
<1>14. Bit(buf[2], 0) = write
  BY <1>7, OneFlag
<1>15. Magic.fan = 66
  BY DEF Magic
<1> QED
  BY <1>7, <1>12, <1>13, <1>14, <1>15

\* The host reads of an answer about fans what the Pico put there, whatever the buffer
\* held.
LEMMA FanHeard ==
    ASSUME NEW w \in BOOLEAN, NEW ok \in BOOLEAN, NEW fs \in SUBSET Fans, NEW pct
    PROVE  /\ FanAnswer(fs, pct, w, ok)[0] = Magic.fan
           /\ Heard("fan", FanAnswer(fs, pct, w, ok)) =
                  [kind |-> "fan", write |-> w, success |-> ok, fans |-> fs,
                   percents |-> [f \in Fans |-> Packed[pct[f]]]]
<1> DEFINE flags == Weight(w, 0) + Weight(ok, 1)
           g == [f \in Fans |-> Packed[pct[f]]]
           s == ThreeAnd(Magic.fan, Target(fs), flags, g)
           inner == Put(resp, 0, s)
           after == FanAnswer(fs, pct, w, ok)
<1>1. after = Put(inner, 5, [i \in 1 .. 11 |-> 0])
  BY Zenon DEF FanAnswer, ThreeAnd
<1>2. Bit(flags, 0) = w /\ Bit(flags, 1) = ok
  BY TwoFlags, Zenon
<1>3. \A f \in Fans : g[f] = Packed[pct[f]]
  BY Zenon
<1>4. g = [f \in Fans |-> g[f]]
  BY Zenon
<1> HIDE DEF flags, g, after
<1>5. /\ Len(s) = 5 /\ s[1] = Magic.fan /\ s[2] = Target(fs) /\ s[3] = flags
      /\ s[4] = g[1] /\ s[5] = g[2]
  BY <1>4, ThreeThenFans
<1> HIDE DEF s
<1>6. ASSUME NEW i \in Places, i < 5 PROVE after[i] = s[i + 1]
  <2>1. inner[i] = s[i + 1]
    <3>1. Len(s) \in Nat /\ i < Len(s)
      BY <1>5, <1>6
    <3> QED
      BY <3>1, PutFirst
  <2>2. after[i] = inner[i]
    BY <1>1, <1>6, PutBelow
  <2> QED
    BY <2>1, <2>2
<1> HIDE DEF inner
<1>7. /\ 0 \in Places /\ 1 \in Places /\ 2 \in Places /\ 3 \in Places /\ 4 \in Places
      /\ 0 + 1 = 1 /\ 1 + 1 = 2 /\ 2 + 1 = 3 /\ 3 + 1 = 4 /\ 4 + 1 = 5
      /\ 2 + 2 = 4
  BY DEF Places
<1>8. after[0] = Magic.fan /\ after[1] = Target(fs) /\ after[2] = flags
  BY <1>5, <1>6, <1>7
<1>9. after[2 + 1] = g[1] /\ after[2 + 2] = g[2]
  BY <1>5, <1>6, <1>7
<1>10. \A f \in Fans : f = 1 \/ f = 2
  BY DEF Fans
<1>11. \A f \in Fans : after[2 + f] = Packed[pct[f]]
  BY <1>3, <1>9, <1>10, Zenon
<1>12. Percents(after) = [f \in Fans |-> Packed[pct[f]]]
  BY <1>11, Zenon DEF Percents
<1>13. Addressed(after) = fs
  BY <1>8, TargetAddressed
<1>14. Heard("fan", after) =
           [kind |-> "fan", write |-> Bit(after[2], 0), success |-> Bit(after[2], 1),
            fans |-> Addressed(after), percents |-> Percents(after)]
  BY Zenon DEF Heard
<1>15. Heard("fan", after) =
           [kind |-> "fan", write |-> w, success |-> ok, fans |-> fs,
            percents |-> [f \in Fans |-> Packed[pct[f]]]]
  BY <1>2, <1>8, <1>12, <1>13, <1>14, Zenon
<1> QED
  BY <1>8, <1>15 DEF after

-----------------------------------------------------------------------------
(* Pieces of the version *)

LEMMA TextIsSeq ==
    ASSUME NEW from \in Nat, NEW to \in Nat, from <= to
    PROVE  /\ Text(from, to) \in Seq(Nat) /\ Len(Text(from, to)) = to - from
           /\ \A i \in 1 .. to - from : Text(from, to)[i] = from + i
<1> DEFINE n == to - from
           t == [i \in 1 .. n |-> from + i]
<1>1. n \in Nat /\ Text(from, to) = t
  BY DEF Text
<1>2. \A i \in 1 .. n : t[i] = from + i /\ t[i] \in Nat
  OBVIOUS
<1> HIDE DEF n
<1>3. t \in Seq(Nat) /\ Len(t) = n
  BY <1>1
<1> QED
  BY <1>1, <1>2, <1>3 DEF n

\* A piece that does not fill the packet is followed by a zero.
LEMMA ClosedText ==
    ASSUME NEW t \in Seq(Nat), NEW n \in Nat, Len(t) = n
    PROVE  /\ Closed(t) \in Seq(Nat) /\ \A i \in 1 .. n : Closed(t)[i] = t[i]
           /\ n < 14 => Len(Closed(t)) = n + 1 /\ Closed(t)[n + 1] = 0
           /\ ~(n < 14) => Len(Closed(t)) = n
<1>1. CASE n < 14
  <2> DEFINE u == Append(t, 0)
  <2>1. Closed(t) = u
    BY <1>1 DEF Closed
  <2>2. /\ u \in Seq(Nat) /\ Len(u) = Len(t) + 1
        /\ \A i \in 1 .. Len(t) : u[i] = t[i]
        /\ u[Len(t) + 1] = 0
    BY AppendProperties
  <2> HIDE DEF u
  <2> QED
    BY <1>1, <2>1, <2>2
<1>2. CASE ~(n < 14)
  BY <1>2 DEF Closed
<1> QED
  BY <1>1, <1>2

TwoAnd(a, b, c) == <<a, b>> \o c

LEMMA TwoThenBytes ==
    ASSUME NEW a \in Nat, NEW b \in Nat, NEW c \in Seq(Nat)
    PROVE  /\ Len(TwoAnd(a, b, c)) = 2 + Len(c)
           /\ TwoAnd(a, b, c)[1] = a /\ TwoAnd(a, b, c)[2] = b
           /\ \A i \in 1 .. Len(c) : TwoAnd(a, b, c)[i + 2] = c[i]
<1> DEFINE h == <<a, b>>
           r == h \o c
           m == Len(h)
           n == Len(c)
<1>1. h \in Seq(Nat) /\ m = 2 /\ h[1] = a /\ h[2] = b
  OBVIOUS
<1>2. r = TwoAnd(a, b, c)
  BY DEF TwoAnd
<1>3. n \in Nat
  OBVIOUS
<1> HIDE DEF h
<1>4. Len(r) = m + n /\ \A i \in 1 .. m + n : r[i] = IF i <= m THEN h[i] ELSE c[i - m]
  BY <1>1, ConcatProperties
<1> HIDE DEF r, m, n
<1>5. Len(r) = 2 + n /\ \A i \in 1 .. 2 + n : r[i] = IF i <= 2 THEN h[i] ELSE c[i - 2]
  BY <1>1, <1>4
<1>6. r[1] = h[1] /\ r[2] = h[2]
  BY <1>3, <1>5
<1>7. ASSUME NEW i \in 1 .. n PROVE r[i + 2] = c[i]
  <2>1. i + 2 \in 1 .. 2 + n /\ ~(i + 2 <= 2) /\ i + 2 - 2 = i
    BY <1>3
  <2> QED
    BY <1>5, <2>1
<1> QED
  BY <1>1, <1>2, <1>5, <1>6, <1>7 DEF n

\* The reader stops where the piece ends.
LEMMA TextRead ==
    ASSUME NEW n \in 0 .. 14, NEW from \in Nat, NEW buf,
           \A i \in 1 .. n : buf[i + 1] = from + i,
           n < 14 => buf[n + 2] = 0
    PROVE  HeardText(buf) = [i \in 1 .. n |-> from + i]
<1> DEFINE Stops(e) == (e = 16 \/ buf[e] = 0) /\ \A i \in 2 .. e - 1 : buf[i] # 0
           end == CHOOSE e \in 2 .. 16 : Stops(e)
<1>1. \A i \in 2 .. n + 1 : buf[i] # 0
  <2>1. ASSUME NEW i \in 2 .. n + 1 PROVE buf[i] # 0
    <3>1. i - 1 \in 1 .. n /\ (i - 1) + 1 = i
      OBVIOUS
    <3>2. buf[i] = from + (i - 1)
      BY <3>1
    <3> QED
      BY <3>1, <3>2
  <2> QED
    BY <2>1
<1>2. n + 2 \in 2 .. 16 /\ Stops(n + 2)
  <2>1. n + 2 = 16 \/ buf[n + 2] = 0
    OBVIOUS
  <2>2. (n + 2) - 1 = n + 1
    OBVIOUS
  <2> QED
    BY <1>1, <2>1, <2>2
<1>3. ASSUME NEW e \in 2 .. 16, Stops(e) PROVE e = n + 2
  <2>1. ASSUME e < n + 2 PROVE FALSE
    <3>1. e \in 2 .. n + 1 /\ e # 16
      BY <2>1
    <3> QED
      BY <1>1, <1>3, <3>1
  <2>2. ASSUME n + 2 < e PROVE FALSE
    <3>1. n + 2 \in 2 .. e - 1 /\ n < 14
      BY <2>2
    <3> QED
      BY <1>3, <3>1
  <2> QED
    BY <2>1, <2>2
<1>4. end = n + 2
  <2>1. end \in 2 .. 16 /\ Stops(end)
    <3> HIDE DEF Stops
    <3> QED
      BY <1>2
  <2> QED
    BY <1>3, <2>1
<1>5. HeardText(buf) = [i \in 1 .. end - 2 |-> buf[i + 1]]
  BY Zenon DEF HeardText
<1> HIDE DEF end
<1>6. end - 2 = n
  BY <1>4
<1>7. HeardText(buf) = [i \in 1 .. n |-> buf[i + 1]]
  BY <1>5, <1>6, Zenon
<1> QED
  BY <1>7

\* A piece of the version is read as it was sent, whatever the buffer held.
LEMMA VersionHeard ==
    ASSUME NEW from \in Nat, NEW to \in Nat, from <= to, to <= from + 14,
           NEW sop \in BOOLEAN, NEW eop \in BOOLEAN, NEW after,
           after = Put(resp, 0, <<Magic.version, Weight(sop, 0) + Weight(eop, 1)>>
                                \o Closed(Text(from, to)))
    PROVE  /\ after[0] = Magic.version
           /\ Heard("version", after) =
                  [kind |-> "version", sop |-> sop, eop |-> eop, text |-> Text(from, to)]
<1> DEFINE flags == Weight(sop, 0) + Weight(eop, 1)
           n == to - from
           c == Closed(Text(from, to))
           s == TwoAnd(Magic.version, flags, c)
<1>1. flags \in Nat /\ Bit(flags, 0) = sop /\ Bit(flags, 1) = eop
  <2>1. flags \in 0 .. 7 /\ Bit(flags, 0) = sop /\ Bit(flags, 1) = eop
    BY TwoFlags, Zenon
  <2> HIDE DEF flags
  <2> QED
    BY <2>1
<1>2. after = Put(resp, 0, s)
  BY Zenon DEF TwoAnd
<1> HIDE DEF flags
<1>3. n \in 0 .. 14 /\ n \in Nat
  OBVIOUS
<1>4. /\ Text(from, to) \in Seq(Nat) /\ Len(Text(from, to)) = n
      /\ \A i \in 1 .. n : Text(from, to)[i] = from + i
  BY TextIsSeq
<1>5. Text(from, to) = [i \in 1 .. n |-> from + i]
  BY DEF Text
<1> HIDE DEF n
<1>6. /\ c \in Seq(Nat) /\ \A i \in 1 .. n : c[i] = Text(from, to)[i]
      /\ n < 14 => Len(c) = n + 1 /\ c[n + 1] = 0
      /\ ~(n < 14) => Len(c) = n
  BY <1>3, <1>4, ClosedText
<1> HIDE DEF c
<1>7. Magic.version = 70 /\ Magic.version \in Nat
  BY DEF Magic
<1>8. /\ Len(s) = 2 + Len(c) /\ s[1] = Magic.version /\ s[2] = flags
      /\ \A i \in 1 .. Len(c) : s[i + 2] = c[i]
  BY <1>1, <1>6, <1>7, TwoThenBytes
<1> HIDE DEF s
<1>9. Len(c) \in Nat /\ Len(s) \in Nat /\ n <= Len(c)
  BY <1>3, <1>6, <1>8
<1>10. after[0] = Magic.version /\ after[1] = flags
  <2>1. 0 \in Places /\ 1 \in Places /\ 0 < Len(s) /\ 1 < Len(s) /\ 0 + 1 = 1 /\ 1 + 1 = 2
    BY <1>8, <1>9 DEF Places
  <2> QED
    BY <1>2, <1>8, <1>9, <2>1, PutFirst
<1>11. ASSUME NEW i \in 1 .. 14, i <= Len(c) PROVE after[i + 1] = c[i]
  <2>1. i + 1 \in Places /\ i + 1 < Len(s) /\ (i + 1) + 1 = i + 2 /\ i \in 1 .. Len(c)
    BY <1>8, <1>9, <1>11 DEF Places
  <2>2. after[i + 1] = s[(i + 1) + 1]
    BY <1>2, <1>9, <2>1, PutFirst
  <2> QED
    BY <1>8, <2>1, <2>2
<1>12. \A i \in 1 .. n : after[i + 1] = from + i
  <2>1. ASSUME NEW i \in 1 .. n PROVE after[i + 1] = from + i
    <3>1. i \in 1 .. 14 /\ i <= Len(c)
      BY <1>3, <1>9
    <3> QED
      BY <1>4, <1>6, <1>11, <3>1
  <2> QED
    BY <2>1
<1>13. n < 14 => after[n + 2] = 0
  <2>1. ASSUME n < 14 PROVE after[n + 2] = 0
    <3>1. n + 1 \in 1 .. 14 /\ n + 1 <= Len(c) /\ (n + 1) + 1 = n + 2
      BY <1>3, <1>6, <2>1
    <3> QED
      BY <1>6, <1>11, <2>1, <3>1
  <2> QED
    BY <2>1
<1>14. HeardText(after) = Text(from, to)
  BY <1>3, <1>5, <1>12, <1>13, TextRead, ZenonT(60)
<1>15. Heard("version", after) =
           [kind |-> "version", sop |-> Bit(after[1], 0), eop |-> Bit(after[1], 1),
            text |-> HeardText(after)]
  BY Zenon DEF Heard
<1>16. Heard("version", after) =
           [kind |-> "version", sop |-> sop, eop |-> eop, text |-> Text(from, to)]
  BY <1>1, <1>10, <1>14, <1>15, Zenon
<1> QED
  BY <1>10, <1>16

-----------------------------------------------------------------------------
(* A percentage's byte *)

LEMMA RoundEvenBelow ==
    ASSUME NEW n \in Nat, NEW d \in {100, 64, 128}
    PROVE  RoundEven(n, d) \in Nat /\ 2 * (d * RoundEven(n, d) - n) <= d
BY DEF RoundEven

\* Single precision has an exponent for every percentage.
LEMMA HasExponent ==
    ASSUME NEW n \in 1 .. 100
    PROVE  \E k \in 22 .. 30 : n * 2^k >= 100 * 2^23 /\ n * 2^k < 100 * 2^24
<1>1. n = 1 => n * 2^30 >= 100 * 2^23 /\ n * 2^30 < 100 * 2^24
  OBVIOUS
<1>2. n \in 2 .. 3 => n * 2^29 >= 100 * 2^23 /\ n * 2^29 < 100 * 2^24
  OBVIOUS
<1>3. n \in 4 .. 6 => n * 2^28 >= 100 * 2^23 /\ n * 2^28 < 100 * 2^24
  OBVIOUS
<1>4. n \in 7 .. 12 => n * 2^27 >= 100 * 2^23 /\ n * 2^27 < 100 * 2^24
  OBVIOUS
<1>5. n \in 13 .. 24 => n * 2^26 >= 100 * 2^23 /\ n * 2^26 < 100 * 2^24
  OBVIOUS
<1>6. n \in 25 .. 49 => n * 2^25 >= 100 * 2^23 /\ n * 2^25 < 100 * 2^24
  OBVIOUS
<1>7. n \in 50 .. 99 => n * 2^24 >= 100 * 2^23 /\ n * 2^24 < 100 * 2^24
  OBVIOUS
<1>8. n = 100 => n * 2^23 >= 100 * 2^23 /\ n * 2^23 < 100 * 2^24
  OBVIOUS
<1> QED
  BY <1>1, <1>2, <1>3, <1>4, <1>5, <1>6, <1>7, <1>8

LEMMA PowerIsNat ==
    ASSUME NEW k \in 22 .. 30
    PROVE  2^k \in Nat
<1>1. CASE k = 22
  BY <1>1
<1>2. CASE k = 23
  BY <1>2
<1>3. CASE k = 24
  BY <1>3
<1>4. CASE k = 25
  BY <1>4
<1>5. CASE k = 26
  BY <1>5
<1>6. CASE k = 27
  BY <1>6
<1>7. CASE k = 28
  BY <1>7
<1>8. CASE k = 29
  BY <1>8
<1>9. CASE k = 30
  BY <1>9
<1> QED
  BY <1>1, <1>2, <1>3, <1>4, <1>5, <1>6, <1>7, <1>8, <1>9

\* What two roundings may add is far less than one percent.
LEMMA BackBelow ==
    ASSUME NEW n \in 1 .. 100, NEW k \in 22 .. 30, NEW m \in Nat, NEW t \in Nat,
           2 * (100 * m - n * 2^k) <= 100
    PROVE  /\ 2 * (64 * t - m * 100) <= 64 => t \div 2^(k - 6) \in 0 .. 100
           /\ 2 * (128 * t - m * 100) <= 128 => t \div 2^(k - 7) \in 0 .. 100
<1>1. CASE k = 22
  <2>1. 2 * (100 * m - n * 2^22) <= 100 /\ k - 6 = 16 /\ k - 7 = 15
    BY <1>1
  <2>2. 2 * (64 * t - m * 100) <= 64 => t \div 2^16 \in 0 .. 100
    BY <2>1, SMT
  <2>3. 2 * (128 * t - m * 100) <= 128 => t \div 2^15 \in 0 .. 100
    BY <2>1, SMT
  <2> QED
    BY <1>1, <2>1, <2>2, <2>3
<1>2. CASE k = 23
  <2>1. 2 * (100 * m - n * 2^23) <= 100 /\ k - 6 = 17 /\ k - 7 = 16
    BY <1>2
  <2>2. 2 * (64 * t - m * 100) <= 64 => t \div 2^17 \in 0 .. 100
    BY <2>1, SMT
  <2>3. 2 * (128 * t - m * 100) <= 128 => t \div 2^16 \in 0 .. 100
    BY <2>1, SMT
  <2> QED
    BY <1>2, <2>1, <2>2, <2>3
<1>3. CASE k = 24
  <2>1. 2 * (100 * m - n * 2^24) <= 100 /\ k - 6 = 18 /\ k - 7 = 17
    BY <1>3
  <2>2. 2 * (64 * t - m * 100) <= 64 => t \div 2^18 \in 0 .. 100
    BY <2>1, SMT
  <2>3. 2 * (128 * t - m * 100) <= 128 => t \div 2^17 \in 0 .. 100
    BY <2>1, SMT
  <2> QED
    BY <1>3, <2>1, <2>2, <2>3
<1>4. CASE k = 25
  <2>1. 2 * (100 * m - n * 2^25) <= 100 /\ k - 6 = 19 /\ k - 7 = 18
    BY <1>4
  <2>2. 2 * (64 * t - m * 100) <= 64 => t \div 2^19 \in 0 .. 100
    BY <2>1, SMT
  <2>3. 2 * (128 * t - m * 100) <= 128 => t \div 2^18 \in 0 .. 100
    BY <2>1, SMT
  <2> QED
    BY <1>4, <2>1, <2>2, <2>3
<1>5. CASE k = 26
  <2>1. 2 * (100 * m - n * 2^26) <= 100 /\ k - 6 = 20 /\ k - 7 = 19
    BY <1>5
  <2>2. 2 * (64 * t - m * 100) <= 64 => t \div 2^20 \in 0 .. 100
    BY <2>1, SMT
  <2>3. 2 * (128 * t - m * 100) <= 128 => t \div 2^19 \in 0 .. 100
    BY <2>1, SMT
  <2> QED
    BY <1>5, <2>1, <2>2, <2>3
<1>6. CASE k = 27
  <2>1. 2 * (100 * m - n * 2^27) <= 100 /\ k - 6 = 21 /\ k - 7 = 20
    BY <1>6
  <2>2. 2 * (64 * t - m * 100) <= 64 => t \div 2^21 \in 0 .. 100
    BY <2>1, SMT
  <2>3. 2 * (128 * t - m * 100) <= 128 => t \div 2^20 \in 0 .. 100
    BY <2>1, SMT
  <2> QED
    BY <1>6, <2>1, <2>2, <2>3
<1>7. CASE k = 28
  <2>1. 2 * (100 * m - n * 2^28) <= 100 /\ k - 6 = 22 /\ k - 7 = 21
    BY <1>7
  <2>2. 2 * (64 * t - m * 100) <= 64 => t \div 2^22 \in 0 .. 100
    BY <2>1, SMT
  <2>3. 2 * (128 * t - m * 100) <= 128 => t \div 2^21 \in 0 .. 100
    BY <2>1, SMT
  <2> QED
    BY <1>7, <2>1, <2>2, <2>3
<1>8. CASE k = 29
  <2>1. 2 * (100 * m - n * 2^29) <= 100 /\ k - 6 = 23 /\ k - 7 = 22
    BY <1>8
  <2>2. 2 * (64 * t - m * 100) <= 64 => t \div 2^23 \in 0 .. 100
    BY <2>1, SMT
  <2>3. 2 * (128 * t - m * 100) <= 128 => t \div 2^22 \in 0 .. 100
    BY <2>1, SMT
  <2> QED
    BY <1>8, <2>1, <2>2, <2>3
<1>9. CASE k = 30
  <2>1. 2 * (100 * m - n * 2^30) <= 100 /\ k - 6 = 24 /\ k - 7 = 23
    BY <1>9
  <2>2. 2 * (64 * t - m * 100) <= 64 => t \div 2^24 \in 0 .. 100
    BY <2>1, SMT
  <2>3. 2 * (128 * t - m * 100) <= 128 => t \div 2^23 \in 0 .. 100
    BY <2>1, SMT
  <2> QED
    BY <1>9, <2>1, <2>2, <2>3
<1> QED
  BY <1>1, <1>2, <1>3, <1>4, <1>5, <1>6, <1>7, <1>8, <1>9

\* PACK_FAN_PWM makes no percentage of more than 100.
LEMMA PackedIsPercent ==
    ASSUME NEW n \in 0 .. 100
    PROVE  Packed[n] \in 0 .. 100
<1>1. n \in Byte
  BY DEF Byte
<1>2. CASE n = 0
  BY <1>1, <1>2 DEF Packed
<1>3. CASE n # 0
  <2> DEFINE e == CHOOSE k \in 22 .. 30 : n * 2^k >= 100 * 2^23 /\ n * 2^k < 100 * 2^24
             m == RoundEven(n * 2^e, 100)
             s == IF m * 100 < 2^30 THEN 6 ELSE 7
  <2>1. n \in 1 .. 100
    BY <1>3
  <2>2. e \in 22 .. 30
    BY <2>1, HasExponent
  <2>3. Packed[n] = RoundEven(m * 100, 2^s) \div 2^(e - s)
    BY <1>1, <1>3, Zenon DEF Packed
  <2> HIDE DEF e
  <2>4. 2^e \in Nat
    BY <2>2, PowerIsNat
  <2>5. n * 2^e \in Nat
    BY <2>4
  <2>6. m \in Nat /\ 2 * (100 * m - n * 2^e) <= 100
    BY <2>5, RoundEvenBelow
  <2> HIDE DEF m
  <2>7. m * 100 \in Nat
    BY <2>6
  <2>8. 2^6 = 64 /\ 2^7 = 128
    BY SMT
  <2>9. CASE m * 100 < 2^30
    <3> DEFINE t == RoundEven(m * 100, 64)
    <3>1. t \in Nat /\ 2 * (64 * t - m * 100) <= 64
      BY <2>7, RoundEvenBelow
    <3>2. Packed[n] = t \div 2^(e - 6)
      BY <2>3, <2>8, <2>9, Zenon
    <3> HIDE DEF t
    <3> QED
      BY <2>1, <2>2, <2>6, <3>1, <3>2, BackBelow, ZenonT(60)
  <2>10. CASE ~(m * 100 < 2^30)
    <3> DEFINE t == RoundEven(m * 100, 128)
    <3>1. t \in Nat /\ 2 * (128 * t - m * 100) <= 128
      BY <2>7, RoundEvenBelow
    <3>2. Packed[n] = t \div 2^(e - 7)
      BY <2>3, <2>8, <2>10, Zenon
    <3> HIDE DEF t
    <3> QED
      BY <2>1, <2>2, <2>6, <3>1, <3>2, BackBelow, ZenonT(60)
  <2> QED
    BY <2>9, <2>10
<1> QED
  BY <1>2, <1>3

-----------------------------------------------------------------------------
(* The answers of whole requests *)

LEMMA AnswerTold ==
    ASSUME NEW k, resp'[0] = Magic[k], meant'.kind = k, Heard(k, resp') = meant'
    PROVE  AnswersTrue'
BY Zenon DEF AnswersTrue

LEMMA SettingsAreArmed == AskedWatchdog \subseteq Armed /\ ConfiguredWatchdog \in Armed
BY PacketsAssumption, Zenon

LEMMA VersionLenIsNat == VersionLen \in Nat
BY PacketsAssumption

LEMMA TemperatureTold == ASSUME PktTemperature PROVE AnswersTrue'
<1>1. PICK t \in Readings, v \in Speeds :
          /\ resp' = Put(resp, 0, TemperatureBytes(t, v))
          /\ meant' = [kind |-> "temperature", success |-> TRUE, readings |-> t, speeds |-> v]
  BY Zenon DEF PktTemperature, TemperatureBytes
<1>2. t \in ReadingSet /\ v \in SpeedSet
  BY PacketsAssumption, Zenon DEF ReadingSet, SpeedSet
<1>3. /\ resp'[0] = Magic.temperature
      /\ Heard("temperature", resp') =
             [kind |-> "temperature", success |-> TRUE, readings |-> t, speeds |-> v]
  BY <1>1, <1>2, TemperatureHeard, Zenon
<1>4. Magic["temperature"] = Magic.temperature /\ meant'.kind = "temperature"
  BY <1>1
<1> QED
  BY <1>1, <1>3, <1>4, AnswerTold, Zenon

FanTells(fs, write, asked) ==
    LET req == FanRequest(write, asked)
        w == Bit(req[2], 0)
        fans == Addressed(req)
        pct == [f \in Fans |-> IF ~w /\ f \in fans THEN duty[f] ELSE Percents(req)[f]]
    IN  /\ resp' = FanAnswer(fans, pct, w, fans # {})
        /\ meant' = [kind |-> "fan", write |-> write, success |-> fs # {}, fans |-> fs,
                     percents |-> [f \in Fans |-> ReportedFan(f, write, asked)]]

LEMMA FanTold == ASSUME PktFanPwm PROVE AnswersTrue'
<1>1. PICK fs \in SUBSET Fans, write \in BOOLEAN :
        \E asked \in [fs -> AskedPercents] : FanTells(fs, write, asked)
  BY ZenonT(60) DEF PktFanPwm, FanTells
<1>2. PICK q \in [fs -> AskedPercents] : FanTells(fs, write, q)
  BY <1>1, Zenon
<1> DEFINE req == FanRequest(write, q)
           percents == [f \in Fans |-> IF f \in fs THEN Packed[q[f]] ELSE 0]
           pct == [f \in Fans |-> IF ~write /\ f \in fs THEN duty[f] ELSE percents[f]]
<1>3. DOMAIN q = fs
  OBVIOUS
<1>4. Addressed(req) = fs /\ Bit(req[2], 0) = write /\ Percents(req) = percents
  <2>1. req = FanRequest(write, q)
    BY Zenon
  <2> HIDE DEF req, percents
  <2>2. Addressed(req) = fs
    BY <1>3, <2>1, FanRequestBytes
  <2>3. Bit(req[2], 0) = write
    BY <1>3, <2>1, FanRequestBytes
  <2>4. Percents(req) = [f \in Fans |-> IF f \in fs THEN Packed[q[f]] ELSE 0]
    BY <1>3, <2>1, FanRequestBytes
  <2> QED
    BY <2>2, <2>3, <2>4, Zenon DEF percents
<1>5. resp' = FanAnswer(fs, pct, write, fs # {})
  BY <1>2, <1>4, Zenon DEF FanTells
<1>6. [f \in Fans |-> Packed[pct[f]]] = [f \in Fans |-> ReportedFan(f, write, q)]
  <2>1. Packed[0] = 0
    BY DEF Packed, Byte
  <2>2. ASSUME NEW f \in Fans PROVE Packed[pct[f]] = ReportedFan(f, write, q)
    <3>1. pct[f] = IF ~write /\ f \in fs THEN duty[f] ELSE IF f \in fs THEN Packed[q[f]] ELSE 0
      BY Zenon
    <3> HIDE DEF pct
    <3>2. CASE f \notin fs
      BY <1>3, <2>1, <3>1, <3>2, Zenon DEF ReportedFan
    <3>3. CASE f \in fs /\ write
      BY <1>3, <3>1, <3>3, Zenon DEF ReportedFan
    <3>4. CASE f \in fs /\ ~write
      BY <1>3, <3>1, <3>4, Zenon DEF ReportedFan
    <3> QED
      BY <3>2, <3>3, <3>4, Zenon
  <2> HIDE DEF pct
  <2> QED
    BY <2>2, Zenon
<1>7. PICK ok \in BOOLEAN : ok = (fs # {})
  BY Zenon
<1> HIDE DEF pct
<1>8. /\ resp'[0] = Magic.fan
      /\ Heard("fan", resp') =
             [kind |-> "fan", write |-> write, success |-> fs # {}, fans |-> fs,
              percents |-> [f \in Fans |-> Packed[pct[f]]]]
  <2>1. /\ FanAnswer(fs, pct, write, ok)[0] = Magic.fan
        /\ Heard("fan", FanAnswer(fs, pct, write, ok)) =
               [kind |-> "fan", write |-> write, success |-> ok, fans |-> fs,
                percents |-> [f \in Fans |-> Packed[pct[f]]]]
    BY FanHeard
  <2> QED
    BY <1>5, <1>7, <2>1, Zenon
<1>9. Heard("fan", resp') = meant' /\ meant'.kind = "fan"
  BY <1>2, <1>6, <1>8, Zenon DEF FanTells
<1>10. Magic["fan"] = Magic.fan
  OBVIOUS
<1> QED
  BY <1>8, <1>9, <1>10, AnswerTold, Zenon

\* A write is told as the Pico has it, also when the alarm could not be added.
LEMMA WatchdogTold ==
    ASSUME PktWatchdog, wd \in Armed
    PROVE  AnswersTrue' /\ wd' \in Armed
<1>1. PICK write \in BOOLEAN, asked \in AskedWatchdog, ok \in BOOLEAN :
        LET buf == WatchdogRequest(write, asked)
        IN  /\ wd' = WatchdogAfter(buf, ok)
            /\ resp' = WatchdogAnswer(Bit(buf[1], 0), ok, wd')
            /\ meant' = [kind |-> "watchdog", write |-> write, success |-> ok,
                         settings |-> IF write THEN [asked EXCEPT !.enable = wd'.enable]
                                      ELSE wd]
  <2>1. \A buf : (IF Toggles(buf) THEN BOOLEAN ELSE {TRUE}) \subseteq BOOLEAN
    BY Zenon
  <2> QED
    BY <2>1, Zenon DEF PktWatchdog
<1> DEFINE buf == WatchdogRequest(write, asked)
<1>2. asked \in Armed /\ asked \in Watchdogs
  BY SettingsAreArmed, ArmedFields
<1>3. /\ Bit(buf[1], 0) = write /\ Bit(buf[1], 2) = asked.enable
      /\ write => FromU16(buf, 2) = asked.timeout /\ FromU16(buf, 4) = asked.retries
  BY <1>2, WatchdogRequestBytes, ZenonT(60)
<1>4. /\ wd' = WatchdogAfter(buf, ok) /\ resp' = WatchdogAnswer(write, ok, wd')
      /\ meant' = [kind |-> "watchdog", write |-> write, success |-> ok,
                   settings |-> IF write THEN [asked EXCEPT !.enable = wd'.enable] ELSE wd]
  BY <1>1, <1>3, Zenon
<1> HIDE DEF buf
<1>5. wd' \in Armed /\ meant' = [kind |-> "watchdog", write |-> write, success |-> ok,
                                 settings |-> wd']
  <2>1. CASE ~write
    BY <1>3, <1>4, <2>1, Zenon DEF WatchdogAfter
  <2>2. CASE write
    <3>1. WatchdogOf(buf) = asked
      BY <1>2, <1>3, <2>2, WatchdogFields, Zenon DEF WatchdogOf
    <3> DEFINE e == IF Toggles(buf) /\ ~ok THEN wd.enable ELSE asked.enable
    <3>2. wd' = [asked EXCEPT !.enable = e]
      BY <1>3, <1>4, <2>2, <3>1, Zenon DEF WatchdogAfter
    <3>3. e \in BOOLEAN
      BY <1>2, Zenon DEF Armed
    <3> HIDE DEF e
    <3>4. wd' \in Armed /\ [asked EXCEPT !.enable = wd'.enable] = wd'
      BY <1>2, <3>2, <3>3 DEF Armed
    <3> QED
      BY <1>4, <2>2, <3>4, Zenon
  <2> QED
    BY <2>1, <2>2, Zenon
<1>6. PICK s \in Armed : s = wd'
  BY <1>5, Zenon
<1>7. s \in Watchdogs
  BY ArmedFields
<1>8. /\ resp'[0] = Magic.watchdog /\ Heard("watchdog", resp') = meant'
  BY <1>4, <1>5, <1>6, <1>7, WatchdogHeard, Zenon
<1>9. Magic["watchdog"] = Magic.watchdog /\ meant'.kind = "watchdog"
  BY <1>5
<1> QED
  BY <1>5, <1>8, <1>9, AnswerTold, Zenon

LEMMA VersionTold ==
    ASSUME PktVersion, dataIndex \in 0 .. VersionLen
    PROVE  AnswersTrue' /\ dataIndex' \in 0 .. VersionLen
<1> DEFINE from == dataIndex
           to == PieceEnd
           sop == dataIndex = 0
           eop == to = VersionLen
<1>1. /\ from \in Nat /\ to \in Nat /\ from <= to /\ to <= from + 14
      /\ NextIndex \in 0 .. VersionLen
  BY VersionLenIsNat DEF PieceEnd, NextIndex
<1>2. /\ resp' = Put(resp, 0, <<Magic.version, Weight(sop, 0) + Weight(eop, 1)>>
                              \o Closed(Text(from, to)))
      /\ meant' = [kind |-> "version", sop |-> sop, eop |-> eop, text |-> Text(from, to)]
      /\ dataIndex' = NextIndex
  BY Zenon DEF PktVersion
<1>3. sop \in BOOLEAN /\ eop \in BOOLEAN
  BY Zenon
<1>4. PICK f \in Nat, e \in Nat : f = from /\ e = to
  BY <1>1, Zenon
<1>5. PICK p \in BOOLEAN, l \in BOOLEAN : p = sop /\ l = eop
  BY <1>3, Zenon
<1> HIDE DEF from, to, sop, eop
<1>6. resp'[0] = Magic.version /\ Heard("version", resp') = meant'
  <2>1. PICK r : r = resp'
    BY Zenon
  <2>2. f <= e /\ e <= f + 14
    BY <1>1, <1>4
  <2>3. r = Put(resp, 0, <<Magic.version, Weight(p, 0) + Weight(l, 1)>> \o Closed(Text(f, e)))
    BY <1>2, <1>4, <1>5, <2>1, Zenon
  <2>4. /\ r[0] = Magic.version
        /\ Heard("version", r) = [kind |-> "version", sop |-> p, eop |-> l, text |-> Text(f, e)]
    BY <2>2, <2>3, VersionHeard
  <2> QED
    BY <1>2, <1>4, <1>5, <2>1, <2>4, Zenon
<1>7. Magic["version"] = Magic.version /\ meant'.kind = "version"
  BY <1>2
<1> QED
  BY <1>1, <1>2, <1>6, <1>7, AnswerTold, Zenon

\* As long as no request has been cut.
Answering == wd \in Armed /\ dataIndex \in 0 .. VersionLen

LEMMA WholeTold ==
    ASSUME Whole, Answering
    PROVE  AnswersTrue' /\ Answering' /\ UNCHANGED cut
<1>1. CASE PktTemperature
  BY <1>1, TemperatureTold, Zenon DEF PktTemperature, Answering, settings
<1>2. CASE PktFanPwm
  BY <1>2, FanTold, Zenon DEF PktFanPwm, Answering
<1>3. CASE PktWatchdog
  BY <1>3, WatchdogTold, Zenon DEF PktWatchdog, Answering
<1>4. CASE PktVersion
  BY <1>4, VersionTold, Zenon DEF PktVersion, Answering
<1>5. CASE Unknown
  BY <1>5, Zenon DEF Unknown, Answering, AnswersTrue, settings
<1> QED
  BY <1>1, <1>2, <1>3, <1>4, <1>5 DEF Whole

-----------------------------------------------------------------------------
(* What a picod may send *)

AllRequests == Requests \cup {StartUpRequest[o] : o \in DOMAIN StartUpRequest}

\* A write to the watchdog asks for a second at least.
Arms(req) == req[0] = 67 /\ Bit(req[1], 0) => FromU16(req, 2) >= 1

Sound(req) ==
    /\ req = [i \in Places |-> req[i]]
    /\ \A i \in Places : req[i] \in Nat
    /\ req[0] # 0 /\ Arms(req)

LEMMA PutIsPacket ==
    ASSUME NEW buf, NEW at, NEW bytes, NEW r, r = Put(buf, at, bytes)
    PROVE  r = [i \in Places |-> r[i]]
<1>1. Put(buf, at, bytes) =
          [i \in Places |-> IF i \in at .. at + Len(bytes) - 1 THEN bytes[i - at + 1] ELSE buf[i]]
  BY Zenon DEF Put
<1> QED
  BY <1>1

\* A request that is its magic and zeros.
LEMMA OneByteBytes ==
    ASSUME NEW magic \in Nat, NEW buf, buf = OneByte(magic)
    PROVE  /\ buf = [i \in Places |-> buf[i]]
           /\ buf[0] = magic /\ \A i \in Places : i # 0 => buf[i] = 0
<1> DEFINE head == <<magic>>
<1>1. Len(head) = 1 /\ head[1] = magic
  OBVIOUS
<1>2. buf = Put(Zeros, 0, head)
  BY Zenon DEF OneByte
<1> HIDE DEF head
<1>3. buf = [i \in Places |-> buf[i]]
  BY <1>2, PutIsPacket
<1>4. buf[0] = magic
  <2>1. 0 \in Places /\ Len(head) \in Nat /\ 0 < Len(head) /\ 0 + 1 = 1
    BY <1>1 DEF Places
  <2> QED
    BY <1>1, <1>2, <2>1, PutFirst
<1>5. ASSUME NEW i \in Places, i # 0 PROVE buf[i] = 0
  <2>1. i \notin 0 .. 0 + Len(head) - 1
    BY <1>1, <1>5 DEF Places
  <2>2. buf[i] = Zeros[i]
    BY <1>2, <2>1, PutAt
  <2> QED
    BY <2>2 DEF Zeros
<1> QED
  BY <1>3, <1>4, <1>5

LEMMA OneByteSound ==
    ASSUME NEW magic \in {65, 70, 68}
    PROVE  Sound(OneByte(magic))
<1>1. PICK buf : buf = OneByte(magic)
  OBVIOUS
<1>2. /\ buf = [i \in Places |-> buf[i]]
      /\ buf[0] = magic /\ \A i \in Places : i # 0 => buf[i] = 0
  BY <1>1, OneByteBytes
<1>3. \A i \in Places : buf[i] \in Nat
  BY <1>2
<1>4. buf[0] # 0 /\ buf[0] # 67
  BY <1>2
<1> QED
  BY <1>1, <1>2, <1>3, <1>4, Zenon DEF Sound, Arms

LEMMA TargetIsNat == ASSUME NEW fs PROVE Target(fs) \in Nat
BY Powers DEF Target, Weight

LEMMA FanRequestSound ==
    ASSUME NEW write \in BOOLEAN, NEW fs \in SUBSET Fans, NEW q, DOMAIN q = fs,
           \A f \in fs : q[f] \in 0 .. 100
    PROVE  Sound(FanRequest(write, q))
<1> DEFINE head == <<Magic.fan, Target(DOMAIN q), Weight(write, 0)>>
           g == [f \in Fans |-> IF f \in DOMAIN q THEN Packed[q[f]] ELSE 0]
           inner == Put(Zeros, 0, head)
<1>1. PICK buf : buf = FanRequest(write, q)
  OBVIOUS
<1>2. buf = Put(inner, 3, g)
  BY <1>1, Zenon DEF FanRequest
<1>3. Len(head) = 3 /\ \A i \in 1 .. 3 : head[i] \in Nat
  <2>1. Weight(write, 0) \in 0 .. 1 /\ Magic.fan = 66
    BY OneFlag DEF Magic
  <2>2. head[1] = Magic.fan /\ head[2] = Target(DOMAIN q) /\ head[3] = Weight(write, 0)
    OBVIOUS
  <2>3. head[1] \in Nat /\ head[2] \in Nat /\ head[3] \in Nat
    BY <2>1, <2>2, TargetIsNat
  <2>4. Len(head) = 3
    OBVIOUS
  <2> HIDE DEF head
  <2> QED
    BY <2>3, <2>4
<1>4. Len(g) = 2 /\ \A f \in 1 .. 2 : g[f] \in Nat
  <2>1. g = [f \in 1 .. 2 |-> IF f \in DOMAIN q THEN Packed[q[f]] ELSE 0]
    BY DEF Fans
  <2>2. ASSUME NEW f \in 1 .. 2 PROVE g[f] \in Nat
    <3>1. CASE f \in fs
      <4>1. Packed[q[f]] \in 0 .. 100
        BY <3>1, PackedIsPercent
      <4> QED
        BY <2>1, <3>1, <4>1
    <3>2. CASE f \notin fs
      BY <2>1, <3>2
    <3> QED
      BY <3>1, <3>2
  <2> QED
    BY <2>1, <2>2
<1> HIDE DEF head, g
<1>5. ASSUME NEW i \in Places PROVE inner[i] \in Nat
  <2>1. CASE i < 3
    <3>1. Len(head) \in Nat /\ i < Len(head)
      BY <1>3, <2>1
    <3>2. inner[i] = head[i + 1]
      BY <3>1, PutFirst
    <3>3. i + 1 \in 1 .. 3
      BY <2>1 DEF Places
    <3> QED
      BY <1>3, <3>2, <3>3
  <2>2. CASE ~(i < 3)
    <3>1. i \notin 0 .. 0 + Len(head) - 1
      BY <1>3, <2>2 DEF Places
    <3>2. inner[i] = Zeros[i]
      BY <3>1, PutAt
    <3> QED
      BY <3>2 DEF Zeros
  <2> QED
    BY <2>1, <2>2
<1> HIDE DEF inner
<1>6. ASSUME NEW i \in Places PROVE buf[i] \in Nat
  <2>1. CASE i \in 3 .. 4
    <3>1. 3 \in Nat /\ Len(g) \in Nat /\ 3 <= i /\ i < 3 + Len(g)
      BY <1>4, <2>1
    <3>2. buf[i] = g[i - 3 + 1]
      BY <1>2, <3>1, PutFrom
    <3>3. i - 3 + 1 \in 1 .. 2
      BY <2>1
    <3> QED
      BY <1>4, <3>2, <3>3
  <2>2. CASE i \notin 3 .. 4
    <3>1. i \notin 3 .. 3 + Len(g) - 1
      BY <1>4, <2>2
    <3>2. buf[i] = inner[i]
      BY <1>2, <3>1, PutAt
    <3> QED
      BY <1>5, <3>2
  <2> QED
    BY <2>1, <2>2
<1>7. buf = [i \in Places |-> buf[i]]
  BY <1>2, PutIsPacket
<1>8. buf[0] = 66
  BY <1>1, FanRequestBytes
<1>9. buf[0] # 0 /\ buf[0] # 67
  BY <1>8
<1> QED
  BY <1>1, <1>6, <1>7, <1>9, Zenon DEF Sound, Arms

LEMMA WatchdogRequestSound ==
    ASSUME NEW write \in BOOLEAN, NEW s \in Armed
    PROVE  Sound(WatchdogRequest(write, s))
<1>1. PICK buf : buf = WatchdogRequest(write, s)
  OBVIOUS
<1>2. s \in Watchdogs /\ s.timeout \in Nat /\ 1 <= s.timeout
  BY ArmedFields
<1>3. /\ \A i \in Places : buf[i] \in Nat
      /\ buf[0] = 67 /\ Bit(buf[1], 0) = write /\ Bit(buf[1], 2) = s.enable
      /\ write => FromU16(buf, 2) = s.timeout /\ FromU16(buf, 4) = s.retries
  BY <1>1, <1>2, WatchdogRequestBytes, ZenonT(60)
<1>4. buf = [i \in Places |-> buf[i]]
  BY <1>1, PutIsPacket DEF WatchdogRequest
<1>5. write => FromU16(buf, 2) >= 1
  BY <1>2, <1>3
<1>6. buf[0] # 0
  BY <1>3
<1> QED
  BY <1>1, <1>3, <1>4, <1>5, <1>6, Zenon DEF Sound, Arms

LEMMA StartUpRequests ==
    /\ DOMAIN StartUpRequest = {"version", "fans", "watchdog"}
    /\ StartUpRequest["version"] = OneByte(70)
    /\ StartUpRequest["fans"] = FanRequest(TRUE, Configured)
    /\ StartUpRequest["watchdog"] = WatchdogRequest(TRUE, ConfiguredWatchdog)
BY DEF StartUpRequest, Magic

LEMMA ConfiguredPercents ==
    DOMAIN Configured = Fans /\ \A f \in Fans : Configured[f] \in 0 .. 100
BY PacketsAssumption

LEMMA RequestsSound == ASSUME NEW req \in AllRequests PROVE Sound(req)
<1>1. CASE req \in {OneByte(magic) : magic \in {Magic.temperature, Magic.version, 68}}
  BY <1>1, OneByteSound DEF Magic
<1>2. CASE req \in {FanRequest(write, asked) : write \in BOOLEAN,
                       asked \in UNION {[fs -> AskedPercents] : fs \in SUBSET Fans}}
  <2>1. PICK write \in BOOLEAN, asked \in UNION {[fs -> AskedPercents] : fs \in SUBSET Fans} :
            req = FanRequest(write, asked)
    BY <1>2
  <2>2. PICK fs \in SUBSET Fans : asked \in [fs -> AskedPercents]
    BY Zenon
  <2>3. DOMAIN asked = fs /\ \A f \in fs : asked[f] \in 0 .. 100
    BY <2>2, PacketsAssumption
  <2> QED
    BY <2>1, <2>3, FanRequestSound
<1>3. CASE req \in {WatchdogRequest(write, s) : write \in BOOLEAN, s \in AskedWatchdog}
  BY <1>3, WatchdogRequestSound, SettingsAreArmed
<1>4. CASE req \in {StartUpRequest[o] : o \in DOMAIN StartUpRequest}
  <2>1. TRUE \in BOOLEAN /\ Fans \in SUBSET Fans
    BY Zenon
  <2>2. Sound(OneByte(70))
    BY OneByteSound
  <2>3. Sound(FanRequest(TRUE, Configured))
    BY <2>1, ConfiguredPercents, FanRequestSound
  <2>4. Sound(WatchdogRequest(TRUE, ConfiguredWatchdog))
    BY <2>1, SettingsAreArmed, WatchdogRequestSound
  <2>5. \/ req = OneByte(70) \/ req = FanRequest(TRUE, Configured)
        \/ req = WatchdogRequest(TRUE, ConfiguredWatchdog)
    BY <1>4, StartUpRequests
  <2> QED
    BY <2>2, <2>3, <2>4, <2>5, Zenon
<1> QED
  BY <1>1, <1>2, <1>3, <1>4 DEF AllRequests, Requests

-----------------------------------------------------------------------------
(* Bytes on the link *)

LEMMA PrefixBytes ==
    ASSUME NEW req, Sound(req), NEW n \in 0 .. 16, NEW p, p = SubSeq(Sent(req), 1, n)
    PROVE  p \in Seq(Nat) /\ Len(p) = n /\ \A i \in 1 .. n : p[i] = req[i - 1]
<1> DEFINE b == Sent(req)
<1>1. ASSUME NEW i \in 1 .. n PROVE b[i] = req[i - 1] /\ b[i] \in Nat
  <2>1. i \in 1 .. 16 /\ i - 1 \in Places
    BY DEF Places
  <2>2. b[i] = req[i - 1]
    BY <2>1 DEF Sent
  <2> QED
    BY <2>1, <2>2 DEF Sound
<1> HIDE DEF b
<1>2. p = SubSeq(b, 1, n)
  BY DEF b
<1>3. /\ p \in Seq(Nat) /\ Len(p) = IF 1 <= n THEN n - 1 + 1 ELSE 0
      /\ \A i \in 1 .. n - 1 + 1 : p[i] = b[1 + i - 1]
  BY <1>1, <1>2, SubSeqProperties, 1 \in Int, n \in Int
<1>4. \A i \in 1 .. n : i \in 1 .. n - 1 + 1 /\ 1 + i - 1 = i
  OBVIOUS
<1> QED
  BY <1>1, <1>3, <1>4

LEMMA SentBytes ==
    ASSUME NEW req, Sound(req)
    PROVE  /\ Sent(req) = SubSeq(Sent(req), 1, 16)
           /\ Packet(Sent(req)) = req
<1> DEFINE b == Sent(req)
<1>1. \A i \in 1 .. 16 : i - 1 \in Places
  BY DEF Places
<1>2. \A i \in 1 .. 16 : b[i] = req[i - 1] /\ b[i] \in Nat
  BY <1>1 DEF Sent, Sound
<1>3. b = [i \in 1 .. 16 |-> b[i]]
  BY DEF Sent
<1>4. Packet(b) = [i \in Places |-> b[i + 1]]
  BY Zenon DEF Packet
<1> HIDE DEF b
<1>5. b \in Seq(Nat) /\ Len(b) = 16
  BY <1>2, <1>3
<1>6. SubSeq(b, 1, 16) = b
  BY <1>5, SubSeqFull
<1>7. \A i \in Places : b[i + 1] = req[i]
  <2>1. \A i \in Places : i + 1 \in 1 .. 16 /\ (i + 1) - 1 = i
    BY DEF Places
  <2> QED
    BY <1>2, <2>1
<1>8. Packet(b) = req
  BY <1>4, <1>7 DEF Sound
<1> QED
  BY <1>6, <1>8 DEF b

LEMMA DropNone ==
    ASSUME NEW b \in Seq(Nat), b # <<>>, b[1] # 0
    PROVE  DropZeros(b) = b
<1> DEFINE nonzero == {i \in DOMAIN b : b[i] # 0}
           first == CHOOSE i \in nonzero : \A k \in nonzero : i <= k
<1>1. 1 \in nonzero /\ \A k \in nonzero : 1 <= k
  OBVIOUS
<1>2. nonzero \subseteq Nat
  OBVIOUS
<1>3. DropZeros(b) = IF nonzero = {} THEN <<>> ELSE SubSeq(b, first, Len(b))
  BY Zenon DEF DropZeros
<1> HIDE DEF nonzero
<1>4. first \in nonzero /\ \A k \in nonzero : first <= k
  BY <1>1
<1> HIDE DEF first
<1>5. first = 1
  BY <1>1, <1>2, <1>4
<1>6. SubSeq(b, 1, Len(b)) = b
  BY SubSeqFull
<1> QED
  BY <1>1, <1>3, <1>5, <1>6

LEMMA DropAll ==
    ASSUME NEW b, \A i \in DOMAIN b : b[i] = 0
    PROVE  DropZeros(b) = <<>>
BY Zenon DEF DropZeros

LEMMA ReceiveCases ==
    ASSUME NEW bytes, Receive(bytes),
           NEW all, all = IF rx = <<>> THEN DropZeros(bytes) ELSE rx \o bytes
    PROVE  \/ Len(all) < 16 /\ rx' = all /\ UNCHANGED settings
           \/ /\ ~(Len(all) < 16) /\ rx' = DropZeros(SubSeq(all, 17, Len(all)))
              /\ Execute(Packet(all))
BY Zenon DEF Receive

-----------------------------------------------------------------------------
(* Pieces of requests *)

\* The first n bytes of a request, then what picods after it have sent to ask for the
\* version.
FollowedBy(s, n, req) ==
    /\ \A i \in 1 .. n : s[i] = req[i - 1]
    /\ \A i \in n + 1 .. Len(s) : s[i] \in {0, 70}
    /\ n < Len(s) => s[n + 1] = 70

Pieces(s) ==
    /\ s \in Seq(Nat) /\ Len(s) < 16
    /\ s # <<>> => \E req \in AllRequests : \E n \in 1 .. Len(s) : FollowedBy(s, n, req)

WatchdogSafe == wd.timeout \in Nat /\ wd.timeout >= 1

LEMMA ExecuteSafe ==
    ASSUME NEW p, \A i \in Places : p[i] \in Nat, Arms(p), Execute(p), WatchdogSafe
    PROVE  WatchdogSafe'
<1>1. CASE p[0] # 67 \/ ~Bit(p[1], 0)
  <2>1. wd' = wd
    BY <1>1, Zenon DEF Execute, WatchdogAfter, Magic
  <2> QED
    BY <2>1, Zenon DEF WatchdogSafe
<1>2. CASE p[0] = 67 /\ Bit(p[1], 0)
  <2>1. PICK ok : wd' = WatchdogAfter(p, ok)
    BY <1>2, Zenon DEF Execute, Magic
  <2>2. PICK e : wd' = [WatchdogOf(p) EXCEPT !.enable = e]
    BY <1>2, <2>1, Zenon DEF WatchdogAfter
  <2>3. wd'.timeout = FromU16(p, 2)
    BY <2>2 DEF WatchdogOf
  <2>4. FromU16(p, 2) \in Nat
    BY DEF FromU16, Places
  <2> QED
    BY <1>2, <2>3, <2>4 DEF Arms, WatchdogSafe
<1> QED
  BY <1>1, <1>2

\* Whatever packet comes out of the pieces, it does not write a watchdog of no seconds.
LEMMA PiecesArm ==
    ASSUME NEW req, Sound(req), NEW all \in Seq(Nat), Len(all) >= 16,
           NEW k \in 1 .. 15, FollowedBy(all, k, req), NEW p, p = Packet(all)
    PROVE  (\A i \in Places : p[i] \in Nat) /\ Arms(p)
<1>1. \A i \in Places : i + 1 \in 1 .. Len(all) /\ p[i] = all[i + 1]
  BY DEF Packet, Places
<1>2. \A i \in Places : p[i] \in Nat
  BY <1>1
<1>3. 0 \in Places /\ 1 \in Places /\ 2 \in Places /\ 3 \in Places
  BY DEF Places
<1>4. \A i \in Places : i < k => p[i] = req[i]
  <2>1. \A i \in Places : i < k => i + 1 \in 1 .. k /\ (i + 1) - 1 = i
    BY DEF Places
  <2> QED
    BY <1>1, <2>1 DEF FollowedBy
<1>5. k \in Places /\ p[k] = 70
  <2>1. k < Len(all) /\ k \in Places
    BY DEF Places
  <2> QED
    BY <1>1, <2>1 DEF FollowedBy
<1>6. FromU16(p, 2) = p[2] + 256 * p[3] /\ FromU16(req, 2) = req[2] + 256 * req[3]
  BY DEF FromU16
<1>7. CASE k = 1
  <2>1. (70 \div 2^0) % 2 # 1
    BY Powers
  <2>2. ~Bit(p[1], 0)
    BY <1>5, <1>7, <2>1, Zenon DEF Bit
  <2> QED
    BY <1>2, <2>2, Zenon DEF Arms
<1>8. CASE k = 2 \/ k = 3
  <2>1. p[2] \in Nat /\ p[3] \in Nat /\ (p[2] = 70 \/ p[3] = 70)
    BY <1>2, <1>3, <1>5, <1>8
  <2>2. FromU16(p, 2) >= 1
    BY <1>6, <2>1, SMTT(30)
  <2> QED
    BY <1>2, <2>2, Zenon DEF Arms
<1>9. CASE k >= 4
  <2>1. p[0] = req[0] /\ p[1] = req[1] /\ p[2] = req[2] /\ p[3] = req[3]
    BY <1>3, <1>4, <1>9
  <2>2. FromU16(p, 2) = FromU16(req, 2)
    BY <1>6, <2>1
  <2> QED
    BY <1>2, <2>1, <2>2, Zenon DEF Sound, Arms
<1> QED
  BY <1>7, <1>8, <1>9

\* The first piece: it waits, unless nothing has gone out.
LEMMA ReceiveFirst ==
    ASSUME rx = <<>>, NEW req \in AllRequests, NEW n \in 0 .. 15,
           Receive(SubSeq(Sent(req), 1, n))
    PROVE  Pieces(rx') /\ UNCHANGED settings
<1>1. Sound(req)
  BY RequestsSound
<1>2. PICK p : p = SubSeq(Sent(req), 1, n)
  OBVIOUS
<1>3. p \in Seq(Nat) /\ Len(p) = n /\ \A i \in 1 .. n : p[i] = req[i - 1]
  <2>1. n \in 0 .. 16
    OBVIOUS
  <2> QED
    BY <1>1, <1>2, <2>1, PrefixBytes
<1>4. DropZeros(p) = p
  <2>1. CASE n = 0
    <3>1. p = <<>> /\ \A i \in DOMAIN p : p[i] = 0
      BY <1>3, <2>1
    <3> QED
      BY <3>1, DropAll
  <2>2. CASE n # 0
    <3>1. 1 \in 1 .. n /\ 1 - 1 = 0 /\ p # <<>>
      BY <1>3, <2>2
    <3>2. p[1] # 0
      BY <1>1, <1>3, <3>1 DEF Sound
    <3> QED
      BY <1>3, <3>1, <3>2, DropNone
  <2> QED
    BY <2>1, <2>2
<1>5. rx' = p /\ UNCHANGED settings
  <2>1. \/ Len(p) < 16 /\ rx' = p /\ UNCHANGED settings
        \/ ~(Len(p) < 16) /\ Execute(Packet(p))
    BY <1>2, <1>4, ReceiveCases, Zenon
  <2>2. Len(p) < 16
    BY <1>3
  <2> QED
    BY <2>1, <2>2, Zenon
<1>6. Pieces(p)
  <2>1. p # <<>> => n \in 1 .. Len(p) /\ FollowedBy(p, n, req)
    BY <1>3 DEF FollowedBy
  <2> QED
    BY <1>3, <2>1 DEF Pieces
<1> QED
  BY <1>5, <1>6, Zenon

LEMMA ReceiveWhole ==
    ASSUME rx = <<>>, NEW req, Sound(req), Receive(Sent(req))
    PROVE  rx' = <<>> /\ Execute(req)
<1>1. PICK p : p = Sent(req)
  OBVIOUS
<1>2. p \in Seq(Nat) /\ Len(p) = 16 /\ p[1] = req[0]
  <2>1. PICK n \in 0 .. 16 : n = 16
    OBVIOUS
  <2>2. p = SubSeq(Sent(req), 1, n)
    BY <1>1, <2>1, SentBytes
  <2>3. p \in Seq(Nat) /\ Len(p) = n /\ \A i \in 1 .. n : p[i] = req[i - 1]
    BY <2>2, PrefixBytes
  <2>4. 1 \in 1 .. n /\ 1 - 1 = 0
    BY <2>1
  <2> QED
    BY <2>1, <2>3, <2>4
<1>3. DropZeros(p) = p
  BY <1>2, DropNone DEF Sound
<1>4. \/ Len(p) < 16 /\ rx' = p /\ UNCHANGED settings
      \/ /\ ~(Len(p) < 16) /\ rx' = DropZeros(SubSeq(p, 17, Len(p)))
         /\ Execute(Packet(p))
  BY <1>1, <1>3, ReceiveCases, Zenon
<1>5. SubSeq(p, 17, Len(p)) = <<>>
  BY <1>2, SubSeqEmpty
<1>6. DropZeros(<<>>) = <<>>
  <2>1. \A i \in DOMAIN <<>> : <<>>[i] = 0
    OBVIOUS
  <2> QED
    BY <2>1, DropAll
<1>7. Packet(p) = req
  BY <1>1, SentBytes
<1>8. ~(Len(p) < 16)
  BY <1>2
<1> QED
  BY <1>4, <1>5, <1>6, <1>7, <1>8, Zenon

\* A request for the version, or a piece of one, after pieces that wait.
LEMMA ReceiveMore ==
    ASSUME Pieces(rx), rx # <<>>, WatchdogSafe, NEW n \in 0 .. 16,
           Receive(SubSeq(Sent(OneByte(70)), 1, n))
    PROVE  Pieces(rx') /\ WatchdogSafe' /\ (n = 16 => rx' = <<>>)
<1>1. PICK req \in AllRequests, k \in 1 .. Len(rx) : FollowedBy(rx, k, req)
  BY DEF Pieces
<1>2. Sound(req)
  BY RequestsSound
<1>3. PICK p : p = SubSeq(Sent(OneByte(70)), 1, n)
  OBVIOUS
<1>4. /\ p \in Seq(Nat) /\ Len(p) = n
      /\ \A i \in 1 .. n : p[i] = IF i = 1 THEN 70 ELSE 0
  <2>1. PICK v : v = OneByte(70)
    OBVIOUS
  <2>2. Sound(v) /\ 70 \in Nat
    BY <2>1, OneByteSound
  <2>3. v[0] = 70 /\ \A i \in Places : i # 0 => v[i] = 0
    BY <2>1, <2>2, OneByteBytes
  <2>4. p \in Seq(Nat) /\ Len(p) = n /\ \A i \in 1 .. n : p[i] = v[i - 1]
    <3>1. p = SubSeq(Sent(v), 1, n)
      BY <1>3, <2>1, Zenon
    <3> QED
      BY <2>2, <3>1, PrefixBytes
  <2>5. \A i \in 1 .. n : i - 1 \in Places /\ (i - 1 = 0 <=> i = 1)
    BY DEF Places
  <2> QED
    BY <2>3, <2>4, <2>5, ZenonT(60)
<1>5. PICK m \in 1 .. 15 : m = Len(rx)
  <2>1. Len(rx) \in Nat /\ Len(rx) # 0 /\ Len(rx) < 16
    BY DEF Pieces
  <2>2. PICK l : l = Len(rx)
    OBVIOUS
  <2>3. l \in Nat /\ l # 0 /\ l < 16
    BY <2>1, <2>2
  <2>4. l \in 1 .. 15
    BY <2>3
  <2> QED
    BY <2>2, <2>4, Zenon
<1>6. PICK all : all = rx \o p
  OBVIOUS
<1>7. /\ all \in Seq(Nat) /\ Len(all) = m + n
      /\ \A i \in 1 .. m : all[i] = rx[i]
      /\ \A i \in 1 .. n : all[m + i] = p[i]
  <2>1. rx \in Seq(Nat)
    BY DEF Pieces
  <2>2. /\ all \in Seq(Nat) /\ Len(all) = Len(rx) + Len(p)
        /\ \A i \in 1 .. Len(rx) + Len(p) : all[i] = IF i <= Len(rx) THEN rx[i] ELSE p[i - Len(rx)]
    BY <1>4, <1>6, <2>1, ConcatProperties
  <2>3. Len(all) = m + n /\ \A i \in 1 .. m + n : all[i] = IF i <= m THEN rx[i] ELSE p[i - m]
    BY <1>4, <1>5, <2>2
  <2>4. ASSUME NEW i \in 1 .. m PROVE all[i] = rx[i]
    BY <2>3
  <2>5. ASSUME NEW i \in 1 .. n PROVE all[m + i] = p[i]
    <3>1. m + i \in 1 .. m + n /\ ~(m + i <= m) /\ m + i - m = i
      OBVIOUS
    <3> QED
      BY <2>3, <3>1
  <2> QED
    BY <2>2, <2>3, <2>4, <2>5
<1>8. k \in 1 .. 15 /\ k <= m
  BY <1>5, SMTT(30)
<1>9. FollowedBy(all, k, req)
  <2>1. \A i \in 1 .. k : all[i] = req[i - 1]
    BY <1>1, <1>7, <1>8 DEF FollowedBy
  <2>2. ASSUME NEW i \in k + 1 .. m + n
        PROVE  all[i] \in {0, 70} /\ (i = k + 1 => all[i] = 70)
    <3>1. CASE i <= m
      <4>1. i \in k + 1 .. Len(rx) /\ i \in 1 .. m
        BY <1>5, <1>8, <3>1
      <4>2. rx[i] \in {0, 70} /\ (i = k + 1 => rx[i] = 70)
        BY <1>1, <1>8, <4>1 DEF FollowedBy
      <4> QED
        BY <1>7, <4>1, <4>2
    <3>2. CASE i > m
      <4>1. PICK j \in 1 .. n : i = m + j
        <5>1. i - m \in 1 .. n /\ i = m + (i - m)
          BY <1>8, <3>2
        <5> QED
          BY <5>1
      <4>2. all[i] = p[j]
        BY <1>7, <4>1
      <4>3. i = k + 1 => j = 1
        BY <1>8, <4>1
      <4> QED
        BY <1>4, <4>2, <4>3
    <3> QED
      BY <1>8, <3>1, <3>2
  <2>3. k < Len(all) => k + 1 \in k + 1 .. m + n
    BY <1>7, <1>8
  <2> QED
    BY <1>7, <2>1, <2>2, <2>3 DEF FollowedBy
<1>10. \/ Len(all) < 16 /\ rx' = all /\ UNCHANGED settings
       \/ /\ ~(Len(all) < 16) /\ rx' = DropZeros(SubSeq(all, 17, Len(all)))
          /\ Execute(Packet(all))
  BY <1>3, <1>6, ReceiveCases, Zenon
<1>11. CASE Len(all) < 16
  <2>1. rx' = all /\ UNCHANGED settings
    BY <1>10, <1>11, Zenon
  <2>2. k \in 1 .. Len(all) /\ n # 16
    BY <1>7, <1>8, <1>11
  <2>3. Pieces(all)
    BY <1>7, <1>9, <1>11, <2>2 DEF Pieces
  <2>4. WatchdogSafe'
    BY <2>1, Zenon DEF WatchdogSafe, settings
  <2> QED
    BY <2>1, <2>2, <2>3, <2>4, Zenon
<1>12. CASE ~(Len(all) < 16)
  <2>1. rx' = DropZeros(SubSeq(all, 17, Len(all))) /\ Execute(Packet(all))
    BY <1>10, <1>12, Zenon
  <2>2. PICK r : r = SubSeq(all, 17, Len(all))
    OBVIOUS
  <2>3. Len(all) \in Int /\ Len(all) >= 16 /\ 17 \in Int
    BY <1>7, <1>12
  <2>4. \A i \in 17 .. Len(all) : all[i] = 0
    <3>1. ASSUME NEW i \in 17 .. m + n PROVE all[i] = 0
      <4>1. PICK j \in 2 .. n : i = m + j
        <5>1. i - m \in 2 .. n /\ i = m + (i - m)
          OBVIOUS
        <5> QED
          BY <5>1
      <4>2. j \in 1 .. n /\ j # 1
        OBVIOUS
      <4>3. all[m + j] = p[j] /\ p[j] = 0
        BY <1>4, <1>7, <4>2
      <4> QED
        BY <4>1, <4>3
    <3> QED
      BY <1>7, <3>1
  <2>5. /\ r \in Seq(Nat)
        /\ Len(r) = IF 17 <= Len(all) THEN Len(all) - 17 + 1 ELSE 0
        /\ \A i \in 1 .. Len(all) - 17 + 1 : r[i] = all[17 + i - 1]
    BY <2>2, <2>3, <2>4, SubSeqProperties, 0 \in Nat
  <2>6. \A i \in DOMAIN r : r[i] = 0
    <3>1. ASSUME NEW i \in 1 .. Len(r) PROVE r[i] = 0
      <4>1. i \in 1 .. Len(all) - 17 + 1 /\ 17 + i - 1 \in 17 .. Len(all)
        BY <2>3, <2>5
      <4> QED
        BY <2>4, <2>5, <4>1
    <3> QED
      BY <2>5, <3>1
  <2>7. rx' = <<>>
    BY <2>1, <2>2, <2>6, DropAll
  <2>8. WatchdogSafe'
    <3>1. PICK t : t = Packet(all)
      OBVIOUS
    <3>2. (\A i \in Places : t[i] \in Nat) /\ Arms(t)
      BY <1>2, <1>7, <1>8, <1>9, <2>3, <3>1, PiecesArm
    <3> QED
      BY <2>1, <3>1, <3>2, ExecuteSafe
  <2>9. Pieces(<<>>)
    BY DEF Pieces
  <2> QED
    BY <2>7, <2>8, <2>9, Zenon
<1> QED
  BY <1>11, <1>12

-----------------------------------------------------------------------------
(* The start-up *)

Restored == [f \in Fans |-> Packed[Configured[f]]]

\* init_fan_pwm leaves the fans as configured: the Pico has nothing to cut.
LEMMA FansRestored ==
    ASSUME Execute(FanRequest(TRUE, Configured))
    PROVE  duty' = Restored /\ UNCHANGED wd
<1>1. PICK req : req = FanRequest(TRUE, Configured)
  OBVIOUS
<1>2. /\ req[0] = 66 /\ Addressed(req) = Fans /\ Bit(req[2], 0) = TRUE
      /\ Percents(req) = [f \in Fans |-> IF f \in Fans THEN Packed[Configured[f]] ELSE 0]
  <2>1. PICK w \in BOOLEAN : w = TRUE
    BY Zenon
  <2>2. PICK fs \in SUBSET Fans : fs = Fans
    BY Zenon
  <2>3. DOMAIN Configured = fs /\ req = FanRequest(w, Configured)
    BY <1>1, <2>1, <2>2, ConfiguredPercents, Zenon
  <2>4. req[0] = 66
    BY <2>3, FanRequestBytes
  <2>5. Addressed(req) = fs
    BY <2>3, FanRequestBytes
  <2>6. Bit(req[2], 0) = w
    BY <2>3, FanRequestBytes
  <2>7. Percents(req) = [f \in Fans |-> IF f \in fs THEN Packed[Configured[f]] ELSE 0]
    BY <2>3, FanRequestBytes
  <2> QED
    BY <2>1, <2>2, <2>4, <2>5, <2>6, <2>7, Zenon
<1>3. Magic.fan = 66 /\ Magic.watchdog = 67
  BY DEF Magic
<1>4. duty' = Duties(req) /\ UNCHANGED wd
  <2>1. req[0] = Magic.fan /\ req[0] # Magic.watchdog
    BY <1>2, <1>3
  <2> QED
    BY <1>1, <2>1, Zenon DEF Execute
<1>5. ASSUME NEW f \in Fans PROVE Clamped(Percents(req)[f]) = Packed[Configured[f]]
  <2>1. Percents(req)[f] = Packed[Configured[f]]
    BY <1>2, Zenon
  <2>2. Packed[Configured[f]] \in 0 .. 100
    BY ConfiguredPercents, PackedIsPercent
  <2> QED
    BY <2>1, <2>2 DEF Clamped
<1>6. Duties(req) = Restored
  BY <1>2, <1>5, Zenon DEF Duties, Restored
<1> QED
  BY <1>4, <1>6, Zenon

\* init_watchdog leaves the settings as configured, but for an alarm that the Pico could
\* not add or cancel.
LEMMA WatchdogRestored ==
    ASSUME Execute(WatchdogRequest(TRUE, ConfiguredWatchdog))
    PROVE  [wd' EXCEPT !.enable = ConfiguredWatchdog.enable] = ConfiguredWatchdog /\ UNCHANGED duty
<1>1. PICK req : req = WatchdogRequest(TRUE, ConfiguredWatchdog)
  OBVIOUS
<1>2. PICK c \in Armed : c = ConfiguredWatchdog
  BY SettingsAreArmed
<1>3. c \in Watchdogs /\ TRUE \in BOOLEAN
  BY ArmedFields
<1>4. /\ req[0] = 67 /\ Bit(req[1], 0) = TRUE /\ Bit(req[1], 2) = c.enable
      /\ FromU16(req, 2) = c.timeout /\ FromU16(req, 4) = c.retries
  BY <1>1, <1>2, <1>3, WatchdogRequestBytes, ZenonT(60)
<1>5. Magic.fan = 66 /\ Magic.watchdog = 67
  BY DEF Magic
<1>6. UNCHANGED duty /\ \E ok : wd' = WatchdogAfter(req, ok)
  <2>1. req[0] = Magic.watchdog /\ req[0] # Magic.fan
    BY <1>4, <1>5
  <2> QED
    BY <1>1, <2>1, Zenon DEF Execute
<1>7. WatchdogOf(req) = c
  BY <1>3, <1>4, WatchdogFields, Zenon DEF WatchdogOf
<1>8. PICK e : wd' = [c EXCEPT !.enable = e]
  BY <1>4, <1>6, <1>7, Zenon DEF WatchdogAfter
<1>9. [wd' EXCEPT !.enable = c.enable] = c
  BY <1>8 DEF Armed
<1> QED
  BY <1>2, <1>6, <1>9, Zenon

-----------------------------------------------------------------------------
(* The invariant *)

StartUpInv ==
    /\ startup \in {"no", "done"} \cup DOMAIN StartUpRequest
    /\ startup # "version" => rx = <<>>
    /\ startup = "watchdog" => duty = Restored
    /\ startup = "done" =>
          duty = Restored /\ [wd EXCEPT !.enable = ConfiguredWatchdog.enable] = ConfiguredWatchdog

AnswerInv ==
    /\ startup = "no" => Answering
    /\ startup # "no" => meant = Nothing
    /\ AnswersTrue

IInv == StartUpInv /\ Pieces(rx) /\ WatchdogSafe /\ AnswerInv

LEMMA AnsweringIsSafe == ASSUME Answering PROVE WatchdogSafe
BY ArmedFields DEF Answering, WatchdogSafe

LEMMA InitInv == Init => IInv
<1> SUFFICES ASSUME Init PROVE IInv
  OBVIOUS
<1>1. startup = "no" /\ rx = <<>> /\ meant = Nothing
  BY DEF Init
<1>2. Answering
  <2>1. 30 \in Seconds /\ 0 \in Word
    BY DEF Seconds, Word
  <2>2. wd \in Armed
    BY <2>1 DEF Init, Armed
  <2>3. dataIndex \in 0 .. VersionLen
    BY VersionLenIsNat DEF Init
  <2> QED
    BY <2>2, <2>3 DEF Answering
<1>3. Pieces(rx)
  BY <1>1 DEF Pieces
<1>4. StartUpInv
  BY <1>1 DEF StartUpInv
<1>5. AnswerInv
  BY <1>1, <1>2, Zenon DEF AnswerInv, AnswersTrue
<1> QED
  BY <1>2, <1>3, <1>4, <1>5, AnsweringIsSafe DEF IInv

\* A running picod and the Pico, with no reset yet.
LEMMA WholeInv ==
    ASSUME IInv, startup = "no", Whole
    PROVE  IInv'
<1>1. Answering
  BY DEF IInv, AnswerInv
<1>2. AnswersTrue' /\ Answering' /\ rx' = rx /\ startup' = startup
  BY <1>1, WholeTold, Zenon DEF cut
<1>3. WatchdogSafe'
  BY <1>2, ArmedFields DEF Answering, WatchdogSafe
<1>4. StartUpInv'
  BY <1>2 DEF IInv, StartUpInv
<1>5. AnswerInv'
  BY <1>2, Zenon DEF AnswerInv
<1>6. Pieces(rx)'
  BY <1>2, Zenon DEF IInv
<1> QED
  BY <1>3, <1>4, <1>5, <1>6, Zenon DEF IInv

\* A reset leaves pieces of at most one request and of those for the version.
LEMMA CutInv ==
    ASSUME IInv, Cut
    PROVE  IInv'
<1>1. startup' = "version" /\ meant' = Nothing
  BY Zenon DEF Cut
<1>2. PICK req \in IF startup \in {"no", "done"} THEN Requests ELSE {StartUpRequest[startup]},
           length \in 0 .. 15 : Receive(SubSeq(Sent(req), 1, length))
  BY Zenon DEF Cut
<1>3. startup \in {"no", "done"} \cup DOMAIN StartUpRequest
  BY Zenon DEF IInv, StartUpInv
<1>4. req \in AllRequests
  BY <1>2, <1>3 DEF AllRequests
<1>5. Pieces(rx') /\ WatchdogSafe'
  <2>1. CASE rx = <<>>
    <3>1. Pieces(rx') /\ UNCHANGED settings
      BY <1>2, <1>4, <2>1, ReceiveFirst
    <3>2. WatchdogSafe'
      BY <3>1, Zenon DEF IInv, WatchdogSafe, settings
    <3> QED
      BY <3>1, <3>2, Zenon
  <2>2. CASE rx # <<>>
    <3>1. startup = "version"
      BY <2>2, Zenon DEF IInv, StartUpInv
    <3>2. req = OneByte(70)
      BY <1>2, <3>1, StartUpRequests
    <3>3. length \in 0 .. 16
      OBVIOUS
    <3>4. Pieces(rx) /\ WatchdogSafe
      BY Zenon DEF IInv
    <3>5. Receive(SubSeq(Sent(OneByte(70)), 1, length))
      BY <1>2, <3>2, Zenon
    <3> QED
      BY <2>2, <3>3, <3>4, <3>5, ReceiveMore
  <2> QED
    BY <2>1, <2>2, Zenon
<1>6. StartUpInv'
  BY <1>1, StartUpRequests DEF StartUpInv
<1>7. AnswerInv'
  BY <1>1, Zenon DEF AnswerInv, AnswersTrue
<1> QED
  BY <1>5, <1>6, <1>7, Zenon DEF IInv

LEMMA StartUpInvKept ==
    ASSUME IInv, StartUp
    PROVE  IInv'
<1>1. startup \in {"version", "fans", "watchdog"}
  BY StartUpRequests DEF StartUp
<1>2. meant' = meant /\ meant = Nothing
  BY <1>1, Zenon DEF StartUp, IInv, AnswerInv
<1>3. /\ Receive(Sent(StartUpRequest[startup]))
      /\ startup' = CASE startup = "version" -> IF dataIndex' > dataIndex THEN "version" ELSE "fans"
                      [] startup = "fans" -> "watchdog"
                      [] startup = "watchdog" -> "done"
  BY Zenon DEF StartUp
<1>4. StartUpRequest[startup] \in AllRequests
  BY <1>1, StartUpRequests DEF AllRequests
<1>5. Sound(StartUpRequest[startup])
  BY <1>4, RequestsSound
<1>6. WatchdogSafe /\ Pieces(rx)
  BY Zenon DEF IInv
<1>7. ASSUME rx = <<>>
      PROVE  rx' = <<>> /\ Execute(StartUpRequest[startup]) /\ WatchdogSafe'
  <2>1. rx' = <<>> /\ Execute(StartUpRequest[startup])
    BY <1>3, <1>5, <1>7, ReceiveWhole
  <2>2. WatchdogSafe'
    BY <1>5, <1>6, <2>1, ExecuteSafe DEF Sound
  <2> QED
    BY <2>1, <2>2
<1>8. startup # "version" => rx = <<>>
  BY Zenon DEF IInv, StartUpInv
<1>9. rx' = <<>> /\ WatchdogSafe' /\ StartUpInv' /\ startup' # "no"
  <2>1. CASE startup = "version"
    <3>1. startup' = "version" \/ startup' = "fans"
      BY <1>3, <2>1
    <3>2. rx' = <<>> /\ WatchdogSafe'
      <4>1. CASE rx = <<>>
        BY <1>7, <4>1
      <4>2. CASE rx # <<>>
        <5>1. PICK n \in 0 .. 16 : n = 16
          OBVIOUS
        <5>2. Sound(OneByte(70))
          BY OneByteSound
        <5>3. Receive(SubSeq(Sent(OneByte(70)), 1, n))
          BY <1>3, <2>1, <5>1, <5>2, SentBytes, StartUpRequests, Zenon
        <5> QED
          BY <1>6, <4>2, <5>1, <5>3, ReceiveMore
      <4> QED
        BY <4>1, <4>2, Zenon
    <3>3. StartUpInv'
      BY <3>1, <3>2, StartUpRequests DEF StartUpInv
    <3> QED
      BY <3>1, <3>2, <3>3
  <2>2. CASE startup = "fans"
    <3>1. startup' = "watchdog"
      BY <1>3, <2>2
    <3>2. rx' = <<>> /\ Execute(FanRequest(TRUE, Configured)) /\ WatchdogSafe'
      BY <1>7, <1>8, <2>2, StartUpRequests
    <3>3. duty' = Restored
      BY <3>2, FansRestored
    <3>4. StartUpInv'
      BY <3>1, <3>2, <3>3, StartUpRequests DEF StartUpInv, Restored
    <3> QED
      BY <3>1, <3>2, <3>4
  <2>3. CASE startup = "watchdog"
    <3>1. startup' = "done"
      BY <1>3, <2>3
    <3>2. rx' = <<>> /\ Execute(WatchdogRequest(TRUE, ConfiguredWatchdog)) /\ WatchdogSafe'
      BY <1>7, <1>8, <2>3, StartUpRequests
    <3>3. /\ duty' = duty
          /\ [wd' EXCEPT !.enable = ConfiguredWatchdog.enable] = ConfiguredWatchdog
      BY <3>2, WatchdogRestored
    <3>4. duty = Restored
      BY <2>3, Zenon DEF IInv, StartUpInv
    <3>5. StartUpInv'
      BY <3>1, <3>2, <3>3, <3>4, Zenon DEF StartUpInv, Restored
    <3> QED
      BY <3>1, <3>2, <3>5
  <2> QED
    BY <1>1, <2>1, <2>2, <2>3
<1>10. Pieces(rx')
  BY <1>9 DEF Pieces
<1>11. AnswerInv'
  BY <1>2, <1>9, Zenon DEF AnswerInv, AnswersTrue
<1> QED
  BY <1>9, <1>10, <1>11, Zenon DEF IInv

THEOREM PacketsInvariant == Spec => []IInv
<1>1. IInv /\ [Next]_pvars => IInv'
  <2> SUFFICES ASSUME IInv, [Next]_pvars PROVE IInv'
    OBVIOUS
  <2>1. CASE startup = "no" /\ Whole
    BY <2>1, WholeInv
  <2>2. CASE Cut
    BY <2>2, CutInv
  <2>3. CASE StartUp
    BY <2>3, StartUpInvKept
  <2>4. CASE UNCHANGED pvars
    <3>1. UNCHANGED <<resp, duty, wd, dataIndex, meant, rx, startup>>
      BY <2>4, Zenon DEF pvars, settings, cut
    <3> QED
      BY <3>1, Zenon DEF IInv, StartUpInv, AnswerInv, AnswersTrue, Answering, WatchdogSafe, Pieces,
                        Restored
  <2> QED
    BY <2>1, <2>2, <2>3, <2>4, Zenon DEF Next
<1> QED
  BY InitInv, <1>1, PTL DEF Spec

\* Whatever the sensors read, whatever is asked and in whatever order, and whatever the
\* Pico's one buffer still holds of earlier answers: the host's unpacking
\* (pico_pkt_*_resp_unpack) gives exactly what the Pico meant to tell.
THEOREM AnswersAreTrue == Spec => []AnswersTrue
<1>1. IInv => AnswersTrue
  BY Zenon DEF IInv, AnswerInv
<1> QED
  BY <1>1, PacketsInvariant, PTL

\* However often and at whatever byte resets of the CM4 cut its requests: an enabled
\* watchdog keeps its second, and when init_pico has ended the Pico's fans and watchdog
\* are as configured and its receiver waits for the start of a packet.
THEOREM StartUpRestores == Spec => []RestartRestores
<1>1. IInv => RestartRestores
  BY Zenon DEF IInv, StartUpInv, WatchdogSafe, RestartRestores, Restored
<1> QED
  BY <1>1, PacketsInvariant, PTL
================================================================================
