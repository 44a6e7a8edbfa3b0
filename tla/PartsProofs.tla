----------------------------- MODULE PartsProofs -----------------------------
(***************************************************************************)
(* Theorems about components that share nothing: the intervals of readings *)
(* and the value that a user sees of a reading, for every sensor and every *)
(* factor; the packets of a connection, for every block size; the boot     *)
(* device of the virtual host, for every number of tries and commands; and *)
(* how the login of a client returns, for all that it has and is asked for.*)
(***************************************************************************)
EXTENDS SensorValue, PacketStream, BmcScripts, SequenceTheorems, TLAPS

-----------------------------------------------------------------------------
(* Readings and factors *)

\* The bytes of an ordered sensor, and what is severer
LEMMA Ordered ==
  ASSUME NEW t \in Sensor, WellOrdered(t)
  PROVE  /\ \A l \in Levels : t.raw[l] \in Int /\ 0 <= t.raw[l] /\ t.raw[l] <= 2 * Half - 1
         /\ \A l \in Lower, u \in Upper : t.raw[l] + 1 < t.raw[u]
         /\ \A l \in Lower : Severer(l) \in Lower /\
                             (Severer(l) # l => t.raw[Severer(l)] < t.raw[l])
         /\ \A u \in Upper : Severer(u) \in Upper /\
                             (Severer(u) # u => t.raw[u] < t.raw[Severer(u)])
<1>1. \A l \in Levels : t.raw[l] \in Int /\ 0 <= t.raw[l] /\ t.raw[l] <= 2 * Half - 1
  BY HalfAssumption DEF Sensor, Bytes
<1> QED
  BY <1>1 DEF WellOrdered, Lower, Upper, Levels, Severer

\* A reading of the auto mode lies strictly inside every readable threshold.
LEMMA AutoInside ==
  ASSUME NEW t \in Sensor, WellOrdered(t), NEW v \in AutoInterval(t), NEW l \in Levels
  PROVE  ~Crosses(t, v, l)
<1>1. v \in Int
  BY DEF AutoInterval
<1>2. CASE l \in Lower /\ l \in t.readable
  <2>1. InnerLower(t) \in Lower /\ t.raw[l] <= t.raw[InnerLower(t)]
    BY <1>2, Ordered DEF InnerLower, Innermost, Lower, WellOrdered, Levels
  <2>2. t.raw[InnerLower(t)] + 1 <= v
    BY <2>1, Ordered DEF AutoInterval, Lower, Levels
  <2> QED
    BY <1>1, <1>2, <2>1, <2>2, Ordered DEF Crosses, Lower, Levels
<1>3. CASE l \in Upper /\ l \in t.readable
  <2>1. InnerUpper(t) \in Upper /\ t.raw[InnerUpper(t)] <= t.raw[l]
    BY <1>3, Ordered DEF InnerUpper, Innermost, Upper, WellOrdered, Levels
  <2>2. v <= t.raw[InnerUpper(t)] - 1
    BY <2>1, Ordered DEF AutoInterval, Upper, Levels
  <2> QED
    BY <1>1, <1>3, <2>1, <2>2, Ordered DEF Crosses, Lower, Upper, Levels
<1> QED
  BY <1>2, <1>3 DEF Crosses, Levels

\* A fault reading lies between its threshold and the next severer one.
LEMMA FaultBetween ==
  ASSUME NEW t \in Sensor, WellOrdered(t), NEW l \in t.readable \cap Levels,
         NEW v \in FaultInterval(t, l)
  PROVE  /\ Crosses(t, v, l)
         /\ Severer(l) = l \/ ~Crosses(t, v, Severer(l))
<1>1. CASE l \in Lower
  BY <1>1, Ordered DEF FaultInterval, Crosses, Levels
<1>2. CASE l \in Upper
  BY <1>2, Ordered DEF FaultInterval, Crosses, Levels, Lower, Upper, MaxRaw
<1> QED
  BY <1>1, <1>2 DEF Levels

\* With an unsigned format no interval is empty.
LEMMA UnsignedNonEmpty ==
  ASSUME NEW t \in Sensor, WellOrdered(t), ~t.signed
  PROVE  /\ AutoInterval(t) # {}
         /\ \A l \in Levels : FaultInterval(t, l) # {}
<1>1. AutoInterval(t) # {}
  <2> DEFINE lo == IF InnerLower(t) = "none" THEN MinRaw(t) ELSE t.raw[InnerLower(t)] + 1
             hi == IF InnerUpper(t) = "none" THEN MaxRaw(t) ELSE t.raw[InnerUpper(t)] - 1
  <2>1. InnerLower(t) \in Lower \cup {"none"} /\ InnerUpper(t) \in Upper \cup {"none"}
    BY DEF InnerLower, InnerUpper, Innermost, Lower, Upper
  <2>2. lo \in Int /\ hi \in Int /\ lo <= hi
    BY <2>1, Ordered, HalfAssumption DEF MinRaw, MaxRaw, Lower, Upper, Levels
  <2>3. lo \in lo .. hi
    BY <2>2
  <2> QED
    BY <2>3 DEF AutoInterval
<1>2. ASSUME NEW l \in Levels PROVE t.raw[l] \in FaultInterval(t, l)
  <2>1. /\ t.raw[l] \in Int /\ 0 <= t.raw[l] /\ t.raw[l] <= 2 * Half - 1
        /\ Severer(l) \in Levels /\ t.raw[Severer(l)] \in Int
    BY Ordered DEF Levels
  <2>2. CASE l \in Lower
    BY <2>1, <2>2, Ordered DEF FaultInterval
  <2>3. CASE l \in Upper
    <3>1. l \notin Lower
      BY <2>3 DEF Lower, Upper
    <3>2. MaxRaw(t) \in Int /\ t.raw[l] <= MaxRaw(t)
      BY <2>1, HalfAssumption DEF MaxRaw
    <3>3. Severer(l) # l => t.raw[l] <= t.raw[Severer(l)] - 1
      BY <2>1, <2>3, Ordered
    <3> QED
      BY <2>1, <3>1, <3>2, <3>3 DEF FaultInterval
  <2> QED
    BY <2>2, <2>3 DEF Levels
<1> QED
  BY <1>1, <1>2

-----------------------------------------------------------------------------
\* Every sensor is one of the SDR repository, and well ordered.
LEMMA DeviceInvariant == ReadingsSpec => [](sensor \in Sensor /\ WellOrdered(sensor))
<1>1. ReadingsInit => sensor \in Sensor /\ WellOrdered(sensor)
  BY DevicesAssumption DEF ReadingsInit
<1>2. sensor \in Sensor /\ WellOrdered(sensor) /\ [ReadingsNext]_readingVars
        => (sensor \in Sensor /\ WellOrdered(sensor))'
  BY DEF ReadingsNext, DrawAuto, DrawFault, Draw, readingVars
<1> QED
  BY <1>1, <1>2, PTL DEF ReadingsSpec

\* README of the tool on the auto mode: its readings cross no threshold.
THEOREM AutoIsNormal == ReadingsSpec => []AutoCrossesNothing
<1>1. ReadingsInit => AutoCrossesNothing
  BY DEF ReadingsInit, AutoCrossesNothing
<1>2. sensor \in Sensor /\ WellOrdered(sensor) /\ AutoCrossesNothing /\ [ReadingsNext]_readingVars
        => AutoCrossesNothing'
  <2> SUFFICES ASSUME sensor \in Sensor, WellOrdered(sensor), AutoCrossesNothing,
                      [ReadingsNext]_readingVars, drawn' = "auto", NEW l \in Levels
               PROVE  ~Crosses(sensor', reading', l)
    BY DEF AutoCrossesNothing
  <2>1. CASE DrawAuto
    BY <2>1, AutoInside DEF DrawAuto, Draw
  <2>2. ASSUME NEW k \in Levels, DrawFault(k) PROVE FALSE
    BY <2>2 DEF DrawFault, Draw, Levels, Lower, Upper
  <2>3. CASE UNCHANGED readingVars
    BY <2>3 DEF readingVars, AutoCrossesNothing
  <2> QED
    BY <2>1, <2>2, <2>3 DEF ReadingsNext
<1> QED
  BY <1>1, <1>2, DeviceInvariant, PTL DEF ReadingsSpec

\* README of the tool on the fault mode: the readings of a level cross it, and
\* not the next severer one.
THEOREM FaultIsInItsBand == ReadingsSpec => []FaultCrossesLevel
<1>1. ReadingsInit => FaultCrossesLevel
  BY DEF ReadingsInit, FaultCrossesLevel, Levels, Lower, Upper
<1>2. sensor \in Sensor /\ WellOrdered(sensor) /\ FaultCrossesLevel /\ [ReadingsNext]_readingVars
        => FaultCrossesLevel'
  <2> SUFFICES ASSUME sensor \in Sensor, WellOrdered(sensor), FaultCrossesLevel,
                      [ReadingsNext]_readingVars, drawn' \in Levels
               PROVE  /\ Crosses(sensor', reading', drawn')
                      /\ \/ Severer(drawn') = drawn'
                         \/ ~Crosses(sensor', reading', Severer(drawn'))
    BY DEF FaultCrossesLevel
  <2>1. CASE DrawAuto
    BY <2>1 DEF DrawAuto, Draw, Levels, Lower, Upper
  <2>2. ASSUME NEW l \in Levels, DrawFault(l)
        PROVE  /\ Crosses(sensor', reading', drawn')
               /\ Severer(drawn') = drawn' \/ ~Crosses(sensor', reading', Severer(drawn'))
    <3>1. /\ sensor' = sensor /\ drawn' = l /\ l \in sensor.readable
          /\ reading' \in FaultInterval(sensor, l)
      BY <2>2 DEF DrawFault, Draw, Levels, Lower, Upper
    <3> QED
      BY <3>1, FaultBetween
  <2>3. CASE UNCHANGED readingVars
    BY <2>3 DEF readingVars, FaultCrossesLevel
  <2> QED
    BY <2>1, <2>2, <2>3 DEF ReadingsNext
<1> QED
  BY <1>1, <1>2, DeviceInvariant, PTL DEF ReadingsSpec

\* No draw ends the thread of a sensor with an unsigned format.
THEOREM UnsignedDraws == ReadingsSpec => []UnsignedNeverRaises
<1>1. ReadingsInit => UnsignedNeverRaises
  BY DEF ReadingsInit, UnsignedNeverRaises
<1>2. sensor \in Sensor /\ WellOrdered(sensor) /\ UnsignedNeverRaises /\ [ReadingsNext]_readingVars
        => UnsignedNeverRaises'
  BY UnsignedNonEmpty DEF ReadingsNext, DrawAuto, DrawFault, Draw, readingVars, UnsignedNeverRaises,
     Levels, Lower, Upper
<1> QED
  BY <1>1, <1>2, DeviceInvariant, PTL DEF ReadingsSpec

-----------------------------------------------------------------------------
(* The factor: from a raw reading to what is shown, and back               *)

\* The shifts and complements of get_reading_factor are two's complement.
LEMMA Decodes ==
  ASSUME NEW f \in Factor
  PROVE  /\ B(f) = TwosComplement((f.b_ub \div 64) * 256 + f.b_lb, 512)
         /\ Rexpo(f) = TwosComplement(f.exp \div 16, 8)
         /\ M(f) \in Nat /\ Rexpo(f) \in -8 .. 7 /\ Offset(f) \in Int
<1>1. PICK u \in 0 .. 255, l \in 0 .. 255, e \in 0 .. 255, m \in 0 .. 255, n \in 0 .. 255 :
        u = f.b_ub /\ l = f.b_lb /\ e = f.exp /\ m = f.m_ub /\ n = f.m_lb
  BY DEF Factor, Byte
<1>2. B(f) = IF u \div 128 = 1 THEN -(511 - (((u \div 64) % 2) * 256 + l)) - 1 ELSE (u \div 64) * 256 + l
  BY <1>1 DEF B, Negated
<1>3. (IF u \div 128 = 1 THEN -(511 - (((u \div 64) % 2) * 256 + l)) - 1 ELSE (u \div 64) * 256 + l)
      = (IF (u \div 64) * 256 + l >= 512 THEN ((u \div 64) * 256 + l) - 2 * 512 ELSE (u \div 64) * 256 + l)
  BY SMT
<1>4. Rexpo(f) = IF e \div 128 = 1 THEN -(7 - ((e \div 16) % 8)) - 1 ELSE e \div 16
  BY <1>1 DEF Rexpo, Negated
<1>5. (IF e \div 128 = 1 THEN -(7 - ((e \div 16) % 8)) - 1 ELSE e \div 16)
      = (IF e \div 16 >= 8 THEN (e \div 16) - 2 * 8 ELSE e \div 16)
  BY SMT
<1>6. (IF e \div 16 >= 8 THEN (e \div 16) - 2 * 8 ELSE e \div 16) \in -8 .. 7
  BY SMT
<1>7. M(f) \in Nat
  <2>1. (m \div 64) * 256 + n \in Nat
    BY SMT
  <2> QED BY <1>1, <2>1 DEF M
<1>8. Offset(f) \in Int
  <2>1. B(f) \in Int
    <3>1. (IF u \div 128 = 1 THEN -(511 - (((u \div 64) % 2) * 256 + l)) - 1 ELSE (u \div 64) * 256 + l) \in Int
      BY SMT
    <3> QED BY <1>2, <3>1
  <2>2. PICK x \in Nat : x = Bexpo(f)
    <3>1. e % 16 \in Nat
      BY SMT
    <3> QED BY <1>1, <3>1 DEF Bexpo
  <2>3. 10^x \in Int
    BY SMT
  <2>4. PICK y \in Int, b \in Int : y = 10^x /\ b = B(f)
    BY <2>1, <2>3
  <2>5. b * y \in Int
    BY SMT
  <2> QED BY <2>2, <2>4, <2>5, Zenon DEF Offset
<1> QED BY <1>1, <1>2, <1>3, <1>4, <1>5, <1>6, <1>7, <1>8 DEF TwosComplement

\* The powers of ten that an exponent which is not negative needs
LEMMA Tens ==
  ASSUME NEW k \in 0 .. 10
  PROVE  10^k \in Nat \ {0}
<1>1. k = 0 \/ k = 1 \/ k = 2 \/ k = 3 \/ k = 4 \/ k = 5 \/ k = 6 \/ k = 7 \/ k = 8 \/ k = 9 \/ k = 10
  BY SMT
<1>2. 10^0 \in Nat \ {0}
  BY SMT
<1>3. 10^1 \in Nat \ {0}
  BY SMT
<1>4. 10^2 \in Nat \ {0}
  BY SMT
<1>5. 10^3 \in Nat \ {0}
  BY SMT
<1>6. 10^4 \in Nat \ {0}
  BY SMT
<1>7. 10^5 \in Nat \ {0}
  BY SMT
<1>8. 10^6 \in Nat \ {0}
  BY SMT
<1>9. 10^7 \in Nat \ {0}
  BY SMT
<1>10. 10^8 \in Nat \ {0}
  BY SMT
<1>11. 10^9 \in Nat \ {0}
  BY SMT
<1>12. 10^10 \in Nat \ {0}
  BY SMT
<1> QED BY <1>1, <1>2, <1>3, <1>4, <1>5, <1>6, <1>7, <1>8, <1>9, <1>10, <1>11, <1>12, Zenon

\* A quotient without a rest that fits is not rounded.
LEMMA NotRounded ==
  ASSUME NEW x \in Int, NEW d \in Nat \ {0}, Exact(x)
  PROVE  Float(x * d, d, 0) = [m |-> x, e |-> 0]
<1>1. (x * d) % d = 0 /\ (x * d) \div d = x
  BY SMT
<1> QED BY <1>1, Zenon DEF Float

LEMMA IntegersStay ==
  ASSUME NEW x \in Int, Exact(x)
  PROVE  Float(x, 1, 0) = [m |-> x, e |-> 0]
<1>1. x * 1 = x /\ 1 \in Nat \ {0}
  BY SMT
<1>2. Float(x * 1, 1, 0) = [m |-> x, e |-> 0]
  BY <1>1, NotRounded
<1> QED BY <1>1, <1>2, Zenon

\* The operations on doubles that are integers
LEMMA WholeQuotient ==
  ASSUME NEW x \in Int, NEW d \in Nat \ {0}, Exact(x)
  PROVE  Over([m |-> x * d, e |-> 0], [m |-> d, e |-> 0]) = [m |-> x, e |-> 0]
<1>1. ~(d < 0) /\ 0 - 0 = 0
  BY SMT
<1>2. Magnitude(d) = d
  BY <1>1 DEF Magnitude
<1>3. Float(x * d, d, 0) = [m |-> x, e |-> 0]
  BY NotRounded
<1> DEFINE a == [m |-> x * d, e |-> 0]
           b == [m |-> d, e |-> 0]
<1>4. a.m = x * d /\ a.e = 0 /\ b.m = d /\ b.e = 0
  OBVIOUS
<1>5. Over(a, b) = Float(IF b.m < 0 THEN -a.m ELSE a.m, Magnitude(b.m), a.e - b.e)
  BY DEF Over
<1> HIDE DEF a, b
<1>6. Over(a, b) = Float(x * d, d, 0)
  BY <1>1, <1>2, <1>4, <1>5, Zenon
<1> QED BY <1>3, <1>6, Zenon DEF a, b

LEMMA WholeDifference ==
  ASSUME NEW x \in Int, NEW y \in Int, Exact(x - y)
  PROVE  Minus([m |-> x, e |-> 0], [m |-> y, e |-> 0]) = [m |-> x - y, e |-> 0]
<1> DEFINE a == [m |-> x, e |-> 0]
           b == [m |-> y, e |-> 0]
<1>1. a.m = x /\ a.e = 0 /\ b.m = y /\ b.e = 0
  OBVIOUS
<1>2. Minus(a, b) = LET e == IF a.e < b.e THEN a.e ELSE b.e
                    IN  Float(a.m * 2^(a.e - e) - b.m * 2^(b.e - e), 1, e)
  BY DEF Minus
<1> HIDE DEF a, b
<1>3. ~(0 < 0) /\ 0 - 0 = 0 /\ 2^0 = 1 /\ x * 1 = x /\ y * 1 = y /\ x - y \in Int
  BY SMT
<1>4. Minus(a, b) = Float(x * 2^(0 - 0) - y * 2^(0 - 0), 1, 0)
  BY <1>1, <1>2, <1>3, Zenon
<1>5. Minus(a, b) = Float(x - y, 1, 0)
  BY <1>3, <1>4, Zenon
<1>6. Float(x - y, 1, 0) = [m |-> x - y, e |-> 0]
  BY <1>3, IntegersStay
<1> QED BY <1>5, <1>6, Zenon DEF a, b

\* What is shown of it, and what int makes of it
LEMMA WholeText ==
  ASSUME NEW x \in Int
  PROVE  /\ Thousandths([m |-> x, e |-> 0]) = x * 1000
         /\ Truncate([m |-> x, e |-> 0]) = x
<1> DEFINE a == [m |-> x, e |-> 0]
<1>1. a.m = x /\ a.e = 0
  OBVIOUS
<1>2. 0 >= 0 /\ 2^0 = 1 /\ 1000 * x * 1 = x * 1000
  BY SMT
<1>3. a.e >= 0 /\ 1000 * a.m * 2^a.e = x * 1000
  BY <1>1, <1>2
<1>4. Magnitude(a.m) * 2^a.e = Magnitude(x)
  <2>1. Magnitude(x) * 1 = Magnitude(x)
    BY DEF Magnitude
  <2> QED BY <1>1, <1>2, <2>1
<1>5. (IF a.m < 0 THEN -Magnitude(x) ELSE Magnitude(x)) = x
  BY <1>1 DEF Magnitude
<1>6. Thousandths(a) = x * 1000
  <2> HIDE DEF a
  <2> QED BY <1>3, SMT DEF Thousandths
<1>7. Truncate(a) = x
  <2> HIDE DEF a
  <2> QED BY <1>3, <1>4, <1>5, Zenon DEF Truncate
<1> QED BY <1>6, <1>7

\* Where the integers fit a double, what is shown for x is x again.
LEMMA ShownIsRead ==
  ASSUME NEW f \in Factor, M(f) # 0, Rexpo(f) >= 0, NEW x \in Int, IntegersExact(f, x)
  PROVE  RawOf(f, Shown(f, x)) = x
<1>1. PICK m \in Nat \ {0}, o \in Int, r \in 0 .. 7 : m = M(f) /\ o = Offset(f) /\ r = Rexpo(f)
  <2>1. M(f) \in Nat /\ Rexpo(f) \in -8 .. 7 /\ Offset(f) \in Int
    BY Decodes
  <2>2. PICK c \in -8 .. 7 : c = Rexpo(f)
    BY <2>1
  <2>3. c >= 0
    BY <2>2
  <2>4. c \in 0 .. 7
    BY <2>3, SMT
  <2> QED BY <2>1, <2>2, <2>4
<1>2. PICK p \in Nat \ {0} : p = 10^r
  <2>1. r \in 0 .. 10
    BY SMT
  <2> QED BY <2>1, Tens
<1>3. PICK n \in Int : n = m * x + o
  <2>1. m * x + o \in Int
    BY SMT
  <2> QED BY <2>1
<1>4. Exact(m * x) /\ Exact(o) /\ Exact(n) /\ Exact(p) /\ Exact(n * p)
  BY <1>1, <1>2, <1>3, Zenon DEF IntegersExact
<1>5. m * x \in Int /\ n * p \in Int /\ p \in Int /\ n - o = x * m
  BY <1>3, SMT
<1>6. Exact(x) /\ Exact(m)
  <2>1. M(f) <= 1023
    <3>1. PICK u \in 0 .. 255, l \in 0 .. 255 : u = f.m_ub /\ l = f.m_lb
      BY DEF Factor, Byte
    <3>2. (u \div 64) * 256 + l <= 1023
      BY SMT
    <3> QED BY <3>1, <3>2 DEF M
  <2>2. m <= 1023
    BY <1>1, <2>1, Zenon
  <2>3. Magnitude(m) <= Mantissas
    BY <2>2, MantissasAssumption DEF Magnitude
  <2>4. Magnitude(x) <= Magnitude(m * x)
    <3>1. CASE x >= 0
      <4>1. m * x >= x
        BY <3>1, SMT
      <4> QED BY <3>1, <4>1, <1>5 DEF Magnitude
    <3>2. CASE x < 0
      <4>1. m * x <= x
        BY <3>2, SMT
      <4> QED BY <3>2, <4>1, <1>5 DEF Magnitude
    <3> QED BY <3>1, <3>2
  <2>5. Magnitude(x) \in Int /\ Magnitude(m * x) \in Int
    BY <1>5 DEF Magnitude
  <2>6. Magnitude(x) <= Mantissas
    BY <1>4, <2>4, <2>5, MantissasAssumption DEF Exact
  <2> QED BY <2>3, <2>6 DEF Exact
<1>7. Shown(f, x) = (n * p) * 1000
  <2>1. Float(n * p, 1, 0) = [m |-> n * p, e |-> 0]
    BY <1>4, <1>5, IntegersStay
  <2>2. Thousandths([m |-> n * p, e |-> 0]) = (n * p) * 1000
    BY <1>5, WholeText
  <2>3. Shown(f, x) = Thousandths(Float(n * p, 1, 0))
    BY <1>1, <1>2, <1>3, Zenon DEF Shown
  <2> QED BY <2>1, <2>2, <2>3, Zenon
<1>8. Scale(f) = [m |-> p, e |-> 0]
  <2>1. Scale(f) = Float(p, 1, 0)
    BY <1>1, <1>2, Zenon DEF Scale
  <2> QED BY <1>4, <1>5, <2>1, IntegersStay
<1>9. Float((n * p) * 1000, 1000, 0) = [m |-> n * p, e |-> 0]
  BY <1>4, <1>5, NotRounded
<1>10. Over([m |-> n * p, e |-> 0], [m |-> p, e |-> 0]) = [m |-> n, e |-> 0]
  BY <1>4, WholeQuotient
<1>11. Minus([m |-> n, e |-> 0], Float(Offset(f), 1, 0)) = [m |-> x * m, e |-> 0]
  <2>1. Float(o, 1, 0) = [m |-> o, e |-> 0]
    BY <1>4, IntegersStay
  <2>2. n - o = m * x
    BY <1>5, SMT
  <2>3. Minus([m |-> n, e |-> 0], [m |-> o, e |-> 0]) = [m |-> n - o, e |-> 0]
    BY <1>4, <2>2, WholeDifference
  <2> QED BY <1>1, <1>5, <2>1, <2>3, Zenon
<1>12. Over([m |-> x * m, e |-> 0], Float(M(f), 1, 0)) = [m |-> x, e |-> 0]
  <2>1. Float(m, 1, 0) = [m |-> m, e |-> 0]
    BY <1>6, IntegersStay
  <2>2. Over([m |-> x * m, e |-> 0], [m |-> m, e |-> 0]) = [m |-> x, e |-> 0]
    BY <1>6, WholeQuotient
  <2> QED BY <1>1, <2>1, <2>2, Zenon
<1>13. RawOf(f, (n * p) * 1000) = Truncate([m |-> x, e |-> 0])
  <2>1. RawOf(f, (n * p) * 1000)
        = Truncate(Over(Minus(Over([m |-> n * p, e |-> 0], [m |-> p, e |-> 0]), Float(Offset(f), 1, 0)),
                        Float(M(f), 1, 0)))
    BY <1>8, <1>9 DEF RawOf
  <2>2. Minus(Over([m |-> n * p, e |-> 0], [m |-> p, e |-> 0]), Float(Offset(f), 1, 0)) = [m |-> x * m, e |-> 0]
    BY <1>10, <1>11, Zenon
  <2>3. Over(Minus(Over([m |-> n * p, e |-> 0], [m |-> p, e |-> 0]), Float(Offset(f), 1, 0)), Float(M(f), 1, 0))
        = [m |-> x, e |-> 0]
    BY <1>12, <2>2, Zenon
  <2> QED BY <2>1, <2>3, Zenon
<1>14. Truncate([m |-> x, e |-> 0]) = x
  BY WholeText
<1> QED BY <1>7, <1>13, <1>14, Zenon

-----------------------------------------------------------------------------
\* What sensor value get shows is shown for the reading that it remembers, and
\* what set makes of it is read with the same factor.
ValueInv ==
  /\ factor \in Factor
  /\ drawn \in Levels \cup {"auto"} => reading \in Int
  /\ shown # NoAnswer => shown[2] \in Int /\ shown[1] = Shown(factor, shown[2])
  /\ drawn = "user" => shown # NoAnswer /\ M(factor) # 0 /\ reading = RawOf(factor, shown[1])

\* What is known of the value and of its last reading stays true.
LEMMA ValueInvHolds == ValueSpec => []ValueInv
<1>1. ValueInit => ValueInv
  BY FactorsAssumption DEF ValueInit, ValueInv, ReadingsInit, Levels, Lower, Upper
<1>2. ValueInv /\ [ValueNext]_valueVars => ValueInv'
  <2> SUFFICES ASSUME ValueInv, [ValueNext]_valueVars PROVE ValueInv'
    OBVIOUS
  <2>1. CASE DrawValue
    <3>1. drawn = "none" /\ (drawn' = "raised" \/ reading' \in Int) /\ UNCHANGED <<factor, shown>>
          /\ drawn' \in Levels \cup {"auto", "raised"}
      BY <2>1 DEF DrawValue, ReadingsNext, DrawAuto, DrawFault, Draw, AutoInterval, FaultInterval
    <3> QED BY <3>1 DEF ValueInv, Levels, Lower, Upper
  <2>2. CASE GetValue
    <3>1. shown' = <<Shown(factor, reading), reading>>
      BY <2>2 DEF GetValue
    <3>2. drawn \in Levels \cup {"auto"} /\ drawn # "user" /\ reading \in Int
          /\ UNCHANGED <<drawn, reading, factor>>
      BY <2>2 DEF GetValue, ValueInv, readingVars, Levels, Lower, Upper
    <3>3. shown'[2] = reading /\ shown'[1] = Shown(factor, reading)
      BY <3>1
    <3> QED BY <3>2, <3>3 DEF ValueInv
  <2>3. CASE SetValue
    BY <2>3 DEF SetValue, ValueInv, Levels, Lower, Upper
  <2>4. CASE UNCHANGED valueVars
    BY <2>4 DEF valueVars, readingVars, ValueInv
  <2> QED BY <2>1, <2>2, <2>3, <2>4 DEF ValueNext
<1> QED BY <1>1, <1>2, PTL DEF ValueSpec

\* sensor value get and set: for every factor that a record can hold and every
\* reading, in doubles of any width, what is shown and typed in again gives the
\* raw value back unless Rexpo is negative or an integer does not fit a double;
\* and the two exponents and B are what their bits say.
THEOREM ShownGoesBack == ValueSpec => [](FactorDecodes /\ GoesBack)
<1>1. ValueInv => FactorDecodes /\ GoesBack
  <2> SUFFICES ASSUME ValueInv PROVE FactorDecodes /\ GoesBack
    OBVIOUS
  <2>1. FactorDecodes
    BY Decodes DEF ValueInv, FactorDecodes
  <2>2. ASSUME drawn = "user", Rexpo(factor) >= 0, IntegersExact(factor, shown[2])
        PROVE  reading = shown[2]
    <3>1. factor \in Factor /\ M(factor) # 0 /\ shown[2] \in Int
          /\ reading = RawOf(factor, Shown(factor, shown[2]))
      BY <2>2 DEF ValueInv
    <3> QED BY <2>2, <3>1, ShownIsRead
  <2> QED BY <2>1, <2>2 DEF GoesBack
<1> QED BY <1>1, ValueInvHolds, PTL

-----------------------------------------------------------------------------
(* The packets of a connection *)

Kinds == {"data", "kexinit", "newkeys"}
Marks == {"sentInit", "gotInit", "sentNew", "activeOut"}
Units == Nat \X Nat

Packet == [kind : Kinds, body : Nat, epoch : Nat, seq : Nat]

End == [ epochOut : Nat, epochIn : Nat, seq : Nat, overflow : Nat,
         sentPackets : Nat, receivedPackets : Nat, need : BOOLEAN, initCount : 0 .. 2,
         inKex : BOOLEAN, clear : BOOLEAN, kex : SUBSET Marks ]

Phases == {"banner", "header", "body", "loop", "ignored"}

Reader == [phase : Phases, remainder : Seq(Units), has : Seq(Units), want : Nat]

\* The types, without a reader that found a packet mangled
StreamTypes ==
  /\ sent \in Seq(Packet) /\ received \in Seq(Packet)
  /\ out \in Seq(Units) /\ wire \in Seq(Units)
  /\ endA \in End /\ endB \in End /\ reader \in Reader

\* The keys and the number that the packet k of s has to be made with, and
\* whether it has to be NEWKEYS: what the packet before it leaves
EpochAt(s, k) == IF k = 1 THEN 0 ELSE s[k - 1].epoch + (IF s[k - 1].kind = "newkeys" THEN 1 ELSE 0)
SeqAt(s, k)   == IF k = 1 THEN 0 ELSE (s[k - 1].seq + 1) % SeqModulus
NewAt(s, k)   == k > 1 /\ s[k - 1].kind = "kexinit"

Chained(s) ==
  \A k \in 1 .. Len(s) :
    /\ s[k].epoch = EpochAt(s, k)
    /\ s[k].seq = SeqAt(s, k)
    /\ s[k].kind = "newkeys" <=> NewAt(s, k)

\* NEWKEYS has been sent, and the keys are still the old ones.
Switching(e) == "sentNew" \in e.kex /\ "activeOut" \notin e.kex

\* What A knows of its exchange
ExchangeOfA(e) ==
  /\ "sentInit" \in e.kex => ~e.clear
  /\ "sentNew" \in e.kex => "sentInit" \in e.kex
  /\ "activeOut" \in e.kex => "sentNew" \in e.kex
  /\ "sentInit" \in e.kex /\ "activeOut" \notin e.kex => e.inKex
  /\ "activeOut" \in e.kex => (e.inKex <=> e.need)

Sender(s, e) ==
  /\ Chained(s)
  /\ e.seq = SeqAt(s, Len(s) + 1)
  /\ e.epochOut = IF Switching(e) THEN s[Len(s)].epoch ELSE EpochAt(s, Len(s) + 1)
  /\ Switching(e) => Len(s) > 0 /\ s[Len(s)].kind = "newkeys"
  /\ NewAt(s, Len(s) + 1) <=> "sentInit" \in e.kex /\ "sentNew" \notin e.kex
  /\ ExchangeOfA(e)

\* What B knows of its exchange, when it has read the packets r
ExchangeOfB(r, e) ==
  /\ e.seq = SeqAt(r, Len(r) + 1)
  /\ e.epochIn = EpochAt(r, Len(r) + 1)
  /\ "gotInit" \in e.kex <=> NewAt(r, Len(r) + 1)
  /\ e.inKex => "sentInit" \in e.kex
  /\ "sentNew" \in e.kex <=> "activeOut" \in e.kex
  /\ "sentNew" \in e.kex => "sentInit" \in e.kex
  /\ e.initCount = IF "activeOut" \in e.kex THEN 1 ELSE 0

\* Once it has been through its loop, it has answered all it had to.
Answered(e) ==
  /\ e.need => "sentInit" \in e.kex
  /\ "gotInit" \in e.kex => "activeOut" \in e.kex

Receiver(r, e, phase) ==
  /\ phase # "ignored" => ExchangeOfB(r, e)
  /\ phase \in {"header", "body"} => Answered(e)
  /\ phase = "ignored" => "sentInit" \in e.kex

Prefix(r, s) == Len(r) <= Len(s) /\ \A k \in 1 .. Len(r) : r[k] = s[k]

\* The packets from K to N, each whole, one after the other: at[k] is where the
\* packet k begins, and size[k] is what it takes.
Cut(F, K, N, size) ==
  \E at \in [K .. N + 1 -> Nat] :
    /\ at[K] = 0 /\ at[N + 1] = Len(F)
    /\ \A k \in K .. N : at[k + 1] = at[k] + size[k]
    /\ \A j, k \in K .. N + 1 : j <= k => at[j] <= at[k]
    /\ \A k \in K .. N : \A v \in 1 .. size[k] : F[at[k] + v] = <<k, v>>

Sizes(s) == [k \in 0 .. Len(s) |-> IF k = 0 THEN BannerLength ELSE Length(s[k])]

\* All that B has not read to the end: the header that it has left for the body,
\* what it has of the part it reads, and what is still on its way
HeaderTaken(phase, k) == IF phase = "body" THEN [i \in 1 .. HeaderLength |-> <<k, i>>] ELSE <<>>
FlowOf(rd, w, o, k) == HeaderTaken(rd.phase, k) \o (rd.has \o (rd.remainder \o (w \o o)))

Reading(rd, s, n) ==
  /\ rd.phase \in {"banner", "loop"} => rd.has = <<>>
  /\ rd.phase = "banner" => n = 0
  /\ rd.phase = "header" => rd.want = HeaderLength
  /\ rd.phase = "body" => n < Len(s) /\ rd.want = Length(s[n + 1]) - HeaderLength
  /\ rd.remainder = <<>> \/ rd.has = <<>> \/ Len(rd.has) = rd.want

Flows(rd, s, w, o, n) ==
  rd.phase # "ignored" =>
    /\ Reading(rd, s, n)
    /\ Cut(FlowOf(rd, w, o, n + 1), IF rd.phase = "banner" THEN 0 ELSE n + 1, Len(s), Sizes(s))

\* A reader in a phase, with what is on its way to it
InFlow(rd, phase, s, w, o, n) ==
  rd \in Reader /\ rd.phase = phase /\ w \in Seq(Units) /\ o \in Seq(Units) /\ Flows(rd, s, w, o, n)

IInv ==
  /\ StreamTypes
  /\ Sender(sent, endA)
  /\ Receiver(received, endB, reader.phase)
  /\ Prefix(received, sent)
  /\ Flows(reader, sent, wire, out, Len(received))

-----------------------------------------------------------------------------
(* Sequences of packets, cut one after the other *)

\* The first packet of a cut sequence lies at its head.
LEMMA CutFront ==
  ASSUME NEW F, NEW K \in Nat, NEW N \in Nat, K <= N, NEW size \in [0 .. N -> Nat],
         Len(F) \in Nat, Cut(F, K, N, size)
  PROVE  /\ size[K] <= Len(F)
         /\ \A v \in 1 .. size[K] : F[v] = <<K, v>>
<1>1. PICK at \in [K .. N + 1 -> Nat] :
        /\ at[K] = 0 /\ at[N + 1] = Len(F)
        /\ \A k \in K .. N : at[k + 1] = at[k] + size[k]
        /\ \A j, k \in K .. N + 1 : j <= k => at[j] <= at[k]
        /\ \A k \in K .. N : \A v \in 1 .. size[k] : F[at[k] + v] = <<k, v>>
  BY DEF Cut
<1>2. K \in K .. N /\ K + 1 \in K .. N + 1 /\ N + 1 \in K .. N + 1
  BY SMT
<1>3. at[K + 1] = size[K]
  BY <1>1, <1>2, SMT
<1>4. size[K] <= Len(F)
  BY <1>1, <1>2, <1>3, SMT
<1>5. ASSUME NEW v \in 1 .. size[K] PROVE F[v] = <<K, v>>
  <2>1. F[at[K] + v] = <<K, v>>
    BY <1>1, <1>2
  <2>2. at[K] + v = v
    BY <1>1, SMT
  <2> QED BY <2>1, <2>2
<1> QED BY <1>4, <1>5

\* When all packets are through, nothing is left.
LEMMA CutEmpty ==
  ASSUME NEW F, NEW N \in Nat, NEW size, Cut(F, N + 1, N, size)
  PROVE  Len(F) = 0
<1> QED BY SMT DEF Cut

\* Without its first packet a cut sequence is cut.
LEMMA CutDrop ==
  ASSUME NEW F \in Seq(Units), NEW K \in Nat, NEW N \in Nat, K <= N,
         NEW size \in [0 .. N -> Nat], Cut(F, K, N, size),
         NEW G \in Seq(Units), Len(G) = Len(F) - size[K],
         \A i \in 1 .. Len(G) : G[i] = F[size[K] + i]
  PROVE  Cut(G, K + 1, N, size)
<1>1. PICK at \in [K .. N + 1 -> Nat] :
        /\ at[K] = 0 /\ at[N + 1] = Len(F)
        /\ \A k \in K .. N : at[k + 1] = at[k] + size[k]
        /\ \A j, k \in K .. N + 1 : j <= k => at[j] <= at[k]
        /\ \A k \in K .. N : \A v \in 1 .. size[k] : F[at[k] + v] = <<k, v>>
  BY DEF Cut
<1> DEFINE to == [k \in K + 1 .. N + 1 |-> at[k] - size[K]]
<1>2. at[K + 1] = size[K] /\ K + 1 \in K .. N + 1
  <2>1. K \in K .. N /\ K \in 0 .. N /\ K + 1 \in K .. N + 1
    BY SMT
  <2>2. at[K + 1] = at[K] + size[K] /\ size[K] \in Nat
    BY <1>1, <2>1
  <2> QED BY <1>1, <2>1, <2>2, SMT
<1>3. ASSUME NEW k \in K + 1 .. N + 1 PROVE at[k] >= size[K] /\ k \in K .. N + 1
  <2>1. k \in K .. N + 1 /\ K + 1 <= k
    BY SMT
  <2>2. at[K + 1] <= at[k]
    BY <1>1, <1>2, <2>1
  <2> QED BY <1>2, <2>1, <2>2, SMT
<1>4. to \in [K + 1 .. N + 1 -> Nat]
  <2>1. ASSUME NEW k \in K + 1 .. N + 1 PROVE at[k] - size[K] \in Nat
    <3>1. at[k] >= size[K] /\ k \in K .. N + 1 /\ K \in 0 .. N
      BY <1>3, SMT
    <3>2. PICK a \in Nat, c \in Nat : a = at[k] /\ c = size[K]
      BY <3>1
    <3>3. a >= c
      BY <3>1, <3>2
    <3>4. a - c \in Nat
      BY <3>3, SMT
    <3> QED BY <3>2, <3>4, Zenon
  <2> QED BY <2>1, Zenon
<1>5. to[K + 1] = 0 /\ to[N + 1] = Len(G)
  <2>1. K + 1 \in K + 1 .. N + 1 /\ N + 1 \in K + 1 .. N + 1 /\ K \in 0 .. N
    BY SMT
  <2>2. PICK c \in Nat : c = size[K]
    BY <2>1
  <2>3. to[K + 1] = c - c /\ to[N + 1] = Len(G)
    BY <1>1, <1>2, <2>1, <2>2, Zenon
  <2>4. c - c = 0
    BY SMT
  <2> QED BY <2>3, <2>4
<1>6. ASSUME NEW k \in K + 1 .. N PROVE to[k + 1] = to[k] + size[k]
  <2>1. k \in K .. N /\ k \in 0 .. N /\ k \in K + 1 .. N + 1 /\ k + 1 \in K + 1 .. N + 1
        /\ k \in K .. N + 1 /\ k + 1 \in K .. N + 1 /\ K \in 0 .. N
    BY SMT
  <2>2. at[k + 1] = at[k] + size[k]
    BY <1>1, <2>1
  <2>3. to[k] = at[k] - size[K] /\ to[k + 1] = at[k + 1] - size[K]
    BY <2>1
  <2>4. at[k] \in Nat /\ size[k] \in Nat /\ size[K] \in Nat
    BY <2>1
  <2>5. PICK a \in Nat, b \in Nat, c \in Nat : a = at[k] /\ b = size[k] /\ c = size[K]
    BY <2>4
  <2>6. (a + b) - c = (a - c) + b
    BY SMT
  <2>7. to[k] = a - c /\ to[k + 1] = (a + b) - c
    BY <2>2, <2>3, <2>5, Zenon
  <2> QED BY <2>5, <2>6, <2>7, Zenon
<1>7. ASSUME NEW j \in K + 1 .. N + 1, NEW k \in K + 1 .. N + 1, j <= k PROVE to[j] <= to[k]
  <2>1. j \in K .. N + 1 /\ k \in K .. N + 1 /\ K \in 0 .. N
    BY SMT
  <2>2. PICK a \in Nat, b \in Nat, c \in Nat : a = at[j] /\ b = at[k] /\ c = size[K]
    BY <2>1
  <2>3. a <= b
    BY <1>1, <1>7, <2>1, <2>2, Zenon
  <2>4. a - c <= b - c
    BY <2>3, SMT
  <2> QED BY <2>2, <2>4, Zenon
<1>8. ASSUME NEW k \in K + 1 .. N, NEW v \in 1 .. size[k] PROVE G[to[k] + v] = <<k, v>>
  <2>1. k \in K .. N /\ k + 1 \in K .. N + 1 /\ N + 1 \in K .. N + 1 /\ k \in K + 1 .. N + 1
    BY SMT
  <2>2. F[at[k] + v] = <<k, v>>
    BY <1>1, <2>1
  <2>3. at[k] + size[k] <= Len(F)
    BY <1>1, <2>1, SMT
  <2>4. PICK n \in Nat : n = Len(G)
    BY LenProperties
  <2>5. to[k] = at[k] - size[K] /\ to[k] \in Nat
    BY <1>4, <2>1
  <2>6. n = Len(F) - size[K] /\ Len(F) \in Nat /\ size[K] \in Nat /\ at[k] \in Nat /\ size[k] \in Nat
    <3>1. K \in 0 .. N /\ k \in 0 .. N /\ k \in K .. N + 1
      BY SMT
    <3> QED BY <2>4, <3>1, LenProperties
  <2>7. PICK w \in Nat : w = to[k]
    BY <2>5
  <2>a. PICK a \in Nat, b \in Nat, c \in Nat : a = at[k] /\ b = size[k] /\ c = size[K]
    BY <2>6
  <2>b. PICK m \in Nat : m = Len(F)
    BY <2>6
  <2>c. w = a - c /\ n = m - c /\ a + b <= m /\ v \in 1 .. b
    BY <2>3, <2>5, <2>6, <2>7, <2>a, <2>b, Zenon
  <2>d. w + v \in 1 .. n /\ c + (w + v) = a + v
    BY <2>c, SMT
  <2>8. w + v \in 1 .. n /\ size[K] + (w + v) = at[k] + v
    BY <2>a, <2>d, Zenon
  <2>9. G[w + v] = F[size[K] + (w + v)]
    BY <2>4, <2>8
  <2> QED BY <2>2, <2>7, <2>8, <2>9, Zenon
<1> HIDE DEF to
<1>9. K + 1 \in Nat
  BY SMT
<1> QED BY <1>4, <1>5, <1>6, <1>7, <1>8 DEF Cut

\* A cut sequence is cut when one more packet follows it.
LEMMA CutExtend ==
  ASSUME NEW F \in Seq(Units), NEW K \in Nat, NEW N \in Nat, K <= N + 1,
         NEW size, Cut(F, K, N, size), NEW larger \in [0 .. N + 1 -> Nat],
         \A k \in 0 .. N : larger[k] = size[k],
         NEW G, Len(G) = Len(F) + larger[N + 1],
         \A i \in 1 .. Len(F) : G[i] = F[i],
         \A v \in 1 .. larger[N + 1] : G[Len(F) + v] = <<N + 1, v>>
  PROVE  Cut(G, K, N + 1, larger)
<1>1. PICK at \in [K .. N + 1 -> Nat] :
        /\ at[K] = 0 /\ at[N + 1] = Len(F)
        /\ \A k \in K .. N : at[k + 1] = at[k] + size[k]
        /\ \A j, k \in K .. N + 1 : j <= k => at[j] <= at[k]
        /\ \A k \in K .. N : \A v \in 1 .. size[k] : F[at[k] + v] = <<k, v>>
  BY DEF Cut
<1>0. PICK n \in Nat : n = Len(F)
  BY LenProperties
<1> DEFINE to == [k \in K .. N + 2 |-> IF k = N + 2 THEN n + larger[N + 1] ELSE at[k]]
<1>3. larger[N + 1] \in Nat /\ K \in K .. N + 1 /\ N + 1 \in K .. N + 1
  BY SMT
<1>4. to \in [K .. N + 2 -> Nat]
  BY <1>1, <1>0, <1>3, SMT
<1>5. to[K] = 0 /\ to[N + 2] = Len(G)
  BY <1>1, <1>0, <1>3, SMT
<1>6. ASSUME NEW k \in K .. N + 1 PROVE to[k + 1] = to[k] + larger[k]
  <2>1. CASE k = N + 1
    BY <1>1, <1>0, <2>1, SMT
  <2>2. CASE k # N + 1
    BY <1>1, <2>2, SMT
  <2> QED BY <2>1, <2>2
<1>7. ASSUME NEW j \in K .. N + 2, NEW k \in K .. N + 2, j <= k PROVE to[j] <= to[k]
  <2>1. CASE k # N + 2
    <3>1. j \in K .. N + 1 /\ k \in K .. N + 1 /\ j # N + 2
      BY <1>7, <2>1, SMT
    <3>2. at[j] <= at[k] /\ to[j] = at[j] /\ to[k] = at[k]
      BY <1>1, <1>7, <2>1, <3>1, Zenon
    <3> QED BY <3>2, Zenon
  <2>2. CASE k = N + 2 /\ j # N + 2
    <3>1. j \in K .. N + 1 /\ j <= N + 1
      BY <2>2, SMT
    <3>2. PICK a \in Nat, l \in Nat : a = at[j] /\ l = larger[N + 1]
      BY <1>3, <3>1
    <3>3. at[j] <= at[N + 1]
      BY <1>1, <1>3, <3>1, Zenon
    <3>4. a <= n
      BY <1>0, <1>1, <3>2, <3>3, Zenon
    <3>5. a <= n + l
      BY <3>4, SMT
    <3> QED BY <2>2, <3>2, <3>5, Zenon
  <2>3. CASE k = N + 2 /\ j = N + 2
    <3>1. PICK l \in Nat : l = larger[N + 1]
      BY <1>3
    <3>2. n + l <= n + l
      BY SMT
    <3> QED BY <2>3, <3>1, <3>2, Zenon
  <2> QED BY <2>1, <2>2, <2>3
<1>8. ASSUME NEW k \in K .. N + 1, NEW v \in 1 .. larger[k] PROVE G[to[k] + v] = <<k, v>>
  <2>1. CASE k = N + 1
    <3>1. to[k] = Len(F)
      BY <1>1, <2>1, SMT
    <3> QED BY <2>1, <3>1
  <2>2. CASE k # N + 1
    <3>1. k \in K .. N /\ k \in 0 .. N /\ k + 1 \in K .. N + 1 /\ N + 1 \in K .. N + 1 /\ to[k] = at[k]
      BY <2>2, SMT
    <3>2. F[at[k] + v] = <<k, v>>
      BY <1>1, <3>1
    <3>b. k + 1 <= N + 1
      BY <3>1, SMT
    <3>6. at[k + 1] = at[k] + size[k] /\ at[k + 1] <= n /\ size[k] = larger[k]
      BY <1>1, <1>0, <3>1, <3>b, Zenon
    <3>a. at[k] \in Nat /\ larger[k] \in Nat
      BY <3>1, SMT
    <3>7. PICK a \in Nat, b \in Nat : a = at[k] /\ b = larger[k]
      BY <3>a
    <3>8. a + b <= n /\ v \in 1 .. b
      BY <3>6, <3>7, Zenon
    <3>9. a + v \in 1 .. n
      BY <3>8, SMT
    <3>3. at[k] + v \in 1 .. n
      BY <3>7, <3>9, Zenon
    <3>4. at[k] + v \in 1 .. Len(F)
      BY <1>0, <3>3
    <3>5. G[at[k] + v] = F[at[k] + v]
      BY <3>4
    <3> QED BY <3>1, <3>2, <3>5
  <2> QED BY <2>1, <2>2
<1> HIDE DEF to
<1>9. N + 1 \in Nat /\ N + 2 = (N + 1) + 1
  BY SMT
<1>a. Cut(G, K, (N + 1), larger)
  <2>1. to \in [K .. (N + 1) + 1 -> Nat] /\ to[(N + 1) + 1] = Len(G)
        /\ \A j, k \in K .. (N + 1) + 1 : j <= k => to[j] <= to[k]
    BY <1>4, <1>5, <1>7, <1>9, Zenon
  <2> QED BY <1>5, <1>6, <1>8, <2>1, Zenon DEF Cut
<1> QED BY <1>a

-----------------------------------------------------------------------------
(* What A sends *)

\* The packet p is made as the packets s demand.
Fits(s, p) ==
  /\ p.epoch = EpochAt(s, Len(s) + 1) /\ p.seq = SeqAt(s, Len(s) + 1)
  /\ p.kind = "newkeys" <=> NewAt(s, Len(s) + 1)

\* What the packets t demand, of which p is the last
Requires(t, p) ==
  /\ EpochAt(t, Len(t) + 1) = p.epoch + (IF p.kind = "newkeys" THEN 1 ELSE 0)
  /\ SeqAt(t, Len(t) + 1) = (p.seq + 1) % SeqModulus
  /\ NewAt(t, Len(t) + 1) <=> p.kind = "kexinit"

\* A packet that is made as the one before it demands continues the chain.
LEMMA ChainGrows ==
  ASSUME NEW s \in Seq(Packet), Chained(s), NEW p \in Packet, Fits(s, p)
  PROVE  Chained(Append(s, p)) /\ Requires(Append(s, p), p)
<1> DEFINE t == Append(s, p)
<1>1. PICK n \in Nat : n = Len(s)
  BY LenProperties
<1>2. /\ t \in Seq(Packet) /\ Len(t) = n + 1
      /\ t[n + 1] = p /\ \A k \in 1 .. n : t[k] = s[k]
  BY <1>1, AppendProperties
<1> HIDE DEF t
<1>3. ASSUME NEW k \in 1 .. n + 1
      PROVE  EpochAt(t, k) = EpochAt(s, k) /\ SeqAt(t, k) = SeqAt(s, k) /\ (NewAt(t, k) <=> NewAt(s, k))
  <2>1. CASE k = 1
    BY <2>1 DEF EpochAt, SeqAt, NewAt
  <2>2. CASE k # 1
    <3>1. k - 1 \in 1 .. n
      BY <2>2, SMT
    <3>2. t[k - 1] = s[k - 1]
      BY <1>2, <3>1
    <3> QED BY <2>2, <3>2 DEF EpochAt, SeqAt, NewAt
  <2> QED BY <2>1, <2>2
<1>4. ASSUME NEW k \in 1 .. n + 1
      PROVE  t[k].epoch = EpochAt(t, k) /\ t[k].seq = SeqAt(t, k) /\ (t[k].kind = "newkeys" <=> NewAt(t, k))
  <2>1. CASE k = n + 1
    BY <1>1, <1>2, <1>3, <2>1 DEF Fits
  <2>2. CASE k # n + 1
    <3>1. k \in 1 .. n
      BY <2>2, SMT
    <3> QED BY <1>1, <1>2, <1>3, <3>1 DEF Chained
  <2> QED BY <2>1, <2>2
<1>5. Chained(t)
  BY <1>2, <1>4 DEF Chained
<1>6. (n + 1) + 1 # 1 /\ ((n + 1) + 1) - 1 = n + 1 /\ (n + 1) + 1 > 1
  BY SMT
<1>7. /\ EpochAt(t, (n + 1) + 1) = p.epoch + (IF p.kind = "newkeys" THEN 1 ELSE 0)
      /\ SeqAt(t, (n + 1) + 1) = (p.seq + 1) % SeqModulus
      /\ NewAt(t, (n + 1) + 1) <=> p.kind = "kexinit"
  BY <1>2, <1>6, Zenon DEF EpochAt, SeqAt, NewAt
<1>8. Requires(t, p)
  BY <1>2, <1>7 DEF Requires
<1> QED BY <1>5, <1>8 DEF t

\* What send_message leaves: one more packet, made with the keys and the number
\* of A, all of it to be written.
LEMMA Sends ==
  ASSUME StreamTypes, Sender(sent, endA), ~Switching(endA),
         NEW kind \in Kinds, NEW body \in Nat,
         kind = "newkeys" <=> NewAt(sent, Len(sent) + 1),
         NEW e \in End, e.epochOut = endA.epochOut, e.seq = endA.seq,
         SendMessage(kind, body, e)
  PROVE  \E p \in Packet :
           /\ p.kind = kind /\ p.epoch = endA.epochOut /\ sent' = Append(sent, p)
           /\ out' = [i \in 1 .. Length(p) |-> <<Len(sent) + 1, i>>]
           /\ Chained(sent') /\ Requires(sent', p)
           /\ endA' \in End /\ endA'.seq = SeqAt(sent', Len(sent') + 1)
           /\ endA'.epochOut = endA.epochOut /\ endA'.kex = e.kex
           /\ endA'.inKex = e.inKex /\ endA'.clear = e.clear
<1> DEFINE p == [kind |-> kind, body |-> body, epoch |-> endA.epochOut, seq |-> endA.seq]
<1>1. endA.epochOut \in Nat /\ endA.seq \in Nat
  BY DEF StreamTypes, End
<1>2. p \in Packet /\ p.kind = kind /\ p.epoch = endA.epochOut /\ p.seq = endA.seq
  BY <1>1 DEF Packet
<1>3. sent' = Append(sent, p) /\ out' = [i \in 1 .. Length(p) |-> <<Len(sent) + 1, i>>]
  BY DEF SendMessage
<1>4. Fits(sent, p) /\ Chained(sent)
  BY <1>2 DEF Sender, Fits
<1>5. SeqModulus \in Nat \ {0}
  BY PacketAssumption
<1>6. /\ endA' \in End /\ endA'.seq = (endA.seq + 1) % SeqModulus
      /\ endA'.epochOut = endA.epochOut /\ endA'.kex = e.kex
      /\ endA'.inKex = e.inKex /\ endA'.clear = e.clear
  <2>1. PICK d \in Nat : d = e.sentPackets + 1
    BY SMT DEF End
  <2>2. PICK a \in Nat : a = (e.seq + 1) % SeqModulus
    <3>1. (e.seq + 1) % SeqModulus \in Nat
      BY <1>5, SMT DEF End
    <3> QED BY <3>1
  <2>3. PICK b \in BOOLEAN : b = (e.need \/ d >= RekeyPackets)
    <3>1. (e.need \/ d >= RekeyPackets) \in BOOLEAN
      BY SMT
    <3> QED BY <3>1, Zenon
  <2>4. PICK c \in Nat : c = IF d >= RekeyPackets /\ ~e.need THEN 0 ELSE e.overflow
    BY SMT DEF End
  <2>5. endA' = [e EXCEPT !.seq = a, !.sentPackets = d, !.need = b, !.overflow = c]
    BY <2>1, <2>2, <2>3, <2>4, Zenon DEF SendMessage
  <2>6. PICK f : f = endA'
    OBVIOUS
  <2>7. /\ f \in End /\ f.seq = a
        /\ f.epochOut = e.epochOut /\ f.kex = e.kex
        /\ f.inKex = e.inKex /\ f.clear = e.clear
    BY <2>5, <2>6 DEF End
  <2> QED BY <2>2, <2>6, <2>7, Zenon
<1> HIDE DEF p
<1>7. Chained(sent') /\ Requires(sent', p)
  <2>1. sent \in Seq(Packet)
    BY DEF StreamTypes
  <2>2. Chained(Append(sent, p)) /\ Requires(Append(sent, p), p)
    BY <1>2, <1>4, <2>1, ChainGrows
  <2> QED BY <1>3, <2>2, Zenon
<1>8. endA'.seq = SeqAt(sent', Len(sent') + 1)
  BY <1>2, <1>6, <1>7, Zenon DEF Requires
<1> QED BY <1>2, <1>3, <1>6, <1>7, <1>8, Zenon

\* A has sent the packet p, and its exchange stands as p says.
LEMMA SenderAfter ==
  ASSUME NEW t \in Seq(Packet), NEW p \in Packet, Len(t) > 0, t[Len(t)] = p,
         Chained(t), Requires(t, p), NEW f \in End, ExchangeOfA(f),
         f.seq = SeqAt(t, Len(t) + 1), f.epochOut = p.epoch,
         Switching(f) <=> p.kind = "newkeys",
         "sentInit" \in f.kex /\ "sentNew" \notin f.kex <=> p.kind = "kexinit"
  PROVE  Sender(t, f)
<1>1. CASE Switching(f)
  BY <1>1 DEF Sender, Requires
<1>2. CASE ~Switching(f)
  <2>1. p.kind # "newkeys" /\ p.epoch \in Nat
    BY <1>2 DEF Packet
  <2>2. EpochAt(t, Len(t) + 1) = p.epoch + 0
    BY <2>1 DEF Requires
  <2>3. p.epoch + 0 = p.epoch
    BY <2>1, SMT
  <2>4. f.epochOut = EpochAt(t, Len(t) + 1)
    BY <2>2, <2>3
  <2> QED BY <1>2, <2>4 DEF Sender, Requires
<1> QED BY <1>1, <1>2

\* A packet is sent, and all of it is still to be written.
Grown ==
  \E p \in Packet :
    sent' = Append(sent, p) /\ out' = [i \in 1 .. Length(p) |-> <<Len(sent) + 1, i>>]

\* The steps of A leave its exchange and its packets as they should be.
LEMMA SendDataKeeps ==
  ASSUME StreamTypes, Sender(sent, endA), SendData
  PROVE  Sender(sent', endA') /\ endA' \in End /\ Grown
<1>1. PICK n \in Bodies : SendMessage("data", n, endA)
  BY DEF SendData
<1>2. /\ endA \in End /\ sent \in Seq(Packet) /\ n \in Nat /\ "data" \in Kinds
      /\ "data" # "newkeys" /\ "data" # "kexinit"
  BY PacketAssumption DEF StreamTypes, Kinds
<1>3. "sentInit" \notin endA.kex /\ "sentNew" \notin endA.kex /\ ~NewAt(sent, Len(sent) + 1)
  BY DEF SendData, Sender, ExchangeOfA
<1>4. ~Switching(endA)
  BY <1>3 DEF Switching
<1>5. PICK p \in Packet :
        /\ p.kind = "data" /\ p.epoch = endA.epochOut /\ sent' = Append(sent, p)
        /\ out' = [i \in 1 .. Length(p) |-> <<Len(sent) + 1, i>>]
        /\ Chained(sent') /\ Requires(sent', p)
        /\ endA' \in End /\ endA'.seq = SeqAt(sent', Len(sent') + 1)
        /\ endA'.epochOut = endA.epochOut /\ endA'.kex = endA.kex
        /\ endA'.inKex = endA.inKex /\ endA'.clear = endA.clear
  BY <1>1, <1>2, <1>3, <1>4, Sends
<1>6. sent' \in Seq(Packet) /\ Len(sent') > 0 /\ sent'[Len(sent')] = p
  BY <1>2, <1>5, AppendProperties, LenProperties, SMT
<1>7. ExchangeOfA(endA') /\ ~Switching(endA') /\ "sentInit" \notin endA'.kex
  BY <1>3, <1>5 DEF ExchangeOfA, Switching, Sender
<1>8. Sender(sent', endA')
  BY <1>2, <1>5, <1>6, <1>7, SenderAfter
<1> QED BY <1>5, <1>8 DEF Grown

\* Sending a KEXINIT keeps what is known of the sender, and only adds to the stream.
LEMMA SendKexInitKeeps ==
  ASSUME StreamTypes, Sender(sent, endA), SendKexInit
  PROVE  Sender(sent', endA') /\ endA' \in End /\ Grown
<1>2. endA \in End /\ sent \in Seq(Packet) /\ 0 \in Nat /\ "kexinit" \in Kinds /\ "kexinit" # "newkeys"
  BY DEF StreamTypes, Kinds
<1>3. "sentInit" \notin endA.kex /\ "sentNew" \notin endA.kex /\ "activeOut" \notin endA.kex
      /\ ~NewAt(sent, Len(sent) + 1)
  BY DEF SendKexInit, Sender, ExchangeOfA, NoKex
<1>4. ~Switching(endA)
  BY <1>3 DEF Switching
<1>1. PICK e : e = [endA EXCEPT !.inKex = TRUE, !.clear = FALSE, !.kex = @ \cup {"sentInit"}]
  OBVIOUS
<1>0. e \in End /\ e.epochOut = endA.epochOut /\ e.seq = endA.seq /\ e.inKex = TRUE
      /\ e.clear = FALSE /\ e.kex = endA.kex \cup {"sentInit"}
  BY <1>1, <1>2 DEF End, Marks
<1>5. PICK p \in Packet :
        /\ p.kind = "kexinit" /\ p.epoch = endA.epochOut /\ sent' = Append(sent, p)
        /\ out' = [i \in 1 .. Length(p) |-> <<Len(sent) + 1, i>>]
        /\ Chained(sent') /\ Requires(sent', p)
        /\ endA' \in End /\ endA'.seq = SeqAt(sent', Len(sent') + 1)
        /\ endA'.epochOut = endA.epochOut /\ endA'.kex = e.kex
        /\ endA'.inKex = e.inKex /\ endA'.clear = e.clear
  <2>1. SendMessage("kexinit", 0, e)
    BY <1>1 DEF SendKexInit
  <2> QED BY <2>1, <1>0, <1>2, <1>3, <1>4, Sends
<1>6. sent' \in Seq(Packet) /\ Len(sent') > 0 /\ sent'[Len(sent')] = p
  BY <1>2, <1>5, AppendProperties, LenProperties, SMT
<1>7. ExchangeOfA(endA') /\ ~Switching(endA') /\ "sentInit" \in endA'.kex /\ "sentNew" \notin endA'.kex
  BY <1>0, <1>3, <1>5 DEF ExchangeOfA, Switching
<1>8. Sender(sent', endA')
  BY <1>2, <1>5, <1>6, <1>7, SenderAfter
<1> QED BY <1>5, <1>8 DEF Grown

\* So does sending a NEWKEYS.
LEMMA SendNewKeysKeeps ==
  ASSUME StreamTypes, Sender(sent, endA), SendNewKeys
  PROVE  Sender(sent', endA') /\ endA' \in End /\ Grown
<1>2. endA \in End /\ sent \in Seq(Packet) /\ 0 \in Nat /\ "newkeys" \in Kinds /\ "kexinit" # "newkeys"
  BY DEF StreamTypes, Kinds
<1>3. "sentInit" \in endA.kex /\ "sentNew" \notin endA.kex /\ "activeOut" \notin endA.kex
      /\ endA.inKex /\ ~endA.clear /\ NewAt(sent, Len(sent) + 1)
  BY DEF SendNewKeys, Sender, ExchangeOfA
<1>4. ~Switching(endA)
  BY <1>3 DEF Switching
<1>1. PICK e : e = [endA EXCEPT !.kex = @ \cup {"sentNew"}]
  OBVIOUS
<1>0. e \in End /\ e.epochOut = endA.epochOut /\ e.seq = endA.seq /\ e.inKex = endA.inKex
      /\ e.clear = endA.clear /\ e.kex = endA.kex \cup {"sentNew"}
  BY <1>1, <1>2 DEF End, Marks
<1>5. PICK p \in Packet :
        /\ p.kind = "newkeys" /\ p.epoch = endA.epochOut /\ sent' = Append(sent, p)
        /\ out' = [i \in 1 .. Length(p) |-> <<Len(sent) + 1, i>>]
        /\ Chained(sent') /\ Requires(sent', p)
        /\ endA' \in End /\ endA'.seq = SeqAt(sent', Len(sent') + 1)
        /\ endA'.epochOut = endA.epochOut /\ endA'.kex = e.kex
        /\ endA'.inKex = e.inKex /\ endA'.clear = e.clear
  <2>1. SendMessage("newkeys", 0, e)
    BY <1>1 DEF SendNewKeys
  <2> QED BY <2>1, <1>0, <1>2, <1>3, <1>4, Sends
<1>6. sent' \in Seq(Packet) /\ Len(sent') > 0 /\ sent'[Len(sent')] = p
  BY <1>2, <1>5, AppendProperties, LenProperties, SMT
<1>7. ExchangeOfA(endA') /\ Switching(endA') /\ "sentNew" \in endA'.kex
  BY <1>0, <1>3, <1>5 DEF ExchangeOfA, Switching
<1>8. Sender(sent', endA')
  BY <1>2, <1>5, <1>6, <1>7, SenderAfter
<1> QED BY <1>5, <1>8 DEF Grown

-----------------------------------------------------------------------------
(* Changes of keys *)

\* The end f has of the end q all but the keys and the counts of its packets.
SameBut(f, q) ==
  /\ f \in End /\ f.need = q.need /\ f.initCount = q.initCount /\ f.seq = q.seq
  /\ f.kex = q.kex /\ f.inKex = q.inKex /\ f.clear = q.clear

\* What is left of an end that has the next keys in one direction
LEMMA NextOut ==
  ASSUME NEW q \in End, NEW n \in Nat, NEW f, f = [q EXCEPT !.epochOut = n, !.sentPackets = 0]
  PROVE  f.epochOut = n /\ f.epochIn = q.epochIn /\ SameBut(f, q)
<1>1. f \in End /\ f.need = q.need
  BY DEF End
<1>2. f.epochOut = n /\ f.epochIn = q.epochIn /\ f.initCount = q.initCount
      /\ f.seq = q.seq /\ f.kex = q.kex
  BY DEF End
<1>3. f.inKex = q.inKex /\ f.clear = q.clear
  BY DEF End
<1> QED BY <1>1, <1>2, <1>3, Zenon DEF SameBut

\* The same of the other
LEMMA NextIn ==
  ASSUME NEW q \in End, NEW n \in Nat, NEW f, f = [q EXCEPT !.epochIn = n, !.receivedPackets = 0, !.overflow = 0]
  PROVE  f.epochIn = n /\ f.epochOut = q.epochOut /\ SameBut(f, q)
<1>1. f \in End /\ f.need = q.need
  BY DEF End
<1>2. f.epochIn = n /\ f.epochOut = q.epochOut /\ f.initCount = q.initCount
      /\ f.seq = q.seq /\ f.kex = q.kex
  BY DEF End
<1>3. f.inKex = q.inKex /\ f.clear = q.clear
  BY DEF End
<1> QED BY <1>1, <1>2, <1>3, Zenon DEF SameBut

\* set_outbound_cipher moves on to the next keys and keeps the exchange; after
\* nothing or the same direction it only marks the direction.
LEMMA CipherOut ==
  ASSUME NEW e \in End, NEW f, f = SetOutboundCipher(e)
  PROVE  /\ f \in End /\ f.epochOut = e.epochOut + 1 /\ f.epochIn = e.epochIn
         /\ f.seq = e.seq /\ f.kex = e.kex /\ f.inKex = e.inKex /\ f.clear = e.clear
         /\ e.initCount = 0 => f.initCount = 1 /\ f.need = e.need
<1>1. PICK c \in 0 .. 2 : c = IF e.initCount # 0 /\ e.initCount # 1 THEN 0 ELSE 1
  BY SMT
<1>2. PICK b \in BOOLEAN : b = IF e.initCount # 0 /\ e.initCount # 1 THEN FALSE ELSE e.need
  <2>1. e.need \in BOOLEAN
    BY DEF End
  <2>2. (IF e.initCount # 0 /\ e.initCount # 1 THEN FALSE ELSE e.need) \in BOOLEAN
    BY <2>1, Zenon
  <2> QED BY <2>2, Zenon
<1>3. PICK r : r = [e EXCEPT !.initCount = c, !.need = b]
  OBVIOUS
<1>4. r = ResetCounts(e, 1)
  BY <1>1, <1>2, <1>3, Zenon DEF ResetCounts
<1>5. PICK n \in Nat : n = e.epochOut + 1
  BY SMT DEF End
<1>6. /\ r \in End /\ r.epochOut = e.epochOut /\ r.epochIn = e.epochIn /\ r.need = b
      /\ r.initCount = c /\ r.seq = e.seq /\ r.kex = e.kex /\ r.inKex = e.inKex /\ r.clear = e.clear
  BY <1>3 DEF End
<1>7. f = [r EXCEPT !.epochOut = n, !.sentPackets = 0]
  BY <1>4, <1>5, <1>6, Zenon DEF SetOutboundCipher
<1>8. /\ f \in End /\ f.epochOut = n /\ f.epochIn = r.epochIn /\ f.need = b
      /\ f.initCount = r.initCount /\ f.seq = r.seq /\ f.kex = r.kex /\ f.inKex = r.inKex
      /\ f.clear = r.clear
  <2>1. r \in End
    BY <1>6
  <2>2. f.epochOut = n /\ f.epochIn = r.epochIn /\ SameBut(f, r)
    BY <2>1, <1>7, NextOut, Zenon
  <2> QED BY <1>6, <2>2, Zenon DEF SameBut
<1>9. e.initCount = 0 => c = 1 /\ b = e.need
  BY <1>1, <1>2
<1> QED BY <1>5, <1>6, <1>8, <1>9, Zenon

\* set_inbound_cipher, the same; after the other direction it ends the request
\* for new keys.
LEMMA CipherIn ==
  ASSUME NEW e \in End, NEW f, f = SetInboundCipher(e)
  PROVE  /\ f \in End /\ f.epochIn = e.epochIn + 1 /\ f.epochOut = e.epochOut
         /\ f.seq = e.seq /\ f.kex = e.kex /\ f.inKex = e.inKex /\ f.clear = e.clear
         /\ e.initCount = 1 => f.initCount = 0 /\ f.need = FALSE
<1>1. PICK c \in 0 .. 2 : c = IF e.initCount # 0 /\ e.initCount # 2 THEN 0 ELSE 2
  BY SMT
<1>2. PICK b \in BOOLEAN : b = IF e.initCount # 0 /\ e.initCount # 2 THEN FALSE ELSE e.need
  <2>1. e.need \in BOOLEAN
    BY DEF End
  <2>2. (IF e.initCount # 0 /\ e.initCount # 2 THEN FALSE ELSE e.need) \in BOOLEAN
    BY <2>1, Zenon
  <2> QED BY <2>2, Zenon
<1>3. PICK r : r = [e EXCEPT !.initCount = c, !.need = b]
  OBVIOUS
<1>4. r = ResetCounts(e, 2)
  BY <1>1, <1>2, <1>3, Zenon DEF ResetCounts
<1>5. PICK n \in Nat : n = e.epochIn + 1
  BY SMT DEF End
<1>6. /\ r \in End /\ r.epochOut = e.epochOut /\ r.epochIn = e.epochIn /\ r.need = b
      /\ r.initCount = c /\ r.seq = e.seq /\ r.kex = e.kex /\ r.inKex = e.inKex /\ r.clear = e.clear
  BY <1>3 DEF End
<1>7. f = [r EXCEPT !.epochIn = n, !.receivedPackets = 0, !.overflow = 0]
  BY <1>4, <1>5, <1>6, Zenon DEF SetInboundCipher
<1>8. /\ f \in End /\ f.epochIn = n /\ f.epochOut = r.epochOut /\ f.need = b
      /\ f.initCount = r.initCount /\ f.seq = r.seq /\ f.kex = r.kex /\ f.inKex = r.inKex
      /\ f.clear = r.clear
  <2>1. r \in End
    BY <1>6
  <2>2. f.epochIn = n /\ f.epochOut = r.epochOut /\ SameBut(f, r)
    BY <2>1, <1>7, NextIn, Zenon
  <2> QED BY <1>6, <2>2, Zenon DEF SameBut
<1>9. e.initCount = 1 => c = 0 /\ b = FALSE
  BY <1>1, <1>2
<1> QED BY <1>5, <1>6, <1>8, <1>9, Zenon

\* _parse_newkeys ends the exchange.
LEMMA NewKeysEndIt ==
  ASSUME NEW e \in End, NEW g, g = NewKeysParsed(e)
  PROVE  /\ g \in End /\ g.epochIn = e.epochIn + 1 /\ g.epochOut = e.epochOut
         /\ g.seq = e.seq /\ g.kex = {}
         /\ e.initCount = 1 => g.initCount = 0 /\ ~g.need /\ ~g.inKex
<1>1. PICK f : f = SetInboundCipher(e)
  OBVIOUS
<1>2. /\ f \in End /\ f.epochIn = e.epochIn + 1 /\ f.epochOut = e.epochOut /\ f.seq = e.seq
      /\ e.initCount = 1 => f.initCount = 0 /\ f.need = FALSE
  BY <1>1, CipherIn
<1>3. PICK b \in BOOLEAN : b = (f.inKex /\ f.need)
  <2>1. (f.inKex /\ f.need) \in BOOLEAN
    BY SMT
  <2> QED BY <2>1, Zenon
<1>4. g = [f EXCEPT !.kex = {}, !.inKex = b, !.clear = TRUE]
  BY <1>1, <1>3, Zenon DEF NewKeysParsed, NoKex
<1>5. /\ g \in End /\ g.epochIn = f.epochIn /\ g.epochOut = f.epochOut /\ g.seq = f.seq
      /\ g.kex = {} /\ g.initCount = f.initCount /\ g.need = f.need /\ g.inKex = b
  BY <1>2, <1>4 DEF End, Marks
<1>6. e.initCount = 1 => ~g.need /\ ~g.inKex
  BY <1>2, <1>3, <1>5
<1> QED BY <1>2, <1>5, <1>6

\* Taking new keys for sending keeps what is known of the sender.
LEMMA ActivateOutboundKeeps ==
  ASSUME StreamTypes, Sender(sent, endA), ActivateOutbound
  PROVE  Sender(sent, endA') /\ endA' \in End
<1>1. PICK f : f = SetOutboundCipher(endA)
  OBVIOUS
<1>2. endA \in End /\ sent \in Seq(Packet)
  BY DEF StreamTypes
<1>3. /\ f \in End /\ f.epochOut = endA.epochOut + 1 /\ f.seq = endA.seq /\ f.kex = endA.kex
      /\ f.inKex = endA.inKex /\ f.clear = endA.clear
  BY <1>1, <1>2, CipherOut
<1>4. PICK b \in BOOLEAN : b = (f.inKex /\ f.need)
  <2>1. (f.inKex /\ f.need) \in BOOLEAN
    BY SMT
  <2> QED BY <2>1, Zenon
<1>5. PICK g : g = endA'
  OBVIOUS
<1>6. g = [f EXCEPT !.kex = @ \cup {"activeOut"}, !.inKex = b]
  BY <1>1, <1>4, <1>5, Zenon DEF ActivateOutbound
<1>7. /\ g \in End /\ g.epochOut = f.epochOut /\ g.seq = f.seq /\ g.kex = f.kex \cup {"activeOut"}
      /\ g.inKex = b /\ g.need = f.need /\ g.clear = f.clear
  BY <1>3, <1>6 DEF End, Marks
<1>8. /\ "sentNew" \in endA.kex /\ "activeOut" \notin endA.kex /\ "sentInit" \in endA.kex
      /\ endA.inKex /\ ~endA.clear /\ Switching(endA)
  BY DEF ActivateOutbound, Sender, ExchangeOfA, Switching
<1>9. g.inKex <=> g.need
  BY <1>3, <1>4, <1>7, <1>8
<1>10. ExchangeOfA(g) /\ ~Switching(g) /\ "sentInit" \in g.kex /\ "sentNew" \in g.kex
  BY <1>3, <1>7, <1>8, <1>9 DEF ExchangeOfA, Switching
<1>11. EpochAt(sent, Len(sent) + 1) = endA.epochOut + 1
  <2>1. PICK n \in Nat : n = Len(sent)
    BY <1>2, LenProperties
  <2>2. n > 0 /\ sent[n].kind = "newkeys" /\ endA.epochOut = sent[n].epoch
    BY <1>8, <2>1 DEF Sender
  <2>3. n + 1 # 1 /\ (n + 1) - 1 = n
    BY <2>2, SMT
  <2> QED BY <2>1, <2>2, <2>3 DEF EpochAt
<1>12. Sender(sent, g)
  BY <1>3, <1>7, <1>8, <1>10, <1>11 DEF Sender
<1> QED BY <1>5, <1>7, <1>12

\* So does what the sender itself receives.
LEMMA AReceivesKeeps ==
  ASSUME StreamTypes, Sender(sent, endA), AReceives
  PROVE  Sender(sent, endA') /\ endA' \in End
<1>1. endA \in End
  BY DEF StreamTypes
<1>2. PICK g : g = endA'
  OBVIOUS
<1>3. CASE endA' = [endA EXCEPT !.kex = @ \cup {"gotInit"}, !.clear = FALSE]
  <2>1. g = [endA EXCEPT !.kex = @ \cup {"gotInit"}, !.clear = FALSE]
    BY <1>2, <1>3
  <2>2. /\ g \in End /\ g.epochOut = endA.epochOut /\ g.seq = endA.seq /\ g.kex = endA.kex \cup {"gotInit"}
        /\ g.inKex = endA.inKex /\ g.need = endA.need /\ g.clear = FALSE
    BY <1>1, <2>1 DEF End, Marks
  <2>3. ExchangeOfA(g) /\ (Switching(g) <=> Switching(endA))
    BY <2>2 DEF Sender, ExchangeOfA, Switching
  <2>4. Sender(sent, g)
    BY <2>2, <2>3 DEF Sender
  <2> QED BY <1>2, <2>2, <2>4
<1>4. CASE "activeOut" \in endA.kex /\ endA' = NewKeysParsed(endA)
  <2>1. g \in End /\ g.epochOut = endA.epochOut /\ g.seq = endA.seq /\ g.kex = {}
    BY <1>1, <1>2, <1>4, NewKeysEndIt
  <2>2. ExchangeOfA(g) /\ ~Switching(g) /\ ~Switching(endA) /\ "sentInit" \notin g.kex
    BY <1>4, <2>1 DEF ExchangeOfA, Switching
  <2>3. ~NewAt(sent, Len(sent) + 1)
    BY <1>4 DEF Sender, ExchangeOfA
  <2>4. Sender(sent, g)
    BY <2>1, <2>2, <2>3 DEF Sender
  <2> QED BY <1>2, <2>1, <2>4
<1> QED BY <1>3, <1>4 DEF AReceives

-----------------------------------------------------------------------------
(* What B has not read to the end *)

\* Nothing is a sequence of units.
LEMMA UnitsExist == <<>> \in Seq(Units)
<1> QED BY EmptySeq

\* Sequences of units, one after the other
LEMMA UnitsConcat ==
  ASSUME NEW a \in Seq(Units), NEW b \in Seq(Units)
  PROVE  /\ a \o b \in Seq(Units) /\ Len(a) \in Nat /\ Len(b) \in Nat
         /\ Len(a \o b) = Len(a) + Len(b)
         /\ \A i \in 1 .. Len(a) : (a \o b)[i] = a[i]
         /\ \A i \in 1 .. Len(b) : (a \o b)[Len(a) + i] = b[i]
<1>1. PICK m \in Nat, n \in Nat : m = Len(a) /\ n = Len(b)
  BY LenProperties
<1>2. /\ a \o b \in Seq(Units) /\ Len(a \o b) = m + n
      /\ \A i \in 1 .. m + n : (a \o b)[i] = IF i <= m THEN a[i] ELSE b[i - m]
  BY <1>1, ConcatProperties
<1>3. \A i \in 1 .. m : i \in 1 .. m + n /\ i <= m
  BY SMT
<1>4. \A i \in 1 .. n : m + i \in 1 .. m + n /\ ~(m + i <= m) /\ (m + i) - m = i
  BY SMT
<1>5. \A i \in 1 .. m : (a \o b)[i] = a[i]
  BY <1>2, <1>3
<1>6. \A i \in 1 .. n : (a \o b)[m + i] = b[i]
  BY <1>2, <1>4, Zenon
<1> QED BY <1>1, <1>2, <1>5, <1>6

\* What is known of two sequences, one after the other, under a name
Joined(a, b) ==
  /\ Len(a \o b) = Len(a) + Len(b)
  /\ \A i \in 1 .. Len(a) : (a \o b)[i] = a[i]
  /\ \A i \in 1 .. Len(b) : (a \o b)[Len(a) + i] = b[i]

\* So for sequences of units
LEMMA UnitsJoined ==
  ASSUME NEW a \in Seq(Units), NEW b \in Seq(Units)
  PROVE  Joined(a, b)
<1> QED BY UnitsConcat DEF Joined

\* It does not matter which two are put together first.
Associate(a, b, c) == (a \o b) \o c = a \o (b \o c)

\* So for sequences of units
LEMMA UnitsThree ==
  ASSUME NEW a \in Seq(Units), NEW b \in Seq(Units), NEW c \in Seq(Units)
  PROVE  Associate(a, b, c)
<1> QED BY ConcatAssociative DEF Associate

\* A function on a first part of the naturals is a sequence.
LEMMA UnitsListed ==
  ASSUME NEW m \in Nat, NEW f \in [1 .. m -> Units]
  PROVE  f \in Seq(Units) /\ Len(f) = m
<1>1. f \in Seq(Units)
  BY SeqDef
<1>2. PICK n \in Nat : n = Len(f)
  BY <1>1, LenProperties
<1>3. 1 .. n = 1 .. m
  <2>1. DOMAIN f = 1 .. Len(f) /\ DOMAIN f = 1 .. m
    BY <1>1, LenProperties
  <2> QED BY <1>2, <2>1
<1>4. n = m
  BY <1>3, SMT
<1> QED BY <1>1, <1>2, <1>4

\* The flow is a sequence of units, and a packet that is written follows it.
LEMMA FlowTyped ==
  ASSUME NEW rd \in Reader, NEW w \in Seq(Units), NEW o \in Seq(Units), NEW k \in Nat
  PROVE  /\ HeaderTaken(rd.phase, k) \in Seq(Units) /\ rd.has \in Seq(Units) /\ rd.remainder \in Seq(Units)
         /\ w \o o \in Seq(Units) /\ rd.remainder \o (w \o o) \in Seq(Units)
         /\ rd.has \o (rd.remainder \o (w \o o)) \in Seq(Units)
         /\ FlowOf(rd, w, o, k) \in Seq(Units)
<1>1. rd.has \in Seq(Units) /\ rd.remainder \in Seq(Units)
  BY DEF Reader
<1>2. HeaderTaken(rd.phase, k) \in Seq(Units)
  <2>1. <<>> \in Seq(Units)
    BY UnitsExist
  <2>2. \A i \in 1 .. HeaderLength : <<k, i>> \in Units
    BY DEF Units, HeaderLength
  <2>3. [i \in 1 .. HeaderLength |-> <<k, i>>] \in Seq(Units)
    BY <2>2, SMT DEF HeaderLength
  <2> QED BY <2>1, <2>3 DEF HeaderTaken
<1>3. w \o o \in Seq(Units)
  BY ConcatProperties
<1>4. rd.remainder \o (w \o o) \in Seq(Units)
  BY <1>1, <1>3, ConcatProperties
<1>5. rd.has \o (rd.remainder \o (w \o o)) \in Seq(Units)
  BY <1>1, <1>4, ConcatProperties
<1>6. FlowOf(rd, w, o, k) \in Seq(Units)
  BY <1>2, <1>5, ConcatProperties DEF FlowOf
<1> QED BY <1>1, <1>2, <1>3, <1>4, <1>5, <1>6

\* What A has to write comes after all the rest.
Followed(rd, w, o, k) == FlowOf(rd, w, o, k) = FlowOf(rd, w, <<>>, k) \o o

\* What is written next lies at the end of the flow.
LEMMA FlowFollowed ==
  ASSUME NEW rd \in Reader, NEW w \in Seq(Units), NEW o \in Seq(Units), NEW k \in Nat
  PROVE  Followed(rd, w, o, k)
<1>1. PICK a \in Seq(Units), b \in Seq(Units), c \in Seq(Units) :
        a = HeaderTaken(rd.phase, k) /\ b = rd.has /\ c = rd.remainder
  BY FlowTyped
<1>2. w \o <<>> = w
  BY ConcatEmptySeq
<1>3. c \o w \in Seq(Units) /\ b \o (c \o w) \in Seq(Units)
  <2>1. c \o w \in Seq(Units)
    BY ConcatProperties
  <2> QED BY <2>1, ConcatProperties
<1>4. c \o (w \o o) = (c \o w) \o o
  <2>1. Associate(c, w, o)
    BY UnitsThree
  <2> QED BY <2>1, Zenon DEF Associate
<1>5. b \o ((c \o w) \o o) = (b \o (c \o w)) \o o
  <2>1. PICK d \in Seq(Units) : d = c \o w
    BY <1>3
  <2>2. Associate(b, d, o)
    BY UnitsThree
  <2> QED BY <2>1, <2>2, Zenon DEF Associate
<1>6. a \o ((b \o (c \o w)) \o o) = (a \o (b \o (c \o w))) \o o
  <2>1. PICK d \in Seq(Units) : d = b \o (c \o w)
    BY <1>3
  <2>2. Associate(a, d, o)
    BY UnitsThree
  <2> QED BY <2>1, <2>2, Zenon DEF Associate
<1>7. a \o (b \o (c \o (w \o o))) = (a \o (b \o (c \o (w \o <<>>)))) \o o
  BY <1>2, <1>4, <1>5, <1>6
<1> QED BY <1>1, <1>7 DEF FlowOf, Followed

\* What a packet takes on its way
LEMMA SizesTyped ==
  ASSUME NEW s \in Seq(Packet)
  PROVE  /\ Sizes(s) \in [0 .. Len(s) -> Nat] /\ Sizes(s)[0] = BannerLength
         /\ \A k \in 1 .. Len(s) : Sizes(s)[k] = Length(s[k]) /\ s[k] \in Packet
         /\ \A k \in 1 .. Len(s) : Length(s[k]) \in Nat /\ Length(s[k]) >= HeaderLength
<1>1. PICK n \in Nat : n = Len(s)
  BY LenProperties
<1>2. ASSUME NEW k \in 1 .. n
      PROVE  s[k] \in Packet /\ Length(s[k]) \in Nat /\ Length(s[k]) >= HeaderLength
  <2>1. s[k] \in Packet
    BY <1>1, ElementOfSeq
  <2>2. PICK b \in Nat, c \in {0, 1} :
          b = s[k].body /\ c = IF s[k].epoch > 0 THEN 1 ELSE 0
    BY <2>1, SMT DEF Packet
  <2>3. Length(s[k]) = 2 + b + c
    BY <2>2 DEF Length, HeaderLength
  <2> QED BY <2>1, <2>3, SMT DEF HeaderLength
<1>3. ASSUME NEW k \in 0 .. n PROVE (IF k = 0 THEN BannerLength ELSE Length(s[k])) \in Nat
  <2>1. CASE k = 0
    BY <2>1, SMT DEF BannerLength
  <2>2. CASE k # 0
    <3>1. k \in 1 .. n
      BY <2>2, SMT
    <3> QED BY <2>2, <3>1, <1>2
  <2> QED BY <2>1, <2>2
<1>4. Sizes(s) \in [0 .. n -> Nat]
  BY <1>1, <1>3, Zenon DEF Sizes
<1>5. Sizes(s)[0] = BannerLength
  <2>1. 0 \in 0 .. n
    BY SMT
  <2> QED BY <1>1, <2>1 DEF Sizes
<1>6. \A k \in 1 .. n : Sizes(s)[k] = Length(s[k])
  <2>1. \A k \in 1 .. n : k \in 0 .. n /\ k # 0
    BY SMT
  <2> QED BY <1>1, <2>1 DEF Sizes
<1> QED BY <1>1, <1>2, <1>4, <1>5, <1>6

\* The flow stays cut when A makes another packet.
LEMMA FlowGrows ==
  ASSUME NEW s \in Seq(Packet), NEW p \in Packet, NEW t, t = Append(s, p),
         NEW w \in Seq(Units), NEW o, o = [i \in 1 .. Length(p) |-> <<Len(s) + 1, i>>],
         NEW rd \in Reader, NEW n \in Nat, n <= Len(s), Flows(rd, s, w, <<>>, n)
  PROVE  InFlow(rd, rd.phase, t, w, o, n)
<1>1. PICK N \in Nat : N = Len(s)
  BY LenProperties
<1>2. t \in Seq(Packet) /\ Len(t) = N + 1 /\ t[N + 1] = p /\ \A k \in 1 .. N : t[k] = s[k]
  BY <1>1, AppendProperties
<1>3. N + 1 \in 1 .. Len(t)
  BY <1>2, SMT
<1>4. PICK m \in Nat : m = Length(p)
  BY <1>2, <1>3, SizesTyped
<1>5. o = [i \in 1 .. m |-> <<N + 1, i>>]
  BY <1>1, <1>4
<1>6. o \in Seq(Units) /\ Len(o) = m
  <2>1. \A i \in 1 .. m : <<N + 1, i>> \in Units
    BY SMT DEF Units
  <2>2. o \in [1 .. m -> Units]
    BY <1>5, <2>1
  <2> QED BY <2>2, UnitsListed
<1>7. ASSUME rd.phase # "ignored"
      PROVE  /\ Reading(rd, t, n)
             /\ Cut(FlowOf(rd, w, o, n + 1), IF rd.phase = "banner" THEN 0 ELSE n + 1, Len(t), Sizes(t))
  <2>1. Reading(rd, s, n)
    BY <1>7 DEF Flows
  <2>2. Reading(rd, t, n)
    <3>1. ASSUME rd.phase = "body" PROVE n < Len(t) /\ t[n + 1] = s[n + 1]
      <4>1. n < N
        BY <1>1, <2>1, <3>1 DEF Reading
      <4>2. n + 1 \in 1 .. N /\ n < N + 1
        BY <4>1, SMT
      <4> QED BY <1>2, <4>2
    <3> QED BY <2>1, <3>1 DEF Reading
  <2>3. PICK K \in Nat : K = IF rd.phase = "banner" THEN 0 ELSE n + 1
    BY SMT
  <2>4. K <= N + 1
    BY <1>1, <2>3, SMT
  <2>5. PICK F : F = FlowOf(rd, w, <<>>, n + 1)
    OBVIOUS
  <2>6. n + 1 \in Nat
    BY SMT
  <2>7. F \in Seq(Units) /\ FlowOf(rd, w, o, n + 1) = F \o o
    <3>1. PICK k \in Nat : k = n + 1
      BY <2>6
    <3>2. FlowOf(rd, w, <<>>, k) \in Seq(Units)
      BY UnitsExist, FlowTyped
    <3>3. Followed(rd, w, o, k)
      BY <1>6, FlowFollowed
    <3> QED BY <2>5, <3>1, <3>2, <3>3 DEF Followed
  <2>8. Cut(F, K, N, Sizes(s))
    BY <1>1, <1>7, <2>3, <2>5, Zenon DEF Flows
  <2>9. PICK larger : larger = Sizes(t)
    OBVIOUS
  <2>10. /\ larger \in [0 .. N + 1 -> Nat] /\ larger[N + 1] = m
         /\ \A k \in 0 .. N : larger[k] = Sizes(s)[k]
    <3>1. larger \in [0 .. N + 1 -> Nat] /\ larger[N + 1] = m
      BY <1>2, <1>3, <1>4, <2>9, SizesTyped
    <3>2. ASSUME NEW k \in 0 .. N PROVE larger[k] = Sizes(s)[k]
      <4>1. CASE k = 0
        BY <1>2, <2>9, <4>1, SizesTyped
      <4>2. CASE k # 0
        <5>1. k \in 1 .. N /\ k \in 1 .. N + 1
          BY <4>2, SMT
        <5>2. larger[k] = Length(t[k]) /\ Sizes(s)[k] = Length(s[k])
          BY <1>1, <1>2, <2>9, <5>1, SizesTyped
        <5> QED BY <1>2, <5>1, <5>2
      <4> QED BY <4>1, <4>2
    <3> QED BY <3>1, <3>2
  <2>11. PICK G : G = F \o o
    OBVIOUS
  <2>12. PICK l \in Nat : l = Len(F)
    BY <2>7, LenProperties
  <2>13. /\ Len(G) = l + m /\ \A i \in 1 .. l : G[i] = F[i]
         /\ \A i \in 1 .. m : G[l + i] = o[i]
    BY <1>6, <2>7, <2>11, <2>12, UnitsConcat
  <2>14. \A i \in 1 .. l : G[i] = F[i]
    BY <2>13
  <2>15. ASSUME NEW v \in 1 .. m PROVE G[l + v] = <<N + 1, v>>
    BY <1>5, <2>13
  <2>16. Cut(G, K, N + 1, larger)
    <3>1. Len(G) = Len(F) + larger[N + 1]
      BY <2>10, <2>12, <2>13
    <3>2. \A i \in 1 .. Len(F) : G[i] = F[i]
      BY <2>12, <2>14
    <3>3. \A v \in 1 .. larger[N + 1] : G[Len(F) + v] = <<N + 1, v>>
      BY <2>10, <2>12, <2>15
    <3> QED BY <2>4, <2>7, <2>8, <2>10, <3>1, <3>2, <3>3, CutExtend
  <2> QED BY <1>2, <2>2, <2>3, <2>7, <2>9, <2>11, <2>16, Zenon
<1> QED BY <1>6, <1>7, Zenon DEF Flows, InFlow

-----------------------------------------------------------------------------
(* The steps that move units on *)

\* A sequence of units is its first n and the others.
LEMMA UnitsSplit ==
  ASSUME NEW a \in Seq(Units), NEW n \in 1 .. Len(a)
  PROVE  /\ SubSeq(a, 1, n) \in Seq(Units) /\ Len(SubSeq(a, 1, n)) = n
         /\ SubSeq(a, n + 1, Len(a)) \in Seq(Units)
         /\ SubSeq(a, 1, n) \o SubSeq(a, n + 1, Len(a)) = a
<1>1. PICK m \in Nat : m = Len(a)
  BY LenProperties
<1>2. /\ 1 \in 1 .. m + 1 /\ n \in 1 - 1 .. m /\ m \in n .. m /\ n \in Int /\ n + 1 \in Int
      /\ 1 \in Int /\ m \in Int /\ 1 <= n /\ (n - 1) + 1 = n
  BY <1>1, SMT
<1>3. SubSeq(a, 1, n) \o SubSeq(a, n + 1, m) = SubSeq(a, 1, m)
  BY <1>1, <1>2, ConcatAdjacentSubSeq
<1>4. SubSeq(a, 1, m) = a
  BY <1>1, SubSeqFull
<1>5. \A i \in 1 .. m : a[i] \in Units
  BY <1>1, ElementOfSeq
<1>6. (\A i \in 1 .. n : i \in 1 .. m) /\ (\A i \in n + 1 .. m : i \in 1 .. m)
  BY <1>2, SMT
<1>7. SubSeq(a, 1, n) \in Seq(Units) /\ Len(SubSeq(a, 1, n)) = n
  BY <1>2, <1>5, <1>6, SubSeqProperties
<1>8. SubSeq(a, n + 1, m) \in Seq(Units)
  BY <1>2, <1>5, <1>6, SubSeqProperties
<1> QED BY <1>1, <1>3, <1>4, <1>7, <1>8

\* What comes after the first packet of a cut sequence is cut.
LEMMA CutRest ==
  ASSUME NEW P \in Seq(Units), NEW G \in Seq(Units), NEW K \in Nat, NEW N \in Nat, K <= N,
         NEW size \in [0 .. N -> Nat], Cut(P \o G, K, N, size), Len(P) = size[K]
  PROVE  Cut(G, K + 1, N, size)
<1>1. PICK F \in Seq(Units) : F = P \o G
  BY UnitsConcat
<1>2. PICK p \in Nat, g \in Nat : p = Len(P) /\ g = Len(G)
  BY LenProperties
<1>3. Len(F) = p + g /\ \A i \in 1 .. g : F[p + i] = G[i]
  <2>1. Joined(P, G)
    BY UnitsJoined
  <2> QED BY <1>1, <1>2, <2>1, Zenon DEF Joined
<1>4. g = (p + g) - p
  BY SMT
<1>5. Len(G) = Len(F) - size[K] /\ \A i \in 1 .. Len(G) : G[i] = F[size[K] + i]
  BY <1>2, <1>3, <1>4
<1> QED BY <1>1, <1>5, CutDrop

\* write_all moves what it can.
LEMMA FlowWritten ==
  ASSUME NEW rd \in Reader, NEW s, NEW n, NEW w \in Seq(Units), NEW o \in Seq(Units),
         Flows(rd, s, w, o, n), NEW i \in 1 .. Len(o),
         NEW x, x = w \o SubSeq(o, 1, i), NEW y, y = SubSeq(o, i + 1, Len(o))
  PROVE  InFlow(rd, rd.phase, s, x, y, n)
<1>1. PICK a \in Seq(Units) : a = SubSeq(o, 1, i)
  BY UnitsSplit
<1>2. y \in Seq(Units) /\ a \o y = o
  BY <1>1, UnitsSplit
<1>3. x \in Seq(Units)
  BY <1>1, UnitsConcat
<1>4. x \o y = w \o o
  <2>1. PICK b \in Seq(Units) : b = y
    BY <1>2
  <2>2. Associate(w, a, b)
    BY UnitsThree
  <2> QED BY <1>1, <1>2, <2>1, <2>2, Zenon DEF Associate
<1>5. FlowOf(rd, x, y, n + 1) = FlowOf(rd, w, o, n + 1)
  BY <1>4 DEF FlowOf
<1> QED BY <1>2, <1>3, <1>5 DEF Flows, InFlow

\* Of four sequences, it does not matter which two are put together first.
Moved(r, a, b, o) == (r \o a) \o (b \o o) = r \o ((a \o b) \o o)

\* So for sequences of units
LEMMA UnitsMoved ==
  ASSUME NEW r \in Seq(Units), NEW a \in Seq(Units), NEW b \in Seq(Units), NEW o \in Seq(Units)
  PROVE  Moved(r, a, b, o)
<1>1. PICK c \in Seq(Units) : c = b \o o
  BY UnitsConcat
<1>2. Associate(r, a, c) /\ Associate(a, b, o)
  BY UnitsThree
<1> QED BY <1>1, <1>2, Zenon DEF Moved, Associate

\* What is read of the socket moves on to what the reader has or keeps.
LEMMA UnitsRead ==
  ASSUME NEW r \in Seq(Units), NEW w \in Seq(Units), NEW o \in Seq(Units), NEW i \in 1 .. Len(w)
  PROVE  /\ r \o SubSeq(w, 1, i) \in Seq(Units) /\ SubSeq(w, i + 1, Len(w)) \in Seq(Units)
         /\ Len(r \o SubSeq(w, 1, i)) = Len(r) + i
         /\ (r \o SubSeq(w, 1, i)) \o (SubSeq(w, i + 1, Len(w)) \o o) = r \o (w \o o)
<1>1. PICK a \in Seq(Units), b \in Seq(Units) : a = SubSeq(w, 1, i) /\ b = SubSeq(w, i + 1, Len(w))
  BY UnitsSplit
<1>2. a \o b = w /\ Len(a) = i
  BY <1>1, UnitsSplit
<1>3. (r \o a) \o (b \o o) = r \o (w \o o)
  <2>1. Moved(r, a, b, o)
    BY UnitsMoved
  <2>2. (r \o a) \o (b \o o) = r \o ((a \o b) \o o)
    BY <2>1 DEF Moved
  <2> QED BY <1>2, <2>2, Zenon
<1>4. r \o a \in Seq(Units) /\ Len(r \o a) = Len(r) + i
  BY <1>2, UnitsConcat
<1> QED BY <1>1, <1>3, <1>4

\* read_all takes what was read too much first.
LEMMA FlowRemainder ==
  ASSUME NEW rd \in Reader, NEW s, NEW n \in Nat, NEW w \in Seq(Units), NEW o \in Seq(Units),
         Flows(rd, s, w, o, n), rd.phase \in {"header", "body"}, rd.has = <<>>,
         NEW i \in 1 .. Len(rd.remainder), i = Len(rd.remainder) \/ i = rd.want,
         NEW q, q = [rd EXCEPT !.has = SubSeq(rd.remainder, 1, i),
                               !.remainder = SubSeq(@, i + 1, Len(@))]
  PROVE  InFlow(q, rd.phase, s, w, o, n)
<1>1. PICK r \in Seq(Units) : r = rd.remainder
  BY DEF Reader
<1>2. PICK a \in Seq(Units), b \in Seq(Units) : a = SubSeq(r, 1, i) /\ b = SubSeq(r, i + 1, Len(r))
  BY <1>1, UnitsSplit
<1>3. a \o b = r /\ Len(a) = i
  BY <1>1, <1>2, UnitsSplit
<1>4. q = [rd EXCEPT !.has = a, !.remainder = b]
  BY <1>1, <1>2
<1>5. q \in Reader /\ q.phase = rd.phase /\ q.has = a /\ q.remainder = b /\ q.want = rd.want
  BY <1>4 DEF Reader
<1>6. b = <<>> \/ Len(a) = rd.want
  <2>1. CASE i = Len(rd.remainder)
    <3>1. PICK m \in Nat : m = Len(r)
      BY LenProperties
    <3>2. m + 1 \in Int /\ m \in Int /\ m < m + 1
      BY SMT
    <3>3. SubSeq(r, m + 1, m) = <<>>
      BY <3>2, SubSeqEmpty
    <3> QED BY <1>1, <1>2, <2>1, <3>1, <3>3
  <2>2. CASE i = rd.want
    BY <1>3, <2>2
  <2> QED BY <2>1, <2>2
<1>7. PICK X \in Seq(Units) : X = w \o o
  BY UnitsConcat
<1>8. <<>> \o (r \o X) = a \o (b \o X)
  <2>1. Associate(a, b, X)
    BY UnitsThree
  <2>2. PICK z \in Seq(Units) : z = r \o X
    BY UnitsConcat
  <2>3. <<>> \o z = z
    BY ConcatEmptySeq
  <2> QED BY <1>3, <2>1, <2>2, <2>3, Zenon DEF Associate
<1>9. FlowOf(q, w, o, n + 1) = FlowOf(rd, w, o, n + 1)
  BY <1>1, <1>5, <1>7, <1>8 DEF FlowOf
<1>10. Flows(q, s, w, o, n)
  BY <1>5, <1>6, <1>9 DEF Flows, Reading
<1> QED BY <1>5, <1>10 DEF InFlow

\* read_all takes of the socket.
LEMMA FlowReceived ==
  ASSUME NEW rd \in Reader, NEW s, NEW n \in Nat, NEW w \in Seq(Units), NEW o \in Seq(Units),
         Flows(rd, s, w, o, n), rd.phase \in {"header", "body"}, rd.remainder = <<>>,
         NEW i \in 1 .. Len(w), NEW q, q = [rd EXCEPT !.has = @ \o SubSeq(w, 1, i)],
         NEW x, x = SubSeq(w, i + 1, Len(w))
  PROVE  InFlow(q, rd.phase, s, x, o, n)
<1>1. PICK r \in Seq(Units) : r = rd.has
  BY DEF Reader
<1>2. PICK a \in Seq(Units) : a = r \o SubSeq(w, 1, i)
  BY UnitsRead
<1>3. x \in Seq(Units) /\ a \o (x \o o) = r \o (w \o o)
  <2>1. /\ SubSeq(w, i + 1, Len(w)) \in Seq(Units)
        /\ (r \o SubSeq(w, 1, i)) \o (SubSeq(w, i + 1, Len(w)) \o o) = r \o (w \o o)
    BY UnitsRead, Zenon
  <2> QED BY <1>2, <2>1, Zenon
<1>4. q = [rd EXCEPT !.has = a]
  BY <1>1, <1>2
<1>5. q \in Reader /\ q.phase = rd.phase /\ q.has = a /\ q.remainder = <<>> /\ q.want = rd.want
  BY <1>4 DEF Reader
<1>6. <<>> \o (w \o o) = w \o o /\ <<>> \o (x \o o) = x \o o
  BY <1>3, UnitsConcat, ConcatEmptySeq
<1>7. FlowOf(q, x, o, n + 1) = FlowOf(rd, w, o, n + 1)
  BY <1>1, <1>3, <1>5, <1>6 DEF FlowOf
<1>8. Flows(q, s, x, o, n)
  BY <1>5, <1>7 DEF Flows, Reading
<1> QED BY <1>3, <1>5, <1>8 DEF InFlow

\* Nothing comes before a sequence of units.
LEMMA UnitsFirst ==
  ASSUME NEW a \in Seq(Units)
  PROVE  <<>> \o a = a
<1> QED BY ConcatEmptySeq

\* readline has read on, and has not got its line.
LEMMA FlowKept ==
  ASSUME NEW rd \in Reader, NEW s, NEW n \in Nat, NEW w \in Seq(Units), NEW o \in Seq(Units),
         Flows(rd, s, w, o, n), rd.phase = "banner", NEW i \in 1 .. Len(w),
         NEW buf, buf = rd.remainder \o SubSeq(w, 1, i),
         NEW q, q = [rd EXCEPT !.remainder = buf],
         NEW x, x = SubSeq(w, i + 1, Len(w))
  PROVE  InFlow(q, "banner", s, x, o, n)
<1>1. PICK r \in Seq(Units) : r = rd.remainder
  BY DEF Reader
<1>2. buf \in Seq(Units) /\ x \in Seq(Units) /\ buf \o (x \o o) = r \o (w \o o)
  <2>1. /\ r \o SubSeq(w, 1, i) \in Seq(Units) /\ SubSeq(w, i + 1, Len(w)) \in Seq(Units)
        /\ (r \o SubSeq(w, 1, i)) \o (SubSeq(w, i + 1, Len(w)) \o o) = r \o (w \o o)
    BY UnitsRead, Zenon
  <2> QED BY <1>1, <2>1, Zenon
<1>3. /\ q \in Reader /\ q.phase = "banner" /\ q.has = rd.has /\ q.remainder = buf
      /\ q.want = rd.want
  BY <1>2 DEF Reader
<1>4. FlowOf(q, x, o, n + 1) = FlowOf(rd, w, o, n + 1)
  BY <1>1, <1>2, <1>3 DEF FlowOf
<1>5. rd.has = <<>>
  BY DEF Flows, Reading
<1>6. Flows(q, s, x, o, n)
  BY <1>3, <1>4, <1>5 DEF Flows, Reading
<1> QED BY <1>2, <1>3, <1>6 DEF InFlow

\* A reader that is made of its parts
Made(q, p, h, r) == q \in Reader /\ q.phase = p /\ q.has = h /\ q.remainder = r

\* The one that readline leaves
LEMMA ReaderMade ==
  ASSUME NEW p \in Phases, NEW h \in Seq(Units), NEW r \in Seq(Units),
         NEW q, q = [phase |-> p, has |-> h, want |-> 0, remainder |-> r]
  PROVE  Made(q, p, h, r)
<1> QED BY SMT DEF Reader, Made

\* readline has its line: the banner is through.
LEMMA FlowOfBanner ==
  ASSUME NEW rd \in Reader, NEW s \in Seq(Packet), NEW n \in Nat, NEW w \in Seq(Units), NEW o \in Seq(Units),
         Flows(rd, s, w, o, n), rd.phase = "banner", NEW i \in 1 .. Len(w),
         NEW buf, buf = rd.remainder \o SubSeq(w, 1, i), Len(buf) >= BannerLength,
         NEW q, q = [ phase |-> "loop", has |-> <<>>, want |-> 0,
                      remainder |-> SubSeq(buf, BannerLength + 1, Len(buf)) ],
         NEW x, x = SubSeq(w, i + 1, Len(w))
  PROVE  InFlow(q, "loop", s, x, o, n)
<1>1. PICK r \in Seq(Units) : r = rd.remainder
  BY DEF Reader
<1>2. buf \in Seq(Units) /\ x \in Seq(Units) /\ buf \o (x \o o) = r \o (w \o o)
  <2>1. /\ r \o SubSeq(w, 1, i) \in Seq(Units) /\ SubSeq(w, i + 1, Len(w)) \in Seq(Units)
        /\ (r \o SubSeq(w, 1, i)) \o (SubSeq(w, i + 1, Len(w)) \o o) = r \o (w \o o)
    BY UnitsRead, Zenon
  <2> QED BY <1>1, <2>1, Zenon
<1>3. BannerLength \in 1 .. Len(buf)
  <2>1. PICK m \in Nat : m = Len(buf)
    BY <1>2, LenProperties
  <2>2. m >= 2
    BY <2>1 DEF BannerLength
  <2>3. 2 \in 1 .. m
    BY <2>2, SMT
  <2> QED BY <2>1, <2>3 DEF BannerLength
<1>4. PICK P \in Seq(Units), R \in Seq(Units) :
        P = SubSeq(buf, 1, BannerLength) /\ R = SubSeq(buf, BannerLength + 1, Len(buf))
  BY <1>2, <1>3, UnitsSplit
<1>5. P \o R = buf /\ Len(P) = BannerLength
  BY <1>2, <1>3, <1>4, UnitsSplit
<1>6. PICK X \in Seq(Units) : X = x \o o
  BY <1>2, UnitsConcat
<1>7. PICK G \in Seq(Units) : G = R \o X
  BY UnitsConcat
<1>8. q \in Reader /\ q.phase = "loop" /\ q.has = <<>> /\ q.remainder = R
  <2>1. PICK e \in Seq(Units) : e = <<>>
    BY UnitsExist
  <2>2. PICK p \in Phases : p = "loop"
    BY DEF Phases
  <2>3. q = [phase |-> p, has |-> e, want |-> 0, remainder |-> R]
    BY <1>4, <2>1, <2>2, Zenon
  <2>4. q \in Reader /\ q.phase = p /\ q.has = e /\ q.remainder = R
    <3>1. Made(q, p, e, R)
      BY <2>3, ReaderMade, Zenon
    <3> QED BY <3>1 DEF Made
  <2> QED BY <2>1, <2>2, <2>4
<1>9. FlowOf(q, x, o, n + 1) = G
  <2>1. <<>> \o G = G
    BY UnitsFirst
  <2>2. HeaderTaken(q.phase, n + 1) = <<>>
    BY <1>8 DEF HeaderTaken
  <2> QED BY <1>6, <1>7, <1>8, <2>1, <2>2 DEF FlowOf
<1>10. rd.has = <<>> /\ n = 0 /\ Cut(FlowOf(rd, w, o, n + 1), 0, Len(s), Sizes(s))
  BY DEF Flows, Reading
<1>11. FlowOf(rd, w, o, n + 1) = P \o G
  <2>1. PICK z \in Seq(Units) : z = r \o (w \o o)
    BY <1>2, <1>6, UnitsConcat
  <2>2. <<>> \o z = z
    BY UnitsFirst
  <2>3. HeaderTaken(rd.phase, n + 1) = <<>>
    BY DEF HeaderTaken
  <2>4. FlowOf(rd, w, o, n + 1) = z
    BY <1>1, <1>10, <2>1, <2>2, <2>3 DEF FlowOf
  <2>5. (P \o R) \o X = P \o (R \o X)
    <3>1. Associate(P, R, X)
      BY UnitsThree
    <3> QED BY <3>1 DEF Associate
  <2> QED BY <1>2, <1>5, <1>6, <1>7, <2>1, <2>4, <2>5, Zenon
<1>12. Cut(G, 0 + 1, Len(s), Sizes(s))
  <2>1. PICK N \in Nat : N = Len(s)
    BY LenProperties
  <2>2. PICK size \in [0 .. N -> Nat] : size = Sizes(s)
    BY <2>1, SizesTyped
  <2>3. size[0] = BannerLength /\ 0 <= N /\ 0 \in Nat
    BY <2>1, <2>2, SizesTyped
  <2>4. Cut(P \o G, 0, N, size)
    BY <1>10, <1>11, <2>1, <2>2
  <2>5. Cut(G, 0 + 1, N, size)
    BY <1>5, <2>3, <2>4, CutRest
  <2> QED BY <2>1, <2>2, <2>5
<1>13. Flows(q, s, x, o, n)
  <2>1. n + 1 = 0 + 1 /\ q.phase # "banner" /\ q.phase # "header" /\ q.phase # "body"
    BY <1>8, <1>10
  <2>2. Cut(FlowOf(q, x, o, n + 1), n + 1, Len(s), Sizes(s))
    BY <1>9, <1>12, <2>1
  <2>3. Reading(q, s, n)
    BY <1>8, <2>1 DEF Reading
  <2> QED BY <2>1, <2>2, <2>3 DEF Flows
<1> QED BY <1>2, <1>8, <1>13 DEF InFlow

\* The next packet is at the head of what the reader has and what follows.
Ahead(H, X, s, n) ==
  n + 1 \in 1 .. Len(s) /\ \A v \in 1 .. Length(s[n + 1]) : (H \o X)[v] = <<n + 1, v>>

\* What the reader has of a packet is that packet.
LEMMA PacketAhead ==
  ASSUME NEW H \in Seq(Units), NEW X \in Seq(Units), NEW s \in Seq(Packet), NEW n \in Nat,
         n <= Len(s), Cut(H \o X, n + 1, Len(s), Sizes(s)), Len(H) > 0
  PROVE  Ahead(H, X, s, n)
<1>1. PICK N \in Nat : N = Len(s)
  BY LenProperties
<1>2. PICK F \in Seq(Units) : F = H \o X
  BY UnitsConcat
<1>3. PICK h \in Nat, g \in Nat : h = Len(H) /\ g = Len(X)
  BY LenProperties
<1>4. Len(F) = h + g /\ h > 0
  BY <1>2, <1>3, UnitsConcat
<1>5. PICK size \in [0 .. N -> Nat] : size = Sizes(s)
  BY <1>1, SizesTyped
<1>6. Cut(F, n + 1, N, size)
  BY <1>1, <1>2, <1>5
<1>7. n # N
  <2> SUFFICES ASSUME n = N PROVE FALSE
    OBVIOUS
  <2>1. Cut(F, N + 1, N, size)
    BY <1>6
  <2>2. Len(F) = 0
    BY <2>1, CutEmpty
  <2>3. h + g # 0
    BY <1>4, SMT
  <2> QED BY <1>4, <2>2, <2>3, Zenon
<1>8. n + 1 \in 1 .. N /\ n + 1 \in Nat /\ n + 1 <= N
  BY <1>1, <1>7, SMT
<1>9. PICK K \in Nat : K = n + 1
  BY <1>8
<1>10. \A v \in 1 .. size[K] : F[v] = <<K, v>>
  <2>1. Cut(F, K, N, size) /\ K <= N /\ Len(F) \in Nat
    BY <1>4, <1>6, <1>8, <1>9
  <2> QED BY <2>1, CutFront
<1>11. size[K] = Length(s[K])
  BY <1>1, <1>5, <1>8, <1>9, SizesTyped
<1> QED BY <1>1, <1>2, <1>8, <1>9, <1>10, <1>11 DEF Ahead

\* The units of the packet k from i on
UnitsOf(a, k, i) == a = [j \in 1 .. Len(a) |-> <<k, i + j - 1>>]

\* A sequence of units that is known unit by unit
LEMMA UnitsGiven ==
  ASSUME NEW a \in Seq(Units), NEW k \in Nat, NEW i \in Nat,
         \A j \in 1 .. Len(a) : a[j] = <<k, i + j - 1>>
  PROVE  UnitsOf(a, k, i)
<1>1. PICK m \in Nat : m = Len(a)
  BY LenProperties
<1>2. a = [j \in 1 .. m |-> a[j]]
  BY <1>1, LenProperties
<1> QED BY <1>1, <1>2 DEF UnitsOf

\* The same, and what it wants
MadeFor(q, p, h, r, m) == Made(q, p, h, r) /\ q.want = m

\* The reader in another phase
LEMMA ReaderMoves ==
  ASSUME NEW rd \in Reader, NEW p \in Phases, NEW m \in Nat, NEW h \in Seq(Units),
         NEW q, q = [rd EXCEPT !.phase = p, !.has = h, !.want = m]
  PROVE  MadeFor(q, p, h, rd.remainder, m)
<1>1. q \in Reader
  BY DEF Reader
<1>2. q.phase = p /\ q.has = h /\ q.remainder = rd.remainder /\ q.want = m
  BY DEF Reader
<1> QED BY <1>1, <1>2 DEF Made, MadeFor

\* The header that the reader has is that of the next packet, which it leaves
\* for the body.
LEMMA FlowOfHeader ==
  ASSUME NEW rd \in Reader, NEW s \in Seq(Packet), NEW n \in Nat, n <= Len(s),
         NEW w \in Seq(Units), NEW o \in Seq(Units),
         Flows(rd, s, w, o, n), rd.phase = "header", Len(rd.has) = rd.want,
         NEW q, q = [rd EXCEPT !.phase = "body", !.has = <<>>, !.want = Length(s[n + 1]) - HeaderLength]
  PROVE  /\ n + 1 \in 1 .. Len(s)
         /\ rd.has[1][1] = n + 1
         /\ rd.has = [j \in 1 .. Len(rd.has) |-> <<n + 1, 1 + j - 1>>]
         /\ InFlow(q, "body", s, w, o, n)
<1>1. PICK h \in Seq(Units), r \in Seq(Units) : h = rd.has /\ r = rd.remainder
  BY DEF Reader
<1>2. PICK Y \in Seq(Units) : Y = r \o (w \o o)
  <2>1. PICK X \in Seq(Units) : X = w \o o
    BY UnitsConcat
  <2> QED BY <2>1, UnitsConcat
<1>3. Reading(rd, s, n) /\ Cut(FlowOf(rd, w, o, n + 1), n + 1, Len(s), Sizes(s))
  BY DEF Flows
<1>4. Len(h) = 2
  BY <1>1, <1>3 DEF Reading, HeaderLength
<1>5. FlowOf(rd, w, o, n + 1) = h \o Y
  <2>1. PICK z \in Seq(Units) : z = h \o Y
    BY UnitsConcat
  <2>2. <<>> \o z = z
    BY UnitsFirst
  <2>3. HeaderTaken(rd.phase, n + 1) = <<>>
    BY DEF HeaderTaken
  <2> QED BY <1>1, <1>2, <2>1, <2>2, <2>3 DEF FlowOf
<1>6. n + 1 \in 1 .. Len(s) /\ \A v \in 1 .. Length(s[n + 1]) : (h \o Y)[v] = <<n + 1, v>>
  <2>1. Cut(h \o Y, n + 1, Len(s), Sizes(s))
    BY <1>3, <1>5
  <2>2. Len(h) > 0
    BY <1>4, SMT
  <2>3. Ahead(h, Y, s, n)
    BY <2>1, <2>2, PacketAhead, Zenon
  <2> QED BY <2>3 DEF Ahead
<1>7. PICK k \in Nat : k = n + 1
  BY SMT
<1>8. PICK l \in Nat : l = Length(s[k]) /\ l >= 2
  BY <1>6, <1>7, SizesTyped DEF HeaderLength
<1>9. \A j \in 1 .. 2 : h[j] = <<k, j>>
  <2>1. \A j \in 1 .. 2 : j \in 1 .. l
    BY <1>8, SMT
  <2>2. \A j \in 1 .. 2 : (h \o Y)[j] = h[j]
    <3>1. Joined(h, Y)
      BY UnitsJoined
    <3> QED BY <1>4, <3>1, Zenon DEF Joined
  <2> QED BY <1>6, <1>7, <1>8, <2>1, <2>2
<1>10. h = [j \in 1 .. Len(h) |-> <<k, 1 + j - 1>>]
  <2>1. \A j \in 1 .. 2 : 1 + j - 1 = j
    BY SMT
  <2>2. PICK i \in Nat : i = 1
    BY SMT
  <2>3. \A j \in 1 .. Len(h) : h[j] = <<k, i + j - 1>>
    BY <1>4, <1>9, <2>1, <2>2
  <2>4. UnitsOf(h, k, i)
    BY <2>3, UnitsGiven
  <2> QED BY <2>2, <2>4 DEF UnitsOf
<1>11. h[1][1] = k
  <2>1. h[1] = <<k, 1>>
    BY <1>9, SMT
  <2> QED BY <2>1
<1>12. PICK m \in Nat : m = Length(s[k]) - HeaderLength
  <2>1. l - 2 \in Nat
    BY <1>8, SMT
  <2> QED BY <1>8, <2>1 DEF HeaderLength
<1>13. Made(q, "body", <<>>, r) /\ q.want = m
  <2>1. PICK e \in Seq(Units) : e = <<>>
    BY UnitsExist
  <2>2. PICK p \in Phases : p = "body"
    BY DEF Phases
  <2>3. q = [rd EXCEPT !.phase = p, !.has = e, !.want = m]
    BY <1>7, <1>12, <2>1, <2>2, Zenon
  <2>4. MadeFor(q, p, e, rd.remainder, m)
    BY <2>3, ReaderMoves, Zenon
  <2> QED BY <1>1, <2>1, <2>2, <2>4, Zenon DEF MadeFor
<1>14. q \in Reader /\ q.phase = "body" /\ q.has = <<>> /\ q.remainder = r
  BY <1>13 DEF Made
<1>15. FlowOf(q, w, o, n + 1) = h \o Y
  <2>1. HeaderTaken(q.phase, k) = h
    <3>1. h = [j \in 1 .. 2 |-> h[j]]
      BY <1>4, LenProperties
    <3>2. h = [j \in 1 .. 2 |-> <<k, j>>]
      BY <1>9, <3>1, Zenon
    <3> QED BY <1>14, <3>2 DEF HeaderTaken, HeaderLength
  <2>2. <<>> \o Y = Y
    BY UnitsFirst
  <2> QED BY <1>2, <1>7, <1>14, <2>1, <2>2, Zenon DEF FlowOf
<1>16. Reading(q, s, n)
  <2>1. n < Len(s)
    BY <1>6, SMT
  <2> QED BY <1>7, <1>12, <1>13, <1>14, <2>1 DEF Reading
<1>17. Flows(q, s, w, o, n)
  <2>1. Cut(FlowOf(q, w, o, n + 1), n + 1, Len(s), Sizes(s))
    BY <1>3, <1>5, <1>15
  <2> QED BY <1>14, <1>16, <2>1 DEF Flows
<1> QED BY <1>1, <1>6, <1>7, <1>10, <1>11, <1>14, <1>17 DEF InFlow

\* Where the units of a body of a packet of a units are
LEMMA BodyCount ==
  ASSUME NEW a \in Nat, NEW i \in 1 .. a - 2
  PROVE  2 + i \in 1 .. a /\ (2 + 1) + i - 1 = 2 + i
<1> QED BY SMT

\* So is the body; with it the packet is through.
LEMMA FlowOfBody ==
  ASSUME NEW rd \in Reader, NEW s \in Seq(Packet), NEW n \in Nat,
         NEW w \in Seq(Units), NEW o \in Seq(Units),
         Flows(rd, s, w, o, n), rd.phase = "body", Len(rd.has) = rd.want,
         NEW q, q = [rd EXCEPT !.phase = "loop", !.has = <<>>]
  PROVE  /\ n + 1 \in 1 .. Len(s)
         /\ rd.has = [j \in 1 .. Len(rd.has) |-> <<n + 1, (HeaderLength + 1) + j - 1>>]
         /\ InFlow(q, "loop", s, w, o, n + 1)
<1>1. PICK h \in Seq(Units), r \in Seq(Units) : h = rd.has /\ r = rd.remainder
  BY DEF Reader
<1>2. PICK Y \in Seq(Units) : Y = r \o (w \o o)
  <2>1. PICK X \in Seq(Units) : X = w \o o
    BY UnitsConcat
  <2> QED BY <2>1, UnitsConcat
<1>3. Reading(rd, s, n) /\ Cut(FlowOf(rd, w, o, n + 1), n + 1, Len(s), Sizes(s))
  BY DEF Flows
<1>4. PICK N \in Nat : N = Len(s)
  BY LenProperties
<1>5. n < N /\ rd.want = Length(s[n + 1]) - HeaderLength
  BY <1>3, <1>4 DEF Reading
<1>6. n + 1 \in 1 .. N /\ n + 1 \in Nat /\ n + 1 <= N
  BY <1>5, SMT
<1>7. PICK k \in Nat : k = n + 1
  BY <1>6
<1>8. PICK l \in Nat : l = Length(s[k]) /\ l >= 2
  BY <1>4, <1>6, <1>7, SizesTyped DEF HeaderLength
<1>9. Len(h) = l - 2
  BY <1>1, <1>5, <1>7, <1>8 DEF HeaderLength
<1>10. PICK T \in Seq(Units) : T = HeaderTaken("body", k) /\ Len(T) = 2
  <2>1. \A i \in 1 .. 2 : <<k, i>> \in Units
    BY DEF Units
  <2>2. PICK T : T = [i \in 1 .. 2 |-> <<k, i>>]
    OBVIOUS
  <2>3. T \in [1 .. 2 -> Units]
    BY <2>1, <2>2
  <2>4. T \in Seq(Units) /\ Len(T) = 2
    <3>1. PICK m \in Nat : m = 2
      OBVIOUS
    <3>2. T \in [1 .. m -> Units]
      BY <2>3, <3>1
    <3> QED BY <3>1, <3>2, UnitsListed
  <2>5. HeaderTaken("body", k) = T
    BY <2>2 DEF HeaderTaken, HeaderLength
  <2> QED BY <2>4, <2>5
<1>11. PICK P \in Seq(Units) : P = T \o h
  BY UnitsConcat
<1>12. FlowOf(rd, w, o, n + 1) = P \o Y
  <2>1. Associate(T, h, Y)
    BY UnitsThree
  <2>2. FlowOf(rd, w, o, n + 1) = T \o (h \o Y)
    BY <1>1, <1>2, <1>7, <1>10 DEF FlowOf
  <2> QED BY <1>11, <2>1, <2>2 DEF Associate
<1>13. PICK size \in [0 .. N -> Nat] : size = Sizes(s)
  BY <1>4, SizesTyped
<1>14. size[k] = l
  BY <1>4, <1>6, <1>7, <1>8, <1>13, SizesTyped
<1>15. Len(P) = l
  <2>1. Len(P) = 2 + Len(h)
    <3>1. Joined(T, h)
      BY UnitsJoined
    <3> QED BY <1>10, <1>11, <3>1, Zenon DEF Joined
  <2>2. 2 + (l - 2) = l
    BY SMT
  <2> QED BY <1>9, <2>1, <2>2
<1>16. Cut(P \o Y, k, N, size) /\ k <= N
  BY <1>3, <1>4, <1>6, <1>7, <1>12, <1>13
<1>17. Cut(Y, k + 1, N, size)
  BY <1>14, <1>15, <1>16, CutRest
<1>18. ASSUME NEW j \in 1 .. Len(h) PROVE h[j] = <<k, (HeaderLength + 1) + j - 1>>
  <2>1. PICK F \in Seq(Units) : F = P \o Y
    BY UnitsConcat
  <2>2. Len(F) \in Nat /\ Cut(F, k, N, size)
    BY <1>16, <2>1, LenProperties
  <2>3. \A v \in 1 .. l : F[v] = <<k, v>>
    BY <1>14, <1>16, <2>2, CutFront
  <2>4. 2 + j \in 1 .. l /\ (2 + 1) + j - 1 = 2 + j
    <3>1. j \in 1 .. l - 2
      BY <1>9
    <3> QED BY <3>1, BodyCount, Zenon
  <2>5. (P \o Y)[2 + j] = P[2 + j]
    BY <1>15, <2>4, UnitsJoined DEF Joined
  <2>6. P[2 + j] = h[j]
    <3>1. (T \o h)[Len(T) + j] = h[j]
      BY UnitsJoined DEF Joined
    <3> QED BY <1>10, <1>11, <3>1
  <2> QED BY <2>1, <2>3, <2>4, <2>5, <2>6 DEF HeaderLength
<1>19. h = [j \in 1 .. Len(h) |-> <<k, (HeaderLength + 1) + j - 1>>]
  <2>1. PICK i \in Nat : i = HeaderLength + 1
    BY SMT DEF HeaderLength
  <2>2. \A j \in 1 .. Len(h) : h[j] = <<k, i + j - 1>>
    BY <1>18, <2>1
  <2>3. UnitsOf(h, k, i)
    BY <2>2, UnitsGiven
  <2> QED BY <2>1, <2>3 DEF UnitsOf
<1>20. q \in Reader /\ q.phase = "loop" /\ q.has = <<>> /\ q.remainder = r
  <2>1. PICK e \in Seq(Units) : e = <<>>
    BY UnitsExist
  <2>2. PICK p \in Phases : p = "loop"
    BY DEF Phases
  <2>3. PICK m \in Nat : m = rd.want
    BY DEF Reader
  <2>4. q = [rd EXCEPT !.phase = p, !.has = e, !.want = m]
    BY <2>1, <2>2, <2>3 DEF Reader
  <2>5. MadeFor(q, p, e, rd.remainder, m)
    BY <2>4, ReaderMoves, Zenon
  <2> QED BY <1>1, <2>1, <2>2, <2>5 DEF Made, MadeFor
<1>21. FlowOf(q, w, o, k + 1) = Y
  <2>1. <<>> \o Y = Y
    BY UnitsFirst
  <2>2. HeaderTaken(q.phase, k + 1) = <<>>
    BY <1>20 DEF HeaderTaken
  <2> QED BY <1>2, <1>20, <2>1, <2>2, Zenon DEF FlowOf
<1>22. Flows(q, s, w, o, k)
  <2>1. Reading(q, s, k)
    BY <1>20 DEF Reading
  <2>2. Cut(FlowOf(q, w, o, k + 1), k + 1, Len(s), Sizes(s))
    BY <1>4, <1>13, <1>17, <1>21
  <2> QED BY <1>20, <2>1, <2>2 DEF Flows
<1> QED BY <1>1, <1>4, <1>6, <1>7, <1>19, <1>20, <1>22 DEF InFlow

-----------------------------------------------------------------------------
(* What B makes of its packets *)

\* The packets that B has read are chained, and the next one fits them.
LEMMA PrefixFits ==
  ASSUME NEW s \in Seq(Packet), NEW r \in Seq(Packet), Chained(s), Prefix(r, s)
  PROVE  Chained(r) /\ (Len(r) + 1 \in 1 .. Len(s) => Fits(r, s[Len(r) + 1]))
<1>1. PICK m \in Nat, n \in Nat : m = Len(r) /\ n = Len(s)
  BY LenProperties
<1>2. m <= n /\ \A k \in 1 .. m : r[k] = s[k]
  BY <1>1 DEF Prefix
<1>3. ASSUME NEW k \in 1 .. m + 1
      PROVE  EpochAt(r, k) = EpochAt(s, k) /\ SeqAt(r, k) = SeqAt(s, k) /\ (NewAt(r, k) <=> NewAt(s, k))
  <2>1. CASE k = 1
    BY <2>1 DEF EpochAt, SeqAt, NewAt
  <2>2. CASE k # 1
    <3>1. k - 1 \in 1 .. m
      BY <2>2, SMT
    <3>2. r[k - 1] = s[k - 1]
      BY <1>2, <3>1
    <3> QED BY <2>2, <3>2 DEF EpochAt, SeqAt, NewAt
  <2> QED BY <2>1, <2>2
<1>4. ASSUME NEW k \in 1 .. m
      PROVE  r[k].epoch = EpochAt(r, k) /\ r[k].seq = SeqAt(r, k) /\ (r[k].kind = "newkeys" <=> NewAt(r, k))
  <2>1. k \in 1 .. n /\ k \in 1 .. m + 1
    BY <1>2, SMT
  <2>2. s[k].epoch = EpochAt(s, k) /\ s[k].seq = SeqAt(s, k) /\ (s[k].kind = "newkeys" <=> NewAt(s, k))
    BY <1>1, <2>1 DEF Chained
  <2> QED BY <1>2, <1>3, <2>1, <2>2
<1>5. Chained(r)
  BY <1>1, <1>4 DEF Chained
<1>6. ASSUME m + 1 \in 1 .. n PROVE Fits(r, s[m + 1])
  <2>1. /\ s[m + 1].epoch = EpochAt(s, m + 1) /\ s[m + 1].seq = SeqAt(s, m + 1)
        /\ s[m + 1].kind = "newkeys" <=> NewAt(s, m + 1)
    BY <1>1, <1>6 DEF Chained
  <2>2. m + 1 \in 1 .. m + 1
    BY SMT
  <2> QED BY <1>1, <1>3, <2>1, <2>2 DEF Fits
<1> QED BY <1>1, <1>5, <1>6

\* The end c is in its exchange where e is.
SameExchange(c, e) ==
  /\ c \in End /\ c.kex = e.kex /\ c.epochIn = e.epochIn /\ c.epochOut = e.epochOut
  /\ c.inKex = e.inKex /\ c.initCount = e.initCount

\* The counts of read_message leave the exchange alone, and too many packets are
\* found only by an end that had asked for new keys before.
LEMMA CountedKeeps ==
  ASSUME NEW e \in End, NEW c, c = Counted(e)
  PROVE  /\ SameExchange(c, e) /\ c.seq = e.seq
         /\ c.need /\ c.overflow >= OverflowMax => e.need
<1>1. PICK n \in Nat : n = e.receivedPackets + 1
  BY SMT DEF End
<1>2. CASE e.need
  <2>1. PICK v \in Nat : v = e.overflow + 1
    BY SMT DEF End
  <2>2. c = [e EXCEPT !.receivedPackets = n, !.overflow = v]
    BY <1>1, <1>2, <2>1, Zenon DEF Counted
  <2>3. c \in End
    BY <2>2 DEF End
  <2>4. c.kex = e.kex /\ c.epochIn = e.epochIn /\ c.epochOut = e.epochOut /\ c.seq = e.seq
    BY <2>2 DEF End
  <2>5. c.inKex = e.inKex /\ c.initCount = e.initCount
    BY <2>2 DEF End
  <2> QED BY <1>2, <2>3, <2>4, <2>5 DEF SameExchange
<1>3. CASE ~e.need
  <2>1. PICK v \in Nat : v = IF n >= RekeyPackets THEN 0 ELSE e.overflow
    BY SMT DEF End
  <2>2. PICK b \in BOOLEAN : b = (n >= RekeyPackets)
    <3>1. (n >= RekeyPackets) \in BOOLEAN
      BY SMT
    <3> QED BY <3>1, Zenon
  <2>3. c = [e EXCEPT !.receivedPackets = n, !.need = b, !.overflow = v]
    BY <1>1, <1>3, <2>1, <2>2, Zenon DEF Counted
  <2>4. c \in End
    BY <2>3 DEF End
  <2>5. c.kex = e.kex /\ c.epochIn = e.epochIn /\ c.epochOut = e.epochOut /\ c.seq = e.seq
    BY <2>3 DEF End
  <2>6. c.inKex = e.inKex /\ c.initCount = e.initCount
    BY <2>3 DEF End
  <2>7. c.need = b /\ c.overflow = v
    BY <2>3 DEF End
  <2>8. ~(c.need /\ c.overflow >= OverflowMax)
    <3>1. OverflowMax \in Nat \ {0}
      BY PacketAssumption
    <3>2. b => v = 0
      BY <2>1, <2>2
    <3>3. ~(0 >= OverflowMax)
      BY <3>1, SMT
    <3> QED BY <2>7, <3>2, <3>3
  <2> QED BY <2>4, <2>5, <2>6, <2>8 DEF SameExchange
<1> QED BY <1>2, <1>3

\* What run makes of the packet p that comes after the packets r
LEMMA HandledKeeps ==
  ASSUME NEW r \in Seq(Packet), NEW p \in Packet, Fits(r, p),
         NEW t, Requires(t, p),
         NEW e \in End, ExchangeOfB(r, e), Answered(e),
         NEW c, SameExchange(c, e), c.seq = (p.seq + 1) % SeqModulus,
         NEW h, h = Handled(c, p.kind)
  PROVE  h \in End /\ ExchangeOfB(t, h)
<1>1. c \in End /\ p.epoch = e.epochIn /\ p.epoch \in Nat /\ p.kind \in Kinds
  BY DEF SameExchange, Fits, ExchangeOfB, Packet
<1>2. CASE p.kind = "data"
  <2>1. h = c
    BY <1>2 DEF Handled
  <2>2. "gotInit" \notin e.kex
    BY <1>2 DEF Fits, ExchangeOfB
  <2>3. EpochAt(t, Len(t) + 1) = p.epoch + 0 /\ ~NewAt(t, Len(t) + 1)
    BY <1>2 DEF Requires
  <2>4. p.epoch + 0 = p.epoch
    BY <1>1, SMT
  <2>5. c.epochIn = EpochAt(t, Len(t) + 1) /\ c.seq = SeqAt(t, Len(t) + 1)
    BY <1>1, <2>3, <2>4 DEF SameExchange, Requires
  <2> QED BY <1>1, <2>1, <2>2, <2>3, <2>5 DEF ExchangeOfB, SameExchange
<1>3. CASE p.kind = "kexinit"
  <2>1. h = [c EXCEPT !.kex = @ \cup {"gotInit"}]
    BY <1>3 DEF Handled
  <2>2. h \in End /\ h.kex = c.kex \cup {"gotInit"}
    BY <1>1, <2>1 DEF End, Marks
  <2>3. h.epochIn = c.epochIn /\ h.seq = c.seq /\ h.inKex = c.inKex /\ h.initCount = c.initCount
    BY <1>1, <2>1 DEF End
  <2>4. EpochAt(t, Len(t) + 1) = p.epoch + 0 /\ NewAt(t, Len(t) + 1)
    BY <1>3 DEF Requires
  <2>5. p.epoch + 0 = p.epoch
    BY <1>1, SMT
  <2>6. h.epochIn = EpochAt(t, Len(t) + 1) /\ h.seq = SeqAt(t, Len(t) + 1)
    BY <1>1, <2>3, <2>4, <2>5 DEF SameExchange, Requires
  <2>7. h.kex = e.kex \cup {"gotInit"} /\ h.inKex = e.inKex /\ h.initCount = e.initCount
    BY <2>2, <2>3 DEF SameExchange
  <2> QED BY <2>2, <2>4, <2>6, <2>7 DEF ExchangeOfB
<1>4. CASE p.kind = "newkeys"
  <2>1. h = NewKeysParsed(c)
    BY <1>4 DEF Handled
  <2>2. "gotInit" \in e.kex
    BY <1>4 DEF Fits, ExchangeOfB
  <2>3. e.initCount = 1
    BY <2>2 DEF Answered, ExchangeOfB
  <2>4. c.initCount = 1
    BY <2>3 DEF SameExchange
  <2>5. h \in End /\ h.epochIn = c.epochIn + 1 /\ h.seq = c.seq /\ h.kex = {}
    BY <1>1, <2>1, NewKeysEndIt
  <2>6. h.initCount = 0 /\ ~h.inKex
    BY <1>1, <2>1, <2>4, NewKeysEndIt
  <2>7. EpochAt(t, Len(t) + 1) = p.epoch + 1 /\ ~NewAt(t, Len(t) + 1)
    BY <1>4 DEF Requires
  <2>8. h.epochIn = EpochAt(t, Len(t) + 1) /\ h.seq = SeqAt(t, Len(t) + 1)
    BY <1>1, <2>5, <2>7 DEF SameExchange, Requires
  <2> QED BY <2>5, <2>6, <2>7, <2>8 DEF ExchangeOfB
<1> QED BY <1>1, <1>2, <1>3, <1>4 DEF Kinds

\* After its loop B has answered what it has to.
LEMMA LoopKeeps ==
  ASSUME NEW r, endB \in End, ExchangeOfB(r, endB), Loop
  PROVE  endB' \in End /\ ExchangeOfB(r, endB') /\ Answered(endB')
<1> DEFINE init == \/ endB.need /\ ~endB.inKex
                   \/ "sentInit" \notin endB.kex /\ ("gotInit" \in endB.kex \/ endB.epochOut = 0)
           e == IF init THEN [endB EXCEPT !.inKex = TRUE, !.clear = FALSE, !.kex = @ \cup {"sentInit"}]
                ELSE endB
           begun == {"sentInit", "gotInit"} \subseteq e.kex /\ "sentNew" \notin e.kex
           f == SetOutboundCipher(e)
<1>1. endB' = IF begun THEN [f EXCEPT !.kex = @ \cup {"sentNew", "activeOut"}, !.inKex = @ /\ f.need]
              ELSE e
  BY DEF Loop
<1>2. PICK d : d = e
  OBVIOUS
<1>3. PICK b \in End : b = endB
  OBVIOUS
<1>4. /\ d \in End /\ d.seq = b.seq /\ d.epochIn = b.epochIn /\ d.initCount = b.initCount
      /\ d.need = b.need
      /\ d.kex = b.kex \cup (IF init THEN {"sentInit"} ELSE {})
      /\ d.inKex => "sentInit" \in d.kex
  <2>1. CASE init
    <3>1. d = [b EXCEPT !.inKex = TRUE, !.clear = FALSE, !.kex = @ \cup {"sentInit"}]
      BY <1>2, <1>3, <2>1, Zenon
    <3> HIDE DEF init, e, begun, f
    <3>2. d \in End /\ d.need = b.need
      BY <3>1 DEF End, Marks
    <3>3. d.seq = b.seq /\ d.epochIn = b.epochIn /\ d.initCount = b.initCount
          /\ d.kex = b.kex \cup {"sentInit"}
      BY <3>1 DEF End
    <3> QED BY <2>1, <3>2, <3>3
  <2>2. CASE ~init
    <3>1. d = b
      BY <1>2, <1>3, <2>2, Zenon
    <3> HIDE DEF init, e, begun, f
    <3>2. b.kex = b.kex \cup {}
      OBVIOUS
    <3>3. b.inKex => "sentInit" \in b.kex
      BY <1>3 DEF ExchangeOfB
    <3> QED BY <2>2, <3>1, <3>2, <3>3
  <2> QED BY <2>1, <2>2
<1>5. ("gotInit" \in d.kex => "sentInit" \in d.kex) /\ (d.need => "sentInit" \in d.kex)
  <2>1. CASE init
    <3> HIDE DEF init, e, begun, f
    <3> QED BY <1>4, <2>1
  <2>2. CASE ~init
    <3>1. (b.need => b.inKex) /\ ("gotInit" \in b.kex => "sentInit" \in b.kex)
      BY <1>3, <2>2
    <3>2. b.inKex => "sentInit" \in b.kex
      BY <1>3 DEF ExchangeOfB
    <3> HIDE DEF init, e, begun, f
    <3> QED BY <1>4, <2>2, <3>1, <3>2
  <2> QED BY <2>1, <2>2
<1>6. /\ begun <=> {"sentInit", "gotInit"} \subseteq d.kex /\ "sentNew" \notin d.kex
      /\ f = SetOutboundCipher(d)
  BY <1>2, Zenon
<1>7. PICK g : g = endB'
  OBVIOUS
<1> HIDE DEF init, e, f
<1>8. /\ "gotInit" \in d.kex <=> NewAt(r, Len(r) + 1)
      /\ "sentNew" \in d.kex <=> "activeOut" \in d.kex
      /\ "sentNew" \in d.kex => "sentInit" \in d.kex
      /\ d.initCount = IF "activeOut" \in d.kex THEN 1 ELSE 0
      /\ d.seq = SeqAt(r, Len(r) + 1) /\ d.epochIn = EpochAt(r, Len(r) + 1)
  BY <1>3, <1>4 DEF ExchangeOfB
<1>9. CASE begun
  <2>1. g = [f EXCEPT !.kex = @ \cup {"sentNew", "activeOut"}, !.inKex = @ /\ f.need]
    BY <1>1, <1>7, <1>9
  <2>2. /\ "sentInit" \in d.kex /\ "gotInit" \in d.kex /\ "sentNew" \notin d.kex
        /\ "activeOut" \notin d.kex /\ d.initCount = 0
    BY <1>6, <1>8, <1>9
  <2> HIDE DEF begun
  <2>3. PICK q : q = SetOutboundCipher(d)
    OBVIOUS
  <2>4. /\ q \in End /\ q.epochIn = d.epochIn /\ q.seq = d.seq /\ q.kex = d.kex
        /\ q.initCount = 1
    BY <1>4, <2>2, <2>3, CipherOut
  <2>5. PICK v \in BOOLEAN : v = (q.inKex /\ q.need)
    <3>1. (q.inKex /\ q.need) \in BOOLEAN
      BY SMT
    <3> QED BY <3>1, Zenon
  <2>6. g = [q EXCEPT !.kex = @ \cup {"sentNew", "activeOut"}, !.inKex = v]
    BY <1>6, <2>1, <2>3, <2>5, Zenon
  <2>7. g \in End /\ g.kex = q.kex \cup {"sentNew", "activeOut"}
    BY <2>4, <2>6 DEF End, Marks
  <2>8. g.epochIn = q.epochIn /\ g.seq = q.seq /\ g.initCount = q.initCount
    BY <2>4, <2>6 DEF End
  <2>9. ExchangeOfB(r, g) /\ Answered(g)
    BY <1>8, <2>2, <2>4, <2>7, <2>8 DEF ExchangeOfB, Answered
  <2> QED BY <1>7, <2>7, <2>9
<1>10. CASE ~begun
  <2>1. g = d
    BY <1>1, <1>2, <1>7, <1>10
  <2>2. "gotInit" \in d.kex => "activeOut" \in d.kex
    BY <1>5, <1>6, <1>8, <1>10
  <2> HIDE DEF begun
  <2>3. ExchangeOfB(r, d) /\ Answered(d)
    BY <1>4, <1>5, <1>8, <2>2 DEF ExchangeOfB, Answered
  <2> QED BY <1>4, <1>7, <2>1, <2>3
<1> QED BY <1>9, <1>10

-----------------------------------------------------------------------------
(* The inductive invariant *)

\* It holds while A and B have exchanged nothing but the banner.
LEMMA InitHolds == StreamInit => IInv
<1> SUFFICES ASSUME StreamInit PROVE IInv
  OBVIOUS
<1>1. /\ sent = <<>> /\ out = <<>> /\ received = <<>> /\ endA = Fresh /\ endB = Fresh
      /\ wire = [i \in 1 .. BannerLength |-> <<0, i>>]
      /\ reader = [phase |-> "banner", remainder |-> <<>>, has |-> <<>>, want |-> 0]
  BY DEF StreamInit
<1>2. <<>> \in Seq(Packet) /\ <<>> \in Seq(Units) /\ Len(<<>>) = 0
  BY EmptySeq, LenProperties
<1>3. wire \in Seq(Units) /\ Len(wire) = BannerLength /\ wire[1] = <<0, 1>> /\ wire[2] = <<0, 2>>
  <2>1. wire \in [1 .. BannerLength -> Units] /\ BannerLength \in Nat
    BY <1>1, SMT DEF BannerLength, Units
  <2>2. wire \in Seq(Units) /\ Len(wire) = BannerLength
    BY <2>1, UnitsListed
  <2> QED BY <1>1, <2>2 DEF BannerLength
<1>4. Fresh \in End
  BY SMT DEF Fresh, End, NoKex
<1>5. reader \in Reader
  BY <1>1, <1>2 DEF Reader, Phases
<1>6. StreamTypes
  BY <1>1, <1>2, <1>3, <1>4, <1>5 DEF StreamTypes
<1>7. Sender(<<>>, Fresh)
  <2>1. Chained(<<>>)
    BY <1>2, SMT DEF Chained
  <2>2. ~NewAt(<<>>, 1) /\ EpochAt(<<>>, 1) = 0 /\ SeqAt(<<>>, 1) = 0 /\ 0 + 1 = 1
    BY SMT DEF NewAt, EpochAt, SeqAt
  <2>3. /\ Fresh.kex = {} /\ Fresh.seq = 0 /\ Fresh.epochOut = 0 /\ ~Fresh.clear
    BY DEF Fresh, NoKex
  <2> QED BY <1>2, <2>1, <2>2, <2>3 DEF Sender, ExchangeOfA, Switching
<1>8. ExchangeOfB(<<>>, Fresh)
  <2>2. ~NewAt(<<>>, 1) /\ EpochAt(<<>>, 1) = 0 /\ SeqAt(<<>>, 1) = 0 /\ 0 + 1 = 1
    BY SMT DEF NewAt, EpochAt, SeqAt
  <2>3. /\ Fresh.kex = {} /\ Fresh.seq = 0 /\ Fresh.epochIn = 0 /\ ~Fresh.inKex /\ Fresh.initCount = 0
    BY DEF Fresh, NoKex
  <2> QED BY <1>2, <2>2, <2>3 DEF ExchangeOfB
<1>9. Receiver(<<>>, Fresh, "banner")
  BY <1>8 DEF Receiver
<1>10. Prefix(<<>>, <<>>)
  BY <1>2, SMT DEF Prefix
<1>11. Flows(reader, <<>>, wire, <<>>, 0)
  <2>1. reader.phase = "banner" /\ reader.has = <<>> /\ reader.remainder = <<>>
    BY <1>1
  <2>2. FlowOf(reader, wire, <<>>, 0 + 1) = wire
    <3>1. HeaderTaken("banner", 0 + 1) = <<>>
      BY DEF HeaderTaken
    <3>2. wire \o <<>> = wire /\ <<>> \o wire = wire
      BY <1>3, ConcatEmptySeq
    <3> QED BY <2>1, <3>1, <3>2, Zenon DEF FlowOf
  <2>3. Cut(wire, 0, 0, Sizes(<<>>))
    <3> DEFINE at == [k \in 0 .. 0 + 1 |-> IF k = 0 THEN 0 ELSE BannerLength]
    <3>1. at \in [0 .. 0 + 1 -> Nat] /\ at[0] = 0 /\ at[0 + 1] = Len(wire)
      BY <1>3, SMT DEF BannerLength
    <3>2. Sizes(<<>>)[0] = 2
      BY <1>2, SizesTyped DEF BannerLength
    <3>3. \A k \in 0 .. 0 : at[k + 1] = at[k] + Sizes(<<>>)[k]
      BY <3>2, SMT DEF BannerLength
    <3>4. \A j, k \in 0 .. 0 + 1 : j <= k => at[j] <= at[k]
      BY SMT DEF BannerLength
    <3>5. ASSUME NEW k \in 0 .. 0, NEW v \in 1 .. Sizes(<<>>)[k] PROVE wire[at[k] + v] = <<k, v>>
      <4>1. k = 0 /\ at[k] = 0 /\ v \in 1 .. 2
        BY <3>2, SMT
      <4>2. v = 1 \/ v = 2
        BY <4>1, SMT
      <4>3. at[k] + v = v
        BY <4>1, SMT
      <4> QED BY <1>3, <4>1, <4>2, <4>3
    <3> HIDE DEF at
    <3> QED BY <3>1, <3>3, <3>4, <3>5 DEF Cut
  <2>4. Reading(reader, <<>>, 0)
    BY <2>1 DEF Reading
  <2> QED BY <1>2, <2>1, <2>2, <2>3, <2>4 DEF Flows
<1>12. reader.phase = "banner" /\ Len(received) = 0
  BY <1>1, <1>2
<1> QED BY <1>1, <1>6, <1>7, <1>9, <1>10, <1>11, <1>12 DEF IInv

\* What is read stays a part of what is sent when A sends more.
LEMMA PrefixOfMore ==
  ASSUME NEW r \in Seq(Packet), NEW s \in Seq(Packet), NEW p \in Packet, Prefix(r, s)
  PROVE  Prefix(r, Append(s, p))
<1>1. PICK m \in Nat, n \in Nat : m = Len(r) /\ n = Len(s)
  BY LenProperties
<1>2. PICK t : t = Append(s, p)
  OBVIOUS
<1>3. Len(t) = n + 1 /\ \A k \in 1 .. n : t[k] = s[k]
  BY <1>1, <1>2, AppendProperties
<1>4. m <= n /\ \A k \in 1 .. m : r[k] = s[k]
  BY <1>1 DEF Prefix
<1>5. m <= n + 1 /\ \A k \in 1 .. m : k \in 1 .. n
  BY <1>4, SMT
<1>6. Prefix(r, t)
  BY <1>1, <1>3, <1>4, <1>5 DEF Prefix
<1> QED BY <1>2, <1>6

\* A step of A that sends a packet
LEMMA SendingHolds ==
  ASSUME IInv, CanSend, Sender(sent', endA'), endA' \in End, Grown,
         UNCHANGED <<wire, back, endB, reader, received>>
  PROVE  IInv'
<1>1. PICK p \in Packet :
        sent' = Append(sent, p) /\ out' = [i \in 1 .. Length(p) |-> <<Len(sent) + 1, i>>]
  BY DEF Grown
<1>2. /\ sent \in Seq(Packet) /\ received \in Seq(Packet) /\ wire \in Seq(Units)
      /\ endB \in End /\ reader \in Reader /\ Len(received) \in Nat
  BY LenProperties DEF IInv, StreamTypes
<1>3. out = <<>> /\ Len(received) <= Len(sent) /\ Prefix(received, sent)
  BY DEF CanSend, IInv, Prefix
<1>a. PICK t : t = sent'
  OBVIOUS
<1>b. PICK o : o = out'
  OBVIOUS
<1>4. t = sent' /\ o = out'
  BY <1>a, <1>b
<1>5. t = Append(sent, p) /\ o = [i \in 1 .. Length(p) |-> <<Len(sent) + 1, i>>]
  BY <1>1, <1>4
<1>6. Flows(reader, sent, wire, <<>>, Len(received))
  BY <1>3 DEF IInv
<1>7. InFlow(reader, reader.phase, t, wire, o, Len(received))
  BY <1>2, <1>3, <1>5, <1>6, FlowGrows
<1>8. t \in Seq(Packet) /\ Prefix(received, t)
  BY <1>2, <1>3, <1>5, AppendProperties, PrefixOfMore
<1>9. StreamTypes'
  BY <1>2, <1>4, <1>7, <1>8 DEF StreamTypes, InFlow
<1>10. Receiver(received, endB, reader.phase)
  BY DEF IInv
<1> QED BY <1>4, <1>7, <1>8, <1>9, <1>10 DEF IInv, InFlow

\* A writes to the socket.
LEMMA WriteAllHolds ==
  ASSUME IInv, WriteAll
  PROVE  IInv'
<1>1. PICK n \in 1 .. Len(out) :
        wire' = wire \o SubSeq(out, 1, n) /\ out' = SubSeq(out, n + 1, Len(out))
  BY DEF WriteAll
<1>2. reader \in Reader /\ wire \in Seq(Units) /\ out \in Seq(Units) /\ Flows(reader, sent, wire, out, Len(received))
  BY DEF IInv, StreamTypes
<1>a. PICK x : x = wire'
  OBVIOUS
<1>b. PICK y : y = out'
  OBVIOUS
<1>3. x = wire' /\ y = out'
  BY <1>a, <1>b
<1>4. x = wire \o SubSeq(out, 1, n) /\ y = SubSeq(out, n + 1, Len(out))
  BY <1>1, <1>3
<1>5. InFlow(reader, reader.phase, sent, x, y, Len(received))
  BY <1>2, <1>4, FlowWritten
<1>6. UNCHANGED <<sent, back, endA, endB, reader, received>>
  BY DEF WriteAll
<1> QED BY <1>3, <1>5, <1>6 DEF IInv, StreamTypes, InFlow

\* A activates its new keys, or takes a message of B: nothing that is on its way
\* changes.
LEMMA KeysOfAHold ==
  ASSUME IInv, Sender(sent, endA'), endA' \in End,
         UNCHANGED <<sent, out, wire, endB, reader, received>>
  PROVE  IInv'
<1> QED BY DEF IInv, StreamTypes

\* A step of B that only moves its reader along what is on its way
LEMMA MovingHolds ==
  ASSUME IInv, NEW q, NEW phase, NEW x, reader' = q, wire' = x,
         InFlow(q, phase, sent, x, out, Len(received)), Receiver(received, endB, phase),
         UNCHANGED <<sent, out, endA, endB, received>>
  PROVE  IInv'
<1>1. q \in Reader /\ q.phase = phase /\ x \in Seq(Units) /\ Flows(q, sent, x, out, Len(received))
  BY DEF InFlow
<1> QED BY <1>1 DEF IInv, StreamTypes

\* What every step of B starts from
LEMMA ReadsFrom ==
  ASSUME IInv
  PROVE  /\ reader \in Reader /\ sent \in Seq(Packet) /\ received \in Seq(Packet)
         /\ wire \in Seq(Units) /\ out \in Seq(Units) /\ Len(received) \in Nat /\ Len(received) <= Len(sent)
         /\ reader.has \in Seq(Units) /\ reader.remainder \in Seq(Units) /\ reader.want \in Nat
<1>1. reader \in Reader /\ sent \in Seq(Packet) /\ received \in Seq(Packet)
      /\ wire \in Seq(Units) /\ out \in Seq(Units) /\ Len(received) \in Nat
  BY LenProperties DEF IInv, StreamTypes
<1>2. reader.has \in Seq(Units) /\ reader.remainder \in Seq(Units) /\ reader.want \in Nat
  BY <1>1 DEF Reader
<1> QED BY <1>1, <1>2 DEF IInv, Prefix

\* readline
LEMMA ReadLineHolds ==
  ASSUME IInv, ReadLine
  PROVE  IInv'
<1> DEFINE L == Len(received)
<1>1. PICK n \in 1 .. Len(wire) :
        LET buf == reader.remainder \o SubSeq(wire, 1, n)
            line == BannerLength
        IN  /\ n <= MaxRecv
            /\ TakeFrom(n)
            /\ reader' = IF Len(buf) >= line
                         THEN [ phase |-> "loop", has |-> <<>>, want |-> 0,
                                remainder |-> SubSeq(buf, line + 1, Len(buf)) ]
                         ELSE [reader EXCEPT !.remainder = buf]
  BY DEF ReadLine
<1>2. PICK buf : buf = reader.remainder \o SubSeq(wire, 1, n)
  OBVIOUS
<1>3. PICK x : x = SubSeq(wire, n + 1, Len(wire))
  OBVIOUS
<1>4. wire' = x /\ reader.phase = "banner" /\ UNCHANGED <<sent, out, endA, endB, received>>
  BY <1>1, <1>3 DEF TakeFrom, ReadLine
<1>5. /\ reader \in Reader /\ sent \in Seq(Packet) /\ L \in Nat
      /\ wire \in Seq(Units) /\ out \in Seq(Units)
  BY ReadsFrom
<1>6. Flows(reader, sent, wire, out, L) /\ Receiver(received, endB, reader.phase)
  BY DEF IInv
<1>7. Receiver(received, endB, "banner") /\ Receiver(received, endB, "loop")
  BY <1>4, <1>6 DEF Receiver
<1> HIDE DEF L
<1>8. CASE Len(buf) >= BannerLength
  <2>1. PICK q : q = [ phase |-> "loop", has |-> <<>>, want |-> 0,
                       remainder |-> SubSeq(buf, BannerLength + 1, Len(buf)) ]
    OBVIOUS
  <2>2. reader' = q
    BY <1>1, <1>2, <1>8, <2>1
  <2>3. InFlow(q, "loop", sent, x, out, L)
    BY <1>2, <1>3, <1>4, <1>5, <1>6, <1>8, <2>1, FlowOfBanner
  <2> QED BY <1>4, <1>7, <2>2, <2>3, MovingHolds DEF L
<1>9. CASE ~(Len(buf) >= BannerLength)
  <2>1. PICK q : q = [reader EXCEPT !.remainder = buf]
    OBVIOUS
  <2>2. reader' = q
    BY <1>1, <1>2, <1>9, <2>1
  <2>3. InFlow(q, "banner", sent, x, out, L)
    BY <1>2, <1>3, <1>4, <1>5, <1>6, <2>1, FlowKept
  <2> QED BY <1>4, <1>7, <2>2, <2>3, MovingHolds DEF L
<1> QED BY <1>8, <1>9

\* read_all takes what was read too much.
LEMMA ReadRemainderHolds ==
  ASSUME IInv, ReadRemainder
  PROVE  IInv'
<1> DEFINE L == Len(received)
<1>1. PICK n : n = IF Len(reader.remainder) < reader.want THEN Len(reader.remainder) ELSE reader.want
  OBVIOUS
<1>2. PICK q : q = [reader EXCEPT !.has = SubSeq(reader.remainder, 1, n),
                                  !.remainder = SubSeq(@, n + 1, Len(@))]
  OBVIOUS
<1>3. /\ reader' = q /\ reader.phase \in {"header", "body"} /\ reader.has = <<>>
      /\ reader.remainder # <<>> /\ reader.want > 0
      /\ UNCHANGED <<sent, out, wire, endA, endB, received>>
  BY <1>1, <1>2 DEF ReadRemainder
<1>4. /\ reader \in Reader /\ sent \in Seq(Packet) /\ L \in Nat
      /\ wire \in Seq(Units) /\ out \in Seq(Units) /\ reader.remainder \in Seq(Units) /\ reader.want \in Nat
  BY ReadsFrom
<1>5. Flows(reader, sent, wire, out, L) /\ Receiver(received, endB, reader.phase)
  BY DEF IInv
<1>6. n \in 1 .. Len(reader.remainder) /\ (n = Len(reader.remainder) \/ n = reader.want)
  <2>1. PICK m \in Nat, a \in Nat : m = Len(reader.remainder) /\ a = reader.want
    BY <1>4, LenProperties
  <2>2. m # 0
    BY <1>3, <1>4, <2>1, EmptySeq
  <2>3. n = IF m < a THEN m ELSE a
    BY <1>1, <2>1
  <2>4. n \in 1 .. m /\ (n = m \/ n = a)
    BY <1>3, <2>1, <2>2, <2>3, SMT
  <2> QED BY <2>1, <2>4
<1>7. InFlow(q, reader.phase, sent, wire, out, L)
  BY <1>2, <1>3, <1>4, <1>5, <1>6, FlowRemainder
<1> QED BY <1>3, <1>5, <1>7, MovingHolds

\* recv
LEMMA RecvHolds ==
  ASSUME IInv, Recv
  PROVE  IInv'
<1> DEFINE L == Len(received)
<1>1. PICK n \in 1 .. Len(wire) :
        /\ n <= Lacks
        /\ reader' = [reader EXCEPT !.has = @ \o SubSeq(wire, 1, n)]
        /\ TakeFrom(n)
  BY DEF Recv
<1>2. PICK q : q = [reader EXCEPT !.has = @ \o SubSeq(wire, 1, n)]
  OBVIOUS
<1>3. PICK x : x = SubSeq(wire, n + 1, Len(wire))
  OBVIOUS
<1>4. /\ reader' = q /\ wire' = x /\ reader.phase \in {"header", "body"}
      /\ UNCHANGED <<sent, out, endA, endB, received>>
  BY <1>1, <1>2, <1>3 DEF TakeFrom, Recv
<1>5. /\ reader \in Reader /\ sent \in Seq(Packet) /\ L \in Nat
      /\ wire \in Seq(Units) /\ out \in Seq(Units) /\ reader.has \in Seq(Units) /\ reader.want \in Nat
  BY ReadsFrom
<1>6. Flows(reader, sent, wire, out, L) /\ Receiver(received, endB, reader.phase)
  BY DEF IInv
<1>7. reader.remainder = <<>>
  <2>1. reader.remainder = <<>> \/ reader.has = <<>> \/ Len(reader.has) = reader.want
    BY <1>4, <1>6 DEF Flows, Reading
  <2>2. reader.remainder = <<>> \/ reader.has # <<>>
    BY DEF Recv
  <2>3. Len(reader.has) # reader.want
    <3>1. PICK m \in Nat, a \in Nat : m = Len(reader.has) /\ a = reader.want
      BY <1>5, LenProperties
    <3>2. n <= a - m
      BY <1>1, <3>1 DEF Lacks
    <3>3. PICK y \in Nat : y = Len(wire)
      BY <1>5, LenProperties
    <3>4. n \in 1 .. y
      BY <3>3
    <3>5. m # a
      BY <3>2, <3>4, SMT
    <3> QED BY <3>1, <3>5
  <2> QED BY <2>1, <2>2, <2>3
<1>8. InFlow(q, reader.phase, sent, x, out, L)
  BY <1>2, <1>3, <1>4, <1>5, <1>6, <1>7, FlowReceived
<1> QED BY <1>4, <1>6, <1>8, MovingHolds

\* The packet that B reads next was made with the keys and the number it expects.
LEMMA NextFits ==
  ASSUME IInv, reader.phase # "ignored", NEW k, k = Len(received) + 1, k \in 1 .. Len(sent)
  PROVE  /\ Fits(received, sent[k]) /\ k \in DOMAIN sent /\ sent[k] \in Packet
         /\ sent[k].epoch = endB.epochIn /\ sent[k].seq = endB.seq
<1>1. sent \in Seq(Packet) /\ received \in Seq(Packet)
  BY ReadsFrom
<1>2. Chained(sent) /\ Prefix(received, sent) /\ ExchangeOfB(received, endB)
  BY DEF IInv, Sender, Receiver
<1>3. Fits(received, sent[k])
  BY <1>1, <1>2, PrefixFits
<1>4. k \in DOMAIN sent /\ sent[k] \in Packet
  BY <1>1, LenProperties, ElementOfSeq
<1>5. sent[k].epoch = endB.epochIn /\ sent[k].seq = endB.seq
  BY <1>2, <1>3 DEF Fits, ExchangeOfB
<1> QED BY <1>3, <1>4, <1>5

\* read_message has the header.
LEMMA HeaderReadHolds ==
  ASSUME IInv, HeaderRead
  PROVE  IInv'
<1> DEFINE L == Len(received)
<1>1. /\ reader \in Reader /\ sent \in Seq(Packet) /\ L \in Nat /\ L <= Len(sent)
      /\ wire \in Seq(Units) /\ out \in Seq(Units) /\ reader.has \in Seq(Units) /\ reader.want \in Nat
  BY ReadsFrom
<1>2. Flows(reader, sent, wire, out, L) /\ Receiver(received, endB, reader.phase)
  BY DEF IInv
<1>3. reader.phase = "header" /\ UNCHANGED <<sent, out, wire, endA>>
  BY DEF HeaderRead
<1>4. Len(reader.has) = reader.want
  <2>1. PICK m \in Nat, a \in Nat : m = Len(reader.has) /\ a = reader.want
    BY <1>1, LenProperties
  <2>2. a - m = 0
    BY <2>1 DEF HeaderRead, Lacks
  <2>3. m = a
    BY <2>2, SMT
  <2> QED BY <2>1, <2>3
<1>5. PICK q : q = [reader EXCEPT !.phase = "body", !.has = <<>>, !.want = Length(sent[L + 1]) - HeaderLength]
  OBVIOUS
<1>6. /\ L + 1 \in 1 .. Len(sent)
      /\ reader.has[1][1] = L + 1
      /\ reader.has = [j \in 1 .. Len(reader.has) |-> <<L + 1, 1 + j - 1>>]
      /\ InFlow(q, "body", sent, wire, out, L)
  BY <1>1, <1>2, <1>3, <1>4, <1>5, FlowOfHeader
<1>7. PICK k : k = L + 1
  OBVIOUS
<1>8. k \in DOMAIN sent /\ sent[k].epoch = endB.epochIn
  BY <1>3, <1>6, <1>7, NextFits
<1>9. Whole(k, reader.has, 1)
  BY <1>6, <1>7, <1>8, Zenon DEF Whole
<1>10. reader' = q /\ UNCHANGED <<endB, received>>
  BY <1>5, <1>6, <1>7, <1>9, Zenon DEF HeaderRead
<1>11. Receiver(received, endB, "body")
  BY <1>2, <1>3 DEF Receiver
<1> QED BY <1>3, <1>6, <1>10, <1>11, MovingHolds

\* The reader in its last phase
LEMMA ReaderStops ==
  ASSUME NEW rd \in Reader, NEW i, i = [rd EXCEPT !.phase = "ignored"]
  PROVE  i \in Reader /\ i.phase = "ignored"
<1> QED BY DEF Reader, Phases

\* read_message has the packet.
LEMMA BodyReadHolds ==
  ASSUME IInv, BodyRead
  PROVE  IInv'
<1> DEFINE L == Len(received)
<1>1. /\ reader \in Reader /\ sent \in Seq(Packet) /\ received \in Seq(Packet) /\ L \in Nat /\ L <= Len(sent)
      /\ wire \in Seq(Units) /\ out \in Seq(Units) /\ reader.has \in Seq(Units) /\ reader.want \in Nat
  BY ReadsFrom
<1>2. Flows(reader, sent, wire, out, L) /\ ExchangeOfB(received, endB) /\ Answered(endB)
  BY DEF IInv, Receiver, BodyRead
<1>3. reader.phase = "body" /\ UNCHANGED <<sent, out, wire, endA>>
  BY DEF BodyRead
<1>4. Len(reader.has) = reader.want
  <2>1. PICK m \in Nat, a \in Nat : m = Len(reader.has) /\ a = reader.want
    BY <1>1, LenProperties
  <2>2. a - m = 0
    BY <2>1 DEF BodyRead, Lacks
  <2>3. m = a
    BY <2>2, SMT
  <2> QED BY <2>1, <2>3
<1>5. PICK q : q = [reader EXCEPT !.phase = "loop", !.has = <<>>]
  OBVIOUS
<1>6. /\ L + 1 \in 1 .. Len(sent)
      /\ reader.has = [j \in 1 .. Len(reader.has) |-> <<L + 1, (HeaderLength + 1) + j - 1>>]
      /\ InFlow(q, "loop", sent, wire, out, L + 1)
  BY <1>1, <1>2, <1>3, <1>4, <1>5, FlowOfBody
<1>7. PICK k : k = L + 1
  OBVIOUS
<1>8. PICK p : p = sent[k]
  OBVIOUS
<1>9. /\ Fits(received, p) /\ k \in DOMAIN sent /\ p \in Packet
      /\ p.epoch = endB.epochIn /\ p.seq = endB.seq
  BY <1>3, <1>6, <1>7, <1>8, NextFits
<1>10. Whole(k, reader.has, HeaderLength + 1)
  BY <1>6, <1>7, <1>8, <1>9, Zenon DEF Whole
<1>11. PICK d : d = [endB EXCEPT !.seq = (@ + 1) % SeqModulus]
  OBVIOUS
<1>12. PICK e : e = Counted(d)
  OBVIOUS
<1>13. /\ received' = Append(received, p)
       /\ IF e.need /\ e.overflow >= OverflowMax
            THEN reader' = [reader EXCEPT !.phase = "ignored"] /\ endB' = e
            ELSE reader' = q /\ endB' = Handled(e, p.kind)
  BY <1>5, <1>7, <1>8, <1>9, <1>10, <1>11, <1>12, Zenon DEF BodyRead
<1>14. d \in End /\ SameExchange(d, endB) /\ d.seq = (endB.seq + 1) % SeqModulus /\ d.need = endB.need
  <2>1. endB \in End /\ (endB.seq + 1) % SeqModulus \in Nat
    <3>1. endB \in End /\ endB.seq \in Nat
      BY DEF IInv, StreamTypes, End
    <3>2. SeqModulus \in Nat \ {0}
      BY PacketAssumption
    <3> QED BY <3>1, <3>2, SMT
  <2>2. PICK n \in Nat : n = (endB.seq + 1) % SeqModulus
    BY <2>1
  <2>3. PICK b \in End : b = endB
    BY <2>1
  <2>4. d = [b EXCEPT !.seq = n]
    BY <1>11, <2>2, <2>3
  <2>5. d \in End /\ d.kex = b.kex /\ d.epochIn = b.epochIn /\ d.epochOut = b.epochOut
        /\ d.inKex = b.inKex /\ d.initCount = b.initCount /\ d.seq = n /\ d.need = b.need
    BY <2>4 DEF End
  <2> QED BY <2>2, <2>3, <2>5 DEF SameExchange
<1>15. /\ SameExchange(e, d) /\ e.seq = d.seq
       /\ e.need /\ e.overflow >= OverflowMax => d.need
  BY <1>12, <1>14, CountedKeeps
<1>16. PICK t : t = Append(received, p)
  OBVIOUS
<1>17. t \in Seq(Packet) /\ Len(t) = k /\ Requires(t, p)
  <2>1. Chained(received)
    BY <1>1, PrefixFits DEF IInv, Sender
  <2> QED BY <1>1, <1>7, <1>9, <1>16, <2>1, AppendProperties, ChainGrows
<1>18. Prefix(t, sent)
  <2>1. PICK m \in Nat : m = Len(received)
    BY <1>1
  <2>2. Len(t) = m + 1 /\ t[m + 1] = p /\ \A i \in 1 .. m : t[i] = received[i]
    BY <1>1, <1>9, <1>16, <2>1, AppendProperties
  <2>3. \A i \in 1 .. m : received[i] = sent[i]
    BY <2>1 DEF IInv, Prefix
  <2>4. ASSUME NEW i \in 1 .. m + 1 PROVE t[i] = sent[i]
    <3>1. CASE i = m + 1
      BY <1>7, <1>8, <2>1, <2>2, <3>1
    <3>2. CASE i # m + 1
      <4>1. i \in 1 .. m
        BY <3>2, SMT
      <4> QED BY <2>2, <2>3, <4>1
    <3> QED BY <3>1, <3>2
  <2>5. PICK z \in Nat : z = Len(sent)
    BY <1>1, LenProperties
  <2>6. m + 1 <= z
    BY <1>6, <2>1, <2>5, SMT
  <2> QED BY <2>2, <2>4, <2>5, <2>6 DEF Prefix
<1>19. CASE e.need /\ e.overflow >= OverflowMax
  <2>1. PICK i : i = [reader EXCEPT !.phase = "ignored"]
    OBVIOUS
  <2>2. reader' = i /\ endB' = e /\ received' = t
    BY <1>13, <1>16, <1>19, <2>1
  <2>3. i \in Reader /\ i.phase = "ignored"
    BY <1>1, <2>1, ReaderStops
  <2>4. e \in End /\ "sentInit" \in e.kex
    BY <1>2, <1>14, <1>15, <1>19 DEF SameExchange, Answered
  <2>5. Receiver(t, e, "ignored")
    BY <2>4 DEF Receiver
  <2>6. Flows(i, sent, wire, out, Len(t))
    BY <2>3 DEF Flows
  <2>7. StreamTypes'
    BY <1>3, <1>17, <2>2, <2>3, <2>4 DEF IInv, StreamTypes
  <2> QED BY <1>3, <1>18, <2>2, <2>3, <2>5, <2>6, <2>7 DEF IInv
<1>20. CASE ~(e.need /\ e.overflow >= OverflowMax)
  <2>1. PICK h : h = Handled(e, p.kind)
    OBVIOUS
  <2>2. reader' = q /\ endB' = h /\ received' = t
    BY <1>13, <1>16, <1>20, <2>1
  <2>3. SameExchange(e, endB) /\ e.seq = (p.seq + 1) % SeqModulus
    BY <1>9, <1>14, <1>15 DEF SameExchange
  <2>4. endB \in End
    BY DEF IInv, StreamTypes
  <2>5. h \in End /\ ExchangeOfB(t, h)
    BY <1>1, <1>2, <1>9, <1>17, <2>1, <2>3, <2>4, HandledKeeps
  <2>6. Receiver(t, h, "loop")
    BY <2>5 DEF Receiver
  <2>7. q \in Reader /\ q.phase = "loop" /\ Flows(q, sent, wire, out, k)
    BY <1>6, <1>7 DEF InFlow
  <2>8. StreamTypes'
    BY <1>3, <1>17, <2>2, <2>5, <2>7 DEF IInv, StreamTypes
  <2> QED BY <1>3, <1>17, <1>18, <2>2, <2>6, <2>7, <2>8 DEF IInv
<1> QED BY <1>19, <1>20

\* The reader goes back to the loop when it has nothing of a header.
LEMMA FlowOfNeed ==
  ASSUME NEW rd \in Reader, NEW s, NEW n \in Nat, NEW w \in Seq(Units), NEW o \in Seq(Units),
         Flows(rd, s, w, o, n), rd.phase = "header", rd.has = <<>>,
         NEW q, q = [rd EXCEPT !.phase = "loop"]
  PROVE  InFlow(q, "loop", s, w, o, n)
<1>1. q \in Reader /\ q.phase = "loop" /\ q.has = rd.has /\ q.remainder = rd.remainder
  BY DEF Reader, Phases
<1>2. FlowOf(q, w, o, n + 1) = FlowOf(rd, w, o, n + 1)
  BY <1>1 DEF FlowOf, HeaderTaken
<1>3. Reading(q, s, n)
  BY <1>1 DEF Reading
<1>4. Flows(q, s, w, o, n)
  BY <1>1, <1>2, <1>3 DEF Flows
<1> QED BY <1>1, <1>4 DEF InFlow

\* The reader begins a header.
LEMMA FlowOfLoop ==
  ASSUME NEW rd \in Reader, NEW s, NEW n \in Nat, NEW w \in Seq(Units), NEW o \in Seq(Units),
         Flows(rd, s, w, o, n), rd.phase = "loop",
         NEW q, q = [rd EXCEPT !.phase = "header", !.want = HeaderLength]
  PROVE  InFlow(q, "header", s, w, o, n)
<1>1. q \in Reader /\ q.phase = "header" /\ q.has = rd.has /\ q.remainder = rd.remainder
      /\ q.want = HeaderLength
  BY DEF Reader, Phases, HeaderLength
<1>2. FlowOf(q, w, o, n + 1) = FlowOf(rd, w, o, n + 1)
  BY <1>1 DEF FlowOf, HeaderTaken
<1>3. rd.has = <<>>
  BY DEF Flows, Reading
<1>4. Reading(q, s, n)
  BY <1>1, <1>3 DEF Reading
<1>5. Flows(q, s, w, o, n)
  BY <1>1, <1>2, <1>4 DEF Flows
<1> QED BY <1>1, <1>5 DEF InFlow

\* NeedRekeyException, when nothing has been read
LEMMA NeedRekeyHolds ==
  ASSUME IInv, NeedRekey
  PROVE  IInv'
<1> DEFINE L == Len(received)
<1>1. /\ reader \in Reader /\ sent \in Seq(Packet) /\ L \in Nat
      /\ wire \in Seq(Units) /\ out \in Seq(Units)
  BY ReadsFrom
<1>2. Flows(reader, sent, wire, out, L) /\ Receiver(received, endB, reader.phase)
  BY DEF IInv
<1>3. PICK q : q = [reader EXCEPT !.phase = "loop"]
  OBVIOUS
<1>4. /\ reader' = q /\ reader.phase = "header" /\ reader.has = <<>>
      /\ UNCHANGED <<sent, out, wire, endA, endB, received>>
  BY <1>3 DEF NeedRekey
<1>5. InFlow(q, "loop", sent, wire, out, L)
  BY <1>1, <1>2, <1>3, <1>4, FlowOfNeed
<1>6. Receiver(received, endB, "loop")
  BY <1>2, <1>4 DEF Receiver
<1> QED BY <1>4, <1>5, <1>6, MovingHolds

\* The loop of run
LEMMA LoopHolds ==
  ASSUME IInv, Loop
  PROVE  IInv'
<1> DEFINE L == Len(received)
<1>1. /\ reader \in Reader /\ sent \in Seq(Packet) /\ L \in Nat
      /\ wire \in Seq(Units) /\ out \in Seq(Units)
  BY ReadsFrom
<1>2. Flows(reader, sent, wire, out, L) /\ Receiver(received, endB, reader.phase)
  BY DEF IInv
<1>3. PICK q : q = [reader EXCEPT !.phase = "header", !.want = HeaderLength]
  OBVIOUS
<1>4. reader' = q /\ reader.phase = "loop" /\ UNCHANGED <<sent, out, wire, endA, received>>
  BY <1>3 DEF Loop
<1>5. InFlow(q, "header", sent, wire, out, L)
  BY <1>1, <1>2, <1>3, <1>4, FlowOfLoop
<1>6. endB \in End /\ ExchangeOfB(received, endB)
  BY <1>2, <1>4 DEF IInv, StreamTypes, Receiver
<1>7. endB' \in End /\ ExchangeOfB(received, endB') /\ Answered(endB')
  BY <1>6, LoopKeeps
<1>8. Receiver(received, endB', "header")
  BY <1>7 DEF Receiver
<1>9. q \in Reader /\ q.phase = "header" /\ Flows(q, sent, wire, out, L)
  BY <1>5 DEF InFlow
<1>10. StreamTypes'
  BY <1>4, <1>7, <1>9 DEF IInv, StreamTypes
<1> QED BY <1>4, <1>8, <1>9, <1>10 DEF IInv

-----------------------------------------------------------------------------
(* The theorem *)

\* Every step keeps the invariant.
LEMMA StepHolds == IInv /\ [StreamNext]_streamVars => IInv'
<1> SUFFICES ASSUME IInv, [StreamNext]_streamVars PROVE IInv'
  OBVIOUS
<1>1. StreamTypes /\ Sender(sent, endA)
  BY DEF IInv
<1>2. CASE WriteAll
  BY <1>2, WriteAllHolds
<1>3. CASE SendData
  <2>1. CanSend /\ UNCHANGED <<wire, back, endB, reader, received>>
    BY <1>3 DEF SendData
  <2> QED BY <1>1, <1>3, <2>1, SendDataKeeps, SendingHolds
<1>4. CASE SendKexInit
  <2>1. CanSend /\ UNCHANGED <<wire, back, endB, reader, received>>
    BY <1>4 DEF SendKexInit
  <2> QED BY <1>1, <1>4, <2>1, SendKexInitKeeps, SendingHolds
<1>5. CASE SendNewKeys
  <2>1. CanSend /\ UNCHANGED <<wire, back, endB, reader, received>>
    BY <1>5 DEF SendNewKeys
  <2> QED BY <1>1, <1>5, <2>1, SendNewKeysKeeps, SendingHolds
<1>6. CASE ActivateOutbound
  <2>1. UNCHANGED <<sent, out, wire, endB, reader, received>>
    BY <1>6 DEF ActivateOutbound
  <2> QED BY <1>1, <1>6, <2>1, ActivateOutboundKeeps, KeysOfAHold
<1>7. CASE AReceives
  <2>1. UNCHANGED <<sent, out, wire, endB, reader, received>>
    BY <1>7 DEF AReceives
  <2> QED BY <1>1, <1>7, <2>1, AReceivesKeeps, KeysOfAHold
<1>8. CASE ReadLine
  BY <1>8, ReadLineHolds
<1>9. CASE ReadRemainder
  BY <1>9, ReadRemainderHolds
<1>10. CASE Recv
  BY <1>10, RecvHolds
<1>11. CASE HeaderRead
  BY <1>11, HeaderReadHolds
<1>12. CASE BodyRead
  BY <1>12, BodyReadHolds
<1>13. CASE NeedRekey
  BY <1>13, NeedRekeyHolds
<1>14. CASE Loop
  BY <1>14, LoopHolds
<1>15. CASE UNCHANGED streamVars
  BY <1>15 DEF streamVars, IInv, StreamTypes
<1> QED BY <1>2, <1>3, <1>4, <1>5, <1>6, <1>7, <1>8, <1>9, <1>10, <1>11, <1>12, <1>13, <1>14, <1>15
        DEF StreamNext

\* Where the invariant holds, nothing that was read is other than it was sent.
LEMMA Intact == IInv => StreamIntact
<1> SUFFICES ASSUME IInv PROVE StreamIntact
  OBVIOUS
<1>1. reader.phase # "mangled"
  <2>1. reader.phase \in Phases
    BY DEF IInv, StreamTypes, Reader
  <2> QED BY <2>1 DEF Phases
<1>2. reader.phase = "ignored" => "sentInit" \in endB.kex
  BY DEF IInv, Receiver
<1>3. sent \in Seq(Packet) /\ received \in Seq(Packet) /\ Prefix(received, sent)
  BY DEF IInv, StreamTypes
<1>4. Len(received) <= Len(sent) /\ received = SubSeq(sent, 1, Len(received))
  <2>1. PICK m \in Nat, n \in Nat : m = Len(received) /\ n = Len(sent)
    BY <1>3, LenProperties
  <2>2. m <= n /\ \A i \in 1 .. m : received[i] = sent[i]
    BY <1>3, <2>1 DEF Prefix
  <2>3. PICK u : u = SubSeq(sent, 1, m)
    OBVIOUS
  <2>4. u \in Seq(Packet) /\ Len(u) = m /\ \A i \in 1 .. m : u[i] = sent[i]
    <3>1. 1 \in 1 .. n + 1 /\ m \in 0 .. n /\ 1 <= m + 1
      BY <2>2, SMT
    <3>2. \A i \in 1 .. m : i \in 1 .. n
      BY <2>2, SMT
    <3> QED BY <1>3, <2>1, <2>2, <2>3, <3>1, <3>2, SubSeqProperties, SMT
  <2>5. received = u
    BY <1>3, <2>1, <2>2, <2>4, SeqEqual, SMT
  <2> QED BY <2>1, <2>2, <2>3, <2>5
<1> QED BY <1>1, <1>2, <1>4 DEF StreamIntact

\* Whatever the socket takes and gives at a time, and however often the keys
\* change: B reads a prefix of the packets that A made, each whole, with the keys
\* and the number it was made with; and it gives up on A only after it has asked
\* for new keys.
THEOREM PacketsArriveIntact == StreamSpec => []StreamIntact
<1>1. StreamSpec => []IInv
  BY InitHolds, StepHolds, PTL DEF StreamSpec
<1> QED BY <1>1, Intact, PTL
-----------------------------------------------------------------------------
(* The boot device *)

\* Contents of /boot/bootdev that ask for no device
NoDevice == {"missing", "none"}

\* /boot/bootdev asks for the device that was asked for and not yet used.
Agrees == OrderOf(bootdev) = OrderOf(wanted)

HostStates == {"none", "starting", "up"}

\* The startcmd at boot runs only where no device has been asked for.
BootUnasked == start["boot"] # "idle" => bootdev \in NoDevice /\ wanted \in NoDevice

\* The file and what was asked for agree, but from the moment in which the host
\* comes up, or is taken for running, to that in which startcmd restores the file.
FileAgrees ==
  /\ start["cmd"] \notin {"check", "reset"} => Agrees
  /\ start["cmd"] = "check" => Agrees \/ Up
  /\ start["cmd"] = "reset" => wanted \in NoDevice
  /\ start["cmd"] # "idle" /\ Up => wanted \in NoDevice
  /\ start["cmd"] # "idle" /\ qemu["boot"].state = "starting" => wanted \in NoDevice

\* The order that startcmd p has read, and that of the qemu it waits for; until
\* it has launched one, there is none of its own.
OrderRead(p) ==
  /\ start[p] \in {"launch", "check"} => order[p] = OrderOf(bootdev)
  /\ start[p] = "check" /\ qemu[p].state = "starting" => qemu[p].order = OrderOf(wanted)
  /\ start[p] \notin {"idle", "check", "reset"} => qemu[p].state # "starting"

BootTypes ==
  /\ start \in [Starters -> StartPCs]
  /\ order \in [Starters -> Orders \cup {""}]
  /\ qemu \in [Starters -> [state : HostStates, order : Orders \cup {""}]]
  /\ overlapped \in BOOLEAN /\ gaveUp \in BOOLEAN /\ misjudged \in BOOLEAN

BootInv ==
  /\ BootTypes
  /\ \/ overlapped \/ gaveUp \/ misjudged
     \/ BootUnasked /\ FileAgrees /\ \A p \in Starters : OrderRead(p)

\* It holds when lanserv starts.
LEMMA BootInitial == BmcInit => BootInv
<1> SUFFICES ASSUME BmcInit PROVE BootInv
  OBVIOUS
<1> USE DEF StartPCs, Orders
<1>1. BootTypes
  BY DEF BootTypes, BmcInit, Init, Starters, NoHost, HostStates
<1>2. BootUnasked
  BY DEF BootUnasked, NoDevice, BmcInit, Init
<1>3. FileAgrees
  BY DEF FileAgrees, Agrees, BmcInit, Init, Up, NoHost, Starters
<1>4. ASSUME NEW p \in Starters PROVE OrderRead(p)
  BY DEF OrderRead, BmcInit, Init, NoHost, Starters
<1> QED
  BY <1>1, <1>2, <1>3, <1>4 DEF BootInv

\* What a file that asks for no device leads to
LEMMA NoDeviceOrder ==
  ASSUME NEW d \in NoDevice
  PROVE  OrderOf(d) = "ncd"
  BY DEF NoDevice, OrderOf

\* The types are kept by every step of the scripts.
LEMMA BootTypesKept ==
  ASSUME BootTypes, Next
  PROVE  BootTypes'
<1> USE DEF BootTypes, HostStates, Goto, startVars, hostVars, ghostVars,
        StartPCs, Orders
<1>1. ASSUME NEW p \in Starters, StartStep(p) PROVE BootTypes'
  <2>1. \A d : OrderOf(d) \in Orders
    BY DEF OrderOf
  <2>2. CASE AddBridge(p) \/ TestAuto(p) \/ AppendAuto(p) \/ AppendIface(p)
    BY <2>2 DEF AddBridge, TestAuto, AppendAuto, AppendIface, NextNic
  <2>3. CASE ReadBootdev(p)
    BY <2>1, <2>3 DEF ReadBootdev
  <2>4. CASE Launch(p)
    <3>1. order[p] \in Orders \cup {""}
      OBVIOUS
    <3>2. CASE retry[p] > MaxRetry
      BY <2>4, <3>2 DEF Launch
    <3>3. CASE ~(retry[p] > MaxRetry)
      <4>1. PICK r : r = [state |-> "starting", order |-> order[p]]
        OBVIOUS
      <4>2. r \in [state : HostStates, order : Orders \cup {""}]
        BY <3>1, <4>1
      <4>3. qemu' = [qemu EXCEPT ![p] = r] /\ start' = [start EXCEPT ![p] = "check"]
        BY <2>4, <3>3, <4>1 DEF Launch
      <4>4. UNCHANGED <<order, overlapped, gaveUp, misjudged>>
        BY <2>4, <3>3 DEF Launch
      <4> QED
        BY <4>2, <4>3, <4>4
    <3> QED
      BY <3>2, <3>3
  <2>5. CASE Check(p) \/ ResetBootdev(p)
    BY <2>5 DEF Check, ResetBootdev
  <2> QED
    BY <1>1, <2>2, <2>3, <2>4, <2>5 DEF StartStep
<1>2. ASSUME HostStep PROVE BootTypes'
  <2>1. CASE Dies
    BY <2>1 DEF Dies
  <2>2. ASSUME NEW p \in Starters, ComesUp(p) PROVE BootTypes'
    <3>1. PICK r \in [state : HostStates, order : Orders \cup {""}] : r = qemu[p]
      OBVIOUS
    <3>2. [r EXCEPT !.state = "up"] \in [state : HostStates, order : Orders \cup {""}]
      <4> HIDE <3>1
      <4> QED
        OBVIOUS
    <3>3. PICK s \in [state : HostStates, order : Orders \cup {""}] : s = [r EXCEPT !.state = "up"]
      BY <3>2
    <3>4. qemu' = [qemu EXCEPT ![p] = s]
      BY <2>2, <3>1, <3>3 DEF ComesUp
    <3>5. UNCHANGED <<start, order, overlapped, gaveUp, misjudged>>
      BY <2>2 DEF ComesUp
    <3> QED
      BY <3>4, <3>5
  <2>3. ASSUME NEW p \in Starters, FailsToStart(p) PROVE BootTypes'
    BY <2>3 DEF FailsToStart, NoHost
  <2> QED
    BY <1>2, <2>1, <2>2, <2>3 DEF HostStep
<1>3. ASSUME PowerOn \/ PowerOff \/ Reset \/ SetBoot \/ GetBoot
      PROVE  BootTypes'
  <2>1. CASE PowerOn
    BY <2>1 DEF PowerOn
  <2>2. CASE PowerOff
    BY <2>2 DEF PowerOff, KillAll, NoHost
  <2>3. CASE Reset
    BY <2>3 DEF Reset, KillAll, NoHost
  <2>4. CASE SetBoot \/ GetBoot
    BY <2>4 DEF SetBoot, GetBoot, FileCommand
  <2> QED
    BY <1>3, <2>1, <2>2, <2>3, <2>4
<1>4. ASSUME Identify \/ IdentifyOff \/ IdentifyEnds PROVE BootTypes'
  BY <1>4 DEF Identify, IdentifyOff, IdentifyEnds
<1> QED
  BY <1>1, <1>2, <1>3, <1>4 DEF Next

\* What the invariant says while nothing has overlapped and no startcmd gave up
\* or misjudged a qemu
InOrder == BootUnasked /\ FileAgrees /\ \A p \in Starters : OrderRead(p)

\* Every step of a startcmd keeps the file, what it has read and what was asked
\* for in agreement.
LEMMA StartInOrder ==
  ASSUME BootTypes, InOrder, NEW p \in Starters, StartStep(p), ~gaveUp', ~misjudged'
  PROVE  InOrder'
<1> USE DEF Starters, Goto, startVars, hostVars, ghostVars
<1>1. CASE AddBridge(p) \/ TestAuto(p) \/ AppendAuto(p) \/ AppendIface(p)
  <2>1. /\ UNCHANGED <<bootdev, qemu, order, wanted>>
        /\ start[p] \in {"bridge", "ifup", "auto", "iface"}
        /\ \E pc \in {"bridge", "ifup", "auto", "iface", "order"} : start' = [start EXCEPT ![p] = pc]
    BY <1>1 DEF AddBridge, TestAuto, AppendAuto, AppendIface, NextNic
  <2> QED
    BY <2>1 DEF InOrder, BootTypes, BootUnasked, FileAgrees, OrderRead, Agrees, Up
<1>2. CASE ReadBootdev(p)
  BY <1>2 DEF ReadBootdev, InOrder, BootTypes, BootUnasked, FileAgrees, OrderRead, Agrees, Up
<1>3. CASE Launch(p)
  <2>1. /\ start[p] = "launch" /\ start' = [start EXCEPT ![p] = "check"]
        /\ qemu' = [qemu EXCEPT ![p] = [state |-> "starting", order |-> order[p]]]
        /\ UNCHANGED <<bootdev, order, wanted>>
    BY <1>3 DEF Launch
  <2>2. Agrees
    BY <2>1, NoDeviceOrder DEF InOrder, BootUnasked, FileAgrees, Agrees
  <2>3. Agrees'
    BY <2>1, <2>2 DEF Agrees
  <2>4. \A q \in Starters : qemu'[q].state = "up" => qemu[q].state = "up"
    BY <2>1 DEF BootTypes
  <2>5. FileAgrees'
    BY <2>1, <2>3, <2>4, NoDeviceOrder DEF InOrder, BootTypes, BootUnasked, FileAgrees, Up
  <2>6. ASSUME NEW q \in Starters PROVE OrderRead(q)'
    <3>1. order[p] = OrderOf(bootdev)
      BY <2>1 DEF InOrder, OrderRead
    <3>2. CASE q = p
      BY <2>1, <2>2, <3>1, <3>2 DEF BootTypes, OrderRead, Agrees
    <3>3. CASE q # p
      BY <2>1, <3>3 DEF InOrder, BootTypes, OrderRead
    <3> QED
      BY <3>2, <3>3
  <2>7. BootUnasked'
    BY <2>1 DEF InOrder, BootTypes, BootUnasked
  <2> QED
    BY <2>5, <2>6, <2>7 DEF InOrder
<1>4. CASE Check(p)
  <2>1. /\ start[p] = "check" /\ UNCHANGED <<bootdev, qemu, order>>
        /\ wanted' = IF qemu[p].state = "starting" THEN "none" ELSE wanted
        /\ \/ start' = [start EXCEPT ![p] = "reset"] /\ Pids # {}
           \/ start' = [start EXCEPT ![p] = "launch"] /\ Pids = {}
    BY <1>4 DEF Check, PidFound
  <2>2. \A q \in Starters : qemu[q].state \in HostStates
    BY DEF BootTypes
  <2>3. Pids = {} => ~Up /\ \A q \in Starters : qemu[q].state = "none"
    BY DEF Pids, Up
  <2>4. Pids # {} => Up \/ \E q \in Starters : qemu[q].state = "starting"
    BY <2>2 DEF Pids, Up, HostStates
  <2>5. (Up' <=> Up) /\ (wanted \in NoDevice => wanted' \in NoDevice)
    BY <2>1 DEF Up, NoDevice
  <2>6. CASE p = "boot"
    <3>1. bootdev \in NoDevice /\ wanted \in NoDevice /\ wanted' \in NoDevice
      BY <2>1, <2>5, <2>6 DEF InOrder, BootUnasked
    <3>2. OrderOf(bootdev) = "ncd" /\ OrderOf(wanted) = "ncd" /\ OrderOf(wanted)' = "ncd"
      BY <3>1, NoDeviceOrder DEF OrderOf, NoDevice
    <3>3. Agrees' /\ start'["cmd"] = start["cmd"] /\ BootUnasked'
      BY <2>1, <2>6, <3>1, <3>2 DEF Agrees, BootTypes, BootUnasked
    <3>4. FileAgrees'
      BY <2>1, <3>1, <3>3 DEF FileAgrees
    <3>5. ASSUME NEW q \in Starters PROVE OrderRead(q)'
      BY <2>1, <2>3, <3>2 DEF InOrder, BootTypes, OrderRead
    <3> QED
      BY <3>3, <3>4, <3>5 DEF InOrder
  <2>7. CASE p = "cmd"
    <3>1. start'["boot"] = start["boot"] /\ BootUnasked'
      BY <2>1, <2>5, <2>7 DEF InOrder, BootTypes, BootUnasked
    <3>2. Pids # {} => wanted' \in NoDevice
      BY <2>1, <2>4, <2>5, <2>7 DEF InOrder, FileAgrees, NoDevice
    <3>3. Pids = {} => wanted' = wanted /\ Agrees
      BY <2>1, <2>3, <2>7 DEF InOrder, FileAgrees
    <3>4. Pids = {} => Agrees'
      BY <2>1, <3>3 DEF Agrees
    <3>5. FileAgrees'
      <4>1. CASE Pids # {}
        BY <2>1, <2>7, <3>2, <4>1 DEF BootTypes, FileAgrees
      <4>2. CASE Pids = {}
        BY <2>1, <2>3, <2>5, <2>7, <3>4, <4>2 DEF BootTypes, FileAgrees
      <4> QED
        BY <4>1, <4>2
    <3>6. OrderRead("cmd")'
      BY <2>1, <2>3, <2>7 DEF InOrder, BootTypes, OrderRead
    <3>7. start["boot"] = "check" => OrderOf(wanted)' = OrderOf(wanted)
      <4>1. ASSUME start["boot"] = "check" PROVE wanted \in NoDevice /\ wanted' \in NoDevice
        BY <2>5, <4>1 DEF InOrder, BootUnasked
      <4> QED
        BY <4>1 DEF OrderOf, NoDevice
    <3>8. OrderRead("boot")'
      BY <2>1, <2>7, <3>1, <3>7 DEF InOrder, BootTypes, OrderRead
    <3> QED
      BY <3>1, <3>5, <3>6, <3>8 DEF InOrder
  <2> QED
    BY <2>6, <2>7
<1>5. CASE ResetBootdev(p)
  <2>1. /\ start[p] = "reset" /\ start' = [start EXCEPT ![p] = "idle"]
        /\ bootdev' = "none" /\ order' = [order EXCEPT ![p] = ""]
        /\ UNCHANGED <<qemu, wanted>>
    BY <1>5 DEF ResetBootdev
  <2>2. wanted \in NoDevice
    BY <2>1 DEF InOrder, BootUnasked, FileAgrees
  <2>3. Agrees'
    BY <2>1, <2>2, NoDeviceOrder DEF Agrees, NoDevice
  <2>4. FileAgrees'
    BY <2>1, <2>2, <2>3 DEF InOrder, BootTypes, FileAgrees, Up
  <2>5. ASSUME NEW q \in Starters PROVE OrderRead(q)'
    <3>1. CASE q = p
      BY <2>1, <3>1 DEF InOrder, BootTypes, OrderRead
    <3>2. CASE q # p /\ start[q] \in {"launch", "check"}
      <4>1. bootdev \in NoDevice
        BY <2>1, <3>2 DEF InOrder, BootUnasked
      <4>2. OrderOf(bootdev) = "ncd" /\ OrderOf("none") = "ncd"
        BY <4>1, NoDeviceOrder DEF NoDevice
      <4> QED
        BY <2>1, <3>2, <4>2 DEF InOrder, BootTypes, OrderRead
    <3>3. CASE q # p /\ start[q] \notin {"launch", "check"}
      BY <2>1, <3>3 DEF InOrder, BootTypes, OrderRead
    <3> QED
      BY <3>1, <3>2, <3>3
  <2>6. BootUnasked'
    BY <2>1, <2>2 DEF InOrder, BootTypes, BootUnasked, NoDevice
  <2> QED
    BY <2>4, <2>5, <2>6 DEF InOrder
<1> QED
  BY <1>1, <1>2, <1>3, <1>4, <1>5 DEF StartStep

\* So does every step of a qemu.
LEMMA HostInOrder ==
  ASSUME BootTypes, InOrder, HostStep
  PROVE  InOrder'
<1> USE DEF Starters, startVars, hostVars, ghostVars
<1>1. CASE Dies
  BY <1>1 DEF Dies, InOrder, BootUnasked, FileAgrees, OrderRead, Agrees, Up
<1>2. ASSUME NEW p \in Starters, ComesUp(p) PROVE InOrder'
  <2>1. /\ qemu[p].state = "starting"
        /\ wanted' = IF start[p] = "check" THEN "none" ELSE wanted
        /\ qemu' = [qemu EXCEPT ![p].state = "up"]
        /\ UNCHANGED <<bootdev, start, order>>
    BY <1>2 DEF ComesUp
  <2>2. start[p] \in {"idle", "check", "reset"}
    BY <2>1 DEF InOrder, OrderRead
  <2>3. qemu'[p].state = "up" /\ \A q \in Starters : q # p => qemu'[q] = qemu[q]
    BY <2>1 DEF BootTypes
  <2>4. Up'
    BY <2>3 DEF Up
  <2>5. wanted \in NoDevice => wanted' \in NoDevice
    BY <2>1 DEF NoDevice
  <2>6. start["cmd"] \notin {"check", "reset"} => Agrees'
    <3>1. SUFFICES ASSUME start["cmd"] \notin {"check", "reset"} PROVE Agrees'
      OBVIOUS
    <3>2. Agrees
      BY <3>1 DEF InOrder, FileAgrees
    <3>3. CASE start[p] = "check"
      <4>1. start["boot"] # "idle"
        BY <3>1, <3>3
      <4>2. bootdev \in NoDevice /\ wanted' \in NoDevice
        BY <2>5, <4>1 DEF InOrder, BootUnasked
      <4> QED
        BY <2>1, <4>2 DEF Agrees, OrderOf, NoDevice
    <3>4. CASE start[p] # "check"
      BY <2>1, <3>2, <3>4 DEF Agrees
    <3> QED
      BY <3>3, <3>4
  <2>7. start["cmd"] # "idle" => wanted' \in NoDevice
    <3>1. SUFFICES ASSUME start["cmd"] # "idle" PROVE wanted' \in NoDevice
      OBVIOUS
    <3>2. CASE p = "boot"
      BY <2>1, <2>5, <3>1, <3>2 DEF InOrder, FileAgrees
    <3>3. CASE p = "cmd"
      BY <2>1, <2>2, <2>5, <3>1, <3>3 DEF InOrder, FileAgrees, NoDevice
    <3> QED
      BY <3>2, <3>3
  <2>8. FileAgrees'
    BY <2>1, <2>4, <2>6, <2>7 DEF FileAgrees
  <2>9. BootUnasked'
    BY <2>1, <2>5 DEF InOrder, BootUnasked
  <2>10. ASSUME NEW q \in Starters PROVE OrderRead(q)'
    <3>1. CASE q = p
      BY <2>1, <2>3, <3>1 DEF InOrder, OrderRead
    <3>2. CASE q # p
      <4>1. start[p] = "check" /\ start[q] = "check" => OrderOf(wanted)' = OrderOf(wanted)
        <5>1. ASSUME start[p] = "check" /\ start[q] = "check"
              PROVE  wanted \in NoDevice /\ wanted' \in NoDevice
          BY <2>5, <3>2, <5>1 DEF InOrder, BootUnasked
        <5> QED
          BY <5>1 DEF OrderOf, NoDevice
      <4>2. start[p] # "check" => wanted' = wanted
        BY <2>1
      <4> QED
        BY <2>1, <2>3, <3>2, <4>1, <4>2 DEF InOrder, OrderRead
    <3> QED
      BY <3>1, <3>2
  <2> QED
    BY <2>8, <2>9, <2>10 DEF InOrder
<1>3. ASSUME NEW p \in Starters, FailsToStart(p) PROVE InOrder'
  <2>1. /\ qemu[p].state = "starting" /\ qemu' = [qemu EXCEPT ![p] = NoHost]
        /\ UNCHANGED <<bootdev, start, order, wanted>>
    BY <1>3 DEF FailsToStart
  <2>2. qemu'[p].state = "none" /\ \A q \in Starters : q # p => qemu'[q] = qemu[q]
    BY <2>1 DEF BootTypes, NoHost
  <2>3. Up' <=> Up
    BY <2>1, <2>2 DEF Up
  <2>4. FileAgrees' /\ BootUnasked'
    BY <2>1, <2>3 DEF InOrder, FileAgrees, BootUnasked, Agrees
  <2>5. ASSUME NEW q \in Starters PROVE OrderRead(q)'
    BY <2>1, <2>2 DEF InOrder, OrderRead
  <2> QED
    BY <2>4, <2>5 DEF InOrder
<1> QED
  BY <1>1, <1>2, <1>3 DEF HostStep

\* And every command of lanserv, as long as those that use the files of startcmd
\* come after the start at boot
LEMMA CommandInOrder ==
  ASSUME BootTypes, InOrder, ~overlapped',
         \/ PowerOn \/ PowerOff \/ Reset \/ SetBoot \/ GetBoot
         \/ Identify \/ IdentifyOff \/ IdentifyEnds
  PROVE  InOrder'
<1> USE DEF Starters, startVars, hostVars, ghostVars, Goto,
        Command
<1>1. CASE PowerOn
  <2>1. /\ start["cmd"] = "idle" /\ UNCHANGED <<bootdev, qemu, order, wanted>>
        /\ \/ UNCHANGED start
           \/ /\ start' = [start EXCEPT !["cmd"] = "bridge"]
              /\ \A p \in Starters : qemu[p].state = "none"
    BY <1>1 DEF PowerOn, PidFound, Pids
  <2>2. (Up' <=> Up) /\ (Agrees' <=> Agrees)
    BY <2>1 DEF Up, Agrees
  <2>3. FileAgrees' /\ BootUnasked'
    BY <2>1, <2>2 DEF InOrder, BootTypes, FileAgrees, BootUnasked, Up
  <2>4. ASSUME NEW q \in Starters PROVE OrderRead(q)'
    BY <2>1 DEF InOrder, BootTypes, OrderRead
  <2> QED
    BY <2>3, <2>4 DEF InOrder
<1>2. CASE PowerOff \/ Reset
  <2>1. /\ start["cmd"] = "idle" /\ UNCHANGED <<bootdev, order, wanted>>
        /\ UNCHANGED start \/ start' = [start EXCEPT !["cmd"] = "bridge"]
        /\ qemu' = [p \in Starters |-> NoHost]
    BY <1>2 DEF PowerOff, Reset, KillAll
  <2>2. \A q \in Starters : qemu'[q].state = "none"
    BY <2>1 DEF NoHost
  <2>3. ~Up' /\ (Agrees' <=> Agrees)
    BY <2>1, <2>2 DEF Up, Agrees
  <2>4. FileAgrees' /\ BootUnasked'
    <3>1. qemu'["boot"].state # "starting"
      BY <2>2
    <3> QED
      BY <2>1, <2>3, <3>1 DEF InOrder, BootTypes, FileAgrees, BootUnasked
  <2>5. ASSUME NEW q \in Starters PROVE OrderRead(q)'
    BY <2>1, <2>2 DEF InOrder, BootTypes, OrderRead
  <2> QED
    BY <2>4, <2>5 DEF InOrder
<1>3. CASE SetBoot \/ GetBoot
  <2>1. /\ start["cmd"] = "idle" /\ start["boot"] = "idle"
        /\ UNCHANGED <<qemu, start, order>>
        /\ bootdev' = wanted' \/ UNCHANGED <<bootdev, wanted>>
    BY <1>3 DEF SetBoot, GetBoot, FileCommand
  <2>2. Agrees'
    BY <2>1 DEF Agrees, InOrder, FileAgrees
  <2>3. FileAgrees' /\ BootUnasked'
    BY <2>1, <2>2 DEF FileAgrees, BootUnasked
  <2>4. ASSUME NEW q \in Starters PROVE OrderRead(q)'
    BY <2>1 DEF InOrder, OrderRead
  <2> QED
    BY <2>3, <2>4 DEF InOrder
<1>4. CASE Identify \/ IdentifyOff \/ IdentifyEnds
  <2>1. UNCHANGED <<bootdev, qemu, start, order, wanted>>
    BY <1>4 DEF Identify, IdentifyOff, IdentifyEnds
  <2> QED
    BY <2>1 DEF InOrder, BootUnasked, FileAgrees, OrderRead, Agrees, Up
<1> QED
  BY <1>1, <1>2, <1>3, <1>4

\* Every step of the scripts keeps it, those of lancontrol included.
LEMMA BootKept == BootInv /\ [BmcNext]_(vars) => BootInv'
<1> SUFFICES ASSUME BootInv, [BmcNext]_(vars) PROVE BootInv'
  OBVIOUS
<1> USE DEF BootInv
<1>1. CASE Next
  <2>1. BootTypes'
    BY <1>1, BootTypesKept
  <2>2. overlapped => overlapped'
    BY <1>1 DEF Next, StartStep, AddBridge, TestAuto, AppendAuto,
                AppendIface, ReadBootdev, Launch, Check,
                ResetBootdev, HostStep, Dies, ComesUp,
                FailsToStart, PowerOn, PowerOff, Reset,
                SetBoot, GetBoot, FileCommand, Identify,
                IdentifyOff, IdentifyEnds, KillAll, ghostVars
  <2>3. gaveUp => gaveUp'
    BY <1>1 DEF Next, StartStep, AddBridge, TestAuto, AppendAuto,
                AppendIface, ReadBootdev, Launch, Check,
                ResetBootdev, HostStep, Dies, ComesUp,
                FailsToStart, PowerOn, PowerOff, Reset,
                SetBoot, GetBoot, FileCommand, Identify,
                IdentifyOff, IdentifyEnds, KillAll, ghostVars
  <2>4. misjudged => misjudged'
    BY <1>1 DEF Next, StartStep, AddBridge, TestAuto, AppendAuto,
                AppendIface, ReadBootdev, Launch, Check,
                ResetBootdev, HostStep, Dies, ComesUp,
                FailsToStart, PowerOn, PowerOff, Reset, KillAll,
                SetBoot, GetBoot, FileCommand, Identify,
                IdentifyOff, IdentifyEnds, ghostVars
  <2>5. CASE ~overlapped' /\ ~gaveUp' /\ ~misjudged'
    <3>1. InOrder
      BY <2>2, <2>3, <2>4, <2>5 DEF InOrder
    <3>2. InOrder'
      BY <1>1, <2>5, <3>1, StartInOrder, HostInOrder, CommandInOrder DEF Next
    <3> QED
      BY <2>1, <3>2 DEF InOrder
  <2> QED
    BY <2>1, <2>5
<1>2. CASE SetLan
  <2>1. /\ UNCHANGED <<bootdev, qemu, start, order, wanted, gaveUp, misjudged>>
        /\ overlapped' = (overlapped \/ start["boot"] # "idle")
    BY <1>2 DEF SetLan, FileCommand
  <2> QED
    BY <2>1 DEF BootTypes, BootUnasked, FileAgrees, OrderRead, Agrees, Up
<1>3. CASE UNCHANGED <<bootdev, qemu, start, order, wanted, overlapped, gaveUp, misjudged>>
  BY <1>3 DEF BootTypes, BootUnasked, FileAgrees, OrderRead, Agrees, Up
<1> QED
  BY <1>1, <1>2, <1>3 DEF BmcNext, ChassisStep, LanStep, vars,
     chassisVars, hostVars, startVars, ghostVars

\* Whatever commands lanserv gives while startcmd starts a host, however many
\* tries a start takes and however late a qemu comes up: the host that startcmd
\* waits for has the device that was asked for last and that no host has used,
\* unless the file of startcmd was changed while the startcmd at boot was under
\* way, or a startcmd gave up or misjudged a qemu.
THEOREM BootDeviceUsed == Spec => BootOrderHonoured
<1>1. BootInv /\ [BmcNext]_(vars)
      => [\A p \in Starters :
            Uses(p) => qemu[p].order = OrderOf(wanted) \/ overlapped \/ gaveUp \/ misjudged]_(chassisVars)
  BY DEF BootInv, OrderRead, Uses
<1> QED
  BY <1>1, BootInitial, BootKept, PTL DEF Spec, BootOrderHonoured
-----------------------------------------------------------------------------
(* The login of a client *)

CONSTANTS Logins, Demands, MaxFails

VARIABLES given, demand, todo, now, two, saved, outcome, msg, met, fails, link

Client == INSTANCE ClientLogin WITH args <- given

\* What the message on its way says of the methods that the server has accepted,
\* and of the try that the client waits for
LoginTold ==
  /\ saved # "returned"
  /\ now = Client!Nothing => msg = Client!Quiet
  /\ outcome = "returned" => now = Client!Nothing
  /\ msg.kind = "request" /\ now.method # "publickey" => msg.method \in Client!TwoFactor
  /\ msg.kind = "success" => Client!Granted
  /\ msg.kind = "failure" /\ msg.partial =>
       /\ msg.allowed = Client!Allowed(met) /\ met # {} /\ ~Client!Granted
       /\ now.method # "publickey" => met \cap Client!TwoFactor # {}

\* The result of a request says what the server has come to accept.
LEMMA ResultTold ==
  ASSUME NEW accepted, Client!SendAuthResult(accepted), LoginTold, Client!ReturnsRightly,
         UNCHANGED <<given, demand, todo, now, two, saved, outcome>>,
         now # Client!Nothing, outcome # "returned",
         now.method # "publickey" /\ accepted # {} => accepted \cap Client!TwoFactor # {}
  PROVE  LoginTold' /\ Client!ReturnsRightly'
<1>1. met' = met \cup accepted
  BY DEF Client!SendAuthResult
<1>2. \A m : Client!Enough(m) <=> \E S \in demand'.accept : S \subseteq m
  BY DEF Client!Enough
<1>3. Client!ReturnsRightly'
  BY DEF Client!ReturnsRightly
<1>4. CASE accepted # {} /\ Client!Enough(met')
  <2>1. msg' = [kind |-> "success"]
    BY <1>4 DEF Client!SendAuthResult
  <2>2. Client!Granted'
    BY <1>4 DEF Client!Granted, Client!Enough
  <2> QED
    BY <1>3, <2>1, <2>2 DEF LoginTold
<1>5. CASE ~(accepted # {} /\ Client!Enough(met'))
  <2>1. msg' = [ kind |-> "failure", partial |-> accepted # {},
                 allowed |-> UNION { S \ met' : S \in {D \in demand.accept : met' \subseteq D} } ]
    BY <1>5 DEF Client!SendAuthResult, Client!Allowed
  <2>2. accepted # {} => met' # {} /\ ~Client!Granted'
    BY <1>1, <1>5 DEF Client!Granted, Client!Enough
  <2>3. Client!Allowed(met)' =
          UNION { S \ met' : S \in {D \in demand.accept : met' \subseteq D} }
    BY DEF Client!Allowed
  <2>4. accepted # {} /\ now'.method # "publickey" => met' \cap Client!TwoFactor # {}
    BY <1>1
  <2> HIDE DEF Client!Allowed
  <2>5. msg'.kind = "failure" /\ (msg'.partial <=> accepted # {})
        /\ msg'.allowed = Client!Allowed(met)'
    BY <2>1, <2>3
  <2>6. (Client!TwoFactor)' = Client!TwoFactor /\ (Client!Nothing)' = Client!Nothing
    BY DEF Client!TwoFactor, Client!Nothing
  <2> QED
    BY <1>3, <2>2, <2>4, <2>5, <2>6 DEF LoginTold
<1> QED
  BY <1>4, <1>5

\* No step of the login ends it, and none takes back what a login has returned with.
LEMMA LoginToldKept ==
  ASSUME LoginTold, Client!ReturnsRightly, [Client!LoginNext]_(Client!loginVars)
  PROVE  LoginTold' /\ Client!ReturnsRightly'
<1> USE DEF LoginTold, Client!ReturnsRightly, Client!AsksForMore, Client!Granted, Client!Enough,
            Client!Allowed, Client!Nothing, Client!Quiet, Client!TwoFactor
<1>1. CASE UNCHANGED Client!loginVars
  BY <1>1 DEF Client!loginVars, Client!clientVars
<1>2. CASE Client!LoadFails
  BY <1>2 DEF Client!LoadFails, Client!Running, Client!Caught
<1>3. CASE Client!AuthPublickey
  BY <1>3 DEF Client!AuthPublickey, Client!Running, Client!Caught, Client!Request
<1>4. CASE Client!AuthLast
  BY <1>4 DEF Client!AuthLast, Client!Running, Client!Raise, Client!LastMethod, Client!Request
<1>5. CASE Client!HearPartial
  BY <1>5 DEF Client!HearPartial
<1>6. CASE Client!HearSuccess
  BY <1>6 DEF Client!HearSuccess
<1>7. CASE Client!HearFailure
  BY <1>7 DEF Client!HearFailure, Client!Refused, Client!Raise
<1>8. CASE Client!FallBack
  BY <1>8 DEF Client!FallBack, Client!Request
<1>9. CASE Client!Answer
  BY <1>9 DEF Client!Answer, Client!clientVars
<1>10. CASE Client!Notice
  BY <1>10 DEF Client!Notice, Client!Refused, Client!Raise, Client!clientVars
<1>11. CASE Client!ParseRequest
  <2>1. UNCHANGED <<given, demand, todo, now, two, saved, outcome>>
    BY <1>11 DEF Client!ParseRequest, Client!clientVars
  <2>2. msg.kind = "request" /\ now # Client!Nothing /\ outcome # "returned"
    BY <1>11 DEF Client!ParseRequest
  <2>3. CASE /\ msg.method = "keyboard-interactive" /\ msg.method \in Client!Allowed(met)
    BY <1>11, <2>1, <2>2, <2>3 DEF Client!ParseRequest
  <2>4. CASE ~(msg.method = "keyboard-interactive" /\ msg.method \in Client!Allowed(met))
    <3> DEFINE accepted == {m \in {msg.method} : msg.right /\ m \in Client!Allowed(met)}
    <3>1. Client!SendAuthResult(accepted)
      BY <1>11, <2>4 DEF Client!ParseRequest
    <3>2. now.method # "publickey" /\ accepted # {} => accepted \cap Client!TwoFactor # {}
      BY <2>2
    <3> QED
      BY <2>1, <2>2, <3>1, <3>2, ResultTold
  <2> QED
    BY <2>3, <2>4
<1>12. CASE Client!ParseInfoResponse
  <2>1. UNCHANGED <<given, demand, todo, now, two, saved, outcome>>
    BY <1>12 DEF Client!ParseInfoResponse, Client!clientVars
  <2>2. msg.kind = "response" /\ now # Client!Nothing /\ outcome # "returned"
    BY <1>12 DEF Client!ParseInfoResponse
  <2> DEFINE accepted == {m \in {"keyboard-interactive"} : msg.right /\ demand.rounds = 1}
  <2>3. Client!SendAuthResult(accepted)
    BY <1>12 DEF Client!ParseInfoResponse
  <2>4. accepted # {} => accepted \cap Client!TwoFactor # {}
    OBVIOUS
  <2> QED
    BY <2>1, <2>2, <2>3, <2>4, ResultTold
<1>13. CASE Client!Lose
  BY <1>13 DEF Client!Lose, Client!clientVars
<1> QED
  BY <1>1, <1>2, <1>3, <1>4, <1>5, <1>6, <1>7, <1>8, <1>9, <1>10, <1>11, <1>12, <1>13
     DEF Client!LoginNext

\* A login returns only if the server has let the client in, or asks for more
\* than SSHClient._auth can give: another key, or a second method after the last.
\* Whatever the client has, whatever the server demands, and whenever the
\* connection is lost.
THEOREM LoginReturnsRightly == Client!LoginSpec => []Client!ReturnsRightly
<1>1. Client!LoginInit => LoginTold /\ Client!ReturnsRightly
  BY DEF Client!LoginInit, LoginTold, Client!ReturnsRightly, Client!Nothing, Client!Quiet
<1>2. LoginTold /\ Client!ReturnsRightly /\ [Client!LoginNext]_(Client!loginVars)
      => LoginTold' /\ Client!ReturnsRightly'
  BY LoginToldKept
<1> QED
  BY <1>1, <1>2, PTL DEF Client!LoginSpec
=============================================================================
