---------------------------- MODULE SensorValue -----------------------------
(***************************************************************************)
(* What one cycle of a sensor thread draws: a sensor of the SDR, and the   *)
(* raw reading that get_random_value or get_fault_value returns for it.    *)
(* Then a user looks at the reading with sensor value get, and types what  *)
(* the console shows into sensor value set.  Sensor.get_reading_factor is  *)
(* the linear conversion between a raw reading and that value: a factor is *)
(* a record of the bytes of a full sensor record that parse_sdrs hands to  *)
(* the sensor.  Python computes with it in doubles, and what is shown is   *)
(* counted in thousandths, since sensor value get shows three decimals.    *)
(***************************************************************************)
EXTENDS Thresholds

CONSTANT Devices    (* threshold sensors of the SDR repository *)

ASSUME DevicesAssumption ==
  Devices \subseteq Sensor /\ \A t \in Devices : WellOrdered(t)

VARIABLES
  sensor,   (* the sensor of this thread                                      *)
  drawn,    (* what the reading was drawn for: "auto", a level, or "raised"   *)
  reading   (* the reading                                                    *)

readingVars == <<sensor, drawn, reading>>

ReadingsInit ==
  /\ sensor \in Devices
  /\ drawn = "none"
  /\ reading = 0

\* random.randint: any member of the interval, or ValueError if it is empty
Draw(what, interval) ==
  /\ drawn = "none"
  /\ \/ drawn' = what /\ reading' \in interval
     \/ interval = {} /\ drawn' = "raised" /\ reading' = reading
  /\ UNCHANGED sensor

DrawAuto == Draw("auto", AutoInterval(sensor))

\* A level that the sensor does not have yields None, and nothing is drawn.
DrawFault(l) == l \in sensor.readable /\ Draw(l, FaultInterval(sensor, l))

ReadingsNext == DrawAuto \/ \E l \in Levels : DrawFault(l)

ReadingsSpec == ReadingsInit /\ [][ReadingsNext]_readingVars

-----------------------------------------------------------------------------
\* README of the tool, "auto mode: ... between the lnc and unc thresholds": no
\* reading of get_random_value crosses a threshold of the sensor, whichever of
\* its thresholds exist.
AutoCrossesNothing ==
  drawn = "auto" => \A l \in Levels : ~Crosses(sensor, reading, l)

\* A reading of get_fault_value crosses the level it was drawn for, and not the
\* next severer one.
FaultCrossesLevel ==
  drawn \in Levels =>
    /\ Crosses(sensor, reading, drawn)
    /\ Severer(drawn) = drawn \/ ~Crosses(sensor, reading, Severer(drawn))

\* random.randint gets no empty interval, which would end the thread, for a
\* sensor with an unsigned data format.
UnsignedNeverRaises == drawn = "raised" => sensor.signed
-----------------------------------------------------------------------------
(* The factor *)

Byte   == 0 .. 255
Factor == [m_lb : Byte, m_ub : Byte, b_lb : Byte, b_ub : Byte, exp : Byte]

\* (m_ub & 0xc0) << 2 puts two bits above the low byte; the code knows no
\* sign of M, nor of the exponent of B.
M(f)     == (f.m_ub \div 64) * 256 + f.m_lb
Bexpo(f) == f.exp % 16

\* ~(n ^ ones) of the code, where n has as many bits as ones: the complement
\* within these bits, and then the one of an unbounded integer
Negated(n, ones) == -(ones - n) - 1

\* Bit 7 of b_ub is the sign, bit 6 goes above the low byte.
B(f) ==
  IF f.b_ub \div 128 = 1
    THEN Negated(((f.b_ub \div 64) % 2) * 256 + f.b_lb, 511)
    ELSE (f.b_ub \div 64) * 256 + f.b_lb

\* Bit 7 of exp is the sign, bits 4 to 6 are the magnitude.
Rexpo(f) ==
  IF f.exp \div 128 = 1 THEN Negated((f.exp \div 16) % 8, 7) ELSE f.exp \div 16

Offset(f) == B(f) * 10^Bexpo(f)

-----------------------------------------------------------------------------
(* The doubles of Python: [m, e] is m * 2^e, where m has so many bits that  *)
(* every integer up to Mantissas is one.  Nothing is as large or as small  *)
(* that the exponent would not do.                                         *)

CONSTANT Mantissas    (* 2^53 *)

ASSUME MantissasAssumption == Mantissas \in Nat /\ Mantissas >= 1024

Magnitude(n) == IF n < 0 THEN -n ELSE n
Exact(n) == Magnitude(n) <= Mantissas

\* The integer next to n/d, d > 0, and the even one if two are as near
Nearest(n, d) ==
  LET q == n \div d
      r == n % d
  IN  IF 2 * r < d \/ (2 * r = d /\ q % 2 = 0) THEN q ELSE q + 1

\* The double next to n/d * 2^e: the result of every operation, and what
\* float() makes of an integer or of a text
Float(n, d, e) ==
  LET Large(k) == Magnitude(n) \div (Mantissas * 2^k) >= d
      Room(k) == Magnitude(n) * 2^k < d * Mantissas
  IN  IF n % d = 0 /\ Exact(n \div d) THEN [m |-> n \div d, e |-> e]
      ELSE IF Large(0)
        THEN LET k == CHOOSE k \in 1 .. 128 : ~Large(k) /\ Large(k - 1)
             IN  [m |-> Nearest(n, d * 2^k), e |-> e + k]
      ELSE LET k == CHOOSE k \in 0 .. 128 : Room(k) /\ ~Room(k + 1)
           IN  [m |-> Nearest(n * 2^k, d), e |-> e - k]

Times(a, b) == Float(a.m * b.m, 1, a.e + b.e)

Over(a, b) ==
  Float(IF b.m < 0 THEN -a.m ELSE a.m, Magnitude(b.m), a.e - b.e)

Minus(a, b) ==
  LET e == IF a.e < b.e THEN a.e ELSE b.e
  IN  Float(a.m * 2^(a.e - e) - b.m * 2^(b.e - e), 1, e)

\* '%.3f': the nearest thousandth
Thousandths(a) ==
  IF a.e >= 0 THEN 1000 * a.m * 2^a.e ELSE Nearest(1000 * a.m, 2^(-a.e))

\* int(), which cuts the decimals off
Truncate(a) ==
  LET whole == IF a.e >= 0 THEN Magnitude(a.m) * 2^a.e ELSE Magnitude(a.m) \div 2^(-a.e)
  IN  IF a.m < 0 THEN -whole ELSE whole

\* 10**Rexpo, which is an integer unless Rexpo is negative
Scale(f) ==
  IF Rexpo(f) >= 0 THEN Float(10^Rexpo(f), 1, 0) ELSE Float(1, 10^(-Rexpo(f)), 0)

\* '%.3f' % formula_1(x): integers are exact until they meet a double.
Shown(f, x) ==
  LET n == M(f) * x + Offset(f)
  IN  Thousandths(IF Rexpo(f) >= 0 THEN Float(n * 10^Rexpo(f), 1, 0)
                  ELSE Times(Float(n, 1, 0), Scale(f)))

\* Seeded bug: the offset is taken without its exponent.
RawOfUnscaled(f, s) ==
  Truncate(Over(Minus(Over(Float(s, 1000, 0), Scale(f)), Float(B(f), 1, 0)), Float(M(f), 1, 0)))

\* int(formula_2(float(text))), M # 0
RawOf(f, s) ==
  Truncate(Over(Minus(Over(Float(s, 1000, 0), Scale(f)), Float(Offset(f), 1, 0)),
                Float(M(f), 1, 0)))

-----------------------------------------------------------------------------
(* get and set *)

CONSTANT FactorsOf(_)   (* the factors that the record of a device may have *)

ASSUME FactorsAssumption == \A t \in Devices : FactorsOf(t) \subseteq Factor

VARIABLES
  factor,   (* the factor of the sensor                                     *)
  shown     (* the answer of get: <<text, raw>>, or NoAnswer                *)

NoAnswer == <<>>

valueVars == <<readingVars, factor, shown>>

ValueInit == ReadingsInit /\ factor \in FactorsOf(sensor) /\ shown = NoAnswer

DrawValue == ReadingsNext /\ UNCHANGED <<factor, shown>>

\* get_sensor_value
GetValue ==
  /\ drawn \in Levels \cup {"auto"}
  /\ shown' = <<Shown(factor, reading), reading>>
  /\ UNCHANGED <<readingVars, factor>>

\* set_sensor_value with what was shown; with M = 0 the division raises
\* ZeroDivisionError before anything is assigned.
SetValue ==
  /\ shown # NoAnswer /\ drawn # "user" /\ drawn # "failed"
  /\ IF M(factor) = 0
       THEN drawn' = "failed" /\ UNCHANGED reading
       ELSE drawn' = "user" /\ reading' = RawOf(factor, shown[1])
  /\ UNCHANGED <<sensor, factor, shown>>

ValueNext == DrawValue \/ GetValue \/ SetValue

ValueSpec == ValueInit /\ [][ValueNext]_valueVars

-----------------------------------------------------------------------------
(* The reference: two's complement, numbers below 2*half.                 *)

TwosComplement(n, half) == IF n >= half THEN n - 2 * half ELSE n

-----------------------------------------------------------------------------
\* The shifts and complements of get_reading_factor read B as a number of ten
\* bits and Rexpo as one of four bits, in two's complement, whatever the other
\* bits of their bytes are.
FactorDecodes ==
  /\ B(factor) = TwosComplement((factor.b_ub \div 64) * 256 + factor.b_lb, 512)
  /\ Rexpo(factor) = TwosComplement(factor.exp \div 16, 8)

TowardZero(q) == IF q > 0 THEN q - 1 ELSE IF q < 0 THEN q + 1 ELSE 0

\* No integer of the two formulas for x is too large for a double.
IntegersExact(f, x) ==
  /\ Exact(M(f) * x) /\ Exact(Offset(f)) /\ Exact(M(f) * x + Offset(f))
  /\ Rexpo(f) >= 0 => Exact(10^Rexpo(f)) /\ Exact((M(f) * x + Offset(f)) * 10^Rexpo(f))

\* What sensor value get shows, typed into sensor value set, gives the raw
\* value back where the integers fit a double and Rexpo is not negative.
GoesBack ==
  drawn = "user" /\ Rexpo(factor) >= 0 /\ IntegersExact(factor, shown[2]) => reading = shown[2]

\* With a negative Rexpo it gives it back or its neighbour towards zero, where
\* the three decimals tell raw values apart and three bits of the double are
\* left for the errors of its four operations.  Nothing is promised beyond: with large
\* exponents of B or R the raw value is lost.
RoundTrip ==
  /\ FactorDecodes /\ GoesBack
  /\ drawn = "user" /\ Rexpo(factor) \in -3 .. -1 /\ IntegersExact(factor, shown[2])
     /\ Exact(8 * (M(factor) * shown[2] + Offset(factor)) * 10^(Rexpo(factor) + 3)) =>
       reading \in {shown[2], TowardZero(shown[2])}
=============================================================================
