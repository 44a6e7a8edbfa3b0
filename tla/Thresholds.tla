----------------------------- MODULE Thresholds -----------------------------
(***************************************************************************)
(* The intervals from which a sensor thread draws its raw readings: the    *)
(* pure part of Sensor.get_random_value and Sensor.get_fault_value.        *)
(*                                                                         *)
(* A sensor is a record [signed, readable, raw]: the analog data format of *)
(* its unit byte su1, the levels whose bit is set in the mask rtm, and the *)
(* raw byte of each threshold, which parse_sdrs reads unsigned whatever    *)
(* the format.  Half is 128 in the code: a raw byte is in 0 .. 2*Half-1.   *)
(***************************************************************************)
EXTENDS Integers

CONSTANT Half

ASSUME HalfAssumption == Half \in Nat \ {0}

Lower  == {"lnc", "lc", "lnr"}
Upper  == {"unc", "uc", "unr"}
Levels == Lower \cup Upper
Bytes  == 0 .. 2 * Half - 1

\* The next level that is more severe; unr and lnr are the most severe ones.
Severer(l) ==
  CASE l = "lnc" -> "lc" [] l = "lc" -> "lnr" [] l = "lnr" -> "lnr"
    [] l = "unc" -> "uc" [] l = "uc" -> "unr" [] l = "unr" -> "unr"

\* The threshold that bounds the normal readings on one side, if there is one.
Innermost(levels, t) ==
  LET a == levels[1]  b == levels[2]  c == levels[3]
  IN IF a \in t.readable THEN a
     ELSE IF b \in t.readable THEN b
     ELSE IF c \in t.readable THEN c ELSE "none"

InnerLower(t) == Innermost(<<"lnc", "lc", "lnr">>, t)
InnerUpper(t) == Innermost(<<"unc", "uc", "unr">>, t)

\* MAX of get_fault_value, and high_value of get_random_value
MaxRaw(t) == IF t.signed THEN Half - 1 ELSE 2 * Half - 1

\* low_value of get_random_value
MinRaw(t) == IF t.signed THEN 1 - Half ELSE 0

\* Seeded bug: the thresholds themselves are drawn as well.
AutoIntervalClosed(t) ==
  (IF InnerLower(t) = "none" THEN MinRaw(t) ELSE t.raw[InnerLower(t)])
  ..
  (IF InnerUpper(t) = "none" THEN MaxRaw(t) ELSE t.raw[InnerUpper(t)])

\* get_random_value
AutoInterval(t) ==
  (IF InnerLower(t) = "none" THEN MinRaw(t) ELSE t.raw[InnerLower(t)] + 1)
  ..
  (IF InnerUpper(t) = "none" THEN MaxRaw(t) ELSE t.raw[InnerUpper(t)] - 1)

\* Seeded bug: the interval of a level includes the severer threshold.
FaultIntervalClosed(t, l) ==
  LET next     == Severer(l)
      bounded  == next # l /\ next \in t.readable
  IN IF l \in Lower
       THEN (IF bounded THEN t.raw[next] ELSE 0) .. t.raw[l]
       ELSE t.raw[l] .. (IF bounded THEN t.raw[next] ELSE MaxRaw(t))

\* Seeded bug: the interval of an upper level starts above its threshold.
FaultIntervalAbove(t, l) ==
  LET next     == Severer(l)
      bounded  == next # l /\ next \in t.readable
  IN IF l \in Lower
       THEN (IF bounded THEN t.raw[next] + 1 ELSE 0) .. t.raw[l]
       ELSE t.raw[l] + 1 .. (IF bounded THEN t.raw[next] - 1 ELSE MaxRaw(t))

\* get_fault_value, for a level that the sensor has: from its threshold to the
\* severer one, or to the end of the scale if the sensor does not have that
FaultInterval(t, l) ==
  LET next     == Severer(l)
      bounded  == next # l /\ next \in t.readable
  IN IF l \in Lower
       THEN (IF bounded THEN t.raw[next] + 1 ELSE 0) .. t.raw[l]
       ELSE t.raw[l] .. (IF bounded THEN t.raw[next] - 1 ELSE MaxRaw(t))

-----------------------------------------------------------------------------
(* The reference: when a raw reading crosses a threshold.                  *)

Crosses(t, v, l) ==
  l \in t.readable /\ IF l \in Lower THEN v <= t.raw[l] ELSE v >= t.raw[l]

\* The thresholds of a side get severer in their order, and some reading lies
\* strictly between the two sides.
WellOrdered(t) ==
  /\ t.raw["lnr"] < t.raw["lc"]  /\ t.raw["lc"] < t.raw["lnc"]
  /\ t.raw["lnc"] + 1 < t.raw["unc"]
  /\ t.raw["unc"] < t.raw["uc"]  /\ t.raw["uc"] < t.raw["unr"]

Sensor == [ signed : BOOLEAN, readable : SUBSET Levels, raw : [Levels -> Bytes] ]
=============================================================================
