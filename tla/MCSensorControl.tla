-------------------------- MODULE MCSensorControl --------------------------
(***************************************************************************)
(* Instances of SensorControl for TLC.  The intervals are those of module  *)
(* Thresholds on a scale of ten raw readings, of which a run keeps the     *)
(* representatives that it names in Readings.                              *)
(***************************************************************************)
EXTENDS SensorControl, TLC

CONSTANTS c1, c2

Scale == INSTANCE Thresholds WITH Half <- 5

\* Sensor 1 has the upper thresholds 7, 8 and 9; the others have none.
Thr(s) ==
  [ signed   |-> FALSE,
    readable |-> IF s = 1 THEN {"unc", "uc", "unr"} ELSE {},
    raw      |-> [ lnr |-> 0, lc |-> 1, lnc |-> 2, unc |-> 7, uc |-> 8, unr |-> 9 ] ]

MCAutoRange  == [s \in Sensors |-> Scale!AutoInterval(Thr(s)) \cap Readings]
MCReadable   == [s \in Sensors |-> Thr(s).readable]
MCFaultRange ==
  [s \in Sensors |-> [l \in Levels |-> Scale!FaultInterval(Thr(s), l) \cap Readings]]

SessionSymmetry == Permutations(Sessions)
=============================================================================
