---------------------------- MODULE MCOneSession ----------------------------
(***************************************************************************)
(* The commands of a session that is alone, for TLC: either on the console *)
(* ("console") or on threshold sensors ("control").  The two share nothing *)
(* here: every behaviour belongs to one of them, and the other stays in an *)
(* initial state of its own.                                               *)
(***************************************************************************)
EXTENDS Console

CONSTANTS c1, NumSensors, Readings, SetModes, SetLevels, LinkFails, Nobody, NoReading

VARIABLES
  part,                                                  (* which of the two *)
  mode, faultLevel, value, quit, cond, tpc, tval, probe, (* SensorControl    *)
  spc, command, tn, bmc, mpc, mi

controlVars ==
  <<mode, faultLevel, value, quit, cond, tpc, tval, probe, spc, command, tn, bmc, mpc, mi>>

\* Sensors without thresholds: auto mode draws from all readings.
AutoRanges  == [s \in 1 .. NumSensors |-> Readings]
Readables   == [s \in 1 .. NumSensors |-> {}]
FaultRanges == [s \in 1 .. NumSensors |-> [l \in {"lnc", "lc", "lnr", "unc", "uc", "unr"} |-> {}]]

Control == INSTANCE SensorControl WITH
  AutoRange <- AutoRanges, Readable <- Readables, FaultRange <- FaultRanges, cmd <- command

\* Docstring of set_sensor_value, "Set sensor value to sensor object, and then
\* write back to openipmi data structure": with a session and the threads of the
\* sensors both writing, object and lanserv agree once nobody is publishing.
BmcAgrees == Control!BmcAgrees

-----------------------------------------------------------------------------
OneInit ==
  /\ part \in {"console", "control"}
  /\ part = "console" => value = [s \in 1 .. NumSensors |-> CHOOSE r \in Readings : TRUE]
  /\ Init /\ Control!Init

OneNext ==
  \/ part = "console" /\ Next /\ UNCHANGED <<part, controlVars>>
  \/ part = "control" /\ Control!Next /\ UNCHANGED <<part, vars>>

OneSpec ==
  /\ OneInit /\ [][OneNext]_<<part, vars, controlVars>>
  /\ \A c \in Sessions : WF_vars(Serve(c))
=============================================================================
