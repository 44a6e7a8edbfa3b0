--------------------------- MODULE MCTwoSessions ---------------------------
(***************************************************************************)
(* Two sessions, for TLC: on the console that they share ("console"), or   *)
(* on a discrete sensor 1 and a sensor 2 of another type, which they share *)
(* or not ("writes").  Every behaviour belongs to one of the two, and the  *)
(* other stays in an initial state of its own.                             *)
(***************************************************************************)
EXTENDS SensorWrites

CONSTANTS c1, c2

MCApart    == [c \in Sessions |-> IF c = c1 THEN {1} ELSE {2}]
MCTogether == [c \in Sessions |-> {1}]

MCTyped == {[sensor |-> 1, dir |-> 1, data |-> <<1, 2, 2>>]}

\* There is no table for the types of sensor 1.
MCKnown == [s \in Sensors |-> IF s = 1 THEN {} ELSE Events]

-----------------------------------------------------------------------------
CONSTANTS Kinds, Limit, MaxCommands, MaxWarnings

VARIABLES
  part,                                              (* which of the two *)
  queue, response, history, place, cmd, num, idx,    (* Console          *)
  held, loaded, issued, warned, delivered, recorded

consoleVars ==
  <<queue, response, history, place, cmd, num, idx, held, loaded, issued, warned, delivered, recorded>>

Terminal == INSTANCE Console WITH pc <- place

\* Sessions that have counted the history before another one appends to it
\* (command.py:445-486) lengthen it by one command each, and not by more.
HistoryNearlyBounded == Terminal!HistoryNearlyBounded

-----------------------------------------------------------------------------
TwoInit ==
  /\ part \in {"console", "writes"}
  /\ part = "console" => bits = [s \in Discrete |-> {}] /\ value = bits
  /\ Init /\ Terminal!Init

TwoNext ==
  \/ part = "console" /\ Terminal!Next /\ UNCHANGED <<part, vars>>
  \/ part = "writes" /\ Next /\ UNCHANGED <<part, consoleVars>>

TwoSpec == TwoInit /\ [][TwoNext]_<<part, vars, consoleVars>>
=============================================================================
