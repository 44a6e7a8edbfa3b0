---------------------------- MODULE SensorWrites ----------------------------
(***************************************************************************)
(* Sessions that set discrete sensors (DiscreteSensor) and add events      *)
(* (SensorEvents).  A session executes one command at a time, and all      *)
(* commands share the telnet object behind common.lock.                    *)
(***************************************************************************)
EXTENDS Integers, Sequences

CONSTANTS
  Sessions, Sensors, Discrete, Reach, States, Unread, Events, Known, Typed,
  MaxLog, Nobody, LinkFails

ASSUME WritesAssumption ==
  /\ Sensors \subseteq Nat \ {0}
  /\ Discrete \subseteq Sensors
  /\ Reach \in [Sessions -> SUBSET Sensors]
  /\ States \subseteq Nat
  /\ \A v \in SUBSET States : v # Unread
  /\ Events \subseteq Nat \ {0}
  /\ Known \in [Sensors -> SUBSET Events]
  /\ Typed \subseteq [sensor : Sensors, dir : {0, 1}, data : [1 .. 3 -> Events]]
  /\ MaxLog \in Nat
  /\ Nobody \notin Sessions
  /\ LinkFails \in BOOLEAN

VARIABLES value, writeLock, bits, lost, write, sel, log, ask, line, pc, tn

D == INSTANCE DiscreteSensor
E == INSTANCE SensorEvents

vars == <<value, writeLock, bits, lost, write, sel, log, ask, line, pc, tn>>

Init ==
  /\ D!Init
  /\ E!Init
  /\ pc = [c \in Sessions |-> "idle"]
  /\ tn = Nobody

Next ==
  \/ D!Next /\ UNCHANGED <<sel, log, ask, line>>
  \/ E!Next /\ UNCHANGED <<value, writeLock, bits, lost, write>>

Spec == Init /\ [][Next]_vars

-----------------------------------------------------------------------------
\* Every variable has a value of its type.
TypeOK ==
  /\ D!TypeOK
  /\ E!TypeOK
  /\ pc \in [Sessions -> {"idle"} \cup D!Labels \cup E!Labels]
  /\ tn \in Sessions \cup {Nobody}

BitsAgree  == D!BitsAgree
EventsKept == E!EventsKept
=============================================================================
