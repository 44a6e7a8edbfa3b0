---------------------------- MODULE SensorEvents ----------------------------
(***************************************************************************)
(* Adding an event to the system event log: set_sel and set_oem_sel        *)
(* (command.py), Sensor.set_sel and class SEL.                             *)
(*                                                                         *)
(* A sensor has one SEL object, whose attributes are filled in for an      *)
(* event and then formatted; all sessions use it.  A row of the event      *)
(* tables gives the three data bytes of an event: here byte i of event e   *)
(* is e itself, so that a record whose bytes come from two events shows.   *)
(* The attributes that initialize_sel sets stand for the sensor.           *)
(*                                                                         *)
(* "sel set oem" with a record type from 0xC0 on calls methods that the    *)
(* OEM classes do not have: AttributeError, and nothing is changed or sent *)
(* (README).  The variables pc and tn belong to DiscreteSensor as well.    *)
(***************************************************************************)
EXTENDS Integers, Sequences

CONSTANTS
  Sessions,   (* console sessions                                             *)
  Sensors,    (* all sensors                                                  *)
  Reach,      (* Reach[c]: the sensors that session c sends commands to       *)
  Events,     (* event ids, natural numbers                                   *)
  Known,      (* Known[s]: the ids in the table for the types of sensor s     *)
  Typed,      (* the records that users type in full                          *)
  MaxLog,     (* bound: no event is asked for when the log is that long       *)
  Nobody,     (* the holder of a lock that is free                            *)
  LinkFails   (* TRUE if connecting to lanserv may raise socket.error         *)

VARIABLES
  sel,        (* sel[s]: the attributes event_dir and event_data_1 .. 3       *)
  log,        (* the records that lanserv has added                           *)
  ask,        (* ask[c]: the arguments of the command of session c            *)
  line,       (* line[c]: the command line that it has formatted              *)
  pc,         (* pc[c]: where session c is in its command                     *)
  tn          (* the holder of common.lock                                    *)

eventVars == <<sel, log, ask, line>>

Bytes == 1 .. 3

\* 0 for "assert", 1 for "deassert"
Dirs == {0, 1}

Goto(c, label) == pc' = [pc EXCEPT ![c] = label]

\* The record of an event that is of one piece.
Record(s, e, d) == [sensor |-> s, dir |-> d, data |-> [i \in Bytes |-> e]]

Records ==
  [sensor : Sensors \cup {0}, dir : Dirs, data : [Bytes -> Events \cup {0}]]

NoRecord == Record(0, 0, 0)

NoAsk == [sensor |-> 0, event |-> 0, dir |-> 0]

Init ==
  /\ sel = [s \in Sensors |-> [dir |-> 0, data |-> [i \in Bytes |-> 0]]]
  /\ log = <<>>
  /\ ask = [c \in Sessions |-> NoAsk]
  /\ line = [c \in Sessions |-> NoRecord]

\* "sel set s e assert|deassert"
ReceiveSel(c) ==
  /\ pc[c] = "idle"
  /\ Len(log) < MaxLog
  /\ \E s \in Reach[c], e \in Events, d \in Dirs :
       ask' = [ask EXCEPT ![c] = [sensor |-> s, event |-> e, dir |-> d]]
  /\ Goto(c, "check")
  /\ UNCHANGED <<sel, log, line, tn>>

\* "sel set oem 0x02 ...": a SEL object of its own, any bytes that the user types
ReceiveOem(c) ==
  /\ pc[c] = "idle"
  /\ Len(log) < MaxLog
  /\ \E r \in Typed : line' = [line EXCEPT ![c] = r]
  /\ Goto(c, "connectSel")
  /\ UNCHANGED <<sel, log, ask, tn>>

\* check_event_type, check_sensor_type and the table of set_event_data: nothing
\* is assigned when one of them refuses or when there is no table (KeyError)
Check(c) ==
  /\ pc[c] = "check"
  /\ \/ /\ ask[c].event \in Known[ask[c].sensor]
        /\ Goto(c, "data1")
        /\ UNCHANGED ask
     \/ /\ ask[c].event \notin Known[ask[c].sensor]
        /\ ask' = [ask EXCEPT ![c] = NoAsk]
        /\ Goto(c, "idle")
  /\ UNCHANGED <<sel, log, line, tn>>

DataLabel == <<"data1", "data2", "data3">>

\* self.event_data_1 = ..., and then 2 and 3
SetData(c) ==
  \E i \in Bytes :
    /\ pc[c] = DataLabel[i]
    /\ sel' = [sel EXCEPT ![ask[c].sensor].data[i] = ask[c].event]
    /\ Goto(c, IF i = 3 THEN "dir" ELSE DataLabel[i + 1])
    /\ UNCHANGED <<log, ask, line, tn>>

\* Seeded bug: the direction is left as the last event had it.
KeepDir(c) ==
  /\ pc[c] = "dir"
  /\ Goto(c, "format")
  /\ UNCHANGED <<eventVars, tn>>

\* self.sel.set_event_dir(event_dir)
SetDir(c) ==
  /\ pc[c] = "dir"
  /\ sel' = [sel EXCEPT ![ask[c].sensor].dir = ask[c].dir]
  /\ Goto(c, "format")
  /\ UNCHANGED <<log, ask, line, tn>>

\* the sel_add line of send_event, whose attributes are read in one expression
Format(c) ==
  LET s == ask[c].sensor IN
  /\ pc[c] = "format"
  /\ line' = [line EXCEPT ![c] = [sensor |-> s, dir |-> sel[s].dir, data |-> sel[s].data]]
  /\ ask' = [ask EXCEPT ![c] = NoAsk]
  /\ Goto(c, "connectSel")
  /\ UNCHANGED <<sel, log, tn>>

ConnectSel(c) ==
  /\ pc[c] = "connectSel"
  /\ tn = Nobody
  /\ tn' = c
  /\ Goto(c, "sendSel")
  /\ UNCHANGED eventVars

SendSel(c) ==
  /\ pc[c] = "sendSel"
  /\ tn' = Nobody
  /\ \/ log' = Append(log, line[c])
     \/ LinkFails /\ UNCHANGED log
  /\ line' = [line EXCEPT ![c] = NoRecord]
  /\ Goto(c, "idle")
  /\ UNCHANGED <<sel, ask>>

EventStep(c) ==
  \/ Check(c) \/ SetData(c) \/ SetDir(c) \/ Format(c) \/ ConnectSel(c) \/ SendSel(c)

Next == \E c \in Sessions : ReceiveSel(c) \/ ReceiveOem(c) \/ EventStep(c)

-----------------------------------------------------------------------------
Filling == {"data1", "data2", "data3", "dir", "format"}

Labels == {"check", "connectSel", "sendSel"} \cup Filling

\* Every variable has a value of its type.
TypeOK ==
  /\ sel \in [Sensors -> [dir : Dirs, data : [Bytes -> Events \cup {0}]]]
  /\ log \in Seq(Records)
  /\ ask \in [Sessions -> [sensor : Sensors \cup {0}, event : Events \cup {0}, dir : Dirs]]
  /\ line \in [Sessions -> Records]

\* What a session has asked for: the line if it is formatted, the event of its
\* arguments before.
Asked(c) ==
  IF line[c] # NoRecord THEN line[c] ELSE Record(ask[c].sensor, ask[c].event, ask[c].dir)

Promise == INSTANCE EventPromise WITH asked <- [c \in Sessions |-> Asked(c)]

\* Docstring of set_sel, "add SEL entry for a particular sensor or OEM sensor": each
\* command adds the record of its own event to the log, or none if the event is
\* unknown or lanserv is not there.
EventsKept == Promise!Spec
=============================================================================
