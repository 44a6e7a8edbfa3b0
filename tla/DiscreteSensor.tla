--------------------------- MODULE DiscreteSensor ---------------------------
(***************************************************************************)
(* Setting the state bits of a discrete sensor: set_sensor_value           *)
(* (command.py) and set_discrete_value (sensor.py).                        *)
(*                                                                         *)
(* The value of a discrete sensor is a string of two bytes, of which only  *)
(* the bits of states 0 to 14 are compared and sent; here it is the set of *)
(* the states whose bit is 1.  lanserv is told of each bit that differs by *)
(* a command of its own, one after the other, while the lock               *)
(* lock_sensor_write of the sensor is held.                                *)
(*                                                                         *)
(* The variables pc and tn belong to SensorEvents as well, see             *)
(* SensorWrites.                                                           *)
(***************************************************************************)
EXTENDS Integers

CONSTANTS
  Sessions,   (* console sessions                                             *)
  Discrete,   (* the discrete sensors                                         *)
  Reach,      (* Reach[c]: the sensors that session c sends commands to       *)
  States,     (* the states of a sensor, 0 .. 14 in the code                  *)
  Unread,     (* the value of a sensor whose reading failed at the start      *)
  Nobody,     (* the holder of a lock that is free                            *)
  LinkFails   (* TRUE if connecting to lanserv may raise socket.error         *)

VARIABLES
  value,      (* value[s]: Sensor.value                                       *)
  writeLock,  (* writeLock[s]: the holder of Sensor.lock_sensor_write         *)
  bits,       (* bits[s]: the states that lanserv has set                     *)
  lost,       (* lost[s]: the states whose last command did not get through   *)
  write,      (* write[c]: the sensor, the new value and list_diff            *)
  pc,         (* pc[c]: where session c is in its command                     *)
  tn          (* the holder of common.lock                                    *)

discreteVars == <<value, writeLock, bits, lost, write>>

Goto(c, label) == pc' = [pc EXCEPT ![c] = label]

SymDiff(a, b) == (a \ b) \cup (b \ a)

\* The states are compared, and sent, in their order.
First(i, states) == i \in states /\ \A j \in states : i <= j

NoWrite == [sensor |-> 0, target |-> {}, diff |-> {}]

Init ==
  /\ bits \in [Discrete -> SUBSET States]
  /\ value \in [Discrete -> {Unread} \cup SUBSET States]
  /\ \A s \in Discrete : value[s] \in {bits[s], Unread}
  /\ writeLock = [s \in Discrete |-> Nobody]
  /\ lost = [s \in Discrete |-> {}]
  /\ write = [c \in Sessions |-> NoWrite]

\* "sensor value set s v", with a v of four digits; others change nothing
ReceiveValue(c) ==
  /\ pc[c] = "idle"
  /\ \E s \in Reach[c] \cap Discrete, v \in SUBSET States :
       write' = [write EXCEPT ![c] = [sensor |-> s, target |-> v, diff |-> {}]]
  /\ Goto(c, "compare")
  /\ UNCHANGED <<value, writeLock, bits, lost, tn>>

\* list_diff, from a value that another session may be about to change.  A
\* value that is the number 0 has no [4:6]: TypeError, which the session ignores.
Compare(c) ==
  LET s == write[c].sensor IN
  /\ pc[c] = "compare"
  /\ \/ /\ value[s] # Unread
        /\ write' = [write EXCEPT ![c].diff = SymDiff(value[s], write[c].target)]
        /\ Goto(c, "lockWrite")
     \/ /\ value[s] = Unread
        /\ write' = [write EXCEPT ![c] = NoWrite]
        /\ Goto(c, "idle")
  /\ UNCHANGED <<value, writeLock, bits, lost, tn>>

\* lock_sensor_write.acquire()
LockWrite(c) ==
  LET s == write[c].sensor IN
  /\ pc[c] = "lockWrite"
  /\ writeLock[s] = Nobody
  /\ writeLock' = [writeLock EXCEPT ![s] = c]
  /\ Goto(c, "storeValue")
  /\ UNCHANGED <<value, bits, lost, write, tn>>

\* self.value = value
StoreValue(c) ==
  /\ pc[c] = "storeValue"
  /\ value' = [value EXCEPT ![write[c].sensor] = write[c].target]
  /\ Goto(c, "nextBit")
  /\ UNCHANGED <<writeLock, bits, lost, write, tn>>

\* for diff in list_diff: the lock of send_ipmi_sim_command
ConnectBit(c) ==
  /\ pc[c] = "nextBit"
  /\ write[c].diff # {}
  /\ tn = Nobody
  /\ tn' = c
  /\ Goto(c, "sendBit")
  /\ UNCHANGED discreteVars

\* Seeded bug: every command sets its bit, none clears it.
SendBitSet(c) ==
  LET s == write[c].sensor IN
  /\ pc[c] = "sendBit"
  /\ tn' = Nobody
  /\ \E i \in States :
       /\ First(i, write[c].diff)
       /\ bits' = [bits EXCEPT ![s] = @ \cup {i}]
       /\ lost' = [lost EXCEPT ![s] = @ \ {i}]
       /\ write' = [write EXCEPT ![c].diff = @ \ {i}]
  /\ Goto(c, "nextBit")
  /\ UNCHANGED <<value, writeLock>>

\* sensor_set_bit, and the release; an error of the connection is not reported
SendBit(c) ==
  LET s == write[c].sensor IN
  /\ pc[c] = "sendBit"
  /\ tn' = Nobody
  /\ \E i \in States :
       /\ First(i, write[c].diff)
       /\ \/ /\ bits' = [bits EXCEPT ![s] =
                           IF i \in write[c].target THEN @ \cup {i} ELSE @ \ {i}]
             /\ lost' = [lost EXCEPT ![s] = @ \ {i}]
          \/ /\ LinkFails
             /\ lost' = [lost EXCEPT ![s] = @ \cup {i}]
             /\ UNCHANGED bits
       /\ write' = [write EXCEPT ![c].diff = @ \ {i}]
  /\ Goto(c, "nextBit")
  /\ UNCHANGED <<value, writeLock>>

\* lock_sensor_write.release()
UnlockWrite(c) ==
  /\ pc[c] = "nextBit"
  /\ write[c].diff = {}
  /\ writeLock' = [writeLock EXCEPT ![write[c].sensor] = Nobody]
  /\ write' = [write EXCEPT ![c] = NoWrite]
  /\ Goto(c, "idle")
  /\ UNCHANGED <<value, bits, lost, tn>>

WriteStep(c) ==
  \/ Compare(c) \/ LockWrite(c) \/ StoreValue(c) \/ ConnectBit(c) \/ SendBit(c)
  \/ UnlockWrite(c)

Next == \E c \in Sessions : ReceiveValue(c) \/ WriteStep(c)

-----------------------------------------------------------------------------
Writing == {"storeValue", "nextBit", "sendBit"}

Labels == {"compare", "lockWrite"} \cup Writing

\* Every variable has a value of its type.
TypeOK ==
  /\ value \in [Discrete -> {Unread} \cup SUBSET States]
  /\ writeLock \in [Discrete -> Sessions \cup {Nobody}]
  /\ bits \in [Discrete -> SUBSET States]
  /\ lost \in [Discrete -> SUBSET States]
  /\ write \in [Sessions ->
       [sensor : Discrete \cup {0}, target : SUBSET States, diff : SUBSET States]]

\* Docstring of set_sensor_value, "Set sensor value to sensor object, and then
\* write back to openipmi data structure": unless somebody is writing, the bits of
\* lanserv are those of the value, but for bits whose command was lost.
BitsAgree ==
  \A s \in Discrete :
    \/ value[s] = Unread
    \/ writeLock[s] # Nobody
    \/ SymDiff(value[s], bits[s]) \subseteq lost[s]
=============================================================================
