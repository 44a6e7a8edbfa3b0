---------------------------- MODULE EventPromise ----------------------------
(***************************************************************************)
(* What "sel set" promises: the record that a session asks for is added to *)
(* the log once, as it was asked for, or is dropped.  Compare              *)
(* SensorEvents, where the record is built up in an object that all        *)
(* sessions share.                                                         *)
(***************************************************************************)
EXTENDS Sequences

CONSTANTS Sessions, Records, NoRecord

VARIABLES
  log,     (* the records, in the order in which they were added              *)
  asked    (* asked[c]: the record that session c wants, or NoRecord          *)

vars == <<log, asked>>

Init == log = <<>> /\ asked = [c \in Sessions |-> NoRecord]

Ask(c) ==
  /\ asked[c] = NoRecord
  /\ \E r \in Records : asked' = [asked EXCEPT ![c] = r]
  /\ UNCHANGED log

Add(c) ==
  /\ asked[c] # NoRecord
  /\ log' = Append(log, asked[c])
  /\ asked' = [asked EXCEPT ![c] = NoRecord]

Drop(c) ==
  /\ asked' = [asked EXCEPT ![c] = NoRecord]
  /\ UNCHANGED log

Next == \E c \in Sessions : Ask(c) \/ Add(c) \/ Drop(c)

Spec == Init /\ [][Next]_vars
=============================================================================
