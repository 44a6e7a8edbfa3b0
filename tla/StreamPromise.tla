---------------------------- MODULE StreamPromise ----------------------------
(***************************************************************************)
(* What a channel promises to the programs at its two ends ("behave like a *)
(* socket"): in each direction the bytes arrive once and in order, and the *)
(* end of the stream is seen only after the last of them, unless the       *)
(* reading end has closed the channel itself or the connection was lost.   *)
(***************************************************************************)
EXTENDS Integers, Sequences

CONSTANTS
  Peers,
  Other         (* Other[p]: the other end                                    *)

VARIABLES
  sent,         (* sent[p]: how many bytes p has sent; they are 1, 2, ...     *)
  got,          (* got[p]: the bytes that p has received                      *)
  ended,        (* ended[p]: p has seen the end of its stream                 *)
  broken        (* broken[p]: p has closed the channel or lost the connection *)

vars == <<sent, got, ended, broken>>

Init ==
  /\ sent = [p \in Peers |-> 0]
  /\ got = [p \in Peers |-> <<>>]
  /\ ended = [p \in Peers |-> FALSE]
  /\ broken = [p \in Peers |-> FALSE]

Write(p) ==
  /\ sent'[p] > sent[p] /\ sent' = [sent EXCEPT ![p] = sent'[p]]
  /\ ~ended[Other[p]] \/ broken[Other[p]]
  /\ UNCHANGED <<got, ended, broken>>

Receive(p) ==
  /\ ~ended[p]
  /\ \E n \in Len(got[p]) + 1 .. sent[Other[p]] :
       got' = [got EXCEPT ![p] = [i \in 1 .. n |-> i]]
  /\ UNCHANGED <<sent, ended, broken>>

End(p) ==
  /\ Len(got[p]) = sent[Other[p]] \/ broken[p]
  /\ ended' = [ended EXCEPT ![p] = TRUE]
  /\ UNCHANGED <<sent, got, broken>>

Break ==
  /\ \E P \in SUBSET Peers : broken' = [p \in Peers |-> broken[p] \/ p \in P]
  /\ UNCHANGED <<sent, got, ended>>

Next == Break \/ \E p \in Peers : Write(p) \/ Receive(p) \/ End(p)

Spec == Init /\ [][Next]_vars
=============================================================================
