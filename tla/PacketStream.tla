---------------------------- MODULE PacketStream ----------------------------
(***************************************************************************)
(* Packetizer of the vendored paramiko: the packets that one end, A, sends *)
(* and the other, B, reads, over a socket that takes and gives any number  *)
(* of bytes at a time, while keys are exchanged anew after a number of     *)
(* packets.  What B sends is a queue of the messages of the key exchanges. *)
(*                                                                         *)
(* A packet is a sequence of units: a header of two, as many as its body   *)
(* has, and one for the MAC once there are keys.  epoch counts the keys: a *)
(* packet that is read with other keys or another sequence number than it  *)
(* was made with is mangled.                                               *)
(*                                                                         *)
(* Between the KEXINIT and the NEWKEYS of an end nothing is sent here: see *)
(* KeyExchange and SshLogin for what the ends say to agree on the keys, and *)
(* SshChannel for what both may send meanwhile.                            *)
(***************************************************************************)
EXTENDS Integers, Sequences

CONSTANTS
  Bodies,         (* the lengths of the bodies of data packets                *)
  RekeyPackets,   (* REKEY_PACKETS: 2^29                                      *)
  OverflowMax,    (* REKEY_PACKETS_OVERFLOW_MAX: 2^29                         *)
  SeqModulus,     (* of the sequence numbers: 2^32                            *)
  Capacity,       (* units that the socket holds                              *)
  MaxRecv,        (* units that recv of the banner asks for: 128              *)
  MaxSent         (* bound on the packets that A sends                        *)

ASSUME PacketAssumption ==
  /\ Bodies \subseteq Nat /\ {RekeyPackets, OverflowMax, SeqModulus, Capacity, MaxRecv} \subseteq Nat \ {0}
  /\ MaxSent \in Nat

VARIABLES
  sent,      (* the packets that A has made: kind, body, epoch, seq           *)
  out,       (* what write_all has not yet given to the socket                *)
  wire,      (* the units in the socket, <<packet, position>>                 *)
  back,      (* what B has sent to A                                          *)
  endA,      (* A: Packetizer and the key exchange of its Transport           *)
  endB,      (* B, the same                                                   *)
  reader,    (* B: remainder, and read_all: what it wants and has             *)
  received   (* the packets that B has read                                   *)

streamVars == <<sent, out, wire, back, endA, endB, reader, received>>

\* The exchange: which messages an end has sent and received, until both
\* NEWKEYS are through.  Until the first of them nothing else may be sent.
NoKex == {}
Fresh == [ epochOut |-> 0, epochIn |-> 0, seq |-> 0, overflow |-> 0,
           sentPackets |-> 0, receivedPackets |-> 0, need |-> FALSE, initCount |-> 0,
           inKex |-> FALSE, clear |-> FALSE, kex |-> NoKex ]

HeaderLength == 2
Length(p)    == HeaderLength + p.body + (IF p.epoch > 0 THEN 1 ELSE 0)
BannerLength == 2

\* The banner is packet 0 and in the socket.
StreamInit ==
  /\ sent = <<>> /\ out = <<>> /\ back = <<>> /\ received = <<>>
  /\ wire = [i \in 1 .. BannerLength |-> <<0, i>>]
  /\ endA = Fresh /\ endB = Fresh
  /\ reader = [phase |-> "banner", remainder |-> <<>>, has |-> <<>>, want |-> 0]

-----------------------------------------------------------------------------
(* Packetizer *)

\* set_outbound_cipher and set_inbound_cipher: the counts of the direction start
\* anew, and need_rekey is cleared when both directions have been reset.
ResetCounts(e, bit) ==
  LET both == e.initCount # 0 /\ e.initCount # bit IN
  [e EXCEPT !.initCount = IF both THEN 0 ELSE bit, !.need = IF both THEN FALSE ELSE @]

SetOutboundCipher(e) == [ResetCounts(e, 1) EXCEPT !.epochOut = @ + 1, !.sentPackets = 0]
SetInboundCipher(e)  ==
  [ResetCounts(e, 2) EXCEPT !.epochIn = @ + 1, !.receivedPackets = 0, !.overflow = 0]

\* send_message, with the lock: the packet is made, encrypted, counted.
CanSend == out = <<>> /\ Len(sent) < MaxSent

SendMessage(kind, body, e) ==
  LET p == [kind |-> kind, body |-> body, epoch |-> endA.epochOut, seq |-> endA.seq]
      n == e.sentPackets + 1
  IN  /\ sent' = Append(sent, p)
      /\ out' = [i \in 1 .. Length(p) |-> <<Len(sent) + 1, i>>]
      /\ endA' = [e EXCEPT !.seq = (@ + 1) % SeqModulus, !.sentPackets = n,
                        !.need = @ \/ n >= RekeyPackets,
                        !.overflow = IF n >= RekeyPackets /\ ~e.need THEN 0 ELSE @]

\* write_all: the socket takes a part, or nothing.
WriteAll ==
  /\ out # <<>>
  /\ \E n \in 1 .. Len(out) :
       /\ Len(wire) + n <= Capacity
       /\ wire' = wire \o SubSeq(out, 1, n)
       /\ out' = SubSeq(out, n + 1, Len(out))
  /\ UNCHANGED <<sent, back, endA, endB, reader, received>>

-----------------------------------------------------------------------------
(* A *)

\* _send_user_message: only while clear_to_send
SendData ==
  /\ CanSend /\ endA.clear
  /\ \E n \in Bodies : SendMessage("data", n, endA)
  /\ UNCHANGED <<wire, back, endB, reader, received>>

\* _send_kex_init: by run, at first and when keys are needed; as the answer to
\* one, when there is no local_kex_init; or by renegotiate_keys, which is not
\* called during an exchange
SendKexInit ==
  /\ CanSend
  /\ \/ endA.need /\ ~endA.inKex
     \/ "gotInit" \in endA.kex /\ "sentInit" \notin endA.kex
     \/ endA.kex = NoKex /\ (sent = <<>> \/ endA.sentPackets > 0)
  /\ SendMessage("kexinit", 0, [endA EXCEPT !.inKex = TRUE, !.clear = FALSE,
                                         !.kex = @ \cup {"sentInit"}])
  /\ UNCHANGED <<wire, back, endB, reader, received>>

\* _activate_outbound: NEWKEYS still goes out with the old keys.
SendNewKeys ==
  /\ CanSend /\ {"sentInit", "gotInit"} \subseteq endA.kex /\ "sentNew" \notin endA.kex
  /\ SendMessage("newkeys", 0, [endA EXCEPT !.kex = @ \cup {"sentNew"}])
  /\ UNCHANGED <<wire, back, endB, reader, received>>

ActivateOutbound ==
  /\ out = <<>> /\ "sentNew" \in endA.kex /\ "activeOut" \notin endA.kex
  /\ LET e == SetOutboundCipher(endA) IN
     endA' = [e EXCEPT !.kex = @ \cup {"activeOut"}, !.inKex = @ /\ e.need]
  /\ UNCHANGED <<sent, out, wire, back, endB, reader, received>>

\* _parse_newkeys
NewKeysParsed(e) ==
  LET f == SetInboundCipher(e) IN
  [f EXCEPT !.kex = NoKex, !.inKex = @ /\ f.need, !.clear = TRUE]

AReceives ==
  /\ back # <<>>
  /\ \/ Head(back) = "kexinit" /\ endA' = [endA EXCEPT !.kex = @ \cup {"gotInit"}, !.clear = FALSE]
     \/ Head(back) = "newkeys" /\ "activeOut" \in endA.kex /\ endA' = NewKeysParsed(endA)
  /\ back' = Tail(back)
  /\ UNCHANGED <<sent, out, wire, endB, reader, received>>

-----------------------------------------------------------------------------
(* B *)

TakeFrom(n) == wire' = SubSeq(wire, n + 1, Len(wire))

\* readline reads as much as there is, until it has the end of the line.
ReadLine ==
  /\ reader.phase = "banner" /\ wire # <<>>
  /\ \E n \in 1 .. Len(wire) :
       LET buf == reader.remainder \o SubSeq(wire, 1, n)
           line == BannerLength
       IN  /\ n <= MaxRecv
           /\ TakeFrom(n)
           /\ reader' = IF Len(buf) >= line
                        THEN [ phase |-> "loop", has |-> <<>>, want |-> 0,
                               remainder |-> SubSeq(buf, line + 1, Len(buf)) ]
                        ELSE [reader EXCEPT !.remainder = buf]
  /\ UNCHANGED <<sent, out, back, endA, endB, received>>

Lacks == reader.want - Len(reader.has)

\* read_all first takes what was read too much.
ReadRemainder ==
  /\ reader.phase \in {"header", "body"} /\ reader.remainder # <<>> /\ reader.has = <<>>
  /\ reader.want > 0
  /\ LET n == IF Len(reader.remainder) < reader.want THEN Len(reader.remainder) ELSE reader.want IN
     reader' = [reader EXCEPT !.has = SubSeq(reader.remainder, 1, n),
                              !.remainder = SubSeq(@, n + 1, Len(@))]
  /\ UNCHANGED <<sent, out, wire, back, endA, endB, received>>

Recv ==
  /\ reader.phase \in {"header", "body"}
  /\ reader.remainder = <<>> \/ reader.has # <<>>
  /\ \E n \in 1 .. Len(wire) :
       /\ n <= Lacks
       /\ reader' = [reader EXCEPT !.has = @ \o SubSeq(wire, 1, n)]
       /\ TakeFrom(n)
  /\ UNCHANGED <<sent, out, back, endA, endB, received>>

\* The units from i on of the packet k, read with the keys of B
Whole(k, units, i) ==
  /\ k \in DOMAIN sent /\ sent[k].epoch = endB.epochIn
  /\ units = [j \in 1 .. Len(units) |-> <<k, i + j - 1>>]

Mangled == reader' = [reader EXCEPT !.phase = "mangled"] /\ UNCHANGED <<endB, received>>

HeaderRead ==
  /\ reader.phase = "header" /\ Lacks = 0
  /\ LET k == reader.has[1][1] IN
     IF Whole(k, reader.has, 1)
       THEN /\ reader' = [reader EXCEPT !.phase = "body", !.has = <<>>,
                                        !.want = Length(sent[k]) - HeaderLength]
            /\ UNCHANGED <<endB, received>>
       ELSE Mangled
  /\ UNCHANGED <<sent, out, wire, back, endA>>

\* read_message counts the packet: an end that was asked for new keys may still
\* send so many, and then the exception ends B.
Counted(e) ==
  IF e.need
    THEN [e EXCEPT !.receivedPackets = @ + 1, !.overflow = @ + 1]
    ELSE [e EXCEPT !.receivedPackets = @ + 1, !.need = e.receivedPackets + 1 >= RekeyPackets,
                   !.overflow = IF e.receivedPackets + 1 >= RekeyPackets THEN 0 ELSE @]

\* What Transport.run does with it: _parse_kex_init and _parse_newkeys.
Handled(e, kind) ==
  CASE kind = "data"    -> e
    [] kind = "kexinit" -> [e EXCEPT !.kex = @ \cup {"gotInit"}]
    [] kind = "newkeys" -> NewKeysParsed(e)

BodyRead ==
  /\ reader.phase = "body" /\ Lacks = 0
  /\ LET k == Len(received) + 1
         e == Counted([endB EXCEPT !.seq = (@ + 1) % SeqModulus])
     IN  IF Whole(k, reader.has, HeaderLength + 1) /\ sent[k].seq = endB.seq
           THEN /\ received' = Append(received, sent[k])
                /\ IF e.need /\ e.overflow >= OverflowMax
                     THEN reader' = [reader EXCEPT !.phase = "ignored"] /\ endB' = e
                     ELSE /\ reader' = [reader EXCEPT !.phase = "loop", !.has = <<>>]
                          /\ endB' = Handled(e, sent[k].kind)
           ELSE Mangled
  /\ UNCHANGED <<sent, out, wire, back, endA>>

\* The top of the loop of run, after a packet, or after a timeout with
\* NeedRekeyException, which is raised only if nothing has been read.
\* Seeded bug: it is raised in the middle of a header.
NeedRekeyLosesBytes ==
  /\ reader.phase = "header" /\ wire = <<>> /\ endB.need
  /\ reader' = [reader EXCEPT !.phase = "loop", !.has = <<>>]
  /\ UNCHANGED <<sent, out, wire, back, endA, endB, received>>

NeedRekey ==
  /\ reader.phase = "header" /\ reader.has = <<>> /\ reader.remainder = <<>> /\ wire = <<>>
  /\ endB.need
  /\ reader' = [reader EXCEPT !.phase = "loop"]
  /\ UNCHANGED <<sent, out, wire, back, endA, endB, received>>

\* The first time it is reached after the KEXINIT that run begins with.
Loop ==
  /\ reader.phase = "loop"
  /\ LET init == \/ endB.need /\ ~endB.inKex
                 \/ "sentInit" \notin endB.kex /\ ("gotInit" \in endB.kex \/ endB.epochOut = 0)
         e == IF init THEN [endB EXCEPT !.inKex = TRUE, !.clear = FALSE, !.kex = @ \cup {"sentInit"}]
              ELSE endB
         new == {"sentInit", "gotInit"} \subseteq e.kex /\ "sentNew" \notin e.kex
         f == SetOutboundCipher(e)
     IN  /\ back' = back \o (IF init THEN <<"kexinit">> ELSE <<>>)
                         \o (IF new THEN <<"newkeys">> ELSE <<>>)
         /\ endB' = IF new THEN [f EXCEPT !.kex = @ \cup {"sentNew", "activeOut"}, !.inKex = @ /\ f.need]
                 ELSE e
  /\ reader' = [reader EXCEPT !.phase = "header", !.want = HeaderLength]
  /\ UNCHANGED <<sent, out, wire, endA, received>>

StreamNext ==
  \/ WriteAll \/ SendData \/ SendKexInit \/ SendNewKeys \/ ActivateOutbound \/ AReceives
  \/ ReadLine \/ ReadRemainder \/ Recv \/ HeaderRead \/ BodyRead \/ NeedRekey \/ Loop

StreamSpec == StreamInit /\ [][StreamNext]_streamVars

-----------------------------------------------------------------------------
\* Every packet is read whole, in order, with the keys and the sequence number
\* it was made with, however the socket cuts the stream; and B gives up on A
\* only after it has asked for new keys.
StreamIntact ==
  /\ reader.phase # "mangled"
  /\ Len(received) <= Len(sent) /\ received = SubSeq(sent, 1, Len(received))
  /\ reader.phase = "ignored" => "sentInit" \in endB.kex
=============================================================================
