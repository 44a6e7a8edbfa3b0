----------------------------- MODULE SshChannel -----------------------------
(***************************************************************************)
(* An open channel between two paramiko transports: the two ends of the    *)
(* shell of a client.  At each end there is a thread that writes and at    *)
(* last closes the channel (for the server that is Actor.run), one that    *)
(* reads, and the thread of the transport, which handles what arrives.     *)
(*                                                                         *)
(* A thread prepares its messages under the lock of the channel and sends  *)
(* them after it has released it (box), one at a time and only while no    *)
(* key exchange is under way (clear_to_send).  The connection delivers     *)
(* what is sent in order, until an end is gone.                            *)
(*                                                                         *)
(* A wait for bytes, in a loop under the lock of the pipe that every feed  *)
(* and close notifies, is a guard here; the wait for the window is not.    *)
(*                                                                         *)
(* Left out: the stderr stream, channel requests, timeouts of send and     *)
(* recv (the simulator sets none), and a second thread that writes.        *)
(***************************************************************************)
EXTENDS Integers, Sequences

CONSTANTS
  Peers,        (* the two ends                                               *)
  Other,        (* Other[p]: the other end                                    *)
  MaxBytes,     (* MaxBytes[p]: bound on the bytes that p sends               *)
  Window,       (* the window that both ends grant: window_size               *)
  Divisor,      (* a window_size // Divisor bytes read are worth no message:  *)
                (* 10 in the code                                             *)
  MaxPacket,    (* out_max_packet_size - 64                                   *)
  MaxKex,       (* bound on the key exchanges                                 *)
  Mortal        (* the ends whose connection may be lost at any time          *)

ASSUME ChannelAssumption ==
  /\ Window \in Nat \ {0} /\ Divisor \in Nat \ {0, 1} /\ MaxPacket \in Nat \ {0}
  /\ \A p \in Peers : Other[p] \in Peers \ {p} /\ Other[Other[p]] = p
  /\ MaxBytes \in [Peers -> Nat]

VARIABLES
  chan,         (* chan[p]: the attributes of the Channel object of p         *)
  pipe,         (* pipe[p]: in_buffer, a BufferedPipe                         *)
  writer,       (* writer[p]: "ready", in out_buffer_cv.wait(), or notified   *)
  uncounted,    (* uncounted[p]: how many bytes p has read that               *)
                (* _check_add_window has not counted yet                      *)
  box,          (* box[p][t]: what thread t is about to send, in order        *)
  active,       (* active[p]: Transport.active                                *)
  clear,        (* clear[p]: Transport.clear_to_send                          *)
  inKex,        (* inKex[p]: p has sent KEXINIT and has not got NEWKEYS       *)
  kexes,        (* how many key exchanges were started                        *)
  net,          (* net[p]: what is on its way to p                            *)
  sent, got, ended, broken   (* the promise, see StreamPromise                *)

promiseVars == <<sent, got, ended, broken>>
kexVars     == <<clear, inKex, kexes>>
vars == <<chan, pipe, writer, uncounted, box, active, kexVars, net, promiseVars>>

Threads == {"writer", "reader", "transport"}

Msg(kind, bytes, n) == [kind |-> kind, bytes |-> bytes, n |-> n]
Data(bytes) == Msg("data", bytes, 0)
Adjust(n)   == Msg("adjust", <<>>, n)
Eof         == Msg("eof", <<>>, 0)
CloseMsg    == Msg("close", <<>>, 0)
KexInit     == Msg("kexinit", <<>>, 0)
NewKeys     == Msg("newkeys", <<>>, 0)

\* _set_window: in_window_threshold
Threshold == Window \div Divisor

Init ==
  /\ chan = [p \in Peers |-> [ closed |-> FALSE, linked |-> TRUE, eofSent |-> FALSE,
                               eofReceived |-> FALSE, outWindow |-> Window, sofar |-> 0 ]]
  /\ pipe = [p \in Peers |-> [buffer |-> <<>>, closed |-> FALSE]]
  /\ writer = [p \in Peers |-> "ready"]
  /\ uncounted = [p \in Peers |-> 0]
  /\ box = [p \in Peers |-> [t \in Threads |-> <<>>]]
  /\ active = [p \in Peers |-> TRUE]
  /\ clear = [p \in Peers |-> TRUE] /\ inKex = [p \in Peers |-> FALSE] /\ kexes = 0
  /\ net = [p \in Peers |-> <<>>]
  /\ sent = [p \in Peers |-> 0] /\ got = [p \in Peers |-> <<>>]
  /\ ended = [p \in Peers |-> FALSE] /\ broken = [p \in Peers |-> FALSE]

Free(p, t) == box[p][t] = <<>>

Post(p, t, msgs) == box' = [box EXCEPT ![p][t] = msgs]

\* The connection; what is sent to an end that is gone is lost.
ToOther(p, msgs) == IF active[Other[p]] THEN [net EXCEPT ![Other[p]] = @ \o msgs] ELSE net

NotifyWriter(p) == writer' = [writer EXCEPT ![p] = IF @ = "asleep" THEN "notified" ELSE @]

-----------------------------------------------------------------------------
(* The programs: Channel.send, recv, shutdown_write and close              *)

\* Seeded bug: the window is taken after the message was sent.
SendUnreserved(p) ==
  /\ Free(p, "writer") /\ writer[p] \in {"ready", "notified"}
  /\ ~chan[p].closed /\ ~chan[p].eofSent
  /\ \E n \in 1 .. MaxBytes[p] - sent[p] :
       /\ chan[p].outWindow > 0 /\ n <= MaxPacket
       /\ chan' = [chan EXCEPT ![p].outWindow = IF @ > n THEN @ - n ELSE 0]
       /\ sent' = [sent EXCEPT ![p] = @ + n]
       /\ Post(p, "writer", <<Data([i \in 1 .. n |-> sent[p] + i])>>)
  /\ writer' = [writer EXCEPT ![p] = "ready"]
  /\ UNCHANGED <<pipe, uncounted, active, kexVars, net, got, ended, broken>>

\* _wait_for_send_window grants at most the window and a packet.
SendGranted(p) ==
  /\ Free(p, "writer") /\ writer[p] \in {"ready", "notified"}
  /\ ~chan[p].closed /\ ~chan[p].eofSent
  /\ \E n \in 1 .. MaxBytes[p] - sent[p] :
       /\ n <= chan[p].outWindow /\ n <= MaxPacket
       /\ chan' = [chan EXCEPT ![p].outWindow = @ - n]
       /\ sent' = [sent EXCEPT ![p] = @ + n]
       /\ Post(p, "writer", <<Data([i \in 1 .. n |-> sent[p] + i])>>)
  /\ writer' = [writer EXCEPT ![p] = "ready"]
  /\ UNCHANGED <<pipe, uncounted, active, kexVars, net, got, ended, broken>>

\* self.out_buffer_cv.wait() while the window is empty
SendWaits(p) ==
  /\ Free(p, "writer") /\ writer[p] \in {"ready", "notified"}
  /\ ~chan[p].closed /\ ~chan[p].eofSent
  /\ chan[p].outWindow = 0 /\ sent[p] < MaxBytes[p]
  /\ writer' = [writer EXCEPT ![p] = "asleep"]
  /\ UNCHANGED <<chan, pipe, uncounted, box, active, kexVars, net, promiseVars>>

\* A send that wakes up on a closed channel returns 0, and the next one raises.
SendGivesUp(p) ==
  /\ writer[p] = "notified" /\ chan[p].closed
  /\ writer' = [writer EXCEPT ![p] = "ready"]
  /\ UNCHANGED <<chan, pipe, uncounted, box, active, kexVars, net, promiseVars>>

\* BufferedPipe.read waits for bytes and returns some of those that are there.
RecvData(p) ==
  /\ Free(p, "reader") /\ uncounted[p] = 0 /\ ~ended[p]
  /\ \E n \in 1 .. Len(pipe[p].buffer) :
       /\ got' = [got EXCEPT ![p] = @ \o SubSeq(pipe[p].buffer, 1, n)]
       /\ pipe' = [pipe EXCEPT ![p].buffer = SubSeq(@, n + 1, Len(@))]
       /\ uncounted' = [uncounted EXCEPT ![p] = n]
  /\ UNCHANGED <<chan, writer, box, active, kexVars, net, sent, ended, broken>>

\* Seeded bug: a pipe that was closed returns nothing.
RecvEndEarly(p) ==
  /\ Free(p, "reader") /\ uncounted[p] = 0 /\ ~ended[p]
  /\ pipe[p].closed
  /\ ended' = [ended EXCEPT ![p] = TRUE]
  /\ UNCHANGED <<chan, pipe, writer, uncounted, box, active, kexVars, net, sent, got, broken>>

\* No bytes are left in a pipe that was closed: the end of the stream.
RecvEnd(p) ==
  /\ Free(p, "reader") /\ uncounted[p] = 0 /\ ~ended[p]
  /\ pipe[p].buffer = <<>> /\ pipe[p].closed
  /\ ended' = [ended EXCEPT ![p] = TRUE]
  /\ UNCHANGED <<chan, pipe, writer, uncounted, box, active, kexVars, net, sent, got, broken>>

\* Nothing is counted once the channel is closed or the other end is done.
CheckAddWindow(p) ==
  /\ uncounted[p] > 0
  /\ LET sofar == chan[p].sofar + uncounted[p]
         over  == sofar > Threshold
     IN  IF chan[p].closed \/ chan[p].eofReceived
           THEN UNCHANGED <<chan, box>>
           ELSE /\ chan' = [chan EXCEPT ![p].sofar = IF over THEN 0 ELSE sofar]
                /\ Post(p, "reader", IF over THEN <<Adjust(sofar)>> ELSE <<>>)
  /\ uncounted' = [uncounted EXCEPT ![p] = 0]
  /\ UNCHANGED <<pipe, writer, active, kexVars, net, promiseVars>>

\* shutdown_write: _send_eof
ShutdownWrite(p) ==
  /\ Free(p, "writer") /\ writer[p] = "ready"
  /\ ~chan[p].eofSent
  /\ chan' = [chan EXCEPT ![p].eofSent = TRUE]
  /\ Post(p, "writer", <<Eof>>)
  /\ UNCHANGED <<pipe, writer, uncounted, active, kexVars, net, promiseVars>>

\* What _close_internal returns to be sent
Farewell(p) == (IF chan[p].eofSent THEN <<>> ELSE <<Eof>>) \o <<CloseMsg>>

\* _close_internal and _set_closed; unlinked: the transport forgets the channel
Closed(p, linked) == [chan EXCEPT ![p].closed = TRUE, ![p].eofSent = TRUE, ![p].linked = linked]

ClosePipe(p) == pipe' = [pipe EXCEPT ![p].closed = TRUE]

Close(p) ==
  /\ Free(p, "writer") /\ writer[p] = "ready"
  /\ ~chan[p].closed
  /\ Post(p, "writer", Farewell(p))
  /\ chan' = Closed(p, TRUE)
  /\ ClosePipe(p) /\ NotifyWriter(p)
  /\ broken' = [broken EXCEPT ![p] = TRUE]
  /\ UNCHANGED <<uncounted, active, kexVars, net, sent, got, ended>>

\* Seeded bug: a message is sent also while keys are exchanged.
SendAtOnce(p, t) ==
  /\ ~Free(p, t)
  /\ net' = IF active[p] THEN ToOther(p, <<Head(box[p][t])>>) ELSE net
  /\ Post(p, t, Tail(box[p][t]))
  /\ UNCHANGED <<chan, pipe, writer, uncounted, active, kexVars, promiseVars>>

\* _send_user_message: waits for clear_to_send, and drops the message when the
\* connection is dead.
SendUserMessage(p, t) ==
  /\ ~Free(p, t)
  /\ clear[p] \/ ~active[p]
  /\ net' = IF active[p] THEN ToOther(p, <<Head(box[p][t])>>) ELSE net
  /\ Post(p, t, Tail(box[p][t]))
  /\ UNCHANGED <<chan, pipe, writer, uncounted, active, kexVars, promiseVars>>

-----------------------------------------------------------------------------
(* The thread of the transport: Transport.run                              *)

Arrives(p, kind) ==
  /\ active[p] /\ Free(p, "transport")
  /\ net[p] # <<>> /\ Head(net[p]).kind = kind

Taken(p) == [net EXCEPT ![p] = Tail(@)]

\* _feed; a message for a channel that was unlinked is ignored
Feed(p) ==
  /\ Arrives(p, "data")
  /\ IF chan[p].linked
       THEN pipe' = [pipe EXCEPT ![p].buffer = @ \o Head(net[p]).bytes]
       ELSE UNCHANGED pipe
  /\ net' = Taken(p)
  /\ UNCHANGED <<chan, writer, uncounted, box, active, kexVars, promiseVars>>

\* Seeded bug: nobody is notified.
WindowAdjustSilent(p) ==
  /\ Arrives(p, "adjust")
  /\ chan' = [chan EXCEPT ![p].outWindow = IF chan[p].linked THEN @ + Head(net[p]).n ELSE @]
  /\ net' = Taken(p)
  /\ UNCHANGED <<pipe, writer, uncounted, box, active, kexVars, promiseVars>>

\* _window_adjust
WindowAdjust(p) ==
  /\ Arrives(p, "adjust")
  /\ IF chan[p].linked
       THEN /\ chan' = [chan EXCEPT ![p].outWindow = @ + Head(net[p]).n]
            /\ NotifyWriter(p)
       ELSE UNCHANGED <<chan, writer>>
  /\ net' = Taken(p)
  /\ UNCHANGED <<pipe, uncounted, box, active, kexVars, promiseVars>>

\* _handle_eof
HandleEof(p) ==
  /\ Arrives(p, "eof")
  /\ IF chan[p].linked /\ ~chan[p].eofReceived
       THEN /\ chan' = [chan EXCEPT ![p].eofReceived = TRUE]
            /\ ClosePipe(p)
       ELSE UNCHANGED <<chan, pipe>>
  /\ net' = Taken(p)
  /\ UNCHANGED <<writer, uncounted, box, active, kexVars, promiseVars>>

\* _handle_close: _close_internal, _unlink_channel, and the messages, which are
\* sent by the thread of the transport itself
HandleClose(p) ==
  /\ Arrives(p, "close")
  /\ IF chan[p].linked
       THEN /\ Post(p, "transport", IF chan[p].closed THEN <<>> ELSE Farewell(p))
            /\ chan' = Closed(p, FALSE)
            /\ ClosePipe(p) /\ NotifyWriter(p)
       ELSE UNCHANGED <<chan, pipe, writer, box>>
  /\ net' = Taken(p)
  /\ UNCHANGED <<uncounted, active, kexVars, promiseVars>>

\* need_rekey and not in_kex: _send_kex_init
StartKex(p) ==
  /\ active[p] /\ Free(p, "transport") /\ ~inKex[p]
  /\ kexes < MaxKex
  /\ kexes' = kexes + 1
  /\ clear' = [clear EXCEPT ![p] = FALSE]
  /\ inKex' = [inKex EXCEPT ![p] = TRUE]
  /\ net' = ToOther(p, <<KexInit>>)
  /\ UNCHANGED <<chan, pipe, writer, uncounted, box, active, promiseVars>>

\* _negotiate_keys answers with KEXINIT, unless it was sent already; the
\* exchange that follows ends with NEWKEYS, which stands for all of it.
NegotiateKeys(p) ==
  /\ Arrives(p, "kexinit")
  /\ clear' = [clear EXCEPT ![p] = FALSE]
  /\ inKex' = [inKex EXCEPT ![p] = TRUE]
  /\ net' = LET answer == IF inKex[p] THEN <<NewKeys>> ELSE <<KexInit, NewKeys>>
            IN  [q \in Peers |-> IF q = p THEN Tail(net[p]) ELSE ToOther(p, answer)[q]]
  /\ UNCHANGED <<chan, pipe, writer, uncounted, box, active, kexes, promiseVars>>

\* _parse_newkeys
ParseNewKeys(p) ==
  /\ Arrives(p, "newkeys")
  /\ clear' = [clear EXCEPT ![p] = TRUE]
  /\ inKex' = [inKex EXCEPT ![p] = FALSE]
  /\ net' = Taken(p)
  /\ UNCHANGED <<chan, pipe, writer, uncounted, box, active, kexes, promiseVars>>

\* The end of run, or Transport.close: every channel is unlinked.
Die(p) ==
  /\ active[p]
  /\ active' = [active EXCEPT ![p] = FALSE]
  /\ net' = [net EXCEPT ![p] = <<>>]
  /\ box' = [box EXCEPT ![p]["transport"] = <<>>]
  /\ broken' = [broken EXCEPT ![p] = TRUE]
  /\ IF chan[p].closed
       THEN UNCHANGED <<chan, pipe, writer>>
       ELSE /\ chan' = [chan EXCEPT ![p].closed = TRUE, ![p].linked = FALSE]
            /\ ClosePipe(p) /\ NotifyWriter(p)
  /\ UNCHANGED <<uncounted, kexVars, sent, got, ended>>

\* Seeded bug: a message waits for clear_to_send without a timeout.
KexNoTimeout(p) == ~clear[p] /\ Die(p) /\ ~active[p]

\* clear_to_send_timeout: the thread of the transport waits for keys that only
\* it can receive, and ends with an SSHException.  Other threads time out as
\* well then; theirs is a connection that is about to die.
KexTimeout(p) ==
  /\ ~clear[p] /\ ~Free(p, "transport")
  /\ Die(p)

\* EOFError when the other end is gone
HangUp(p) ==
  /\ ~active[Other[p]] /\ net[p] = <<>> /\ Free(p, "transport")
  /\ Die(p)

TransportStep(p) ==
  \/ Feed(p) \/ WindowAdjust(p) \/ HandleEof(p) \/ HandleClose(p)
  \/ NegotiateKeys(p) \/ ParseNewKeys(p) \/ KexTimeout(p) \/ HangUp(p)

Send(p) == SendGranted(p) \/ SendWaits(p) \/ SendGivesUp(p)
Recv(p) == RecvData(p) \/ RecvEnd(p) \/ CheckAddWindow(p)

Next ==
  \E p \in Peers :
    \/ Send(p) \/ Recv(p) \/ ShutdownWrite(p) \/ Close(p)
    \/ \E t \in Threads : SendUserMessage(p, t)
    \/ TransportStep(p) \/ StartKex(p) \/ (p \in Mortal /\ Die(p))

Spec == Init /\ [][Next]_vars

\* The threads of the transports run, a call that was made goes on, and the
\* readers read; no program has to write or to close.
Fairness ==
  \A p \in Peers :
    /\ WF_vars(TransportStep(p))
    /\ WF_vars(Recv(p))
    /\ WF_vars(writer[p] = "notified" /\ Send(p))
    /\ WF_vars(\E t \in Threads : SendUserMessage(p, t))

FairSpec == Spec /\ Fairness

-----------------------------------------------------------------------------
\* Every variable has a value of its type.
TypeOK ==
  /\ chan \in [Peers -> [ closed : BOOLEAN, linked : BOOLEAN, eofSent : BOOLEAN,
                          eofReceived : BOOLEAN, outWindow : 0 .. Window,
                          sofar : 0 .. Threshold ]]
  /\ writer \in [Peers -> {"ready", "asleep", "notified"}]
  /\ uncounted \in [Peers -> 0 .. Window]
  /\ clear \in [Peers -> BOOLEAN] /\ inKex \in [Peers -> BOOLEAN]
  /\ \A p \in Peers : Len(pipe[p].buffer) <= Window /\ sent[p] <= MaxBytes[p]

\* What the messages add to the window, in the order they were sent.
Granted(msgs) ==
  LET sum[i \in 0 .. Len(msgs)] == IF i = 0 THEN 0 ELSE sum[i - 1] + msgs[i].n
  IN  sum[Len(msgs)]

\* Docstring of Channel, "SSH2 has a windowing kind of flow control": the
\* window of p, the bytes that p has sent and the program at q has not received,
\* and those that it has received and q has not yet granted again, are together
\* the window that q granted at the start, as long as q counts what it reads.
WindowConserved ==
  /\ TypeOK
  /\ \A p \in Peers :
       LET q == Other[p]
       IN  active[p] /\ active[q] /\ ~chan[q].closed /\ ~chan[q].eofReceived =>
             Window = chan[p].outWindow + sent[p] - Len(got[q]) + uncounted[q]
                      + chan[q].sofar + Granted(box[q]["reader"]) + Granted(net[p])

\* _send_user_message, "block if we're in key negotiation": between KEXINIT and
\* NEWKEYS no message of a channel is sent; one that arrived there would end
\* the connection ("Expecting packet from").
KexIsQuiet ==
  \A p \in Peers : \A i, j \in DOMAIN net[p] :
    i < j /\ net[p][i].kind = "kexinit" /\ net[p][j].kind # "newkeys" =>
      \E k \in i .. j : net[p][k].kind = "newkeys"

\* The channel implements StreamPromise.
Promise == INSTANCE StreamPromise
KeepsPromise == Promise!Spec

\* A send that waits for the window goes on, whatever the two ends do in the
\* meantime, as long as the other end reads, closes, or is gone.
SendReturns == \A p \in Peers : writer[p] = "asleep" ~> writer[p] # "asleep"

\* Comment of _send, "we can deadlock during re-keying": a key exchange ends,
\* or the connection does, also when the thread of the transport has to send
\* messages itself.
KexEnds == \A p \in Peers : inKex[p] ~> ~inKex[p] \/ ~active[p]
=============================================================================
