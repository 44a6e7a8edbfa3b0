-------------------------- MODULE SshChannelProofs --------------------------
(***************************************************************************)
(* Proofs about a channel, for any window, any packet size and any number  *)
(* of bytes and key exchanges: no message of a channel is sent in the      *)
(* middle of a key exchange (KexIsQuiet), what was granted of a window is  *)
(* never lost (WindowConserved), and the channel implements StreamPromise. *)
(* The invariant has a part for each question: Shape (types, and what a    *)
(* thread may be about to send), KexOrder (key exchanges), Ends (who has   *)
(* closed, and how the other end knows), Delivery (where each byte is) and *)
(* Conserved (where each byte of the window is).                           *)
(***************************************************************************)
EXTENDS SshChannel, SequenceTheorems, WellFoundedInduction, TLAPS

Kinds == {"data", "adjust", "eof", "close", "kexinit", "newkeys"}

\* Only data has bytes, and only an adjustment has a number.
Message ==
  { m \in [kind : Kinds, bytes : Seq(Nat), n : Nat] :
      /\ m.kind # "data" => m.bytes = <<>>
      /\ m.kind # "adjust" => m.n = 0 }

ChannelRecord ==
  [ closed : BOOLEAN, linked : BOOLEAN, eofSent : BOOLEAN, eofReceived : BOOLEAN,
    outWindow : Nat, sofar : Nat ]

PipeRecord == [buffer : Seq(Nat), closed : BOOLEAN]

Types ==
  /\ chan \in [Peers -> ChannelRecord]
  /\ pipe \in [Peers -> PipeRecord]
  /\ writer \in [Peers -> {"ready", "asleep", "notified"}]
  /\ uncounted \in [Peers -> Nat]
  /\ box \in [Peers -> [Threads -> Seq(Message)]]
  /\ active \in [Peers -> BOOLEAN]
  /\ clear \in [Peers -> BOOLEAN] /\ inKex \in [Peers -> BOOLEAN] /\ kexes \in Nat
  /\ net \in [Peers -> Seq(Message)]
  /\ sent \in [Peers -> Nat] /\ got \in [Peers -> Seq(Nat)]
  /\ ended \in [Peers -> BOOLEAN] /\ broken \in [Peers -> BOOLEAN]

\* What a thread may be about to send.
Boxes ==
  \A p \in Peers :
    /\ \/ box[p]["writer"] \in {<<>>, <<Eof>>, <<CloseMsg>>, <<Eof, CloseMsg>>}
       \/ \E bytes \in Seq(Nat) : box[p]["writer"] = <<Data(bytes)>>
    /\ \/ box[p]["reader"] = <<>>
       \/ \E n \in Nat : box[p]["reader"] = <<Adjust(n)>>
    /\ box[p]["transport"] \in {<<>>, <<CloseMsg>>, <<Eof, CloseMsg>>}

Shape == Types /\ Boxes

-----------------------------------------------------------------------------
\* What is sent is a message, and what is sent together a sequence of them.
LEMMA MessageKinds ==
  /\ \A bytes \in Seq(Nat) : Data(bytes) \in Message
  /\ \A n \in Nat : Adjust(n) \in Message
  /\ {Eof, CloseMsg, KexInit, NewKeys} \subseteq Message
  /\ {<<>>, <<Eof>>, <<CloseMsg>>, <<Eof, CloseMsg>>, <<KexInit>>, <<NewKeys>>,
      <<KexInit, NewKeys>>} \subseteq Seq(Message)
<1>1. <<>> \in Seq(Nat)
  OBVIOUS
<1>2. \A bytes \in Seq(Nat) : Data(bytes) \in Message
  BY DEF Data, Msg, Message, Kinds
<1>3. \A n \in Nat : Adjust(n) \in Message
  BY <1>1 DEF Adjust, Msg, Message, Kinds
<1>4. {Eof, CloseMsg, KexInit, NewKeys} \subseteq Message
  BY <1>1 DEF Eof, CloseMsg, KexInit, NewKeys, Msg, Message, Kinds
<1>5. /\ <<Eof>> \in Seq(Message) /\ <<CloseMsg>> \in Seq(Message)
      /\ <<KexInit>> \in Seq(Message) /\ <<NewKeys>> \in Seq(Message)
      /\ <<Eof, CloseMsg>> \in Seq(Message) /\ <<KexInit, NewKeys>> \in Seq(Message)
      /\ <<>> \in Seq(Message)
  BY <1>4
<1> QED
  BY <1>2, <1>3, <1>4, <1>5

\* What p posts is in the box of that thread, and the others keep theirs.
LEMMA Posting ==
  ASSUME Types, NEW p \in Peers, NEW t \in Threads, NEW msgs, Post(p, t, msgs)
  PROVE  \A q \in Peers, u \in Threads :
           box'[q][u] = IF q = p /\ u = t THEN msgs ELSE box[q][u]
BY DEF Types, Post

\* What p sends arrives behind what is on its way to the other end.
LEMMA Sending ==
  ASSUME Types, NEW p \in Peers, NEW msgs \in Seq(Message), net' = ToOther(p, msgs)
  PROVE  /\ net' \in [Peers -> Seq(Message)]
         /\ \A q \in Peers :
              net'[q] = IF q = Other[p] /\ active[q] THEN net[q] \o msgs ELSE net[q]
<1>1. Other[p] \in Peers
  BY ChannelAssumption
<1>2. net[Other[p]] \o msgs \in Seq(Message)
  BY <1>1 DEF Types
<1> QED
  BY <1>1, <1>2 DEF Types, ToOther

\* The thread of the transport takes the first message, which is of its kind.
LEMMA Taking ==
  ASSUME Types, NEW p \in Peers, NEW kind, Arrives(p, kind), net' = Taken(p)
  PROVE  /\ net' \in [Peers -> Seq(Message)]
         /\ \A q \in Peers : net'[q] = IF q = p THEN Tail(net[q]) ELSE net[q]
         /\ Head(net[p]) = net[p][1] /\ Len(net[p]) >= 1 /\ net[p][1].kind = kind
         /\ net[p][1] \in Message
BY DEF Types, Taken, Arrives

\* At first every variable has its type and every box is empty.
LEMMA ShapeInit == Init => Shape
<1> SUFFICES ASSUME Init PROVE Shape
  OBVIOUS
<1>1. <<>> \in Seq(Nat) /\ <<>> \in Seq(Message)
  OBVIOUS
<1>2. Types
  BY <1>1, ChannelAssumption DEF Init, Types, ChannelRecord, PipeRecord
<1>3. Boxes
  BY DEF Init, Boxes, Threads
<1> QED
  BY <1>2, <1>3 DEF Shape

\* What the attributes are.
LEMMA Fields ==
  ASSUME Types, NEW p \in Peers
  PROVE  /\ chan[p].outWindow \in Nat /\ chan[p].sofar \in Nat
         /\ pipe[p].buffer \in Seq(Nat)
         /\ net[p] # <<>> => Head(net[p]).bytes \in Seq(Nat) /\ Head(net[p]).n \in Nat
<1>1. chan[p] \in ChannelRecord /\ pipe[p] \in PipeRecord /\ net[p] \in Seq(Message)
  BY DEF Types
<1>2. net[p] # <<>> => Head(net[p]) \in Message
  BY <1>1
<1> QED
  BY <1>1, <1>2 DEF ChannelRecord, PipeRecord, Message

\* Every step keeps the types, but for the connection and the boxes, whose
\* steps come first.
LEMMA NetTypes ==
  ASSUME Shape, [Next]_vars
  PROVE  net' \in [Peers -> Seq(Message)]
<1>1. ASSUME NEW p \in Peers, NEW t \in Threads, SendUserMessage(p, t)
      PROVE  net' \in [Peers -> Seq(Message)]
  <2>1. Head(box[p][t]) \in Message
    BY <1>1 DEF SendUserMessage, Free, Shape, Types
  <2>2. <<Head(box[p][t])>> \in Seq(Message)
    BY <2>1
  <2> QED
    BY <1>1, <2>2, Sending DEF SendUserMessage, Shape, Types
<1>2. ASSUME NEW p \in Peers,
             Feed(p) \/ WindowAdjust(p) \/ HandleEof(p) \/ HandleClose(p) \/ ParseNewKeys(p)
      PROVE  net' \in [Peers -> Seq(Message)]
  BY <1>2, Taking DEF Feed, WindowAdjust, HandleEof, HandleClose, ParseNewKeys, Shape
<1>3. ASSUME NEW p \in Peers, StartKex(p)
      PROVE  net' \in [Peers -> Seq(Message)]
  BY <1>3, Sending, MessageKinds DEF StartKex, Shape
<1>4. ASSUME NEW p \in Peers, NegotiateKeys(p)
      PROVE  net' \in [Peers -> Seq(Message)]
  <2> DEFINE answer == IF inKex[p] THEN <<NewKeys>> ELSE <<KexInit, NewKeys>>
  <2>1. answer \in Seq(Message)
    BY MessageKinds
  <2>2. ToOther(p, answer) \in [Peers -> Seq(Message)]
    <3>1. Other[p] \in Peers
      BY ChannelAssumption
    <3>2. net[Other[p]] \o answer \in Seq(Message)
      BY <2>1, <3>1 DEF Shape, Types
    <3> QED
      BY <3>1, <3>2 DEF Shape, Types, ToOther
  <2>3. Tail(net[p]) \in Seq(Message)
    BY <1>4 DEF NegotiateKeys, Arrives, Shape, Types
  <2>4. net' = [q \in Peers |-> IF q = p THEN Tail(net[p]) ELSE ToOther(p, answer)[q]]
    BY <1>4 DEF NegotiateKeys
  <2> QED
    BY <2>2, <2>3, <2>4
<1>5. ASSUME NEW p \in Peers, Die(p)
      PROVE  net' \in [Peers -> Seq(Message)]
  BY <1>5, MessageKinds DEF Die, Shape, Types
<1> QED
  BY <1>1, <1>2, <1>3, <1>4, <1>5 DEF Next, Send, Recv, TransportStep, KexTimeout, HangUp,
     SendGranted, SendWaits, SendGivesUp, RecvData, RecvEnd, CheckAddWindow, ShutdownWrite, Close,
     vars, Shape, Types

\* Which thread posts what.
LEMMA Posted ==
  ASSUME Shape, NEW p \in Peers, NEW t \in Threads, NEW msgs \in Seq(Message), Post(p, t, msgs),
         \/ /\ t = "writer"
            /\ \/ msgs \in {<<>>, <<Eof>>, <<CloseMsg>>, <<Eof, CloseMsg>>}
               \/ \E bytes \in Seq(Nat) : msgs = <<Data(bytes)>>
         \/ t = "reader" /\ (msgs = <<>> \/ \E n \in Nat : msgs = <<Adjust(n)>>)
         \/ t = "transport" /\ msgs \in {<<>>, <<CloseMsg>>, <<Eof, CloseMsg>>}
  PROVE  box' \in [Peers -> [Threads -> Seq(Message)]] /\ Boxes'
<1>1. box' \in [Peers -> [Threads -> Seq(Message)]]
  BY DEF Post, Shape, Types
<1>2. \A q \in Peers, u \in Threads :
        box'[q][u] = IF q = p /\ u = t THEN msgs ELSE box[q][u]
  BY Posting DEF Shape
<1>3. "writer" \in Threads /\ "reader" \in Threads /\ "transport" \in Threads
  BY DEF Threads
<1>4. ASSUME NEW q \in Peers
      PROVE  \/ box'[q]["writer"] \in {<<>>, <<Eof>>, <<CloseMsg>>, <<Eof, CloseMsg>>}
             \/ \E bytes \in Seq(Nat) : box'[q]["writer"] = <<Data(bytes)>>
  BY <1>2, <1>3, ZenonT(40) DEF Boxes, Shape
<1>5. ASSUME NEW q \in Peers
      PROVE  box'[q]["reader"] = <<>> \/ \E n \in Nat : box'[q]["reader"] = <<Adjust(n)>>
  BY <1>2, <1>3 DEF Boxes, Shape
<1>6. ASSUME NEW q \in Peers
      PROVE  box'[q]["transport"] \in {<<>>, <<CloseMsg>>, <<Eof, CloseMsg>>}
  BY <1>2, <1>3 DEF Boxes, Shape
<1> QED
  BY <1>1, <1>4, <1>5, <1>6 DEF Boxes

\* Sequences of one and of two messages.
LEMMA FewMessages ==
  ASSUME NEW a \in Message, NEW b \in Message
  PROVE  /\ <<>> \o <<b>> = <<b>> /\ <<a>> \o <<b>> = <<a, b>>
         /\ Tail(<<a>>) = <<>> /\ Tail(<<a, b>>) = <<b>>
         /\ Head(<<a>>) = a /\ Head(<<a, b>>) = a
<1>1. <<a>> \in Seq(Message) /\ <<b>> \in Seq(Message) /\ <<a, b>> \in Seq(Message)
  OBVIOUS
<1>2. <<>> \o <<b>> = <<b>>
  BY <1>1, ConcatEmptySeq
<1>3. <<a>> \o <<b>> = <<a, b>>
  <2>1. <<a>> \o <<b>> \in Seq(Message) /\ Len(<<a>> \o <<b>>) = 2
    BY <1>1
  <2>2. \A i \in 1 .. 2 : (<<a>> \o <<b>>)[i] = <<a, b>>[i]
    BY <1>1
  <2> QED
    BY <1>1, <2>1, <2>2, SeqEqual
<1>4. Tail(<<a>>) = <<>> /\ Head(<<a>>) = a /\ Head(<<a, b>>) = a
  BY <1>1
<1>5. Tail(<<a, b>>) = <<b>>
  <2>1. Tail(<<a, b>>) \in Seq(Message) /\ Len(Tail(<<a, b>>)) = 1
    BY <1>1
  <2>2. Tail(<<a, b>>)[1] = <<b>>[1]
    BY <1>1
  <2> QED
    BY <1>1, <2>1, <2>2, SeqEqual
<1> QED
  BY <1>2, <1>3, <1>4, <1>5

\* _close_internal returns CLOSE, after EOF if that was not sent.
LEMMA FarewellIs ==
  ASSUME NEW p \in Peers
  PROVE  Farewell(p) \in {<<CloseMsg>>, <<Eof, CloseMsg>>}
BY FewMessages, MessageKinds DEF Farewell

\* What is left of a box when its first message was sent
LEMMA BoxTails ==
  ASSUME Shape, NEW p \in Peers, NEW t \in Threads, ~Free(p, t)
  PROVE  \/ /\ box[p][t] = <<Eof, CloseMsg>> /\ Tail(box[p][t]) = <<CloseMsg>>
            /\ Head(box[p][t]) = Eof /\ t # "reader"
         \/ /\ box[p][t] = <<Head(box[p][t])>> /\ Tail(box[p][t]) = <<>>
            /\ \/ t = "writer" /\ \E bytes \in Seq(Nat) : Head(box[p][t]) = Data(bytes)
               \/ t = "writer" /\ Head(box[p][t]) \in {Eof, CloseMsg}
               \/ t = "reader" /\ \E n \in Nat : Head(box[p][t]) = Adjust(n)
               \/ t = "transport" /\ Head(box[p][t]) = CloseMsg
<1>1. \A a \in Message : Tail(<<a>>) = <<>> /\ Head(<<a>>) = a
  BY FewMessages
<1>2. Tail(<<Eof, CloseMsg>>) = <<CloseMsg>> /\ Head(<<Eof, CloseMsg>>) = Eof
  BY FewMessages, MessageKinds
<1>3. CASE t = "writer"
  BY <1>1, <1>2, <1>3, MessageKinds DEF Shape, Boxes, Free
<1>4. CASE t = "reader"
  BY <1>1, <1>2, <1>4, MessageKinds DEF Shape, Boxes, Free
<1>5. CASE t = "transport"
  BY <1>1, <1>2, <1>5, MessageKinds DEF Shape, Boxes, Free
<1> QED
  BY <1>3, <1>4, <1>5 DEF Threads

\* Every step leaves in the boxes what the threads may be about to send.
LEMMA BoxTypes ==
  ASSUME Shape, [Next]_vars
  PROVE  box' \in [Peers -> [Threads -> Seq(Message)]] /\ Boxes'
<1>0. {"writer", "reader", "transport"} = Threads
  BY DEF Threads
<1>1. ASSUME NEW p \in Peers, NEW t \in Threads, SendUserMessage(p, t)
      PROVE  box' \in [Peers -> [Threads -> Seq(Message)]] /\ Boxes'
  <2>1. Post(p, t, Tail(box[p][t])) /\ ~Free(p, t)
    BY <1>1 DEF SendUserMessage
  <2>2. Tail(box[p][t]) \in {<<>>, <<CloseMsg>>} /\ (t = "reader" => Tail(box[p][t]) = <<>>)
    BY <2>1, BoxTails
  <2> QED
    BY <2>1, <2>2, Posted, MessageKinds DEF Threads
<1>2. ASSUME NEW p \in Peers, SendGranted(p)
      PROVE  box' \in [Peers -> [Threads -> Seq(Message)]] /\ Boxes'
  <2>1. PICK n \in 1 .. MaxBytes[p] - sent[p] :
          Post(p, "writer", <<Data([i \in 1 .. n |-> sent[p] + i])>>)
    BY <1>2 DEF SendGranted
  <2>2. [i \in 1 .. n |-> sent[p] + i] \in Seq(Nat)
    BY ChannelAssumption DEF Shape, Types
  <2>3. <<Data([i \in 1 .. n |-> sent[p] + i])>> \in Seq(Message)
    BY <2>2, MessageKinds
  <2> QED
    BY <1>0, <2>1, <2>2, <2>3, Posted
<1>3. ASSUME NEW p \in Peers, CheckAddWindow(p)
      PROVE  box' \in [Peers -> [Threads -> Seq(Message)]] /\ Boxes'
  <2> DEFINE sofar == chan[p].sofar + uncounted[p]
  <2>1. sofar \in Nat
    BY Fields DEF Shape, Types
  <2>2. <<Adjust(sofar)>> \in Seq(Message) /\ <<>> \in Seq(Message)
    BY <2>1, MessageKinds
  <2>3. box' = box \/ Post(p, "reader", <<>>) \/ Post(p, "reader", <<Adjust(sofar)>>)
    BY <1>3 DEF CheckAddWindow
  <2> QED
    BY <1>0, <2>1, <2>2, <2>3, Posted DEF Shape, Types, Boxes
<1>4. ASSUME NEW p \in Peers, ShutdownWrite(p) \/ Close(p)
      PROVE  box' \in [Peers -> [Threads -> Seq(Message)]] /\ Boxes'
  BY <1>0, <1>4, FarewellIs, MessageKinds, Posted DEF ShutdownWrite, Close
<1>5. ASSUME NEW p \in Peers, HandleClose(p)
      PROVE  box' \in [Peers -> [Threads -> Seq(Message)]] /\ Boxes'
  <2>1. CASE UNCHANGED box
    BY <2>1 DEF Shape, Types, Boxes
  <2>2. CASE Post(p, "transport", <<>>) \/ Post(p, "transport", Farewell(p))
    BY <1>0, <2>2, FarewellIs, MessageKinds, Posted
  <2> QED
    BY <1>5, <2>1, <2>2 DEF HandleClose
<1>6. ASSUME NEW p \in Peers, Die(p)
      PROVE  box' \in [Peers -> [Threads -> Seq(Message)]] /\ Boxes'
  <2>1. Post(p, "transport", <<>>)
    BY <1>6 DEF Die, Post
  <2> QED
    BY <1>0, <2>1, Posted, MessageKinds
<1>7. CASE UNCHANGED box
  BY <1>7 DEF Shape, Types, Boxes
<1> QED
  BY <1>1, <1>2, <1>3, <1>4, <1>5, <1>6, <1>7 DEF Next, Send, Recv, TransportStep, KexTimeout,
     HangUp, SendWaits, SendGivesUp, RecvData, RecvEnd, Feed, WindowAdjust, HandleEof, StartKex,
     NegotiateKeys, ParseNewKeys, vars

\* The attributes of a channel and of a pipe keep their types where one of them
\* is assigned.
LEMMA Attributes ==
  /\ \A r \in ChannelRecord, n \in Nat :
       /\ [r EXCEPT !.sofar = n] \in ChannelRecord
       /\ [r EXCEPT !.outWindow = n] \in ChannelRecord
  /\ \A r \in ChannelRecord, b \in BOOLEAN :
       /\ [r EXCEPT !.eofSent = b] \in ChannelRecord
       /\ [r EXCEPT !.eofReceived = b] \in ChannelRecord
       /\ [r EXCEPT !.closed = b] \in ChannelRecord
       /\ [r EXCEPT !.linked = b] \in ChannelRecord
  /\ \A r \in PipeRecord, s \in Seq(Nat) : [r EXCEPT !.buffer = s] \in PipeRecord
  /\ \A r \in PipeRecord : [r EXCEPT !.closed = TRUE] \in PipeRecord
BY DEF ChannelRecord, PipeRecord

\* The assignments to the attributes of a channel, its pipe and its writer.
LEMMA Assignments ==
  ASSUME Types, NEW p \in Peers
  PROVE  /\ \A n \in Nat : [chan EXCEPT ![p].sofar = n] \in [Peers -> ChannelRecord]
         /\ \A n \in Nat : [chan EXCEPT ![p].outWindow = n] \in [Peers -> ChannelRecord]
         /\ [chan EXCEPT ![p].eofSent = TRUE] \in [Peers -> ChannelRecord]
         /\ [chan EXCEPT ![p].eofReceived = TRUE] \in [Peers -> ChannelRecord]
         /\ [chan EXCEPT ![p].closed = TRUE, ![p].linked = FALSE] \in [Peers -> ChannelRecord]
         /\ \A linked \in BOOLEAN : Closed(p, linked) \in [Peers -> ChannelRecord]
         /\ \A s \in Seq(Nat) : [pipe EXCEPT ![p].buffer = s] \in [Peers -> PipeRecord]
         /\ ClosePipe(p) => pipe' \in [Peers -> PipeRecord]
         /\ NotifyWriter(p) => writer' \in [Peers -> {"ready", "asleep", "notified"}]
<1>1. /\ \A n \in Nat : [chan EXCEPT ![p].sofar = n] \in [Peers -> ChannelRecord]
      /\ \A n \in Nat : [chan EXCEPT ![p].outWindow = n] \in [Peers -> ChannelRecord]
      /\ [chan EXCEPT ![p].eofSent = TRUE] \in [Peers -> ChannelRecord]
      /\ [chan EXCEPT ![p].eofReceived = TRUE] \in [Peers -> ChannelRecord]
  BY Attributes DEF Types
<1>2. [chan EXCEPT ![p].closed = TRUE, ![p].linked = FALSE] \in [Peers -> ChannelRecord]
  BY Attributes DEF Types
<1>3. \A linked \in BOOLEAN : Closed(p, linked) \in [Peers -> ChannelRecord]
  BY Attributes DEF Types, Closed
<1>4. \A s \in Seq(Nat) : [pipe EXCEPT ![p].buffer = s] \in [Peers -> PipeRecord]
  BY Attributes DEF Types
<1>5. ClosePipe(p) => pipe' \in [Peers -> PipeRecord]
  <2>1. [pipe EXCEPT ![p].closed = TRUE] \in [Peers -> PipeRecord]
    BY Attributes DEF Types
  <2> QED
    BY <2>1, Zenon DEF ClosePipe
<1>6. NotifyWriter(p) => writer' \in [Peers -> {"ready", "asleep", "notified"}]
  BY DEF Types, NotifyWriter
<1> QED
  BY <1>1, <1>2, <1>3, <1>4, <1>5, <1>6

\* Every step keeps the types and the boxes.
LEMMA ShapeStep ==
  ASSUME Shape, [Next]_vars
  PROVE  Shape'
<1>0. /\ net' \in [Peers -> Seq(Message)]
      /\ box' \in [Peers -> [Threads -> Seq(Message)]] /\ Boxes'
  BY NetTypes, BoxTypes
<1>00. Types /\ Boxes
  BY DEF Shape
<1>a. \A p \in Peers :
        /\ \A n \in Nat : [chan EXCEPT ![p].sofar = n] \in [Peers -> ChannelRecord]
        /\ \A n \in Nat : [chan EXCEPT ![p].outWindow = n] \in [Peers -> ChannelRecord]
        /\ [chan EXCEPT ![p].eofSent = TRUE] \in [Peers -> ChannelRecord]
        /\ [chan EXCEPT ![p].eofReceived = TRUE] \in [Peers -> ChannelRecord]
        /\ [chan EXCEPT ![p].closed = TRUE, ![p].linked = FALSE] \in [Peers -> ChannelRecord]
        /\ Closed(p, TRUE) \in [Peers -> ChannelRecord] 
        /\ Closed(p, FALSE) \in [Peers -> ChannelRecord]
        /\ \A s \in Seq(Nat) : [pipe EXCEPT ![p].buffer = s] \in [Peers -> PipeRecord]
        /\ ClosePipe(p) => pipe' \in [Peers -> PipeRecord]
        /\ NotifyWriter(p) => writer' \in [Peers -> {"ready", "asleep", "notified"}]
  BY <1>00, Assignments
<1>b. /\ chan \in [Peers -> ChannelRecord] /\ pipe \in [Peers -> PipeRecord]
      /\ writer \in [Peers -> {"ready", "asleep", "notified"}]
  BY <1>00 DEF Types<1>1. ASSUME NEW p \in Peers, SendGranted(p) PROVE Shape'
  <2>1. PICK n \in 1 .. MaxBytes[p] - sent[p] :
          /\ n <= chan[p].outWindow
          /\ chan' = [chan EXCEPT ![p].outWindow = chan[p].outWindow - n]
          /\ sent' = [sent EXCEPT ![p] = sent[p] + n]
    BY <1>1 DEF SendGranted
  <2>2. chan[p].outWindow \in Nat /\ sent[p] \in Nat /\ MaxBytes[p] \in Nat
    BY <1>00, Fields, ChannelAssumption DEF Types
  <2>3. chan[p].outWindow - n \in Nat /\ sent[p] + n \in Nat
    BY <2>1, <2>2
  <2>4. chan' \in [Peers -> ChannelRecord]
    BY <2>1, <2>3, <1>a, Zenon
  <2>5. sent' \in [Peers -> Nat]
    BY <1>00, <2>1, <2>3 DEF Types
  <2> QED
    BY <1>0, <1>1, <2>4, <2>5 DEF SendGranted, kexVars, Shape, Types
<1>2. ASSUME NEW p \in Peers, SendWaits(p) \/ SendGivesUp(p) PROVE Shape'
  BY <1>0, <1>2 DEF SendWaits, SendGivesUp, kexVars, promiseVars, Shape, Types
<1>3. ASSUME NEW p \in Peers, RecvData(p) PROVE Shape'
  <2>1. PICK n \in 1 .. Len(pipe[p].buffer) :
          /\ got' = [got EXCEPT ![p] = @ \o SubSeq(pipe[p].buffer, 1, n)]
          /\ pipe' = [pipe EXCEPT ![p].buffer = SubSeq(@, n + 1, Len(@))]
          /\ uncounted' = [uncounted EXCEPT ![p] = n]
    BY <1>3 DEF RecvData
  <2>2. pipe[p].buffer \in Seq(Nat) /\ got[p] \in Seq(Nat)
    BY <1>00, Fields DEF Types
  <2>3. SubSeq(pipe[p].buffer, 1, n) \in Seq(Nat)
        /\ SubSeq(pipe[p].buffer, n + 1, Len(pipe[p].buffer)) \in Seq(Nat)
    BY <2>2, SMTT(30)
  <2>4. got' \in [Peers -> Seq(Nat)]
    BY <2>1, <2>2, <2>3, <1>00, SMTT(30) DEF Types
  <2>5. pipe' \in [Peers -> PipeRecord]
    BY <2>1, <2>3, <1>a, <1>b, Zenon
  <2>6. uncounted' \in [Peers -> Nat]
    BY <2>1, <1>00 DEF Types
  <2> QED
    BY <1>0, <1>3, <2>4, <2>5, <2>6 DEF RecvData, kexVars, Shape, Types
<1>4. ASSUME NEW p \in Peers, RecvEnd(p) PROVE Shape'
  BY <1>0, <1>4 DEF RecvEnd, kexVars, Shape, Types
<1>5. ASSUME NEW p \in Peers, CheckAddWindow(p) PROVE Shape'
  <2>1. chan[p].sofar + uncounted[p] \in Nat /\ 0 \in Nat
    BY <1>00, Fields DEF Types
  <2>2. \/ chan' = chan
        \/ \E n \in Nat : chan' = [chan EXCEPT ![p].sofar = n]
    BY <1>5, <2>1 DEF CheckAddWindow
  <2>3. chan' \in [Peers -> ChannelRecord]
    <3>1. CASE chan' = chan
      BY <3>1, <1>b, Zenon
    <3>2. ASSUME NEW n \in Nat, chan' = [chan EXCEPT ![p].sofar = n]
          PROVE  chan' \in [Peers -> ChannelRecord]
      BY <3>2, <1>a, Zenon
    <3> QED
      BY <2>2, <3>1, <3>2, Zenon
  <2> QED
    BY <1>0, <1>5, <2>3 DEF CheckAddWindow, kexVars, promiseVars, Shape, Types
<1>6. ASSUME NEW p \in Peers, ShutdownWrite(p) PROVE Shape'
  BY <1>0, <1>6, <1>a, <1>b, Zenon DEF ShutdownWrite, kexVars, promiseVars, Shape, Types
<1>7. ASSUME NEW p \in Peers, Close(p) PROVE Shape'
  <2>1. /\ chan' \in [Peers -> ChannelRecord] /\ pipe' \in [Peers -> PipeRecord]
        /\ writer' \in [Peers -> {"ready", "asleep", "notified"}]
    BY <1>7, <1>a, <1>b, Zenon DEF Close
  <2>2. broken' \in [Peers -> BOOLEAN]
    BY <1>00, <1>7 DEF Close, Types
  <2> QED
    BY <1>0, <1>7, <2>1, <2>2 DEF Close, kexVars, Shape, Types
<1>8. ASSUME NEW p \in Peers, NEW t \in Threads, SendUserMessage(p, t) PROVE Shape'
  BY <1>0, <1>8 DEF SendUserMessage, kexVars, promiseVars, Shape, Types
<1>9. ASSUME NEW p \in Peers, Feed(p) PROVE Shape'
  <2>1. pipe[p].buffer \in Seq(Nat) /\ Head(net[p]).bytes \in Seq(Nat)
    BY <1>9, <1>00, Fields DEF Feed, Arrives
  <2>2. pipe[p].buffer \o Head(net[p]).bytes \in Seq(Nat)
    BY <2>1
  <2>3. pipe' \in [Peers -> PipeRecord]
    <3>1. CASE UNCHANGED pipe
      BY <3>1, <1>b
    <3>2. CASE pipe' = [pipe EXCEPT ![p].buffer = pipe[p].buffer \o Head(net[p]).bytes]
      BY <3>2, <2>2, <1>a, Zenon
    <3> QED
      BY <1>9, <3>1, <3>2 DEF Feed
  <2> QED
    BY <1>0, <1>9, <2>3 DEF Feed, kexVars, promiseVars, Shape, Types
<1>10. ASSUME NEW p \in Peers, WindowAdjust(p) PROVE Shape'
  <2>2. chan[p].outWindow + Head(net[p]).n \in Nat
    BY <1>10, <1>00, Fields DEF WindowAdjust, Arrives
  <2>3. \/ UNCHANGED <<chan, writer>>
        \/ /\ chan' = [chan EXCEPT ![p].outWindow = chan[p].outWindow + Head(net[p]).n]
           /\ NotifyWriter(p)
    BY <1>10 DEF WindowAdjust
  <2>4. chan' \in [Peers -> ChannelRecord] /\ writer' \in [Peers -> {"ready", "asleep", "notified"}]
    <3>1. CASE UNCHANGED <<chan, writer>>
      BY <3>1, <1>b
    <3>2. CASE /\ chan' = [chan EXCEPT ![p].outWindow = chan[p].outWindow + Head(net[p]).n]
               /\ NotifyWriter(p)
      BY <3>2, <2>2, <1>a, Zenon
    <3> QED
      BY <2>3, <3>1, <3>2
  <2> QED
    BY <1>0, <1>10, <2>4 DEF WindowAdjust, kexVars, promiseVars, Shape, Types
<1>11. ASSUME NEW p \in Peers, HandleEof(p) PROVE Shape'
  <2>1. chan' \in [Peers -> ChannelRecord] /\ pipe' \in [Peers -> PipeRecord]
    <3>1. CASE UNCHANGED <<chan, pipe>>
      BY <3>1, <1>b
    <3>2. CASE chan' = [chan EXCEPT ![p].eofReceived = TRUE] /\ ClosePipe(p)
      BY <3>2, <1>a, Zenon
    <3> QED
      BY <1>11, <3>1, <3>2 DEF HandleEof
  <2> QED
    BY <1>0, <1>11, <2>1 DEF HandleEof, kexVars, promiseVars, Shape, Types
<1>12. ASSUME NEW p \in Peers, HandleClose(p) PROVE Shape'
  <2>1. /\ chan' \in [Peers -> ChannelRecord] /\ pipe' \in [Peers -> PipeRecord]
        /\ writer' \in [Peers -> {"ready", "asleep", "notified"}]
    <3>1. CASE UNCHANGED <<chan, pipe, writer>>
      BY <3>1, <1>b
    <3>2. CASE chan' = Closed(p, FALSE) /\ ClosePipe(p) /\ NotifyWriter(p)
      BY <3>2, <1>a, Zenon
    <3> QED
      BY <1>12, <3>1, <3>2 DEF HandleClose
  <2> QED
    BY <1>0, <1>12, <2>1 DEF HandleClose, kexVars, promiseVars, Shape, Types
<1>13. ASSUME NEW p \in Peers, StartKex(p) PROVE Shape'
  <2>1. kexes' \in Nat
    BY <1>00, <1>13 DEF StartKex, Types
  <2>2. clear' \in [Peers -> BOOLEAN] /\ inKex' \in [Peers -> BOOLEAN]
    BY <1>00, <1>13 DEF StartKex, Types
  <2> QED
    BY <1>0, <1>13, <2>1, <2>2 DEF StartKex, promiseVars, Shape, Types
<1>14. ASSUME NEW p \in Peers, NegotiateKeys(p) PROVE Shape'
  BY <1>0, <1>14 DEF NegotiateKeys, promiseVars, Shape, Types
<1>15. ASSUME NEW p \in Peers, ParseNewKeys(p) PROVE Shape'
  BY <1>0, <1>15 DEF ParseNewKeys, promiseVars, Shape, Types
<1>16. ASSUME NEW p \in Peers, Die(p) PROVE Shape'
  <2>1. /\ chan' \in [Peers -> ChannelRecord] /\ pipe' \in [Peers -> PipeRecord]
        /\ writer' \in [Peers -> {"ready", "asleep", "notified"}]
    <3>1. CASE UNCHANGED <<chan, pipe, writer>>
      BY <3>1, <1>b
    <3>2. CASE /\ chan' = [chan EXCEPT ![p].closed = TRUE, ![p].linked = FALSE]
               /\ ClosePipe(p) /\ NotifyWriter(p)
      BY <3>2, <1>a, Zenon
    <3> QED
      BY <1>16, <3>1, <3>2 DEF Die
  <2>2. active' \in [Peers -> BOOLEAN] /\ broken' \in [Peers -> BOOLEAN]
    BY <1>00, <1>16 DEF Die, Types
  <2> QED
    BY <1>0, <1>16, <2>1, <2>2 DEF Die, kexVars, Shape, Types
<1>17. CASE UNCHANGED vars
  BY <1>0, <1>17 DEF vars, kexVars, promiseVars, Shape, Types
<1> QED
  BY <1>1, <1>2, <1>3, <1>4, <1>5, <1>6, <1>7, <1>8, <1>9, <1>10, <1>11, <1>12, <1>13, <1>14,
     <1>15, <1>16, <1>17 DEF Next, Send, Recv, TransportStep, KexTimeout, HangUp

-----------------------------------------------------------------------------
(* The key exchange                                                        *)

Offered(s) == \E i \in 1 .. Len(s) : s[i].kind = "kexinit"
Keyed(s)   == \E i \in 1 .. Len(s) : s[i].kind = "newkeys"

\* There is one KEXINIT on the way at most, with only a NEWKEYS behind it, and
\* one NEWKEYS at most.
OneOffer(s) ==
  \A i, j \in 1 .. Len(s) :
    s[i].kind = "kexinit" /\ i # j =>
      \/ i < j /\ s[j].kind = "newkeys"
      \/ j < i /\ s[j].kind # "kexinit"
OneKeyed(s) ==
  \A i, j \in 1 .. Len(s) : s[i].kind = "newkeys" /\ s[j].kind = "newkeys" => i = j

\* The key exchange as p sees it: its KEXINIT is on the way, or the NEWKEYS that
\* answers it, or none of the two, and only while p waits for the keys and may
\* send nothing else.
KexOf(p) ==
  /\ clear[p] <=> ~inKex[p]
  /\ Offered(net[Other[p]]) => inKex[p] /\ ~Keyed(net[p])
  /\ Keyed(net[p]) => inKex[p]
  /\ OneOffer(net[p]) /\ OneKeyed(net[p])

KexOrder == \A p \in Peers : KexOf(p)

\* One message more.
LEMMA OneMore ==
  ASSUME NEW s \in Seq(Message), NEW m \in Message
  PROVE  /\ Offered(Append(s, m)) <=> Offered(s) \/ m.kind = "kexinit"
         /\ Keyed(Append(s, m)) <=> Keyed(s) \/ m.kind = "newkeys"
         /\ OneOffer(s) /\ (~Offered(s) \/ m.kind = "newkeys") => OneOffer(Append(s, m))
         /\ OneKeyed(s) /\ (~Keyed(s) \/ m.kind # "newkeys") => OneKeyed(Append(s, m))
<1>1. /\ Len(Append(s, m)) = Len(s) + 1 /\ Len(s) \in Nat
      /\ \A i \in 1 .. Len(s) : Append(s, m)[i] = s[i]
      /\ Append(s, m)[Len(s) + 1] = m
  OBVIOUS
<1>2. \A i \in 1 .. Len(s) + 1 : i \in 1 .. Len(s) \/ i = Len(s) + 1
  BY <1>1
<1>3. Offered(Append(s, m)) <=> Offered(s) \/ m.kind = "kexinit"
  BY <1>1, <1>2 DEF Offered
<1>4. Keyed(Append(s, m)) <=> Keyed(s) \/ m.kind = "newkeys"
  BY <1>1, <1>2 DEF Keyed
<1>5. OneOffer(s) /\ (~Offered(s) \/ m.kind = "newkeys") => OneOffer(Append(s, m))
  BY <1>1, <1>2 DEF OneOffer, Offered
<1>6. OneKeyed(s) /\ (~Keyed(s) \/ m.kind # "newkeys") => OneKeyed(Append(s, m))
  BY <1>1, <1>2 DEF OneKeyed, Keyed
<1> QED
  BY <1>3, <1>4, <1>5, <1>6

\* One message less.
LEMMA OneLess ==
  ASSUME NEW s \in Seq(Message), s # <<>>
  PROVE  /\ Offered(Tail(s)) => Offered(s) /\ (OneOffer(s) => Head(s).kind # "kexinit")
         /\ Keyed(Tail(s)) => Keyed(s) /\ (OneKeyed(s) => Head(s).kind # "newkeys")
         /\ Head(s).kind = "kexinit" => Offered(s)
         /\ Head(s).kind = "newkeys" => Keyed(s)
         /\ OneOffer(s) => OneOffer(Tail(s))
         /\ OneKeyed(s) => OneKeyed(Tail(s))
<1>1. /\ Len(Tail(s)) = Len(s) - 1 /\ Len(s) \in Nat /\ Len(s) >= 1 /\ Head(s) = s[1]
      /\ \A i \in 1 .. Len(s) - 1 : Tail(s)[i] = s[i + 1]
  OBVIOUS
<1>2. \A i \in 1 .. Len(s) - 1 : i + 1 \in 1 .. Len(s) /\ 1 \in 1 .. Len(s) /\ i + 1 # 1
  BY <1>1
<1>3. Offered(Tail(s)) => Offered(s) /\ (OneOffer(s) => Head(s).kind # "kexinit")
  BY <1>1, <1>2 DEF Offered, OneOffer
<1>4. Keyed(Tail(s)) => Keyed(s) /\ (OneKeyed(s) => Head(s).kind # "newkeys")
  BY <1>1, <1>2 DEF Keyed, OneKeyed
<1>5. (Head(s).kind = "kexinit" => Offered(s)) /\ (Head(s).kind = "newkeys" => Keyed(s))
  BY <1>1 DEF Keyed, Offered
<1>6. OneOffer(s) => OneOffer(Tail(s))
  BY <1>1, <1>2 DEF OneOffer
<1>7. OneKeyed(s) => OneKeyed(Tail(s))
  BY <1>1, <1>2 DEF OneKeyed
<1> QED
  BY <1>3, <1>4, <1>5, <1>6, <1>7

\* Two messages are appended one after the other.
LEMMA TwoMore ==
  ASSUME NEW s \in Seq(Message), NEW a \in Message, NEW b \in Message
  PROVE  s \o <<b>> = Append(s, b) /\ s \o <<a, b>> = Append(Append(s, a), b)
<1>1. <<a>> \in Seq(Message) /\ <<b>> \in Seq(Message) /\ Append(s, a) \in Seq(Message)
  OBVIOUS
<1>2. s \o <<b>> = Append(s, b) /\ s \o <<a>> = Append(s, a)
  BY AppendIsConcat
<1>3. Append(s, a) \o <<b>> = Append(Append(s, a), b)
  BY <1>1, AppendIsConcat
<1>4. (s \o <<a>>) \o <<b>> = s \o (<<a>> \o <<b>>)
  BY <1>1, ConcatAssociative
<1>5. <<a>> \o <<b>> = <<a, b>>
  BY FewMessages
<1> QED
  BY <1>2, <1>3, <1>4, <1>5, Zenon

\* A connection with nothing on its way is quiet.
LEMMA NoMessage == ~Offered(<<>>) /\ ~Keyed(<<>>) /\ OneOffer(<<>>) /\ OneKeyed(<<>>)
BY DEF Offered, Keyed, OneOffer, OneKeyed

\* At first no key exchange is under way.
LEMMA KexOrderInit == Init => KexOrder
<1> SUFFICES ASSUME Init, NEW p \in Peers
             PROVE  /\ net[p] = <<>> /\ net[Other[p]] = <<>>
                    /\ clear[p] = TRUE /\ inKex[p] = FALSE
  BY NoMessage DEF KexOrder, KexOf
<1> QED
  BY ChannelAssumption DEF Init

\* Nothing more on the way, or less of it.
LEMMA KexOrderUntouched ==
  ASSUME KexOrder, UNCHANGED <<clear, inKex>>, \A q \in Peers : net'[q] \in {net[q], <<>>}
  PROVE  KexOrder'
BY NoMessage, ChannelAssumption DEF KexOrder, KexOf

\* A message that is no part of a key exchange is sent only when it is over.
LEMMA KexOrderSent ==
  ASSUME Shape, KexOrder, NEW p \in Peers, NEW m \in Message, m.kind \notin {"kexinit", "newkeys"},
         clear[p], net' = ToOther(p, <<m>>), UNCHANGED <<clear, inKex>>
  PROVE  KexOrder'
<1>1. \A q \in Peers : net[q] \in Seq(Message) /\ net[q] \o <<m>> = Append(net[q], m)
  BY TwoMore DEF Shape, Types
<1>2. \A q \in Peers : net'[q] = IF q = Other[p] /\ active[q] THEN Append(net[q], m) ELSE net[q]
  <2>1. <<m>> \in Seq(Message)
    OBVIOUS
  <2> QED
    BY <1>1, <2>1, Sending DEF Shape
<1>3. ASSUME NEW q \in Peers
      PROVE  /\ OneOffer(net'[q]) /\ OneKeyed(net'[q])
             /\ Offered(net'[q]) <=> Offered(net[q])
             /\ Keyed(net'[q]) <=> Keyed(net[q])
  <2>1. CASE net'[q] = net[q]
    BY <2>1 DEF KexOrder, KexOf
  <2>2. CASE q = Other[p] /\ net'[q] = Append(net[q], m)
    <3>1. ~Offered(net[q]) /\ OneOffer(net[q]) /\ OneKeyed(net[q])
      BY <2>2 DEF KexOrder, KexOf
    <3>2. LET s == Append(net[q], m)
          IN  /\ OneOffer(s) /\ OneKeyed(s)
              /\ (Offered(s) <=> Offered(net[q])) /\ (Keyed(s) <=> Keyed(net[q]))
      BY <1>1, <3>1, OneMore
    <3> QED
      BY <2>2, <3>1, <3>2
  <2> QED
    BY <1>2, <2>1, <2>2
<1> QED
  BY <1>3, ChannelAssumption DEF KexOrder, KexOf

\* A message that is taken is no longer on the way.
LEMMA KexOrderTaken ==
  ASSUME Shape, KexOrder, NEW p \in Peers, NEW kind, Arrives(p, kind), net' = Taken(p),
         UNCHANGED <<clear, inKex>>
  PROVE  KexOrder'
<1>1. \A q \in Peers : net'[q] = IF q = p THEN Tail(net[q]) ELSE net[q]
  BY Taking DEF Shape
<1>2. net[p] \in Seq(Message) /\ net[p] # <<>>
  BY DEF Shape, Types, Arrives
<1> QED
  BY <1>1, <1>2, OneLess, ChannelAssumption DEF KexOrder, KexOf

\* Every step keeps the order of a key exchange.
LEMMA KexOrderStep ==
  ASSUME Shape, KexOrder, [Next]_vars
  PROVE  KexOrder'
<1>0. \A q \in Peers : net[q] \in Seq(Message) /\ inKex[q] \in BOOLEAN /\ clear[q] \in BOOLEAN
  BY DEF Shape, Types
<1>1. ASSUME NEW p \in Peers, NEW t \in Threads, SendUserMessage(p, t) PROVE KexOrder'
  <2>1. Head(box[p][t]) \in Message /\ Head(box[p][t]).kind \notin {"kexinit", "newkeys"}
    <3>1. /\ Eof \in Message /\ Eof.kind = "eof" /\ CloseMsg \in Message /\ CloseMsg.kind = "close"
          /\ \A bytes \in Seq(Nat) : Data(bytes) \in Message /\ Data(bytes).kind = "data"
          /\ \A n \in Nat : Adjust(n) \in Message /\ Adjust(n).kind = "adjust"
      BY MessageKinds DEF Eof, CloseMsg, Data, Adjust, Msg
    <3> QED
      BY <1>1, <3>1, BoxTails DEF SendUserMessage
  <2>2. UNCHANGED <<clear, inKex>>
    BY <1>1 DEF SendUserMessage, kexVars
  <2>3. CASE active[p]
    BY <1>1, <2>1, <2>2, <2>3, KexOrderSent DEF SendUserMessage
  <2>4. CASE ~active[p]
    BY <1>1, <2>2, <2>4, KexOrderUntouched DEF SendUserMessage
  <2> QED
    BY <2>3, <2>4
<1>2. ASSUME NEW p \in Peers, Feed(p) \/ WindowAdjust(p) \/ HandleEof(p) \/ HandleClose(p)
      PROVE  KexOrder'
  BY <1>2, KexOrderTaken DEF Feed, WindowAdjust, HandleEof, HandleClose, kexVars
<1>3. ASSUME NEW p \in Peers, StartKex(p) PROVE KexOrder'
  <2>1. \A q \in Peers : net'[q] = IF q = Other[p] /\ active[q] THEN Append(net[q], KexInit) ELSE net[q]
    <3>1. <<KexInit>> \in Seq(Message) /\ KexInit \in Message
      BY MessageKinds
    <3>2. \A q \in Peers : net[q] \o <<KexInit>> = Append(net[q], KexInit)
      BY <1>0, <3>1, TwoMore
    <3> QED
      BY <1>3, <3>1, <3>2, Sending DEF Shape, StartKex
  <2>2. \A q \in Peers : /\ clear'[q] <=> clear[q] /\ q # p
                         /\ inKex'[q] <=> inKex[q] \/ q = p
    BY <1>0, <1>3 DEF StartKex, Shape, Types
  <2>3. ~inKex[p] /\ KexInit \in Message /\ KexInit.kind = "kexinit"
    BY <1>3, MessageKinds DEF StartKex, KexInit, Msg
  <2> DEFINE q == Other[p]
  <2>4. q \in Peers \ {p} /\ Other[q] = p
    BY ChannelAssumption
  <2>5. ~Offered(net[q]) /\ ~Keyed(net[p]) /\ KexOf(q)
    BY <2>3, <2>4 DEF KexOrder, KexOf
  <2>6. net'[p] = net[p] /\ net'[q] \in {net[q], Append(net[q], KexInit)}
    BY <2>1, <2>4
  <2>7. KexOf(p)'
    BY <1>0, <2>2, <2>3, <2>4, <2>5, <2>6, OneMore DEF KexOrder, KexOf
  <2>8. KexOf(q)'
    <3>1. OneOffer(net[q]) /\ OneKeyed(net[q])
      BY <2>5 DEF KexOf
    <3>2. LET s == Append(net[q], KexInit)
          IN  OneOffer(s) /\ OneKeyed(s) /\ (Keyed(s) <=> Keyed(net[q]))
      BY <1>0, <2>3, <2>4, <2>5, <3>1, OneMore
    <3>3. /\ OneOffer(net'[q]) /\ OneKeyed(net'[q])
          /\ Keyed(net'[q]) <=> Keyed(net[q])
      BY <2>6, <3>1, <3>2
    <3> QED
      BY <1>0, <2>2, <2>4, <2>5, <2>6, <3>3 DEF KexOf
  <2>9. ASSUME NEW r \in Peers \ {p, q} PROVE KexOf(r)'
    BY <2>1, <2>2, <2>4, ChannelAssumption DEF KexOrder, KexOf
  <2> QED
    BY <2>7, <2>8, <2>9 DEF KexOrder
<1>4. ASSUME NEW p \in Peers, NegotiateKeys(p) PROVE KexOrder'
  <2>1. net[p] # <<>> /\ Head(net[p]).kind = "kexinit"
    BY <1>4 DEF NegotiateKeys, Arrives
  <2>2. /\ KexInit \in Message /\ KexInit.kind = "kexinit"
        /\ NewKeys \in Message /\ NewKeys.kind = "newkeys"
    BY MessageKinds DEF KexInit, NewKeys, Msg
  <2>3. \A q \in Peers : /\ net[q] \o <<NewKeys>> = Append(net[q], NewKeys)
                         /\ net[q] \o <<KexInit, NewKeys>> = Append(Append(net[q], KexInit), NewKeys)
    BY <1>0, <2>2, TwoMore
  <2>4. \A q \in Peers :
          net'[q] = IF q = p THEN Tail(net[q])
                    ELSE IF q # Other[p] \/ ~active[q] THEN net[q]
                    ELSE IF inKex[p] THEN Append(net[q], NewKeys)
                    ELSE Append(Append(net[q], KexInit), NewKeys)
    BY <1>0, <1>4, <2>3, ChannelAssumption, ZenonT(40) DEF NegotiateKeys, ToOther, Shape, Types
  <2>5. \A q \in Peers : /\ clear'[q] <=> clear[q] /\ q # p
                         /\ inKex'[q] <=> inKex[q] \/ q = p
    BY <1>0, <1>4 DEF NegotiateKeys, Shape, Types
  <2>6. \A q \in Peers : Append(net[q], KexInit) \in Seq(Message)
    BY <1>0, <2>2
  <2> DEFINE q == Other[p]
  <2>7. q \in Peers \ {p} /\ Other[q] = p
    BY ChannelAssumption
  <2>8. KexOf(p) /\ KexOf(q)
    BY <2>7 DEF KexOrder
  <2>9. /\ inKex[q] /\ ~Keyed(net[q]) /\ ~Offered(Tail(net[p]))
        /\ Keyed(Tail(net[p])) => Keyed(net[p])
        /\ OneOffer(Tail(net[p])) /\ OneKeyed(Tail(net[p]))
    BY <1>0, <2>1, <2>7, <2>8, OneLess DEF KexOf
  <2>10. net'[p] = Tail(net[p])
    BY <2>4
  <2>11. ASSUME net'[q] = net[q] PROVE KexOf(p)' /\ KexOf(q)'
    BY <1>0, <2>5, <2>7, <2>8, <2>9, <2>10, <2>11 DEF KexOf
  <2>12. ASSUME inKex[p], net'[q] = Append(net[q], NewKeys)
         PROVE  KexOf(p)' /\ KexOf(q)'
    <3>1. /\ Offered(net'[q]) <=> Offered(net[q])
          /\ OneOffer(net'[q]) /\ OneKeyed(net'[q])
      BY <1>0, <2>2, <2>7, <2>8, <2>9, <2>12, OneMore DEF KexOf
    <3> QED
      BY <1>0, <2>5, <2>7, <2>8, <2>9, <2>10, <3>1 DEF KexOf
  <2>13. ASSUME ~inKex[p], net'[q] = Append(Append(net[q], KexInit), NewKeys)
         PROVE  KexOf(p)' /\ KexOf(q)'
    <3>1. ~Offered(net[q]) /\ ~Keyed(net[p])
      BY <2>8, <2>13 DEF KexOf
    <3>2. ~Keyed(Append(net[q], KexInit)) /\ OneOffer(Append(net[q], KexInit)) /\ OneKeyed(Append(net[q], KexInit))
      BY <1>0, <2>2, <2>7, <2>8, <2>9, <3>1, OneMore DEF KexOf
    <3>3. OneOffer(net'[q]) /\ OneKeyed(net'[q])
      BY <2>2, <2>6, <2>7, <2>13, <3>2, OneMore, ZenonT(40)
    <3> QED
      BY <1>0, <2>5, <2>7, <2>8, <2>9, <2>10, <3>1, <3>3 DEF KexOf
  <2>14. KexOf(p)' /\ KexOf(q)'
    BY <2>4, <2>7, <2>11, <2>12, <2>13
  <2>15. ASSUME NEW r \in Peers \ {p, q} PROVE KexOf(r)'
    BY <2>4, <2>5, <2>7, ChannelAssumption DEF KexOrder, KexOf
  <2> QED
    BY <2>14, <2>15 DEF KexOrder
<1>5. ASSUME NEW p \in Peers, ParseNewKeys(p) PROVE KexOrder'
  <2>1. net[p] # <<>> /\ Head(net[p]).kind = "newkeys"
    BY <1>5 DEF ParseNewKeys, Arrives
  <2>2. \A q \in Peers : net'[q] = IF q = p THEN Tail(net[q]) ELSE net[q]
    BY <1>5, Taking DEF ParseNewKeys, Shape
  <2>3. \A q \in Peers : /\ clear'[q] <=> clear[q] \/ q = p
                         /\ inKex'[q] <=> inKex[q] /\ q # p
    BY <1>0, <1>5 DEF ParseNewKeys, Shape, Types
  <2>4. /\ OneOffer(Tail(net[p])) /\ OneKeyed(Tail(net[p])) /\ ~Keyed(Tail(net[p]))
        /\ Offered(Tail(net[p])) => Offered(net[p])
        /\ ~Offered(net[Other[p]])
    BY <1>0, <2>1, OneLess DEF KexOrder, KexOf
  <2>5. ASSUME NEW q \in Peers PROVE KexOf(q)'
    BY <1>0, <2>2, <2>3, <2>4, <2>5, ChannelAssumption, SMTT(30) DEF KexOrder, KexOf
  <2> QED
    BY <2>5 DEF KexOrder
<1>6. ASSUME NEW p \in Peers, Die(p) PROVE KexOrder'
  BY <1>0, <1>6, KexOrderUntouched DEF Die, kexVars, Shape, Types
<1>7. CASE UNCHANGED <<net, kexVars>>
  BY <1>7, KexOrderUntouched DEF kexVars
<1> QED
  BY <1>1, <1>2, <1>3, <1>4, <1>5, <1>6, <1>7 DEF Next, Send, Recv, TransportStep, KexTimeout,
     HangUp, SendGranted, SendWaits, SendGivesUp, RecvData, RecvEnd, CheckAddWindow, ShutdownWrite,
     Close, vars

\* No message of a channel is sent in the middle of a key exchange, for any
\* number of key exchanges and whoever starts them.
THEOREM KeyExchangesAreQuiet == Spec => []KexIsQuiet
<1>1. Init => Shape /\ KexOrder
  BY ShapeInit, KexOrderInit
<1>2. Shape /\ KexOrder /\ [Next]_vars => (Shape /\ KexOrder)'
  BY ShapeStep, KexOrderStep
<1>3. Shape /\ KexOrder => KexIsQuiet
  <2> SUFFICES ASSUME Shape, KexOrder, NEW p \in Peers, NEW i \in DOMAIN net[p], NEW j \in DOMAIN net[p],
                      i < j, net[p][i].kind = "kexinit", net[p][j].kind # "newkeys"
               PROVE  FALSE
    BY DEF KexIsQuiet
  <2>1. net[p] \in Seq(Message)
    BY DEF Shape, Types
  <2>2. i \in 1 .. Len(net[p]) /\ j \in 1 .. Len(net[p])
    BY <2>1
  <2> QED
    BY <2>2 DEF KexOrder, KexOf, OneOffer
<1> QED
  BY <1>1, <1>2, <1>3, PTL DEF Spec

-----------------------------------------------------------------------------
(* Sums and streams of messages                                            *)

\* The messages of s grant n bytes, of which left[i] are granted after place i.
Sums(s, n) ==
  \E left \in [0 .. Len(s) -> Nat] :
    /\ left[0] = n /\ left[Len(s)] = 0
    /\ \A i \in 1 .. Len(s) : left[i - 1] = left[i] + s[i].n

\* The fields of the messages of a sequence.
LEMMA Contents ==
  ASSUME NEW s \in Seq(Message)
  PROVE  /\ Len(s) \in Nat
         /\ \A i \in 1 .. Len(s) : s[i] \in Message /\ s[i].n \in Nat /\ s[i].bytes \in Seq(Nat)
<1>1. \A i \in 1 .. Len(s) : s[i] \in Message
  OBVIOUS
<1>2. \A m \in Message : m.n \in Nat /\ m.bytes \in Seq(Nat)
  BY DEF Message
<1> QED
  BY <1>1, <1>2

\* No message grants nothing.
LEMMA SumsNone == Sums(<<>>, 0)
<1> DEFINE left == [i \in 0 .. 0 |-> 0]
<1>1. left \in [0 .. 0 -> Nat] /\ left[0] = 0 /\ Len(<<>>) = 0
  OBVIOUS
<1>2. \A i \in 1 .. 0 : left[i - 1] = left[i] + <<>>[i].n
  OBVIOUS
<1> QED
  BY <1>1, <1>2 DEF Sums

\* One more message adds what it grants.
LEMMA SumsMore ==
  ASSUME NEW s \in Seq(Message), NEW m \in Message, NEW n \in Nat, Sums(s, n)
  PROVE  Sums(Append(s, m), n + m.n)
<1>1. PICK left \in [0 .. Len(s) -> Nat] :
        /\ left[0] = n /\ left[Len(s)] = 0
        /\ \A i \in 1 .. Len(s) : left[i - 1] = left[i] + s[i].n
  BY DEF Sums
<1>2. m.n \in Nat /\ Len(s) \in Nat
  BY DEF Message
<1> DEFINE t == Append(s, m)
           more == [i \in 0 .. Len(s) + 1 |-> IF i = Len(s) + 1 THEN 0 ELSE left[i] + m.n]
<1>3. /\ Len(t) = Len(s) + 1 /\ t[Len(s) + 1] = m
      /\ \A i \in 1 .. Len(s) : t[i] = s[i]
  OBVIOUS
<1>4. more \in [0 .. Len(t) -> Nat]
  BY <1>1, <1>2, <1>3
<1>5. more[0] = n + m.n /\ more[Len(t)] = 0
  BY <1>1, <1>2, <1>3
<1>6. ASSUME NEW i \in 1 .. Len(t) PROVE more[i - 1] = more[i] + t[i].n
  <2>1. CASE i = Len(s) + 1
    BY <1>1, <1>2, <1>3, <2>1
  <2>2. CASE i \in 1 .. Len(s)
    <3>1. s[i].n \in Nat /\ left[i] \in Nat /\ left[i - 1] \in Nat
      BY <1>1, <2>2, Contents
    <3> QED
      BY <1>1, <1>2, <1>3, <2>2, <3>1, SMTT(30)
  <2> QED
    BY <1>2, <1>3, <2>1, <2>2
<1> QED
  BY <1>4, <1>5, <1>6 DEF Sums

\* One message less takes away what it granted.
LEMMA SumsLess ==
  ASSUME NEW s \in Seq(Message), s # <<>>, NEW n \in Nat, Sums(s, n)
  PROVE  /\ Head(s).n <= n /\ n - Head(s).n \in Nat
         /\ Sums(Tail(s), n - Head(s).n)
<1>1. PICK left \in [0 .. Len(s) -> Nat] :
        /\ left[0] = n /\ left[Len(s)] = 0
        /\ \A i \in 1 .. Len(s) : left[i - 1] = left[i] + s[i].n
  BY DEF Sums
<1>2. /\ Len(Tail(s)) = Len(s) - 1 /\ Len(s) \in Nat /\ Len(s) >= 1 /\ Head(s) = s[1]
      /\ \A i \in 1 .. Len(s) - 1 : Tail(s)[i] = s[i + 1]
  OBVIOUS
<1>3. s[1].n \in Nat /\ left[1] \in Nat /\ n = left[1] + s[1].n
  <2>1. 1 \in 1 .. Len(s) /\ 1 \in 0 .. Len(s)
    BY <1>2
  <2>2. left[1 - 1] = left[1] + s[1].n /\ left[1] \in Nat /\ s[1].n \in Nat
    BY <1>1, <2>1, Contents
  <2> QED
    BY <1>1, <2>2
<1> DEFINE less == [i \in 0 .. Len(s) - 1 |-> left[i + 1]]
<1>4. less \in [0 .. Len(Tail(s)) -> Nat] /\ less[0] = n - Head(s).n /\ less[Len(Tail(s))] = 0
  BY <1>1, <1>2, <1>3
<1>5. ASSUME NEW i \in 1 .. Len(Tail(s)) PROVE less[i - 1] = less[i] + Tail(s)[i].n
  <2>1. i + 1 \in 1 .. Len(s) /\ i - 1 \in 0 .. Len(s) - 1 /\ i \in 0 .. Len(s) - 1
    BY <1>2
  <2>2. left[(i + 1) - 1] = left[i + 1] + s[i + 1].n
    BY <1>1, <2>1
  <2>3. Tail(s)[i] = s[i + 1] /\ (i + 1) - 1 = i /\ (i - 1) + 1 = i
    BY <1>2
  <2> QED
    BY <2>1, <2>2, <2>3
<1> HIDE DEF less
<1>6. Sums(Tail(s), n - Head(s).n)
  BY <1>4, <1>5 DEF Sums
<1> QED
  BY <1>2, <1>3, <1>6

\* What the recursive function of Granted computes is the sum.
LEMMA GrantedIsSum ==
  ASSUME NEW s \in Seq(Message), NEW n \in Nat, Sums(s, n)
  PROVE  Granted(s) = n
<1>1. PICK left \in [0 .. Len(s) -> Nat] :
        /\ left[0] = n /\ left[Len(s)] = 0
        /\ \A i \in 1 .. Len(s) : left[i - 1] = left[i] + s[i].n
  BY DEF Sums
<1> DEFINE isSum(f) == f = [i \in 0 .. Len(s) |-> IF i = 0 THEN 0 ELSE f[i - 1] + s[i].n]
           sum == CHOOSE f : isSum(f)
           g == [i \in 0 .. Len(s) |-> n - left[i]]
<1>2. Len(s) \in Nat /\ \A i \in 1 .. Len(s) : s[i].n \in Nat
  BY Contents
<1>3. isSum(g)
  <2>1. \A i \in 0 .. Len(s) : g[i] = IF i = 0 THEN 0 ELSE g[i - 1] + s[i].n
    BY <1>1, <1>2
  <2> QED
    BY <2>1
<1>4. isSum(sum)
  BY <1>3
<1> HIDE DEF sum
<1> DEFINE Wrong == {i \in 0 .. Len(s) : sum[i] # n - left[i]}
<1>5. Wrong = {}
  <2> SUFFICES ASSUME Wrong # {} PROVE FALSE
    OBVIOUS
  <2> DEFINE R == {ss \in Nat \X Nat : ss[1] < ss[2]}
  <2>1. IsWellFoundedOn(R, Nat)
    BY NatLessThanWellFounded DEF OpToRel
  <2>2. Wrong \subseteq Nat
    BY <1>2
  <2> HIDE DEF Wrong, R
  <2>3. PICK i \in Wrong : \A j \in Wrong : ~(<<j, i>> \in R)
    BY <2>1, <2>2, WFMin
  <2> USE DEF Wrong, R
  <2>4. i \in 0 .. Len(s) /\ sum[i] # n - left[i]
    OBVIOUS
  <2>5. \A j \in 0 .. Len(s) : sum[j] = IF j = 0 THEN 0 ELSE sum[j - 1] + s[j].n
    BY <1>4
  <2>6. i # 0
    BY <1>1, <2>4, <2>5
  <2>7. i - 1 \in 0 .. Len(s) /\ i - 1 \notin Wrong
    <3>1. i - 1 \in 0 .. Len(s) /\ i - 1 \in Nat /\ i \in Nat /\ i - 1 < i
      BY <1>2, <2>4, <2>6
    <3>2. <<i - 1, i>> \in R
      BY <3>1
    <3> QED
      BY <2>3, <3>1, <3>2
  <2>8. sum[i - 1] = n - left[i - 1] /\ left[i - 1] = left[i] + s[i].n
    BY <1>1, <1>2, <2>4, <2>6, <2>7
  <2>9. sum[i] = sum[i - 1] + s[i].n
    BY <2>4, <2>5, <2>6
  <2>10. left[i] \in Nat /\ s[i].n \in Nat
    BY <1>1, <1>2, <2>4, <2>6
  <2> QED
    BY <2>4, <2>8, <2>9, <2>10
<1>6. Granted(s) = sum[Len(s)]
  BY DEF Granted, sum
<1>7. Len(s) \in 0 .. Len(s)
  BY <1>2
<1>8. sum[Len(s)] = n - 0
  BY <1>1, <1>5, <1>7
<1> QED
  BY <1>6, <1>8

-----------------------------------------------------------------------------
\* A message of one of these kinds
Has(s, K) == \E i \in 1 .. Len(s) : s[i].kind \in K

\* What is the last that an end sends
Last == {"eof", "close"}

Numbered(bytes, from) == \A k \in 1 .. Len(bytes) : bytes[k] = from + k

\* The bytes in s are those after the first a, in order and up to b; upto[i] is
\* the last of them with message i.  If it is strict, none come after the end.
Stream(s, a, b, strict) ==
  \E upto \in [0 .. Len(s) -> Nat] :
    /\ upto[0] = a /\ upto[Len(s)] = b
    /\ \A i \in 0 .. Len(s) : upto[i] <= b
    /\ \A i \in 1 .. Len(s) :
         /\ upto[i] = upto[i - 1] + Len(s[i].bytes)
         /\ Numbered(s[i].bytes, upto[i - 1])
         /\ strict /\ s[i].kind \in Last => upto[i] = b

\* No message carries no bytes.
LEMMA StreamNone ==
  ASSUME NEW a \in Nat, NEW strict \in BOOLEAN
  PROVE  Stream(<<>>, a, a, strict)
<1> DEFINE upto == [i \in 0 .. 0 |-> a]
<1>1. upto \in [0 .. 0 -> Nat] /\ upto[0] = a /\ Len(<<>>) = 0
  OBVIOUS
<1>2. \A i \in 1 .. 0 : FALSE
  OBVIOUS
<1>3. \A i \in 0 .. 0 : upto[i] <= a
  OBVIOUS
<1> HIDE DEF upto
<1> QED
  BY <1>1, <1>2, <1>3 DEF Stream

\* One more message carries the bytes that follow.
LEMMA StreamMore ==
  ASSUME NEW s \in Seq(Message), NEW m \in Message, NEW a \in Nat, NEW b \in Nat,
         NEW strict \in BOOLEAN, Stream(s, a, b, strict), Numbered(m.bytes, b),
         strict /\ Has(s, Last) => m.bytes = <<>>
  PROVE  Stream(Append(s, m), a, b + Len(m.bytes), strict)
<1>1. PICK upto \in [0 .. Len(s) -> Nat] :
        /\ upto[0] = a /\ upto[Len(s)] = b
        /\ \A i \in 0 .. Len(s) : upto[i] <= b
        /\ \A i \in 1 .. Len(s) :
             /\ upto[i] = upto[i - 1] + Len(s[i].bytes)
             /\ Numbered(s[i].bytes, upto[i - 1])
             /\ strict /\ s[i].kind \in Last => upto[i] = b
  BY DEF Stream
<1>2. m.bytes \in Seq(Nat) /\ Len(m.bytes) \in Nat /\ Len(s) \in Nat
  BY DEF Message
<1> DEFINE t == Append(s, m)
           c == b + Len(m.bytes)
           more == [i \in 0 .. Len(s) + 1 |-> IF i = Len(s) + 1 THEN c ELSE upto[i]]
<1>3. /\ Len(t) = Len(s) + 1 /\ t[Len(s) + 1] = m
      /\ \A i \in 1 .. Len(s) : t[i] = s[i]
  OBVIOUS
<1>4. more \in [0 .. Len(t) -> Nat]
  BY <1>1, <1>2, <1>3
<1>5. more[0] = a /\ more[Len(t)] = c
  BY <1>1, <1>2, <1>3
<1>6. ASSUME NEW i \in 0 .. Len(t) PROVE more[i] <= c
  <2>1. CASE i = Len(s) + 1
    BY <1>2, <2>1
  <2>2. CASE i \in 0 .. Len(s)
    <3>1. upto[i] \in Nat /\ upto[i] <= b
      BY <1>1, <2>2
    <3>2. i # Len(s) + 1 /\ i \in 0 .. Len(s) + 1
      BY <1>2, <2>2
    <3>3. more[i] = upto[i]
      BY <3>2
    <3> QED
      BY <1>2, <3>1, <3>3
  <2> QED
    BY <1>2, <1>3, <2>1, <2>2
<1>7. ASSUME NEW i \in 1 .. Len(t)
      PROVE  /\ more[i] = more[i - 1] + Len(t[i].bytes)
             /\ Numbered(t[i].bytes, more[i - 1])
             /\ strict /\ t[i].kind \in Last => more[i] = c
  <2>1. CASE i = Len(s) + 1
    <3>1. more[i] = c /\ more[i - 1] = b /\ t[i] = m
      BY <1>1, <1>2, <1>3, <2>1
    <3> QED
      BY <3>1
  <2>2. CASE i \in 1 .. Len(s)
    <3>1. more[i] = upto[i] /\ more[i - 1] = upto[i - 1] /\ t[i] = s[i]
      BY <1>2, <1>3, <2>2
    <3>2. ASSUME strict, s[i].kind \in Last PROVE upto[i] = c
      <4>1. m.bytes = <<>>
        BY <2>2, <3>2 DEF Has
      <4> QED
        BY <1>1, <2>2, <3>2, <4>1
    <3> QED
      BY <1>1, <2>2, <3>1, <3>2
  <2> QED
    BY <1>2, <1>3, <2>1, <2>2
<1> HIDE DEF more
<1> QED
  BY <1>4, <1>5, <1>6, <1>7 DEF Stream

\* When the first message is taken the rest carries the bytes after it.
LEMMA StreamLess ==
  ASSUME NEW s \in Seq(Message), s # <<>>, NEW a \in Nat, NEW b \in Nat,
         NEW strict \in BOOLEAN, Stream(s, a, b, strict)
  PROVE  LET n == Len(Head(s).bytes)
         IN  /\ n \in Nat /\ a + n <= b
             /\ Numbered(Head(s).bytes, a)
             /\ Stream(Tail(s), a + n, b, strict)
             /\ strict /\ Head(s).kind \in Last => a + n = b
<1>1. PICK upto \in [0 .. Len(s) -> Nat] :
        /\ upto[0] = a /\ upto[Len(s)] = b
        /\ \A i \in 0 .. Len(s) : upto[i] <= b
        /\ \A i \in 1 .. Len(s) :
             /\ upto[i] = upto[i - 1] + Len(s[i].bytes)
             /\ Numbered(s[i].bytes, upto[i - 1])
             /\ strict /\ s[i].kind \in Last => upto[i] = b
  BY DEF Stream
<1>2. /\ Len(Tail(s)) = Len(s) - 1 /\ Len(s) \in Nat /\ Len(s) >= 1 /\ Head(s) = s[1]
      /\ \A i \in 1 .. Len(s) - 1 : Tail(s)[i] = s[i + 1]
  OBVIOUS
<1> DEFINE n == Len(Head(s).bytes)
           less == [i \in 0 .. Len(s) - 1 |-> upto[i + 1]]
<1>3. 1 \in 1 .. Len(s) /\ 1 \in 0 .. Len(s) /\ 1 - 1 = 0
  BY <1>2
<1>4. n \in Nat
  BY <1>2, <1>3, Contents
<1>5. /\ upto[1] = a + n /\ upto[1] <= b /\ Numbered(Head(s).bytes, a)
      /\ strict /\ Head(s).kind \in Last => upto[1] = b
  BY <1>1, <1>2, <1>3
<1>6. less \in [0 .. Len(Tail(s)) -> Nat] /\ less[0] = a + n /\ less[Len(Tail(s))] = b
  BY <1>1, <1>2, <1>3, <1>5
<1>7. \A i \in 0 .. Len(Tail(s)) : less[i] <= b
  BY <1>1, <1>2
<1>8. ASSUME NEW i \in 1 .. Len(Tail(s))
      PROVE  /\ less[i] = less[i - 1] + Len(Tail(s)[i].bytes)
             /\ Numbered(Tail(s)[i].bytes, less[i - 1])
             /\ strict /\ Tail(s)[i].kind \in Last => less[i] = b
  <2>1. i + 1 \in 1 .. Len(s) /\ i - 1 \in 0 .. Len(s) - 1 /\ i \in 0 .. Len(s) - 1
    BY <1>2
  <2>2. Tail(s)[i] = s[i + 1] /\ (i + 1) - 1 = i /\ (i - 1) + 1 = i
    BY <1>2
  <2>3. less[i] = upto[i + 1] /\ less[i - 1] = upto[(i + 1) - 1]
    BY <2>1, <2>2
  <2> HIDE DEF less
  <2> QED
    BY <1>1, <2>1, <2>2, <2>3
<1> HIDE DEF less
<1>9. Stream(Tail(s), a + n, b, strict)
  BY <1>6, <1>7, <1>8 DEF Stream
<1> QED
  BY <1>4, <1>5, <1>9

-----------------------------------------------------------------------------
(* The attributes of the channels after a step                             *)

\* The attributes that are not in F stay what they were.
Keeps(p, F) ==
  /\ \A q \in Peers \ {p} : chan'[q] = chan[q]
  /\ "closed"      \notin F => chan'[p].closed = chan[p].closed
  /\ "linked"      \notin F => chan'[p].linked = chan[p].linked
  /\ "eofSent"     \notin F => chan'[p].eofSent = chan[p].eofSent
  /\ "eofReceived" \notin F => chan'[p].eofReceived = chan[p].eofReceived
  /\ "outWindow"   \notin F => chan'[p].outWindow = chan[p].outWindow
  /\ "sofar"       \notin F => chan'[p].sofar = chan[p].sofar

\* What each assignment to attributes of a channel does, and what it leaves.
LEMMA Effects ==
  ASSUME Types, NEW p \in Peers
  PROVE  /\ \A n : chan' = [chan EXCEPT ![p].sofar = n]
                     => Keeps(p, {"sofar"}) /\ chan'[p].sofar = n
         /\ \A n : chan' = [chan EXCEPT ![p].outWindow = n]
                     => Keeps(p, {"outWindow"}) /\ chan'[p].outWindow = n
         /\ chan' = [chan EXCEPT ![p].eofSent = TRUE]
              => Keeps(p, {"eofSent"}) /\ chan'[p].eofSent = TRUE
         /\ chan' = [chan EXCEPT ![p].eofReceived = TRUE]
              => Keeps(p, {"eofReceived"}) /\ chan'[p].eofReceived = TRUE
         /\ chan' = [chan EXCEPT ![p].closed = TRUE, ![p].linked = FALSE]
              => Keeps(p, {"closed", "linked"}) /\ chan'[p].closed = TRUE /\ chan'[p].linked = FALSE
         /\ \A linked : chan' = Closed(p, linked)
              => /\ Keeps(p, {"closed", "linked", "eofSent"})
                 /\ chan'[p].closed = TRUE /\ chan'[p].eofSent = TRUE /\ chan'[p].linked = linked
<1> USE DEF Types, ChannelRecord, Keeps
<1>1. \A n : chan' = [chan EXCEPT ![p].sofar = n]
               => Keeps(p, {"sofar"}) /\ chan'[p].sofar = n
  OBVIOUS
<1>2. \A n : chan' = [chan EXCEPT ![p].outWindow = n]
               => Keeps(p, {"outWindow"}) /\ chan'[p].outWindow = n
  OBVIOUS
<1>3. chan' = [chan EXCEPT ![p].eofSent = TRUE]
        => Keeps(p, {"eofSent"}) /\ chan'[p].eofSent = TRUE
  OBVIOUS
<1>4. chan' = [chan EXCEPT ![p].eofReceived = TRUE]
        => Keeps(p, {"eofReceived"}) /\ chan'[p].eofReceived = TRUE
  OBVIOUS
<1>5. chan' = [chan EXCEPT ![p].closed = TRUE, ![p].linked = FALSE]
        => Keeps(p, {"closed", "linked"}) /\ chan'[p].closed = TRUE /\ chan'[p].linked = FALSE
  OBVIOUS
<1>6. \A linked : chan' = Closed(p, linked)
        => /\ Keeps(p, {"closed", "linked", "eofSent"})
           /\ chan'[p].closed = TRUE /\ chan'[p].eofSent = TRUE /\ chan'[p].linked = linked
  BY DEF Closed
<1> QED
  BY <1>1, <1>2, <1>3, <1>4, <1>5, <1>6

-----------------------------------------------------------------------------
(* Who has closed                                                          *)


\* The places of a sequence without its first.
LEMMA Shorter ==
  ASSUME NEW s \in Seq(Message), s # <<>>
  PROVE  /\ Len(Tail(s)) = Len(s) - 1 /\ Len(s) \in Nat /\ Len(s) >= 1 /\ Head(s) = s[1]
         /\ \A i \in 1 .. Len(s) - 1 : Tail(s)[i] = s[i + 1]
OBVIOUS

\* Whether there is a message of some kinds, when one is appended or taken.
LEMMA HasMessages ==
  ASSUME NEW K
  PROVE  /\ ~Has(<<>>, K)
         /\ \A s \in Seq(Message), m \in Message : Has(Append(s, m), K) <=> Has(s, K) \/ m.kind \in K
         /\ \A s \in Seq(Message) : s # <<>> =>
              /\ Has(Tail(s), K) => Has(s, K)
              /\ Head(s).kind \in K => Has(s, K)
<1>1. ~Has(<<>>, K)
  BY DEF Has
<1>2. ASSUME NEW s \in Seq(Message), NEW m \in Message
      PROVE  Has(Append(s, m), K) <=> Has(s, K) \/ m.kind \in K
  <2>1. /\ Len(Append(s, m)) = Len(s) + 1 /\ Len(s) \in Nat
        /\ \A i \in 1 .. Len(s) : Append(s, m)[i] = s[i]
        /\ Append(s, m)[Len(s) + 1] = m
    OBVIOUS
  <2>2. \A i \in 1 .. Len(s) + 1 : i \in 1 .. Len(s) \/ i = Len(s) + 1
    BY <2>1
  <2> QED
    BY <2>1, <2>2 DEF Has
<1>3. ASSUME NEW s \in Seq(Message), s # <<>>
      PROVE  /\ Has(Tail(s), K) => Has(s, K)
             /\ Head(s).kind \in K => Has(s, K)
  <2>1. /\ Len(Tail(s)) = Len(s) - 1 /\ Len(s) \in Nat /\ Len(s) >= 1 /\ Head(s) = s[1]
        /\ \A i \in 1 .. Len(s) - 1 : Tail(s)[i] = s[i + 1]
    BY <1>3, Shorter
  <2>2. 1 \in 1 .. Len(s) /\ \A i \in 1 .. Len(s) - 1 : i + 1 \in 1 .. Len(s)
    BY <2>1
  <2> QED
    BY <2>1, <2>2 DEF Has
<1> QED
  BY <1>1, <1>2, <1>3

\* How a step changes what is on its way.
LEMMA NetSteps ==
  ASSUME Shape, NEW p \in Peers
  PROVE  /\ \A t \in Threads : SendUserMessage(p, t) =>
              /\ Head(box[p][t]) \in Message
              /\ \A q \in Peers : net'[q] = IF q = Other[p] /\ active[p] /\ active[q]
                                            THEN Append(net[q], Head(box[p][t])) ELSE net[q]
         /\ Feed(p) \/ WindowAdjust(p) \/ HandleEof(p) \/ HandleClose(p) \/ ParseNewKeys(p) =>
              \A q \in Peers : net'[q] = IF q = p THEN Tail(net[q]) ELSE net[q]
         /\ StartKex(p) =>
              \A q \in Peers : net'[q] = IF q = Other[p] /\ active[q]
                                         THEN Append(net[q], KexInit) ELSE net[q]
         /\ NegotiateKeys(p) =>
              /\ \A q \in Peers \ {p, Other[p]} : net'[q] = net[q]
              /\ net'[p] = Tail(net[p])
              /\ net'[Other[p]] \in { net[Other[p]], Append(net[Other[p]], NewKeys),
                                      Append(Append(net[Other[p]], KexInit), NewKeys) }
         /\ Die(p) => \A q \in Peers : net'[q] = IF q = p THEN <<>> ELSE net[q]
<1>0. \A q \in Peers : net[q] \in Seq(Message)
  BY DEF Shape, Types
<1>1. ASSUME NEW t \in Threads, SendUserMessage(p, t)
      PROVE  /\ Head(box[p][t]) \in Message
             /\ \A q \in Peers : net'[q] = IF q = Other[p] /\ active[p] /\ active[q]
                                           THEN Append(net[q], Head(box[p][t])) ELSE net[q]
  <2>1. Head(box[p][t]) \in Message
    BY <1>1 DEF SendUserMessage, Free, Shape, Types
  <2>2. <<Head(box[p][t])>> \in Seq(Message)
    BY <2>1
  <2>3. \A q \in Peers : net[q] \o <<Head(box[p][t])>> = Append(net[q], Head(box[p][t]))
    BY <1>0, <2>1, TwoMore
  <2>4. CASE active[p]
    BY <1>1, <2>1, <2>2, <2>3, <2>4, Sending DEF SendUserMessage, Shape
  <2>5. CASE ~active[p]
    BY <1>1, <2>1, <2>5 DEF SendUserMessage
  <2> QED
    BY <2>4, <2>5
<1>2. ASSUME Feed(p) \/ WindowAdjust(p) \/ HandleEof(p) \/ HandleClose(p) \/ ParseNewKeys(p)
      PROVE  \A q \in Peers : net'[q] = IF q = p THEN Tail(net[q]) ELSE net[q]
  BY <1>2, Taking DEF Feed, WindowAdjust, HandleEof, HandleClose, ParseNewKeys, Shape
<1>3. ASSUME StartKex(p)
      PROVE  \A q \in Peers : net'[q] = IF q = Other[p] /\ active[q]
                                        THEN Append(net[q], KexInit) ELSE net[q]
  <2>1. <<KexInit>> \in Seq(Message) /\ KexInit \in Message
    BY MessageKinds
  <2>2. \A q \in Peers : net[q] \o <<KexInit>> = Append(net[q], KexInit)
    BY <1>0, <2>1, TwoMore
  <2> QED
    BY <1>3, <2>1, <2>2, Sending DEF Shape, StartKex
<1>4. ASSUME NegotiateKeys(p)
      PROVE  /\ \A q \in Peers \ {p, Other[p]} : net'[q] = net[q]
             /\ net'[p] = Tail(net[p])
             /\ net'[Other[p]] \in { net[Other[p]], Append(net[Other[p]], NewKeys),
                                     Append(Append(net[Other[p]], KexInit), NewKeys) }
  <2>1. \A q \in Peers : /\ net[q] \o <<NewKeys>> = Append(net[q], NewKeys)
                         /\ net[q] \o <<KexInit, NewKeys>> = Append(Append(net[q], KexInit), NewKeys)
    <3>1. KexInit \in Message /\ NewKeys \in Message
      BY MessageKinds
    <3> QED
      BY <1>0, <3>1, TwoMore
  <2>2. Other[p] \in Peers \ {p}
    BY ChannelAssumption
  <2>3. \A q \in Peers :
          net'[q] = IF q = p THEN Tail(net[q])
                    ELSE IF q # Other[p] \/ ~active[q] THEN net[q]
                    ELSE IF inKex[p] THEN Append(net[q], NewKeys)
                    ELSE Append(Append(net[q], KexInit), NewKeys)
    BY <1>0, <1>4, <2>1, <2>2 DEF NegotiateKeys, ToOther, Shape, Types
  <2> QED
    BY <2>2, <2>3
<1>5. ASSUME Die(p)
      PROVE  \A q \in Peers : net'[q] = IF q = p THEN <<>> ELSE net[q]
  BY <1>5 DEF Die, Shape, Types
<1> QED
  BY <1>1, <1>2, <1>3, <1>4, <1>5

\* The pipes after a step.
LEMMA PipeEffects ==
  ASSUME Types, NEW p \in Peers
  PROVE  /\ ClosePipe(p) =>
              \A q \in Peers : /\ pipe'[q].buffer = pipe[q].buffer
                               /\ pipe'[q].closed <=> pipe[q].closed \/ q = p
         /\ \A s : pipe' = [pipe EXCEPT ![p].buffer = s] =>
              \A q \in Peers : /\ pipe'[q].buffer = IF q = p THEN s ELSE pipe[q].buffer
                               /\ pipe'[q].closed = pipe[q].closed
<1> USE DEF Types, PipeRecord
<1>1. ClosePipe(p) =>
        \A q \in Peers : /\ pipe'[q].buffer = pipe[q].buffer
                         /\ pipe'[q].closed <=> pipe[q].closed \/ q = p
  BY DEF ClosePipe
<1>2. \A s : pipe' = [pipe EXCEPT ![p].buffer = s] =>
        \A q \in Peers : /\ pipe'[q].buffer = IF q = p THEN s ELSE pipe[q].buffer
                         /\ pipe'[q].closed = pipe[q].closed
  OBVIOUS
<1> QED
  BY <1>1, <1>2

\* What is closed stays closed, and who closes what: closing is on the one's own
\* account, unless the other end asked for it.
FlagsOf(p) ==
  /\ chan[p].closed => chan'[p].closed
  /\ chan[p].eofSent => chan'[p].eofSent
  /\ chan[p].eofReceived => chan'[p].eofReceived
  /\ ~chan[p].linked => ~chan'[p].linked
  /\ ~active[p] => ~active'[p]
  /\ broken[p] => broken'[p]
  /\ ended[p] => ended'[p]
  /\ pipe[p].closed => pipe'[p].closed
  /\ broken'[p] /\ ~broken[p] => chan'[p].closed
  /\ chan'[p].closed /\ ~chan[p].closed => broken'[p] \/ Has(net[p], {"close"})
  /\ ~chan'[p].linked /\ chan[p].linked =>
       chan'[p].closed /\ (~active'[p] \/ Has(net[p], {"close"}))
  /\ ~active'[p] /\ active[p] => broken'[p]
  /\ ended'[p] /\ ~ended[p] => pipe[p].closed
  /\ pipe'[p].closed /\ ~pipe[p].closed =>
       \/ broken'[p]
       \/ chan[p].linked /\ active[p] /\ net[p] # <<>> /\ Head(net[p]).kind \in Last

\* Every step keeps what is done, and only the reasons of FlagsOf do it.
LEMMA Flags ==
  ASSUME Shape, [Next]_vars, \A p \in Peers : ~chan[p].linked => chan[p].closed
  PROVE  \A p \in Peers : FlagsOf(p)
<1>0. Types
  BY DEF Shape
<1>00. \A p \in Peers :
         /\ chan[p].closed \in BOOLEAN /\ chan[p].eofSent \in BOOLEAN
         /\ chan[p].eofReceived \in BOOLEAN /\ chan[p].linked \in BOOLEAN
         /\ active[p] \in BOOLEAN /\ broken[p] \in BOOLEAN /\ ended[p] \in BOOLEAN
         /\ pipe[p].closed \in BOOLEAN
  BY <1>0 DEF Types, ChannelRecord, PipeRecord
<1>1. CASE UNCHANGED <<chan, pipe, active, ended, broken>>
  BY <1>1 DEF FlagsOf
<1>2. ASSUME NEW a \in Peers, SendGranted(a) PROVE \A p \in Peers : FlagsOf(p)
  BY <1>0, <1>2, Effects DEF SendGranted, FlagsOf, Keeps
<1>3. ASSUME NEW a \in Peers, RecvData(a) PROVE \A p \in Peers : FlagsOf(p)
  BY <1>0, <1>3, PipeEffects DEF RecvData, FlagsOf
<1>4. ASSUME NEW a \in Peers, RecvEnd(a) PROVE \A p \in Peers : FlagsOf(p)
  BY <1>0, <1>4 DEF RecvEnd, FlagsOf, Types
<1>5. ASSUME NEW a \in Peers, CheckAddWindow(a) PROVE \A p \in Peers : FlagsOf(p)
  <2>1. \/ chan' = chan
        \/ \E n : chan' = [chan EXCEPT ![a].sofar = n]
    BY <1>5 DEF CheckAddWindow
  <2>2. UNCHANGED <<pipe, active, ended, broken>>
    BY <1>5 DEF CheckAddWindow, promiseVars
  <2>3. CASE chan' = chan
    BY <2>2, <2>3 DEF FlagsOf
  <2>4. ASSUME NEW n, chan' = [chan EXCEPT ![a].sofar = n] PROVE \A p \in Peers : FlagsOf(p)
    <3>1. Keeps(a, {"sofar"})
      BY <1>0, <2>4, Effects
    <3> QED
      BY <2>2, <3>1 DEF FlagsOf, Keeps
  <2> QED
    BY <2>1, <2>3, <2>4
<1>6. ASSUME NEW a \in Peers, ShutdownWrite(a) PROVE \A p \in Peers : FlagsOf(p)
  BY <1>0, <1>6, Effects DEF ShutdownWrite, FlagsOf, Keeps, promiseVars
<1>7. ASSUME NEW a \in Peers, Close(a) PROVE \A p \in Peers : FlagsOf(p)
  <2>0. UNCHANGED <<active, ended>> /\ ~chan[a].closed /\ chan[a].linked
    BY <1>7 DEF Close
  <2>1. /\ Keeps(a, {"closed", "linked", "eofSent"})
        /\ chan'[a].closed = TRUE /\ chan'[a].eofSent = TRUE /\ chan'[a].linked = TRUE
    BY <1>0, <1>7, Effects DEF Close
  <2>2. \A p \in Peers : pipe'[p].closed <=> pipe[p].closed \/ p = a
    BY <1>0, <1>7, PipeEffects DEF Close
  <2>3. \A p \in Peers : broken'[p] <=> broken[p] \/ p = a
    BY <1>0, <1>7 DEF Close, Types
  <2>4. ASSUME NEW p \in Peers PROVE FlagsOf(p)
    <3>1. CASE p = a
      BY <1>00, <2>0, <2>1, <2>2, <2>3, <3>1 DEF FlagsOf, Keeps
    <3>2. CASE p # a
      BY <1>00, <2>0, <2>1, <2>2, <2>3, <3>2 DEF FlagsOf, Keeps
    <3> QED
      BY <3>1, <3>2
  <2> QED
    BY <2>4
<1>8. ASSUME NEW a \in Peers, Feed(a) PROVE \A p \in Peers : FlagsOf(p)
  <2>1. UNCHANGED <<chan, active, ended, broken>>
    BY <1>8 DEF Feed, promiseVars
  <2>2. \A p \in Peers : pipe'[p].closed = pipe[p].closed
    <3>1. UNCHANGED pipe \/ \E s : pipe' = [pipe EXCEPT ![a].buffer = s]
      BY <1>8 DEF Feed
    <3> QED
      BY <1>0, <3>1, PipeEffects
  <2> QED
    BY <2>1, <2>2 DEF FlagsOf
<1>9. ASSUME NEW a \in Peers, WindowAdjust(a) PROVE \A p \in Peers : FlagsOf(p)
  <2>1. UNCHANGED <<pipe, active, ended, broken>>
    BY <1>9 DEF WindowAdjust, promiseVars
  <2>2. CASE UNCHANGED chan
    BY <2>1, <2>2 DEF FlagsOf
  <2>3. CASE chan' = [chan EXCEPT ![a].outWindow = chan[a].outWindow + Head(net[a]).n]
    <3>1. Keeps(a, {"outWindow"})
      BY <1>0, <2>3, Effects
    <3> QED
      BY <2>1, <3>1 DEF FlagsOf, Keeps
  <2> QED
    BY <1>9, <2>2, <2>3 DEF WindowAdjust
<1>10. ASSUME NEW a \in Peers, HandleEof(a) PROVE \A p \in Peers : FlagsOf(p)
  <2>1. UNCHANGED <<active, ended, broken>>
    BY <1>10 DEF HandleEof, promiseVars
  <2>2. CASE UNCHANGED <<chan, pipe>>
    BY <2>1, <2>2 DEF FlagsOf
  <2>3. CASE chan[a].linked /\ chan' = [chan EXCEPT ![a].eofReceived = TRUE] /\ ClosePipe(a)
    <3>1. Keeps(a, {"eofReceived"}) /\ chan'[a].eofReceived = TRUE
      BY <1>0, <2>3, Effects
    <3>2. \A p \in Peers : pipe'[p].closed <=> pipe[p].closed \/ p = a
      BY <1>0, <2>3, PipeEffects
    <3>3. active[a] /\ net[a] # <<>> /\ Head(net[a]).kind \in Last
      BY <1>10 DEF HandleEof, Arrives, Last
    <3>4. ASSUME NEW p \in Peers PROVE FlagsOf(p)
      BY <1>00, <2>1, <2>3, <3>1, <3>2, <3>3 DEF FlagsOf, Keeps
    <3> QED
      BY <3>4
  <2> QED
    BY <1>10, <2>2, <2>3 DEF HandleEof
<1>11. ASSUME NEW a \in Peers, HandleClose(a) PROVE \A p \in Peers : FlagsOf(p)
  <2>1. UNCHANGED <<active, ended, broken>>
    BY <1>11 DEF HandleClose, promiseVars
  <2>2. CASE UNCHANGED <<chan, pipe>>
    BY <2>1, <2>2 DEF FlagsOf
  <2>3. CASE chan[a].linked /\ chan' = Closed(a, FALSE) /\ ClosePipe(a)
    <3>0. active[a] /\ net[a] # <<>> /\ Head(net[a]).kind \in Last
      BY <1>11 DEF HandleClose, Arrives, Last
    <3>1. Has(net[a], {"close"})
      <4>1. net[a] \in Seq(Message) /\ net[a] # <<>> /\ Head(net[a]).kind \in {"close"}
        BY <1>0, <1>11 DEF HandleClose, Arrives, Types
      <4> QED
        BY <4>1, HasMessages
    <3>2. /\ Keeps(a, {"closed", "linked", "eofSent"})
          /\ chan'[a].closed = TRUE /\ chan'[a].eofSent = TRUE /\ chan'[a].linked = FALSE
      BY <1>0, <2>3, Effects
    <3>3. \A p \in Peers : pipe'[p].closed <=> pipe[p].closed \/ p = a
      BY <1>0, <2>3, PipeEffects
    <3>4. ASSUME NEW p \in Peers PROVE FlagsOf(p)
      BY <1>00, <2>1, <2>3, <3>0, <3>1, <3>2, <3>3, ZenonT(40) DEF FlagsOf, Keeps
    <3> QED
      BY <3>4
  <2> QED
    BY <1>11, <2>2, <2>3 DEF HandleClose
<1>12. ASSUME NEW a \in Peers, Die(a) PROVE \A p \in Peers : FlagsOf(p)
  <2>1. \A p \in Peers : /\ broken'[p] <=> broken[p] \/ p = a
                         /\ active'[p] <=> active[p] /\ p # a
                         /\ ended'[p] = ended[p]
    BY <1>0, <1>12 DEF Die, Types
  <2>2. CASE chan[a].closed /\ UNCHANGED <<chan, pipe>>
    BY <2>1, <2>2 DEF FlagsOf
  <2>3. CASE chan' = [chan EXCEPT ![a].closed = TRUE, ![a].linked = FALSE] /\ ClosePipe(a)
    <3>1. Keeps(a, {"closed", "linked"}) /\ chan'[a].closed = TRUE /\ chan'[a].linked = FALSE
      BY <1>0, <2>3, Effects
    <3>2. \A p \in Peers : pipe'[p].closed <=> pipe[p].closed \/ p = a
      BY <1>0, <2>3, PipeEffects
    <3>3. ASSUME NEW p \in Peers PROVE FlagsOf(p)
      BY <1>00, <2>1, <3>1, <3>2 DEF FlagsOf, Keeps
    <3> QED
      BY <3>3
  <2> QED
    BY <1>12, <2>2, <2>3 DEF Die
<1> QED
  BY <1>1, <1>2, <1>3, <1>4, <1>5, <1>6, <1>7, <1>8, <1>9, <1>10, <1>11, <1>12 DEF Next, Send, Recv,
     TransportStep, KexTimeout, HangUp, SendWaits, SendGivesUp, SendUserMessage, StartKex,
     NegotiateKeys, ParseNewKeys, vars, promiseVars
-----------------------------------------------------------------------------
\* What is on its way was about to be sent, or was on its way before.
LEMMA NetHas ==
  ASSUME Shape, [Next]_vars, NEW K, "kexinit" \notin K, "newkeys" \notin K, NEW p \in Peers,
         Has(net'[p], K)
  PROVE  Has(net[p], K) \/ \E t \in Threads : Has(box[Other[p]][t], K)
<1>0. /\ \A q \in Peers : net[q] \in Seq(Message)
      /\ \A q \in Peers, t \in Threads : box[q][t] \in Seq(Message)
  BY DEF Shape, Types
<1>m. /\ \A s \in Seq(Message), m \in Message : Has(Append(s, m), K) <=> Has(s, K) \/ m.kind \in K
      /\ \A s \in Seq(Message) : s # <<>> => (Has(Tail(s), K) => Has(s, K))
      /\ \A s \in Seq(Message) : s # <<>> => (Head(s).kind \in K => Has(s, K))
      /\ ~Has(<<>>, K)
  BY HasMessages
<1>k. /\ KexInit \in Message /\ KexInit.kind = "kexinit"
      /\ NewKeys \in Message /\ NewKeys.kind = "newkeys"
      /\ KexInit.kind \notin K /\ NewKeys.kind \notin K
  BY MessageKinds DEF KexInit, NewKeys, Msg
<1>1. ASSUME NEW a \in Peers, NEW t \in Threads, SendUserMessage(a, t)
      PROVE  Has(net[p], K) \/ \E u \in Threads : Has(box[Other[p]][u], K)
  <2>1. box[a][t] # <<>>
    BY <1>1 DEF SendUserMessage, Free
  <2>2. /\ Head(box[a][t]) \in Message
        /\ net'[p] = net[p] \/ (p = Other[a] /\ net'[p] = Append(net[p], Head(box[a][t])))
    <3>1. /\ Head(box[a][t]) \in Message
          /\ \A q \in Peers : net'[q] = IF q = Other[a] /\ active[a] /\ active[q]
                                        THEN Append(net[q], Head(box[a][t])) ELSE net[q]
      BY <1>1, NetSteps
    <3> QED
      BY <3>1
  <2>3. p = Other[a] => a = Other[p]
    BY ChannelAssumption
  <2>4. CASE net'[p] = net[p]
    BY <2>4
  <2>5. CASE p = Other[a] /\ net'[p] = Append(net[p], Head(box[a][t]))
    <3>1. Has(net[p], K) \/ Head(box[a][t]).kind \in K
      BY <1>0, <1>m, <2>2, <2>5
    <3>2. Head(box[a][t]).kind \in K => Has(box[a][t], K)
      BY <1>0, <1>m, <2>1
    <3> QED
      BY <2>3, <2>5, <3>1, <3>2
  <2> QED
    BY <2>2, <2>4, <2>5
<1>2. ASSUME NEW a \in Peers,
             Feed(a) \/ WindowAdjust(a) \/ HandleEof(a) \/ HandleClose(a) \/ ParseNewKeys(a)
      PROVE  Has(net[p], K)
  <2>1. net'[p] = IF p = a THEN Tail(net[p]) ELSE net[p]
    BY <1>2, NetSteps
  <2>2. net[a] # <<>>
    BY <1>2 DEF Feed, WindowAdjust, HandleEof, HandleClose, ParseNewKeys, Arrives
  <2> QED
    BY <1>0, <1>m, <2>1, <2>2
<1>3. ASSUME NEW a \in Peers, StartKex(a) PROVE Has(net[p], K)
  <2>1. net'[p] \in {net[p], Append(net[p], KexInit)}
    BY <1>3, NetSteps
  <2>2. CASE net'[p] = Append(net[p], KexInit)
    BY <1>0, <1>m, <1>k, <2>2
  <2> QED
    BY <2>1, <2>2
<1>4. ASSUME NEW a \in Peers, NegotiateKeys(a) PROVE Has(net[p], K)
  <2>1. \/ net'[p] \in {net[p], Append(net[p], NewKeys), Append(Append(net[p], KexInit), NewKeys)}
        \/ (p = a /\ net'[p] = Tail(net[p]))
    BY <1>4, NetSteps
  <2>2. net[a] # <<>>
    BY <1>4 DEF NegotiateKeys, Arrives
  <2>3. Append(net[p], KexInit) \in Seq(Message)
    BY <1>0, <1>k
  <2>4. CASE p = a /\ net'[p] = Tail(net[p])
    BY <1>0, <1>m, <2>2, <2>4
  <2>5. CASE net'[p] = Append(net[p], NewKeys)
    BY <1>0, <1>m, <1>k, <2>5
  <2>6. CASE net'[p] = Append(Append(net[p], KexInit), NewKeys)
    <3>1. Has(Append(Append(net[p], KexInit), NewKeys), K)
      BY <2>6, Zenon
    <3>2. Has(Append(net[p], KexInit), K)
      BY <1>m, <1>k, <2>3, <3>1, Zenon
    <3> QED
      BY <1>0, <1>m, <1>k, <3>2, Zenon
  <2> QED
    BY <2>1, <2>4, <2>5, <2>6
<1>5. ASSUME NEW a \in Peers, Die(a) PROVE Has(net[p], K)
  BY <1>5, <1>m, NetSteps
<1>6. CASE UNCHANGED net
  BY <1>6
<1> QED
  BY <1>1, <1>2, <1>3, <1>4, <1>5, <1>6 DEF Next, Send, Recv, TransportStep, KexTimeout, HangUp,
     SendGranted, SendWaits, SendGivesUp, RecvData, RecvEnd, CheckAddWindow, ShutdownWrite, Close,
     vars

\* Which kinds there are in the boxes.
LEMMA HasFew ==
  ASSUME NEW K
  PROVE  /\ \A a \in Message : Has(<<a>>, K) <=> a.kind \in K
         /\ \A bytes : ~Has(<<Data(bytes)>>, {"close"}) /\ ~Has(<<Data(bytes)>>, Last)
         /\ \A n : ~Has(<<Adjust(n)>>, {"close"}) /\ ~Has(<<Adjust(n)>>, Last)
         /\ ~Has(<<Eof>>, {"close"})
BY DEF Has, Last, Data, Adjust, Eof, Msg

\* What a thread is about to send that closes something, it has closed itself.
BoxHasOf(p) ==
  /\ \A t \in Threads :
       /\ Has(box'[p][t], {"close"}) => Has(box[p][t], {"close"}) \/ chan'[p].closed
       /\ Has(box'[p][t], Last) => Has(box[p][t], Last) \/ chan'[p].eofSent
  /\ box'[p]["transport"] # <<>> =>
       \/ box[p]["transport"] # <<>>
       \/ ~chan[p].closed /\ Has(net[p], {"close"})

\* It is so when a thread posts messages that it may send.
LEMMA BoxHasPosted ==
  ASSUME Types, NEW a \in Peers, NEW t \in Threads, NEW msgs, Post(a, t, msgs),
         Has(msgs, {"close"}) => Has(box[a][t], {"close"}) \/ chan'[a].closed,
         Has(msgs, Last) => Has(box[a][t], Last) \/ chan'[a].eofSent,
         t = "transport" /\ msgs # <<>> =>
           box[a][t] # <<>> \/ (~chan[a].closed /\ Has(net[a], {"close"}))
  PROVE  \A p \in Peers : BoxHasOf(p)
<1>1. \A p \in Peers, u \in Threads :
        box'[p][u] = IF p = a /\ u = t THEN msgs ELSE box[p][u]
  BY Posting
<1>2. ASSUME NEW p \in Peers, NEW u \in Threads
      PROVE  /\ Has(box'[p][u], {"close"}) => Has(box[p][u], {"close"}) \/ chan'[p].closed
             /\ Has(box'[p][u], Last) => Has(box[p][u], Last) \/ chan'[p].eofSent
             /\ u = "transport" /\ box'[p][u] # <<>> =>
                  box[p][u] # <<>> \/ (~chan[p].closed /\ Has(net[p], {"close"}))
  <2>1. CASE p = a /\ u = t
    <3>1. box'[a][t] = msgs
      BY <1>1
    <3> QED
      BY <2>1, <3>1
  <2>2. CASE ~(p = a /\ u = t)
    <3>1. box'[p][u] = box[p][u]
      BY <1>1, <2>2
    <3> QED
      BY <3>1
  <2> QED
    BY <2>1, <2>2
<1>3. "transport" \in Threads
  BY DEF Threads
<1> QED
  BY <1>2, <1>3, Zenon DEF BoxHasOf

\* It is so after every step.
LEMMA BoxHas ==
  ASSUME Shape, [Next]_vars
  PROVE  \A p \in Peers : BoxHasOf(p)
<1>0. /\ Types /\ {"writer", "reader", "transport"} = Threads
      /\ \A p \in Peers, t \in Threads : box[p][t] \in Seq(Message)
  BY DEF Shape, Types, Threads
<1>m. \A K : ~Has(<<>>, K)
  BY HasMessages
<1>f. /\ \A bytes : ~Has(<<Data(bytes)>>, {"close"}) /\ ~Has(<<Data(bytes)>>, Last)
      /\ \A n : ~Has(<<Adjust(n)>>, {"close"}) /\ ~Has(<<Adjust(n)>>, Last)
      /\ ~Has(<<Eof>>, {"close"})
  BY HasFew
<1>1. CASE UNCHANGED box
  BY <1>1 DEF BoxHasOf
<1>2. ASSUME NEW a \in Peers, SendGranted(a) PROVE \A p \in Peers : BoxHasOf(p)
  <2>1. PICK bytes : Post(a, "writer", <<Data(bytes)>>)
    BY <1>2 DEF SendGranted
  <2> QED
    BY <1>0, <1>f, <2>1, BoxHasPosted
<1>3. ASSUME NEW a \in Peers, CheckAddWindow(a) PROVE \A p \in Peers : BoxHasOf(p)
  <2>1. \/ UNCHANGED box
        \/ Post(a, "reader", <<>>)
        \/ \E n : Post(a, "reader", <<Adjust(n)>>)
    BY <1>3 DEF CheckAddWindow
  <2>2. CASE Post(a, "reader", <<>>)
    BY <1>0, <1>m, <2>2, BoxHasPosted
  <2>3. ASSUME NEW n, Post(a, "reader", <<Adjust(n)>>) PROVE \A p \in Peers : BoxHasOf(p)
    BY <1>0, <1>f, <2>3, BoxHasPosted
  <2> QED
    BY <1>1, <2>1, <2>2, <2>3
<1>4. ASSUME NEW a \in Peers, ShutdownWrite(a) PROVE \A p \in Peers : BoxHasOf(p)
  <2>1. Post(a, "writer", <<Eof>>) /\ chan' = [chan EXCEPT ![a].eofSent = TRUE]
    BY <1>4 DEF ShutdownWrite
  <2>2. chan'[a].eofSent = TRUE
    BY <1>0, <2>1, Effects
  <2> QED
    BY <1>0, <1>f, <2>1, <2>2, BoxHasPosted
<1>5. ASSUME NEW a \in Peers, Close(a) PROVE \A p \in Peers : BoxHasOf(p)
  <2>1. Post(a, "writer", Farewell(a)) /\ chan' = Closed(a, TRUE)
    BY <1>5 DEF Close
  <2>2. chan'[a].closed = TRUE /\ chan'[a].eofSent = TRUE
    BY <1>0, <2>1, Effects
  <2> QED
    BY <1>0, <2>1, <2>2, BoxHasPosted
<1>6. ASSUME NEW a \in Peers, NEW t \in Threads, SendUserMessage(a, t)
      PROVE  \A p \in Peers : BoxHasOf(p)
  <2>1. Post(a, t, Tail(box[a][t])) /\ box[a][t] # <<>>
    BY <1>6 DEF SendUserMessage, Free
  <2>2. \A K : Has(Tail(box[a][t]), K) => Has(box[a][t], K)
    BY <1>0, <2>1, HasMessages
  <2> QED
    BY <1>0, <2>1, <2>2, BoxHasPosted
<1>7. ASSUME NEW a \in Peers, HandleClose(a) PROVE \A p \in Peers : BoxHasOf(p)
  <2>1. \/ UNCHANGED box
        \/ Post(a, "transport", <<>>)
        \/ Post(a, "transport", Farewell(a)) /\ ~chan[a].closed /\ chan' = Closed(a, FALSE)
    BY <1>7 DEF HandleClose
  <2>2. CASE Post(a, "transport", <<>>)
    BY <1>0, <1>m, <2>2, BoxHasPosted
  <2>3. CASE Post(a, "transport", Farewell(a)) /\ ~chan[a].closed /\ chan' = Closed(a, FALSE)
    <3>1. chan'[a].closed = TRUE /\ chan'[a].eofSent = TRUE
      BY <1>0, <2>3, Effects
    <3>2. Has(net[a], {"close"})
      <4>1. net[a] \in Seq(Message) /\ net[a] # <<>> /\ Head(net[a]).kind \in {"close"}
        BY <1>0, <1>7 DEF HandleClose, Arrives, Types
      <4> QED
        BY <4>1, HasMessages
    <3> QED
      BY <1>0, <2>3, <3>1, <3>2, BoxHasPosted
  <2> QED
    BY <1>1, <2>1, <2>2, <2>3
<1>8. ASSUME NEW a \in Peers, Die(a) PROVE \A p \in Peers : BoxHasOf(p)
  <2>1. Post(a, "transport", <<>>)
    BY <1>8 DEF Die, Post
  <2> QED
    BY <1>0, <1>m, <2>1, BoxHasPosted
<1> QED
  BY <1>1, <1>2, <1>3, <1>4, <1>5, <1>6, <1>7, <1>8 DEF Next, Send, Recv, TransportStep, KexTimeout,
     HangUp, SendWaits, SendGivesUp, RecvData, RecvEnd, Feed, WindowAdjust, HandleEof, StartKex,
     NegotiateKeys, ParseNewKeys, vars

\* Who has closed: an end that has closed the channel or lost the connection, or
\* one whose other end has; and it says so only then.
EndsOf(p) ==
  /\ broken[p] => chan[p].closed
  /\ chan[p].closed => broken[p] \/ broken[Other[p]]
  /\ ~chan[p].linked => chan[p].closed /\ (~active[p] \/ chan[Other[p]].closed)
  /\ ~active[p] => broken[p]
  /\ Has(net[Other[p]], {"close"}) => chan[p].closed
  /\ Has(net[Other[p]], Last) => chan[p].eofSent
  /\ \A t \in Threads : /\ Has(box[p][t], {"close"}) => chan[p].closed
                        /\ Has(box[p][t], Last) => chan[p].eofSent
  /\ box[p]["transport"] # <<>> => broken[Other[p]]

Ends == \A p \in Peers : EndsOf(p)

\* At first nobody has closed.
LEMMA EndsInit == Init => Ends
<1>1. \A K : ~Has(<<>>, K)
  BY HasMessages
<1> SUFFICES ASSUME Init, NEW p \in Peers PROVE EndsOf(p)
  BY DEF Ends
<1>2. /\ chan[p].closed = FALSE /\ chan[p].linked = TRUE /\ active[p] = TRUE /\ broken[p] = FALSE
      /\ net[Other[p]] = <<>>
      /\ \A t \in Threads : box[p][t] = <<>>
      /\ "transport" \in Threads
  BY ChannelAssumption DEF Init, Threads
<1> QED
  BY <1>1, <1>2 DEF EndsOf

\* Every step keeps who has closed.
LEMMA EndsStep ==
  ASSUME Shape, Ends, [Next]_vars
  PROVE  Ends'
<1> SUFFICES ASSUME NEW p \in Peers PROVE EndsOf(p)'
  BY DEF Ends
<1>1. \A q \in Peers : FlagsOf(q)
  BY Flags DEF Ends, EndsOf
<1>2. \A q \in Peers : BoxHasOf(q)
  BY BoxHas
<1>3. Other[p] \in Peers /\ Other[Other[p]] = p /\ EndsOf(p) /\ EndsOf(Other[p])
  BY ChannelAssumption DEF Ends
<1>4. Has(net'[Other[p]], {"close"}) =>
        Has(net[Other[p]], {"close"}) \/ \E t \in Threads : Has(box[p][t], {"close"})
  BY <1>3, NetHas
<1>5. Has(net'[Other[p]], Last) =>
        Has(net[Other[p]], Last) \/ \E t \in Threads : Has(box[p][t], Last)
  BY <1>3, NetHas DEF Last
<1> QED
  BY <1>1, <1>2, <1>3, <1>4, <1>5 DEF EndsOf, FlagsOf, BoxHasOf

-----------------------------------------------------------------------------
(* The bytes from p to q                                                   *)

\* The bytes that p is about to send
Pending(p) == IF box[p]["writer"] = <<>> THEN <<>> ELSE Head(box[p]["writer"]).bytes

\* How many bytes have reached p
Received(p) == Len(got[p]) + Len(pipe[p].buffer)

\* The bytes up to the last one are on their way, and p has the rest.
InFlight(p, q, last) ==
  /\ Stream(net[q], Received(q), last, ~broken[q])
  /\ last <= sent[p]
  /\ active[p] => sent[p] = last + Len(Pending(p)) /\ Numbered(Pending(p), last)
  /\ ~broken[q] /\ Has(net[q], Last) => last = sent[p]

\* q gets the bytes of p in order, none twice and, unless it has closed the
\* channel itself, none is missing when its pipe is closed.
InOrder(p, q) ==
  /\ Numbered(got[q], 0)
  /\ Numbered(pipe[q].buffer, Len(got[q]))
  /\ Received(q) <= sent[p]
  /\ pipe[q].closed /\ ~broken[q] => chan[p].eofSent /\ Received(q) = sent[p]
  /\ ended[q] => pipe[q].closed
  /\ chan[q].linked /\ active[q] => \E last \in Nat : InFlight(p, q, last)

Delivery == \A p \in Peers : InOrder(p, Other[p])

\* Without the assurance that nothing comes after the end
LEMMA StreamWeaker ==
  ASSUME NEW s, NEW a, NEW b, NEW strict \in BOOLEAN, NEW weaker \in BOOLEAN,
         weaker => strict, Stream(s, a, b, strict)
  PROVE  Stream(s, a, b, weaker)
BY DEF Stream

\* The messages t carry the bytes that s carries.
Carries(s, t) ==
  /\ \A a, b \in Nat, strict \in BOOLEAN : Stream(s, a, b, strict) => Stream(t, a, b, strict)
  /\ Has(t, Last) => Has(s, Last)

\* A message without bytes, appended or taken, changes no bytes.
LEMMA CarriesOn ==
  ASSUME NEW s \in Seq(Message)
  PROVE  /\ \A m \in Message : m.bytes = <<>> /\ m.kind \notin Last => Carries(s, Append(s, m))
         /\ s # <<>> /\ Head(s).bytes = <<>> => Carries(s, Tail(s))
<1>1. ASSUME NEW m \in Message, m.bytes = <<>>, m.kind \notin Last
      PROVE  Carries(s, Append(s, m))
  <2>1. ASSUME NEW a \in Nat, NEW b \in Nat, NEW strict \in BOOLEAN, Stream(s, a, b, strict)
        PROVE  Stream(Append(s, m), a, b, strict)
    <3>1. Len(m.bytes) = 0 /\ b + 0 = b /\ Numbered(m.bytes, b)
      BY <1>1 DEF Numbered
    <3>2. Stream(Append(s, m), a, b + Len(m.bytes), strict)
      BY <1>1, <2>1, <3>1, StreamMore
    <3> QED
      BY <3>1, <3>2
  <2> QED
    BY <1>1, <2>1, HasMessages DEF Carries
<1>2. ASSUME s # <<>>, Head(s).bytes = <<>> PROVE Carries(s, Tail(s))
  <2>1. ASSUME NEW a \in Nat, NEW b \in Nat, NEW strict \in BOOLEAN, Stream(s, a, b, strict)
        PROVE  Stream(Tail(s), a, b, strict)
    <3>1. Len(Head(s).bytes) = 0 /\ a + 0 = a
      BY <1>2
    <3>2. Stream(Tail(s), a + Len(Head(s).bytes), b, strict)
      BY <1>2, <2>1, StreamLess
    <3> QED
      BY <3>1, <3>2
  <2> QED
    BY <1>2, <2>1, HasMessages DEF Carries
<1> QED
  BY <1>1, <1>2

\* The other messages do not touch the bytes on their way to q.
LEMMA NetCarries ==
  ASSUME Shape, [Next]_vars, NEW p \in Peers, NEW q \in Peers, q = Other[p],
         \A t \in Threads : ~SendUserMessage(p, t),
         ~(Feed(q) /\ chan[q].linked), chan'[q].linked, active'[q]
  PROVE  Carries(net[q], net'[q])
<1>0. /\ Types /\ net[q] \in Seq(Message)
      /\ \A m \in Message : m.kind # "data" => m.bytes = <<>>
  BY DEF Shape, Types, Message
<1>s. \A s : Carries(s, s)
  BY DEF Carries
<1>1. CASE net'[q] = net[q]
  BY <1>1, <1>s
<1>2. ASSUME NEW a \in Peers, NEW t \in Threads, SendUserMessage(a, t) PROVE net'[q] = net[q]
  <2>1. a # p /\ q # Other[a]
    BY <1>2, ChannelAssumption
  <2>2. \A r \in Peers : net'[r] = IF r = Other[a] /\ active[a] /\ active[r]
                                   THEN Append(net[r], Head(box[a][t])) ELSE net[r]
    BY <1>2, NetSteps
  <2> QED
    BY <2>1, <2>2
<1>3. ASSUME NEW a \in Peers, Feed(a) PROVE net'[q] = net[q]
  <2>1. \A r \in Peers : net'[r] = IF r = a THEN Tail(net[r]) ELSE net[r]
    BY <1>3, NetSteps
  <2>2. a # q
    BY <1>3 DEF Feed
  <2> QED
    BY <2>1, <2>2
<1>4. ASSUME NEW a \in Peers,
             WindowAdjust(a) \/ HandleEof(a) \/ HandleClose(a) \/ ParseNewKeys(a)
      PROVE  Carries(net[q], net'[q])
  <2>1. \A r \in Peers : net'[r] = IF r = a THEN Tail(net[r]) ELSE net[r]
    BY <1>4, NetSteps
  <2>2. net[a] # <<>> /\ Head(net[a]).kind # "data"
    BY <1>4 DEF WindowAdjust, HandleEof, HandleClose, ParseNewKeys, Arrives
  <2>3. CASE a = q
    <3>1. Head(net[q]) \in Message /\ Head(net[q]).bytes = <<>>
      BY <1>0, <2>2, <2>3
    <3> QED
      BY <1>0, <2>1, <2>2, <2>3, <3>1, CarriesOn
  <2> QED
    BY <1>1, <2>1, <2>3
<1>k. /\ KexInit \in Message /\ KexInit.bytes = <<>> /\ KexInit.kind \notin Last
      /\ NewKeys \in Message /\ NewKeys.bytes = <<>> /\ NewKeys.kind \notin Last
  BY MessageKinds DEF KexInit, NewKeys, Msg, Last
<1>5. ASSUME NEW a \in Peers, StartKex(a) PROVE Carries(net[q], net'[q])
  <2>1. net'[q] \in {net[q], Append(net[q], KexInit)}
    BY <1>5, NetSteps
  <2>2. Carries(net[q], Append(net[q], KexInit))
    BY <1>0, <1>k, CarriesOn
  <2> QED
    BY <1>s, <2>1, <2>2
<1>6. ASSUME NEW a \in Peers, NegotiateKeys(a) PROVE Carries(net[q], net'[q])
  <2>1. \/ net'[q] \in {net[q], Append(net[q], NewKeys), Append(Append(net[q], KexInit), NewKeys)}
        \/ (q = a /\ net'[q] = Tail(net[q]))
    BY <1>6, NetSteps
  <2>2. CASE q = a /\ net'[q] = Tail(net[q])
    <3>1. net[q] # <<>> /\ Head(net[q]).kind # "data"
      BY <1>6, <2>2 DEF NegotiateKeys, Arrives
    <3>2. Head(net[q]) \in Message /\ Head(net[q]).bytes = <<>>
      BY <1>0, <3>1
    <3> QED
      BY <1>0, <2>2, <3>1, <3>2, CarriesOn
  <2>3. Carries(net[q], Append(net[q], NewKeys)) /\ Carries(net[q], Append(net[q], KexInit))
    BY <1>0, <1>k, CarriesOn
  <2>4. Append(net[q], KexInit) \in Seq(Message)
    BY <1>0, <1>k
  <2>5. Carries(Append(net[q], KexInit), Append(Append(net[q], KexInit), NewKeys))
    BY <1>k, <2>4, CarriesOn
  <2>6. Carries(net[q], Append(Append(net[q], KexInit), NewKeys))
    BY <2>3, <2>5 DEF Carries
  <2> QED
    BY <1>s, <2>1, <2>2, <2>3, <2>6
<1>7. ASSUME NEW a \in Peers, Die(a) PROVE net'[q] = net[q]
  <2>1. active' = [active EXCEPT ![a] = FALSE]
    BY <1>7 DEF Die
  <2>2. a # q
    BY <1>0, <2>1 DEF Types
  <2>3. \A r \in Peers : net'[r] = IF r = a THEN <<>> ELSE net[r]
    BY <1>7, NetSteps
  <2> QED
    BY <2>2, <2>3
<1>8. UNCHANGED net => Carries(net[q], net'[q])
  BY <1>s
<1> QED
  BY <1>1, <1>2, <1>3, <1>4, <1>5, <1>6, <1>7, <1>8 DEF Next, Send, Recv, TransportStep, KexTimeout,
     HangUp, SendGranted, SendWaits, SendGivesUp, RecvData, RecvEnd, CheckAddWindow, ShutdownWrite,
     Close, vars

\* Only a send changes what p is about to send of its bytes.
LEMMA PendingKept ==
  ASSUME Shape, [Next]_vars, NEW p \in Peers, ~SendGranted(p), ~SendUserMessage(p, "writer")
  PROVE  Pending(p)' = Pending(p)
<1>0. /\ Types /\ {"writer", "reader", "transport"} = Threads
  BY DEF Shape, Threads
<1>1. CASE box'[p]["writer"] = box[p]["writer"]
  BY <1>1 DEF Pending
<1>2. ASSUME NEW a \in Peers, NEW t \in Threads, NEW msgs, Post(a, t, msgs), a # p \/ t # "writer"
      PROVE  box'[p]["writer"] = box[p]["writer"]
  BY <1>0, <1>2, Posting
<1>3. ASSUME NEW msgs, Post(p, "writer", msgs), msgs # <<>>, Head(msgs).bytes = <<>>,
             box[p]["writer"] = <<>>
      PROVE  Pending(p)' = Pending(p)
  <2>1. box'[p]["writer"] = msgs
    BY <1>0, <1>3, Posting
  <2> QED
    BY <1>3, <2>1 DEF Pending
<1>4. ASSUME NEW a \in Peers, SendGranted(a) PROVE Pending(p)' = Pending(p)
  <2>1. PICK msgs : Post(a, "writer", msgs)
    BY <1>4 DEF SendGranted
  <2>2. a # p
    BY <1>4
  <2> QED
    BY <1>0, <1>1, <1>2, <2>1, <2>2
<1>5. ASSUME NEW a \in Peers, CheckAddWindow(a) PROVE Pending(p)' = Pending(p)
  <2>1. UNCHANGED box \/ \E msgs : Post(a, "reader", msgs)
    BY <1>5 DEF CheckAddWindow
  <2> QED
    BY <1>0, <1>1, <1>2, <2>1
<1>6. ASSUME NEW a \in Peers, ShutdownWrite(a) \/ Close(a) PROVE Pending(p)' = Pending(p)
  <2>1. PICK msgs : /\ Post(a, "writer", msgs) /\ box[a]["writer"] = <<>>
                    /\ msgs \in {<<Eof>>, <<CloseMsg>>, <<Eof, CloseMsg>>}
    BY <1>6, FarewellIs DEF ShutdownWrite, Close, Free
  <2>2. msgs # <<>> /\ Head(msgs).bytes = <<>>
    <3>1. Eof \in Message /\ CloseMsg \in Message /\ Eof.bytes = <<>> /\ CloseMsg.bytes = <<>>
      BY MessageKinds DEF Eof, CloseMsg, Msg
    <3>2. Head(<<Eof>>) = Eof /\ Head(<<CloseMsg>>) = CloseMsg /\ Head(<<Eof, CloseMsg>>) = Eof
      BY <3>1, FewMessages
    <3>3. <<Eof>> # <<>> /\ <<CloseMsg>> # <<>> /\ <<Eof, CloseMsg>> # <<>>
      OBVIOUS
    <3> QED
      BY <2>1, <3>1, <3>2, <3>3, Zenon
  <2> QED
    BY <1>0, <1>1, <1>2, <1>3, <2>1, <2>2
<1>7. ASSUME NEW a \in Peers, NEW t \in Threads, SendUserMessage(a, t)
      PROVE  Pending(p)' = Pending(p)
  <2>1. PICK msgs : Post(a, t, msgs)
    BY <1>7 DEF SendUserMessage
  <2>2. a # p \/ t # "writer"
    BY <1>7
  <2> QED
    BY <1>1, <1>2, <2>1, <2>2
<1>8. ASSUME NEW a \in Peers, HandleClose(a) PROVE Pending(p)' = Pending(p)
  <2>1. UNCHANGED box \/ \E msgs : Post(a, "transport", msgs)
    BY <1>8 DEF HandleClose
  <2> QED
    BY <1>0, <1>1, <1>2, <2>1
<1>9. ASSUME NEW a \in Peers, Die(a) PROVE Pending(p)' = Pending(p)
  <2>1. Post(a, "transport", <<>>)
    BY <1>9 DEF Die, Post
  <2> QED
    BY <1>0, <1>1, <1>2, <2>1
<1>10. UNCHANGED box => Pending(p)' = Pending(p)
  BY <1>1
<1> QED
  BY <1>4, <1>5, <1>6, <1>7, <1>8, <1>9, <1>10 DEF Next, Send, Recv, TransportStep,
     KexTimeout, HangUp, SendWaits, SendGivesUp, RecvData, RecvEnd, Feed, WindowAdjust, HandleEof,
     StartKex, NegotiateKeys, ParseNewKeys, vars

\* Who changes how many bytes were sent and received.
LEMMA Counted ==
  ASSUME Shape, [Next]_vars, NEW p \in Peers
  PROVE  /\ ~SendGranted(p) => sent'[p] = sent[p]
         /\ ~RecvData(p) => got'[p] = got[p]
         /\ ~RecvData(p) /\ ~(Feed(p) /\ chan[p].linked) => pipe'[p].buffer = pipe[p].buffer
<1>0. Types
  BY DEF Shape
<1>1. ASSUME NEW a \in Peers, SendGranted(a), a # p PROVE sent'[p] = sent[p]
  BY <1>0, <1>1 DEF SendGranted, Types
<1>2. ASSUME NEW a \in Peers, RecvData(a), a # p
      PROVE  got'[p] = got[p] /\ pipe'[p].buffer = pipe[p].buffer
  BY <1>0, <1>2, PipeEffects DEF RecvData, Types
<1>3. ASSUME NEW a \in Peers, Feed(a), ~(Feed(p) /\ chan[p].linked)
      PROVE  pipe'[p].buffer = pipe[p].buffer
  <2>1. CASE UNCHANGED pipe
    BY <2>1
  <2>2. CASE a # p /\ \E s : pipe' = [pipe EXCEPT ![a].buffer = s]
    BY <1>0, <2>2, PipeEffects
  <2> QED
    BY <1>3, <2>1, <2>2 DEF Feed
<1>4. ASSUME NEW a \in Peers, HandleEof(a) \/ HandleClose(a) \/ Close(a) \/ Die(a)
      PROVE  pipe'[p].buffer = pipe[p].buffer
  <2>1. UNCHANGED pipe \/ ClosePipe(a)
    BY <1>4 DEF HandleEof, HandleClose, Close, Die
  <2> QED
    BY <1>0, <2>1, PipeEffects
<1>5. ~SendGranted(p) => sent'[p] = sent[p]
  <2>1. UNCHANGED sent => sent'[p] = sent[p]
    OBVIOUS
  <2>2. UNCHANGED sent \/ \E a \in Peers : SendGranted(a)
    BY ZenonT(40) DEF Next, Send, Recv, TransportStep, KexTimeout, HangUp,
     SendWaits, SendGivesUp, RecvData, RecvEnd, CheckAddWindow, ShutdownWrite, Close,
     SendUserMessage, Feed, WindowAdjust, HandleEof, HandleClose, StartKex, NegotiateKeys,
     ParseNewKeys, Die, vars, promiseVars
  <2> QED
    BY <1>1, <2>1, <2>2
<1>6. ~RecvData(p) => got'[p] = got[p]
  <2>1. UNCHANGED got => got'[p] = got[p]
    OBVIOUS
  <2>2. UNCHANGED got \/ \E a \in Peers : RecvData(a)
    BY ZenonT(40) DEF Next, Send, Recv, TransportStep, KexTimeout, HangUp,
     SendGranted, SendWaits, SendGivesUp, RecvEnd, CheckAddWindow, ShutdownWrite, Close,
     SendUserMessage, Feed, WindowAdjust, HandleEof, HandleClose, StartKex, NegotiateKeys,
     ParseNewKeys, Die, vars, promiseVars
  <2> QED
    BY <1>2, <2>1, <2>2
<1>7. ~RecvData(p) /\ ~(Feed(p) /\ chan[p].linked) => pipe'[p].buffer = pipe[p].buffer
  <2>1. UNCHANGED pipe => pipe'[p].buffer = pipe[p].buffer
    OBVIOUS
  <2>2. \/ UNCHANGED pipe
        \/ \E a \in Peers : RecvData(a) \/ Feed(a) \/ HandleEof(a) \/ HandleClose(a) \/ Close(a) \/ Die(a)
    BY DEF Next, Send, Recv, TransportStep, KexTimeout, HangUp,
       SendGranted, SendWaits, SendGivesUp, RecvEnd, CheckAddWindow, ShutdownWrite,
       SendUserMessage, WindowAdjust, StartKex, NegotiateKeys, ParseNewKeys, vars
  <2> QED
    BY <1>2, <1>3, <1>4, <2>1, <2>2
<1> QED
  BY <1>5, <1>6, <1>7

\* The types of what is counted.
LEMMA Sizes ==
  ASSUME Types, NEW p \in Peers
  PROVE  /\ got[p] \in Seq(Nat) /\ Len(got[p]) \in Nat
         /\ pipe[p].buffer \in Seq(Nat) /\ Len(pipe[p].buffer) \in Nat
         /\ Received(p) \in Nat /\ sent[p] \in Nat
         /\ broken[p] \in BOOLEAN /\ active[p] \in BOOLEAN
<1>1. got[p] \in Seq(Nat) /\ pipe[p].buffer \in Seq(Nat)
  BY Fields DEF Types
<1> QED
  BY <1>1 DEF Types, Received

\* A send of p leaves the bytes in order.
LEMMA DeliverySendGranted ==
  ASSUME Shape, Ends, NEW p \in Peers, NEW q \in Peers, q = Other[p], p # q, InOrder(p, q),
         SendGranted(p)
  PROVE  InOrder(p, q)'
<1>0. Types
  BY DEF Shape
<1>1. PICK n \in 1 .. MaxBytes[p] - sent[p] :
        /\ sent' = [sent EXCEPT ![p] = sent[p] + n]
        /\ Post(p, "writer", <<Data([i \in 1 .. n |-> sent[p] + i])>>)
        /\ chan' = [chan EXCEPT ![p].outWindow = chan[p].outWindow - n]
  BY DEF SendGranted
<1>n. n \in Nat \ {0}
  BY <1>0, ChannelAssumption DEF Types
<1> DEFINE bytes == [i \in 1 .. n |-> sent[p] + i]
<1>2. box'[p]["writer"] = <<Data(bytes)>>
  BY <1>0, <1>1, Posting DEF Threads
<1>3. /\ sent[p] \in Nat /\ Received(q) \in Nat
      /\ sent'[p] = sent[p] + n
  BY <1>0, <1>1, <1>n, Sizes DEF Types
<1>4. bytes \in Seq(Nat) /\ Len(bytes) = n /\ Numbered(bytes, sent[p])
  BY <1>3, <1>n DEF Numbered
<1>5. Pending(p) = <<>> /\ Pending(p)' = bytes
  <2>1. Head(<<Data(bytes)>>) = Data(bytes) /\ <<Data(bytes)>> # <<>>
    BY <1>4, MessageKinds
  <2>2. Data(bytes).bytes = bytes
    BY DEF Data, Msg
  <2>3. box[p]["writer"] = <<>>
    BY DEF SendGranted, Free
  <2> QED
    BY <1>2, <2>1, <2>2, <2>3 DEF Pending
<1>6. UNCHANGED <<pipe, active, net, got, ended, broken>> /\ ~chan[p].eofSent
  BY DEF SendGranted
<1>7. Keeps(p, {"outWindow"})
  BY <1>0, <1>1, Effects
<1>8. Received(q)' = Received(q)
  BY <1>6 DEF Received
<1>9. ~Has(net[q], Last)
  BY <1>6 DEF Ends, EndsOf
<1>10. ASSUME NEW last \in Nat, InFlight(p, q, last) PROVE InFlight(p, q, last)'
  <2>1. last <= sent'[p]
    BY <1>3, <1>n, <1>10 DEF InFlight
  <2>2. active[p] => last = sent[p]
    BY <1>3, <1>5, <1>10 DEF InFlight
  <2>3. active[p] => sent'[p] = last + Len(bytes) /\ Numbered(bytes, last)
    BY <1>3, <1>4, <2>2
  <2> QED
    BY <1>5, <1>6, <1>8, <1>9, <1>10, <2>1, <2>3 DEF InFlight
<1> HIDE DEF bytes
<1> QED
  BY <1>3, <1>n, <1>6, <1>7, <1>8, <1>10 DEF InOrder, Keeps

\* A message that p puts on the way carries the next bytes, or none.
LEMMA DeliverySendUserMessage ==
  ASSUME Shape, Ends, NEW p \in Peers, NEW q \in Peers, q = Other[p], p # q, InOrder(p, q),
         NEW t \in Threads, SendUserMessage(p, t)
  PROVE  InOrder(p, q)'
<1>0. Types
  BY DEF Shape
<1>1. UNCHANGED <<chan, pipe, active, sent, got, ended, broken>> /\ ~Free(p, t)
      /\ Post(p, t, Tail(box[p][t]))
  BY DEF SendUserMessage, promiseVars
<1> DEFINE m == Head(box[p][t])
<1>2. /\ m \in Message
      /\ net'[q] = IF active[p] /\ active[q] THEN Append(net[q], m) ELSE net[q]
  <2>1. /\ m \in Message
        /\ \A r \in Peers : net'[r] = IF r = Other[p] /\ active[p] /\ active[r]
                                      THEN Append(net[r], m) ELSE net[r]
    BY NetSteps
  <2> QED
    BY <2>1
<1>3. Received(q)' = Received(q)
  BY <1>1 DEF Received
<1>4. box'[p]["writer"] = IF t = "writer" THEN Tail(box[p][t]) ELSE box[p]["writer"]
  BY <1>0, <1>1, Posting DEF Threads
<1>5. /\ t = "writer" => m.bytes = Pending(p) /\ Pending(p)' = <<>>
      /\ t # "writer" => m.bytes = <<>> /\ Pending(p)' = Pending(p)
      /\ t # "writer" /\ m.kind \in Last => broken[q]
  <2>1. CASE t = "writer"
    <3>1. m.bytes = Pending(p)
      BY <1>1, <2>1 DEF Pending, Free
    <3>2. Tail(box[p][t]) = <<>> \/ Tail(box[p][t]) = <<CloseMsg>>
      BY <1>1, BoxTails
    <3>3. Head(<<CloseMsg>>).bytes = <<>>
      BY MessageKinds, FewMessages DEF CloseMsg, Msg
    <3> QED
      BY <1>4, <2>1, <3>1, <3>2, <3>3 DEF Pending
  <2>2. CASE t # "writer"
    <3>1. Pending(p)' = Pending(p)
      BY <1>4, <2>2 DEF Pending
    <3>2. \/ t = "reader" /\ \E n \in Nat : m = Adjust(n)
          \/ t = "transport" /\ m \in {Eof, CloseMsg}
      <4>1. t = "reader" \/ t = "transport"
        BY <2>2 DEF Threads
      <4> QED
        BY <1>1, <2>2, <4>1, BoxTails
    <3>3. m.bytes = <<>> /\ (t = "reader" => m.kind \notin Last)
      <4>1. \A n : Adjust(n).bytes = <<>> /\ Adjust(n).kind \notin Last
        BY DEF Adjust, Msg, Last
      <4>2. Eof.bytes = <<>> /\ CloseMsg.bytes = <<>>
        BY DEF Eof, CloseMsg, Msg
      <4> HIDE DEF m
      <4> QED
        BY <3>2, <4>1, <4>2
    <3>4. t = "transport" => broken[q]
      BY <1>1 DEF Ends, EndsOf, Free
    <3> QED
      BY <2>2, <3>1, <3>2, <3>3, <3>4
  <2> QED
    BY <2>1, <2>2
<1>6. sent[p] \in Nat /\ Received(q) \in Nat /\ broken[q] \in BOOLEAN /\ active[p] \in BOOLEAN
  BY <1>0, Sizes
<1>7. net[q] \in Seq(Message) /\ m.bytes \in Seq(Nat) /\ Len(m.bytes) \in Nat
  BY <1>0, <1>2 DEF Types, Message
<1> HIDE DEF m
<1>8. ASSUME NEW last \in Nat, InFlight(p, q, last), ~active[p] \/ ~active[q]
      PROVE  ~active[q] \/ InFlight(p, q, last)'
  BY <1>1, <1>2, <1>3, <1>8 DEF InFlight
<1>9. ASSUME NEW last \in Nat, InFlight(p, q, last), active[p], active[q]
      PROVE  \E next \in Nat : InFlight(p, q, next)'
  <2>1. sent[p] = last + Len(Pending(p)) /\ Numbered(Pending(p), last)
    BY <1>9 DEF InFlight
  <2>2. Numbered(m.bytes, last)
    BY <1>5, <2>1 DEF Numbered
  <2>3. ~broken[q] /\ Has(net[q], Last) => m.bytes = <<>>
    <3>1. ASSUME ~broken[q], Has(net[q], Last), t = "writer" PROVE m.bytes = <<>>
      <4>1. Len(m.bytes) = 0
        BY <1>5, <1>6, <1>7, <1>9, <2>1, <3>1 DEF InFlight
      <4> QED
        BY <1>7, <4>1
    <3> QED
      BY <1>5, <3>1
  <2>4. Stream(Append(net[q], m), Received(q), last + Len(m.bytes), ~broken[q])
    <3>1. Stream(net[q], Received(q), last, ~broken[q]) /\ (~broken[q]) \in BOOLEAN
      BY <1>9 DEF InFlight
    <3>2. PICK strict \in BOOLEAN : strict = ~broken[q]
      BY <3>1
    <3>3. strict /\ Has(net[q], Last) => m.bytes = <<>>
      BY <2>3, <3>2
    <3>4. Stream(net[q], Received(q), last, strict)
      BY <3>1, <3>2
    <3>5. Stream(Append(net[q], m), Received(q), last + Len(m.bytes), strict)
      BY <1>2, <1>6, <1>7, <2>2, <3>3, <3>4, StreamMore
    <3> QED
      BY <3>2, <3>5
  <2>5. /\ sent[p] = last + Len(m.bytes) + Len(Pending(p)')
        /\ Numbered(Pending(p)', last + Len(m.bytes))
    <3>1. CASE t = "writer"
      <4>1. Pending(p)' = <<>> /\ Len(<<>>) = 0 /\ \A k : Numbered(<<>>, k)
        BY <1>5, <3>1 DEF Numbered
      <4>2. PICK k \in Nat : k = Len(m.bytes)
        BY <1>7
      <4>3. sent[p] = last + k
        BY <1>5, <2>1, <3>1, <4>2
      <4>4. sent[p] = last + k + 0
        BY <4>3
      <4> QED
        BY <4>1, <4>2, <4>4
    <3>2. CASE t # "writer"
      BY <1>5, <2>1, <3>2
    <3> QED
      BY <3>1, <3>2
  <2>6. last + Len(m.bytes) <= sent[p]
    <3>1. Len(Pending(p)') \in Nat
      <4>1. CASE t = "writer"
        BY <1>5, <4>1
      <4>2. CASE t # "writer"
        <5>1. Pending(p) \in Seq(Nat)
          <6>1. box[p]["writer"] \in Seq(Message)
            BY <1>0 DEF Types, Threads
          <6> QED
            BY <6>1 DEF Pending, Message
        <5> QED
          BY <1>5, <4>2, <5>1
      <4> QED
        BY <4>1, <4>2
    <3> QED
      BY <1>6, <1>7, <2>5, <3>1
  <2>7. ~broken[q] /\ Has(Append(net[q], m), Last) => last + Len(m.bytes) = sent[p]
    <3>1. CASE t = "writer"
      BY <1>5, <1>6, <1>7, <2>1, <3>1
    <3>2. CASE t # "writer"
      <4>1. ~broken[q] /\ Has(Append(net[q], m), Last) => Has(net[q], Last)
        BY <1>2, <1>5, <1>7, <3>2, HasMessages
      <4> QED
        BY <1>5, <1>6, <1>9, <3>2, <4>1 DEF InFlight
    <3> QED
      BY <3>1, <3>2
  <2>8. /\ net'[q] = Append(net[q], m) /\ Received(q)' = Received(q)
        /\ sent'[p] = sent[p] /\ broken'[q] = broken[q] /\ active'[p] = active[p]
    BY <1>1, <1>2, <1>3, <1>9
  <2> QED
    <3>1. PICK next \in Nat : next = last + Len(m.bytes)
      BY <1>7
    <3>2. Stream(net'[q], Received(q)', next, ~broken'[q])
      BY <2>4, <2>8, <3>1
    <3>3. ~broken'[q] /\ Has(net'[q], Last) => next = sent'[p]
      BY <2>7, <2>8, <3>1
    <3>4. next <= sent'[p]
      BY <2>6, <2>8, <3>1
    <3>5. active'[p] => sent'[p] = next + Len(Pending(p)') /\ Numbered(Pending(p)', next)
      BY <2>5, <2>8, <3>1
    <3> QED
      BY <3>2, <3>3, <3>4, <3>5 DEF InFlight
<1>10. InOrder(p, q)
  OBVIOUS
<1> QED
  BY <1>1, <1>3, <1>8, <1>9, <1>10 DEF InOrder

\* Numbered bytes behind numbered bytes are numbered.
LEMMA Joined ==
  ASSUME NEW a \in Seq(Nat), NEW b \in Seq(Nat), NEW x \in Nat,
         Numbered(a, x), Numbered(b, x + Len(a))
  PROVE  Len(a \o b) = Len(a) + Len(b) /\ Numbered(a \o b, x)
<1>1. /\ Len(a) \in Nat /\ Len(b) \in Nat /\ Len(a \o b) = Len(a) + Len(b)
      /\ \A k \in 1 .. Len(a) + Len(b) :
           (a \o b)[k] = IF k <= Len(a) THEN a[k] ELSE b[k - Len(a)]
  OBVIOUS
<1>2. ASSUME NEW k \in 1 .. Len(a) + Len(b) PROVE (a \o b)[k] = x + k
  <2>1. CASE k <= Len(a)
    BY <1>1, <2>1 DEF Numbered
  <2>2. CASE k > Len(a)
    <3>1. PICK i \in 1 .. Len(b) : i = k - Len(a)
      BY <1>1, <2>2
    <3>2. b[i] = (x + Len(a)) + i
      BY <3>1 DEF Numbered
    <3> QED
      BY <1>1, <2>2, <3>1, <3>2
  <2> QED
    BY <1>1, <2>1, <2>2
<1> QED
  BY <1>1, <1>2 DEF Numbered

\* Both parts of numbered bytes are numbered.
LEMMA Parted ==
  ASSUME NEW s \in Seq(Nat), NEW n \in 1 .. Len(s), NEW x \in Nat, Numbered(s, x)
  PROVE  /\ n \in Nat /\ Len(s) \in Nat /\ n <= Len(s)
         /\ SubSeq(s, 1, n) \in Seq(Nat) /\ Len(SubSeq(s, 1, n)) = n
         /\ Len(SubSeq(s, n + 1, Len(s))) = Len(s) - n
         /\ Numbered(SubSeq(s, 1, n), x) /\ Numbered(SubSeq(s, n + 1, Len(s)), x + n)
<1>1. Len(s) \in Nat /\ n \in Nat /\ 1 <= n /\ n <= Len(s)
  OBVIOUS
<1>2. /\ SubSeq(s, 1, n) \in Seq(Nat) /\ Len(SubSeq(s, 1, n)) = n
      /\ \A k \in 1 .. n : SubSeq(s, 1, n)[k] = s[k]
  BY <1>1
<1>3. /\ Len(SubSeq(s, n + 1, Len(s))) = Len(s) - n
      /\ \A k \in 1 .. Len(s) - n : SubSeq(s, n + 1, Len(s))[k] = s[n + k]
  BY <1>1
<1>4. Numbered(SubSeq(s, 1, n), x)
  BY <1>1, <1>2 DEF Numbered
<1>5. ASSUME NEW k \in 1 .. Len(s) - n PROVE SubSeq(s, n + 1, Len(s))[k] = (x + n) + k
  <2>1. n + k \in 1 .. Len(s)
    BY <1>1
  <2>2. s[n + k] = x + (n + k)
    BY <2>1 DEF Numbered
  <2> QED
    BY <1>1, <1>3, <2>2
<1> QED
  BY <1>1, <1>2, <1>3, <1>4, <1>5 DEF Numbered

\* The bytes that arrive at q go to the end of its buffer.
LEMMA DeliveryFeed ==
  ASSUME Shape, Ends, NEW p \in Peers, NEW q \in Peers, q = Other[p], p # q, InOrder(p, q),
         Feed(q), chan[q].linked
  PROVE  InOrder(p, q)'
<1>0. Types
  BY DEF Shape
<1>1. /\ UNCHANGED <<chan, box, active, sent, got, ended, broken>>
      /\ pipe' = [pipe EXCEPT ![q].buffer = pipe[q].buffer \o Head(net[q]).bytes]
      /\ active[q] /\ net[q] # <<>>
  BY DEF Feed, Arrives, promiseVars
<1>2. net[q] \in Seq(Message) /\ Head(net[q]).bytes \in Seq(Nat)
  BY <1>0, <1>1, Fields DEF Types
<1>3. PICK bytes \in Seq(Nat) : bytes = Head(net[q]).bytes
  BY <1>2
<1>4. PICK s \in Seq(Nat) : s = pipe[q].buffer
  BY <1>0, Sizes
<1>t. PICK t \in Seq(Nat) : t = s \o bytes
  <2>1. s \o bytes \in Seq(Nat)
    BY ConcatProperties
  <2> QED
    BY <2>1
<1>5. pipe'[q].buffer = t /\ pipe'[q].closed = pipe[q].closed
  <2>1. pipe' = [pipe EXCEPT ![q].buffer = t]
    BY <1>1, <1>3, <1>4, <1>t
  <2> QED
    BY <1>0, <2>1 DEF Types, PipeRecord
<1>6. net'[q] = Tail(net[q])
  BY NetSteps
<1>7. /\ Len(bytes) \in Nat /\ Len(s) \in Nat /\ Len(got[q]) \in Nat
      /\ Received(q) \in Nat /\ Received(q) = Len(got[q]) + Len(s)
      /\ sent[p] \in Nat /\ broken[q] \in BOOLEAN
  <2>1. Received(q) = Len(got[q]) + Len(s)
    BY <1>4 DEF Received
  <2> QED
    <3>1. Len(s) \in Nat /\ Len(bytes) \in Nat
      BY <1>3, <1>4, SMTT(30)
    <3>2. sent[p] \in Nat
      BY <1>0, Sizes
    <3>3. Len(got[q]) \in Nat /\ Received(q) \in Nat /\ broken[q] \in BOOLEAN
      BY <1>0, Sizes
    <3> QED
      BY <2>1, <3>1, <3>2, <3>3
<1>8. PICK last \in Nat : InFlight(p, q, last)
  BY <1>1 DEF InOrder
<1>9. /\ Received(q) + Len(bytes) <= last /\ Numbered(bytes, Received(q))
      /\ Stream(Tail(net[q]), Received(q) + Len(bytes), last, ~broken[q])
  <2>1. Stream(net[q], Received(q), last, ~broken[q]) /\ (~broken[q]) \in BOOLEAN
    BY <1>8 DEF InFlight
  <2> QED
    BY <1>1, <1>2, <1>3, <1>7, <2>1, StreamLess
<1>10. Len(t) \in Nat /\ Len(t) = Len(s) + Len(bytes) /\ Numbered(t, Len(got[q]))
  <2>1. Numbered(s, Len(got[q]))
    BY <1>4 DEF InOrder
  <2>2. Numbered(bytes, Len(got[q]) + Len(s))
    BY <1>7, <1>9
  <2>3. Len(s \o bytes) = Len(s) + Len(bytes) /\ Numbered(s \o bytes, Len(got[q]))
    BY <1>7, <2>1, <2>2, Joined
  <2> QED
    BY <1>7, <1>t, <2>3
<1>11. Received(q)' = Received(q) + Len(bytes)
  <2>1. Received(q)' = Len(got[q]) + Len(t)
    BY <1>1, <1>5 DEF Received
  <2> QED
    <3>1. PICK g \in Nat : g = Len(got[q])
      BY <1>7
    <3>2. Received(q)' = g + (Len(s) + Len(bytes))
      BY <1>10, <2>1, <3>1
    <3>3. Received(q) = g + Len(s)
      BY <1>7, <3>1
    <3>4. Len(s) \in Nat /\ Len(bytes) \in Nat
      BY <1>7
    <3> QED
      BY <3>2, <3>3, <3>4
<1>12. last <= sent[p]
  BY <1>8 DEF InFlight
<1>13. InFlight(p, q, last)'
  <2>1. ~broken[q] /\ Has(Tail(net[q]), Last) => last = sent[p]
    BY <1>1, <1>2, <1>8, HasMessages DEF InFlight
  <2>2. Pending(p)' = Pending(p)
    BY <1>1 DEF Pending
  <2>3. Stream(net'[q], Received(q)', last, ~broken'[q])
    BY <1>1, <1>6, <1>9, <1>11
  <2> QED
    BY <1>1, <1>6, <1>8, <2>1, <2>2, <2>3 DEF InFlight
<1>14. InOrder(p, q)
  OBVIOUS
<1> QED
  <2>1. Numbered(got'[q], 0) /\ Numbered(pipe'[q].buffer, Len(got'[q]))
    BY <1>1, <1>5, <1>10, <1>14 DEF InOrder
  <2>2. Received(q)' <= sent'[p]
    BY <1>1, <1>7, <1>9, <1>11, <1>12
  <2>3. pipe'[q].closed /\ ~broken'[q] => chan'[p].eofSent /\ Received(q)' = sent'[p]
    <3>1. ASSUME pipe[q].closed, ~broken[q]
          PROVE  chan[p].eofSent /\ Received(q) = sent[p]
      BY <1>14, <3>1 DEF InOrder
    <3>2. Received(q) = sent[p] => Received(q) + Len(bytes) = sent[p]
      <4>1. Len(bytes) \in Nat /\ Received(q) \in Nat /\ sent[p] \in Nat
        BY <1>7
      <4>2. Received(q) + Len(bytes) <= sent[p]
        BY <1>9, <1>12, <4>1
      <4> QED
        BY <4>1, <4>2
    <3> QED
      BY <1>1, <1>5, <1>11, <3>1, <3>2
  <2>4. ended'[q] => pipe'[q].closed
    BY <1>1, <1>5, <1>14 DEF InOrder
  <2> QED
    BY <1>13, <2>1, <2>2, <2>3, <2>4 DEF InOrder

\* A recv of q takes bytes from the front of its buffer.
LEMMA DeliveryRecvData ==
  ASSUME Shape, Ends, NEW p \in Peers, NEW q \in Peers, q = Other[p], p # q, InOrder(p, q),
         RecvData(q)
  PROVE  InOrder(p, q)'
<1>0. Types
  BY DEF Shape
<1>1. UNCHANGED <<chan, box, active, net, sent, ended, broken>>
  BY DEF RecvData
<1>2. PICK s \in Seq(Nat) : s = pipe[q].buffer
  BY <1>0, Sizes
<1>3. PICK n \in 1 .. Len(s) :
        /\ got' = [got EXCEPT ![q] = got[q] \o SubSeq(s, 1, n)]
        /\ pipe' = [pipe EXCEPT ![q].buffer = SubSeq(s, n + 1, Len(s))]
  BY <1>2 DEF RecvData
<1>4. got[q] \in Seq(Nat) /\ Len(got[q]) \in Nat /\ sent[p] \in Nat
  BY <1>0, Sizes
<1>5. /\ got'[q] = got[q] \o SubSeq(s, 1, n)
      /\ pipe'[q].buffer = SubSeq(s, n + 1, Len(s)) /\ pipe'[q].closed = pipe[q].closed
  <2>1. got'[q] = got[q] \o SubSeq(s, 1, n)
    BY <1>0, <1>3 DEF Types
  <2> QED
    BY <1>0, <1>3, <2>1, ZenonT(40) DEF Types, PipeRecord
<1>6. Numbered(got[q], 0) /\ Numbered(s, Len(got[q]))
  BY <1>2 DEF InOrder
<1>7. /\ n \in Nat /\ Len(s) \in Nat /\ n <= Len(s)
      /\ SubSeq(s, 1, n) \in Seq(Nat) /\ Len(SubSeq(s, 1, n)) = n
      /\ Len(SubSeq(s, n + 1, Len(s))) = Len(s) - n
      /\ Numbered(SubSeq(s, 1, n), Len(got[q]))
      /\ Numbered(SubSeq(s, n + 1, Len(s)), Len(got[q]) + n)
  BY <1>4, <1>6, Parted
<1>8. Len(got'[q]) = Len(got[q]) + n /\ Numbered(got'[q], 0)
  <2>1. Numbered(SubSeq(s, 1, n), 0 + Len(got[q]))
    BY <1>4, <1>7
  <2> QED
    BY <1>4, <1>5, <1>6, <1>7, <2>1, Joined
<1>9. Numbered(pipe'[q].buffer, Len(got'[q]))
  BY <1>5, <1>7, <1>8
<1>10. Received(q)' = Received(q)
  <2>1. Received(q)' = (Len(got[q]) + n) + (Len(s) - n)
    BY <1>5, <1>7, <1>8 DEF Received
  <2>2. Received(q) = Len(got[q]) + Len(s)
    BY <1>2 DEF Received
  <2> QED
    BY <1>4, <1>7, <2>1, <2>2
<1>11. Pending(p)' = Pending(p)
  BY <1>1 DEF Pending
<1>12. \A last \in Nat : InFlight(p, q, last) => InFlight(p, q, last)'
  BY <1>1, <1>10, <1>11 DEF InFlight
<1>13. InOrder(p, q)
  OBVIOUS
<1> QED
  BY <1>1, <1>5, <1>8, <1>9, <1>10, <1>12, <1>13 DEF InOrder

\* The steps that add nothing to what q gets.
LEMMA DeliveryKept ==
  ASSUME Shape, Ends, [Next]_vars, NEW p \in Peers, NEW q \in Peers, q = Other[p], p # q,
         InOrder(p, q), ~SendGranted(p), \A t \in Threads : ~SendUserMessage(p, t), ~RecvData(q),
         ~(Feed(q) /\ chan[q].linked)
  PROVE  InOrder(p, q)'
<1>0. Types /\ "writer" \in Threads
  BY DEF Shape, Threads
<1>1. sent'[p] = sent[p] /\ got'[q] = got[q] /\ pipe'[q].buffer = pipe[q].buffer
  BY Counted
<1>2. Pending(p)' = Pending(p)
  BY <1>0, PendingKept
<1>3. Received(q)' = Received(q)
  BY <1>1 DEF Received
<1>4. FlagsOf(p) /\ FlagsOf(q)
  <2>1. \A r \in Peers : ~chan[r].linked => chan[r].closed
    BY DEF Ends, EndsOf
  <2> QED
    BY <2>1, Flags
<1>5. /\ sent[p] \in Nat /\ Received(q) \in Nat /\ broken[q] \in BOOLEAN
      /\ net[q] \in Seq(Message)
  BY <1>0, Sizes DEF Types
<1>6. EndsOf(p) /\ EndsOf(q) /\ InOrder(p, q)
  BY DEF Ends
<1>7. ASSUME pipe'[q].closed, ~broken'[q]
      PROVE  chan'[p].eofSent /\ Received(q) = sent[p]
  <2>1. ~broken[q]
    BY <1>4, <1>7 DEF FlagsOf
  <2>2. CASE pipe[q].closed
    BY <1>4, <1>6, <2>1, <2>2 DEF InOrder, FlagsOf
  <2>3. CASE ~pipe[q].closed
    <3>1. chan[q].linked /\ active[q] /\ net[q] # <<>> /\ Head(net[q]).kind \in Last
      BY <1>4, <1>7, <2>3 DEF FlagsOf
    <3>2. PICK last \in Nat : InFlight(p, q, last)
      BY <1>6, <3>1 DEF InOrder
    <3>3. Has(net[q], Last)
      BY <1>5, <3>1, HasMessages
    <3>4. last = sent[p]
      BY <2>1, <3>2, <3>3 DEF InFlight
    <3>5. Stream(net[q], Received(q), last, ~broken[q]) /\ (~broken[q]) \in BOOLEAN
      BY <3>2 DEF InFlight
    <3>6. Received(q) + Len(Head(net[q]).bytes) = last
      BY <1>5, <2>1, <3>1, <3>5, StreamLess
    <3>7. Len(Head(net[q]).bytes) = 0
      <4>1. Head(net[q]) \in Message /\ Head(net[q]).kind # "data"
        BY <1>5, <3>1 DEF Last
      <4>2. Head(net[q]).bytes = <<>>
        BY <4>1 DEF Message
      <4> QED
        BY <4>2
    <3>8. chan[p].eofSent
      BY <1>6, <3>3 DEF EndsOf
    <3> QED
      BY <1>4, <1>5, <3>4, <3>6, <3>7, <3>8 DEF FlagsOf
  <2> QED
    BY <2>2, <2>3
<1>8. ended'[q] => pipe'[q].closed
  BY <1>4, <1>6 DEF InOrder, FlagsOf
<1>9. ASSUME chan'[q].linked, active'[q]
      PROVE  \E last \in Nat : InFlight(p, q, last)'
  <2>1. chan[q].linked /\ active[q]
    BY <1>4, <1>9 DEF FlagsOf
  <2>2. PICK last \in Nat : InFlight(p, q, last)
    BY <1>6, <2>1 DEF InOrder
  <2>3. Carries(net[q], net'[q])
    BY <1>9, NetCarries
  <2>4. Stream(net'[q], Received(q), last, ~broken'[q])
    <3>1. Stream(net[q], Received(q), last, ~broken[q]) /\ (~broken[q]) \in BOOLEAN
      BY <2>2 DEF InFlight
    <3>2. Stream(net'[q], Received(q), last, ~broken[q])
      BY <1>5, <2>3, <3>1 DEF Carries
    <3>3. (~broken'[q]) \in BOOLEAN /\ (~broken'[q] => ~broken[q])
      BY <1>4 DEF FlagsOf
    <3> QED
      BY <3>1, <3>2, <3>3, StreamWeaker
  <2>5. ~broken'[q] /\ Has(net'[q], Last) => last = sent[p]
    BY <1>4, <2>2, <2>3 DEF InFlight, FlagsOf, Carries
  <2>6. active'[p] => active[p]
    BY <1>4 DEF FlagsOf
  <2>7. InFlight(p, q, last)'
    BY <1>1, <1>2, <1>3, <2>2, <2>4, <2>5, <2>6 DEF InFlight
  <2> QED
    BY <2>7
<1> QED
  BY <1>1, <1>3, <1>6, <1>7, <1>8, <1>9 DEF InOrder

\* Every step keeps the bytes in order.
LEMMA DeliveryStep ==
  ASSUME Shape, Ends, Delivery, [Next]_vars
  PROVE  Delivery'
<1> SUFFICES ASSUME NEW p \in Peers, NEW q \in Peers, q = Other[p] PROVE InOrder(p, q)'
  BY ChannelAssumption DEF Delivery
<1>1. p # q /\ InOrder(p, q)
  BY ChannelAssumption DEF Delivery
<1>2. CASE SendGranted(p)
  BY <1>1, <1>2, DeliverySendGranted
<1>3. ASSUME NEW t \in Threads, SendUserMessage(p, t) PROVE InOrder(p, q)'
  BY <1>1, <1>3, DeliverySendUserMessage
<1>4. CASE Feed(q) /\ chan[q].linked
  BY <1>1, <1>4, DeliveryFeed
<1>5. CASE RecvData(q)
  BY <1>1, <1>5, DeliveryRecvData
<1>6. CASE /\ ~SendGranted(p) /\ \A t \in Threads : ~SendUserMessage(p, t)
           /\ ~RecvData(q) /\ ~(Feed(q) /\ chan[q].linked)
  BY <1>1, <1>6, DeliveryKept
<1> QED
  BY <1>2, <1>3, <1>4, <1>5, <1>6

\* At first no bytes were sent.
LEMMA DeliveryInit == Init => Delivery
<1> SUFFICES ASSUME Init, NEW p \in Peers, NEW q \in Peers, q = Other[p] PROVE InOrder(p, q)
  BY ChannelAssumption DEF Delivery
<1>1. /\ got[q] = <<>> /\ pipe[q].buffer = <<>> /\ pipe[q].closed = FALSE /\ sent[p] = 0
      /\ ended[q] = FALSE /\ net[q] = <<>> /\ broken[q] = FALSE /\ box[p]["writer"] = <<>>
  BY DEF Init, Threads
<1>2. Received(q) = 0 /\ Numbered(<<>>, 0) /\ Pending(p) = <<>>
  BY <1>1 DEF Received, Numbered, Pending
<1>3. Stream(<<>>, 0, 0, ~broken[q]) /\ ~Has(<<>>, Last)
  <2>1. 0 \in Nat /\ (~broken[q]) \in BOOLEAN
    BY <1>1
  <2> QED
    BY <2>1, StreamNone, HasMessages
<1>4. InFlight(p, q, 0)
  BY <1>1, <1>2, <1>3 DEF InFlight
<1> QED
  BY <1>1, <1>2, <1>4 DEF InOrder

-----------------------------------------------------------------------------
(* The channel implements StreamPromise                                    *)

\* Bytes numbered from the first are those that StreamPromise speaks of.
LEMMA SameBytes ==
  ASSUME NEW s \in Seq(Nat), Numbered(s, 0)
  PROVE  s = [i \in 1 .. Len(s) |-> i]
<1>1. Len(s) \in Nat /\ \A i \in 1 .. Len(s) : s[i] = i
  BY DEF Numbered
<1>2. [i \in 1 .. Len(s) |-> i] \in Seq(Nat) /\ Len([i \in 1 .. Len(s) |-> i]) = Len(s)
  BY <1>1
<1> QED
  BY <1>1, <1>2, SeqEqual

\* The initial states are those of StreamPromise.
LEMMA PromiseInit == Init => Promise!Init
BY DEF Init, Promise!Init

\* Every step is one of StreamPromise, or changes nothing of it.
LEMMA PromiseStep ==
  ASSUME Shape, Ends, Delivery, Shape', Delivery', [Next]_vars
  PROVE  [Promise!Next]_(Promise!vars)
<1>0. Types /\ Types'
  BY DEF Shape
<1>1. ASSUME NEW p \in Peers, SendGranted(p) PROVE Promise!Write(p)
  <2>1. PICK n \in 1 .. MaxBytes[p] - sent[p] : sent' = [sent EXCEPT ![p] = sent[p] + n]
    BY <1>1 DEF SendGranted
  <2>2. n \in Nat \ {0} /\ sent[p] \in Nat
    BY <1>0, ChannelAssumption DEF Types
  <2>3. sent'[p] > sent[p] /\ sent' = [sent EXCEPT ![p] = sent'[p]]
    BY <1>0, <2>1, <2>2 DEF Types
  <2>4. InOrder(p, Other[p]) /\ ~chan[p].eofSent
    BY <1>1 DEF Delivery, SendGranted
  <2>5. ~ended[Other[p]] \/ broken[Other[p]]
    BY <2>4 DEF InOrder
  <2>6. UNCHANGED <<got, ended, broken>>
    BY <1>1 DEF SendGranted
  <2> QED
    BY <2>3, <2>5, <2>6 DEF Promise!Write
<1>2. ASSUME NEW p \in Peers, RecvData(p) PROVE Promise!Receive(p)
  <2>1. PICK n \in 1 .. Len(pipe[p].buffer) :
          got' = [got EXCEPT ![p] = got[p] \o SubSeq(pipe[p].buffer, 1, n)]
    BY <1>2 DEF RecvData
  <2>2. UNCHANGED <<sent, ended, broken>> /\ ~ended[p]
    BY <1>2 DEF RecvData
  <2>3. PICK s \in Seq(Nat) : s = got'[p]
    BY <1>0, Sizes DEF Types
  <2>4. got' = [got EXCEPT ![p] = s]
    BY <1>0, <2>1, <2>3 DEF Types
  <2> DEFINE q == Other[p]
  <2>5. q \in Peers /\ Other[q] = p
    BY ChannelAssumption
  <2>6. InOrder(q, p)'
    BY <2>5 DEF Delivery
  <2>7. s = [i \in 1 .. Len(s) |-> i]
    BY <2>3, <2>6, SameBytes DEF InOrder
  <2>8. Len(s) <= sent[q]
    <3>1. Len(s) + Len(pipe'[p].buffer) <= sent[q]
      BY <2>2, <2>3, <2>6 DEF InOrder, Received
    <3>2. Len(pipe'[p].buffer) \in Nat
      <4>1. pipe'[p] \in PipeRecord
        BY <1>0 DEF Types
      <4> QED
        BY <4>1 DEF PipeRecord
    <3>3. Len(s) \in Nat /\ sent[q] \in Nat
      BY <1>0, <2>5 DEF Types
    <3> QED
      BY <3>1, <3>2, <3>3
  <2>9. Len(s) >= Len(got[p]) + 1
    <3>1. PICK b \in Seq(Nat) : b = pipe[p].buffer
      BY <1>0, Sizes
    <3>2. PICK g \in Seq(Nat) : g = got[p]
      BY <1>0, Sizes
    <3>3. n \in 1 .. Len(b) /\ s = g \o SubSeq(b, 1, n)
      BY <1>0, <2>1, <2>3, <3>1, <3>2 DEF Types
    <3>4. n \in Nat \ {0} /\ SubSeq(b, 1, n) \in Seq(Nat) /\ Len(SubSeq(b, 1, n)) = n
      BY <3>3
    <3>5. Len(g \o SubSeq(b, 1, n)) = Len(g) + n /\ Len(g) \in Nat
      BY <3>4, ConcatProperties
    <3>6. Len(s) >= Len(g) + 1
      BY <3>3, <3>4, <3>5
    <3> QED
      BY <3>2, <3>6
  <2>10. Len(s) \in Len(got[p]) + 1 .. sent[q]
    <3>1. PICK g \in Nat : g = Len(got[p])
      BY <1>0, Sizes
    <3>2. Len(s) \in g + 1 .. sent[q]
      <4>1. Len(s) \in Nat /\ sent[q] \in Nat /\ Len(s) >= g + 1 /\ Len(s) <= sent[q]
        BY <1>0, <2>5, <2>8, <2>9, <3>1 DEF Types
      <4> QED
        BY <3>1, <4>1
    <3> QED
      BY <3>1, <3>2
  <2>11. \E m \in Len(got[p]) + 1 .. sent[q] : got' = [got EXCEPT ![p] = [i \in 1 .. m |-> i]]
    BY <2>4, <2>7, <2>10, Zenon
  <2> QED
    BY <2>2, <2>11 DEF Promise!Receive
<1>3. ASSUME NEW p \in Peers, RecvEnd(p) PROVE Promise!End(p)
  <2>1. /\ pipe[p].buffer = <<>> /\ pipe[p].closed
        /\ ended' = [ended EXCEPT ![p] = TRUE] /\ UNCHANGED <<sent, got, broken>>
    BY <1>3 DEF RecvEnd
  <2>2. InOrder(Other[p], p)
    BY ChannelAssumption DEF Delivery
  <2>3. Received(p) = Len(got[p])
    <3>1. PICK g \in Nat : g = Len(got[p])
      BY <1>0, Sizes
    <3>2. Received(p) = g + 0
      BY <2>1, <3>1 DEF Received
    <3> QED
      BY <3>1, <3>2
  <2>4. Len(got[p]) = sent[Other[p]] \/ broken[p]
    BY <2>1, <2>2, <2>3 DEF InOrder
  <2> QED
    BY <2>1, <2>4 DEF Promise!End
<1>4. ASSUME NEW p \in Peers, Close(p) \/ Die(p) PROVE Promise!Break
  <2>1. broken' = [broken EXCEPT ![p] = TRUE] /\ UNCHANGED <<sent, got, ended>>
    BY <1>4 DEF Close, Die
  <2>2. {p} \in SUBSET Peers /\ broken' = [r \in Peers |-> broken[r] \/ r \in {p}]
    BY <1>0, <2>1 DEF Types
  <2> QED
    BY <2>1, <2>2 DEF Promise!Break
<1>5. UNCHANGED promiseVars => UNCHANGED Promise!vars
  BY DEF promiseVars, Promise!vars
<1>6. \/ UNCHANGED promiseVars
      \/ \E p \in Peers : SendGranted(p) \/ RecvData(p) \/ RecvEnd(p) \/ Close(p) \/ Die(p)
  BY DEF Next, Send, Recv, TransportStep, KexTimeout, HangUp, SendWaits, SendGivesUp,
     CheckAddWindow, ShutdownWrite, SendUserMessage, Feed, WindowAdjust, HandleEof, HandleClose,
     StartKex, NegotiateKeys, ParseNewKeys, vars
<1> QED
  BY <1>1, <1>2, <1>3, <1>4, <1>5, <1>6 DEF Promise!Next

\* The channel behaves like a socket, for any window and any packet size, also
\* when it is closed in the middle or the connection is lost: the bytes arrive
\* once and in order, and the end of the stream after the last of them.
THEOREM ChannelKeepsPromise == Spec => KeepsPromise
<1>1. Init => Shape /\ Ends /\ Delivery /\ Promise!Init
  BY ShapeInit, EndsInit, DeliveryInit, PromiseInit
<1>2. Shape /\ Ends /\ Delivery /\ [Next]_vars => (Shape /\ Ends /\ Delivery)'
  BY ShapeStep, EndsStep, DeliveryStep
<1>3. Shape /\ Ends /\ Delivery /\ (Shape /\ Ends /\ Delivery)' /\ [Next]_vars
        => [Promise!Next]_(Promise!vars)
  BY PromiseStep
<1> QED
  BY <1>1, <1>2, <1>3, PTL DEF Spec, KeepsPromise, Promise!Spec

-----------------------------------------------------------------------------
(* The window that q has granted to p                                      *)

Credit(p)     == chan[p].outWindow
Uncredited(p) == chan[p].sofar
Read(p)       == Len(got[p])
Adjusting(p)  == IF box[p]["reader"] = <<>> THEN 0 ELSE Head(box[p]["reader"]).n

\* q counts what it reads, and p hears of it.
Counting(p, q) == active[p] /\ active[q] /\ ~chan[q].closed /\ ~chan[q].eofReceived

\* Where the window is, and what has been used of it; n is on its way to p.
Account(p, q, n) == Credit(p) + sent[p] + uncounted[q] + Uncredited(q) + Adjusting(q) + n

\* Nothing is granted twice, and nothing is lost as long as q counts.
Balanced(p, q, n) ==
  /\ Sums(net[p], n)
  /\ Account(p, q, n) <= Window + Read(q)
  /\ Counting(p, q) => Account(p, q, n) = Window + Read(q)

Balance(p, q) ==
  /\ \E n \in Nat : Balanced(p, q, n)
  /\ uncounted[q] > 0 => box[q]["reader"] = <<>>
  /\ Uncredited(q) <= Threshold
  /\ sent[p] <= MaxBytes[p]

Conserved == \A p \in Peers : Balance(p, Other[p])

\* The amounts are natural numbers.
LEMMA Amounts ==
  ASSUME Shape, NEW p \in Peers
  PROVE  /\ Credit(p) \in Nat /\ Uncredited(p) \in Nat /\ Read(p) \in Nat /\ Adjusting(p) \in Nat
         /\ sent[p] \in Nat /\ uncounted[p] \in Nat /\ Window \in Nat
<1>0. Types /\ "reader" \in Threads
  BY DEF Shape, Threads
<1>1. Credit(p) \in Nat /\ Uncredited(p) \in Nat
  BY <1>0, Fields DEF Credit, Uncredited
<1>2. Read(p) \in Nat
  BY <1>0, Sizes DEF Read
<1>3. Adjusting(p) \in Nat
  <2>1. box[p]["reader"] \in Seq(Message)
    BY <1>0 DEF Types
  <2>2. box[p]["reader"] # <<>> => Head(box[p]["reader"]) \in Message
    BY <2>1
  <2> QED
    BY <2>2 DEF Adjusting, Message
<1> QED
  BY <1>0, <1>1, <1>2, <1>3, ChannelAssumption DEF Types

\* Who changes what of it.
LEMMA AmountsKept ==
  ASSUME Shape, [Next]_vars, NEW p \in Peers
  PROVE  /\ ~SendGranted(p) /\ ~WindowAdjust(p) => Credit(p)' = Credit(p)
         /\ ~CheckAddWindow(p) => Uncredited(p)' = Uncredited(p)
         /\ ~CheckAddWindow(p) /\ ~RecvData(p) => uncounted'[p] = uncounted[p]
         /\ ~CheckAddWindow(p) /\ ~SendUserMessage(p, "reader") => box'[p]["reader"] = box[p]["reader"]
<1>0. Types /\ "reader" \in Threads
  BY DEF Shape, Threads
<1>1. \/ UNCHANGED chan
      \/ \E a \in Peers : SendGranted(a) \/ CheckAddWindow(a) \/ WindowAdjust(a)
      \/ \E a \in Peers : \/ chan' = [chan EXCEPT ![a].eofSent = TRUE]
                          \/ chan' = [chan EXCEPT ![a].eofReceived = TRUE]
                          \/ chan' = [chan EXCEPT ![a].closed = TRUE, ![a].linked = FALSE]
                          \/ \E linked : chan' = Closed(a, linked)
  BY ZenonT(40) DEF Next, Send, Recv, TransportStep, KexTimeout, HangUp, SendWaits, SendGivesUp, RecvData,
     RecvEnd, ShutdownWrite, Close, SendUserMessage, Feed, HandleEof, HandleClose,
     StartKex, NegotiateKeys, ParseNewKeys, Die, vars
<1>2. ASSUME NEW a \in Peers, NEW F, Keeps(a, F), "outWindow" \notin F, "sofar" \notin F
      PROVE  Credit(p)' = Credit(p) /\ Uncredited(p)' = Uncredited(p)
  BY <1>2 DEF Keeps, Credit, Uncredited
<1>3. ASSUME NEW a \in Peers, \/ chan' = [chan EXCEPT ![a].eofSent = TRUE]
                              \/ chan' = [chan EXCEPT ![a].eofReceived = TRUE]
                              \/ chan' = [chan EXCEPT ![a].closed = TRUE, ![a].linked = FALSE]
                              \/ \E linked : chan' = Closed(a, linked)
      PROVE  Credit(p)' = Credit(p) /\ Uncredited(p)' = Uncredited(p)
  <2>1. \/ Keeps(a, {"eofSent"}) \/ Keeps(a, {"eofReceived"}) \/ Keeps(a, {"closed", "linked"})
        \/ Keeps(a, {"closed", "linked", "eofSent"})
    BY <1>0, <1>3, Effects
  <2> QED
    BY <1>2, <2>1
<1>4. ASSUME NEW a \in Peers, SendGranted(a)
      PROVE  (a # p => Credit(p)' = Credit(p)) /\ Uncredited(p)' = Uncredited(p)
  <2>1. Keeps(a, {"outWindow"})
    BY <1>0, <1>4, Effects DEF SendGranted
  <2> QED
    BY <2>1 DEF Keeps, Credit, Uncredited
<1>5. ASSUME NEW a \in Peers, CheckAddWindow(a)
      PROVE  (a # p => Uncredited(p)' = Uncredited(p)) /\ Credit(p)' = Credit(p)
  <2>1. UNCHANGED chan \/ \E n : chan' = [chan EXCEPT ![a].sofar = n]
    BY <1>5 DEF CheckAddWindow
  <2>2. UNCHANGED chan \/ Keeps(a, {"sofar"})
    BY <1>0, <2>1, Effects
  <2> QED
    BY <2>2 DEF Keeps, Credit, Uncredited
<1>6. ASSUME NEW a \in Peers, WindowAdjust(a)
      PROVE  (a # p => Credit(p)' = Credit(p)) /\ Uncredited(p)' = Uncredited(p)
  <2>1. UNCHANGED chan \/ \E n : chan' = [chan EXCEPT ![a].outWindow = n]
    BY <1>6 DEF WindowAdjust
  <2>2. UNCHANGED chan \/ Keeps(a, {"outWindow"})
    BY <1>0, <2>1, Effects
  <2> QED
    BY <2>2 DEF Keeps, Credit, Uncredited
<1>7. UNCHANGED chan => Credit(p)' = Credit(p) /\ Uncredited(p)' = Uncredited(p)
  BY DEF Credit, Uncredited
<1>8. /\ ~SendGranted(p) /\ ~WindowAdjust(p) => Credit(p)' = Credit(p)
      /\ ~CheckAddWindow(p) => Uncredited(p)' = Uncredited(p)
  BY <1>1, <1>3, <1>4, <1>5, <1>6, <1>7
<1>9. ~CheckAddWindow(p) /\ ~RecvData(p) => uncounted'[p] = uncounted[p]
  <2>1. UNCHANGED uncounted \/ \E a \in Peers : CheckAddWindow(a) \/ RecvData(a)
    BY ZenonT(40) DEF Next, Send, Recv, TransportStep, KexTimeout, HangUp, SendGranted, SendWaits, SendGivesUp,
       RecvEnd, ShutdownWrite, Close, SendUserMessage, Feed, WindowAdjust, HandleEof, HandleClose,
       StartKex, NegotiateKeys, ParseNewKeys, Die, vars
  <2>2. ASSUME NEW a \in Peers, CheckAddWindow(a) \/ RecvData(a), a # p
        PROVE  uncounted'[p] = uncounted[p]
    BY <1>0, <2>2 DEF CheckAddWindow, RecvData, Types
  <2> QED
    BY <2>1, <2>2
<1>10. ~CheckAddWindow(p) /\ ~SendUserMessage(p, "reader") => box'[p]["reader"] = box[p]["reader"]
  <2>1. ASSUME NEW a \in Peers, NEW t \in Threads, NEW msgs, Post(a, t, msgs), a # p \/ t # "reader"
        PROVE  box'[p]["reader"] = box[p]["reader"]
    BY <1>0, <2>1, Posting
  <2>2. ASSUME NEW a \in Peers, SendGranted(a) \/ ShutdownWrite(a) \/ Close(a)
        PROVE  box'[p]["reader"] = box[p]["reader"]
    <3>1. PICK msgs : Post(a, "writer", msgs)
      BY <2>2 DEF SendGranted, ShutdownWrite, Close
    <3> QED
      BY <2>1, <3>1 DEF Threads
  <2>3. ASSUME NEW a \in Peers, HandleClose(a) \/ Die(a)
        PROVE  box'[p]["reader"] = box[p]["reader"]
    <3>1. UNCHANGED box \/ \E msgs : Post(a, "transport", msgs)
      BY <2>3 DEF HandleClose, Die, Post
    <3> QED
      BY <2>1, <3>1 DEF Threads
  <2>4. ASSUME NEW a \in Peers, CheckAddWindow(a), a # p
        PROVE  box'[p]["reader"] = box[p]["reader"]
    <3>1. UNCHANGED box \/ \E msgs : Post(a, "reader", msgs)
      BY <2>4 DEF CheckAddWindow
    <3> QED
      BY <1>0, <2>1, <2>4, <3>1
  <2>5. ASSUME NEW a \in Peers, NEW t \in Threads, SendUserMessage(a, t), a # p \/ t # "reader"
        PROVE  box'[p]["reader"] = box[p]["reader"]
    <3>1. PICK msgs : Post(a, t, msgs)
      BY <2>5 DEF SendUserMessage
    <3> QED
      BY <2>1, <2>5, <3>1
  <2>6. \/ UNCHANGED box
        \/ \E a \in Peers : SendGranted(a) \/ ShutdownWrite(a) \/ Close(a) \/ HandleClose(a)
                            \/ Die(a) \/ CheckAddWindow(a)
        \/ \E a \in Peers : \E t \in Threads : SendUserMessage(a, t)
    BY DEF Next, Send, Recv, TransportStep, KexTimeout, HangUp, SendWaits, SendGivesUp,
       RecvData, RecvEnd, Feed, WindowAdjust, HandleEof, StartKex, NegotiateKeys, ParseNewKeys, vars
  <2>7. UNCHANGED box => box'[p]["reader"] = box[p]["reader"]
    OBVIOUS
  <2> QED
    BY <2>2, <2>3, <2>4, <2>5, <2>6, <2>7
<1> QED
  BY <1>8, <1>9, <1>10

\* A message that grants nothing does not change what is granted.
LEMMA SumsOn ==
  ASSUME NEW s \in Seq(Message), NEW n \in Nat, Sums(s, n)
  PROVE  /\ \A m \in Message : m.n = 0 => Sums(Append(s, m), n)
         /\ s # <<>> /\ Head(s).n = 0 => Sums(Tail(s), n)
<1>1. ASSUME NEW m \in Message, m.n = 0 PROVE Sums(Append(s, m), n)
  <2>1. Sums(Append(s, m), n + m.n)
    BY SumsMore
  <2> QED
    BY <1>1, <2>1
<1>2. ASSUME s # <<>>, Head(s).n = 0 PROVE Sums(Tail(s), n)
  <2>1. Sums(Tail(s), n - Head(s).n)
    BY <1>2, SumsLess
  <2> QED
    BY <1>2, <2>1
<1> QED
  BY <1>1, <1>2

\* The other messages do not change what is granted on the way to p.
LEMMA NetGrants ==
  ASSUME Shape, [Next]_vars, NEW p \in Peers, NEW q \in Peers, q = Other[p],
         ~WindowAdjust(p), ~SendUserMessage(q, "reader"), NEW n \in Nat, Sums(net[p], n)
  PROVE  Sums(net'[p], n) \/ (Sums(net'[p], 0) /\ ~active'[p])
<1>0. /\ Types /\ net[p] \in Seq(Message)
      /\ \A m \in Message : m.kind # "adjust" => m.n = 0
  BY DEF Shape, Types, Message
<1>1. ASSUME NEW a \in Peers, NEW t \in Threads, SendUserMessage(a, t) PROVE Sums(net'[p], n)
  <2>1. /\ Head(box[a][t]) \in Message
        /\ \A r \in Peers : net'[r] = IF r = Other[a] /\ active[a] /\ active[r]
                                      THEN Append(net[r], Head(box[a][t])) ELSE net[r]
    BY <1>1, NetSteps
  <2>2. p = Other[a] => a = q
    BY ChannelAssumption
  <2>3. CASE net'[p] = net[p]
    BY <2>3
  <2>4. CASE a = q /\ net'[p] = Append(net[p], Head(box[a][t]))
    <3>1. t # "reader" /\ ~Free(a, t)
      BY <1>1, <2>4 DEF SendUserMessage
    <3>2. \/ Head(box[a][t]) \in {Eof, CloseMsg}
          \/ \E bytes : Head(box[a][t]) = Data(bytes)
      BY <3>1, BoxTails
    <3>3. Eof.n = 0 /\ CloseMsg.n = 0 /\ \A bytes : Data(bytes).n = 0
      BY DEF Eof, CloseMsg, Data, Msg
    <3>4. Head(box[a][t]).n = 0
      BY <3>2, <3>3
    <3> QED
      BY <1>0, <2>1, <2>4, <3>4, SumsOn
  <2> QED
    BY <2>1, <2>2, <2>3, <2>4
<1>2. ASSUME NEW a \in Peers,
             Feed(a) \/ WindowAdjust(a) \/ HandleEof(a) \/ HandleClose(a) \/ ParseNewKeys(a)
      PROVE  Sums(net'[p], n)
  <2>1. \A r \in Peers : net'[r] = IF r = a THEN Tail(net[r]) ELSE net[r]
    BY <1>2, NetSteps
  <2>2. CASE a = p
    <3>1. net[p] # <<>> /\ Head(net[p]).kind # "adjust"
      BY <1>2, <2>2 DEF Feed, HandleEof, HandleClose, ParseNewKeys, Arrives
    <3>2. Head(net[p]) \in Message /\ Head(net[p]).n = 0
      BY <1>0, <3>1
    <3> QED
      BY <1>0, <2>1, <2>2, <3>1, <3>2, SumsOn
  <2> QED
    BY <2>1, <2>2
<1>k. /\ KexInit \in Message /\ KexInit.n = 0 /\ NewKeys \in Message /\ NewKeys.n = 0
  BY MessageKinds DEF KexInit, NewKeys, Msg
<1>3. Sums(Append(net[p], KexInit), n) /\ Sums(Append(net[p], NewKeys), n)
  BY <1>0, <1>k, SumsOn
<1>4. Sums(Append(Append(net[p], KexInit), NewKeys), n)
  <2>1. Append(net[p], KexInit) \in Seq(Message)
    BY <1>0, <1>k
  <2> QED
    BY <1>3, <1>k, <2>1, SumsOn
<1>5. ASSUME NEW a \in Peers, StartKex(a) PROVE Sums(net'[p], n)
  <2>1. net'[p] \in {net[p], Append(net[p], KexInit)}
    BY <1>5, NetSteps
  <2> QED
    BY <1>3, <2>1
<1>6. ASSUME NEW a \in Peers, NegotiateKeys(a) PROVE Sums(net'[p], n)
  <2>1. \/ net'[p] \in {net[p], Append(net[p], NewKeys), Append(Append(net[p], KexInit), NewKeys)}
        \/ (p = a /\ net'[p] = Tail(net[p]))
    BY <1>6, NetSteps
  <2>2. CASE p = a /\ net'[p] = Tail(net[p])
    <3>1. net[p] # <<>> /\ Head(net[p]).kind # "adjust"
      BY <1>6, <2>2 DEF NegotiateKeys, Arrives
    <3>2. Head(net[p]) \in Message /\ Head(net[p]).n = 0
      BY <1>0, <3>1
    <3> QED
      BY <1>0, <2>2, <3>1, <3>2, SumsOn
  <2> QED
    BY <1>3, <1>4, <2>1, <2>2
<1>7. ASSUME NEW a \in Peers, Die(a) PROVE Sums(net'[p], n) \/ (Sums(net'[p], 0) /\ ~active'[p])
  <2>1. \A r \in Peers : net'[r] = IF r = a THEN <<>> ELSE net[r]
    BY <1>7, NetSteps
  <2>2. a = p => active'[p] = FALSE
    BY <1>0, <1>7 DEF Die, Types
  <2> QED
    BY <2>1, <2>2, SumsNone
<1>8. UNCHANGED net => Sums(net'[p], n)
  OBVIOUS
<1> QED
  BY <1>1, <1>2, <1>5, <1>6, <1>7, <1>8 DEF Next, Send, Recv, TransportStep, KexTimeout,
     HangUp, SendGranted, SendWaits, SendGivesUp, RecvData, RecvEnd, CheckAddWindow, ShutdownWrite,
     Close, vars

\* q does not begin to count again.
LEMMA CountingOn ==
  ASSUME Shape, Ends, [Next]_vars, NEW p \in Peers, NEW q \in Peers
  PROVE  Counting(p, q)' => Counting(p, q)
<1>1. FlagsOf(p) /\ FlagsOf(q)
  BY Flags DEF Ends, EndsOf
<1>2. /\ active[p] \in BOOLEAN /\ active[q] \in BOOLEAN
      /\ chan[q].closed \in BOOLEAN /\ chan[q].eofReceived \in BOOLEAN
  BY DEF Shape, Types, ChannelRecord
<1> QED
  BY <1>1, <1>2 DEF FlagsOf, Counting

\* A send takes from the window what it sends.
LEMMA BalanceSend ==
  ASSUME Shape, Shape', Ends, [Next]_vars, NEW p \in Peers, NEW q \in Peers, q = Other[p], p # q,
         Balance(p, q), SendGranted(p)
  PROVE  Balance(p, q)'
<1>0. Types /\ "reader" \in Threads /\ "writer" \in Threads
  BY DEF Shape, Threads
<1>1. PICK k \in 1 .. MaxBytes[p] - sent[p] :
        /\ k <= chan[p].outWindow
        /\ chan' = [chan EXCEPT ![p].outWindow = chan[p].outWindow - k]
        /\ sent' = [sent EXCEPT ![p] = sent[p] + k]
  BY DEF SendGranted
<1>2. /\ k \in Nat /\ MaxBytes[p] \in Nat /\ sent'[p] = sent[p] + k /\ sent'[p] <= MaxBytes[p]
  <2>1. MaxBytes[p] \in Nat /\ sent[p] \in Nat /\ sent'[p] = sent[p] + k
    BY <1>0, <1>1, ChannelAssumption DEF Types
  <2> QED
    BY <1>1, <2>1
<1>3. Keeps(p, {"outWindow"}) /\ chan'[p].outWindow = chan[p].outWindow - k
  BY <1>0, <1>1, Effects
<1>4. Credit(p)' = Credit(p) - k /\ Uncredited(q)' = Uncredited(q)
  BY <1>3 DEF Credit, Uncredited, Keeps
<1>5. UNCHANGED <<uncounted, net, got>>
  BY DEF SendGranted
<1>6. box'[q]["reader"] = box[q]["reader"]
  <2>1. PICK msgs : Post(p, "writer", msgs)
    BY DEF SendGranted
  <2> QED
    BY <1>0, <2>1, Posting
<1>7. Adjusting(q)' = Adjusting(q) /\ Read(q)' = Read(q)
  BY <1>5, <1>6 DEF Adjusting, Read
<1>8. Counting(p, q)' => Counting(p, q)
  BY CountingOn
<1>9. PICK n \in Nat : Balanced(p, q, n)
  BY DEF Balance
<1>10. Account(p, q, n)' = Account(p, q, n)
  <2>1. Credit(p) \in Nat /\ sent[p] \in Nat /\ uncounted[q] \in Nat /\ Uncredited(q) \in Nat /\ Adjusting(q) \in Nat
    BY Amounts
  <2> QED
    BY <1>2, <1>4, <1>5, <1>7, <2>1 DEF Account
<1>11. Balanced(p, q, n)'
  BY <1>5, <1>7, <1>8, <1>9, <1>10 DEF Balanced
<1> QED
  BY <1>2, <1>4, <1>5, <1>6, <1>11 DEF Balance

\* What a program has received is to be counted.
LEMMA BalanceRecv ==
  ASSUME Shape, Shape', Ends, [Next]_vars, NEW p \in Peers, NEW q \in Peers, q = Other[p], p # q,
         Balance(p, q), RecvData(q)
  PROVE  Balance(p, q)'
<1>0. Types
  BY DEF Shape
<1>1. PICK k \in 1 .. Len(pipe[q].buffer) :
        /\ got' = [got EXCEPT ![q] = got[q] \o SubSeq(pipe[q].buffer, 1, k)]
        /\ uncounted' = [uncounted EXCEPT ![q] = k]
  BY DEF RecvData
<1>2. UNCHANGED <<chan, box, net, sent, active>> /\ uncounted[q] = 0 /\ box[q]["reader"] = <<>>
  BY DEF RecvData, Free
<1>3. Read(q)' = Read(q) + k /\ k \in Nat
  <2>1. PICK b \in Seq(Nat) : b = pipe[q].buffer
    BY <1>0, Sizes
  <2>2. PICK g \in Seq(Nat) : g = got[q]
    BY <1>0, Sizes
  <2>3. PICK h : h = got'[q]
    OBVIOUS
  <2>4. k \in 1 .. Len(b) /\ h = g \o SubSeq(b, 1, k)
    BY <1>0, <1>1, <2>1, <2>2, <2>3 DEF Types
  <2>5. k \in Nat \ {0} /\ SubSeq(b, 1, k) \in Seq(Nat) /\ Len(SubSeq(b, 1, k)) = k
    BY <2>4
  <2>6. Len(g \o SubSeq(b, 1, k)) = Len(g) + k
    BY <2>5, ConcatProperties
  <2> QED
    BY <2>2, <2>3, <2>4, <2>5, <2>6 DEF Read
<1>4. uncounted'[q] = k
  BY <1>0, <1>1 DEF Types
<1>5. Credit(p)' = Credit(p) /\ Uncredited(q)' = Uncredited(q) /\ Adjusting(q)' = Adjusting(q)
  BY <1>2 DEF Credit, Uncredited, Adjusting
<1>6. Counting(p, q)' => Counting(p, q)
  BY CountingOn
<1>7. PICK n \in Nat : Balanced(p, q, n)
  BY DEF Balance
<1>8. /\ Account(p, q, n)' = Account(p, q, n) + k
      /\ Account(p, q, n) \in Nat /\ Read(q) \in Nat /\ Window \in Nat
  <2>1. Credit(p) \in Nat /\ sent[p] \in Nat /\ Uncredited(q) \in Nat /\ Adjusting(q) \in Nat
        /\ Read(q) \in Nat /\ Window \in Nat
    BY Amounts
  <2> QED
    BY <1>2, <1>3, <1>4, <1>5, <2>1, SMTT(30) DEF Account
<1>9. Balanced(p, q, n)'
  <2>1. Sums(net'[p], n)
    BY <1>2, <1>7 DEF Balanced
  <2>2. Account(p, q, n)' <= Window + Read(q)'
    BY <1>3, <1>7, <1>8 DEF Balanced
  <2>3. Counting(p, q)' => Account(p, q, n)' = Window + Read(q)'
    BY <1>3, <1>6, <1>7, <1>8 DEF Balanced
  <2> QED
    BY <2>1, <2>2, <2>3 DEF Balanced
<1> QED
  BY <1>2, <1>5, <1>9 DEF Balance

\* What was counted is saved up, or is to be granted again.
LEMMA BalanceCheck ==
  ASSUME Shape, Shape', Ends, [Next]_vars, NEW p \in Peers, NEW q \in Peers, q = Other[p], p # q,
         Balance(p, q), CheckAddWindow(q)
  PROVE  Balance(p, q)'
<1>0. Types /\ "reader" \in Threads
  BY DEF Shape, Threads
<1>1. PICK sofar : sofar = chan[q].sofar + uncounted[q]
  OBVIOUS
<1>2. /\ UNCHANGED <<net, sent, got, active>>
      /\ uncounted[q] > 0 /\ uncounted' = [uncounted EXCEPT ![q] = 0]
  BY DEF CheckAddWindow, promiseVars
<1>3. \/ (chan[q].closed \/ chan[q].eofReceived) /\ UNCHANGED <<chan, box>>
      \/ /\ sofar > Threshold /\ chan' = [chan EXCEPT ![q].sofar = 0]
         /\ Post(q, "reader", <<Adjust(sofar)>>)
      \/ /\ ~(sofar > Threshold) /\ chan' = [chan EXCEPT ![q].sofar = sofar]
         /\ Post(q, "reader", <<>>)
  BY <1>1 DEF CheckAddWindow
<1>4. /\ Credit(p) \in Nat /\ sent[p] \in Nat /\ uncounted[q] \in Nat /\ Uncredited(q) \in Nat
      /\ Read(q) \in Nat /\ Window \in Nat /\ sofar = Uncredited(q) + uncounted[q] /\ sofar \in Nat
  <2>1. /\ Credit(p) \in Nat /\ sent[p] \in Nat /\ uncounted[q] \in Nat /\ Uncredited(q) \in Nat
        /\ Read(q) \in Nat /\ Window \in Nat
    BY Amounts
  <2> QED
    BY <1>1, <2>1 DEF Uncredited
<1>5. Adjusting(q) = 0 /\ box[q]["reader"] = <<>>
  BY <1>2, <1>4 DEF Adjusting, Balance
<1>6. Threshold \in Nat
  BY ChannelAssumption DEF Threshold
<1>7. uncounted'[q] = 0 /\ sent'[p] = sent[p] /\ Read(q)' = Read(q)
  BY <1>0, <1>2 DEF Types, Read
<1>8. Counting(p, q)' => Counting(p, q)
  BY CountingOn
<1>9. PICK n \in Nat : Balanced(p, q, n)
  BY DEF Balance
<1>10. Sums(net'[p], n)
  BY <1>2, <1>9 DEF Balanced
<1>11. Account(p, q, n) = Credit(p) + sent[p] + uncounted[q] + Uncredited(q) + n
  BY <1>4, <1>5, <1>9 DEF Account
<1>12. CASE (chan[q].closed \/ chan[q].eofReceived) /\ UNCHANGED <<chan, box>>
  <2>1. Credit(p)' = Credit(p) /\ Uncredited(q)' = Uncredited(q) /\ Adjusting(q)' = 0
    BY <1>5, <1>12 DEF Credit, Uncredited, Adjusting
  <2>2. ~(Counting(p, q)')
    BY <1>12 DEF Counting
  <2>3. Account(p, q, n)' = Credit(p) + sent[p] + Uncredited(q) + n
    BY <1>4, <1>7, <1>9, <2>1 DEF Account
  <2>4. Account(p, q, n)' <= Window + Read(q)'
    BY <1>4, <1>7, <1>9, <1>11, <2>3 DEF Balanced
  <2>5. Balanced(p, q, n)'
    BY <1>10, <2>2, <2>4 DEF Balanced
  <2> QED
    BY <1>2, <1>5, <1>12, <2>1, <2>5 DEF Balance
<1>13. CASE /\ sofar > Threshold /\ chan' = [chan EXCEPT ![q].sofar = 0]
            /\ Post(q, "reader", <<Adjust(sofar)>>)
  <2>1. Keeps(q, {"sofar"}) /\ chan'[q].sofar = 0
    BY <1>0, <1>13, Effects
  <2>2. Credit(p)' = Credit(p) /\ Uncredited(q)' = 0
    BY <2>1 DEF Credit, Uncredited, Keeps
  <2>3. box'[q]["reader"] = <<Adjust(sofar)>>
    BY <1>0, <1>13, Posting
  <2>4. Adjusting(q)' = sofar
    <3>1. Adjust(sofar) \in Message /\ Adjust(sofar).n = sofar
      BY <1>4, MessageKinds DEF Adjust, Msg
    <3>2. Head(<<Adjust(sofar)>>) = Adjust(sofar) /\ <<Adjust(sofar)>> # <<>>
      BY <3>1, FewMessages
    <3> QED
      BY <2>3, <3>1, <3>2 DEF Adjusting
  <2>5. Account(p, q, n)' = Account(p, q, n)
    BY <1>4, <1>7, <1>9, <1>11, <2>2, <2>4 DEF Account
  <2>6. Balanced(p, q, n)'
    BY <1>7, <1>8, <1>9, <1>10, <2>5 DEF Balanced
  <2> QED
    BY <1>6, <1>7, <2>2, <2>6 DEF Balance
<1>14. CASE /\ ~(sofar > Threshold) /\ chan' = [chan EXCEPT ![q].sofar = sofar]
            /\ Post(q, "reader", <<>>)
  <2>1. Keeps(q, {"sofar"}) /\ chan'[q].sofar = sofar
    BY <1>0, <1>14, Effects
  <2>2. Credit(p)' = Credit(p) /\ Uncredited(q)' = sofar
    BY <2>1 DEF Credit, Uncredited, Keeps
  <2>3. box'[q]["reader"] = <<>>
    BY <1>0, <1>14, Posting
  <2>4. Adjusting(q)' = 0
    BY <2>3 DEF Adjusting
  <2>5. Account(p, q, n)' = Account(p, q, n)
    BY <1>4, <1>7, <1>9, <1>11, <2>2, <2>4 DEF Account
  <2>6. Balanced(p, q, n)'
    BY <1>7, <1>8, <1>9, <1>10, <2>5 DEF Balanced
  <2>7. sofar <= Threshold
    BY <1>4, <1>6, <1>14
  <2> QED
    BY <1>7, <2>2, <2>3, <2>6, <2>7 DEF Balance
<1> QED
  BY <1>3, <1>12, <1>13, <1>14

\* What is granted again is on its way, unless an end is gone.
LEMMA BalanceGrant ==
  ASSUME Shape, Shape', Ends, [Next]_vars, NEW p \in Peers, NEW q \in Peers, q = Other[p], p # q,
         Balance(p, q), SendUserMessage(q, "reader")
  PROVE  Balance(p, q)'
<1>0. Types /\ "reader" \in Threads /\ p = Other[q] /\ net[p] \in Seq(Message)
  BY ChannelAssumption DEF Shape, Threads, Types
<1>1. /\ UNCHANGED <<chan, uncounted, active, sent, got>> /\ ~Free(q, "reader")
      /\ Post(q, "reader", Tail(box[q]["reader"]))
  BY DEF SendUserMessage, promiseVars
<1>2. PICK m : m = Head(box[q]["reader"])
  OBVIOUS
<1>3. m \in Message /\ net'[p] = IF active[p] /\ active[q] THEN Append(net[p], m) ELSE net[p]
  <2>1. /\ Head(box[q]["reader"]) \in Message
        /\ \A r \in Peers : net'[r] = IF r = Other[q] /\ active[q] /\ active[r]
                                      THEN Append(net[r], Head(box[q]["reader"])) ELSE net[r]
    BY <1>0, NetSteps
  <2> QED
    BY <1>0, <1>2, <2>1
<1>4. Adjusting(q) = m.n /\ m.n \in Nat
  BY <1>1, <1>2, <1>3 DEF Adjusting, Free, Message
<1>5. box'[q]["reader"] = <<>> /\ Adjusting(q)' = 0
  <2>1. Tail(box[q]["reader"]) = <<>>
    BY <1>0, <1>1, BoxTails
  <2>2. Post(q, "reader", <<>>)
    BY <1>1, <2>1
  <2>3. box'[q]["reader"] = <<>>
    BY <1>0, <2>2, Posting
  <2> QED
    BY <2>3 DEF Adjusting
<1>6. /\ Credit(p)' = Credit(p) /\ Uncredited(q)' = Uncredited(q) /\ Read(q)' = Read(q)
      /\ Counting(p, q)' = Counting(p, q)
  BY <1>1 DEF Credit, Uncredited, Read, Counting
<1>7. PICK n \in Nat : Balanced(p, q, n)
  BY DEF Balance
<1>8. /\ Credit(p) \in Nat /\ sent[p] \in Nat /\ uncounted[q] \in Nat /\ Uncredited(q) \in Nat
      /\ Read(q) \in Nat /\ Window \in Nat
  BY Amounts
<1>9. CASE active[p] /\ active[q]
  <2>1. PICK next \in Nat : next = n + m.n
    BY <1>4, <1>7
  <2>2. Sums(net'[p], next)
    <3>1. Sums(net[p], n)
      BY <1>7 DEF Balanced
    <3>2. Sums(Append(net[p], m), n + m.n)
      BY <1>0, <1>3, <3>1, SumsMore
    <3> QED
      BY <1>3, <1>9, <2>1, <3>2
  <2>3. Account(p, q, next)' = Account(p, q, n)
    BY <1>1, <1>4, <1>5, <1>6, <1>7, <1>8, <2>1, SMTT(30) DEF Account
  <2>4. Balanced(p, q, next)'
    BY <1>6, <1>7, <2>2, <2>3 DEF Balanced
  <2> QED
    BY <1>1, <1>5, <1>6, <2>4 DEF Balance
<1>10. CASE ~(active[p] /\ active[q])
  <2>1. Sums(net'[p], n)
    BY <1>3, <1>7, <1>10 DEF Balanced
  <2>2. ~(Counting(p, q)')
    BY <1>1, <1>10 DEF Counting
  <2>3. /\ Account(p, q, n)' <= Account(p, q, n)
        /\ Account(p, q, n)' \in Nat /\ Account(p, q, n) \in Nat
    <3>1. Account(p, q, n)' = Credit(p) + sent[p] + uncounted[q] + Uncredited(q) + n
      BY <1>1, <1>5, <1>6, <1>7, <1>8 DEF Account
    <3>2. Account(p, q, n) = Credit(p) + sent[p] + uncounted[q] + Uncredited(q) + m.n + n
      BY <1>4 DEF Account
    <3> QED
      BY <1>4, <1>7, <1>8, <3>1, <3>2
  <2>4. Balanced(p, q, n)'
    BY <1>6, <1>7, <1>8, <2>1, <2>2, <2>3 DEF Balanced
  <2> QED
    BY <1>1, <1>5, <1>6, <2>4 DEF Balance
<1> QED
  BY <1>9, <1>10

\* What arrives is added to the window, or the channel was forgotten.
LEMMA BalanceAdjust ==
  ASSUME Shape, Shape', Ends, [Next]_vars, NEW p \in Peers, NEW q \in Peers, q = Other[p], p # q,
         Balance(p, q), WindowAdjust(p)
  PROVE  Balance(p, q)'
<1>0. Types /\ net[p] \in Seq(Message) /\ net[p] # <<>>
  BY DEF Shape, Types, WindowAdjust, Arrives
<1>1. UNCHANGED <<uncounted, box, active, sent, got>>
  BY DEF WindowAdjust, promiseVars
<1>2. PICK m : m = Head(net[p])
  OBVIOUS
<1>3. m.n \in Nat
  BY <1>0, <1>2, Fields
<1>4. net'[p] = Tail(net[p])
  <2>1. \A r \in Peers : net'[r] = IF r = p THEN Tail(net[r]) ELSE net[r]
    BY NetSteps
  <2> QED
    BY <2>1
<1>5. PICK n \in Nat : Balanced(p, q, n)
  BY DEF Balance
<1>6. PICK next \in Nat : next = n - m.n /\ m.n <= n /\ Sums(net'[p], next)
  <2>1. Sums(net[p], n)
    BY <1>5 DEF Balanced
  <2>2. m.n <= n /\ n - m.n \in Nat /\ Sums(Tail(net[p]), n - m.n)
    BY <1>0, <1>2, <2>1, SumsLess
  <2> QED
    BY <1>4, <2>2
<1>7. /\ Credit(p) \in Nat /\ sent[p] \in Nat /\ uncounted[q] \in Nat /\ Uncredited(q) \in Nat
      /\ Read(q) \in Nat /\ Window \in Nat /\ Adjusting(q) \in Nat
  BY Amounts
<1>8. Read(q)' = Read(q) /\ Adjusting(q)' = Adjusting(q)
  BY <1>1 DEF Read, Adjusting
<1>9. Counting(p, q)' => Counting(p, q)
  BY CountingOn
<1>10. CASE chan[p].linked
  <2>1. chan' = [chan EXCEPT ![p].outWindow = chan[p].outWindow + m.n]
    BY <1>2, <1>10 DEF WindowAdjust
  <2>2. Keeps(p, {"outWindow"}) /\ chan'[p].outWindow = chan[p].outWindow + m.n
    BY <1>0, <2>1, Effects
  <2>3. Credit(p)' = Credit(p) + m.n /\ Uncredited(q)' = Uncredited(q)
    BY <2>2 DEF Keeps, Credit, Uncredited
  <2>4. Account(p, q, next)' = Account(p, q, n)
    BY <1>1, <1>3, <1>5, <1>6, <1>7, <1>8, <2>3 DEF Account
  <2>5. Balanced(p, q, next)'
    BY <1>5, <1>6, <1>8, <1>9, <2>4 DEF Balanced
  <2> QED
    BY <1>1, <2>3, <2>5 DEF Balance
<1>11. CASE ~chan[p].linked
  <2>1. UNCHANGED chan
    BY <1>11 DEF WindowAdjust
  <2>2. Credit(p)' = Credit(p) /\ Uncredited(q)' = Uncredited(q)
    BY <2>1 DEF Credit, Uncredited
  <2>3. ~(Counting(p, q)')
    BY <1>9, <1>11 DEF Ends, EndsOf, Counting
  <2>4. /\ Account(p, q, next)' <= Account(p, q, n)
        /\ Account(p, q, next)' \in Nat /\ Account(p, q, n) \in Nat
    BY <1>1, <1>3, <1>5, <1>6, <1>7, <1>8, <2>2 DEF Account
  <2>5. Balanced(p, q, next)'
    BY <1>5, <1>6, <1>7, <1>8, <2>3, <2>4 DEF Balanced
  <2> QED
    BY <1>1, <2>2, <2>5 DEF Balance
<1> QED
  BY <1>10, <1>11

\* The steps that do not touch the window of p.
LEMMA BalanceKept ==
  ASSUME Shape, Shape', Ends, [Next]_vars, NEW p \in Peers, NEW q \in Peers, q = Other[p], p # q,
         Balance(p, q), ~SendGranted(p), ~RecvData(q), ~CheckAddWindow(q),
         ~SendUserMessage(q, "reader"), ~WindowAdjust(p)
  PROVE  Balance(p, q)'
<1>1. Credit(p)' = Credit(p)
  BY AmountsKept
<1>2. /\ Uncredited(q)' = Uncredited(q) /\ uncounted'[q] = uncounted[q]
      /\ box'[q]["reader"] = box[q]["reader"]
  BY AmountsKept
<1>3. sent'[p] = sent[p] /\ got'[q] = got[q]
  BY Counted
<1>4. Adjusting(q)' = Adjusting(q) /\ Read(q)' = Read(q)
  BY <1>2, <1>3 DEF Adjusting, Read
<1>5. Counting(p, q)' => Counting(p, q) /\ active'[p]
  BY CountingOn DEF Counting
<1>6. PICK n \in Nat : Balanced(p, q, n)
  BY DEF Balance
<1>7. \A k \in Nat : Account(p, q, k)' = Account(p, q, k)
  BY <1>1, <1>2, <1>3, <1>4 DEF Account
<1>8. Sums(net'[p], n) \/ (Sums(net'[p], 0) /\ ~active'[p])
  <2>1. Sums(net[p], n)
    BY <1>6 DEF Balanced
  <2> QED
    BY <2>1, NetGrants
<1>9. CASE Sums(net'[p], n)
  <2>1. Account(p, q, n)' = Account(p, q, n)
    BY <1>6, <1>7
  <2>2. Balanced(p, q, n)'
    BY <1>4, <1>5, <1>6, <1>9, <2>1 DEF Balanced
  <2> QED
    BY <1>2, <1>3, <2>2 DEF Balance
<1>10. CASE Sums(net'[p], 0) /\ ~active'[p]
  <2>1. Account(p, q, 0)' <= Window + Read(q)'
    <3>1. /\ Credit(p) \in Nat /\ sent[p] \in Nat /\ uncounted[q] \in Nat /\ Uncredited(q) \in Nat
          /\ Read(q) \in Nat /\ Window \in Nat /\ Adjusting(q) \in Nat
      BY Amounts
    <3>2. Account(p, q, 0)' = Credit(p) + sent[p] + uncounted[q] + Uncredited(q) + Adjusting(q)
      BY <1>1, <1>2, <1>3, <1>4, <3>1 DEF Account
    <3>3. /\ Account(p, q, n) = Credit(p) + sent[p] + uncounted[q] + Uncredited(q) + Adjusting(q) + n
          /\ Account(p, q, n) <= Window + Read(q)
      BY <1>6 DEF Account, Balanced
    <3> QED
      BY <1>4, <1>6, <3>1, <3>2, <3>3
  <2>2. Balanced(p, q, 0)'
    BY <1>5, <1>10, <2>1 DEF Balanced
  <2> QED
    BY <1>2, <1>3, <2>2 DEF Balance
<1> QED
  BY <1>8, <1>9, <1>10

\* Every step keeps the account of the window.
LEMMA ConservedStep ==
  ASSUME Shape, Shape', Ends, Conserved, [Next]_vars
  PROVE  Conserved'
<1> SUFFICES ASSUME NEW p \in Peers, NEW q \in Peers, q = Other[p] PROVE Balance(p, q)'
  BY ChannelAssumption DEF Conserved
<1>1. p # q /\ Balance(p, q)
  BY ChannelAssumption DEF Conserved
<1> QED
  BY <1>1, BalanceSend, BalanceRecv, BalanceCheck, BalanceGrant, BalanceAdjust, BalanceKept

\* At first the whole window is the credit of p.
LEMMA ConservedInit == Init => Conserved
<1> SUFFICES ASSUME Init, NEW p \in Peers, NEW q \in Peers, q = Other[p] PROVE Balance(p, q)
  BY ChannelAssumption DEF Conserved
<1>1. /\ chan[p].outWindow = Window /\ chan[q].sofar = 0 /\ sent[p] = 0 /\ uncounted[q] = 0
      /\ box[q]["reader"] = <<>> /\ got[q] = <<>> /\ net[p] = <<>>
  BY DEF Init, Threads
<1>2. Credit(p) = Window /\ Uncredited(q) = 0 /\ Adjusting(q) = 0 /\ Read(q) = 0
  BY <1>1 DEF Credit, Uncredited, Adjusting, Read
<1>3. Account(p, q, 0) = Window /\ Window \in Nat
  BY <1>1, <1>2, ChannelAssumption DEF Account
<1>4. Balanced(p, q, 0)
  BY <1>1, <1>2, <1>3, SumsNone DEF Balanced
<1>5. 0 <= Threshold /\ 0 <= MaxBytes[p]
  BY ChannelAssumption DEF Threshold
<1> QED
  BY <1>1, <1>2, <1>4, <1>5 DEF Balance

\* What WindowConserved says of the two ends of one direction.
LEMMA WindowOf ==
  ASSUME Shape, Delivery, Conserved, NEW p \in Peers, NEW q \in Peers, q = Other[p]
  PROVE  /\ chan[p].outWindow <= Window
         /\ chan[q].sofar <= Threshold /\ uncounted[q] <= Window /\ Len(pipe[q].buffer) <= Window
         /\ sent[p] <= MaxBytes[p]
         /\ active[p] /\ active[q] /\ ~chan[q].closed /\ ~chan[q].eofReceived =>
              Window = chan[p].outWindow + sent[p] - Len(got[q]) + uncounted[q]
                       + chan[q].sofar + Granted(box[q]["reader"]) + Granted(net[p])
<1>0. Types /\ "reader" \in Threads /\ net[p] \in Seq(Message)
  BY DEF Shape, Types, Threads
<1>1. Balance(p, q) /\ InOrder(p, q)
  BY DEF Conserved, Delivery
<1>2. PICK n \in Nat : Balanced(p, q, n)
  BY <1>1 DEF Balance
<1>3. Granted(net[p]) = n
  BY <1>0, <1>2, GrantedIsSum DEF Balanced
<1>4. Granted(box[q]["reader"]) = Adjusting(q)
  <2>1. CASE box[q]["reader"] = <<>>
    <3>1. Granted(<<>>) = 0
      <4>1. <<>> \in Seq(Message)
        OBVIOUS
      <4> QED
        BY <4>1, SumsNone, GrantedIsSum
    <3> QED
      BY <2>1, <3>1 DEF Adjusting
  <2>2. ASSUME NEW k \in Nat, box[q]["reader"] = <<Adjust(k)>>
        PROVE  Granted(box[q]["reader"]) = Adjusting(q)
    <3>1. Adjust(k) \in Message /\ Adjust(k).n = k
      BY MessageKinds DEF Adjust, Msg
    <3>2. <<>> \in Seq(Message) /\ Append(<<>>, Adjust(k)) = <<Adjust(k)>>
      OBVIOUS
    <3>3. Sums(<<Adjust(k)>>, k)
      <4>1. Sums(Append(<<>>, Adjust(k)), 0 + Adjust(k).n)
        BY <3>1, <3>2, SumsNone, SumsMore
      <4>2. 0 + Adjust(k).n = k
        BY <3>1
      <4> QED
        BY <3>2, <4>1, <4>2
    <3>4. Granted(<<Adjust(k)>>) = k
      <4>1. <<Adjust(k)>> \in Seq(Message)
        BY <3>1
      <4> QED
        BY <3>3, <4>1, GrantedIsSum
    <3>5. Head(<<Adjust(k)>>) = Adjust(k) /\ <<Adjust(k)>> # <<>>
      BY <3>1, FewMessages
    <3> QED
      BY <2>2, <3>1, <3>4, <3>5 DEF Adjusting
  <2> QED
    BY <2>1, <2>2 DEF Shape, Boxes
<1>5. /\ Credit(p) \in Nat /\ sent[p] \in Nat /\ uncounted[q] \in Nat /\ Uncredited(q) \in Nat
      /\ Read(q) \in Nat /\ Window \in Nat /\ Adjusting(q) \in Nat
  BY Amounts
<1>6. Read(q) + Len(pipe[q].buffer) <= sent[p] /\ Len(pipe[q].buffer) \in Nat
  BY <1>0, <1>1, Sizes DEF InOrder, Received, Read
<1>7. /\ Credit(p) + sent[p] + uncounted[q] + Uncredited(q) + Adjusting(q) + n <= Window + Read(q)
      /\ Counting(p, q) => Credit(p) + sent[p] + uncounted[q] + Uncredited(q) + Adjusting(q) + n
                             = Window + Read(q)
  BY <1>2 DEF Balanced, Account
<1>8. Credit(p) <= Window /\ uncounted[q] <= Window /\ Len(pipe[q].buffer) <= Window
  <2>1. PICK b \in Nat : b = Len(pipe[q].buffer)
    BY <1>6
  <2>2. PICK u \in Nat : u = uncounted[q]
    BY <1>5
  <2>3. PICK s \in Nat : s = sent[p]
    BY <1>5
  <2>4. Read(q) + b <= s
    BY <1>6, <2>1, <2>3
  <2>5. Credit(p) + s + u + Uncredited(q) + Adjusting(q) + n <= Window + Read(q)
    BY <1>7, <2>2, <2>3
  <2>6. Credit(p) <= Window /\ u <= Window
    BY <1>5, <2>4, <2>5
  <2>7. b <= Window
    BY <1>5, <2>4, <2>5
  <2> QED
    BY <2>1, <2>2, <2>6, <2>7
<1>9. Counting(p, q) => Window = Credit(p) + sent[p] - Read(q) + uncounted[q] + Uncredited(q)
                                 + Adjusting(q) + n
  <2>1. PICK u \in Nat : u = uncounted[q]
    BY <1>5
  <2>2. PICK s \in Nat : s = sent[p]
    BY <1>5
  <2>3. Counting(p, q) => Credit(p) + s + u + Uncredited(q) + Adjusting(q) + n = Window + Read(q)
    BY <1>7, <2>1, <2>2
  <2>4. Counting(p, q) => Window = Credit(p) + s - Read(q) + u + Uncredited(q) + Adjusting(q) + n
    BY <1>5, <2>3
  <2> QED
    BY <2>1, <2>2, <2>4
<1>10. Uncredited(q) <= Threshold /\ sent[p] <= MaxBytes[p]
  BY <1>1 DEF Balance
<1>11. chan[p].outWindow <= Window /\ chan[q].sofar <= Threshold
  BY <1>8, <1>10 DEF Credit, Uncredited
<1>12. active[p] /\ active[q] /\ ~chan[q].closed /\ ~chan[q].eofReceived =>
         Window = chan[p].outWindow + sent[p] - Len(got[q]) + uncounted[q]
                  + chan[q].sofar + Adjusting(q) + n
  BY <1>9, Zenon DEF Counting, Credit, Uncredited, Read
<1> QED
  BY <1>3, <1>4, <1>8, <1>10, <1>11, <1>12, Zenon

\* The account of the window is what WindowConserved says.
LEMMA WindowFollows ==
  ASSUME Shape, Delivery, Conserved
  PROVE  WindowConserved
<1>0. Types
  BY DEF Shape
<1>1. \A p \in Peers : Other[p] \in Peers /\ Other[Other[p]] = p
  BY ChannelAssumption
<1>2. \A p \in Peers :
        /\ chan[p].outWindow <= Window /\ chan[p].sofar <= Threshold /\ uncounted[p] <= Window
        /\ Len(pipe[p].buffer) <= Window /\ sent[p] <= MaxBytes[p]
  BY <1>1, WindowOf
<1>3. Threshold \in Nat /\ Window \in Nat
  BY ChannelAssumption DEF Threshold
<1>4. ASSUME NEW p \in Peers
      PROVE  chan[p].outWindow \in 0 .. Window /\ chan[p].sofar \in 0 .. Threshold
  <2>1. chan[p].outWindow \in Nat /\ chan[p].sofar \in Nat
    BY <1>0, Fields
  <2>2. chan[p].outWindow <= Window /\ chan[p].sofar <= Threshold
    BY <1>2
  <2> QED
    BY <1>3, <2>1, <2>2
<1>5. TypeOK
  <2>1. chan \in [Peers -> [ closed : BOOLEAN, linked : BOOLEAN, eofSent : BOOLEAN,
                             eofReceived : BOOLEAN, outWindow : 0 .. Window, sofar : 0 .. Threshold ]]
    BY <1>0, <1>4 DEF Types, ChannelRecord
  <2>2. uncounted \in [Peers -> 0 .. Window]
    BY <1>0, <1>2, <1>3 DEF Types
  <2> QED
    BY <1>0, <1>2, <2>1, <2>2 DEF TypeOK, Types
<1>6. \A p \in Peers :
        active[p] /\ active[Other[p]] /\ ~chan[Other[p]].closed /\ ~chan[Other[p]].eofReceived =>
          Window = chan[p].outWindow + sent[p] - Len(got[Other[p]]) + uncounted[Other[p]]
                   + chan[Other[p]].sofar + Granted(box[Other[p]]["reader"]) + Granted(net[p])
  BY <1>1, WindowOf, Zenon
<1> QED
  BY <1>5, <1>6 DEF WindowConserved

\* What q grants of its window is neither lost nor granted twice, for any
\* window, threshold and packet size: as long as q counts what it reads, the
\* window is where p may send, on the way, to be read, or to be granted again.
\* The channel never holds more than the window.
THEOREM WindowIsConserved == Spec => []WindowConserved
<1>1. Init => Shape /\ Ends /\ Delivery /\ Conserved
  BY ShapeInit, EndsInit, DeliveryInit, ConservedInit
<1>2. Shape /\ Ends /\ Delivery /\ Conserved /\ [Next]_vars => (Shape /\ Ends /\ Delivery /\ Conserved)'
  BY ShapeStep, EndsStep, DeliveryStep, ConservedStep
<1>3. Shape /\ Delivery /\ Conserved => WindowConserved
  BY WindowFollows
<1> QED
  BY <1>1, <1>2, <1>3, PTL DEF Spec
=============================================================================
