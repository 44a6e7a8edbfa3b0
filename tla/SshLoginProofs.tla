--------------------------- MODULE SshLoginProofs ---------------------------
(***************************************************************************)
(* Proofs about the login, for any algorithms, methods, kinds of channels  *)
(* and requests, and any number of logins, channels and requests: neither  *)
(* end ever refuses what the other sends (NothingRefused), and what the    *)
(* client believes is so (EndsAgree).                                      *)
(* The invariant has a part for each question: Types, Grants (who knows    *)
(* that a login was granted), Order and Handlers (what is on its way, and  *)
(* that somebody is there to handle it), Alike (the algorithms), Opening   *)
(* (the channels), Asking (the requests on them) and Failures (when the    *)
(* server has had enough).                                                 *)
(***************************************************************************)
EXTENDS SshLogin, SequenceTheorems, TLAPS

-----------------------------------------------------------------------------
(* The types                                                               *)

MessageKinds ==
  { "banner", "kexinit", "dhinit", "dhreply", "newkeys", "service", "accept", "request",
    "success", "failure", "disconnect", "open", "opened", "refused", "ask", "granted",
    "denied", "close" }

Lists == UNION {Offers[p] : p \in Ends}
Wishes == Requests \cup {"none"}

\* What a message of a kind says: the algorithms, a method, a channel, a request,
\* or a number
ArgsOf(k) ==
  IF k = "kexinit" THEN Lists
  ELSE IF k = "request" THEN Methods \cup {"none"}
  ELSE IF k = "open" THEN [id : Nat, kind : Kinds]
  ELSE IF k = "ask" THEN [id : Nat, request : Wishes]
  ELSE Nat

Args == UNION {ArgsOf(k) : k \in MessageKinds}

Message == { m \in [kind : MessageKinds, arg : Args] : m.arg \in ArgsOf(m.kind) }

Outcomes == {<<>>} \cup { <<Head(Common(c, s))>> : c, s \in Lists }

EndRecord ==
  [ stage : {"idle", "banner", "packets", "gone"}, offer : Lists, agreed : Outcomes,
    expected : SUBSET MessageKinds, timer : {"off", "running", "done"},
    done : BOOLEAN, handler : BOOLEAN ]

LoginRecord   == [method : Methods \cup {"none"}, event : BOOLEAN, authenticated : BOOLEAN]
GrantRecord   == [authenticated : BOOLEAN, fails : Nat]
ChannelRecord == [event : BOOLEAN, ready : BOOLEAN, request : Wishes]
ShellRecord   == [started : Nat, running : Nat]

Places ==
  { "idle", "starting", "keyed", "failed", "authenticating",
    "authed", "opening", "open", "asking", "requesting" }

Types ==
  /\ tr \in [Ends -> EndRecord]
  /\ net \in [Ends -> Seq(Message)]
  /\ pc \in [Ends -> Places]
  /\ login \in LoginRecord
  /\ grant \in GrantRecord
  /\ channels \in [Ends -> SUBSET Nat] /\ lastOpen \in Nat
  /\ chan \in ChannelRecord
  /\ closed \in [Ends -> BOOLEAN]
  /\ asks \in Nat /\ shells \in ShellRecord
  /\ owed \in {"nothing", "granted", "denied"}

\* The two ends
LEMMA Pair ==
  /\ "client" \in Ends /\ "server" \in Ends /\ "client" # "server"
  /\ Other("client") = "server" /\ Other("server") = "client"
  /\ \A p \in Ends : Other(p) \in Ends /\ Other(p) # p /\ Other(Other(p)) = p
  /\ \A p, q \in Ends : q = p \/ q = Other(p)
BY DEF Ends, Other

\* A message, and one or two of them
LEMMA Messages ==
  /\ \A k \in MessageKinds : \A a \in ArgsOf(k) :
       Msg(k, a) \in Message /\ Msg(k, a).kind = k /\ Msg(k, a).arg = a
  /\ \A k \in MessageKinds \ {"kexinit", "request", "open", "ask"} :
       /\ \A n \in Nat : Msg(k, n) \in Message /\ Msg(k, n).kind = k /\ Msg(k, n).arg = n
       /\ Note(k) \in Message /\ Note(k).kind = k
  /\ <<>> \in Seq(Message)
  /\ \A m \in Message : <<m>> \in Seq(Message) /\ Len(<<m>>) = 1 /\ <<m>>[1] = m
  /\ \A m, n \in Message : /\ <<m, n>> \in Seq(Message) /\ Len(<<m, n>>) = 2
                           /\ <<m, n>>[1] = m /\ <<m, n>>[2] = n
<1>1. \A k \in MessageKinds : \A a \in ArgsOf(k) :
        Msg(k, a) \in Message /\ Msg(k, a).kind = k /\ Msg(k, a).arg = a
  BY DEF Msg, Message, Args
<1>2. \A k \in MessageKinds \ {"kexinit", "request", "open", "ask"} : ArgsOf(k) = Nat
  BY DEF ArgsOf
<1> QED
  BY <1>1, <1>2 DEF Note

\* What the first message says
LEMMA Heads ==
  ASSUME Types, NEW p \in Ends, net[p] # <<>>
  PROVE  LET m == Head(net[p]) IN
         /\ m \in Message /\ m.kind \in MessageKinds
         /\ m.kind = "kexinit" => m.arg \in Lists
         /\ m.kind = "request" => m.arg \in Methods \cup {"none"}
         /\ m.kind = "open" => m.arg.id \in Nat
         /\ m.kind = "ask" => m.arg.id \in Nat
         /\ m.kind \notin {"kexinit", "request", "open", "ask"} => m.arg \in Nat
         /\ Len(net[p]) \in Nat /\ 1 \in 1 .. Len(net[p]) /\ m = net[p][1]
<1>1. net[p] \in Seq(Message)
  BY DEF Types
<1>2. Head(net[p]) \in Message /\ Head(net[p]) = net[p][1] /\ Len(net[p]) \in Nat /\ 1 \in 1 .. Len(net[p])
  BY <1>1
<1> QED
  BY <1>2 DEF Message, ArgsOf

-----------------------------------------------------------------------------
(* What is on its way, after a step                                        *)

\* p sends msgs, and takes a message if taken.
Moved(p, taken, msgs) ==
  /\ net'[p] = IF taken THEN Tail(net[p]) ELSE net[p]
  /\ net'[Other(p)] = IF tr[Other(p)].stage = "gone" THEN net[Other(p)]
                      ELSE net[Other(p)] \o msgs
  /\ net' \in [Ends -> Seq(Message)]

\* Sending and answering
LEMMA Moves ==
  ASSUME Types, NEW p \in Ends, NEW msgs \in Seq(Message)
  PROVE  /\ Send(p, msgs) => Moved(p, FALSE, msgs)
         /\ net[p] # <<>> /\ Answer(p, msgs) => Moved(p, TRUE, msgs)
<1>1. Other(p) \in Ends /\ Other(p) # p
  BY Pair
<1>2. net[p] \in Seq(Message) /\ net[Other(p)] \in Seq(Message) /\ net \in [Ends -> Seq(Message)]
  BY <1>1 DEF Types
<1>3. net[Other(p)] \o msgs \in Seq(Message)
  BY <1>2
<1>4. net[p] # <<>> => Tail(net[p]) \in Seq(Message)
  BY <1>2
<1>5. ToOther(p, msgs) \in [Ends -> Seq(Message)]
  BY <1>1, <1>2, <1>3 DEF ToOther
<1>6. /\ ToOther(p, msgs)[p] = net[p]
      /\ ToOther(p, msgs)[Other(p)] = IF tr[Other(p)].stage = "gone" THEN net[Other(p)]
                                      ELSE net[Other(p)] \o msgs
  BY <1>1, <1>2 DEF ToOther
<1>7. Send(p, msgs) => Moved(p, FALSE, msgs)
  BY <1>5, <1>6 DEF Send, Moved
<1>8. ASSUME net[p] # <<>>, Answer(p, msgs) PROVE Moved(p, TRUE, msgs)
  <2>1. net' = [ToOther(p, msgs) EXCEPT ![p] = Tail(net[p])]
    BY <1>5, <1>6, <1>8 DEF Answer
  <2> QED
    BY <1>1, <1>4, <1>5, <1>6, <1>8, <2>1 DEF Moved
<1> QED
  BY <1>7, <1>8

-----------------------------------------------------------------------------
(* The two ends, after a step                                              *)

\* The transport of p after the step; that of the other end stays what it was.
After(p, stage, expected, agreed, done, handler) ==
  /\ tr' \in [Ends -> EndRecord]
  /\ tr'[Other(p)] = tr[Other(p)]
  /\ tr'[p].offer = tr[p].offer
  /\ tr'[p].stage = stage /\ tr'[p].expected = expected /\ tr'[p].agreed = agreed
  /\ tr'[p].done = done /\ tr'[p].handler = handler

\* The assignments to its attributes
LEMMA Assignments ==
  ASSUME Types, NEW p \in Ends
  PROVE  /\ tr' = [tr EXCEPT ![p].stage = "gone", ![p].done = TRUE] =>
              After(p, "gone", tr[p].expected, tr[p].agreed, TRUE, tr[p].handler)
         /\ tr' = [tr EXCEPT ![p].stage = "gone"] =>
              After(p, "gone", tr[p].expected, tr[p].agreed, tr[p].done, tr[p].handler)
         /\ tr' = [tr EXCEPT ![p].stage = "banner"] =>
              After(p, "banner", tr[p].expected, tr[p].agreed, tr[p].done, tr[p].handler)
         /\ tr' = [tr EXCEPT ![p].stage = "packets", ![p].expected = {"kexinit"},
                             ![p].timer = "running"] =>
              After(p, "packets", {"kexinit"}, tr[p].agreed, tr[p].done, tr[p].handler)
         /\ \A a \in Outcomes, x \in {{"dhinit"}, {"dhreply"}} :
              tr' = [tr EXCEPT ![p].agreed = a, ![p].timer = "done", ![p].expected = x] =>
                After(p, tr[p].stage, x, a, tr[p].done, tr[p].handler)
         /\ tr' = [tr EXCEPT ![p].expected = {"newkeys"}] =>
              After(p, tr[p].stage, {"newkeys"}, tr[p].agreed, tr[p].done, tr[p].handler)
         /\ \A h \in BOOLEAN :
              tr' = [tr EXCEPT ![p].expected = {}, ![p].done = TRUE, ![p].handler = h] =>
                After(p, tr[p].stage, {}, tr[p].agreed, TRUE, h)
         /\ tr' = [tr EXCEPT ![p].handler = TRUE] =>
              After(p, tr[p].stage, tr[p].expected, tr[p].agreed, tr[p].done, TRUE)
         /\ tr' = tr =>
              After(p, tr[p].stage, tr[p].expected, tr[p].agreed, tr[p].done, tr[p].handler)
<1>1. Other(p) \in Ends /\ Other(p) # p
  BY Pair
<1>2. tr \in [Ends -> EndRecord] /\ tr[p] \in EndRecord
  BY DEF Types
<1>3. PICK r \in EndRecord : r = tr[p]
  BY <1>2
<1>4. ASSUME NEW f \in EndRecord, tr' = [tr EXCEPT ![p] = f]
      PROVE  tr' \in [Ends -> EndRecord] /\ tr'[Other(p)] = tr[Other(p)] /\ tr'[p] = f
  BY <1>1, <1>2, <1>4
<1>5. ASSUME tr' = [tr EXCEPT ![p].stage = "gone", ![p].done = TRUE]
      PROVE  After(p, "gone", tr[p].expected, tr[p].agreed, TRUE, tr[p].handler)
  <2> DEFINE f == [r EXCEPT !.stage = "gone", !.done = TRUE]
  <2>1. f \in EndRecord
    BY DEF EndRecord, MessageKinds
  <2>2. tr' = [tr EXCEPT ![p] = f]
    BY <1>2, <1>3, <1>5
  <2>3. tr' \in [Ends -> EndRecord] /\ tr'[Other(p)] = tr[Other(p)] /\ tr'[p] = f
    BY <1>4, <2>1, <2>2
  <2> QED
    BY <1>3, <2>3 DEF After, EndRecord
<1>6. ASSUME tr' = [tr EXCEPT ![p].stage = "gone"]
      PROVE  After(p, "gone", tr[p].expected, tr[p].agreed, tr[p].done, tr[p].handler)
  <2> DEFINE f == [r EXCEPT !.stage = "gone"]
  <2>1. f \in EndRecord
    BY DEF EndRecord, MessageKinds
  <2>2. tr' = [tr EXCEPT ![p] = f]
    BY <1>2, <1>3, <1>6
  <2>3. tr' \in [Ends -> EndRecord] /\ tr'[Other(p)] = tr[Other(p)] /\ tr'[p] = f
    BY <1>4, <2>1, <2>2
  <2> QED
    BY <1>3, <2>3 DEF After, EndRecord
<1>7. ASSUME tr' = [tr EXCEPT ![p].stage = "banner"]
      PROVE  After(p, "banner", tr[p].expected, tr[p].agreed, tr[p].done, tr[p].handler)
  <2> DEFINE f == [r EXCEPT !.stage = "banner"]
  <2>1. f \in EndRecord
    BY DEF EndRecord, MessageKinds
  <2>2. tr' = [tr EXCEPT ![p] = f]
    BY <1>2, <1>3, <1>7
  <2>3. tr' \in [Ends -> EndRecord] /\ tr'[Other(p)] = tr[Other(p)] /\ tr'[p] = f
    BY <1>4, <2>1, <2>2
  <2> QED
    BY <1>3, <2>3 DEF After, EndRecord
<1>8. ASSUME tr' = [tr EXCEPT ![p].stage = "packets", ![p].expected = {"kexinit"}, ![p].timer = "running"]
      PROVE  After(p, "packets", {"kexinit"}, tr[p].agreed, tr[p].done, tr[p].handler)
  <2> DEFINE f == [r EXCEPT !.stage = "packets", !.expected = {"kexinit"}, !.timer = "running"]
  <2>1. f \in EndRecord
    BY DEF EndRecord, MessageKinds
  <2>2. tr' = [tr EXCEPT ![p] = f]
    BY <1>2, <1>3, <1>8
  <2>3. tr' \in [Ends -> EndRecord] /\ tr'[Other(p)] = tr[Other(p)] /\ tr'[p] = f
    BY <1>4, <2>1, <2>2
  <2> QED
    BY <1>3, <2>3 DEF After, EndRecord
<1>9. ASSUME NEW a \in Outcomes, NEW x \in {{"dhinit"}, {"dhreply"}}, tr' = [tr EXCEPT ![p].agreed = a, ![p].timer = "done", ![p].expected = x]
      PROVE  After(p, tr[p].stage, x, a, tr[p].done, tr[p].handler)
  <2> DEFINE f == [r EXCEPT !.agreed = a, !.timer = "done", !.expected = x]
  <2>1. f \in EndRecord
    BY DEF EndRecord, MessageKinds
  <2>2. tr' = [tr EXCEPT ![p] = f]
    BY <1>2, <1>3, <1>9
  <2>3. tr' \in [Ends -> EndRecord] /\ tr'[Other(p)] = tr[Other(p)] /\ tr'[p] = f
    BY <1>4, <2>1, <2>2
  <2> QED
    BY <1>3, <2>3 DEF After, EndRecord
<1>10. ASSUME tr' = [tr EXCEPT ![p].expected = {"newkeys"}]
      PROVE  After(p, tr[p].stage, {"newkeys"}, tr[p].agreed, tr[p].done, tr[p].handler)
  <2> DEFINE f == [r EXCEPT !.expected = {"newkeys"}]
  <2>1. f \in EndRecord
    BY DEF EndRecord, MessageKinds
  <2>2. tr' = [tr EXCEPT ![p] = f]
    BY <1>2, <1>3, <1>10
  <2>3. tr' \in [Ends -> EndRecord] /\ tr'[Other(p)] = tr[Other(p)] /\ tr'[p] = f
    BY <1>4, <2>1, <2>2
  <2> QED
    BY <1>3, <2>3 DEF After, EndRecord
<1>11. ASSUME NEW h \in BOOLEAN, tr' = [tr EXCEPT ![p].expected = {}, ![p].done = TRUE, ![p].handler = h]
      PROVE  After(p, tr[p].stage, {}, tr[p].agreed, TRUE, h)
  <2> DEFINE f == [r EXCEPT !.expected = {}, !.done = TRUE, !.handler = h]
  <2>1. f \in EndRecord
    BY DEF EndRecord, MessageKinds
  <2>2. tr' = [tr EXCEPT ![p] = f]
    BY <1>2, <1>3, <1>11
  <2>3. tr' \in [Ends -> EndRecord] /\ tr'[Other(p)] = tr[Other(p)] /\ tr'[p] = f
    BY <1>4, <2>1, <2>2
  <2> QED
    BY <1>3, <2>3 DEF After, EndRecord
<1>12. ASSUME tr' = [tr EXCEPT ![p].handler = TRUE]
      PROVE  After(p, tr[p].stage, tr[p].expected, tr[p].agreed, tr[p].done, TRUE)
  <2> DEFINE f == [r EXCEPT !.handler = TRUE]
  <2>1. f \in EndRecord
    BY DEF EndRecord, MessageKinds
  <2>2. tr' = [tr EXCEPT ![p] = f]
    BY <1>2, <1>3, <1>12
  <2>3. tr' \in [Ends -> EndRecord] /\ tr'[Other(p)] = tr[Other(p)] /\ tr'[p] = f
    BY <1>4, <2>1, <2>2
  <2> QED
    BY <1>3, <2>3 DEF After, EndRecord
<1>13. ASSUME tr' = tr
      PROVE  After(p, tr[p].stage, tr[p].expected, tr[p].agreed, tr[p].done, tr[p].handler)
  BY <1>2, <1>13 DEF After
<1> QED
  BY <1>5, <1>6, <1>7, <1>8, <1>9, <1>10, <1>11, <1>12, <1>13

-----------------------------------------------------------------------------
(* What each action does to the ends and to what is on its way             *)

\* What was on its way to p is lost.
Cleared(p) ==
  /\ net' \in [Ends -> Seq(Message)]
  /\ net'[p] = <<>> /\ net'[Other(p)] = net[Other(p)]

\* p is gone, and nothing else happens to the ends.
Leaves(p, done) == After(p, "gone", tr[p].expected, tr[p].agreed, done, tr[p].handler)

\* p handles its first message, and answers.
Takes(p, kind, msgs) ==
  /\ net[p] # <<>> /\ Head(net[p]).kind = kind /\ Active(p) /\ msgs \in Seq(Message)
  /\ Moved(p, TRUE, msgs)

\* p sends of its own accord.
Says(p, msgs) == msgs \in Seq(Message) /\ Moved(p, FALSE, msgs)

\* An end that leaves loses what was on its way to it.
LEMMA Leaving ==
  ASSUME Types, NEW p \in Ends
  PROVE  /\ EndRun(p) => Leaves(p, TRUE) /\ Cleared(p)
         /\ Close => Leaves("client", tr["client"].done) /\ Cleared("client")
         /\ ParseDisconnect(p) => Leaves(p, tr[p].done) /\ Cleared(p)
<1>1. ASSUME NEW q \in Ends, Unlink(q) PROVE Cleared(q)
  <2>1. Other(q) \in Ends /\ Other(q) # q /\ <<>> \in Seq(Message)
    BY Pair
  <2>2. net' = [net EXCEPT ![q] = <<>>]
    BY <1>1 DEF Unlink
  <2> QED
    BY <2>1, <2>2 DEF Cleared, Types
<1>2. EndRun(p) => Leaves(p, TRUE)
  BY Assignments DEF EndRun, Leaves
<1>3. Close => Leaves("client", tr["client"].done)
  BY Pair, Assignments DEF Close, Leaves
<1>4. ParseDisconnect(p) => Leaves(p, tr[p].done)
  BY Assignments DEF ParseDisconnect, Leaves
<1> QED
  BY <1>1, <1>2, <1>3, <1>4, Pair DEF EndRun, Close, ParseDisconnect

\* What the messages of the handshake change
LEMMA Handshake ==
  ASSUME Types, NEW p \in Ends
  PROVE  /\ Start(p) => /\ After(p, "banner", tr[p].expected, tr[p].agreed, tr[p].done, tr[p].handler)
                        /\ Says(p, <<Note("banner")>>)
         /\ CheckBanner(p) =>
              /\ After(p, "packets", {"kexinit"}, tr[p].agreed, tr[p].done, tr[p].handler)
              /\ Takes(p, "banner", <<Msg("kexinit", tr[p].offer)>>)
         /\ NegotiateKeys(p) =>
              LET common == Agreement(p, Head(net[p]).arg)
                  dh     == IF p = "server" THEN {"dhinit"} ELSE {"dhreply"}
              IN  IF common = <<>> THEN EndRun(p)
                  ELSE /\ After(p, tr[p].stage, dh, <<Head(common)>>, tr[p].done, tr[p].handler)
                       /\ Takes(p, "kexinit", IF p = "server" THEN <<>> ELSE <<Note("dhinit")>>)
         /\ KexDhInit(p) =>
              /\ After(p, tr[p].stage, {"newkeys"}, tr[p].agreed, tr[p].done, tr[p].handler)
              /\ Takes(p, "dhinit", <<Note("dhreply"), Note("newkeys")>>)
         /\ KexDhReply(p) =>
              /\ After(p, tr[p].stage, {"newkeys"}, tr[p].agreed, tr[p].done, tr[p].handler)
              /\ Takes(p, "dhreply", <<Note("newkeys")>>)
         /\ ParseNewKeys(p) =>
              /\ After(p, tr[p].stage, {}, tr[p].agreed, TRUE, tr[p].handler \/ p = "server")
              /\ Takes(p, "newkeys", <<>>)
<1>0. /\ <<>> \in Seq(Message)
      /\ \A k \in {"banner", "dhinit", "dhreply", "newkeys"} : Note(k) \in Message
      /\ \A m \in Message : <<m>> \in Seq(Message)
      /\ \A m, n \in Message : <<m, n>> \in Seq(Message)
  BY Messages DEF MessageKinds
<1>1. Start(p) => /\ After(p, "banner", tr[p].expected, tr[p].agreed, tr[p].done, tr[p].handler)
                  /\ Says(p, <<Note("banner")>>)
  BY <1>0, Assignments, Moves DEF Start, Says
<1>2. ASSUME CheckBanner(p)
      PROVE  /\ After(p, "packets", {"kexinit"}, tr[p].agreed, tr[p].done, tr[p].handler)
             /\ Takes(p, "banner", <<Msg("kexinit", tr[p].offer)>>)
  <2>1. tr[p].offer \in Lists
    BY DEF Types, EndRecord
  <2>2. Msg("kexinit", tr[p].offer) \in Message
    BY <2>1, Messages DEF MessageKinds, ArgsOf
  <2> QED
    BY <1>0, <1>2, <2>2, Assignments, Moves DEF CheckBanner, Arrives, Takes
<1>3. ASSUME NegotiateKeys(p), Agreement(p, Head(net[p]).arg) # <<>>
      PROVE  LET common == Agreement(p, Head(net[p]).arg)
                 dh     == IF p = "server" THEN {"dhinit"} ELSE {"dhreply"}
             IN  /\ After(p, tr[p].stage, dh, <<Head(common)>>, tr[p].done, tr[p].handler)
                 /\ Takes(p, "kexinit", IF p = "server" THEN <<>> ELSE <<Note("dhinit")>>)
  <2> DEFINE common == Agreement(p, Head(net[p]).arg)
             dh     == IF p = "server" THEN {"dhinit"} ELSE {"dhreply"}
             msgs   == IF p = "server" THEN <<>> ELSE <<Note("dhinit")>>
  <2>1. net[p] # <<>> /\ Head(net[p]).kind = "kexinit" /\ Active(p)
    BY <1>3 DEF NegotiateKeys, Arrives
  <2>2. Head(net[p]).arg \in Lists /\ tr[p].offer \in Lists
    BY <2>1, Heads DEF Types, EndRecord
  <2>3. <<Head(common)>> \in Outcomes
    BY <2>2 DEF Outcomes, Agreement
  <2>4. msgs \in Seq(Message)
    BY <1>0
  <2>5. tr' = [tr EXCEPT ![p].agreed = <<Head(common)>>, ![p].timer = "done", ![p].expected = dh]
    BY <1>3 DEF NegotiateKeys
  <2>6. dh \in {{"dhinit"}, {"dhreply"}}
    OBVIOUS
  <2>7. After(p, tr[p].stage, dh, <<Head(common)>>, tr[p].done, tr[p].handler)
    BY <2>3, <2>5, <2>6, Assignments
  <2>8. Answer(p, msgs)
    BY <1>3 DEF NegotiateKeys
  <2> QED
    BY <2>1, <2>4, <2>7, <2>8, Moves DEF Takes
<1>4. NegotiateKeys(p) /\ Agreement(p, Head(net[p]).arg) = <<>> => EndRun(p)
  BY DEF NegotiateKeys
<1>5. KexDhInit(p) =>
        /\ After(p, tr[p].stage, {"newkeys"}, tr[p].agreed, tr[p].done, tr[p].handler)
        /\ Takes(p, "dhinit", <<Note("dhreply"), Note("newkeys")>>)
  BY <1>0, Assignments, Moves DEF KexDhInit, Arrives, Takes
<1>6. KexDhReply(p) =>
        /\ After(p, tr[p].stage, {"newkeys"}, tr[p].agreed, tr[p].done, tr[p].handler)
        /\ Takes(p, "dhreply", <<Note("newkeys")>>)
  BY <1>0, Assignments, Moves DEF KexDhReply, Arrives, Takes
<1>7. ASSUME ParseNewKeys(p)
      PROVE  /\ After(p, tr[p].stage, {}, tr[p].agreed, TRUE, tr[p].handler \/ p = "server")
             /\ Takes(p, "newkeys", <<>>)
  <2>2. PICK h \in BOOLEAN : h = (tr[p].handler \/ p = "server")
    OBVIOUS
  <2>3. tr' = [tr EXCEPT ![p].expected = {}, ![p].done = TRUE, ![p].handler = h]
    BY <1>7, <2>2 DEF ParseNewKeys
  <2> QED
    BY <1>0, <1>7, <2>2, <2>3, Assignments, Moves DEF ParseNewKeys, Arrives, Takes
<1> QED
  BY <1>1, <1>2, <1>3, <1>4, <1>5, <1>6, <1>7

\* What the messages after the handshake change
LEMMA Handling ==
  ASSUME Types, NEW p \in Ends
  PROVE  /\ ParseServiceRequest(p) => tr' = tr /\ Takes(p, "service", <<Note("accept")>>)
         /\ ParseServiceAccept(p) => tr' = tr /\ Takes(p, "accept", <<Msg("request", login.method)>>)
         /\ GrantLogin(p) => tr' = tr /\ Takes(p, "request", <<Note("success")>>)
         /\ RefuseLogin(p) =>
              \/ tr' = tr /\ Takes(p, "request", <<Note("failure")>>)
              \/ /\ Leaves(p, tr[p].done)
                 /\ Takes(p, "request", <<Note("failure"), Note("disconnect")>>)
         /\ ParseSuccess(p) => tr' = tr /\ Takes(p, "success", <<>>)
         /\ ParseFailure(p) => tr' = tr /\ Takes(p, "failure", <<>>)
         /\ ParseChannelOpen(p) =>
              /\ tr' = tr
              /\ LET open == Head(net[p]).arg
                 IN  Takes(p, "open",
                           <<Msg(IF open.kind = "session" THEN "opened" ELSE "refused", open.id)>>)
         /\ ParseOpenSuccess(p) => tr' = tr /\ Takes(p, "opened", <<>>)
         /\ ParseOpenFailure(p) => tr' = tr /\ Takes(p, "refused", <<>>)
         /\ HandleRequest(p) => tr' = tr /\ Takes(p, "ask", <<>>)
         /\ RequestSuccess(p) => tr' = tr /\ Takes(p, "granted", <<>>)
         /\ RequestFailed(p) =>
              /\ tr' = tr
              /\ \/ Takes(p, "denied", <<>>)
                 \/ Takes(p, "denied", <<Msg("close", Head(net[p]).arg)>>)
         /\ HandleClose(p) =>
              /\ tr' = tr
              /\ \/ Takes(p, "close", <<>>)
                 \/ Takes(p, "close", <<Msg("close", Head(net[p]).arg)>>)
<1>0. /\ <<>> \in Seq(Message)
      /\ \A k \in {"accept", "success", "failure", "disconnect"} : Note(k) \in Message
      /\ \A k \in {"opened", "refused", "close"}, n \in Nat : Msg(k, n) \in Message
      /\ \A m \in Message : <<m>> \in Seq(Message)
      /\ \A m, n \in Message : <<m, n>> \in Seq(Message)
  BY Messages DEF MessageKinds
<1>1. ParseServiceRequest(p) => tr' = tr /\ Takes(p, "service", <<Note("accept")>>)
  BY <1>0, Moves DEF ParseServiceRequest, Arrives, Takes
<1>2. ASSUME ParseServiceAccept(p)
      PROVE  tr' = tr /\ Takes(p, "accept", <<Msg("request", login.method)>>)
  <2>1. Msg("request", login.method) \in Message
    BY Messages DEF Types, LoginRecord, MessageKinds, ArgsOf
  <2> QED
    BY <1>0, <1>2, <2>1, Moves DEF ParseServiceAccept, Arrives, Takes
<1>3. GrantLogin(p) => tr' = tr /\ Takes(p, "request", <<Note("success")>>)
  BY <1>0, Moves DEF GrantLogin, Arrives, Takes
<1>4. RefuseLogin(p) =>
        \/ tr' = tr /\ Takes(p, "request", <<Note("failure")>>)
        \/ /\ Leaves(p, tr[p].done)
           /\ Takes(p, "request", <<Note("failure"), Note("disconnect")>>)
  BY <1>0, Moves, Assignments DEF RefuseLogin, Arrives, Takes, Leaves
<1>5. /\ ParseSuccess(p) => tr' = tr /\ Takes(p, "success", <<>>)
      /\ ParseFailure(p) => tr' = tr /\ Takes(p, "failure", <<>>)
      /\ ParseOpenSuccess(p) => tr' = tr /\ Takes(p, "opened", <<>>)
      /\ ParseOpenFailure(p) => tr' = tr /\ Takes(p, "refused", <<>>)
      /\ HandleRequest(p) => tr' = tr /\ Takes(p, "ask", <<>>)
      /\ RequestSuccess(p) => tr' = tr /\ Takes(p, "granted", <<>>)
  BY <1>0, Moves DEF ParseSuccess, ParseFailure, ParseOpenSuccess, ParseOpenFailure, HandleRequest,
     RequestSuccess, Arrives, Takes
<1>6. ASSUME ParseChannelOpen(p)
      PROVE  /\ tr' = tr
             /\ LET open == Head(net[p]).arg
                IN  Takes(p, "open",
                          <<Msg(IF open.kind = "session" THEN "opened" ELSE "refused", open.id)>>)
  <2> DEFINE open == Head(net[p]).arg
             msgs == <<Msg(IF open.kind = "session" THEN "opened" ELSE "refused", open.id)>>
  <2>1. net[p] # <<>> /\ Head(net[p]).kind = "open" /\ Active(p)
    BY <1>6 DEF ParseChannelOpen, Arrives
  <2>2. open.id \in Nat
    BY <2>1, Heads
  <2>3. msgs \in Seq(Message)
    BY <1>0, <2>2
  <2>4. Answer(p, msgs)
    BY <1>6 DEF ParseChannelOpen
  <2> QED
    BY <1>6, <2>1, <2>3, <2>4, Moves DEF ParseChannelOpen, Takes
<1>7. ASSUME RequestFailed(p)
      PROVE  /\ tr' = tr
             /\ \/ Takes(p, "denied", <<>>)
                \/ Takes(p, "denied", <<Msg("close", Head(net[p]).arg)>>)
  <2>1. net[p] # <<>> /\ Head(net[p]).kind = "denied" /\ Active(p)
    BY <1>7 DEF RequestFailed, Arrives
  <2>2. <<Msg("close", Head(net[p]).arg)>> \in Seq(Message)
    BY <1>0, <2>1, Heads
  <2> QED
    BY <1>0, <1>7, <2>1, <2>2, Moves DEF RequestFailed, Takes
<1>8. ASSUME HandleClose(p)
      PROVE  /\ tr' = tr
             /\ \/ Takes(p, "close", <<>>)
                \/ Takes(p, "close", <<Msg("close", Head(net[p]).arg)>>)
  <2>1. net[p] # <<>> /\ Head(net[p]).kind = "close" /\ Active(p)
    BY <1>8 DEF HandleClose, Arrives
  <2>2. <<Msg("close", Head(net[p]).arg)>> \in Seq(Message)
    BY <1>0, <2>1, Heads
  <2> QED
    BY <1>0, <1>8, <2>1, <2>2, Moves DEF HandleClose, Takes
<1> QED
  BY <1>1, <1>2, <1>3, <1>4, <1>5, <1>6, <1>7, <1>8

\* What the programs send, and that they leave the transports alone
LEMMA Programs ==
  ASSUME Types
  PROVE  /\ \A p \in Ends : SendReply(p) =>
              /\ p = "server" /\ tr' = tr
              /\ \/ net' = net
                 \/ Active("server") /\ Says("server", <<Msg(owed, lastOpen)>>)
         /\ \A p \in Ends : ActorEnds(p) =>
              /\ p = "server" /\ tr' = tr
              /\ \/ net' = net
                 \/ ~closed["server"] /\ Says("server", <<Msg("close", lastOpen)>>)
         /\ Login => /\ After("client", tr["client"].stage, tr["client"].expected,
                              tr["client"].agreed, tr["client"].done, TRUE)
                     /\ Says("client", <<Note("service")>>)
         /\ OpenChannel =>
              /\ tr' = tr
              /\ \E k \in Kinds :
                   Says("client", <<Msg("open", [id |-> lastOpen + 1, kind |-> k])>>)
         /\ AskSends =>
              /\ tr' = tr
              /\ \/ net' = net
                 \/ /\ Active("client")
                    /\ Says("client", <<Msg("ask", [id |-> lastOpen, request |-> chan.request])>>)
         /\ (\E p \in Ends : StartReturns(p) \/ FallSilent(p)) \/ LoginReturns \/ OpenReturns
              \/ OpenTimeout \/ Ask \/ AskReturns => tr' = tr /\ net' = net
<1>0. /\ <<>> \in Seq(Message)
      /\ Note("service") \in Message
      /\ \A k \in {"granted", "denied", "close"} : Msg(k, lastOpen) \in Message
      /\ \A m \in Message : <<m>> \in Seq(Message)
      /\ "client" \in Ends /\ "server" \in Ends
  BY Messages, Pair DEF MessageKinds, Types
<1>1. ASSUME NEW p \in Ends, SendReply(p)
      PROVE  /\ p = "server" /\ tr' = tr
             /\ \/ net' = net
                \/ Active("server") /\ Says("server", <<Msg(owed, lastOpen)>>)
  <2>1. owed \in {"granted", "denied"} /\ p = "server" /\ tr' = tr
    BY <1>1 DEF SendReply, Types
  <2>2. <<Msg(owed, lastOpen)>> \in Seq(Message)
    BY <1>0, <2>1
  <2> QED
    BY <1>0, <1>1, <2>1, <2>2, Moves DEF SendReply, Send, Says
<1>2. ASSUME NEW p \in Ends, ActorEnds(p)
      PROVE  /\ p = "server" /\ tr' = tr
             /\ \/ net' = net
                \/ ~closed["server"] /\ Says("server", <<Msg("close", lastOpen)>>)
  BY <1>0, <1>2, Moves DEF ActorEnds, Says
<1>3. Login => /\ After("client", tr["client"].stage, tr["client"].expected,
                        tr["client"].agreed, tr["client"].done, TRUE)
               /\ Says("client", <<Note("service")>>)
  BY <1>0, Moves, Assignments DEF Login, Says
<1>4. ASSUME OpenChannel
      PROVE  /\ tr' = tr
             /\ \E k \in Kinds :
                  Says("client", <<Msg("open", [id |-> lastOpen + 1, kind |-> k])>>)
  <2>1. PICK k \in Kinds : Send("client", <<Msg("open", [id |-> lastOpen + 1, kind |-> k])>>)
    BY <1>4 DEF OpenChannel
  <2>2. lastOpen + 1 \in Nat
    BY DEF Types
  <2>3. Msg("open", [id |-> lastOpen + 1, kind |-> k]) \in Message
    BY <2>2, Messages DEF MessageKinds, ArgsOf
  <2> QED
    BY <1>0, <1>4, <2>1, <2>3, Moves DEF OpenChannel, Says
<1>5. ASSUME AskSends
      PROVE  /\ tr' = tr
             /\ \/ net' = net
                \/ /\ Active("client")
                   /\ Says("client", <<Msg("ask", [id |-> lastOpen, request |-> chan.request])>>)
  <2>1. lastOpen \in Nat /\ chan.request \in Wishes
    BY DEF Types, ChannelRecord
  <2>2. Msg("ask", [id |-> lastOpen, request |-> chan.request]) \in Message
    BY <2>1, Messages DEF MessageKinds, ArgsOf
  <2> QED
    BY <1>0, <1>5, <2>2, Moves DEF AskSends, Send, Says
<1>6. (\E p \in Ends : StartReturns(p) \/ FallSilent(p)) \/ LoginReturns \/ OpenReturns
        \/ OpenTimeout \/ Ask \/ AskReturns => tr' = tr /\ net' = net
  BY DEF StartReturns, FallSilent, LoginReturns, OpenReturns, OpenTimeout, Ask, AskReturns
<1> QED
  BY <1>1, <1>2, <1>3, <1>4, <1>5, <1>6

\* What a step is
LEMMA Steps ==
  ASSUME [Next]_vars
  PROVE  \/ \E p \in Ends :
              \/ (Active(p) /\ EndRun(p)) \/ ParseDisconnect(p)
              \/ Start(p) \/ CheckBanner(p) \/ NegotiateKeys(p) \/ KexDhInit(p) \/ KexDhReply(p)
              \/ ParseNewKeys(p)
              \/ ParseServiceRequest(p) \/ ParseServiceAccept(p) \/ GrantLogin(p) \/ RefuseLogin(p)
              \/ ParseSuccess(p) \/ ParseFailure(p)
              \/ ParseChannelOpen(p) \/ ParseOpenSuccess(p) \/ ParseOpenFailure(p)
              \/ HandleRequest(p) \/ RequestSuccess(p) \/ RequestFailed(p) \/ HandleClose(p)
              \/ SendReply(p) \/ ActorEnds(p) \/ StartReturns(p) \/ FallSilent(p)
         \/ Close \/ Login \/ OpenChannel \/ Ask
         \/ LoginReturns \/ OpenReturns \/ OpenTimeout \/ AskSends \/ AskReturns
         \/ UNCHANGED vars
BY DEF Next, TransportStep, Return, Lose, HangUp, BannerTimeout, HandshakeTimeout, Active

-----------------------------------------------------------------------------
\* Init has the types.
LEMMA TypesInit == Init => Types
<1> SUFFICES ASSUME Init PROVE Types
  OBVIOUS
<1>1. PICK c \in Offers["client"], s \in Offers["server"] :
        tr = [p \in Ends |-> Transport(IF p = "client" THEN c ELSE s)]
  BY DEF Init
<1>2. c \in Lists /\ s \in Lists
  BY DEF Lists, Ends
<1>3. \A o \in Lists : Transport(o) \in EndRecord
  BY DEF Transport, EndRecord, Outcomes
<1>4. tr \in [Ends -> EndRecord]
  BY <1>1, <1>2, <1>3
<1>5. <<>> \in Seq(Message)
  OBVIOUS
<1>6. net \in [Ends -> Seq(Message)]
  BY <1>5 DEF Init
<1> QED
  BY <1>4, <1>6 DEF Init, Types, Places, Wishes, LoginRecord, GrantRecord, ChannelRecord, ShellRecord

\* The assignments to the records of the programs
LEMMA Attributes ==
  ASSUME Types
  PROVE  /\ \A e, a \in BOOLEAN : [login EXCEPT !.authenticated = a, !.event = e] \in LoginRecord
         /\ [login EXCEPT !.event = TRUE] \in LoginRecord
         /\ [grant EXCEPT !.authenticated = TRUE] \in GrantRecord
         /\ [grant EXCEPT !.fails = grant.fails + 1] \in GrantRecord
         /\ \A e \in BOOLEAN :
              [chan EXCEPT !.event = e] \in ChannelRecord
         /\ \A e \in BOOLEAN, r \in BOOLEAN :
              /\ [chan EXCEPT !.event = e, !.ready = r] \in ChannelRecord
              /\ [chan EXCEPT !.ready = r, !.event = e] \in ChannelRecord
         /\ \A r \in Wishes :
              [chan EXCEPT !.request = r] \in ChannelRecord
         /\ shells.running > 0 =>
              [shells EXCEPT !.running = shells.running - 1] \in ShellRecord
<1>1. PICK l \in LoginRecord : l = login
  BY DEF Types
<1>2. PICK g \in GrantRecord : g = grant
  BY DEF Types
<1>3. PICK c \in ChannelRecord : c = chan
  BY DEF Types
<1>4. PICK s \in ShellRecord : s = shells
  BY DEF Types
<1>5. /\ \A e, a \in BOOLEAN : [l EXCEPT !.authenticated = a, !.event = e] \in LoginRecord
      /\ [l EXCEPT !.event = TRUE] \in LoginRecord
  BY DEF LoginRecord
<1>6. [g EXCEPT !.authenticated = TRUE] \in GrantRecord
  BY DEF GrantRecord
<1>7. [g EXCEPT !.fails = g.fails + 1] \in GrantRecord
  <2>1. g.fails + 1 \in Nat
    BY DEF GrantRecord
  <2> QED
    BY <2>1 DEF GrantRecord
<1>8. /\ \A e \in BOOLEAN : [c EXCEPT !.event = e] \in ChannelRecord
      /\ \A e \in BOOLEAN, r \in BOOLEAN :
           /\ [c EXCEPT !.event = e, !.ready = r] \in ChannelRecord
           /\ [c EXCEPT !.ready = r, !.event = e] \in ChannelRecord
      /\ \A r \in Wishes : [c EXCEPT !.request = r] \in ChannelRecord
  BY DEF ChannelRecord
<1>9. s.running > 0 => [s EXCEPT !.running = s.running - 1] \in ShellRecord
  BY DEF ShellRecord
<1> QED
  BY <1>1, <1>2, <1>3, <1>4, <1>5, <1>6, <1>7, <1>8, <1>9

\* What the steps assign to the variables of the programs
LEMMA TypesStep ==
  ASSUME Types, [Next]_vars
  PROVE  Types'
<1>0. /\ tr \in [Ends -> EndRecord] /\ net \in [Ends -> Seq(Message)]
      /\ pc \in [Ends -> Places]
      /\ login \in LoginRecord /\ grant \in GrantRecord
      /\ channels \in [Ends -> SUBSET Nat] /\ lastOpen \in Nat
      /\ chan \in ChannelRecord /\ closed \in [Ends -> BOOLEAN]
      /\ asks \in Nat /\ shells \in ShellRecord
      /\ owed \in {"nothing", "granted", "denied"}
      /\ "client" \in Ends /\ "server" \in Ends
  BY Pair DEF Types
<1>a. \A p \in Ends, at \in Places : Goto(p, at) => pc' \in [Ends -> Places]
  BY <1>0 DEF Goto
<1>b. ASSUME NEW p \in Ends, SetClosed(p)
      PROVE  closed' \in [Ends -> BOOLEAN] /\ chan' \in ChannelRecord
  <2>1. (chan.event \/ (p = "client" /\ ~closed[p])) \in BOOLEAN
    BY <1>0 DEF ChannelRecord
  <2>2. PICK e \in BOOLEAN : e = (chan.event \/ (p = "client" /\ ~closed[p]))
    BY <2>1
  <2>3. chan' = [chan EXCEPT !.event = e]
    BY <1>b, <2>2 DEF SetClosed
  <2>4. chan' \in ChannelRecord
    BY <2>3, Attributes
  <2>5. closed' \in [Ends -> BOOLEAN]
    BY <1>0, <1>b DEF SetClosed
  <2> QED
    BY <2>4, <2>5
<1>c. ASSUME NEW p \in Ends, Unlink(p)
      PROVE  /\ closed' \in [Ends -> BOOLEAN] /\ chan' \in ChannelRecord
             /\ channels' \in [Ends -> SUBSET Nat]
  BY <1>0, <1>b, <1>c DEF Unlink
<1>d. /\ \A p \in Ends, taken \in BOOLEAN : \A msgs : Moved(p, taken, msgs) => net' \in [Ends -> Seq(Message)]
      /\ \A p \in Ends : Cleared(p) => net' \in [Ends -> Seq(Message)]
      /\ \A p \in Ends : \A kind, msgs : Takes(p, kind, msgs) => net' \in [Ends -> Seq(Message)]
      /\ \A p \in Ends : \A msgs : Says(p, msgs) => net' \in [Ends -> Seq(Message)]
  BY DEF Moved, Cleared, Takes, Says
<1>e. /\ \A p \in Ends : \A stage, expected, agreed, done, handler :
           After(p, stage, expected, agreed, done, handler) => tr' \in [Ends -> EndRecord]
      /\ \A p \in Ends : \A done : Leaves(p, done) => tr' \in [Ends -> EndRecord]
  BY DEF After, Leaves
<1> USE DEF authVars, openVars, shellVars
<1>1. ASSUME NEW p \in Ends, EndRun(p) PROVE Types'
  <2>1. tr' \in [Ends -> EndRecord] /\ net' \in [Ends -> Seq(Message)]
    BY <1>1, <1>d, <1>e, Leaving
  <2>2. login' \in LoginRecord
    BY <1>0, <1>1, Attributes DEF EndRun
  <2> QED
    BY <1>0, <1>1, <1>c, <2>1, <2>2 DEF EndRun, Types
<1>2. ASSUME NEW p \in Ends, ParseDisconnect(p) PROVE Types'
  <2>1. tr' \in [Ends -> EndRecord] /\ net' \in [Ends -> Seq(Message)]
    BY <1>2, <1>d, <1>e, Leaving
  <2> QED
    BY <1>0, <1>2, <1>c, <2>1 DEF ParseDisconnect, Types
<1>3. ASSUME Close PROVE Types'
  <2>1. tr' \in [Ends -> EndRecord] /\ net' \in [Ends -> Seq(Message)]
    BY <1>0, <1>3, <1>d, <1>e, Leaving
  <2> QED
    BY <1>0, <1>3, <1>c, <2>1 DEF Close, Types
<1>4. ASSUME NEW p \in Ends,
             \/ Start(p) \/ CheckBanner(p) \/ KexDhInit(p) \/ KexDhReply(p) \/ ParseNewKeys(p)
             \/ NegotiateKeys(p) /\ Agreement(p, Head(net[p]).arg) # <<>>
      PROVE  Types'
  <2>1. tr' \in [Ends -> EndRecord] /\ net' \in [Ends -> Seq(Message)]
    BY <1>4, <1>d, <1>e, Handshake
  <2>2. pc' \in [Ends -> Places]
    BY <1>0, <1>4, <1>a DEF Start, CheckBanner, KexDhInit, KexDhReply, ParseNewKeys, NegotiateKeys, Places
  <2>3. UNCHANGED <<authVars, openVars, shellVars>>
    BY <1>4 DEF Start, CheckBanner, KexDhInit, KexDhReply, ParseNewKeys, NegotiateKeys
  <2> QED
    BY <1>0, <2>1, <2>2, <2>3 DEF Types
<1>5. ASSUME NEW p \in Ends, NegotiateKeys(p), Agreement(p, Head(net[p]).arg) = <<>> PROVE Types'
  BY <1>1, <1>5, Handshake
<1>6. ASSUME NEW p \in Ends,
             \/ ParseServiceRequest(p) \/ ParseServiceAccept(p) \/ GrantLogin(p) \/ RefuseLogin(p)
             \/ ParseSuccess(p) \/ ParseFailure(p)
      PROVE  Types'
  <2>1. tr' \in [Ends -> EndRecord] /\ net' \in [Ends -> Seq(Message)]
    BY <1>0, <1>6, <1>d, <1>e, Handling
  <2>2. login' \in LoginRecord
    BY <1>0, <1>6, Attributes
       DEF ParseServiceRequest, ParseServiceAccept, GrantLogin, RefuseLogin, ParseSuccess, ParseFailure
  <2>3. grant' \in GrantRecord
    BY <1>0, <1>6, Attributes
       DEF ParseServiceRequest, ParseServiceAccept, GrantLogin, RefuseLogin, ParseSuccess, ParseFailure
  <2>4. UNCHANGED <<pc, openVars, shellVars>>
    BY <1>6
       DEF ParseServiceRequest, ParseServiceAccept, GrantLogin, RefuseLogin, ParseSuccess, ParseFailure
  <2> QED
    BY <1>0, <2>1, <2>2, <2>3, <2>4 DEF Types
<1>7. ASSUME NEW p \in Ends, ParseChannelOpen(p) \/ ParseOpenSuccess(p) \/ ParseOpenFailure(p)
      PROVE  Types'
  <2>1. tr' \in [Ends -> EndRecord] /\ net' \in [Ends -> Seq(Message)]
    BY <1>0, <1>7, <1>d, Handling
  <2>2. channels' \in [Ends -> SUBSET Nat] /\ closed' \in [Ends -> BOOLEAN]
    <3>1. CASE ParseChannelOpen(p)
      <4>1. Head(net[p]).arg.id \in Nat
        BY <3>1, Heads DEF ParseChannelOpen, Arrives
      <4>2. PICK id \in Nat : id = Head(net[p]).arg.id
        BY <4>1
      <4>3. \/ channels' = [channels EXCEPT ![p] = @ \cup {id}] /\ closed' = [closed EXCEPT ![p] = FALSE]
            \/ channels' = channels /\ closed' = closed
        BY <3>1, <4>2 DEF ParseChannelOpen
      <4>4. channels' = [channels EXCEPT ![p] = channels[p] \cup {id}] \/ channels' = channels
        BY <4>3
      <4>5. channels[p] \cup {id} \in SUBSET Nat
        BY <1>0
      <4>6. channels' \in [Ends -> SUBSET Nat]
        BY <1>0, <4>4, <4>5
      <4>7. closed' \in [Ends -> BOOLEAN]
        BY <1>0, <4>3
      <4> QED
        BY <4>6, <4>7
    <3>2. CASE ParseOpenSuccess(p) \/ ParseOpenFailure(p)
      BY <1>0, <3>2 DEF ParseOpenSuccess, ParseOpenFailure
    <3> QED
      BY <1>7, <3>1, <3>2
  <2>3. UNCHANGED <<pc, login, grant, lastOpen, chan, asks, shells, owed>>
    BY <1>7 DEF ParseChannelOpen, ParseOpenSuccess, ParseOpenFailure
  <2> QED
    BY <1>0, <2>1, <2>2, <2>3 DEF Types
<1>8. ASSUME NEW p \in Ends, HandleRequest(p) \/ RequestSuccess(p) PROVE Types'
  <2>1. tr' \in [Ends -> EndRecord] /\ net' \in [Ends -> Seq(Message)]
    BY <1>0, <1>8, <1>d, Handling
  <2>2. chan' \in ChannelRecord
    BY <1>0, <1>8, Attributes DEF HandleRequest, RequestSuccess
  <2>3. shells' \in ShellRecord
    <3>1. [started |-> shells.started + 1, running |-> shells.running + 1] \in ShellRecord
      BY <1>0 DEF ShellRecord
    <3> QED
      BY <1>0, <1>8, <3>1 DEF HandleRequest, RequestSuccess
  <2>4. owed' \in {"nothing", "granted", "denied"}
    BY <1>0, <1>8 DEF HandleRequest, RequestSuccess
  <2>5. UNCHANGED <<pc, authVars, openVars, closed, asks>>
    BY <1>8 DEF HandleRequest, RequestSuccess
  <2> QED
    BY <1>0, <2>1, <2>2, <2>3, <2>4, <2>5 DEF Types
<1>9. ASSUME NEW p \in Ends, RequestFailed(p) \/ HandleClose(p) PROVE Types'
  <2>1. tr' \in [Ends -> EndRecord] /\ net' \in [Ends -> Seq(Message)]
    BY <1>0, <1>9, <1>d, Handling
  <2>2. chan' \in ChannelRecord /\ closed' \in [Ends -> BOOLEAN]
    BY <1>0, <1>9, <1>b DEF RequestFailed, HandleClose
  <2>3. channels' \in [Ends -> SUBSET Nat]
    BY <1>0, <1>9 DEF RequestFailed, HandleClose
  <2>4. UNCHANGED <<pc, authVars, lastOpen, asks, shells, owed>>
    BY <1>9 DEF RequestFailed, HandleClose
  <2> QED
    BY <1>0, <2>1, <2>2, <2>3, <2>4 DEF Types
<1>10. ASSUME NEW p \in Ends, SendReply(p) \/ ActorEnds(p) PROVE Types'
  <2>1. tr' \in [Ends -> EndRecord] /\ net' \in [Ends -> Seq(Message)]
    BY <1>0, <1>10, <1>d, Programs
  <2>2. shells' \in ShellRecord
    BY <1>0, <1>10, Attributes DEF SendReply, ActorEnds
  <2>3. closed' \in [Ends -> BOOLEAN] /\ owed' \in {"nothing", "granted", "denied"}
    BY <1>0, <1>10 DEF SendReply, ActorEnds
  <2>4. UNCHANGED <<pc, authVars, openVars, chan, asks>>
    BY <1>10 DEF SendReply, ActorEnds
  <2> QED
    BY <1>0, <2>1, <2>2, <2>3, <2>4 DEF Types
<1>11. ASSUME \/ \E p \in Ends : StartReturns(p) \/ FallSilent(p)
              \/ LoginReturns \/ OpenReturns \/ OpenTimeout \/ AskReturns
       PROVE  Types'
  <2>1. pc' \in [Ends -> Places]
    BY <1>0, <1>a, <1>11
       DEF StartReturns, FallSilent, LoginReturns, OpenReturns, OpenTimeout, AskReturns, Places
  <2>2. UNCHANGED <<tr, net, authVars, openVars, shellVars>>
    BY <1>11 DEF StartReturns, FallSilent, LoginReturns, OpenReturns, OpenTimeout, AskReturns
  <2> QED
    BY <1>0, <2>1, <2>2 DEF Types
<1>12. ASSUME Login PROVE Types'
  <2>1. tr' \in [Ends -> EndRecord] /\ net' \in [Ends -> Seq(Message)]
    BY <1>0, <1>12, <1>d, <1>e, Programs
  <2>2. login' \in LoginRecord
    BY <1>12 DEF Login, LoginRecord
  <2>3. pc' \in [Ends -> Places]
    BY <1>0, <1>12, <1>a DEF Login, Places
  <2> QED
    BY <1>0, <1>12, <2>1, <2>2, <2>3 DEF Login, Types
<1>13. ASSUME OpenChannel PROVE Types'
  <2>1. tr' \in [Ends -> EndRecord] /\ net' \in [Ends -> Seq(Message)]
    BY <1>0, <1>13, <1>d, Programs
  <2>2. lastOpen' \in Nat /\ channels' \in [Ends -> SUBSET Nat]
    BY <1>0, <1>13 DEF OpenChannel
  <2>3. chan' \in ChannelRecord
    BY <1>13 DEF OpenChannel, ChannelRecord, Wishes
  <2>4. pc' \in [Ends -> Places] /\ closed' \in [Ends -> BOOLEAN]
    BY <1>0, <1>13, <1>a DEF OpenChannel, Places
  <2> QED
    BY <1>0, <1>13, <2>1, <2>2, <2>3, <2>4 DEF OpenChannel, Types
<1>14. ASSUME Ask PROVE Types'
  <2>1. PICK r \in Requests : chan' = [chan EXCEPT !.request = r]
    BY <1>14 DEF Ask
  <2>2. chan' \in ChannelRecord
    BY <2>1, Attributes DEF Wishes
  <2>3. pc' \in [Ends -> Places] /\ asks' \in Nat
    BY <1>0, <1>14, <1>a DEF Ask, Places
  <2> QED
    BY <1>0, <1>14, <2>2, <2>3 DEF Ask, Types
<1>15. ASSUME AskSends PROVE Types'
  <2>1. tr' \in [Ends -> EndRecord] /\ net' \in [Ends -> Seq(Message)]
    BY <1>0, <1>15, <1>d, Programs
  <2>2. chan' \in ChannelRecord
    BY <1>15, Attributes DEF AskSends
  <2>3. pc' \in [Ends -> Places]
    BY <1>0, <1>15, <1>a DEF AskSends, Places
  <2> QED
    BY <1>0, <1>15, <2>1, <2>2, <2>3 DEF AskSends, Types
<1>16. UNCHANGED vars => Types'
  BY <1>0 DEF vars, Types
<1> QED
  BY <1>1, <1>2, <1>3, <1>4, <1>5, <1>6, <1>7, <1>8, <1>9, <1>10, <1>11, <1>12, <1>13, <1>14, <1>15,
     <1>16, Steps

-----------------------------------------------------------------------------
(* The messages that a step adds                                           *)

Has(s, K) == \E i \in 1 .. Len(s) : s[i].kind \in K

HandshakeKinds == {"banner", "kexinit", "dhinit", "dhreply", "newkeys"}


\* The client has found an algorithm that both ends know.
Negotiated ==
  /\ NegotiateKeys("client") /\ net["client"] # <<>> /\ Head(net["client"]).kind = "kexinit"
  /\ tr'["client"].agreed = <<Head(Agreement("client", Head(net["client"]).arg))>>

\* What a message says of its sender, when it is sent to q.
New(q, m) ==
  /\ m.kind = "kexinit" => m.arg = tr[Other(q)].offer
  /\ m.kind = "dhinit" => q = "server" /\ Negotiated
  /\ m.kind \in {"dhreply", "newkeys"} => KexDhInit(Other(q)) \/ KexDhReply(Other(q))
  /\ m.kind = "service" => q = "server" /\ tr'["client"].handler
  /\ m.kind \in AuthKinds \ {"service"} => Has(net[Other(q)], AuthKinds)
  /\ m.kind = "success" => grant'.authenticated
  /\ m.kind = "open" => q = "server" /\ OpenChannel /\ m.arg.id = lastOpen + 1
  /\ m.kind = "opened" => m.arg \in accepts'
  /\ m.kind = "refused" => /\ net[Other(q)] # <<>> /\ Head(net[Other(q)]).kind = "open"
                           /\ m.arg = Head(net[Other(q)]).arg.id
  /\ m.kind = "ask" => q = "server" /\ AskSends /\ m.arg.request = chan.request
  /\ m.kind \in {"granted", "denied"} => q = "client" /\ SendReply("server") /\ m.kind = owed

\* What q is sent in a step: nothing, or messages that say what their sender does;
\* or it takes its first one, or loses them all.
Arrive(q) ==
  \/ net'[q] = net[q]
  \/ net'[q] = <<>>
  \/ net[q] # <<>> /\ net'[q] = Tail(net[q])
  \/ \E msgs \in Seq(Message) :
       /\ net'[q] = net[q] \o msgs
       /\ \A k \in 1 .. Len(msgs) : New(q, msgs[k])

\* Every step changes what is on its way to an end in one of these forms.
LEMMA Queues ==
  ASSUME Types, [Next]_vars
  PROVE  \A q \in Ends : Arrive(q)
<1> DEFINE Known == \A q \in Ends : Arrive(q)
<1>a. ASSUME NEW p \in Ends, NEW kind, NEW msgs, Takes(p, kind, msgs) \/ Says(p, msgs),
             \A k \in 1 .. Len(msgs) : New(Other(p), msgs[k])
      PROVE  Known
  <2>1. PICK taken \in BOOLEAN : /\ msgs \in Seq(Message) /\ Moved(p, taken, msgs)
                                 /\ taken => net[p] # <<>>
    BY <1>a DEF Takes, Says
  <2>2. Arrive(p)
    BY <2>1 DEF Moved, Arrive
  <2>3. Arrive(Other(p))
    BY <1>a, <2>1 DEF Moved, Arrive
  <2> QED
    BY <2>2, <2>3, Pair
<1>b. ASSUME NEW p \in Ends, Cleared(p) PROVE Known
  <2>1. net'[p] = <<>> /\ net'[Other(p)] = net[Other(p)]
    BY <1>b DEF Cleared
  <2>2. Arrive(p) /\ Arrive(Other(p))
    BY <2>1 DEF Arrive
  <2> QED
    BY <2>2, Pair
<1>c. net' = net => Known
  BY DEF Arrive
<1>d. \A q, k : New(q, <<>>[k]) \/ k \notin 1 .. Len(<<>>)
  OBVIOUS
<1>e. ASSUME NEW p \in Ends, NEW m \in Message, New(Other(p), m)
      PROVE  \A k \in 1 .. Len(<<m>>) : New(Other(p), <<m>>[k])
  BY <1>e, Messages
<1>f. ASSUME NEW p \in Ends, NEW m \in Message, NEW n \in Message, New(Other(p), m), New(Other(p), n)
      PROVE  \A k \in 1 .. Len(<<m, n>>) : New(Other(p), <<m, n>>[k])
  BY <1>f, Messages
<1>g. \A p \in Ends : Other(p) \in Ends /\ Other(Other(p)) = p
  BY Pair
<1>h. ASSUME NEW p \in Ends, NEW kind \in AuthKinds, NEW msgs, Takes(p, kind, msgs)
      PROVE  Has(net[p], AuthKinds)
  BY <1>h, Heads DEF Takes, Has
<1> HIDE DEF Known
<1>1. ASSUME NEW p \in Ends, EndRun(p) \/ ParseDisconnect(p) PROVE Known
  BY <1>1, <1>b, Leaving
<1>2. ASSUME Close PROVE Known
  BY <1>2, <1>b, Leaving, Pair
<1>3. ASSUME NEW p \in Ends,
             Start(p) \/ CheckBanner(p) \/ NegotiateKeys(p) \/ KexDhInit(p) \/ KexDhReply(p)
      PROVE  Known
  <2>0. ASSUME NEW k \in HandshakeKinds \ {"kexinit"} PROVE Note(k) \in Message /\ Note(k).kind = k
    BY Messages DEF MessageKinds, HandshakeKinds
  <2>1. CASE Start(p)
    <3>1. Says(p, <<Note("banner")>>)
      BY <2>1, Handshake
    <3>2. Note("banner") \in Message /\ Note("banner").kind = "banner"
      BY <2>0 DEF HandshakeKinds
    <3>3. New(Other(p), Note("banner"))
      BY <3>2 DEF New, AuthKinds
    <3> QED
      BY <1>a, <1>e, <3>1, <3>2, <3>3
  <2>2. CASE CheckBanner(p)
    <3> DEFINE m == Msg("kexinit", tr[p].offer)
    <3>1. Takes(p, "banner", <<m>>)
      BY <2>2, Handshake
    <3>2. tr[p].offer \in Lists
      BY DEF Types, EndRecord
    <3>3. m \in Message /\ m.kind = "kexinit" /\ m.arg = tr[p].offer
      BY <3>2, Messages DEF MessageKinds, ArgsOf
    <3>4. New(Other(p), m)
      BY <1>g, <3>3 DEF New, AuthKinds
    <3> QED
      BY <1>a, <1>e, <3>1, <3>3, <3>4
  <2>3. CASE NegotiateKeys(p)
    <3>1. CASE Agreement(p, Head(net[p]).arg) = <<>>
      BY <1>1, <2>3, <3>1, Handshake
    <3>2. CASE Agreement(p, Head(net[p]).arg) # <<>> /\ p = "server"
      <4>1. Takes(p, "kexinit", <<>>)
        BY <2>3, <3>2, Handshake
      <4> QED
        BY <1>a, <1>d, <4>1
    <3>3. CASE Agreement(p, Head(net[p]).arg) # <<>> /\ p = "client"
      <4>1. /\ Takes(p, "kexinit", <<Note("dhinit")>>)
            /\ After(p, tr[p].stage, {"dhreply"}, <<Head(Agreement(p, Head(net[p]).arg))>>,
                     tr[p].done, tr[p].handler)
        BY <2>3, <3>3, Handshake
      <4>2. Negotiated
        BY <2>3, <3>3, <4>1 DEF Negotiated, Takes, After
      <4>3. Note("dhinit") \in Message /\ Note("dhinit").kind = "dhinit"
        BY <2>0 DEF HandshakeKinds
      <4>4. New(Other(p), Note("dhinit"))
        BY <3>3, <4>2, <4>3, Pair DEF New, AuthKinds
      <4> QED
        BY <1>a, <1>e, <4>1, <4>3, <4>4
    <3> QED
      BY <3>1, <3>2, <3>3 DEF Ends
  <2>4. CASE KexDhInit(p) \/ KexDhReply(p)
    <3>1. /\ Note("dhreply") \in Message /\ Note("dhreply").kind = "dhreply"
          /\ Note("newkeys") \in Message /\ Note("newkeys").kind = "newkeys"
      BY <2>0 DEF HandshakeKinds
    <3>2. New(Other(p), Note("dhreply")) /\ New(Other(p), Note("newkeys"))
      BY <1>g, <2>4, <3>1 DEF New, AuthKinds
    <3>3. \/ Takes(p, "dhinit", <<Note("dhreply"), Note("newkeys")>>)
          \/ Takes(p, "dhreply", <<Note("newkeys")>>)
      BY <2>4, Handshake
    <3> QED
      BY <1>a, <1>e, <1>f, <3>1, <3>2, <3>3
  <2> QED
    BY <1>3, <2>1, <2>2, <2>3, <2>4
<1>4. ASSUME NEW p \in Ends,
             \/ ParseNewKeys(p) \/ ParseSuccess(p) \/ ParseFailure(p) \/ ParseOpenSuccess(p)
             \/ ParseOpenFailure(p) \/ HandleRequest(p) \/ RequestSuccess(p)
      PROVE  Known
  <2>1. \E kind : Takes(p, kind, <<>>)
    BY <1>4, Handshake, Handling
  <2> QED
    BY <1>a, <1>d, <2>1
<1>5. ASSUME NEW p \in Ends, ParseServiceRequest(p) PROVE Known
  <2>1. Takes(p, "service", <<Note("accept")>>)
    BY <1>5, Handling
  <2>2. Note("accept") \in Message /\ Note("accept").kind = "accept"
    BY Messages DEF MessageKinds
  <2>3. New(Other(p), Note("accept"))
    BY <1>g, <1>h, <2>1, <2>2 DEF New, AuthKinds
  <2> QED
    BY <1>a, <1>e, <2>1, <2>2, <2>3
<1>6. ASSUME NEW p \in Ends, ParseServiceAccept(p) PROVE Known
  <2>1. Takes(p, "accept", <<Msg("request", login.method)>>)
    BY <1>6, Handling
  <2>2. Msg("request", login.method) \in Message /\ Msg("request", login.method).kind = "request"
    BY Messages DEF Types, LoginRecord, MessageKinds, ArgsOf
  <2>3. New(Other(p), Msg("request", login.method))
    BY <1>g, <1>h, <2>1, <2>2 DEF New, AuthKinds
  <2> QED
    BY <1>a, <1>e, <2>1, <2>2, <2>3
<1>7. ASSUME NEW p \in Ends, GrantLogin(p) PROVE Known
  <2>1. Takes(p, "request", <<Note("success")>>)
    BY <1>7, Handling
  <2>2. Note("success") \in Message /\ Note("success").kind = "success"
    BY Messages DEF MessageKinds
  <2>3. grant'.authenticated
    BY <1>7 DEF GrantLogin, Types, GrantRecord
  <2>4. New(Other(p), Note("success"))
    BY <1>g, <1>h, <2>1, <2>2, <2>3 DEF New, AuthKinds
  <2> QED
    BY <1>a, <1>e, <2>1, <2>2, <2>4
<1>8. ASSUME NEW p \in Ends, RefuseLogin(p) PROVE Known
  <2>1. /\ Note("failure") \in Message /\ Note("failure").kind = "failure"
        /\ Note("disconnect") \in Message /\ Note("disconnect").kind = "disconnect"
    BY Messages DEF MessageKinds
  <2>2. Has(net[p], AuthKinds)
    BY <1>8, <1>h, Handling DEF AuthKinds
  <2>3. New(Other(p), Note("failure")) /\ New(Other(p), Note("disconnect"))
    BY <1>g, <2>1, <2>2 DEF New, AuthKinds
  <2>4. \/ Takes(p, "request", <<Note("failure")>>)
        \/ Takes(p, "request", <<Note("failure"), Note("disconnect")>>)
    BY <1>8, Handling
  <2> QED
    BY <1>a, <1>e, <1>f, <2>1, <2>3, <2>4
<1>9. ASSUME NEW p \in Ends, ParseChannelOpen(p) PROVE Known
  <2> DEFINE id   == Head(net[p]).arg.id
             kind == IF Head(net[p]).arg.kind = "session" THEN "opened" ELSE "refused"
  <2>1. Takes(p, "open", <<Msg(kind, id)>>)
    BY <1>9, Handling
  <2>2. id \in Nat /\ net[p] # <<>> /\ Head(net[p]).kind = "open"
    BY <2>1, Heads DEF Takes
  <2>3. /\ Msg(kind, id) \in Message /\ Msg(kind, id).kind = kind /\ Msg(kind, id).arg = id
    BY <2>2, Messages DEF MessageKinds
  <2>4. kind = "opened" => id \in accepts'
    BY <1>9 DEF ParseChannelOpen
  <2>5. PICK m : m = Msg(kind, id)
    OBVIOUS
  <2>6. /\ m.kind \in {"opened", "refused"} /\ m.arg = id
        /\ m.kind = "opened" => m.arg \in accepts'
    BY <2>3, <2>4, <2>5
  <2>7. New(Other(p), m)
    BY <1>g, <2>2, <2>6 DEF New, AuthKinds
  <2> QED
    BY <1>a, <1>e, <2>1, <2>3, <2>5, <2>7
<1>10. ASSUME NEW p \in Ends, RequestFailed(p) \/ HandleClose(p) PROVE Known
  <2> DEFINE m == Msg("close", Head(net[p]).arg)
  <2>1. \E kind \in {"denied", "close"} : Takes(p, kind, <<>>) \/ Takes(p, kind, <<m>>)
    BY <1>10, Handling
  <2>2. Head(net[p]).arg \in Nat
    BY <2>1, Heads DEF Takes
  <2>3. m \in Message /\ m.kind = "close"
    BY <2>2, Messages DEF MessageKinds
  <2>4. New(Other(p), m)
    BY <2>3 DEF New, AuthKinds
  <2> QED
    BY <1>a, <1>d, <1>e, <2>1, <2>3, <2>4
<1>11. ASSUME NEW p \in Ends, SendReply(p) \/ ActorEnds(p) PROVE Known
  <2>1. \/ net' = net
        \/ \E k \in {"granted", "denied", "close"} :
             (k = "close" \/ (SendReply("server") /\ k = owed)) /\ Says("server", <<Msg(k, lastOpen)>>)
    <3>1. CASE SendReply(p)
      <4>1. p = "server" /\ owed \in {"granted", "denied"}
        BY <3>1 DEF SendReply, Types
      <4>2. SendReply("server")
        BY <3>1, <4>1
      <4>3. net' = net \/ Says("server", <<Msg(owed, lastOpen)>>)
        BY <3>1, Programs
      <4>4. owed \in {"granted", "denied", "close"}
        BY <4>1
      <4> QED
        BY <4>2, <4>3, <4>4, Zenon
    <3>2. CASE ActorEnds(p)
      BY <3>2, Programs
    <3> QED
      BY <1>11, <3>1, <3>2
  <2>2. ASSUME NEW k \in {"granted", "denied", "close"},
               k = "close" \/ (SendReply("server") /\ k = owed)
        PROVE  Msg(k, lastOpen) \in Message /\ New(Other("server"), Msg(k, lastOpen))
    <3>1. Msg(k, lastOpen) \in Message /\ Msg(k, lastOpen).kind = k
      BY Messages DEF MessageKinds, Types
    <3> QED
      BY <2>2, <3>1, Pair DEF New, AuthKinds
  <2> QED
    BY <1>a, <1>c, <1>e, <2>1, <2>2, Pair
<1>12. ASSUME Login PROVE Known
  <2>1. Says("client", <<Note("service")>>) /\ tr'["client"].handler
    BY <1>12, Programs DEF After
  <2>2. Note("service") \in Message /\ Note("service").kind = "service"
    BY Messages DEF MessageKinds
  <2>3. New(Other("client"), Note("service"))
    BY <2>1, <2>2, Pair DEF New, AuthKinds
  <2> QED
    BY <1>a, <1>e, <2>1, <2>2, <2>3, Pair
<1>13. ASSUME OpenChannel PROVE Known
  <2>1. PICK k \in Kinds : Says("client", <<Msg("open", [id |-> lastOpen + 1, kind |-> k])>>)
    BY <1>13, Programs
  <2> DEFINE m == Msg("open", [id |-> lastOpen + 1, kind |-> k])
  <2>2. m \in Message /\ m.kind = "open" /\ m.arg.id = lastOpen + 1
    <3>1. lastOpen + 1 \in Nat
      BY DEF Types
    <3> QED
      BY <3>1, Messages DEF MessageKinds, ArgsOf
  <2>3. New(Other("client"), m)
    BY <1>13, <2>2, Pair DEF New, AuthKinds
  <2> QED
    BY <1>a, <1>e, <2>1, <2>2, <2>3, Pair
<1>14. ASSUME AskSends PROVE Known
  <2> DEFINE m == Msg("ask", [id |-> lastOpen, request |-> chan.request])
  <2>1. net' = net \/ Says("client", <<m>>)
    BY <1>14, Programs
  <2>2. m \in Message /\ m.kind = "ask" /\ m.arg.request = chan.request
    <3>1. lastOpen \in Nat /\ chan.request \in Wishes
      BY DEF Types, ChannelRecord
    <3> QED
      BY <3>1, Messages DEF MessageKinds, ArgsOf
  <2>3. New(Other("client"), m)
    BY <1>14, <2>2, Pair DEF New, AuthKinds
  <2>4. Says("client", <<m>>) => Known
    BY <1>a, <1>e, <2>2, <2>3, Pair
  <2> QED
    BY <1>c, <2>1, <2>4
<1>15. ASSUME \/ \E p \in Ends : StartReturns(p) \/ FallSilent(p)
              \/ LoginReturns \/ OpenReturns \/ OpenTimeout \/ Ask \/ AskReturns
       PROVE  Known
  BY <1>15, <1>c, Programs
<1>16. UNCHANGED vars => Known
  BY <1>c DEF vars
<1>17. Known
  BY <1>1, <1>2, <1>3, <1>4, <1>5, <1>6, <1>7, <1>8, <1>9, <1>10, <1>11, <1>12, <1>13, <1>14, <1>15,
     <1>16, Steps
<1> QED
  BY <1>17 DEF Known

\* A message was on its way before the step, or its sender did what it says.
LEMMA News ==
  ASSUME Types, [Next]_vars
  PROVE  \A q \in Ends : \A i \in 1 .. Len(net'[q]) :
           (\E j \in 1 .. Len(net[q]) : net'[q][i] = net[q][j]) \/ New(q, net'[q][i])
<1> SUFFICES ASSUME NEW q \in Ends, NEW i \in 1 .. Len(net'[q])
             PROVE  (\E j \in 1 .. Len(net[q]) : net'[q][i] = net[q][j]) \/ New(q, net'[q][i])
  OBVIOUS
<1>1. net[q] \in Seq(Message)
  BY DEF Types
<1>2. CASE net'[q] = net[q]
  BY <1>2
<1>3. CASE net'[q] = <<>>
  <2>1. Len(net'[q]) = 0
    BY <1>3
  <2> QED
    BY <2>1
<1>4. CASE net[q] # <<>> /\ net'[q] = Tail(net[q])
  <2>1. /\ Len(Tail(net[q])) = Len(net[q]) - 1 /\ Len(net[q]) \in Nat
        /\ \A j \in 1 .. Len(net[q]) - 1 : Tail(net[q])[j] = net[q][j + 1]
    BY <1>1, <1>4
  <2>2. i \in 1 .. Len(net[q]) - 1 /\ i + 1 \in 1 .. Len(net[q])
    BY <1>4, <2>1
  <2> QED
    BY <1>4, <2>1, <2>2
<1>5. ASSUME NEW msgs \in Seq(Message), net'[q] = net[q] \o msgs,
             \A k \in 1 .. Len(msgs) : New(q, msgs[k])
      PROVE  (\E j \in 1 .. Len(net[q]) : net'[q][i] = net[q][j]) \/ New(q, net'[q][i])
  <2>1. /\ Len(net[q] \o msgs) = Len(net[q]) + Len(msgs) /\ Len(net[q]) \in Nat /\ Len(msgs) \in Nat
        /\ \A j \in 1 .. Len(net[q]) + Len(msgs) :
             (net[q] \o msgs)[j] = IF j <= Len(net[q]) THEN net[q][j] ELSE msgs[j - Len(net[q])]
    BY <1>1
  <2>2. CASE i <= Len(net[q])
    BY <1>5, <2>1, <2>2
  <2>3. CASE i > Len(net[q])
    <3>1. i - Len(net[q]) \in 1 .. Len(msgs) /\ net'[q][i] = msgs[i - Len(net[q])]
      BY <1>5, <2>1, <2>3
    <3> QED
      BY <1>5, <3>1
  <2> QED
    BY <2>1, <2>2, <2>3
<1> QED
  BY <1>2, <1>3, <1>4, <1>5, Queues DEF Arrive

\* The actions that change a variable
LEMMA Frames ==
  ASSUME [Next]_vars
  PROVE  /\ grant' = grant \/ \E p \in Ends : GrantLogin(p) \/ RefuseLogin(p)
         /\ login' = login \/ Login \/ \E p \in Ends : EndRun(p) \/ ParseSuccess(p) \/ ParseFailure(p)
         /\ \/ pc' = pc \/ Login \/ LoginReturns \/ OpenChannel \/ OpenReturns \/ OpenTimeout
            \/ Ask \/ AskSends \/ AskReturns \/ \E p \in Ends : Start(p) \/ StartReturns(p)
         /\ \/ channels' = channels \/ OpenChannel \/ Close
            \/ \E p \in Ends : \/ EndRun(p) \/ ParseDisconnect(p) \/ ParseChannelOpen(p)
                               \/ ParseOpenFailure(p) \/ HandleClose(p)
         /\ opened' = opened \/ \E p \in Ends : ParseOpenSuccess(p)
         /\ \/ events' = events
            \/ \E p \in Ends : EndRun(p) \/ ParseOpenSuccess(p) \/ ParseOpenFailure(p)
         /\ lastOpen' = lastOpen \/ OpenChannel
         /\ accepts' = accepts \/ \E p \in Ends : ParseChannelOpen(p)
         /\ \/ chan' = chan \/ Close \/ OpenChannel \/ Ask \/ AskSends
            \/ \E p \in Ends : \/ EndRun(p) \/ ParseDisconnect(p) \/ RequestSuccess(p)
                               \/ RequestFailed(p) \/ HandleClose(p)
         /\ \/ closed' = closed \/ Close \/ OpenChannel
            \/ \E p \in Ends : \/ EndRun(p) \/ ParseDisconnect(p) \/ ParseChannelOpen(p)
                               \/ RequestFailed(p) \/ HandleClose(p) \/ ActorEnds(p)
         /\ asks' = asks \/ Ask
         /\ shells' = shells \/ \E p \in Ends : HandleRequest(p) \/ ActorEnds(p)
         /\ owed' = owed \/ \E p \in Ends : HandleRequest(p) \/ SendReply(p)
         /\ \/ tr' = tr \/ Close \/ Login
            \/ \E p \in Ends : \/ (Active(p) /\ EndRun(p)) \/ ParseDisconnect(p) \/ RefuseLogin(p) \/ Start(p)
                               \/ CheckBanner(p) \/ NegotiateKeys(p) \/ KexDhInit(p)
                               \/ KexDhReply(p) \/ ParseNewKeys(p)
<1> USE DEF authVars, openVars, shellVars
<1>1. ASSUME NEW p \in Ends, EndRun(p)
      PROVE  UNCHANGED <<grant, pc, opened, lastOpen, accepts, asks, shells, owed>>
  BY <1>1 DEF EndRun
<1>2. ASSUME (\E p \in Ends : ParseDisconnect(p)) \/ Close
      PROVE  UNCHANGED <<grant, login, pc, opened, events, lastOpen, accepts, asks, shells, owed>>
  BY <1>2 DEF ParseDisconnect, Close
<1>3. ASSUME NEW p \in Ends, Start(p) \/ CheckBanner(p) \/ NegotiateKeys(p) \/ KexDhInit(p)
             \/ KexDhReply(p) \/ ParseNewKeys(p) \/ ParseServiceRequest(p) \/ ParseServiceAccept(p)
      PROVE  EndRun(p) \/ UNCHANGED <<grant, login, openVars, shellVars>>
  BY <1>3 DEF Start, CheckBanner, NegotiateKeys, KexDhInit, KexDhReply, ParseNewKeys,
     ParseServiceRequest, ParseServiceAccept
<1>4. ASSUME NEW p \in Ends, CheckBanner(p) \/ NegotiateKeys(p) \/ KexDhInit(p)
             \/ KexDhReply(p) \/ ParseNewKeys(p) \/ ParseServiceRequest(p) \/ ParseServiceAccept(p)
      PROVE  EndRun(p) \/ UNCHANGED pc
  BY <1>4 DEF CheckBanner, NegotiateKeys, KexDhInit, KexDhReply, ParseNewKeys,
     ParseServiceRequest, ParseServiceAccept
<1>5. ASSUME NEW p \in Ends, ParseServiceRequest(p) \/ ParseServiceAccept(p) \/ GrantLogin(p)
             \/ ParseSuccess(p) \/ ParseFailure(p) \/ ParseChannelOpen(p) \/ ParseOpenSuccess(p)
             \/ ParseOpenFailure(p) \/ HandleRequest(p) \/ RequestSuccess(p) \/ RequestFailed(p)
             \/ HandleClose(p) \/ SendReply(p) \/ ActorEnds(p) \/ StartReturns(p) \/ FallSilent(p)
      PROVE  UNCHANGED tr
  BY <1>5 DEF ParseServiceRequest, ParseServiceAccept, GrantLogin, ParseSuccess, ParseFailure,
     ParseChannelOpen, ParseOpenSuccess, ParseOpenFailure, HandleRequest, RequestSuccess,
     RequestFailed, HandleClose, SendReply, ActorEnds, StartReturns, FallSilent
<1>6. ASSUME NEW p \in Ends, GrantLogin(p) \/ RefuseLogin(p)
      PROVE  UNCHANGED <<pc, login, openVars, shellVars>>
  BY <1>6 DEF GrantLogin, RefuseLogin
<1>7. ASSUME NEW p \in Ends, ParseSuccess(p) \/ ParseFailure(p)
      PROVE  UNCHANGED <<pc, grant, openVars, shellVars>>
  BY <1>7 DEF ParseSuccess, ParseFailure
<1>8. ASSUME NEW p \in Ends, ParseChannelOpen(p)
      PROVE  UNCHANGED <<pc, grant, login, opened, events, lastOpen, chan, asks, shells, owed>>
  BY <1>8 DEF ParseChannelOpen
<1>9. ASSUME NEW p \in Ends, ParseOpenSuccess(p)
      PROVE  UNCHANGED <<pc, grant, login, channels, lastOpen, accepts, shellVars>>
  BY <1>9 DEF ParseOpenSuccess
<1>10. ASSUME NEW p \in Ends, ParseOpenFailure(p)
       PROVE  UNCHANGED <<pc, grant, login, opened, lastOpen, accepts, shellVars>>
  BY <1>10 DEF ParseOpenFailure
<1>11. ASSUME NEW p \in Ends, HandleRequest(p)
       PROVE  UNCHANGED <<pc, grant, login, openVars, chan, closed, asks>>
  BY <1>11 DEF HandleRequest
<1>12. ASSUME NEW p \in Ends, SendReply(p)
       PROVE  UNCHANGED <<pc, grant, login, openVars, chan, closed, asks, shells>>
  BY <1>12 DEF SendReply
<1>13. ASSUME NEW p \in Ends, RequestSuccess(p)
       PROVE  UNCHANGED <<pc, grant, login, openVars, closed, asks, shells, owed>>
  BY <1>13 DEF RequestSuccess
<1>14. ASSUME NEW p \in Ends, RequestFailed(p)
       PROVE  UNCHANGED <<pc, grant, login, openVars, asks, shells, owed>>
  BY <1>14 DEF RequestFailed
<1>15. ASSUME NEW p \in Ends, HandleClose(p)
       PROVE  UNCHANGED <<pc, grant, login, opened, events, lastOpen, accepts, asks, shells, owed>>
  BY <1>15 DEF HandleClose
<1>16. ASSUME NEW p \in Ends, ActorEnds(p)
       PROVE  UNCHANGED <<pc, grant, login, openVars, chan, asks, owed>>
  BY <1>16 DEF ActorEnds
<1>17. ASSUME NEW p \in Ends, StartReturns(p)
       PROVE  UNCHANGED <<grant, login, openVars, shellVars>>
  BY <1>17 DEF StartReturns
<1>18. ASSUME (\E p \in Ends : FallSilent(p)) \/ UNCHANGED vars
       PROVE  UNCHANGED <<tr, pc, grant, login, openVars, shellVars>>
  BY <1>18 DEF FallSilent, vars
<1>19. Login => UNCHANGED <<grant, openVars, shellVars>>
  BY DEF Login
<1>20. ASSUME LoginReturns \/ OpenReturns \/ OpenTimeout \/ AskReturns
       PROVE  UNCHANGED <<tr, grant, login, openVars, shellVars>>
  BY <1>20 DEF LoginReturns, OpenReturns, OpenTimeout, AskReturns
<1>21. OpenChannel => UNCHANGED <<tr, grant, login, opened, events, accepts, asks, shells, owed>>
  BY DEF OpenChannel
<1>22. Ask => UNCHANGED <<tr, grant, login, openVars, closed, shells, owed>>
  BY DEF Ask
<1>23. AskSends => UNCHANGED <<tr, grant, login, openVars, closed, asks, shells, owed>>
  BY DEF AskSends
<1> QED
  BY <1>1, <1>2, <1>3, <1>4, <1>5, <1>6, <1>7, <1>8, <1>9, <1>10, <1>11, <1>12, <1>13, <1>14,
     <1>15, <1>16, <1>17, <1>18, <1>19, <1>20, <1>21, <1>22, <1>23, Steps

-----------------------------------------------------------------------------
(* Who knows that a login was granted                                      *)

\* Nothing of what a login opens the way to has happened.
Shut ==
  /\ ~login.authenticated /\ closed["server"]
  /\ pc["client"] \notin {"authed", "opening", "open", "asking", "requesting"}
  /\ \A p \in Ends : ~Has(net[p], {"success", "open"})

Grants == grant.authenticated \/ Shut

\* A message that was not there has been sent in the step.
LEMMA Sent ==
  ASSUME Types, [Next]_vars, NEW q \in Ends, NEW i \in 1 .. Len(net'[q]),
         ~Has(net[q], {net'[q][i].kind})
  PROVE  New(q, net'[q][i])
BY News DEF Has

\* At first nobody has been granted a login, and nothing has come of one.
LEMMA GrantsInit == Init => Grants
<1>1. Len(<<>>) = 0
  OBVIOUS
<1> QED
  BY <1>1, Pair DEF Init, Grants, Shut, Has

\* Nothing comes of a login before the server grants it, and a grant is for good.
LEMMA GrantsStep ==
  ASSUME Types, Grants, [Next]_vars
  PROVE  Grants'
<1>1. CASE grant.authenticated
  <2>1. \A p \in Ends : GrantLogin(p) \/ RefuseLogin(p) => grant'.authenticated
    BY <1>1 DEF GrantLogin, RefuseLogin, Types, GrantRecord
  <2> QED
    BY <1>1, <2>1, Frames DEF Grants
<1>2. CASE ~grant.authenticated /\ ~grant'.authenticated
  <2>0. Shut /\ Types'
    BY <1>2, TypesStep DEF Grants
  <2>1. \A p \in Ends : /\ ~ParseSuccess(p) /\ ~ParseChannelOpen(p)
    BY <2>0, Heads DEF ParseSuccess, ParseChannelOpen, Arrives, Shut, Has
  <2>2. ~OpenChannel /\ ~OpenReturns /\ ~OpenTimeout /\ ~Ask /\ ~AskSends /\ ~AskReturns
    <3>1. ~Ask /\ ~AskSends
      BY <2>0 DEF Ask, AskSends, Shut
    <3> QED
      BY <2>0, <3>1 DEF OpenChannel, OpenReturns, OpenTimeout, AskReturns, Shut
  <2>3. ~login'.authenticated
    <3>1. CASE Login
      BY <3>1 DEF Login
    <3>2. ASSUME NEW p \in Ends, EndRun(p) PROVE ~login'.authenticated
      BY <2>0, <3>2 DEF EndRun, Shut, Types, LoginRecord
    <3>3. ASSUME NEW p \in Ends, ParseFailure(p) PROVE ~login'.authenticated
      BY <2>0, <3>3 DEF ParseFailure, Shut, Types, LoginRecord
    <3> QED
      BY <2>0, <2>1, <3>1, <3>2, <3>3, Frames DEF Shut
  <2>4. pc'["client"] \notin {"authed", "opening", "open", "asking", "requesting"}
    <3>1. CASE Login
      BY <3>1, <2>0, Pair DEF Login, Goto, Types
    <3>2. CASE LoginReturns
      BY <3>2, <2>0, Pair DEF LoginReturns, Goto, Types, Shut
    <3>3. ASSUME NEW p \in Ends, Start(p) \/ StartReturns(p)
          PROVE  pc'["client"] \notin {"authed", "opening", "open", "asking", "requesting"}
      BY <3>3, <2>0, Pair DEF Start, StartReturns, Goto, Types, Shut
    <3> QED
      BY <2>0, <2>2, <3>1, <3>2, <3>3, Frames DEF Shut
  <2>5. closed'["server"]
    <3>1. \A p \in Ends : Unlink(p) \/ SetClosed(p) => closed'["server"]
      BY <2>0, Pair DEF Unlink, SetClosed, Shut, Types
    <3>2. \A p \in Ends : EndRun(p) \/ ParseDisconnect(p) \/ RequestFailed(p) \/ HandleClose(p)
            \/ ActorEnds(p) => closed'["server"]
      BY <2>0, <3>1, Pair DEF EndRun, ParseDisconnect, RequestFailed, HandleClose, ActorEnds, Shut, Types
    <3>3. Close => closed'["server"]
      BY <3>1, Pair DEF Close
    <3> QED
      BY <2>0, <2>1, <2>2, <3>2, <3>3, Frames DEF Shut
  <2>6. ASSUME NEW q \in Ends, NEW i \in 1 .. Len(net'[q]) PROVE net'[q][i].kind \notin {"success", "open"}
    <3>1. CASE net'[q][i].kind \in {"success", "open"}
      <4>1. New(q, net'[q][i])
        BY <2>0, <3>1, Sent DEF Shut, Has
      <4> QED
        BY <1>2, <2>2, <3>1, <4>1 DEF New
    <3> QED
      BY <3>1
  <2> QED
    BY <2>3, <2>4, <2>5, <2>6 DEF Grants, Shut, Has
<1>3. CASE grant'.authenticated
  BY <1>3 DEF Grants
<1> QED
  BY <1>1, <1>2, <1>3

-----------------------------------------------------------------------------
(* Who has an AuthHandler                                                  *)

\* p has its keys, and expects no message of the handshake.
Keyed(p) == tr[p].stage = "packets" /\ tr[p].expected = {}

Handlers ==
  /\ Keyed("server") => tr["server"].handler
  /\ pc["server"] \in {"idle", "starting", "keyed", "failed"}
  /\ \A p \in Ends : Has(net[p], AuthKinds) => tr["client"].handler

\* At first there is no message for an AuthHandler.
LEMMA HandlersInit == Init => Handlers
<1>1. Len(<<>>) = 0
  OBVIOUS
<1> QED
  BY <1>1, Pair DEF Init, Handlers, Keyed, Has, Transport

\* What becomes of the attributes of an end in a step
LEMMA Changes ==
  ASSUME Types, [Next]_vars, NEW p \in Ends
  PROVE  \/ tr'[p] = tr[p]
         \/ Active(p) /\ Leaves(p, TRUE) /\ EndRun(p)
         \/ /\ Active(p) /\ Leaves(p, tr[p].done)
            /\ RefuseLogin(p) \/ ParseDisconnect(p) \/ (p = "client" /\ Close)
         \/ /\ p = "client" /\ Login
            /\ After(p, tr[p].stage, tr[p].expected, tr[p].agreed, tr[p].done, TRUE)
         \/ /\ Start(p)
            /\ After(p, "banner", tr[p].expected, tr[p].agreed, tr[p].done, tr[p].handler)
         \/ /\ CheckBanner(p)
            /\ After(p, "packets", {"kexinit"}, tr[p].agreed, tr[p].done, tr[p].handler)
         \/ /\ NegotiateKeys(p) /\ Agreement(p, Head(net[p]).arg) # <<>>
            /\ After(p, tr[p].stage, IF p = "server" THEN {"dhinit"} ELSE {"dhreply"},
                     <<Head(Agreement(p, Head(net[p]).arg))>>, tr[p].done, tr[p].handler)
         \/ /\ KexDhInit(p) \/ KexDhReply(p)
            /\ After(p, tr[p].stage, {"newkeys"}, tr[p].agreed, tr[p].done, tr[p].handler)
         \/ /\ ParseNewKeys(p)
            /\ After(p, tr[p].stage, {}, tr[p].agreed, TRUE, tr[p].handler \/ p = "server")
<1> DEFINE Change(q) ==
         \/ tr' = tr
         \/ Active(q) /\ Leaves(q, TRUE) /\ EndRun(q)
         \/ /\ Active(q) /\ Leaves(q, tr[q].done)
            /\ RefuseLogin(q) \/ ParseDisconnect(q) \/ (q = "client" /\ Close)
         \/ /\ q = "client" /\ Login
            /\ After(q, tr[q].stage, tr[q].expected, tr[q].agreed, tr[q].done, TRUE)
         \/ /\ Start(q)
            /\ After(q, "banner", tr[q].expected, tr[q].agreed, tr[q].done, tr[q].handler)
         \/ /\ CheckBanner(q)
            /\ After(q, "packets", {"kexinit"}, tr[q].agreed, tr[q].done, tr[q].handler)
         \/ /\ NegotiateKeys(q) /\ Agreement(q, Head(net[q]).arg) # <<>>
            /\ After(q, tr[q].stage, IF q = "server" THEN {"dhinit"} ELSE {"dhreply"},
                     <<Head(Agreement(q, Head(net[q]).arg))>>, tr[q].done, tr[q].handler)
         \/ /\ KexDhInit(q) \/ KexDhReply(q)
            /\ After(q, tr[q].stage, {"newkeys"}, tr[q].agreed, tr[q].done, tr[q].handler)
         \/ /\ ParseNewKeys(q)
            /\ After(q, tr[q].stage, {}, tr[q].agreed, TRUE, tr[q].handler \/ q = "server")
<1>1. \A q \in Ends : (Active(q) /\ EndRun(q)) \/ ParseDisconnect(q) => Change(q)
  BY Leaving DEF ParseDisconnect, Arrives
<1>2. \A q \in Ends : RefuseLogin(q) => Change(q)
  BY Handling DEF RefuseLogin, Arrives
<1>3. Close => Change("client")
  BY Leaving, Pair DEF Close
<1>4. Login => Change("client")
  BY Programs
<1>5. \A q \in Ends : Start(q) => Change(q)
  BY Handshake
<1>6. \A q \in Ends : CheckBanner(q) => Change(q)
  BY Handshake
<1>7. ASSUME NEW q \in Ends, NegotiateKeys(q) PROVE Change(q)
  <2>1. CASE Agreement(q, Head(net[q]).arg) = <<>>
    <3>1. EndRun(q) /\ Active(q)
      BY <1>7, <2>1, Handshake DEF NegotiateKeys, Arrives
    <3> QED
      BY <1>1, <3>1
  <2>2. CASE Agreement(q, Head(net[q]).arg) # <<>>
    BY <1>7, <2>2, Handshake
  <2> QED
    BY <2>1, <2>2
<1>8. \A q \in Ends : KexDhInit(q) \/ KexDhReply(q) => Change(q)
  BY Handshake
<1>9. \A q \in Ends : ParseNewKeys(q) => Change(q)
  BY Handshake
<1> HIDE DEF Change
<1>10. \E q \in Ends : tr' = tr \/ Change(q)
  BY <1>1, <1>2, <1>3, <1>4, <1>5, <1>6, <1>7, <1>8, <1>9, Frames, Pair
<1>11. PICK q \in Ends : tr' = tr \/ Change(q)
  BY <1>10
<1>12. CASE q = p
  BY <1>11, <1>12 DEF Change
<1>13. CASE p = Other(q)
  <2>1. tr'[p] = tr[p]
    BY <1>11, <1>13 DEF Change, Leaves, After
  <2> QED
    BY <2>1
<1> QED
  BY <1>12, <1>13, Pair

\* What an end keeps
LEMMA Kept ==
  ASSUME Types, [Next]_vars, NEW p \in Ends
  PROVE  /\ tr'[p].offer = tr[p].offer
         /\ tr[p].handler => tr'[p].handler
         /\ tr[p].done => tr'[p].done
BY Changes DEF Leaves, After

\* The handler comes before the messages that it handles.
LEMMA HandlersStep ==
  ASSUME Types, Handlers, [Next]_vars
  PROVE  Handlers'
<1>0. "client" \in Ends /\ "server" \in Ends /\ "client" # "server" /\ Types'
  BY Pair, TypesStep
<1>1. Keyed("server")' => tr'["server"].handler
  <2>1. CASE Keyed("server")
    BY <1>0, <2>1, Kept DEF Handlers
  <2>2. CASE ~Keyed("server") /\ tr'["server"].stage = "packets" /\ tr'["server"].expected = {}
    <3>1. \A r : {r} # {}
      OBVIOUS
    <3>2. ParseNewKeys("server") => tr'["server"].handler
      BY <1>0, Handshake DEF After
    <3>3. tr'["server"] # tr["server"]
      BY <2>2 DEF Keyed
    <3>4. ParseNewKeys("server")
      BY <1>0, <2>2, <3>1, <3>3, Changes DEF Leaves, After, Keyed
    <3> QED
      BY <3>2, <3>4
  <2> QED
    BY <2>1, <2>2 DEF Keyed
<1>2. pc'["server"] \in {"idle", "starting", "keyed", "failed"}
  <2>1. \A p \in Ends : Start(p) \/ StartReturns(p) => pc'["server"] \in {"idle", "starting", "keyed", "failed"}
    BY <1>0 DEF Start, StartReturns, Goto, Types, Handlers
  <2>2. ASSUME NEW at, Goto("client", at) PROVE pc'["server"] = pc["server"]
    BY <1>0, <2>2 DEF Goto, Types
  <2>3. Login \/ LoginReturns \/ OpenChannel \/ OpenReturns \/ OpenTimeout \/ Ask \/ AskSends \/ AskReturns
          => pc'["server"] = pc["server"]
    BY <2>2 DEF Login, LoginReturns, OpenChannel, OpenReturns, OpenTimeout, Ask, AskSends, AskReturns
  <2> QED
    BY <2>1, <2>3, Frames DEF Handlers
<1>3. ASSUME NEW q \in Ends, NEW i \in 1 .. Len(net'[q]), net'[q][i].kind \in AuthKinds
      PROVE  tr'["client"].handler
  <2>1. CASE tr["client"].handler
    BY <1>0, <2>1, Kept
  <2>2. CASE \A p \in Ends : ~Has(net[p], AuthKinds)
    <3>1. New(q, net'[q][i])
      BY <1>3, <2>2, Sent DEF Has
    <3> QED
      BY <1>3, <2>2, <3>1, Pair DEF New
  <2> QED
    BY <2>1, <2>2 DEF Handlers
<1> QED
  BY <1>1, <1>2, <1>3 DEF Handlers, Has, Keyed

-----------------------------------------------------------------------------
(* The order of the messages: how far an end has come says which message   *)
(* it handles next and which one it sends next.                            *)

Gone(p) == tr[p].stage = "gone"

Expectations(p) ==
  {{}, {"kexinit"}, {"newkeys"}, IF p = "client" THEN {"dhreply"} ELSE {"dhinit"}}

\* What an end is sent once the keys have been exchanged
Rest(p) ==
  IF p = "client"
    THEN { "accept", "success", "failure", "disconnect", "opened", "refused", "granted",
           "denied", "close" }
    ELSE {"service", "request", "open", "ask", "close"}

\* The kinds of the n-th message that p is sent
Turn(p, n) ==
  IF n = 0 THEN {"banner"}
  ELSE IF n = 1 THEN {"kexinit"}
  ELSE IF n = 2 THEN {IF p = "client" THEN "dhreply" ELSE "dhinit"}
  ELSE IF n = 3 THEN {"newkeys"}
  ELSE Rest(p)

\* How many messages of the handshake the end e has handled
At(e) ==
  IF e.stage \in {"idle", "banner"} THEN 0
  ELSE IF e.expected = {"kexinit"} THEN 1
  ELSE IF e.expected = {"newkeys"} THEN 3
  ELSE IF e.expected = {} THEN 4 ELSE 2

\* How many it has sent
Said(e) ==
  IF e.stage = "idle" THEN 0
  ELSE IF e.stage = "banner" THEN 1
  ELSE IF e.expected \in {{"kexinit"}, {"dhinit"}} THEN 2
  ELSE IF e.expected = {"dhreply"} THEN 3 ELSE 4

\* s is what p handles next; its sender has sent that many messages, if it is
\* still there.
Line(p, s, at, said, live) ==
  /\ \A i \in 1 .. Len(s) : s[i].kind \in Turn(p, at + i - 1)
  /\ live => /\ said < 4 => at + Len(s) = said
             /\ said >= 4 => at + Len(s) >= 4

\* One more message of the handshake, if it is not over
More(n, k) == IF n + k < 4 THEN n + k ELSE 4

\* What a position on the line is, for each end
LEMMA Positions ==
  /\ \A e : At(e) \in 0 .. 4 /\ Said(e) \in 0 .. 4
  /\ \A n \in 0 .. 4, k \in Nat : More(n, k) \in 0 .. 4 /\ More(n, 0) = n
BY DEF At, Said, More

\* The first message is handled.
LEMMA LineTaken ==
  ASSUME NEW p \in Ends, NEW s \in Seq(Message), s # <<>>, NEW at \in 0 .. 4,
         NEW said \in 0 .. 4, NEW live \in BOOLEAN, Line(p, s, at, said, live)
  PROVE  Line(p, Tail(s), More(at, 1), said, live)
<1>1. /\ Len(s) \in Nat /\ Len(s) >= 1 /\ Len(Tail(s)) = Len(s) - 1
      /\ \A i \in 1 .. Len(s) - 1 : Tail(s)[i] = s[i + 1]
  OBVIOUS
<1>2. ASSUME NEW i \in 1 .. Len(Tail(s)) PROVE Tail(s)[i].kind \in Turn(p, More(at, 1) + i - 1)
  <2>1. i \in Nat /\ i >= 1 /\ i + 1 \in 1 .. Len(s) /\ Tail(s)[i] = s[i + 1]
    BY <1>1
  <2>2. s[i + 1].kind \in Turn(p, at + (i + 1) - 1)
    BY <2>1 DEF Line
  <2>3. Turn(p, at + (i + 1) - 1) = Turn(p, More(at, 1) + i - 1)
    BY <2>1 DEF More, Turn
  <2> QED
    BY <2>1, <2>2, <2>3
<1>3. live => /\ said < 4 => More(at, 1) + Len(Tail(s)) = said
              /\ said >= 4 => More(at, 1) + Len(Tail(s)) >= 4
  BY <1>1 DEF Line, More
<1> QED
  BY <1>2, <1>3 DEF Line

\* Its sender sends more.
LEMMA LineGiven ==
  ASSUME NEW p \in Ends, NEW s \in Seq(Message), NEW msgs \in Seq(Message), NEW at \in 0 .. 4,
         NEW said \in 0 .. 4, Line(p, s, at, said, TRUE),
         \A k \in 1 .. Len(msgs) : msgs[k].kind \in Turn(p, said + k - 1)
  PROVE  Line(p, s \o msgs, at, More(said, Len(msgs)), TRUE)
<1>1. /\ Len(s) \in Nat /\ Len(msgs) \in Nat /\ Len(s \o msgs) = Len(s) + Len(msgs)
      /\ \A i \in 1 .. Len(s) + Len(msgs) :
           (s \o msgs)[i] = IF i <= Len(s) THEN s[i] ELSE msgs[i - Len(s)]
  OBVIOUS
<1>2. ASSUME NEW i \in 1 .. Len(s \o msgs) PROVE (s \o msgs)[i].kind \in Turn(p, at + i - 1)
  <2>1. CASE i <= Len(s)
    BY <1>1, <2>1 DEF Line
  <2>2. CASE i > Len(s)
    <3>1. i \in Nat /\ i - Len(s) \in 1 .. Len(msgs) /\ (s \o msgs)[i] = msgs[i - Len(s)]
      BY <1>1, <2>2
    <3>2. msgs[i - Len(s)].kind \in Turn(p, said + (i - Len(s)) - 1)
      BY <3>1
    <3>3. /\ said < 4 => at + Len(s) = said
          /\ said >= 4 => at + Len(s) >= 4
      BY DEF Line
    <3>4. CASE said < 4
      <4>1. said + (i - Len(s)) - 1 = at + i - 1
        BY <1>1, <3>1, <3>3, <3>4
      <4> QED
        BY <3>1, <3>2, <4>1
    <3>5. CASE said >= 4
      <4>1. said + (i - Len(s)) - 1 >= 4 /\ at + i - 1 >= 4
        BY <1>1, <3>1, <3>3, <3>5
      <4>2. \A n \in Int : n >= 4 => Turn(p, n) = Rest(p)
        BY DEF Turn
      <4>3. said + (i - Len(s)) - 1 \in Int /\ at + i - 1 \in Int
        BY <1>1, <3>1
      <4> QED
        BY <3>1, <3>2, <4>1, <4>2, <4>3
    <3> QED
      BY <3>4, <3>5
  <2> QED
    BY <1>1, <2>1, <2>2
<1>3. /\ More(said, Len(msgs)) < 4 => at + Len(s \o msgs) = More(said, Len(msgs))
      /\ More(said, Len(msgs)) >= 4 => at + Len(s \o msgs) >= 4
  BY <1>1 DEF Line, More
<1> QED
  BY <1>2, <1>3 DEF Line

\* Its sender has gone.
LEMMA LineLeft ==
  ASSUME NEW p, NEW s, NEW at, NEW said, NEW live, Line(p, s, at, said, live), NEW other
  PROVE  Line(p, s, at, other, FALSE)
BY DEF Line
\* An end and its program go through the handshake together.
Phase(p) ==
  /\ tr[p].expected \in Expectations(p)
  /\ tr[p].stage \in {"idle", "banner"} => ~tr[p].done /\ tr[p].expected = {}
  /\ pc[p] = "idle" <=> tr[p].stage = "idle"
  /\ Active(p) /\ tr[p].done => Keyed(p)
  /\ pc[p] \notin {"idle", "starting", "failed"} /\ Active(p) => tr[p].done

\* The server has a reply to send, or an open channel, only with its keys.
Serving ==
  /\ owed # "nothing" => Keyed("server") \/ Gone("server")
  /\ ~closed["server"] => Keyed("server")

Lines ==
  \A p \in Ends : ~Gone(p) => Line(p, net[p], At(tr[p]), Said(tr[Other(p)]), ~Gone(Other(p)))

Order == Lines /\ Serving /\ \A p \in Ends : Phase(p)

\* At first both ends are idle and nothing is on its way.
LEMMA OrderInit == Init => Order
<1> SUFFICES ASSUME Init PROVE Order
  OBVIOUS
<1>1. Len(<<>>) = 0
  OBVIOUS
<1>2. \A p \in Ends : tr[p].stage = "idle" /\ tr[p].expected = {} /\ ~tr[p].done
  BY DEF Init, Transport
<1>3. \A p \in Ends : net[p] = <<>> /\ pc[p] = "idle" /\ closed[p] /\ owed = "nothing"
  BY DEF Init
<1>4. \A p \in Ends : Phase(p)
  BY <1>2, <1>3 DEF Phase, Expectations, Active
<1>5. Serving
  BY <1>3, Pair DEF Serving
<1>6. ASSUME NEW p \in Ends
      PROVE  Line(p, net[p], At(tr[p]), Said(tr[Other(p)]), ~Gone(Other(p)))
  <2>1. Other(p) \in Ends
    BY Pair
  <2>2. At(tr[p]) = 0 /\ Said(tr[Other(p)]) = 0 /\ Len(net[p]) = 0
    BY <1>1, <1>2, <1>3, <2>1 DEF At, Said
  <2> QED
    BY <2>2 DEF Line
<1> QED
  BY <1>4, <1>5, <1>6 DEF Order, Lines

\* Where an end is when it handles a message
LEMMA Heading ==
  ASSUME Types, Order, NEW p \in Ends, Active(p), net[p] # <<>>, NEW kind, Head(net[p]).kind = kind
  PROVE  /\ kind \in Turn(p, At(tr[p]))
         /\ kind = "banner" => tr[p].stage = "banner" /\ tr[p].expected = {} /\ At(tr[p]) = 0 /\ Said(tr[p]) = 1
         /\ kind = "kexinit" => /\ tr[p].stage = "packets" /\ tr[p].expected = {"kexinit"}
                                /\ At(tr[p]) = 1 /\ Said(tr[p]) = 2
         /\ kind = "dhinit" => /\ p = "server" /\ tr[p].stage = "packets" /\ tr[p].expected = {"dhinit"}
                               /\ At(tr[p]) = 2 /\ Said(tr[p]) = 2
         /\ kind = "dhreply" => /\ p = "client" /\ tr[p].stage = "packets" /\ tr[p].expected = {"dhreply"}
                                /\ At(tr[p]) = 2 /\ Said(tr[p]) = 3
         /\ kind = "newkeys" => /\ tr[p].stage = "packets" /\ tr[p].expected = {"newkeys"}
                                /\ At(tr[p]) = 3 /\ Said(tr[p]) = 4
         /\ kind \notin HandshakeKinds => /\ kind \in Rest(p) /\ Keyed(p)
                                          /\ At(tr[p]) = 4 /\ Said(tr[p]) = 4
<1>1. /\ Line(p, net[p], At(tr[p]), Said(tr[Other(p)]), ~Gone(Other(p)))
      /\ At(tr[p]) \in 0 .. 4
  BY Positions DEF Order, Lines, Active, Gone
<1>2. Head(net[p]) = net[p][1] /\ 1 \in 1 .. Len(net[p])
  BY Heads
<1>3. kind \in Turn(p, At(tr[p]))
  <2>1. At(tr[p]) + 1 - 1 = At(tr[p])
    BY <1>1
  <2>2. net[p][1].kind \in Turn(p, At(tr[p]) + 1 - 1)
    BY <1>1, <1>2 DEF Line
  <2> QED
    BY <1>2, <2>1, <2>2
<1>4. /\ tr[p].expected \in Expectations(p)
      /\ tr[p].stage \in {"banner", "packets"}
      /\ tr[p].stage = "banner" => tr[p].expected = {}
  BY DEF Order, Phase, Active
<1>5. CASE tr[p].stage = "banner"
  <2>1. At(tr[p]) = 0 /\ Said(tr[p]) = 1
    BY <1>5 DEF At, Said
  <2>2. kind = "banner"
    BY <1>3, <2>1 DEF Turn
  <2> QED
    BY <1>3, <1>4, <1>5, <2>1, <2>2 DEF HandshakeKinds
<1>6. CASE tr[p].stage = "packets" /\ tr[p].expected = {"kexinit"}
  <2>1. At(tr[p]) = 1 /\ Said(tr[p]) = 2
    BY <1>6 DEF At, Said
  <2>2. kind = "kexinit"
    BY <1>3, <2>1 DEF Turn
  <2> QED
    BY <1>3, <1>6, <2>1, <2>2 DEF HandshakeKinds
<1>7. CASE tr[p].stage = "packets" /\ tr[p].expected = {"newkeys"}
  <2>1. {"newkeys"} # {"kexinit"} /\ {"newkeys"} # {"dhinit"} /\ {"newkeys"} # {"dhreply"}
    OBVIOUS
  <2>2. At(tr[p]) = 3 /\ Said(tr[p]) = 4
    BY <1>7, <2>1 DEF At, Said
  <2>3. kind = "newkeys"
    BY <1>3, <2>2 DEF Turn
  <2> QED
    BY <1>3, <1>7, <2>2, <2>3 DEF HandshakeKinds
<1>8. CASE tr[p].stage = "packets" /\ tr[p].expected = {}
  <2>1. \A r : {r} # {}
    OBVIOUS
  <2>2. At(tr[p]) = 4 /\ Said(tr[p]) = 4
    BY <1>8, <2>1 DEF At, Said
  <2>3. kind \in Rest(p) /\ kind \notin HandshakeKinds
    BY <1>3, <2>2 DEF Turn, Rest, HandshakeKinds
  <2> QED
    BY <1>3, <1>8, <2>2, <2>3 DEF HandshakeKinds, Keyed
<1>9. CASE /\ tr[p].stage = "packets"
           /\ tr[p].expected = IF p = "client" THEN {"dhreply"} ELSE {"dhinit"}
  <2>1. /\ {"dhreply"} # {"kexinit"} /\ {"dhreply"} # {"newkeys"} /\ {"dhreply"} # {"dhinit"}
        /\ {"dhinit"} # {"kexinit"} /\ {"dhinit"} # {"newkeys"} /\ \A r : {r} # {}
    OBVIOUS
  <2>2. At(tr[p]) = 2 /\ Said(tr[p]) = IF p = "client" THEN 3 ELSE 2
    BY <1>9, <2>1 DEF At, Said
  <2>3. kind = IF p = "client" THEN "dhreply" ELSE "dhinit"
    BY <1>3, <2>2 DEF Turn
  <2> QED
    BY <1>3, <1>9, <2>2, <2>3, Pair DEF HandshakeKinds, Ends
<1> QED
  BY <1>4, <1>5, <1>6, <1>7, <1>8, <1>9 DEF Expectations
\* Where the program of an end goes in a step
LEMMA Progress ==
  ASSUME Types, [Next]_vars, NEW p \in Ends
  PROVE  \/ pc'[p] = pc[p]
         \/ Start(p) /\ pc[p] = "idle" /\ pc'[p] = "starting"
         \/ /\ tr' = tr /\ pc[p] = "starting"
            /\ pc'[p] = "failed" \/ (pc'[p] = "keyed" /\ Active(p) /\ tr[p].done)
         \/ /\ pc[p] \notin {"idle", "starting", "failed"}
            /\ pc'[p] \notin {"idle", "starting"}
<1>0. "client" \in Ends /\ pc \in [Ends -> Places]
  BY Pair DEF Types
<1>1. \A q \in Ends : \A at : Goto(q, at) => pc'[p] = IF q = p THEN at ELSE pc[p]
  BY <1>0 DEF Goto
<1>2. ASSUME \/ Login \/ LoginReturns \/ OpenChannel \/ OpenReturns \/ OpenTimeout
             \/ Ask \/ AskSends \/ AskReturns
      PROVE  \/ pc'[p] = pc[p]
             \/ /\ pc[p] \notin {"idle", "starting", "failed"}
                /\ pc'[p] \notin {"idle", "starting"}
  <2>1. CASE Login \/ OpenChannel \/ OpenTimeout
    BY <1>0, <1>1, <2>1 DEF Login, OpenChannel, OpenTimeout
  <2>2. CASE LoginReturns
    BY <1>0, <1>1, <2>2 DEF LoginReturns
  <2>3. CASE OpenReturns
    BY <1>0, <1>1, <2>3 DEF OpenReturns
  <2>4. CASE Ask \/ AskSends \/ AskReturns
    BY <1>0, <1>1, <2>4 DEF Ask, AskSends, AskReturns
  <2> QED
    BY <1>2, <2>1, <2>2, <2>3, <2>4
<1>3. ASSUME NEW q \in Ends, Start(q)
      PROVE  pc'[p] = pc[p] \/ (Start(p) /\ pc[p] = "idle" /\ pc'[p] = "starting")
  <2>1. CASE q = p
    <3>1. Start(p)
      BY <1>3, <2>1
    <3> QED
      BY <1>1, <3>1 DEF Start
  <2>2. CASE q # p
    BY <1>1, <1>3, <2>2 DEF Start
  <2> QED
    BY <2>1, <2>2
<1>4. ASSUME NEW q \in Ends, StartReturns(q)
      PROVE  \/ pc'[p] = pc[p]
             \/ /\ tr' = tr /\ pc[p] = "starting"
                /\ pc'[p] = "failed" \/ (pc'[p] = "keyed" /\ Active(p) /\ tr[p].done)
  BY <1>1, <1>4 DEF StartReturns
<1> QED
  BY <1>2, <1>3, <1>4, Frames

\* An end and its program stay in step.
LEMMA PhaseStep ==
  ASSUME Types, Order, [Next]_vars, NEW p \in Ends
  PROVE  Phase(p)'
<1>0. /\ Phase(p)
      /\ \A r : {r} # {}
  BY DEF Order
<1>1. CASE tr'[p] = tr[p]
  <2>1. ~Start(p)
    BY <1>0, <1>1, Handshake DEF Start, Phase, After
  <2>2. /\ tr'[p].expected \in Expectations(p)
        /\ tr'[p].stage \in {"idle", "banner"} => ~tr'[p].done /\ tr'[p].expected = {}
        /\ tr'[p].stage \in {"banner", "packets"} /\ tr'[p].done => tr'[p].stage = "packets" /\ tr'[p].expected = {}
    BY <1>0, <1>1 DEF Phase, Active, Keyed
  <2>3. pc'[p] = "idle" <=> tr'[p].stage = "idle"
    BY <1>0, <1>1, <2>1, Progress DEF Phase
  <2>4. pc'[p] \notin {"idle", "starting", "failed"} /\ tr'[p].stage \in {"banner", "packets"} => tr'[p].done
    BY <1>0, <1>1, <2>1, Progress DEF Phase, Active
  <2> QED
    BY <2>2, <2>3, <2>4 DEF Phase, Active, Keyed, Expectations
<1>2. CASE Active(p) /\ \E done : Leaves(p, done)
  <2>1. tr'[p].stage = "gone" /\ tr'[p].expected = tr[p].expected /\ tr[p].stage # "idle"
    BY <1>2 DEF Leaves, After, Active
  <2>2. ~Start(p)
    BY <1>0, <2>1 DEF Start, Phase
  <2>3. pc'[p] # "idle"
    BY <1>0, <2>1, <2>2, Progress DEF Phase
  <2> QED
    BY <1>0, <2>1, <2>3 DEF Phase, Active, Expectations
<1>3. CASE /\ p = "client" /\ Login
           /\ After(p, tr[p].stage, tr[p].expected, tr[p].agreed, tr[p].done, TRUE)
  <2>1. /\ tr'[p].stage = tr[p].stage /\ tr'[p].expected = tr[p].expected /\ tr'[p].done = tr[p].done
        /\ pc[p] = "keyed" /\ pc'[p] = "authenticating"
    BY <1>3 DEF Login, Goto, Types, After
  <2> QED
    BY <1>0, <2>1 DEF Phase, Active, Keyed, Expectations
<1>4. CASE Start(p) /\ After(p, "banner", tr[p].expected, tr[p].agreed, tr[p].done, tr[p].handler)
  <2>1. /\ tr'[p].stage = "banner" /\ tr'[p].expected = tr[p].expected /\ tr'[p].done = tr[p].done
        /\ pc[p] = "idle" /\ pc'[p] = "starting"
    BY <1>4 DEF Start, Goto, Types, After
  <2> QED
    BY <1>0, <2>1 DEF Phase, Active, Keyed, Expectations
<1>5. ASSUME Active(p), tr'[p].stage = "packets", tr'[p].expected \in Expectations(p),
             tr'[p].done => tr'[p].expected = {}, tr[p].done => tr'[p].done,
             ~Start(p)
      PROVE  Phase(p)'
  <2>1. tr[p].stage # "idle"
    BY <1>5 DEF Active
  <2>2. pc'[p] # "idle"
    BY <1>0, <1>5, <2>1, Progress DEF Phase
  <2>3. pc'[p] \notin {"idle", "starting", "failed"} => tr'[p].done
    BY <1>0, <1>5, <2>1, Progress DEF Phase
  <2> QED
    BY <1>5, <2>2, <2>3 DEF Phase, Active, Keyed, Expectations
<1>6. ASSUME Active(p) PROVE ~Start(p)
  BY <1>0, <1>6 DEF Start, Phase, Active
<1>7. CASE CheckBanner(p) /\ After(p, "packets", {"kexinit"}, tr[p].agreed, tr[p].done, tr[p].handler)
  <2>1. Active(p) /\ tr[p].stage = "banner"
    BY <1>7, Heading DEF CheckBanner, Arrives
  <2>2. ~tr'[p].done
    BY <1>0, <1>7, <2>1 DEF Phase, After
  <2> QED
    BY <1>0, <1>5, <1>6, <1>7, <2>1, <2>2 DEF After, Expectations, Phase
<1>8. CASE /\ NegotiateKeys(p) /\ Agreement(p, Head(net[p]).arg) # <<>>
           /\ After(p, tr[p].stage, IF p = "server" THEN {"dhinit"} ELSE {"dhreply"},
                    <<Head(Agreement(p, Head(net[p]).arg))>>, tr[p].done, tr[p].handler)
  <2>1. Active(p) /\ tr[p].stage = "packets" /\ tr[p].expected = {"kexinit"}
    BY <1>8, Heading DEF NegotiateKeys, Arrives
  <2>2. ~tr[p].done /\ ~tr'[p].done
    BY <1>0, <1>8, <2>1 DEF Phase, Keyed, After
  <2>3. tr'[p].expected \in Expectations(p)
    BY <1>8, Pair DEF After, Expectations, Ends
  <2> QED
    BY <1>5, <1>6, <1>8, <2>1, <2>2, <2>3 DEF After
<1>9. CASE /\ KexDhInit(p) \/ KexDhReply(p)
           /\ After(p, tr[p].stage, {"newkeys"}, tr[p].agreed, tr[p].done, tr[p].handler)
  <2>1. /\ Active(p) /\ tr[p].stage = "packets"
        /\ tr[p].expected = {"dhinit"} \/ tr[p].expected = {"dhreply"}
    BY <1>9, Heading DEF KexDhInit, KexDhReply, Arrives
  <2>2. ~tr[p].done /\ ~tr'[p].done
    BY <1>0, <1>9, <2>1 DEF Phase, Keyed, After
  <2> QED
    BY <1>5, <1>6, <1>9, <2>1, <2>2 DEF After, Expectations
<1>10. CASE /\ ParseNewKeys(p)
            /\ After(p, tr[p].stage, {}, tr[p].agreed, TRUE, tr[p].handler \/ p = "server")
  <2>1. Active(p) /\ tr[p].stage = "packets"
    BY <1>10, Heading DEF ParseNewKeys, Arrives
  <2> QED
    BY <1>5, <1>6, <1>10, <2>1 DEF After, Expectations
<1> QED
  BY <1>1, <1>2, <1>3, <1>4, <1>7, <1>8, <1>9, <1>10, Changes
\* An end that has gone stays away.
LEMMA GoneStays ==
  ASSUME Types, Order, [Next]_vars, NEW p \in Ends, Gone(p)
  PROVE  tr'[p] = tr[p]
<1>1. ~Active(p) /\ ~Start(p)
  BY DEF Gone, Active, Start, Order, Phase
<1>2. ~CheckBanner(p) /\ ~NegotiateKeys(p) /\ ~KexDhInit(p) /\ ~KexDhReply(p) /\ ~ParseNewKeys(p)
  BY <1>1 DEF CheckBanner, NegotiateKeys, KexDhInit, KexDhReply, ParseNewKeys, Arrives
<1>3. Login => p # "client"
  BY <1>1 DEF Login
<1> QED
  BY <1>1, <1>2, <1>3, Changes

\* An end that has its keys keeps them until it leaves.
LEMMA KeyedStays ==
  ASSUME Types, Order, [Next]_vars, NEW p \in Ends, Keyed(p)
  PROVE  \/ tr'[p].stage = "packets" /\ tr'[p].expected = {}
         \/ EndRun(p) \/ RefuseLogin(p) \/ ParseDisconnect(p) \/ (p = "client" /\ Close)
<1>0. tr[p].stage = "packets" /\ tr[p].expected = {} /\ \A r : {r} # {}
  BY DEF Keyed
<1>1. ~Start(p)
  BY <1>0 DEF Start, Order, Phase
<1>2. ~CheckBanner(p) /\ ~NegotiateKeys(p) /\ ~KexDhInit(p) /\ ~KexDhReply(p)
  BY <1>0, Heading DEF CheckBanner, NegotiateKeys, KexDhInit, KexDhReply, Arrives
<1> QED
  BY <1>0, <1>1, <1>2, Changes DEF After

\* The server does not serve before it has its keys.
LEMMA ServingStep ==
  ASSUME Types, Grants, Order, [Next]_vars
  PROVE  Serving'
<1>0. "client" \in Ends /\ "server" \in Ends /\ "client" # "server" /\ closed \in [Ends -> BOOLEAN]
  BY Pair DEF Types
<1>1. CASE Keyed("server") /\ tr'["server"].stage = "packets" /\ tr'["server"].expected = {}
  BY <1>1 DEF Serving, Keyed
<1>2. CASE /\ Keyed("server")
           /\ EndRun("server") \/ RefuseLogin("server") \/ ParseDisconnect("server")
  <2>1. tr'["server"].stage = "gone"  \/ (tr'["server"].stage = "packets" /\ tr'["server"].expected = {})
    <3>1. RefuseLogin("server") => tr'["server"].stage = "gone" \/ tr'["server"] = tr["server"]
      BY <1>0, Handling DEF Leaves, After
    <3>2. EndRun("server") \/ ParseDisconnect("server") => tr'["server"].stage = "gone"
      BY <1>0, Leaving DEF Leaves, After
    <3> QED
      BY <1>2, <3>1, <3>2 DEF Keyed
  <2>2. closed'["server"] \/ (tr'["server"].stage = "packets" /\ tr'["server"].expected = {})
    <3>1. Unlink("server") => closed'["server"]
      BY <1>0 DEF Unlink, SetClosed
    <3>2. EndRun("server") \/ ParseDisconnect("server") => closed'["server"]
      BY <3>1 DEF EndRun, ParseDisconnect
    <3>3. RefuseLogin("server") => closed' = closed /\ closed["server"]
      BY DEF RefuseLogin, shellVars, Grants, Shut
    <3> QED
      BY <1>2, <3>2, <3>3
  <2> QED
    BY <2>1, <2>2 DEF Serving, Keyed, Gone
<1>3. CASE ~Keyed("server")
  <2>1. closed["server"] /\ (owed # "nothing" => Gone("server"))
    BY <1>3 DEF Order, Serving
  <2>2. ASSUME NEW p \in Ends, ParseChannelOpen(p) \/ HandleRequest(p) PROVE FALSE
    <3>1. Active(p) /\ net[p] # <<>> /\ Head(net[p]).kind \in {"open", "ask"}
      BY <2>2 DEF ParseChannelOpen, HandleRequest, Arrives
    <3>2. Keyed(p) /\ Head(net[p]).kind \in Rest(p)
      BY <3>1, Heading DEF HandshakeKinds
    <3>3. p = "server"
      BY <3>1, <3>2 DEF Rest, Ends
    <3> QED
      BY <1>3, <3>2, <3>3
  <2>3. closed'["server"]
    <3>1. \A p \in Ends : Unlink(p) \/ SetClosed(p) => closed'["server"]
      BY <1>0, <2>1 DEF Unlink, SetClosed
    <3>2. \A p \in Ends : EndRun(p) \/ ParseDisconnect(p) \/ RequestFailed(p) \/ HandleClose(p)
            \/ ActorEnds(p) => closed'["server"]
      BY <1>0, <2>1, <3>1 DEF EndRun, ParseDisconnect, RequestFailed, HandleClose, ActorEnds
    <3>3. Close \/ OpenChannel => closed'["server"]
      BY <1>0, <2>1, <3>1 DEF Close, OpenChannel
    <3> QED
      BY <2>1, <2>2, <3>2, <3>3, Frames
  <2>4. owed' # "nothing" => Gone("server")
    <3>1. \A p \in Ends : SendReply(p) => owed' = "nothing"
      BY DEF SendReply
    <3> QED
      BY <2>1, <2>2, <3>1, Frames
  <2>5. Gone("server") => tr'["server"].stage = "gone"
    BY <1>0, GoneStays DEF Gone
  <2> QED
    BY <2>3, <2>4, <2>5 DEF Serving, Gone
<1> QED
  BY <1>0, <1>1, <1>2, <1>3, KeyedStays
\* p handles a message or none, and sends some in their turn.
LEMMA Turns ==
  ASSUME Types, Order, NEW p \in Ends, NEW taken \in BOOLEAN, NEW msgs \in Seq(Message),
         Moved(p, taken, msgs), taken => net[p] # <<>>, ~Gone(p),
         tr'[Other(p)] = tr[Other(p)],
         \A k \in 1 .. Len(msgs) : msgs[k].kind \in Turn(Other(p), Said(tr[p]) + k - 1),
         \/ tr'[p].stage = "gone"
         \/ /\ tr'[p].stage # "gone"
            /\ At(tr'[p]) = IF taken THEN More(At(tr[p]), 1) ELSE At(tr[p])
            /\ Said(tr'[p]) = More(Said(tr[p]), Len(msgs))
  PROVE  Lines'
<1>0. /\ Other(p) \in Ends /\ Other(p) # p /\ Other(Other(p)) = p
      /\ net[p] \in Seq(Message) /\ net[Other(p)] \in Seq(Message)
      /\ At(tr[p]) \in 0 .. 4 /\ Said(tr[p]) \in 0 .. 4
      /\ At(tr[Other(p)]) \in 0 .. 4 /\ Said(tr[Other(p)]) \in 0 .. 4
  BY Pair, Positions DEF Types
<1>1. ASSUME tr'[p].stage # "gone"
      PROVE  Line(p, net'[p], At(tr'[p]), Said(tr'[Other(p)]), tr'[Other(p)].stage # "gone")
  <2>1. PICK live \in BOOLEAN : live = ~Gone(Other(p))
    OBVIOUS
  <2>2. live = (tr'[Other(p)].stage # "gone")
    BY <2>1 DEF Gone
  <2>3. Line(p, net[p], At(tr[p]), Said(tr[Other(p)]), live)
    BY <2>1 DEF Order, Lines
  <2>4. CASE taken
    <3>1. Line(p, Tail(net[p]), More(At(tr[p]), 1), Said(tr[Other(p)]), live)
      BY <1>0, <2>3, <2>4, LineTaken
    <3> QED
      BY <1>1, <2>2, <2>4, <3>1 DEF Moved
  <2>5. CASE ~taken
    BY <1>1, <2>2, <2>3, <2>5 DEF Moved
  <2> QED
    BY <2>4, <2>5
<1>2. ASSUME ~Gone(Other(p))
      PROVE  Line(Other(p), net'[Other(p)], At(tr'[Other(p)]), Said(tr'[p]), tr'[p].stage # "gone")
  <2>1. net'[Other(p)] = net[Other(p)] \o msgs
    BY <1>2 DEF Moved, Gone
  <2>2. Line(Other(p), net[Other(p)], At(tr[Other(p)]), Said(tr[p]), TRUE)
    <3>1. Line(Other(p), net[Other(p)], At(tr[Other(p)]), Said(tr[p]), ~Gone(p))
      BY <1>0, <1>2 DEF Order, Lines
    <3> QED
      BY <3>1
  <2>3. Line(Other(p), net'[Other(p)], At(tr'[Other(p)]), More(Said(tr[p]), Len(msgs)), TRUE)
    BY <1>0, <2>1, <2>2, LineGiven
  <2>4. CASE tr'[p].stage = "gone"
    <3>1. Line(Other(p), net'[Other(p)], At(tr'[Other(p)]), Said(tr'[p]), FALSE)
      BY <2>3, LineLeft
    <3> QED
      BY <2>4, <3>1
  <2>5. CASE tr'[p].stage # "gone"
    BY <2>3, <2>5
  <2> QED
    BY <2>4, <2>5
<1>3. ASSUME NEW q \in Ends, tr'[q].stage # "gone"
      PROVE  Line(q, net'[q], At(tr'[q]), Said(tr'[Other(q)]), tr'[Other(q)].stage # "gone")
  <2>1. CASE q = p
    BY <1>1, <1>3, <2>1
  <2>2. CASE q = Other(p)
    <3>1. ~Gone(Other(p))
      BY <1>3, <2>2 DEF Gone
    <3> QED
      BY <1>0, <1>2, <2>2, <3>1
  <2> QED
    BY <2>1, <2>2, Pair
<1> QED
  BY <1>3 DEF Lines, Gone

\* p has its keys: what it handles and what it sends is in turn.
LEMMA LaterTurns ==
  ASSUME Types, Order, NEW p \in Ends, Keyed(p), NEW taken \in BOOLEAN, NEW msgs \in Seq(Message),
         Moved(p, taken, msgs), taken => net[p] # <<>>,
         tr' = tr \/ (\E done : Leaves(p, done))
                  \/ After(p, tr[p].stage, tr[p].expected, tr[p].agreed, tr[p].done, TRUE),
         \A k \in 1 .. Len(msgs) : msgs[k].kind \in Rest(Other(p))
  PROVE  Lines'
<1>0. /\ tr[p].stage = "packets" /\ tr[p].expected = {} /\ \A r : {r} # {}
      /\ Other(p) \in Ends
  BY Pair DEF Keyed
<1>1. At(tr[p]) = 4 /\ Said(tr[p]) = 4 /\ ~Gone(p)
  BY <1>0 DEF At, Said, Gone
<1>2. ASSUME NEW k \in 1 .. Len(msgs) PROVE msgs[k].kind \in Turn(Other(p), Said(tr[p]) + k - 1)
  BY <1>1, <1>2 DEF Turn
<1>3. More(4, Len(msgs)) = 4 /\ More(4, 1) = 4
  BY DEF More
<1>4. /\ tr'[Other(p)] = tr[Other(p)]
      /\ tr'[p].stage = "gone" \/ (tr'[p].stage = "packets" /\ tr'[p].expected = {})
  BY <1>0 DEF Leaves, After
<1>5. tr'[p].stage = "packets" /\ tr'[p].expected = {} => At(tr'[p]) = 4 /\ Said(tr'[p]) = 4
  BY <1>0 DEF At, Said
<1> QED
  BY <1>1, <1>2, <1>3, <1>4, <1>5, Turns
\* What was on its way to an end that leaves is lost.
LEMMA LinesLeft ==
  ASSUME Types, Order, NEW p \in Ends, NEW done, Leaves(p, done), Cleared(p)
  PROVE  Lines'
<1>1. /\ tr'[p].stage = "gone" /\ tr'[Other(p)] = tr[Other(p)]
      /\ net'[Other(p)] = net[Other(p)] /\ Other(p) \in Ends /\ Other(Other(p)) = p
  BY Pair DEF Leaves, After, Cleared
<1>2. ASSUME tr'[Other(p)].stage # "gone"
      PROVE  Line(Other(p), net'[Other(p)], At(tr'[Other(p)]), Said(tr'[p]), FALSE)
  <2>1. Line(Other(p), net[Other(p)], At(tr[Other(p)]), Said(tr[p]), ~Gone(p))
    BY <1>1, <1>2 DEF Order, Lines, Gone
  <2> QED
    BY <1>1, <2>1, LineLeft
<1>3. ASSUME NEW q \in Ends, tr'[q].stage # "gone"
      PROVE  Line(q, net'[q], At(tr'[q]), Said(tr'[Other(q)]), tr'[Other(q)].stage # "gone")
  <2>1. q = Other(p)
    BY <1>1, <1>3, Pair
  <2> QED
    BY <1>1, <1>2, <1>3, <2>1
<1> QED
  BY <1>3 DEF Lines, Gone

\* The messages of the handshake are sent in turn.
LEMMA HandshakeTurns ==
  ASSUME Types, Order, NEW p \in Ends,
         \/ Start(p) \/ CheckBanner(p) \/ NegotiateKeys(p) \/ KexDhInit(p) \/ KexDhReply(p)
         \/ ParseNewKeys(p)
  PROVE  Lines'
<1>0. /\ \A r : {r} # {}
      /\ {"newkeys"} # {"kexinit"} /\ {"newkeys"} # {"dhinit"} /\ {"newkeys"} # {"dhreply"}
      /\ {"dhreply"} # {"kexinit"} /\ {"dhreply"} # {"dhinit"} /\ {"dhinit"} # {"kexinit"}
  OBVIOUS
<1>1. /\ Len(<<>>) = 0 /\ <<>> \in Seq(Message)
      /\ \A k \in {"banner", "dhinit", "dhreply", "newkeys"} : Note(k) \in Message /\ Note(k).kind = k
      /\ \A m \in Message : <<m>> \in Seq(Message) /\ Len(<<m>>) = 1 /\ <<m>>[1] = m
      /\ \A m, n \in Message : /\ <<m, n>> \in Seq(Message) /\ Len(<<m, n>>) = 2
                               /\ <<m, n>>[1] = m /\ <<m, n>>[2] = n
  BY Messages DEF MessageKinds
<1>2. ASSUME NEW m \in Message, NEW at, m.kind \in Turn(Other(p), at), at \in Nat
      PROVE  \A k \in 1 .. Len(<<m>>) : <<m>>[k].kind \in Turn(Other(p), at + k - 1)
  BY <1>1, <1>2
<1>a. ASSUME NEW kind, NEW msgs, msgs = <<>>, Takes(p, kind, msgs), ~Gone(p),
             tr'[Other(p)] = tr[Other(p)], tr'[p].stage # "gone",
             At(tr'[p]) = More(At(tr[p]), 1), Said(tr'[p]) = Said(tr[p])
      PROVE  Lines'
  <2>1. Len(msgs) = 0 /\ More(Said(tr[p]), 0) = Said(tr[p])
    BY <1>1, <1>a, Positions
  <2>2. \A k \in 1 .. Len(msgs) : msgs[k].kind \in Turn(Other(p), Said(tr[p]) + k - 1)
    BY <2>1
  <2> QED
    BY <1>a, <2>1, <2>2, Turns DEF Takes
<1>3. CASE Start(p)
  <2>1. /\ Says(p, <<Note("banner")>>)
        /\ After(p, "banner", tr[p].expected, tr[p].agreed, tr[p].done, tr[p].handler)
    BY <1>3, Handshake
  <2>2. tr[p].stage = "idle" /\ tr'[p].stage = "banner"
    BY <1>3, <2>1 DEF Start, Order, Phase, After
  <2>3. At(tr[p]) = 0 /\ Said(tr[p]) = 0 /\ At(tr'[p]) = 0 /\ Said(tr'[p]) = 1 /\ ~Gone(p)
    BY <2>2 DEF At, Said, Gone
  <2>4. Note("banner").kind \in Turn(Other(p), 0) /\ More(0, 1) = 1
    BY <1>1 DEF Turn, More
  <2>5. \A k \in 1 .. Len(<<Note("banner")>>) : <<Note("banner")>>[k].kind \in Turn(Other(p), 0 + k - 1)
    BY <1>1, <1>2, <2>4
  <2> QED
    BY <1>1, <2>1, <2>2, <2>3, <2>4, <2>5, Turns DEF Says, After
<1>4. CASE CheckBanner(p)
  <2> DEFINE m == Msg("kexinit", tr[p].offer)
  <2>1. /\ Takes(p, "banner", <<m>>)
        /\ After(p, "packets", {"kexinit"}, tr[p].agreed, tr[p].done, tr[p].handler)
    BY <1>4, Handshake
  <2>2. At(tr[p]) = 0 /\ Said(tr[p]) = 1 /\ ~Gone(p)
    BY <2>1, Heading DEF Takes, Gone, Active
  <2>3. tr'[p].stage = "packets" /\ tr'[p].expected = {"kexinit"}
    BY <2>1 DEF After
  <2>4. At(tr'[p]) = 1 /\ Said(tr'[p]) = 2
    BY <2>3 DEF At, Said
  <2>5. m \in Message /\ m.kind = "kexinit"
    BY Messages DEF MessageKinds, ArgsOf, Types, EndRecord
  <2>6. m.kind \in Turn(Other(p), 1) /\ More(0, 1) = 1 /\ More(1, 1) = 2
    BY <2>5 DEF Turn, More
  <2>7. \A k \in 1 .. Len(<<m>>) : <<m>>[k].kind \in Turn(Other(p), 1 + k - 1)
    BY <1>2, <2>5, <2>6
  <2> HIDE DEF m
  <2> QED
    BY <1>1, <2>1, <2>2, <2>3, <2>4, <2>5, <2>6, <2>7, Turns DEF Takes, After
<1>5. CASE NegotiateKeys(p) /\ Agreement(p, Head(net[p]).arg) = <<>>
  BY <1>5, Handshake, Leaving, LinesLeft
<1>6. CASE NegotiateKeys(p) /\ Agreement(p, Head(net[p]).arg) # <<>>
  <2> DEFINE dh   == IF p = "server" THEN {"dhinit"} ELSE {"dhreply"}
             msgs == IF p = "server" THEN <<>> ELSE <<Note("dhinit")>>
  <2>1. /\ Takes(p, "kexinit", msgs)
        /\ After(p, tr[p].stage, dh, <<Head(Agreement(p, Head(net[p]).arg))>>, tr[p].done, tr[p].handler)
    BY <1>6, Handshake
  <2>2. tr[p].stage = "packets" /\ At(tr[p]) = 1 /\ Said(tr[p]) = 2 /\ ~Gone(p)
    BY <2>1, Heading DEF Takes, Gone
  <2>3. tr'[p].stage = "packets" /\ tr'[p].expected = dh
    BY <2>1, <2>2 DEF After
  <2>4. CASE p = "server"
    <3>1. At(tr'[p]) = 2 /\ Said(tr'[p]) = 2
      BY <1>0, <2>3, <2>4 DEF At, Said
    <3>2. More(1, 1) = 2 /\ More(2, 0) = 2 /\ msgs = <<>>
      BY <2>4 DEF More
    <3>3. tr'[Other(p)] = tr[Other(p)]
      BY <2>1 DEF After
    <3> HIDE DEF msgs
    <3> QED
      BY <1>a, <2>1, <2>2, <2>3, <3>1, <3>2, <3>3
  <2>5. CASE p = "client"
    <3>1. At(tr'[p]) = 2 /\ Said(tr'[p]) = 3
      BY <1>0, <2>3, <2>5, Pair DEF At, Said
    <3>2. More(1, 1) = 2 /\ More(2, 1) = 3 /\ msgs = <<Note("dhinit")>>
      BY <2>5, Pair DEF More
    <3>3. Note("dhinit").kind \in Turn(Other(p), 2)
      BY <1>1, <2>5, Pair DEF Turn
    <3>4. \A k \in 1 .. Len(<<Note("dhinit")>>) : <<Note("dhinit")>>[k].kind \in Turn(Other(p), 2 + k - 1)
      BY <1>1, <1>2, <3>3
    <3>5. Takes(p, "kexinit", <<Note("dhinit")>>) /\ tr'[Other(p)] = tr[Other(p)]
      BY <2>1, <3>2 DEF After
    <3>6. PICK out : out = <<Note("dhinit")>>
      OBVIOUS
    <3>7. out \in Seq(Message) /\ Moved(p, TRUE, out) /\ net[p] # <<>>
      BY <3>5, <3>6 DEF Takes
    <3>8. Len(out) = 1
      BY <3>6
    <3>9. \A k \in 1 .. Len(out) : out[k].kind \in Turn(Other(p), Said(tr[p]) + k - 1)
      BY <2>2, <3>4, <3>6
    <3>10. tr'[p].stage # "gone" /\ At(tr'[p]) = More(At(tr[p]), 1) /\ Said(tr'[p]) = More(Said(tr[p]), Len(out))
      BY <2>2, <2>3, <3>1, <3>2, <3>8
    <3> QED
      BY <2>2, <3>5, <3>7, <3>9, <3>10, Turns
  <2> QED
    BY <2>4, <2>5 DEF Ends
<1>7. CASE KexDhInit(p)
  <2> DEFINE msgs == <<Note("dhreply"), Note("newkeys")>>
  <2>1. /\ Takes(p, "dhinit", msgs)
        /\ After(p, tr[p].stage, {"newkeys"}, tr[p].agreed, tr[p].done, tr[p].handler)
    BY <1>7, Handshake
  <2>2. p = "server" /\ tr[p].stage = "packets" /\ At(tr[p]) = 2 /\ Said(tr[p]) = 2 /\ ~Gone(p)
    BY <2>1, Heading DEF Takes, Gone
  <2>3. tr'[p].stage = "packets" /\ tr'[p].expected = {"newkeys"}
    BY <2>1, <2>2 DEF After
  <2>4. At(tr'[p]) = 3 /\ Said(tr'[p]) = 4
    BY <1>0, <2>3 DEF At, Said
  <2>5. More(2, 1) = 3 /\ More(2, 2) = 4 /\ Len(msgs) = 2
    BY <1>1 DEF More
  <2>6. Note("dhreply").kind \in Turn(Other(p), 2) /\ Note("newkeys").kind \in Turn(Other(p), 3)
    BY <1>1, <2>2, Pair DEF Turn
  <2>7. \A k \in 1 .. Len(msgs) : msgs[k].kind \in Turn(Other(p), 2 + k - 1)
    BY <1>1, <2>6
  <2>8. msgs \in Seq(Message)
    BY <1>1
  <2> HIDE DEF msgs
  <2> QED
    BY <2>1, <2>2, <2>3, <2>4, <2>5, <2>7, <2>8, Turns DEF Takes, After
<1>8. CASE KexDhReply(p)
  <2> DEFINE msgs == <<Note("newkeys")>>
  <2>1. /\ Takes(p, "dhreply", msgs)
        /\ After(p, tr[p].stage, {"newkeys"}, tr[p].agreed, tr[p].done, tr[p].handler)
    BY <1>8, Handshake
  <2>2. p = "client" /\ tr[p].stage = "packets" /\ At(tr[p]) = 2 /\ Said(tr[p]) = 3 /\ ~Gone(p)
    BY <2>1, Heading DEF Takes, Gone
  <2>3. tr'[p].stage = "packets" /\ tr'[p].expected = {"newkeys"}
    BY <2>1, <2>2 DEF After
  <2>4. At(tr'[p]) = 3 /\ Said(tr'[p]) = 4
    BY <1>0, <2>3 DEF At, Said
  <2>5. More(2, 1) = 3 /\ More(3, 1) = 4 /\ Len(msgs) = 1
    BY <1>1 DEF More
  <2>6. Note("newkeys").kind \in Turn(Other(p), 3)
    BY <1>1 DEF Turn
  <2>7. \A k \in 1 .. Len(msgs) : msgs[k].kind \in Turn(Other(p), 3 + k - 1)
    BY <1>1, <2>6
  <2>8. msgs \in Seq(Message)
    BY <1>1
  <2> HIDE DEF msgs
  <2> QED
    BY <2>1, <2>2, <2>3, <2>4, <2>5, <2>7, <2>8, Turns DEF Takes, After
<1>9. CASE ParseNewKeys(p)
  <2>1. /\ Takes(p, "newkeys", <<>>)
        /\ After(p, tr[p].stage, {}, tr[p].agreed, TRUE, tr[p].handler \/ p = "server")
    BY <1>9, Handshake
  <2>2. tr[p].stage = "packets" /\ At(tr[p]) = 3 /\ Said(tr[p]) = 4 /\ ~Gone(p)
    BY <2>1, Heading DEF Takes, Gone
  <2>3. tr'[p].stage = "packets" /\ tr'[p].expected = {}
    BY <2>1, <2>2 DEF After
  <2>4. At(tr'[p]) = 4 /\ Said(tr'[p]) = 4
    BY <1>0, <2>3 DEF At, Said
  <2>5. More(3, 1) = 4
    BY DEF More
  <2>6. tr'[Other(p)] = tr[Other(p)]
    BY <2>1 DEF After
  <2> QED
    BY <1>a, <2>1, <2>2, <2>3, <2>4, <2>5, <2>6
<1> QED
  BY <1>3, <1>4, <1>5, <1>6, <1>7, <1>8, <1>9
\* The rest is sent by an end that has its keys.
LEMMA RestTurns ==
  ASSUME Types, Order, NEW p \in Ends,
         \/ ParseServiceRequest(p) \/ ParseServiceAccept(p) \/ GrantLogin(p) \/ RefuseLogin(p)
         \/ ParseSuccess(p) \/ ParseFailure(p) \/ ParseChannelOpen(p) \/ ParseOpenSuccess(p)
         \/ ParseOpenFailure(p) \/ HandleRequest(p) \/ RequestSuccess(p) \/ RequestFailed(p)
         \/ HandleClose(p)
  PROVE  Lines'
<1>1. ASSUME NEW kind, NEW msgs, Takes(p, kind, msgs), kind \notin HandshakeKinds,
             tr' = tr \/ \E done : Leaves(p, done),
             \A k \in 1 .. Len(msgs) : msgs[k].kind \in Rest(Other(p))
      PROVE  Lines'
  <2>1. Keyed(p)
    BY <1>1, Heading DEF Takes
  <2> QED
    BY <1>1, <2>1, LaterTurns DEF Takes
<1>2. ASSUME NEW kind, NEW m \in Message, Takes(p, kind, <<m>>), kind \notin HandshakeKinds,
             tr' = tr, m.kind \in Rest(Other(p))
      PROVE  Lines'
  <2>1. \A k \in 1 .. Len(<<m>>) : <<m>>[k].kind \in Rest(Other(p))
    BY <1>2, Messages
  <2> QED
    BY <1>1, <1>2, <2>1
<1>3. ASSUME NEW kind, NEW msgs, msgs = <<>>, Takes(p, kind, msgs), kind \notin HandshakeKinds, tr' = tr
      PROVE  Lines'
  <2>1. Len(msgs) = 0
    BY <1>3
  <2> QED
    BY <1>1, <1>3, <2>1
<1>4. ASSUME NEW kind, NEW msgs, Takes(p, kind, msgs), kind \notin HandshakeKinds
      PROVE  kind \in Rest(p)
  BY <1>4, Heading DEF Takes
<1>5. \A k \in {"accept", "success", "failure", "disconnect"} : Note(k) \in Message /\ Note(k).kind = k
  BY Messages DEF MessageKinds
<1>6. p = "client" \/ p = "server"
  BY DEF Ends
<1>7. CASE ParseServiceRequest(p)
  <2>1. tr' = tr /\ Takes(p, "service", <<Note("accept")>>)
    BY <1>7, Handling
  <2>2. "accept" \in Rest(Other(p))
    BY <1>4, <1>6, <2>1, Pair DEF Rest, HandshakeKinds
  <2> QED
    BY <1>2, <1>5, <2>1, <2>2 DEF HandshakeKinds
<1>8. CASE ParseServiceAccept(p)
  <2>1. tr' = tr /\ Takes(p, "accept", <<Msg("request", login.method)>>)
    BY <1>8, Handling
  <2>2. "request" \in Rest(Other(p))
    BY <1>4, <1>6, <2>1, Pair DEF Rest, HandshakeKinds
  <2>3. Msg("request", login.method) \in Message /\ Msg("request", login.method).kind = "request"
    BY Messages DEF Types, LoginRecord, MessageKinds, ArgsOf
  <2> QED
    BY <1>2, <2>1, <2>2, <2>3 DEF HandshakeKinds
<1>9. CASE GrantLogin(p)
  <2>1. tr' = tr /\ Takes(p, "request", <<Note("success")>>)
    BY <1>9, Handling
  <2>2. "success" \in Rest(Other(p))
    BY <1>4, <1>6, <2>1, Pair DEF Rest, HandshakeKinds
  <2> QED
    BY <1>2, <1>5, <2>1, <2>2 DEF HandshakeKinds
<1>10. CASE RefuseLogin(p)
  <2>1. \/ tr' = tr /\ Takes(p, "request", <<Note("failure")>>)
        \/ /\ Leaves(p, tr[p].done)
           /\ Takes(p, "request", <<Note("failure"), Note("disconnect")>>)
    BY <1>10, Handling
  <2>2. "failure" \in Rest(Other(p)) /\ "disconnect" \in Rest(Other(p))
    BY <1>4, <1>6, <2>1, Pair DEF Rest, HandshakeKinds
  <2>3. CASE tr' = tr /\ Takes(p, "request", <<Note("failure")>>)
    BY <1>2, <1>5, <2>2, <2>3 DEF HandshakeKinds
  <2>4. CASE Leaves(p, tr[p].done) /\ Takes(p, "request", <<Note("failure"), Note("disconnect")>>)
    <3>1. \A k \in 1 .. Len(<<Note("failure"), Note("disconnect")>>) :
            <<Note("failure"), Note("disconnect")>>[k].kind \in Rest(Other(p))
      BY <1>5, <2>2
    <3> QED
      BY <1>1, <2>4, <3>1 DEF HandshakeKinds
  <2> QED
    BY <2>1, <2>3, <2>4
<1>11. CASE ParseSuccess(p) \/ ParseFailure(p) \/ ParseOpenSuccess(p) \/ ParseOpenFailure(p)
            \/ HandleRequest(p) \/ RequestSuccess(p)
  <2>1. PICK kind \in {"success", "failure", "opened", "refused", "ask", "granted"} :
          tr' = tr /\ Takes(p, kind, <<>>)
    BY <1>11, Handling
  <2> QED
    BY <1>3, <2>1 DEF HandshakeKinds
<1>12. CASE ParseChannelOpen(p)
  <2> DEFINE kind == IF Head(net[p]).arg.kind = "session" THEN "opened" ELSE "refused"
             m    == Msg(kind, Head(net[p]).arg.id)
  <2>1. tr' = tr /\ Takes(p, "open", <<m>>)
    BY <1>12, Handling
  <2>2. kind \in Rest(Other(p))
    BY <1>4, <1>6, <2>1, Pair DEF Rest, HandshakeKinds
  <2>3. Head(net[p]).arg.id \in Nat
    BY <2>1, Heads DEF Takes
  <2>4. m \in Message /\ m.kind = kind
    BY <2>3, Messages DEF MessageKinds
  <2> QED
    BY <1>2, <2>1, <2>2, <2>4 DEF HandshakeKinds
<1>13. CASE RequestFailed(p) \/ HandleClose(p)
  <2> DEFINE m == Msg("close", Head(net[p]).arg)
  <2>1. PICK kind \in {"denied", "close"} : tr' = tr /\ (Takes(p, kind, <<>>) \/ Takes(p, kind, <<m>>))
    BY <1>13, Handling
  <2>2. Head(net[p]).arg \in Nat
    BY <2>1, Heads DEF Takes
  <2>3. m \in Message /\ m.kind = "close"
    BY <2>2, Messages DEF MessageKinds
  <2>4. "close" \in Rest(Other(p)) /\ kind \notin HandshakeKinds
    BY DEF Rest, HandshakeKinds
  <2>5. CASE Takes(p, kind, <<>>)
    BY <1>3, <2>1, <2>4, <2>5
  <2>6. CASE Takes(p, kind, <<m>>)
    BY <1>2, <2>1, <2>3, <2>4, <2>6
  <2> QED
    BY <2>1, <2>5, <2>6
<1> QED
  BY <1>7, <1>8, <1>9, <1>10, <1>11, <1>12, <1>13

\* So is what the programs send.
LEMMA ProgramTurns ==
  ASSUME Types, Order, (\E p \in Ends : SendReply(p) \/ ActorEnds(p)) \/ Login \/ OpenChannel \/ AskSends
  PROVE  Lines'
<1>0. /\ Other("client") = "server" /\ Other("server") = "client"
      /\ "client" \in Ends /\ "server" \in Ends
  BY Pair
<1>1. ASSUME NEW p \in Ends, NEW m \in Message, Says(p, <<m>>), Keyed(p), m.kind \in Rest(Other(p)),
             \/ tr' = tr
             \/ After(p, tr[p].stage, tr[p].expected, tr[p].agreed, tr[p].done, TRUE)
      PROVE  Lines'
  <2>1. \A k \in 1 .. Len(<<m>>) : <<m>>[k].kind \in Rest(Other(p))
    BY <1>1, Messages
  <2> QED
    BY <1>1, <2>1, LaterTurns DEF Says
<1>2. ASSUME net' = net, tr' = tr PROVE Lines'
  BY <1>2 DEF Order, Lines, Gone
<1>3. pc["client"] \notin {"idle", "starting", "failed"} /\ Active("client") => Keyed("client")
  BY <1>0 DEF Order, Phase
<1>4. ASSUME NEW p \in Ends, SendReply(p) PROVE Lines'
  <2>1. /\ tr' = tr /\ owed \in {"granted", "denied"}
        /\ net' = net \/ (Active("server") /\ Says("server", <<Msg(owed, lastOpen)>>))
    BY <1>4, Programs DEF SendReply, Types
  <2>2. Active("server") => Keyed("server")
    BY <2>1 DEF Order, Serving, Active, Gone
  <2>3. Msg(owed, lastOpen) \in Message /\ Msg(owed, lastOpen).kind = owed
    BY <2>1, Messages DEF MessageKinds, Types
  <2>4. owed \in Rest("client")
    BY <2>1 DEF Rest
  <2> QED
    BY <1>0, <1>1, <1>2, <2>1, <2>2, <2>3, <2>4
<1>5. ASSUME NEW p \in Ends, ActorEnds(p) PROVE Lines'
  <2>1. /\ tr' = tr
        /\ net' = net \/ (~closed["server"] /\ Says("server", <<Msg("close", lastOpen)>>))
    BY <1>5, Programs
  <2>2. ~closed["server"] => Keyed("server")
    BY DEF Order, Serving
  <2>3. Msg("close", lastOpen) \in Message /\ Msg("close", lastOpen).kind = "close"
    BY Messages DEF MessageKinds, Types
  <2>4. "close" \in Rest("client")
    BY DEF Rest
  <2> QED
    BY <1>0, <1>1, <1>2, <2>1, <2>2, <2>3, <2>4
<1>6. ASSUME Login PROVE Lines'
  <2>1. /\ After("client", tr["client"].stage, tr["client"].expected, tr["client"].agreed,
                 tr["client"].done, TRUE)
        /\ Says("client", <<Note("service")>>)
    BY <1>6, Programs
  <2>2. Keyed("client")
    BY <1>3, <1>6 DEF Login
  <2>3. Note("service") \in Message /\ Note("service").kind = "service"
    BY Messages DEF MessageKinds
  <2>4. "service" \in Rest("server")
    BY DEF Rest
  <2> QED
    BY <1>0, <1>1, <2>1, <2>2, <2>3, <2>4
<1>7. ASSUME OpenChannel PROVE Lines'
  <2>1. PICK k \in Kinds : Says("client", <<Msg("open", [id |-> lastOpen + 1, kind |-> k])>>)
    BY <1>7, Programs
  <2> DEFINE m == Msg("open", [id |-> lastOpen + 1, kind |-> k])
  <2>2. tr' = tr /\ Keyed("client")
    BY <1>3, <1>7 DEF OpenChannel
  <2>3. m \in Message /\ m.kind = "open"
    <3>1. lastOpen + 1 \in Nat
      BY DEF Types
    <3> QED
      BY <3>1, Messages DEF MessageKinds, ArgsOf
  <2>4. "open" \in Rest("server")
    BY DEF Rest
  <2> QED
    BY <1>0, <1>1, <2>1, <2>2, <2>3, <2>4
<1>8. ASSUME AskSends PROVE Lines'
  <2> DEFINE m == Msg("ask", [id |-> lastOpen, request |-> chan.request])
  <2>1. tr' = tr /\ (net' = net \/ (Active("client") /\ Says("client", <<m>>)))
    BY <1>8, Programs
  <2>2. Active("client") => Keyed("client")
    BY <1>3, <1>8 DEF AskSends
  <2>3. m \in Message /\ m.kind = "ask"
    <3>1. lastOpen \in Nat /\ chan.request \in Wishes
      BY DEF Types, ChannelRecord
    <3> QED
      BY <3>1, Messages DEF MessageKinds, ArgsOf
  <2>4. "ask" \in Rest("server")
    BY DEF Rest
  <2> HIDE DEF m
  <2> QED
    BY <1>0, <1>1, <1>2, <2>1, <2>2, <2>3, <2>4
<1> QED
  BY <1>4, <1>5, <1>6, <1>7, <1>8

\* The messages stay in their order.
LEMMA OrderStep ==
  ASSUME Types, Grants, Order, [Next]_vars
  PROVE  Order'
<1>1. Serving' /\ \A p \in Ends : Phase(p)'
  BY ServingStep, PhaseStep
<1>2. ASSUME net' = net, tr' = tr PROVE Lines'
  BY <1>2 DEF Order, Lines, Gone
<1>3. ASSUME NEW p \in Ends, EndRun(p) \/ ParseDisconnect(p) PROVE Lines'
  BY <1>3, Leaving, LinesLeft
<1>4. Close => Lines'
  BY Leaving, LinesLeft, Pair
<1>5. ASSUME \/ \E p \in Ends : StartReturns(p) \/ FallSilent(p)
             \/ LoginReturns \/ OpenReturns \/ OpenTimeout \/ Ask \/ AskReturns
      PROVE  Lines'
  BY <1>2, <1>5, Programs
<1>6. UNCHANGED vars => Lines'
  BY <1>2 DEF vars
<1>7. Lines'
  BY <1>3, <1>4, <1>5, <1>6, HandshakeTurns, RestTurns, ProgramTurns, Steps
<1> QED
  BY <1>1, <1>7 DEF Order
\* What an end is sent is what it handles next.
LEMMA InTurn ==
  ASSUME Types, Handlers, Order
  PROVE  NothingRefused
<1> SUFFICES ASSUME NEW p \in Ends, Active(p), net[p] # <<>>
             PROVE  Head(net[p]).kind \in Admitted(p)
  BY DEF NothingRefused
<1>1. PICK kind : kind = Head(net[p]).kind
  OBVIOUS
<1>2. tr[p].stage = "banner" \/ tr[p].stage = "packets"
  BY DEF Active
<1>3. CASE kind = "banner"
  BY <1>1, <1>3, Heading DEF Admitted
<1>4. CASE kind \in {"kexinit", "dhinit", "dhreply", "newkeys"}
  <2>1. tr[p].stage = "packets" /\ tr[p].expected = {kind}
    BY <1>1, <1>4, Heading
  <2> QED
    BY <1>1, <2>1 DEF Admitted
<1>5. CASE kind \notin HandshakeKinds
  <2>1. kind \in Rest(p) /\ tr[p].stage = "packets" /\ tr[p].expected = {}
    BY <1>1, <1>5, Heading DEF Keyed
  <2>2. kind \in AuthKinds => tr[p].handler
    <3>1. CASE p = "client"
      BY <1>1, <3>1, Heads DEF Handlers, Has
    <3>2. CASE p = "server"
      BY <2>1, <3>2 DEF Handlers, Keyed
    <3> QED
      BY <3>1, <3>2 DEF Ends
  <2>3. kind \in {"disconnect", "open", "opened", "refused", "ask", "granted", "denied", "close"} \cup AuthKinds
    BY <2>1 DEF Rest, AuthKinds
  <2> QED
    BY <1>1, <2>1, <2>2, <2>3 DEF Admitted
<1> QED
  BY <1>3, <1>4, <1>5 DEF HandshakeKinds

\* Two ends that run this code never send each other what the receiver does not
\* expect or has no handler for ("Expecting packet from", "Oops, unhandled
\* type"), whatever they offer, however far one is ahead of the other and
\* whichever of them leaves, for any number of logins, channels and requests.
THEOREM NothingIsRefused == Spec => []NothingRefused
<1>1. Init => Types /\ Grants /\ Handlers /\ Order
  BY TypesInit, GrantsInit, HandlersInit, OrderInit
<1>2. Types /\ Grants /\ Handlers /\ Order /\ [Next]_vars
        => (Types /\ Grants /\ Handlers /\ Order)'
  BY TypesStep, GrantsStep, HandlersStep, OrderStep
<1>3. Types /\ Grants /\ Handlers /\ Order => NothingRefused
  BY InTurn
<1> QED
  BY <1>1, <1>2, <1>3, PTL DEF Spec

-----------------------------------------------------------------------------
(* The algorithms                                                          *)

\* The first choice of the client that the server knows
Choice == <<Head(Common(tr["client"].offer, tr["server"].offer))>>

Chosen(p) == tr[p].agreed = Choice

\* What a message on its way to q says of the choice
Tells(q, m) ==
  /\ m.kind = "kexinit" => m.arg = tr[Other(q)].offer
  /\ m.kind = "dhinit" => Chosen("client")
  /\ m.kind \in {"dhreply", "newkeys"} => Chosen("client") /\ Chosen("server")

\* An end that is past the choice has made it, and the other one too before it
\* activates new keys.
Alike ==
  /\ \A q \in Ends : \A i \in 1 .. Len(net[q]) : Tells(q, net[q][i])
  /\ \A p \in Ends :
       /\ tr[p].stage = "packets" /\ tr[p].expected # {"kexinit"} => Chosen(p)
       /\ tr[p].stage = "packets" /\ tr[p].expected \in {{}, {"newkeys"}}
            => Chosen("client") /\ Chosen("server")
       /\ pc[p] \notin {"idle", "starting", "failed"} => Chosen("client") /\ Chosen("server")

\* At first no end is past the choice.
LEMMA AlikeInit == Init => Alike
<1>1. Len(<<>>) = 0
  OBVIOUS
<1> QED
  BY <1>1 DEF Init, Alike, Transport

\* Both ends make the same choice, and keep it.
LEMMA AlikeStep ==
  ASSUME Types, Order, Alike, [Next]_vars
  PROVE  Alike'
<1>0. "client" \in Ends /\ "server" \in Ends /\ Other("client") = "server" /\ Other("server") = "client"
  BY Pair
<1>1. Choice' = Choice
  BY <1>0, Kept DEF Choice
<1>2. ASSUME NEW p \in Ends, NegotiateKeys(p),
             tr'[p].agreed = <<Head(Agreement(p, Head(net[p]).arg))>>
      PROVE  tr'[p].agreed = Choice
  <2>1. net[p] # <<>> /\ Head(net[p]).kind = "kexinit"
    BY <1>2 DEF NegotiateKeys, Arrives
  <2>2. Head(net[p]).arg = tr[Other(p)].offer
    BY <2>1, Heads DEF Alike, Tells
  <2>3. CASE p = "client"
    BY <1>0, <1>2, <2>2, <2>3 DEF Agreement, Choice
  <2>4. CASE p = "server"
    BY <1>0, <1>2, <2>2, <2>4 DEF Agreement, Choice
  <2> QED
    BY <2>3, <2>4 DEF Ends
<1>3. ASSUME NEW p \in Ends, Chosen(p) PROVE tr'[p].agreed = Choice
  BY <1>2, <1>3, Changes DEF Chosen, Leaves, After
<1>4. ASSUME NEW p \in Ends, KexDhInit(p) \/ KexDhReply(p)
      PROVE  Chosen("client") /\ Chosen("server")
  <2>1. Active(p) /\ net[p] # <<>> /\ Head(net[p]).kind \in {"dhinit", "dhreply"}
    BY <1>4 DEF KexDhInit, KexDhReply, Arrives
  <2>2. Tells(p, Head(net[p]))
    BY <2>1, Heads DEF Alike
  <2>3. CASE Head(net[p]).kind = "dhinit"
    <3>1. p = "server" /\ tr[p].stage = "packets" /\ tr[p].expected = {"dhinit"}
      BY <2>1, <2>3, Heading
    <3>2. tr[p].expected # {"kexinit"}
      BY <3>1
    <3> QED
      BY <2>2, <2>3, <3>1, <3>2 DEF Alike, Tells
  <2>4. CASE Head(net[p]).kind = "dhreply"
    BY <2>2, <2>4 DEF Tells
  <2> QED
    BY <2>1, <2>3, <2>4
<1>5. ASSUME Chosen("client"), Chosen("server")
      PROVE  tr'["client"].agreed = Choice /\ tr'["server"].agreed = Choice
  BY <1>0, <1>3, <1>5
<1>6. ASSUME NEW q \in Ends, NEW i \in 1 .. Len(net'[q])
      PROVE  /\ net'[q][i].kind = "kexinit" => net'[q][i].arg = tr'[Other(q)].offer
             /\ net'[q][i].kind = "dhinit" => tr'["client"].agreed = Choice
             /\ net'[q][i].kind \in {"dhreply", "newkeys"}
                  => tr'["client"].agreed = Choice /\ tr'["server"].agreed = Choice
  <2>0. Other(q) \in Ends /\ tr'[Other(q)].offer = tr[Other(q)].offer
    BY Pair, Kept
  <2>1. PICK m : m = net'[q][i]
    OBVIOUS
  <2>2. CASE \E j \in 1 .. Len(net[q]) : m = net[q][j]
    <3>1. Tells(q, m)
      BY <2>2 DEF Alike
    <3> QED
      BY <1>0, <1>3, <2>0, <2>1, <3>1 DEF Tells
  <2>3. CASE New(q, m)
    <3>1. m.kind = "kexinit" => m.arg = tr'[Other(q)].offer
      BY <2>0, <2>3 DEF New
    <3>2. m.kind = "dhinit" => tr'["client"].agreed = Choice
      BY <1>0, <1>2, <2>3 DEF New, Negotiated
    <3>3. ASSUME m.kind \in {"dhreply", "newkeys"}
          PROVE  tr'["client"].agreed = Choice /\ tr'["server"].agreed = Choice
      <4>1. KexDhInit(Other(q)) \/ KexDhReply(Other(q))
        BY <2>3, <3>3 DEF New
      <4>2. Chosen("client") /\ Chosen("server")
        BY <1>4, <2>0, <4>1
      <4> QED
        BY <1>5, <4>2
    <3> QED
      BY <2>1, <3>1, <3>2, <3>3
  <2>4. (\E j \in 1 .. Len(net[q]) : m = net[q][j]) \/ New(q, m)
    BY <2>1, News
  <2> QED
    BY <2>2, <2>3, <2>4
<1>7. ASSUME NEW p \in Ends, tr'[p].stage = "packets", tr'[p].expected # {"kexinit"}
      PROVE  tr'[p].agreed = Choice
  <2>1. CASE tr[p].stage = "packets" /\ tr[p].expected # {"kexinit"}
    BY <1>3, <2>1 DEF Alike
  <2>2. CASE ~(tr[p].stage = "packets" /\ tr[p].expected # {"kexinit"})
    <3>1. ~KexDhInit(p) /\ ~KexDhReply(p) /\ ~ParseNewKeys(p)
      <4>1. {"dhinit"} # {"kexinit"} /\ {"dhreply"} # {"kexinit"} /\ {"newkeys"} # {"kexinit"}
        OBVIOUS
      <4> QED
        BY <2>2, <4>1, Heading DEF KexDhInit, KexDhReply, ParseNewKeys, Arrives
    <3>2. NegotiateKeys(p) /\ tr'[p].agreed = <<Head(Agreement(p, Head(net[p]).arg))>>
      BY <1>7, <2>2, <3>1, Changes DEF Leaves, After
    <3> QED
      BY <1>2, <3>2
  <2> QED
    BY <2>1, <2>2
<1>8. ASSUME NEW p \in Ends, tr'[p].stage = "packets", tr'[p].expected \in {{}, {"newkeys"}}
      PROVE  tr'["client"].agreed = Choice /\ tr'["server"].agreed = Choice
  <2>1. CASE tr[p].stage = "packets" /\ tr[p].expected \in {{}, {"newkeys"}}
    BY <1>5, <2>1 DEF Alike
  <2>2. CASE KexDhInit(p) \/ KexDhReply(p)
    BY <1>4, <1>5, <2>2
  <2>3. CASE /\ ~(tr[p].stage = "packets" /\ tr[p].expected \in {{}, {"newkeys"}})
             /\ ~KexDhInit(p) /\ ~KexDhReply(p)
    <3>1. ~ParseNewKeys(p)
      BY <2>3, Heading DEF ParseNewKeys, Arrives
    <3>2. \A r : {r} # {}
      OBVIOUS
    <3>3. {"kexinit"} # {"newkeys"} /\ {"dhinit"} # {"newkeys"} /\ {"dhreply"} # {"newkeys"}
      OBVIOUS
    <3> QED
      BY <1>8, <2>3, <3>1, <3>2, <3>3, Changes DEF Leaves, After
  <2> QED
    BY <2>1, <2>2, <2>3
<1>9. ASSUME NEW p \in Ends, pc'[p] \notin {"idle", "starting", "failed"}
      PROVE  tr'["client"].agreed = Choice /\ tr'["server"].agreed = Choice
  <2>1. CASE pc[p] \notin {"idle", "starting", "failed"}
    BY <1>5, <2>1 DEF Alike
  <2>2. CASE pc[p] \in {"idle", "starting", "failed"}
    <3>1. Active(p) /\ tr[p].done
      BY <1>9, <2>2, Progress
    <3>2. tr[p].stage = "packets" /\ tr[p].expected = {}
      BY <3>1 DEF Order, Phase, Keyed
    <3> QED
      BY <1>5, <3>2 DEF Alike
  <2> QED
    BY <2>1, <2>2
<1>10. \A q \in Ends : \A i \in 1 .. Len(net'[q]) : Tells(q, net[q][i])'
  BY <1>1, <1>6 DEF Tells, Chosen
<1>11. \A p \in Ends :
         /\ tr'[p].stage = "packets" /\ tr'[p].expected # {"kexinit"} => Chosen(p)'
         /\ tr'[p].stage = "packets" /\ tr'[p].expected \in {{}, {"newkeys"}}
              => Chosen("client")' /\ Chosen("server")'
         /\ pc'[p] \notin {"idle", "starting", "failed"} => Chosen("client")' /\ Chosen("server")'
  BY <1>1, <1>7, <1>8, <1>9 DEF Chosen
<1> QED
  BY <1>10, <1>11 DEF Alike

-----------------------------------------------------------------------------
(* The channels                                                            *)

\* What a message says of a channel
Names(m) ==
  /\ m.kind = "open" => m.arg.id \in 1 .. lastOpen
  /\ m.kind = "opened" => m.arg \in accepts
  /\ m.kind = "refused" => m.arg \in 1 .. lastOpen

\* A channel of the client whose event is set was confirmed, as long as the
\* client is there; the one that its program uses was.
Opening ==
  /\ accepts \subseteq 1 .. lastOpen /\ opened \subseteq accepts /\ events \subseteq 1 .. lastOpen
  /\ \A p \in Ends : channels[p] \subseteq 1 .. lastOpen
  /\ \A q \in Ends : \A i \in 1 .. Len(net[q]) : Names(net[q][i])
  /\ ~Gone("client") => events \cap channels["client"] \subseteq opened
  /\ pc["client"] \in {"open", "asking", "requesting"} => lastOpen \in opened

\* At first there is no channel.
LEMMA OpeningInit == Init => Opening
<1>1. Len(<<>>) = 0
  OBVIOUS
<1> QED
  BY <1>1, Pair DEF Init, Opening

\* Every step keeps what the ends know of the channels.
LEMMA OpeningStep ==
  ASSUME Types, Order, Opening, [Next]_vars
  PROVE  Opening'
<1>0. /\ "client" \in Ends /\ "server" \in Ends /\ "client" # "server"
      /\ lastOpen \in Nat /\ channels \in [Ends -> SUBSET Nat]
  BY Pair DEF Types
<1>1. lastOpen' \in Nat /\ lastOpen' >= lastOpen /\ 1 .. lastOpen \subseteq 1 .. lastOpen'
  <2>1. lastOpen' = lastOpen \/ lastOpen' = lastOpen + 1
    BY Frames DEF OpenChannel
  <2> QED
    BY <1>0, <2>1
<1>2. ASSUME NEW p \in Ends, net[p] # <<>> PROVE Names(Head(net[p]))
  BY <1>2, Heads DEF Opening
<1>3. accepts' \subseteq 1 .. lastOpen' /\ accepts \subseteq accepts'
  <2>1. ASSUME NEW p \in Ends, ParseChannelOpen(p) PROVE accepts' \subseteq 1 .. lastOpen /\ accepts \subseteq accepts'
    <3>1. Head(net[p]).arg.id \in 1 .. lastOpen
      BY <1>2, <2>1 DEF ParseChannelOpen, Arrives, Names
    <3> QED
      BY <2>1, <3>1 DEF ParseChannelOpen, Opening
  <2> QED
    BY <1>1, <2>1, Frames DEF Opening
<1>4. opened' \subseteq accepts' /\ opened \subseteq opened'
  <2>1. ASSUME NEW p \in Ends, ParseOpenSuccess(p) PROVE opened' \subseteq accepts /\ opened \subseteq opened'
    <3>1. Head(net[p]).arg \in accepts
      BY <1>2, <2>1 DEF ParseOpenSuccess, Arrives, Names
    <3> QED
      BY <2>1, <3>1 DEF ParseOpenSuccess, Opening
  <2> QED
    BY <1>3, <2>1, Frames DEF Opening
<1>5. events' \subseteq 1 .. lastOpen'
  <2>1. ASSUME NEW p \in Ends, ParseOpenSuccess(p) \/ ParseOpenFailure(p) PROVE events' \subseteq 1 .. lastOpen
    <3>1. Head(net[p]).arg \in 1 .. lastOpen
      BY <1>2, <2>1 DEF ParseOpenSuccess, ParseOpenFailure, Arrives, Names, Opening
    <3> QED
      BY <2>1, <3>1 DEF ParseOpenSuccess, ParseOpenFailure, Opening
  <2>2. ASSUME NEW p \in Ends, EndRun(p) PROVE events' \subseteq 1 .. lastOpen
    BY <2>2 DEF EndRun, Opening
  <2> QED
    BY <1>1, <2>1, <2>2, Frames DEF Opening
<1>6. ASSUME NEW q \in Ends PROVE channels'[q] \subseteq 1 .. lastOpen'
  <2>0. channels[q] \subseteq 1 .. lastOpen
    BY DEF Opening
  <2>1. ASSUME NEW p \in Ends, ParseChannelOpen(p) PROVE channels'[q] \subseteq 1 .. lastOpen
    <3>1. PICK id : id = Head(net[p]).arg.id
      OBVIOUS
    <3>2. id \in 1 .. lastOpen
      BY <1>2, <2>1, <3>1 DEF ParseChannelOpen, Arrives, Names
    <3>3. channels' = [channels EXCEPT ![p] = @ \cup {id}] \/ channels' = channels
      BY <2>1, <3>1 DEF ParseChannelOpen
    <3> QED
      BY <1>0, <2>0, <3>2, <3>3
  <2>2. \A p \in Ends : Unlink(p) => channels'[q] \subseteq 1 .. lastOpen
    BY <1>0, <2>0 DEF Unlink
  <2>3. \A p \in Ends : EndRun(p) \/ ParseDisconnect(p) => channels'[q] \subseteq 1 .. lastOpen
    BY <2>2 DEF EndRun, ParseDisconnect
  <2>4. Close => channels'[q] \subseteq 1 .. lastOpen
    BY <1>0, <2>2 DEF Close
  <2>5. \A p \in Ends : ParseOpenFailure(p) \/ HandleClose(p) => channels'[q] \subseteq 1 .. lastOpen
    BY <1>0, <2>0 DEF ParseOpenFailure, HandleClose
  <2>6. ASSUME OpenChannel PROVE channels'[q] \subseteq 1 .. lastOpen'
    <3>1. lastOpen' = lastOpen + 1 /\ channels' = [channels EXCEPT !["client"] = @ \cup {lastOpen'}]
      BY <2>6 DEF OpenChannel
    <3>2. lastOpen' \in 1 .. lastOpen'
      BY <1>0, <3>1
    <3> QED
      BY <1>0, <1>1, <2>0, <3>1, <3>2
  <2> QED
    BY <1>1, <2>0, <2>1, <2>3, <2>4, <2>5, <2>6, Frames
<1>7. ASSUME NEW q \in Ends, NEW i \in 1 .. Len(net'[q]) PROVE Names(net[q][i])'
  <2>1. PICK m : m = net'[q][i]
    OBVIOUS
  <2>2. CASE \E j \in 1 .. Len(net[q]) : m = net[q][j]
    <3>1. Names(m)
      BY <2>2 DEF Opening
    <3> QED
      BY <1>1, <1>3, <2>1, <3>1 DEF Names
  <2>3. CASE New(q, m)
    <3>1. m.kind = "open" => m.arg.id \in 1 .. lastOpen'
      <4>1. OpenChannel => lastOpen + 1 = lastOpen' /\ lastOpen' \in 1 .. lastOpen'
        BY <1>0 DEF OpenChannel
      <4> QED
        BY <2>3, <4>1 DEF New
    <3>2. m.kind = "opened" => m.arg \in accepts'
      BY <2>3 DEF New
    <3>3. m.kind = "refused" => m.arg \in 1 .. lastOpen'
      <4>1. Other(q) \in Ends
        BY Pair
      <4> QED
        BY <1>1, <1>2, <2>3, <4>1 DEF New, Names
    <3> QED
      BY <2>1, <3>1, <3>2, <3>3 DEF Names
  <2>4. (\E j \in 1 .. Len(net[q]) : m = net[q][j]) \/ New(q, m)
    BY <2>1, News
  <2> QED
    BY <2>2, <2>3, <2>4
<1>8. ASSUME tr'["client"].stage # "gone" PROVE events' \cap channels'["client"] \subseteq opened'
  <2>0. events \cap channels["client"] \subseteq opened
    BY <1>0, <1>8, GoneStays DEF Opening, Gone
  <2>1. ASSUME NEW p \in Ends, ParseOpenSuccess(p) PROVE events' \cap channels'["client"] \subseteq opened'
    BY <2>0, <2>1 DEF ParseOpenSuccess
  <2>2. ASSUME NEW p \in Ends, ParseOpenFailure(p) PROVE events' \cap channels'["client"] \subseteq opened
    <3>1. p = "client"
      <4>1. "refused" \in Rest(p)
        BY <2>2, Heading DEF ParseOpenFailure, Arrives, HandshakeKinds
      <4> QED
        BY <4>1 DEF Rest, Ends
    <3> QED
      BY <1>0, <2>0, <2>2, <3>1 DEF ParseOpenFailure
  <2>3. ASSUME NEW p \in Ends, EndRun(p) PROVE events' \cap channels'["client"] \subseteq opened
    <3>1. p # "client"
      BY <1>8, <2>3, Leaving DEF Leaves, After
    <3> QED
      BY <1>0, <2>0, <2>3, <3>1 DEF EndRun, Unlink
  <2>4. ASSUME NEW p \in Ends, ParseChannelOpen(p) PROVE events' \cap channels'["client"] \subseteq opened
    <3>1. p = "server"
      <4>1. "open" \in Rest(p)
        BY <2>4, Heading DEF ParseChannelOpen, Arrives, HandshakeKinds
      <4> QED
        BY <4>1 DEF Rest, Ends
    <3> QED
      BY <1>0, <2>0, <2>4, <3>1 DEF ParseChannelOpen
  <2>5. ASSUME OpenChannel PROVE events' \cap channels'["client"] \subseteq opened
    <3>1. lastOpen + 1 \notin events
      BY <1>0 DEF Opening
    <3> QED
      BY <1>0, <2>0, <2>5, <3>1 DEF OpenChannel
  <2>6. \A p \in Ends : ParseDisconnect(p) \/ HandleClose(p) => channels'["client"] \subseteq channels["client"] /\ events' = events
    BY <1>0 DEF ParseDisconnect, HandleClose, Unlink
  <2>7. Close => channels'["client"] \subseteq channels["client"] /\ events' = events
    BY <1>0 DEF Close, Unlink
  <2> QED
    BY <1>4, <2>0, <2>1, <2>2, <2>3, <2>4, <2>5, <2>6, <2>7, Frames
<1>9. ASSUME pc'["client"] \in {"open", "asking", "requesting"} PROVE lastOpen' \in opened'
  <2>0. pc \in [Ends -> Places]
    BY DEF Types
  <2>1. OpenChannel => pc'["client"] = "opening"
    BY <1>0, <2>0 DEF OpenChannel, Goto
  <2>2. lastOpen' = lastOpen
    BY <1>9, <2>1, Frames
  <2>3. CASE OpenReturns
    <3>1. /\ pc'["client"] # "failed"
          /\ ~Active("client") \/ (lastOpen \in events /\ lastOpen \in channels["client"])
      BY <1>0, <1>9, <2>0, <2>3 DEF OpenReturns, Goto
    <3>2. Active("client")
      BY <1>0, <1>9, <2>0, <2>3 DEF OpenReturns, Goto
    <3>3. lastOpen \in opened
      BY <3>1, <3>2 DEF Opening, Active, Gone
    <3> QED
      BY <1>4, <2>2, <3>3
  <2>4. CASE ~OpenReturns
    <3>1. Login \/ LoginReturns \/ OpenTimeout => pc'["client"] \in {"authenticating", "failed", "authed", "keyed"}
      BY <1>0, <2>0 DEF Login, LoginReturns, OpenTimeout, Goto
    <3>2. \A p \in Ends : Start(p) \/ StartReturns(p) =>
            pc'["client"] = pc["client"] \/ pc'["client"] \in {"starting", "failed", "keyed"}
      BY <1>0, <2>0 DEF Start, StartReturns, Goto
    <3>3. Ask \/ AskSends \/ AskReturns => pc["client"] \in {"open", "asking", "requesting"}
      <4>1. Ask \/ AskSends => pc["client"] \in {"open", "asking", "requesting"}
        BY DEF Ask, AskSends
      <4>2. AskReturns => pc["client"] \in {"open", "asking", "requesting"}
        BY DEF AskReturns
      <4> QED
        BY <4>1, <4>2
    <3>4. pc["client"] \in {"open", "asking", "requesting"}
      BY <1>9, <2>1, <2>4, <3>1, <3>2, <3>3, Frames
    <3> QED
      BY <1>4, <2>2, <3>4 DEF Opening
  <2> QED
    BY <2>3, <2>4
<1> QED
  BY <1>3, <1>4, <1>5, <1>6, <1>7, <1>8, <1>9 DEF Opening, Gone

-----------------------------------------------------------------------------
(* The requests                                                            *)

Replies == {"granted", "denied"}

\* At most one message of the kinds K
One(s, K) == \A i, j \in 1 .. Len(s) : s[i].kind \in K /\ s[j].kind \in K => i = j

\* Messages of the kinds K: how many there are after one is taken or added
LEMMA Counting ==
  ASSUME NEW s \in Seq(Message), NEW K
  PROVE  /\ s # <<>> /\ One(s, K) =>
              One(Tail(s), K) /\ (Head(s).kind \in K => ~Has(Tail(s), K))
         /\ One(<<>>, K) /\ ~Has(<<>>, K)
         /\ \A msgs \in Seq(Message) :
              One(s, K) /\ ~Has(msgs, K) => One(s \o msgs, K) /\ (Has(s \o msgs, K) => Has(s, K))
         /\ \A m \in Message : ~Has(s, K) => One(s \o <<m>>, K)
<1>1. ASSUME s # <<>>, One(s, K)
      PROVE  One(Tail(s), K) /\ (Head(s).kind \in K => ~Has(Tail(s), K))
  <2>1. /\ Len(Tail(s)) = Len(s) - 1 /\ Len(s) \in Nat /\ Head(s) = s[1] /\ 1 \in 1 .. Len(s)
        /\ \A i \in 1 .. Len(s) - 1 : Tail(s)[i] = s[i + 1] /\ i + 1 \in 1 .. Len(s)
    BY <1>1
  <2>2. \A i, j \in 1 .. Len(s) - 1 : i + 1 = j + 1 => i = j
    BY <2>1
  <2>3. One(Tail(s), K)
    BY <1>1, <2>1, <2>2 DEF One
  <2>4. \A i \in 1 .. Len(s) - 1 : i + 1 # 1
    BY <2>1
  <2>5. Head(s).kind \in K => ~Has(Tail(s), K)
    BY <1>1, <2>1, <2>4 DEF One, Has
  <2> QED
    BY <2>3, <2>5
<1>2. One(<<>>, K) /\ ~Has(<<>>, K)
  <2>1. Len(<<>>) = 0
    OBVIOUS
  <2> QED
    BY <2>1 DEF One, Has
<1>3. ASSUME NEW msgs \in Seq(Message), One(s, K), ~Has(msgs, K)
      PROVE  One(s \o msgs, K) /\ (Has(s \o msgs, K) => Has(s, K))
  <2>1. /\ Len(s \o msgs) = Len(s) + Len(msgs) /\ Len(s) \in Nat /\ Len(msgs) \in Nat
        /\ \A j \in 1 .. Len(s) + Len(msgs) :
             (s \o msgs)[j] = IF j <= Len(s) THEN s[j] ELSE msgs[j - Len(s)]
    OBVIOUS
  <2>2. ASSUME NEW j \in 1 .. Len(s \o msgs), (s \o msgs)[j].kind \in K
        PROVE  j \in 1 .. Len(s) /\ (s \o msgs)[j] = s[j]
    <3>1. CASE j <= Len(s)
      BY <2>1, <3>1
    <3>2. CASE j > Len(s)
      <4>1. j - Len(s) \in 1 .. Len(msgs) /\ (s \o msgs)[j] = msgs[j - Len(s)]
        BY <2>1, <3>2
      <4> QED
        BY <1>3, <2>2, <4>1 DEF Has
    <3> QED
      BY <2>1, <3>1, <3>2
  <2> QED
    BY <1>3, <2>2 DEF One, Has
<1>4. ASSUME NEW m \in Message, ~Has(s, K) PROVE One(s \o <<m>>, K)
  <2>1. /\ Len(s \o <<m>>) = Len(s) + 1 /\ Len(s) \in Nat
        /\ \A j \in 1 .. Len(s) : (s \o <<m>>)[j] = s[j]
    OBVIOUS
  <2>2. ASSUME NEW j \in 1 .. Len(s \o <<m>>), (s \o <<m>>)[j].kind \in K
        PROVE  j = Len(s) + 1
    <3>1. j \notin 1 .. Len(s)
      BY <1>4, <2>1, <2>2 DEF Has
    <3> QED
      BY <2>1, <3>1
  <2> QED
    BY <2>2 DEF One
<1> QED
  BY <1>1, <1>2, <1>3, <1>4

\* A request, or a reply to one, is on its way.
Asked   == Has(net["server"], {"ask"})
Replied == Has(net["client"], Replies)

\* What such a message says, and who gets it
Speaks(q, m) ==
  /\ m.kind = "ask" => q = "server" /\ m.arg.request = chan.request
  /\ m.kind \in Replies => q = "client"

Started == chan.request = "shell" => shells.started > 0

\* One request is under way at a time; a reply that grants a shell comes after
\* the actor was started.
Asking ==
  /\ \A q \in Ends : \A i \in 1 .. Len(net[q]) : Speaks(q, net[q][i])
  /\ One(net["server"], {"ask"}) /\ One(net["client"], Replies)
  /\ Asked => owed = "nothing" /\ ~Replied
  /\ Replied => owed = "nothing"
  /\ Asked \/ Replied \/ owed # "nothing" =>
       /\ pc["client"] \in {"requesting", "failed"}
       /\ pc["client"] = "requesting" => ~chan.ready
  /\ owed = "granted" \/ Has(net["client"], {"granted"}) => Started
  /\ pc["client"] = "requesting" /\ chan.ready => Started
  /\ pc["client"] = "open" => Started
  /\ pc["client"] = "opening" => chan.request = "none"
  /\ shells.started <= asks /\ asks <= MaxAsks /\ shells.running <= shells.started
  /\ Asked \/ pc["client"] = "asking" => shells.started < asks

\* At first nothing has been asked.
LEMMA AskingInit == Init => Asking
<1>1. Len(<<>>) = 0
  OBVIOUS
<1>2. MaxAsks \in Nat
  BY LoginAssumption
<1> QED
  BY <1>1, <1>2, Pair DEF Init, Asking, Asked, Replied, Started, Has, One

\* Only asking adds a request, and only the server's answer a reply.
LEMMA AskQueues ==
  ASSUME Types, Asking, [Next]_vars
  PROVE  /\ ~AskSends => One(net'["server"], {"ask"}) /\ (Has(net'["server"], {"ask"}) => Asked)
         /\ ~SendReply("server") =>
              /\ One(net'["client"], Replies)
              /\ Has(net'["client"], Replies) => Replied
         /\ \A p \in Ends : HandleRequest(p) => p = "server" /\ Asked /\ ~Has(net'["server"], {"ask"})
         /\ \A p \in Ends : RequestSuccess(p) \/ RequestFailed(p) =>
              p = "client" /\ Replied /\ ~Has(net'["client"], Replies)
<1>0. "client" \in Ends /\ "server" \in Ends /\ \A q \in Ends : net[q] \in Seq(Message)
  BY Pair DEF Types
<1>1. ASSUME NEW q \in Ends, NEW K, One(net[q], K), \A m : New(q, m) => m.kind \notin K
      PROVE  One(net'[q], K) /\ (Has(net'[q], K) => Has(net[q], K))
  <2>1. CASE net'[q] = net[q]
    BY <1>1, <2>1
  <2>2. CASE net'[q] = <<>>
    <3>1. One(<<>>, K) /\ ~Has(<<>>, K)
      BY <1>0, Counting
    <3> QED
      BY <2>2, <3>1
  <2>3. CASE net[q] # <<>> /\ net'[q] = Tail(net[q])
    <3>1. One(Tail(net[q]), K)
      BY <1>0, <1>1, <2>3, Counting
    <3>2. /\ Len(Tail(net[q])) = Len(net[q]) - 1
          /\ \A i \in 1 .. Len(net[q]) - 1 : Tail(net[q])[i] = net[q][i + 1] /\ i + 1 \in 1 .. Len(net[q])
      BY <1>0, <2>3
    <3> QED
      BY <2>3, <3>1, <3>2 DEF Has
  <2>4. ASSUME NEW msgs \in Seq(Message), net'[q] = net[q] \o msgs,
               \A k \in 1 .. Len(msgs) : New(q, msgs[k])
        PROVE  One(net'[q], K) /\ (Has(net'[q], K) => Has(net[q], K))
    <3>1. ~Has(msgs, K)
      BY <1>1, <2>4 DEF Has
    <3> QED
      BY <1>0, <1>1, <2>4, <3>1, Counting
  <2> QED
    BY <2>1, <2>2, <2>3, <2>4, Queues DEF Arrive
<1>2. ASSUME ~AskSends PROVE One(net'["server"], {"ask"}) /\ (Has(net'["server"], {"ask"}) => Asked)
  <2>1. \A m : New("server", m) => m.kind \notin {"ask"}
    BY <1>2 DEF New
  <2> QED
    BY <1>0, <1>1, <2>1 DEF Asking, Asked
<1>3. ASSUME ~SendReply("server")
      PROVE  One(net'["client"], Replies) /\ (Has(net'["client"], Replies) => Replied)
  <2>1. \A m : New("client", m) => m.kind \notin Replies
    BY <1>3 DEF New, Replies
  <2> QED
    BY <1>0, <1>1, <2>1 DEF Asking, Replied
<1>4. ASSUME NEW p \in Ends, NEW kind, Takes(p, kind, <<>>) \/ (\E m : Takes(p, kind, <<m>>)),
             NEW K, kind \in K, One(net[p], K)
      PROVE  ~Has(net'[p], K)
  <2>1. net[p] # <<>> /\ Head(net[p]).kind \in K /\ net'[p] = Tail(net[p])
    BY <1>4 DEF Takes, Moved
  <2> QED
    BY <1>0, <1>4, <2>1, Counting
<1>5. ASSUME NEW p \in Ends, HandleRequest(p)
      PROVE  p = "server" /\ Asked /\ ~Has(net'["server"], {"ask"})
  <2>1. Takes(p, "ask", <<>>)
    BY <1>5, Handling
  <2>2. p = "server" /\ Asked
    BY <2>1, Heads DEF Takes, Asking, Speaks, Asked, Has
  <2>3. One(net[p], {"ask"})
    BY <2>2 DEF Asking
  <2>4. ~Has(net'[p], {"ask"})
    BY <1>4, <2>1, <2>3
  <2> QED
    BY <2>2, <2>4
<1>6. ASSUME NEW p \in Ends, RequestSuccess(p) \/ RequestFailed(p)
      PROVE  p = "client" /\ Replied /\ ~Has(net'["client"], Replies)
  <2>1. PICK kind \in Replies : Takes(p, kind, <<>>) \/ (\E m : Takes(p, kind, <<m>>))
    BY <1>6, Handling DEF Replies
  <2>a. net[p] # <<>> /\ Head(net[p]).kind \in Replies
    BY <2>1 DEF Takes
  <2>b. Head(net[p]) = net[p][1] /\ 1 \in 1 .. Len(net[p])
    BY <2>a, Heads
  <2>c. p = "client"
    BY <2>a, <2>b DEF Asking, Speaks
  <2>2. p = "client" /\ Replied
    BY <2>a, <2>b, <2>c DEF Replied, Has
  <2>3. One(net[p], Replies)
    BY <2>2 DEF Asking
  <2>4. ~Has(net'[p], Replies)
    BY <1>4, <2>1, <2>3
  <2> QED
    BY <2>2, <2>4
<1> QED
  BY <1>2, <1>3, <1>5, <1>6

\* Where the program of the client goes
LEMMA ClientMoves ==
  ASSUME Types, [Next]_vars
  PROVE  LET at  == pc["client"]
             nxt == pc'["client"]
         IN  /\ OpenChannel => at = "authed" /\ nxt = "opening"
             /\ Ask => at = "open" /\ nxt = "asking"
             /\ AskSends => at = "asking" /\ nxt = "requesting"
             /\ \/ nxt = at \/ OpenChannel \/ Ask \/ AskSends
                \/ at \in {"idle", "starting", "keyed", "authenticating"}
                     /\ nxt \notin {"opening", "open", "asking", "requesting"}
                \/ OpenReturns /\ at = "opening" /\ nxt \in {"failed", "open", "authed"}
                \/ OpenTimeout /\ at = "opening" /\ nxt = "authed"
                \/ AskReturns /\ at = "requesting" /\ nxt = IF chan.ready THEN "open" ELSE "failed"
<1>0. "client" \in Ends /\ pc \in [Ends -> Places]
  BY Pair DEF Types
<1>1. \A q \in Ends : \A at : Goto(q, at) => pc'["client"] = IF q = "client" THEN at ELSE pc["client"]
  BY <1>0 DEF Goto
<1>2. OpenChannel => pc["client"] = "authed" /\ pc'["client"] = "opening"
  BY <1>0, <1>1 DEF OpenChannel
<1>3. Ask => pc["client"] = "open" /\ pc'["client"] = "asking"
  BY <1>0, <1>1 DEF Ask
<1>4. AskSends => pc["client"] = "asking" /\ pc'["client"] = "requesting"
  BY <1>0, <1>1 DEF AskSends
<1>5. Login => pc["client"] = "keyed" /\ pc'["client"] = "authenticating"
  BY <1>0, <1>1 DEF Login
<1>6. LoginReturns => pc["client"] = "authenticating" /\ pc'["client"] \in {"failed", "authed", "keyed"}
  BY <1>0, <1>1 DEF LoginReturns
<1>7. OpenReturns => pc["client"] = "opening" /\ pc'["client"] \in {"failed", "open", "authed"}
  BY <1>0, <1>1 DEF OpenReturns
<1>8. OpenTimeout => pc["client"] = "opening" /\ pc'["client"] = "authed"
  BY <1>0, <1>1 DEF OpenTimeout
<1>9. AskReturns => /\ pc["client"] = "requesting"
                    /\ pc'["client"] = IF chan.ready THEN "open" ELSE "failed"
  BY <1>0, <1>1 DEF AskReturns
<1>10. \A p \in Ends : Start(p) \/ StartReturns(p) =>
         \/ pc'["client"] = pc["client"]
         \/ pc["client"] \in {"idle", "starting"} /\ pc'["client"] \in {"starting", "failed", "keyed"}
  BY <1>0, <1>1 DEF Start, StartReturns
<1> QED
  BY <1>2, <1>3, <1>4, <1>5, <1>6, <1>7, <1>8, <1>9, <1>10, Frames

\* What a step does to the channel object and to the counters
LEMMA Effects ==
  ASSUME Types, [Next]_vars
  PROVE  /\ chan'.request = chan.request \/ OpenChannel \/ Ask
         /\ \/ chan'.ready = chan.ready \/ OpenChannel \/ AskSends
            \/ \E p \in Ends : RequestSuccess(p) /\ Head(net[p]).kind = "granted"
         /\ OpenChannel => chan'.request = "none"
         /\ AskSends => ~chan'.ready
         /\ shells'.started = shells.started \/ \E p \in Ends : HandleRequest(p)
         /\ (\E p \in Ends : HandleRequest(p)) =>
              /\ shells'.started \in {shells.started, shells.started + 1}
              /\ shells'.running - shells.running = shells'.started - shells.started
         /\ \/ shells'.running <= shells.running
            \/ \E p \in Ends : HandleRequest(p)
<1>1. PICK c \in ChannelRecord : c = chan
  BY DEF Types
<1>2. PICK s \in ShellRecord : s = shells
  BY DEF Types
<1>3. ASSUME NEW p \in Ends, SetClosed(p) PROVE chan'.request = chan.request /\ chan'.ready = chan.ready
  <2>1. (c.event \/ (p = "client" /\ ~closed[p])) \in BOOLEAN
    BY DEF ChannelRecord
  <2>2. PICK e \in BOOLEAN : e = (c.event \/ (p = "client" /\ ~closed[p]))
    BY <2>1
  <2>3. chan' = [c EXCEPT !.event = e]
    BY <1>1, <1>3, <2>2 DEF SetClosed
  <2> QED
    BY <1>1, <2>3 DEF ChannelRecord
<1>4. \A p \in Ends : EndRun(p) \/ ParseDisconnect(p) => chan'.request = chan.request /\ chan'.ready = chan.ready
  BY <1>3 DEF EndRun, ParseDisconnect, Unlink
<1>5. Close => chan'.request = chan.request /\ chan'.ready = chan.ready
  BY <1>3, Pair DEF Close, Unlink
<1>6. \A p \in Ends : RequestFailed(p) \/ HandleClose(p) => chan'.request = chan.request /\ chan'.ready = chan.ready
  BY <1>3 DEF RequestFailed, HandleClose
<1>7. \A p \in Ends : RequestSuccess(p) => chan'.request = chan.request /\ Head(net[p]).kind = "granted"
  BY <1>1 DEF RequestSuccess, Arrives, ChannelRecord
<1>8. OpenChannel => chan'.request = "none"
  BY DEF OpenChannel
<1>9. Ask => chan'.ready = chan.ready
  BY <1>1 DEF Ask, ChannelRecord
<1>10. AskSends => ~chan'.ready /\ chan'.request = chan.request
  BY <1>1 DEF AskSends, ChannelRecord
<1>11. \A p \in Ends : ActorEnds(p) => shells'.started = shells.started /\ shells'.running <= shells.running
  BY <1>2 DEF ActorEnds, ShellRecord
<1>12. \A p \in Ends : HandleRequest(p) =>
         /\ shells'.started \in {shells.started, shells.started + 1}
         /\ shells'.running - shells.running = shells'.started - shells.started
  BY <1>2 DEF HandleRequest, ShellRecord
<1>13. \/ chan'.ready = chan.ready \/ OpenChannel \/ AskSends
       \/ \E p \in Ends : RequestSuccess(p) /\ Head(net[p]).kind = "granted"
  BY <1>4, <1>5, <1>6, <1>7, <1>9, Frames
<1>14. chan'.request = chan.request \/ OpenChannel \/ Ask
  BY <1>4, <1>5, <1>6, <1>7, <1>10, Frames
<1>15. shells'.started = shells.started \/ \E p \in Ends : HandleRequest(p)
  BY <1>11, Frames
<1>16. shells'.running <= shells.running \/ \E p \in Ends : HandleRequest(p)
  BY <1>2, <1>11, Frames DEF ShellRecord
<1> QED
  BY <1>8, <1>10, <1>12, <1>13, <1>14, <1>15, <1>16

\* A request or a reply is under way.
Underway == Asked \/ Replied \/ owed # "nothing"

\* A request becomes a reply that is owed, and that one a reply; only asking starts anew.
LEMMA UnderwayStep ==
  ASSUME Types, Asking, [Next]_vars
  PROVE  /\ Has(net'["server"], {"ask"}) => AskSends \/ Asked
         /\ Has(net'["server"], {"ask"}) => owed' = "nothing" /\ ~Has(net'["client"], Replies)
         /\ Has(net'["client"], Replies) => owed' = "nothing"
         /\ Has(net'["server"], {"ask"}) \/ Has(net'["client"], Replies) \/ owed' # "nothing"
              => AskSends \/ Underway
         /\ AskSends => ~Underway
         /\ One(net'["server"], {"ask"}) /\ One(net'["client"], Replies)
<1>0. /\ "client" \in Ends /\ "server" \in Ends /\ \A q \in Ends : net[q] \in Seq(Message)
      /\ Other("client") = "server" /\ Other("server") = "client"
  BY Pair DEF Types
<1>1. AskSends => ~Underway /\ owed' = owed
  <2>1. AskSends => pc["client"] = "asking"
    BY DEF AskSends
  <2> QED
    BY <2>1 DEF Asking, Underway, AskSends
<1>2. SendReply("server") => owed # "nothing" /\ owed' = "nothing"
  BY DEF SendReply
<1>3. ~AskSends \/ ~SendReply("server")
  BY <1>1, <1>2 DEF Underway
<1>4. owed' = owed \/ (owed' # owed /\ SendReply("server")) \/ HandleRequest("server")
  <2>1. \A p \in Ends : HandleRequest(p) => p = "server"
    BY AskQueues
  <2>2. \A p \in Ends : SendReply(p) => p = "server"
    BY DEF SendReply
  <2>3. \A p \in Ends : HandleRequest(p) => HandleRequest("server")
    BY <2>1
  <2>4. \A p \in Ends : SendReply(p) => SendReply("server")
    BY <2>2
  <2> QED
    BY <2>3, <2>4, Frames
<1>5. HandleRequest("server") => Asked /\ ~Has(net'["server"], {"ask"})
  BY <1>0, AskQueues
<1>6. Has(net'["server"], {"ask"}) => AskSends \/ Asked
  BY AskQueues
<1>7. Has(net'["client"], Replies) => SendReply("server") \/ Replied
  BY AskQueues
<1>8. ASSUME Has(net'["server"], {"ask"}) PROVE owed' = "nothing" /\ ~Has(net'["client"], Replies)
  <2>1. owed = "nothing" /\ ~Replied
    BY <1>1, <1>6, <1>8 DEF Asking, Underway
  <2> QED
    BY <1>2, <1>4, <1>5, <1>7, <1>8, <2>1
<1>9. ASSUME Has(net'["client"], Replies) PROVE owed' = "nothing"
  <2>1. CASE SendReply("server")
    BY <1>2, <2>1
  <2>2. CASE Replied
    <3>1. owed = "nothing" /\ ~Asked
      BY <2>2 DEF Asking
    <3> QED
      BY <1>2, <1>4, <1>5, <3>1
  <2> QED
    BY <1>7, <1>9, <2>1, <2>2
<1>10. Has(net'["server"], {"ask"}) \/ Has(net'["client"], Replies) \/ owed' # "nothing"
         => AskSends \/ Underway
  BY <1>2, <1>4, <1>5, <1>6, <1>7 DEF Underway
<1>11. One(net'["server"], {"ask"})
  <2>1. CASE ~AskSends
    BY <2>1, AskQueues
  <2>2. CASE AskSends
    <3> DEFINE m == Msg("ask", [id |-> lastOpen, request |-> chan.request])
    <3>1. net' = net \/ Says("client", <<m>>)
      BY <2>2, Programs
    <3>2. m \in Message
      <4>1. lastOpen \in Nat /\ chan.request \in Wishes
        BY DEF Types, ChannelRecord
      <4> QED
        BY <4>1, Messages DEF MessageKinds, ArgsOf
    <3>3. ~Has(net["server"], {"ask"})
      BY <1>1, <2>2 DEF Underway, Asked
    <3> HIDE DEF m
    <3>4. One(net["server"] \o <<m>>, {"ask"})
      BY <1>0, <3>2, <3>3, Counting
    <3>5. One(net["server"], {"ask"})
      BY DEF Asking
    <3> QED
      BY <1>0, <3>1, <3>4, <3>5 DEF Says, Moved
  <2> QED
    BY <2>1, <2>2
<1>12. One(net'["client"], Replies)
  <2>1. CASE ~SendReply("server")
    BY <2>1, AskQueues
  <2>2. CASE SendReply("server")
    <3> DEFINE m == Msg(owed, lastOpen)
    <3>1. net' = net \/ Says("server", <<m>>)
      BY <1>0, <2>2, Programs
    <3>2. m \in Message
      <4>1. owed \in {"granted", "denied"} /\ lastOpen \in Nat
        BY <1>2, <2>2 DEF Types
      <4> QED
        BY <4>1, Messages DEF MessageKinds
    <3>3. ~Has(net["client"], Replies)
      BY <1>2, <2>2 DEF Asking, Replied
    <3> HIDE DEF m
    <3>4. One(net["client"] \o <<m>>, Replies)
      BY <1>0, <3>2, <3>3, Counting
    <3>5. One(net["client"], Replies)
      BY DEF Asking
    <3> QED
      BY <1>0, <3>1, <3>4, <3>5 DEF Says, Moved
  <2> QED
    BY <2>1, <2>2
<1> QED
  BY <1>1, <1>6, <1>8, <1>9, <1>10, <1>11, <1>12

\* Every step keeps what the ends know of the requests.
LEMMA AskingStep ==
  ASSUME Types, Asking, [Next]_vars
  PROVE  Asking'
<1> DEFINE at  == pc["client"]
           nxt == pc'["client"]
           Later == Has(net'["server"], {"ask"}) \/ Has(net'["client"], Replies) \/ owed' # "nothing"
<1>0. /\ "client" \in Ends /\ "server" \in Ends
      /\ asks \in Nat /\ shells.started \in Nat /\ shells.running \in Nat /\ MaxAsks \in Nat
      /\ chan.ready \in BOOLEAN /\ pc \in [Ends -> Places]
      /\ Types'
  BY Pair, LoginAssumption, TypesStep DEF Types, ShellRecord, ChannelRecord
<1>1. Underway => at \in {"requesting", "failed"} /\ (at = "requesting" => ~chan.ready)
  BY DEF Asking, Underway
<1>2. ASSUME Underway PROVE ~OpenChannel /\ ~Ask /\ ~AskSends
  BY <1>1, <1>2, ClientMoves
<1>3. Underway => chan'.request = chan.request
  BY <1>2, Effects
<1>4. \A p \in Ends : HandleRequest(p) => /\ p = "server" /\ Asked /\ ~Has(net'["server"], {"ask"})
                                          /\ pc' = pc /\ asks' = asks /\ chan' = chan
  BY AskQueues DEF HandleRequest, openVars
<1>5. shells'.started \in Nat /\ shells'.running \in Nat /\ asks' \in Nat /\ shells'.started >= shells.started
  <2>1. shells'.started \in Nat /\ shells'.running \in Nat /\ asks' \in Nat
    BY <1>0 DEF Types, ShellRecord
  <2> QED
    BY <1>0, <2>1, Effects
<1>6. Started /\ chan'.request = chan.request => Started'
  BY <1>0, <1>5 DEF Started
<1>7. ASSUME NEW q \in Ends, NEW i \in 1 .. Len(net'[q]) PROVE Speaks(q, net[q][i])'
  <2>1. PICK m : m = net'[q][i]
    OBVIOUS
  <2>2. CASE \E j \in 1 .. Len(net[q]) : m = net[q][j]
    <3>1. Speaks(q, m)
      BY <2>2 DEF Asking
    <3>2. m.kind = "ask" => Underway
      BY <2>2, <3>1 DEF Speaks, Underway, Asked, Has
    <3> QED
      BY <1>3, <2>1, <3>1, <3>2 DEF Speaks
  <2>3. CASE New(q, m)
    <3>1. AskSends => chan'.request = chan.request
      <4>1. AskSends => ~OpenChannel /\ ~Ask
        BY ClientMoves
      <4> QED
        BY <4>1, Effects
    <3>2. m.kind = "ask" => q = "server" /\ m.arg.request = chan'.request
      BY <2>3, <3>1 DEF New
    <3>3. m.kind \in Replies => q = "client"
      BY <2>3 DEF New, Replies
    <3> QED
      BY <2>1, <3>2, <3>3 DEF Speaks
  <2>4. (\E j \in 1 .. Len(net[q]) : m = net[q][j]) \/ New(q, m)
    BY <2>1, News
  <2> QED
    BY <2>2, <2>3, <2>4
<1>8. ASSUME Later PROVE nxt \in {"requesting", "failed"} /\ (nxt = "requesting" => ~chan'.ready)
  <2>1. CASE AskSends
    BY <2>1, ClientMoves, Effects
  <2>2. CASE ~AskSends
    <3>1. Underway
      BY <1>8, <2>2, UnderwayStep
    <3>2. nxt = at \/ (nxt = "failed" /\ at = "requesting")
      BY <1>1, <1>2, <3>1, ClientMoves
    <3>3. ~(\E p \in Ends : RequestSuccess(p))
      <4>1. ASSUME NEW p \in Ends, RequestSuccess(p) PROVE FALSE
        <5>1. Replied /\ ~Has(net'["client"], Replies) /\ owed' = owed
          BY <4>1, AskQueues DEF RequestSuccess
        <5>2. owed = "nothing" /\ ~Asked
          BY <5>1 DEF Asking
        <5>3. ~Has(net'["server"], {"ask"})
          BY <2>2, <5>2, UnderwayStep
        <5> QED
          BY <1>8, <5>1, <5>2, <5>3
      <4> QED
        BY <4>1
    <3>4. chan'.ready = chan.ready
      BY <1>2, <3>1, <3>3, Effects
    <3> QED
      BY <1>1, <3>1, <3>2, <3>4
  <2> QED
    BY <2>1, <2>2
<1>9. ASSUME owed' = "granted" \/ Has(net'["client"], {"granted"}) PROVE Started'
  <2>1. CASE Started /\ Underway
    BY <1>3, <1>6, <2>1
  <2>2. CASE \E p \in Ends : HandleRequest(p)
    <3>1. HandleRequest("server") /\ Asked
      BY <1>4, <2>2
    <3>2. net["server"] # <<>> /\ Head(net["server"]).kind = "ask"
      BY <3>1 DEF HandleRequest, Arrives
    <3>3. Speaks("server", Head(net["server"]))
      BY <1>0, <3>2, Heads DEF Asking
    <3>4. Head(net["server"]).arg.request = chan.request /\ chan' = chan
      BY <1>4, <2>2, <3>2, <3>3 DEF Speaks
    <3>5. owed = "nothing" /\ ~Replied
      BY <3>1 DEF Asking
    <3>6. ~Has(net'["client"], {"granted"})
      <4>1. ~SendReply("server")
        BY <3>5 DEF SendReply
      <4>2. ~Has(net'["client"], Replies)
        BY <3>5, <4>1, AskQueues
      <4> QED
        BY <4>2 DEF Has, Replies
    <3>7. owed' # owed
      BY <1>9, <3>5, <3>6
    <3>8. Head(net["server"]).arg.id \in channels["server"]
      BY <3>1, <3>7 DEF HandleRequest
    <3>9. chan.request = "shell" => shells'.started = shells.started + 1
      BY <3>1, <3>4, <3>8 DEF HandleRequest
    <3> QED
      BY <1>0, <3>4, <3>9 DEF Started
  <2>3. CASE ~(\E p \in Ends : HandleRequest(p))
    <3>1. owed' = "granted" => owed = "granted"
      <4>1. \A p \in Ends : SendReply(p) => owed' = "nothing"
        BY DEF SendReply
      <4> QED
        BY <2>3, <4>1, Frames
    <3>2. Has(net'["client"], {"granted"}) => Has(net["client"], {"granted"}) \/ owed = "granted"
      <4>1. ASSUME NEW i \in 1 .. Len(net'["client"]), net'["client"][i].kind = "granted"
            PROVE  Has(net["client"], {"granted"}) \/ owed = "granted"
        <5>1. PICK m : m = net'["client"][i]
          OBVIOUS
        <5>2. (\E j \in 1 .. Len(net["client"]) : m = net["client"][j]) \/ New("client", m)
          BY <1>0, <5>1, News
        <5> QED
          BY <4>1, <5>1, <5>2 DEF New, Has
      <4> QED
        BY <4>1 DEF Has
    <3>3. Has(net["client"], {"granted"}) => Replied
      BY DEF Has, Replied, Replies
    <3>4. Started /\ Underway
      BY <1>9, <3>1, <3>2, <3>3 DEF Asking, Underway
    <3> QED
      BY <2>1, <3>4
  <2> QED
    BY <2>2, <2>3
<1>10. ASSUME nxt = "requesting", chan'.ready PROVE Started'
  <2>1. ~AskSends
    BY <1>10, Effects
  <2>2. at = "requesting"
    BY <1>10, <2>1, ClientMoves
  <2>3. ~OpenChannel /\ ~Ask
    BY <2>2, ClientMoves
  <2>4. CASE chan.ready
    BY <1>6, <2>2, <2>3, <2>4, Effects DEF Asking
  <2>5. ASSUME NEW p \in Ends, RequestSuccess(p), Head(net[p]).kind = "granted" PROVE Started
    <3>1. p = "client" /\ net[p] # <<>>
      BY <2>5, AskQueues DEF RequestSuccess, Arrives
    <3>2. Has(net["client"], {"granted"})
      BY <2>5, <3>1, Heads DEF Has
    <3> QED
      BY <3>2 DEF Asking
  <2> QED
    BY <1>6, <1>10, <2>1, <2>3, <2>4, <2>5, Effects
<1>11. ASSUME nxt = "open" PROVE Started'
  <2>1. ~OpenChannel /\ ~Ask /\ ~AskSends
    BY <1>11, ClientMoves
  <2>2. chan'.request = chan.request
    BY <2>1, Effects
  <2>3. at = "open" \/ at = "opening" \/ (at = "requesting" /\ chan.ready)
    BY <1>11, <2>1, ClientMoves
  <2>4. Started
    BY <2>3 DEF Asking, Started
  <2> QED
    BY <1>6, <2>2, <2>4
<1>12. ASSUME nxt = "opening" PROVE chan'.request = "none"
  <2>1. CASE OpenChannel
    BY <2>1, Effects
  <2>2. CASE ~OpenChannel
    <3>1. at = "opening"
      BY <1>12, <2>2, ClientMoves
    <3>2. ~Ask
      BY <3>1, ClientMoves
    <3> QED
      BY <2>2, <3>1, <3>2, Effects DEF Asking
  <2> QED
    BY <2>1, <2>2
<1>13. shells'.started <= asks' /\ asks' <= MaxAsks /\ shells'.running <= shells'.started
  <2>1. shells.started <= asks /\ asks <= MaxAsks /\ shells.running <= shells.started
    BY DEF Asking
  <2>2. CASE \E p \in Ends : HandleRequest(p)
    <3>1. shells.started < asks /\ asks' = asks
      BY <1>4, <2>2 DEF Asking
    <3> QED
      BY <1>0, <1>5, <2>1, <2>2, <3>1, Effects
  <2>3. CASE ~(\E p \in Ends : HandleRequest(p))
    <3>1. asks' = asks \/ (asks' = asks + 1 /\ asks < MaxAsks)
      BY Frames DEF Ask
    <3>2. shells'.started = shells.started /\ shells'.running <= shells.running
      BY <2>3, Effects
    <3> QED
      BY <1>0, <1>5, <2>1, <3>1, <3>2
  <2> QED
    BY <2>2, <2>3
<1>14. ASSUME Has(net'["server"], {"ask"}) \/ nxt = "asking" PROVE shells'.started < asks'
  <2>1. asks' >= asks
    BY <1>0, Frames DEF Ask
  <2>2. ~(\E p \in Ends : HandleRequest(p))
    <3>1. ASSUME NEW p \in Ends, HandleRequest(p) PROVE FALSE
      <4>1. Asked /\ ~Has(net'["server"], {"ask"}) /\ nxt = at
        BY <1>4, <3>1
      <4> QED
        BY <1>1, <1>14, <4>1 DEF Underway
    <3> QED
      BY <3>1
  <2>3. shells'.started = shells.started
    BY <2>2, Effects
  <2>4. CASE Ask
    <3>1. asks' = asks + 1
      BY <2>4 DEF Ask
    <3> QED
      BY <1>0, <1>5, <2>3, <3>1 DEF Asking
  <2>5. CASE ~Ask
    <3>1. nxt = "asking" => at = "asking"
      BY <2>5, ClientMoves
    <3>2. AskSends => at = "asking"
      BY ClientMoves
    <3>3. Asked \/ at = "asking"
      BY <1>14, <3>1, <3>2, UnderwayStep
    <3> QED
      BY <1>0, <1>5, <2>1, <2>3, <3>3 DEF Asking
  <2> QED
    BY <2>4, <2>5
<1> QED
  BY <1>7, <1>8, <1>9, <1>10, <1>11, <1>12, <1>13, <1>14, UnderwayStep DEF Asking, Asked, Replied

-----------------------------------------------------------------------------
(* The failures, and what the client believes                              *)

\* The server leaves with the last failure that is allowed.
Failures ==
  /\ grant.fails <= MaxFails
  /\ ~Gone("server") => grant.fails < MaxFails

\* At first no login has failed.
LEMMA FailuresInit == Init => Failures
BY LoginAssumption DEF Init, Failures

\* The server leaves no later than with the last failure that is allowed.
LEMMA FailuresStep ==
  ASSUME Types, Order, Failures, [Next]_vars
  PROVE  Failures'
<1>0. grant.fails \in Nat /\ MaxFails \in Nat /\ "server" \in Ends
  BY LoginAssumption, Pair DEF Types, GrantRecord
<1>1. Gone("server") => tr'["server"].stage = "gone"
  BY <1>0, GoneStays DEF Gone
<1>2. ASSUME grant'.fails = grant.fails PROVE Failures'
  BY <1>1, <1>2 DEF Failures, Gone
<1>3. ASSUME NEW p \in Ends, GrantLogin(p) PROVE grant'.fails = grant.fails
  BY <1>3 DEF GrantLogin, Types, GrantRecord
<1>4. ASSUME NEW p \in Ends, RefuseLogin(p) PROVE Failures'
  <2>1. Active(p) /\ net[p] # <<>> /\ Head(net[p]).kind = "request"
    BY <1>4 DEF RefuseLogin, Arrives
  <2>2. "request" \in Rest(p)
    BY <2>1, Heading DEF HandshakeKinds
  <2>3. p = "server"
    BY <2>2 DEF Rest, Ends
  <2>4. grant.fails < MaxFails
    BY <2>1, <2>3 DEF Failures, Active, Gone
  <2>5. grant'.fails = grant.fails + 1
    BY <1>4 DEF RefuseLogin, Types, GrantRecord
  <2>6. grant'.fails >= MaxFails => tr'["server"].stage = "gone"
    <3>1. grant'.fails >= MaxFails => tr' = [tr EXCEPT !["server"].stage = "gone"]
      BY <1>4, <2>3 DEF RefuseLogin
    <3> QED
      BY <1>0, <3>1, Assignments DEF After
  <2> QED
    BY <1>0, <2>4, <2>5, <2>6 DEF Failures, Gone
<1> QED
  BY <1>2, <1>3, <1>4, Frames

\* The invariant of the login
LoginInvariant ==
  /\ Types /\ Grants /\ Handlers /\ Order /\ Alike /\ Opening /\ Asking /\ Failures

\* The types that the runs check
LEMMA TypesHold ==
  ASSUME LoginInvariant
  PROVE  TypeOK
<1>1. ASSUME NEW p \in Ends
      PROVE  /\ tr[p].stage \in {"idle", "banner", "packets", "gone"}
             /\ tr[p].timer \in {"off", "running", "done"}
             /\ tr[p].done \in BOOLEAN /\ tr[p].handler \in BOOLEAN
             /\ Len(tr[p].agreed) <= 1
  <2>1. PICK r \in EndRecord : r = tr[p]
    BY DEF LoginInvariant, Types
  <2>2. Len(<<>>) = 0 /\ \A x : Len(<<x>>) = 1
    OBVIOUS
  <2>3. \A o \in Outcomes : o = <<>> \/ \E c, s \in Lists : o = <<Head(Common(c, s))>>
    BY DEF Outcomes
  <2>4. Len(r.agreed) <= 1
    <3>1. r.agreed \in Outcomes
      BY DEF EndRecord
    <3>2. CASE r.agreed = <<>>
      BY <2>2, <3>2
    <3>3. CASE r.agreed # <<>>
      <4>1. PICK c, s \in Lists : r.agreed = <<Head(Common(c, s))>>
        BY <2>3, <3>1, <3>3
      <4> QED
        BY <2>2, <4>1
    <3> QED
      BY <3>2, <3>3
  <2> QED
    BY <2>1, <2>4 DEF EndRecord
<1>2. grant \in [authenticated : BOOLEAN, fails : 0 .. MaxFails]
  <2>1. grant.fails \in 0 .. MaxFails
    BY LoginAssumption DEF LoginInvariant, Types, GrantRecord, Failures
  <2> QED
    BY <2>1 DEF LoginInvariant, Types, GrantRecord
<1>3. shells \in [started : 0 .. MaxAsks, running : 0 .. MaxAsks]
  <2>1. /\ shells.started \in Nat /\ shells.running \in Nat /\ asks \in Nat /\ MaxAsks \in Nat
        /\ shells.started <= asks /\ asks <= MaxAsks /\ shells.running <= shells.started
    BY LoginAssumption DEF LoginInvariant, Types, ShellRecord, Asking
  <2>2. shells.started \in 0 .. MaxAsks /\ shells.running \in 0 .. MaxAsks
    BY <2>1
  <2> QED
    BY <2>2 DEF LoginInvariant, Types, ShellRecord
<1>4. accepts \subseteq 1 .. lastOpen /\ opened \subseteq 1 .. lastOpen
  BY DEF LoginInvariant, Opening
<1>5. login.event \in BOOLEAN /\ login.authenticated \in BOOLEAN
  BY DEF LoginInvariant, Types, LoginRecord
<1> QED
  BY <1>1, <1>2, <1>3, <1>4, <1>5 DEF TypeOK, LoginInvariant, Types, Places

\* What a call has returned to the client is so at the server.
LEMMA BeliefsHold ==
  ASSUME LoginInvariant
  PROVE  EndsAgree
<1>1. ASSUME NEW p \in Ends, pc[p] = "keyed" PROVE tr["client"].agreed = tr["server"].agreed
  BY <1>1 DEF LoginInvariant, Alike, Chosen
<1>2. pc["client"] \in {"authed", "opening", "open"} => grant.authenticated
  BY DEF LoginInvariant, Grants, Shut
<1>3. pc["client"] = "open" => lastOpen \in accepts \cap opened
  BY DEF LoginInvariant, Opening
<1>4. pc["client"] = "open" /\ chan.request = "shell" => shells.started > 0
  BY DEF LoginInvariant, Asking, Started
<1> QED
  BY <1>1, <1>2, <1>3, <1>4, TypesHold DEF EndsAgree

\* What the client believes is so, for any algorithms, methods and channels, and
\* whichever end leaves or falls silent: once a call has returned the ends use the
\* same algorithms, the server granted the login and accepted the very channel that
\* open_channel returned, and the shell that invoke_shell returned has its Actor.
THEOREM EndsDoAgree == Spec => []EndsAgree
<1>1. Init => LoginInvariant
  BY TypesInit, GrantsInit, HandlersInit, OrderInit, AlikeInit, OpeningInit, AskingInit, FailuresInit
     DEF LoginInvariant
<1>2. LoginInvariant /\ [Next]_vars => LoginInvariant'
  <2> SUFFICES ASSUME LoginInvariant, [Next]_vars PROVE LoginInvariant'
    OBVIOUS
  <2>1. Types' /\ Grants' /\ Handlers' /\ Order'
    BY TypesStep, GrantsStep, HandlersStep, OrderStep DEF LoginInvariant
  <2>2. Alike' /\ Opening' /\ Asking' /\ Failures'
    BY AlikeStep, OpeningStep, AskingStep, FailuresStep DEF LoginInvariant
  <2> QED
    BY <2>1, <2>2 DEF LoginInvariant
<1>3. LoginInvariant => EndsAgree
  BY BeliefsHold
<1> QED
  BY <1>1, <1>2, <1>3, PTL DEF Spec
=============================================================================
