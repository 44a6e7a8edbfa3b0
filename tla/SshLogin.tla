------------------------------ MODULE SshLogin ------------------------------
(***************************************************************************)
(* How a client reaches the shell of the simulator: two paramiko           *)
(* transports exchange banners, agree on algorithms, exchange keys; the    *)
(* client authenticates, opens a channel and asks for a shell.  At each    *)
(* end there is the thread of the transport (Transport.run), which handles *)
(* what arrives, and the program, whose calls wait for it, most of them in *)
(* a loop that looks at `active` every tenth of a second.  The program of  *)
(* the server is sshim.Handler, called by the loop that accepts            *)
(* connections, and an Actor for each shell.                               *)
(*                                                                         *)
(* An end may lose the connection, or fall silent: it does nothing more,   *)
(* and the connection stays.                                               *)
(*                                                                         *)
(* Left out: a new key exchange (see SshChannel), group exchange and       *)
(* GSS-API, the signature of a public key, calls that are given an event,  *)
(* a client that changes its user name, global requests, and the data of   *)
(* the channel.                                                            *)
(***************************************************************************)
EXTENDS Integers, Sequences, SequencesExt

CONSTANTS
  Offers,      (* Offers[p]: the lists of algorithms that p may prefer        *)
  Accepted,    (* the methods that a check_auth_* of the server accepts       *)
  Methods,     (* the methods that the client may try                         *)
  Kinds,       (* the kinds of channel that the client may ask for            *)
  Requests,    (* the requests it may make on its channel                     *)
  Allowed,     (* those that a check_channel_*_request of the server allows   *)
  MaxFails,    (* auth_fail_count at which the server disconnects: 10         *)
  MaxTries,    (* bound on the logins that the client tries                   *)
  MaxOpens,    (* bound on the channels that it asks for                      *)
  MaxAsks,     (* bound on the requests that it makes                         *)
  Faulty       (* the ends that may fall silent or lose the connection        *)

Ends == {"client", "server"}

ASSUME LoginAssumption ==
  /\ \A p \in Ends : Offers[p] # {} /\ \A o \in Offers[p] : o # <<>>
  /\ Accepted \subseteq Methods /\ Allowed \subseteq Requests
  /\ MaxFails \in Nat \ {0} /\ {MaxTries, MaxOpens, MaxAsks} \subseteq Nat
  /\ Faulty \subseteq Ends

VARIABLES
  tr,          (* tr[p]: the attributes of the Transport object of p          *)
  net,         (* net[p]: what is on its way to p                             *)
  pc,          (* pc[p]: where the program of p is                            *)
  login,       (* the AuthHandler of the client                               *)
  grant,       (* the AuthHandler of the server                               *)
  tries,       (* how many logins the client has tried                        *)
  channels,    (* channels[p]: _channels, by the number that the client gave  *)
  opened,      (* the channels of the client that were confirmed              *)
  events,      (* the events of channel_events that are set                   *)
  lastOpen,    (* the number of the channel asked for last: _channel_counter  *)
  accepts,     (* server_accepts                                              *)
  chan,        (* the Channel object of the client, number lastOpen           *)
  closed,      (* closed[p]: Channel.closed of that channel                   *)
  asks,        (* how many requests were made on it                           *)
  shells,      (* shells.started: the actors that were started on it, and     *)
               (* shells.running: those that have not ended                   *)
  owed,        (* the reply that the thread of the server is about to send    *)
  silent       (* the ends that have fallen silent                            *)

authVars == <<login, grant, tries>>
openVars == <<channels, opened, events, lastOpen, accepts>>
shellVars == <<chan, closed, asks, shells, owed>>
vars == <<tr, net, pc, authVars, openVars, shellVars, silent>>

Other(p) == IF p = "client" THEN "server" ELSE "client"

Active(p) == tr[p].stage \in {"banner", "packets"}
Awake(p)  == p \notin silent

Msg(kind, arg) == [kind |-> kind, arg |-> arg]
Note(kind)     == Msg(kind, 0)

\* The thread of the transport is not in the middle of a handler.
Idle(p) == p = "client" \/ owed = "nothing"

AuthKinds == {"service", "accept", "request", "success", "failure"}

Transport(offer) ==
  [ stage |-> "idle", offer |-> offer, agreed |-> <<>>, expected |-> {}, timer |-> "off",
    done |-> FALSE, handler |-> FALSE ]

Init ==
  /\ \E c \in Offers["client"], s \in Offers["server"] :
       tr = [p \in Ends |-> Transport(IF p = "client" THEN c ELSE s)]
  /\ net = [p \in Ends |-> <<>>]
  /\ pc = [p \in Ends |-> "idle"]
  /\ login = [method |-> "none", event |-> FALSE, authenticated |-> FALSE]
  /\ grant = [authenticated |-> FALSE, fails |-> 0]
  /\ tries = 0
  /\ channels = [p \in Ends |-> {}] /\ opened = {} /\ events = {}
  /\ lastOpen = 0 /\ accepts = {}
  /\ chan = [event |-> FALSE, ready |-> FALSE, request |-> "none"]
  /\ closed = [p \in Ends |-> TRUE]
  /\ asks = 0 /\ shells = [started |-> 0, running |-> 0] /\ owed = "nothing"
  /\ silent = {}

Goto(p, at) == pc' = [pc EXCEPT ![p] = at]

\* What is sent to an end that has closed its socket is lost.
ToOther(p, msgs) ==
  IF tr[Other(p)].stage = "gone" THEN net ELSE [net EXCEPT ![Other(p)] = @ \o msgs]

Send(p, msgs) == net' = ToOther(p, msgs)

\* The head of net[p] is taken, and p answers.
Answer(p, msgs) == net' = [ToOther(p, msgs) EXCEPT ![p] = Tail(@)]

-----------------------------------------------------------------------------
(* The end of Transport.run                                                *)

\* _set_closed, once: it sets the event of the channel.
SetClosed(p) ==
  /\ closed' = [closed EXCEPT ![p] = TRUE]
  /\ chan' = [chan EXCEPT !.event = @ \/ (p = "client" /\ ~closed[p])]

\* Channel._unlink of every channel
Unlink(p) ==
  /\ SetClosed(p)
  /\ channels' = [channels EXCEPT ![p] = {}]
  /\ net' = [net EXCEPT ![p] = <<>>]

\* An exception in the thread: every event is set, after active was cleared.
EndRun(p) ==
  /\ tr' = [tr EXCEPT ![p].stage = "gone", ![p].done = TRUE]
  /\ Unlink(p)
  /\ login'  = IF p = "client" THEN [login EXCEPT !.event = TRUE] ELSE login
  /\ events' = IF p = "client" THEN channels[p] ELSE events
  /\ UNCHANGED <<pc, grant, tries, opened, lastOpen, accepts, asks, shells, owed, silent>>

\* Transport.close: active is FALSE before the thread ends, and no event is set.
Close ==
  /\ Awake("client") /\ Active("client") /\ pc["client"] \in {"keyed", "authed", "open", "failed"}
  /\ tr' = [tr EXCEPT !["client"].stage = "gone"]
  /\ Unlink("client")
  /\ UNCHANGED <<pc, authVars, opened, events, lastOpen, accepts, asks, shells, owed, silent>>

Lose(p) == p \in Faulty /\ Active(p) /\ Awake(p) /\ Idle(p) /\ EndRun(p)

FallSilent(p) ==
  /\ p \in Faulty /\ silent = {}
  /\ silent' = {p}
  /\ UNCHANGED <<tr, net, pc, authVars, openVars, shellVars>>

\* EOFError, when the other end has closed its socket
HangUp(p) ==
  /\ Awake(p) /\ Active(p) /\ Idle(p)
  /\ tr[Other(p)].stage = "gone" /\ net[p] = <<>>
  /\ EndRun(p)

\* _check_banner: banner_timeout
BannerTimeout(p) == Awake(p) /\ tr[p].stage = "banner" /\ EndRun(p)

\* read_all: handshake_timed_out
HandshakeTimeout(p) ==
  /\ Awake(p) /\ Active(p) /\ tr[p].timer = "running"
  /\ EndRun(p)

-----------------------------------------------------------------------------
(* The thread of the transport: what arrives                               *)

Arrives(p, kind) ==
  /\ Awake(p) /\ Active(p) /\ Idle(p)
  /\ net[p] # <<>> /\ Head(net[p]).kind = kind

\* The program starts the transport, which sends its banner.
Start(p) ==
  /\ Awake(p) /\ pc[p] = "idle"
  /\ Goto(p, "starting")
  /\ tr' = [tr EXCEPT ![p].stage = "banner"]
  /\ Send(p, <<Note("banner")>>)
  /\ UNCHANGED <<authVars, openVars, shellVars, silent>>

\* _check_banner, start_handshake, _send_kex_init
CheckBanner(p) ==
  /\ Arrives(p, "banner")
  /\ tr' = [tr EXCEPT ![p].stage = "packets", ![p].expected = {"kexinit"},
                      ![p].timer = "running"]
  /\ Answer(p, <<Msg("kexinit", tr[p].offer)>>)
  /\ UNCHANGED <<pc, authVars, openVars, shellVars, silent>>

\* Those of a list that are in the other one too, in the order of the first
Common(list, other) == SelectSeq(list, LAMBDA a : a \in ToSet(other))

\* _parse_kex_init: the order of the client decides.  One list stands for
\* those of the key exchanges, host keys, ciphers, macs and compressions.
Agreement(p, theirs) ==
  IF p = "server" THEN Common(theirs, tr[p].offer) ELSE Common(tr[p].offer, theirs)

\* _negotiate_keys and start_kex; an SSHException if nothing is in common.
\* complete_handshake clears the timer, as it does after most packets.
NegotiateKeys(p) ==
  /\ Arrives(p, "kexinit")
  /\ LET common == Agreement(p, Head(net[p]).arg)
     IN  IF common = <<>> THEN EndRun(p)
         ELSE /\ tr' = [tr EXCEPT ![p].agreed = <<Head(common)>>, ![p].timer = "done",
                          ![p].expected = IF p = "server" THEN {"dhinit"} ELSE {"dhreply"}]
              /\ Answer(p, IF p = "server" THEN <<>> ELSE <<Note("dhinit")>>)
              /\ UNCHANGED <<pc, authVars, openVars, shellVars, silent>>

\* _parse_kexdh_init, and _activate_outbound
KexDhInit(p) ==
  /\ Arrives(p, "dhinit")
  /\ tr' = [tr EXCEPT ![p].expected = {"newkeys"}]
  /\ Answer(p, <<Note("dhreply"), Note("newkeys")>>)
  /\ UNCHANGED <<pc, authVars, openVars, shellVars, silent>>

\* _parse_kexdh_reply, and _activate_outbound
KexDhReply(p) ==
  /\ Arrives(p, "dhreply")
  /\ tr' = [tr EXCEPT ![p].expected = {"newkeys"}]
  /\ Answer(p, <<Note("newkeys")>>)
  /\ UNCHANGED <<pc, authVars, openVars, shellVars, silent>>

\* Seeded bug: the server leaves its AuthHandler to the program.
ParseNewKeysNoHandler(p) ==
  /\ Arrives(p, "newkeys")
  /\ tr' = [tr EXCEPT ![p].expected = {}, ![p].done = TRUE]
  /\ Answer(p, <<>>)
  /\ UNCHANGED <<pc, authVars, openVars, shellVars, silent>>

\* _parse_newkeys: completion_event is set, and the server gets its AuthHandler.
ParseNewKeys(p) ==
  /\ Arrives(p, "newkeys")
  /\ tr' = [tr EXCEPT ![p].expected = {}, ![p].done = TRUE, ![p].handler = @ \/ p = "server"]
  /\ Answer(p, <<>>)
  /\ UNCHANGED <<pc, authVars, openVars, shellVars, silent>>

ParseServiceRequest(p) ==
  /\ Arrives(p, "service")
  /\ Answer(p, <<Note("accept")>>)
  /\ UNCHANGED <<tr, pc, authVars, openVars, shellVars, silent>>

ParseServiceAccept(p) ==
  /\ Arrives(p, "accept")
  /\ Answer(p, <<Msg("request", login.method)>>)
  /\ UNCHANGED <<tr, pc, authVars, openVars, shellVars, silent>>

\* _parse_userauth_request: the method is accepted.
GrantLogin(p) ==
  /\ Arrives(p, "request") /\ ~grant.authenticated /\ Head(net[p]).arg \in Accepted
  /\ grant' = [grant EXCEPT !.authenticated = TRUE]
  /\ Answer(p, <<Note("success")>>)
  /\ UNCHANGED <<tr, pc, login, tries, openVars, shellVars, silent>>

\* _send_auth_result: after too many failures the server disconnects, and
\* closes the transport without setting an event.
RefuseLogin(p) ==
  /\ Arrives(p, "request") /\ ~grant.authenticated /\ Head(net[p]).arg \notin Accepted
  /\ grant' = [grant EXCEPT !.fails = @ + 1]
  /\ IF grant'.fails >= MaxFails
       THEN /\ tr' = [tr EXCEPT ![p].stage = "gone"]
            /\ Answer(p, <<Note("failure"), Note("disconnect")>>)
       ELSE /\ Answer(p, <<Note("failure")>>)
            /\ UNCHANGED tr
  /\ UNCHANGED <<pc, login, tries, openVars, shellVars, silent>>

ParseSuccess(p) ==
  /\ Arrives(p, "success")
  /\ login' = [login EXCEPT !.authenticated = TRUE, !.event = TRUE]
  /\ Answer(p, <<>>)
  /\ UNCHANGED <<tr, pc, grant, tries, openVars, shellVars, silent>>

ParseFailure(p) ==
  /\ Arrives(p, "failure")
  /\ login' = [login EXCEPT !.authenticated = FALSE, !.event = TRUE]
  /\ Answer(p, <<>>)
  /\ UNCHANGED <<tr, pc, grant, tries, openVars, shellVars, silent>>

\* MSG_DISCONNECT: active is FALSE before the end of run, and no event is set.
ParseDisconnect(p) ==
  /\ Arrives(p, "disconnect")
  /\ tr' = [tr EXCEPT ![p].stage = "gone"]
  /\ Unlink(p)
  /\ UNCHANGED <<pc, authVars, opened, events, lastOpen, accepts, asks, shells, owed, silent>>

\* _parse_channel_open: check_channel_request grants a session and nothing else.
ParseChannelOpen(p) ==
  /\ Arrives(p, "open")
  /\ LET id == Head(net[p]).arg.id
     IN  IF Head(net[p]).arg.kind = "session"
           THEN /\ channels' = [channels EXCEPT ![p] = @ \cup {id}]
                /\ accepts' = accepts \cup {id}
                /\ closed' = [closed EXCEPT ![p] = FALSE]
                /\ Answer(p, <<Msg("opened", id)>>)
           ELSE /\ Answer(p, <<Msg("refused", id)>>)
                /\ UNCHANGED <<channels, accepts, closed>>
  /\ UNCHANGED <<tr, pc, authVars, opened, events, lastOpen, chan, asks, shells, owed, silent>>

ParseOpenSuccess(p) ==
  /\ Arrives(p, "opened")
  /\ opened' = opened \cup {Head(net[p]).arg}
  /\ events' = events \cup {Head(net[p]).arg}
  /\ Answer(p, <<>>)
  /\ UNCHANGED <<tr, pc, authVars, channels, lastOpen, accepts, shellVars, silent>>

ParseOpenFailure(p) ==
  /\ Arrives(p, "refused")
  /\ channels' = [channels EXCEPT ![p] = @ \ {Head(net[p]).arg}]
  /\ events' = events \cup {Head(net[p]).arg}
  /\ Answer(p, <<>>)
  /\ UNCHANGED <<tr, pc, authVars, opened, lastOpen, accepts, shellVars, silent>>

\* _handle_request; a shell has its Actor before the reply is sent.  A request
\* on a channel that was unlinked is ignored.
HandleRequest(p) ==
  /\ Arrives(p, "ask")
  /\ LET ask == Head(net[p]).arg
     IN  IF ask.id \in channels[p]
           THEN /\ owed' = IF ask.request \in Allowed THEN "granted" ELSE "denied"
                /\ shells' = IF ask.request # "shell" THEN shells
                             ELSE [started |-> shells.started + 1, running |-> shells.running + 1]
           ELSE UNCHANGED <<owed, shells>>
  /\ Answer(p, <<>>)
  /\ UNCHANGED <<tr, pc, authVars, openVars, chan, closed, asks, silent>>

SendReply(p) ==
  /\ p = "server" /\ Awake(p) /\ owed # "nothing"
  /\ net' = IF Active(p) THEN ToOther(p, <<Msg(owed, lastOpen)>>) ELSE net
  /\ owed' = "nothing"
  /\ UNCHANGED <<tr, pc, authVars, openVars, chan, closed, asks, shells, silent>>

\* _request_success; _request_failed, which closes the channel
RequestSuccess(p) ==
  /\ Arrives(p, "granted")
  /\ chan' = IF Head(net[p]).arg \in channels[p]
               THEN [chan EXCEPT !.ready = TRUE, !.event = TRUE] ELSE chan
  /\ Answer(p, <<>>)
  /\ UNCHANGED <<tr, pc, authVars, openVars, closed, asks, shells, owed, silent>>

RequestFailed(p) ==
  /\ Arrives(p, "denied")
  /\ IF Head(net[p]).arg \in channels[p] /\ ~closed[p]
       THEN SetClosed(p) /\ Answer(p, <<Msg("close", Head(net[p]).arg)>>)
       ELSE Answer(p, <<>>) /\ UNCHANGED <<chan, closed>>
  /\ UNCHANGED <<tr, pc, authVars, openVars, asks, shells, owed, silent>>

\* _handle_close; "close" stands for the two messages of _close_internal
HandleClose(p) ==
  /\ Arrives(p, "close")
  /\ LET id == Head(net[p]).arg
     IN  IF id \in channels[p]
           THEN /\ channels' = [channels EXCEPT ![p] = @ \ {id}]
                /\ SetClosed(p)
                /\ Answer(p, IF closed[p] THEN <<>> ELSE <<Msg("close", id)>>)
           ELSE Answer(p, <<>>) /\ UNCHANGED <<channels, chan, closed>>
  /\ UNCHANGED <<tr, pc, authVars, opened, events, lastOpen, accepts, asks, shells, owed, silent>>

\* Actor.run closes the channel when its session is over.
ActorEnds(p) ==
  /\ p = "server" /\ Awake(p) /\ shells.running > 0
  /\ shells' = [shells EXCEPT !.running = @ - 1]
  /\ IF closed[p] THEN UNCHANGED <<closed, net>>
       ELSE /\ closed' = [closed EXCEPT ![p] = TRUE]
            /\ Send(p, <<Msg("close", lastOpen)>>)
  /\ UNCHANGED <<tr, pc, authVars, openVars, chan, asks, owed, silent>>

TransportStep(p) ==
  \/ CheckBanner(p) \/ NegotiateKeys(p) \/ KexDhInit(p) \/ KexDhReply(p) \/ ParseNewKeys(p)
  \/ ParseServiceRequest(p) \/ ParseServiceAccept(p)
  \/ GrantLogin(p) \/ RefuseLogin(p) \/ ParseSuccess(p) \/ ParseFailure(p)
  \/ ParseChannelOpen(p) \/ ParseOpenSuccess(p) \/ ParseOpenFailure(p)
  \/ HandleRequest(p) \/ SendReply(p) \/ RequestSuccess(p) \/ RequestFailed(p)
  \/ HandleClose(p) \/ ParseDisconnect(p)
  \/ HangUp(p) \/ BannerTimeout(p) \/ HandshakeTimeout(p)

-----------------------------------------------------------------------------
(* The programs: start_client and start_server, auth_*, open_channel,      *)
(* get_pty, invoke_shell and exec_command                                  *)

StartReturns(p) ==
  /\ Awake(p) /\ pc[p] = "starting"
  /\ \/ ~Active(p) /\ Goto(p, "failed")
     \/ Active(p) /\ tr[p].done /\ Goto(p, "keyed")
  /\ UNCHANGED <<tr, net, authVars, openVars, shellVars, silent>>

\* A new AuthHandler for each login; it asks for the service first.
Login ==
  /\ Awake("client") /\ Active("client") /\ pc["client"] = "keyed"
  /\ tries < MaxTries
  /\ tries' = tries + 1
  /\ \E m \in Methods :
       login' = [method |-> m, event |-> FALSE, authenticated |-> FALSE]
  /\ tr' = [tr EXCEPT !["client"].handler = TRUE]
  /\ Send("client", <<Note("service")>>)
  /\ Goto("client", "authenticating")
  /\ UNCHANGED <<grant, openVars, shellVars, silent>>

\* Seeded bug: it waits for the event alone.
LoginReturnsByEvent ==
  /\ Awake("client") /\ pc["client"] = "authenticating" /\ login.event
  /\ Goto("client", IF Active("client") /\ login.authenticated THEN "authed" ELSE "keyed")
  /\ UNCHANGED <<tr, net, authVars, openVars, shellVars, silent>>

\* wait_for_response
LoginReturns ==
  /\ Awake("client") /\ pc["client"] = "authenticating"
  /\ \/ ~Active("client") /\ Goto("client", "failed")
     \/ /\ Active("client") /\ login.event
        /\ Goto("client", IF login.authenticated THEN "authed" ELSE "keyed")
  /\ UNCHANGED <<tr, net, authVars, openVars, shellVars, silent>>

OpenChannel ==
  /\ Awake("client") /\ Active("client") /\ pc["client"] = "authed"
  /\ lastOpen < MaxOpens
  /\ lastOpen' = lastOpen + 1
  /\ channels' = [channels EXCEPT !["client"] = @ \cup {lastOpen'}]
  /\ \E k \in Kinds :
       Send("client", <<Msg("open", [id |-> lastOpen', kind |-> k])>>)
  /\ chan' = [event |-> FALSE, ready |-> FALSE, request |-> "none"]
  /\ closed' = [closed EXCEPT !["client"] = FALSE]
  /\ Goto("client", "opening")
  /\ UNCHANGED <<tr, authVars, opened, events, accepts, asks, shells, owed, silent>>

\* Seeded bug: one event for all channels.
OpenReturnsAny ==
  /\ Awake("client") /\ pc["client"] = "opening"
  /\ \/ ~Active("client") /\ Goto("client", "failed")
     \/ /\ Active("client") /\ events # {}
        /\ Goto("client", IF lastOpen \in channels["client"] THEN "open" ELSE "authed")
  /\ UNCHANGED <<tr, net, authVars, openVars, shellVars, silent>>

\* The event of the channel is set; the channel is there unless it was refused.
OpenReturns ==
  /\ Awake("client") /\ pc["client"] = "opening"
  /\ \/ ~Active("client") /\ Goto("client", "failed")
     \/ /\ Active("client") /\ lastOpen \in events
        /\ Goto("client", IF lastOpen \in channels["client"] THEN "open" ELSE "authed")
  /\ UNCHANGED <<tr, net, authVars, openVars, shellVars, silent>>

\* After an hour open_channel raises; its channel stays in _channels.
OpenTimeout ==
  /\ Awake("client") /\ Active("client")
  /\ pc["client"] = "opening" /\ lastOpen \notin events
  /\ Goto("client", "authed")
  /\ UNCHANGED <<tr, net, authVars, openVars, shellVars, silent>>

\* open_only finds the channel open.
Ask ==
  /\ Awake("client") /\ pc["client"] = "open" /\ ~closed["client"]
  /\ asks < MaxAsks
  /\ asks' = asks + 1
  /\ \E r \in Requests : chan' = [chan EXCEPT !.request = r]
  /\ Goto("client", "asking")
  /\ UNCHANGED <<tr, net, authVars, openVars, closed, shells, owed, silent>>

\* _event_pending, and the request
AskSends ==
  /\ Awake("client") /\ pc["client"] = "asking"
  /\ chan' = [chan EXCEPT !.event = FALSE, !.ready = FALSE]
  /\ net' = IF Active("client")
              THEN ToOther("client", <<Msg("ask", [id |-> lastOpen, request |-> chan.request])>>)
              ELSE net
  /\ Goto("client", "requesting")
  /\ UNCHANGED <<tr, authVars, openVars, closed, asks, shells, owed, silent>>

\* _wait_for_event: event_ready, or an exception
AskReturns ==
  /\ Awake("client") /\ pc["client"] = "requesting" /\ chan.event
  /\ Goto("client", IF chan.ready THEN "open" ELSE "failed")
  /\ UNCHANGED <<tr, net, authVars, openVars, shellVars, silent>>

Return(p) ==
  \/ StartReturns(p)
  \/ p = "client" /\ (LoginReturns \/ OpenReturns \/ OpenTimeout \/ AskSends \/ AskReturns)

-----------------------------------------------------------------------------
Next ==
  \/ \E p \in Ends :
       \/ Start(p) \/ TransportStep(p) \/ Return(p)
       \/ ActorEnds(p) \/ Lose(p) \/ FallSilent(p)
  \/ Login \/ OpenChannel \/ Ask \/ Close

Spec == Init /\ [][Next]_vars

\* Threads are scheduled, and the timers that were started fire.
Fairness ==
  \A p \in Ends :
    /\ WF_vars(TransportStep(p))
    /\ WF_vars(BannerTimeout(p))
    /\ WF_vars(HandshakeTimeout(p))
    /\ WF_vars(Return(p))

FairSpec == Spec /\ Fairness

-----------------------------------------------------------------------------
\* Every variable has a value of its type; the failures stay within the ten
\* that are allowed.
TypeOK ==
  /\ \A p \in Ends :
       /\ tr[p].stage \in {"idle", "banner", "packets", "gone"}
       /\ tr[p].timer \in {"off", "running", "done"}
       /\ tr[p].done \in BOOLEAN /\ tr[p].handler \in BOOLEAN
       /\ Len(tr[p].agreed) <= 1
  /\ pc \in [Ends -> { "idle", "starting", "keyed", "failed", "authenticating",
                       "authed", "opening", "open", "asking", "requesting" }]
  /\ login.event \in BOOLEAN /\ login.authenticated \in BOOLEAN
  /\ grant \in [authenticated : BOOLEAN, fails : 0 .. MaxFails]
  /\ closed \in [Ends -> BOOLEAN] /\ owed \in {"nothing", "granted", "denied"}
  /\ shells \in [started : 0 .. MaxAsks, running : 0 .. MaxAsks]
  /\ accepts \subseteq 1 .. lastOpen /\ opened \subseteq 1 .. lastOpen

\* What the client believes is so: the ends use the same algorithms, a login
\* that returned without an exception was granted, the channel that
\* open_channel returned is the one the server has accepted, also after another
\* one was refused or answered too late, and a shell that invoke_shell returned
\* has its Actor.
EndsAgree ==
  /\ TypeOK
  /\ \A p \in Ends : pc[p] = "keyed" => tr["client"].agreed = tr["server"].agreed
  /\ pc["client"] \in {"authed", "opening", "open"} => grant.authenticated
  /\ pc["client"] = "open" => lastOpen \in accepts \cap opened
  /\ pc["client"] = "open" /\ chan.request = "shell" => shells.started > 0

\* The kinds that run hands on: those that are expected, if any are, and the
\* messages of the AuthHandler once there is one.
Admitted(p) ==
  IF tr[p].stage = "banner" THEN {"banner"}
  ELSE {"disconnect"} \cup
       IF tr[p].expected # {} THEN tr[p].expected
       ELSE { "kexinit", "newkeys", "open", "opened", "refused", "ask", "granted",
               "denied", "close" }
              \cup (IF tr[p].handler THEN AuthKinds ELSE {})

\* "Expecting packet from" and "Oops, unhandled type": two ends that run this
\* code never send each other what the receiver does not handle, however early
\* one of them goes on.
NothingRefused ==
  \A p \in Ends : Active(p) /\ net[p] # <<>> => Head(net[p]).kind \in Admitted(p)

\* A call returns, whatever the other end does: also when it has disconnected,
\* which sets no event.  An end that is silent can only hold up the wait for the
\* keys, once a packet has cleared the timer of the handshake, and the waits for
\* a login and for a reply, which have no timeout.  The last one also misses a
\* close that comes before it has cleared the event (channel.py:1072).
CallsReturn ==
  \A p \in Ends :
    []<>(pc[p] \in {"starting", "authenticating", "opening", "asking", "requesting"}
           /\ Awake(p) =>
           \/ /\ Other(p) \in silent
              /\ \/ pc[p] \in {"authenticating", "requesting"}
                 \/ pc[p] = "starting" /\ tr[p].timer = "done"
           \/ pc[p] = "requesting" /\ closed[p] /\ ~chan.event)
=============================================================================
