---------------------------- MODULE ClientLogin ----------------------------
(***************************************************************************)
(* SSHClient._auth of the vendored paramiko: the keys, the password and    *)
(* the questions that a client tries one after the other, against a server *)
(* that may demand several of them.  The server answers every request by   *)
(* its ServerInterface, gives up after too many failures, and either end   *)
(* may lose the connection.                                                *)
(*                                                                         *)
(* A key is "good" if the server accepts it.  A key file holds a key of    *)
(* one class, is "locked" (or is no key file), or is "unreadable".         *)
(*                                                                         *)
(* The service request before each request, and who wakes whom, are in     *)
(* SshLogin.  GSS-API is left out.                                         *)
(***************************************************************************)
EXTENDS Integers, FiniteSets, SequencesExt

CONSTANTS
  Logins,     (* the arguments of _auth, with what the agent and ~/.ssh hold  *)
  Demands,    (* what the server asks for                                     *)
  MaxFails    (* auth_fail_count at which it disconnects: 10                  *)

Methods   == {"publickey", "password", "keyboard-interactive"}
TwoFactor == {"keyboard-interactive", "password"}      \* two_factor_types
Classes   == <<"rsa", "dss", "ecdsa">>

KeyFile == [class : Range(Classes), key : {"good", "other", "locked", "unreadable"}]

ASSUME LoginsAssumption ==
  /\ MaxFails \in Nat \ {0}
  /\ \A l \in Logins :
       /\ l.pkey \in {"none", "good", "other"}
       /\ \A i \in DOMAIN l.files : l.files[i] \in KeyFile
       /\ \A i \in DOMAIN l.agent : l.agent[i] \in {"good", "other"}
       /\ \A i \in DOMAIN l.found : l.found[i] \in KeyFile
       /\ l.password \in {"none", "right", "wrong"} /\ l.answers \in {"right", "wrong"}
  /\ \A d \in Demands :
       d.accept \subseteq SUBSET Methods /\ d.prompts \in Nat /\ d.rounds \in Nat \ {0}

VARIABLES
  args,      (* what this login was given                                     *)
  demand,    (* what this server demands: one of the sets in accept           *)
  todo,      (* the keys that _auth has still to try                          *)
  now,       (* the try whose answer it waits for, or Nothing                 *)
  two,       (* two_factor                                                    *)
  saved,     (* saved_exception                                               *)
  outcome,   (* "running", "returned", or what connect raises                 *)
  msg,       (* the message on its way                                        *)
  met,       (* the methods that the server has accepted                      *)
  fails,     (* auth_fail_count                                               *)
  link       (* "up"; "closed" by the server or lost; "down": the client has  *)
             (* noticed                                                       *)

clientVars == <<todo, now, two, saved, outcome>>
loginVars  == <<args, demand, clientVars, msg, met, fails, link>>

Nothing == [method |-> "none"]

Request(method, right) == [kind |-> "request", method |-> method, right |-> right]
Quiet == [kind |-> "none"]

-----------------------------------------------------------------------------
(* The plan of _auth *)

Try(from, file, key) == [from |-> from, file |-> file, key |-> key]

\* A file given by name is read as a key of each class in turn.
TriesOfFile(f, i) ==
  [ c \in 1 .. 3 |-> Try("file", i, IF f.key = "unreadable" THEN "unreadable"
                                    ELSE IF f.class = Classes[c] THEN f.key ELSE "locked") ]

Plan(l) ==
  (IF l.pkey = "none" THEN <<>> ELSE <<Try("pkey", 0, l.pkey)>>)
  \o FlattenSeq([ i \in DOMAIN l.files |-> TriesOfFile(l.files[i], i) ])
  \o [ i \in DOMAIN l.agent |-> Try("agent", 0, l.agent[i]) ]
  \o [ i \in DOMAIN l.found |-> Try("found", 0, l.found[i].key) ]

\* The sources after the first are looked at only if not two_factor; the loop
\* over the named files goes on whatever two_factor has become.
Skip(rest, twoFactor) ==
  IF twoFactor THEN SelectSeq(rest, LAMBDA t : t.from = "file") ELSE rest

\* break, after a partial success of the try t
Break(rest, t) == SelectSeq(Skip(rest, TRUE), LAMBDA u : t.from = "file" /\ u.file # t.file)

LoginInit ==
  /\ args \in Logins /\ demand \in Demands
  /\ todo = Plan(args) /\ now = Nothing /\ two = FALSE /\ saved = "none"
  /\ outcome = "running" /\ msg = Quiet
  /\ met = {} /\ fails = 0 /\ link = "up"

-----------------------------------------------------------------------------
(* The client *)

Running == outcome = "running" /\ now = Nothing

\* An exception of a try that _auth catches.
Caught(e) == saved' = e /\ todo' = Skip(Tail(todo), two)

\* The file cannot be read as a key of this class, or not at all: an IOError is
\* caught only for the files found in ~/.ssh.
LoadFails ==
  /\ Running /\ todo # <<>> /\ Head(todo).key \in {"locked", "unreadable"}
  /\ IF Head(todo).key = "unreadable" /\ Head(todo).from = "file"
       THEN outcome' = "IOError" /\ UNCHANGED <<saved, todo>>
       ELSE /\ Caught(IF Head(todo).key = "locked" THEN "SSHException" ELSE "IOError")
            /\ UNCHANGED outcome
  /\ UNCHANGED <<args, demand, now, two, msg, met, fails, link>>

\* Transport.auth_publickey
AuthPublickey ==
  /\ Running /\ todo # <<>> /\ Head(todo).key \in {"good", "other"}
  /\ IF link = "down"
       THEN Caught("SSHException") /\ UNCHANGED <<now, msg>>
       ELSE /\ now' = [method |-> "publickey", from |-> Head(todo).from, file |-> Head(todo).file]
            /\ todo' = Tail(todo)
            /\ msg' = IF link = "up" THEN Request("publickey", Head(todo).key = "good") ELSE msg
            /\ UNCHANGED saved
  /\ UNCHANGED <<args, demand, two, outcome, met, fails, link>>

\* auth_password, or auth_interactive_dumb for a second factor, which asks the
\* user; with neither, connect raises what it has.
LastMethod == IF args.password # "none" THEN "password" ELSE "keyboard-interactive"
Raise(e) == outcome' = IF e = "none" THEN "SSHException" ELSE e

AuthLast ==
  /\ Running /\ todo = <<>>
  /\ IF (args.password = "none" /\ ~two) \/ link = "down"
       THEN /\ Raise(IF args.password = "none" /\ ~two THEN saved ELSE "SSHException")
            /\ UNCHANGED <<now, msg>>
       ELSE /\ now' = [method |-> LastMethod]
            /\ msg' = IF link = "up" THEN Request(LastMethod, args.password = "right") ELSE msg
            /\ UNCHANGED outcome
  /\ UNCHANGED <<args, demand, todo, two, saved, met, fails, link>>

\* Seeded bug: the second factor is forgotten.
HearPartialOnly ==
  /\ msg.kind = "failure" /\ msg.partial /\ now # Nothing
  /\ now' = Nothing /\ msg' = Quiet
  /\ IF now.method # "publickey" \/ msg.allowed \cap TwoFactor = {}
       THEN outcome' = "returned" /\ UNCHANGED todo
       ELSE todo' = Break(todo, now) /\ UNCHANGED outcome
  /\ UNCHANGED <<args, demand, two, saved, met, fails, link>>

\* wait_for_response returns the methods that are left: a key that leaves none
\* of the second factors, and any password, ends _auth without an exception.
HearPartial ==
  /\ msg.kind = "failure" /\ msg.partial /\ now # Nothing
  /\ IF now.method # "publickey" \/ msg.allowed \cap TwoFactor = {}
       THEN outcome' = "returned" /\ UNCHANGED <<two, todo>>
       ELSE two' = TRUE /\ todo' = Break(todo, now) /\ UNCHANGED outcome
  /\ now' = Nothing /\ msg' = Quiet
  /\ UNCHANGED <<args, demand, saved, met, fails, link>>

HearSuccess ==
  /\ msg.kind = "success" /\ now # Nothing
  /\ outcome' = "returned" /\ now' = Nothing /\ msg' = Quiet
  /\ UNCHANGED <<args, demand, todo, two, saved, met, fails, link>>

\* Where passwords are not allowed and questions are, auth_password answers
\* them with the password.  A failure of that is forgotten.
MayFallBack == now.method = "password" /\ "password" \notin msg.allowed
               /\ "keyboard-interactive" \in msg.allowed

FallBack ==
  /\ msg.kind = "failure" /\ ~msg.partial /\ now # Nothing /\ MayFallBack /\ link = "up"
  /\ now' = [method |-> "keyboard-interactive"]
  /\ msg' = Request("keyboard-interactive", args.password = "right")
  /\ UNCHANGED <<args, demand, todo, two, saved, outcome, met, fails, link>>

\* AuthenticationException, or BadAuthenticationType, which is one
Refused ==
  /\ IF now.method # "publickey"
       THEN Raise("AuthenticationException") /\ UNCHANGED <<saved, todo>>
       ELSE /\ saved' = "AuthenticationException" /\ todo' = Skip(todo, two)
            /\ UNCHANGED outcome
  /\ now' = Nothing /\ msg' = Quiet

HearFailure ==
  /\ msg.kind = "failure" /\ ~msg.partial /\ now # Nothing
  /\ ~(MayFallBack /\ link = "up")
  /\ Refused
  /\ UNCHANGED <<args, demand, two, met, fails, link>>

\* _parse_userauth_info_request: the handler of the fallback raises in the
\* thread of the transport if there is more than one question.
Answer ==
  /\ msg.kind = "query" /\ now # Nothing
  /\ IF args.password # "none" /\ msg.prompts > 1
       THEN link' = "closed" /\ msg' = Quiet
       ELSE /\ msg' = [ kind |-> "response",
                         right |-> msg.prompts = 0 \/
                                   (IF args.password # "none" THEN args.password
                                    ELSE args.answers) = "right" ]
            /\ UNCHANGED link
  /\ UNCHANGED <<args, demand, clientVars, met, fails>>

\* The connection has gone while an answer was awaited, or before.
Notice ==
  /\ link = "closed" /\ msg = Quiet
  /\ link' = "down"
  /\ IF now = Nothing THEN UNCHANGED <<clientVars, msg>>
     ELSE Refused /\ UNCHANGED two
  /\ UNCHANGED <<args, demand, met, fails>>

-----------------------------------------------------------------------------
(* The server *)

Allowed(m) == UNION { A \ m : A \in {B \in demand.accept : m \subseteq B} }
Enough(m)  == \E A \in demand.accept : A \subseteq m
Granted    == Enough(met)

\* _send_auth_result: the last failure is followed by a DISCONNECT.
SendAuthResult(accepted) ==
  /\ met' = met \cup accepted
  /\ IF accepted # {} /\ Enough(met')
       THEN msg' = [kind |-> "success"] /\ UNCHANGED <<fails, link>>
       ELSE /\ msg' = [ kind |-> "failure", partial |-> accepted # {},
                         allowed |-> Allowed(met') ]
            /\ fails' = IF accepted = {} THEN fails + 1 ELSE fails
            /\ link' = IF fails' >= MaxFails THEN "closed" ELSE link

\* _parse_userauth_request: check_auth_password and check_auth_publickey say
\* whether it is what they demand, check_auth_interactive asks questions.
ParseRequest ==
  /\ msg.kind = "request"
  /\ IF msg.method = "keyboard-interactive" /\ msg.method \in Allowed(met)
       THEN /\ msg' = [kind |-> "query", prompts |-> demand.prompts]
            /\ UNCHANGED <<met, fails, link>>
       ELSE SendAuthResult({m \in {msg.method} : msg.right /\ m \in Allowed(met)})
  /\ UNCHANGED <<args, demand, clientVars>>

\* _parse_userauth_info_response: where check_auth_interactive_response asks
\* again, the test for an InteractiveQuery looks at the type of the result, and
\* the query is sent as a failure.
ParseInfoResponse ==
  /\ msg.kind = "response"
  /\ SendAuthResult({m \in {"keyboard-interactive"} : msg.right /\ demand.rounds = 1})
  /\ UNCHANGED <<args, demand, clientVars>>

Lose ==
  /\ link = "up" /\ outcome = "running"
  /\ link' = "closed" /\ msg' = Quiet
  /\ UNCHANGED <<args, demand, clientVars, met, fails>>

LoginNext ==
  \/ LoadFails \/ AuthPublickey \/ AuthLast
  \/ HearPartial \/ HearSuccess \/ HearFailure \/ FallBack \/ Answer \/ Notice
  \/ ParseRequest \/ ParseInfoResponse \/ Lose

LoginSpec == LoginInit /\ [][LoginNext]_loginVars

-----------------------------------------------------------------------------
(* Before the login: connect tries the addresses of the host in turn.  An   *)
(* answer of getaddrinfo has an address, and stands for how the attempt     *)
(* ends: "connected", "refused" (or unreachable), or "error".               *)

\* _families_and_addresses: those marked as streams, or all if none is.
FamiliesAndAddresses(infos) ==
  LET streams == SelectSeq(infos, LAMBDA x : x.stream)
  IN  IF streams = <<>> THEN infos ELSE streams

\* errors has one entry for each address: one that is listed twice makes the
\* count differ, and connect goes on with the last socket, unconnected.
Dial(infos) ==
  LET toTry == FamiliesAndAddresses(infos)
      ends == {i \in DOMAIN toTry : toTry[i].end # "refused"}
      errors == {toTry[i].addr : i \in DOMAIN toTry}
  IN  IF ends # {} THEN toTry[CHOOSE i \in ends : \A j \in ends : i <= j].end
      ELSE IF Cardinality(errors) = Len(toTry) THEN "NoValidConnectionsError"
      ELSE "unconnected"

\* Where no address is listed twice, connect goes on exactly if an address
\* accepts and no one before it fails in another way than by a refusal.
DialRight(infos) ==
  LET toTry == FamiliesAndAddresses(infos)
      Distinct == \A i, j \in DOMAIN toTry : toTry[i].addr = toTry[j].addr => i = j
      Accepts(i) == toTry[i].end = "connected" /\ \A j \in 1 .. i - 1 : toTry[j].end = "refused"
  IN  Distinct => /\ Dial(infos) # "unconnected"
                  /\ Dial(infos) = "connected" <=> \E i \in DOMAIN toTry : Accepts(i)

-----------------------------------------------------------------------------
HasGoodKey ==
  args.pkey = "good" \/ (\E i \in DOMAIN args.agent : args.agent[i] = "good")
  \/ \E f \in Range(args.files) \cup Range(args.found) : f.key = "good"

\* One of the sets that the server accepts can be met by keys, which are tried
\* first, and one more method, which is tried once.
Suffices ==
  \E A \in demand.accept :
    /\ "publickey" \in A => HasGoodKey
    /\ Cardinality(A \cap TwoFactor) <= 1
    /\ "password" \in A => args.password = "right"
    /\ "keyboard-interactive" \in A =>
         /\ demand.rounds = 1
         /\ IF args.password = "none"
              THEN "publickey" \in A /\ (demand.prompts = 0 \/ args.answers = "right")
              ELSE demand.prompts <= 1 /\ (demand.prompts = 0 \/ args.password = "right")

\* The server goes on asking: for another key, or after the last method.
AsksForMore ==
  /\ met # {} /\ ~Granted
  /\ Allowed(met) \cap TwoFactor = {} \/ met \cap TwoFactor # {}

\* connect returns only if the server has let the client in, or asks for more
\* than _auth can give.
ReturnsRightly == outcome = "returned" => Granted \/ AsksForMore

\* It raises only if what it was given does not suffice, if a file named cannot
\* be read, or if the connection was lost or closed after too many failures.
RaisesRightly ==
  outcome \in {"SSHException", "AuthenticationException"} /\ link = "up" => ~Suffices

LoginRight == ReturnsRightly /\ RaisesRightly
=============================================================================
