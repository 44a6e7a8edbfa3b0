------------------------------ MODULE Console ------------------------------
(***************************************************************************)
(* The console of the simulator: the loop that serves a session            *)
(* (SSHHandler.handle_command, sshsrv.py) and the commands it dispatches   *)
(* (Command_Handler.handle_command, command.py).                           *)
(*                                                                         *)
(* Every session is a thread, and all of them share one SSHHandler with    *)
(* its response string, one Command_Handler with its command_history, and  *)
(* the queue common.msg_queue, to which the commands and the sensor        *)
(* threads write what the user is to see.  A step touches one of these at  *)
(* most.                                                                   *)
(*                                                                         *)
(* A command is identified by the position at which it was issued.  A      *)
(* message is [of, shows]: the command that produced it, 0 for a warning   *)
(* of a sensor thread, and the recorded command that a line of "history"   *)
(* shows, 0 for any other text.                                            *)
(***************************************************************************)
EXTENDS Integers, Sequences, FiniteSets

CONSTANTS
  Sessions,     (* the clients that may be connected                          *)
  Kinds,        (* the kinds of commands that they type, see KindSet          *)
  Limit,        (* how many commands the history keeps: 30 in the code        *)
  MaxCommands,  (* bound on the commands typed                                *)
  MaxWarnings   (* bound on the warnings of sensor threads                    *)

\* help     puts one message and is recorded
\* quiet    puts nothing and is recorded ("sensor value set" that succeeds)
\* illegal  puts one message and is not recorded
\* history  puts one message for each recorded command
\* raising  puts one message and then raises, which the session swallows
\*          ("sensor info", which stops at a sensor whose event type is NA)
KindSet == {"help", "quiet", "illegal", "history", "raising"}

ASSUME ConsoleAssumption ==
  /\ Kinds \subseteq KindSet
  /\ Limit \in Nat \ {0}
  /\ MaxCommands \in Nat
  /\ MaxWarnings \in Nat
  /\ IsFiniteSet(Sessions)

VARIABLES
  queue,      (* common.msg_queue                                             *)
  response,   (* SSHHandler.response, as the sequence of its messages         *)
  history,    (* Command_Handler.command_history                              *)
  pc,         (* pc[c]: where the thread of session c is                      *)
  cmd,        (* cmd[c]: its command, [id, kind]                              *)
  num,        (* num[c]: the length of the history it read                    *)
  idx,        (* idx[c]: the index of handle_history                          *)
  held,       (* held[c]: the message it is about to put or to save           *)
  loaded,     (* loaded[c]: the response it has read and is about to extend   *)
  issued,     (* how many commands were typed                                 *)
  warned,     (* how many warnings were put                                   *)
  delivered,  (* what was ever written to a client                            *)
  recorded    (* what was ever appended to the history                        *)

shared == <<queue, response, history>>
locals == <<cmd, num, idx, held, loaded>>
bounds == <<issued, warned>>
ghosts == <<delivered, recorded>>
vars   == <<shared, pc, locals, bounds, ghosts>>

Message == [of : 0 .. MaxCommands, shows : 0 .. MaxCommands]
NoMessage == [of |-> 0, shows |-> 0]
NoCommand == [id |-> 0, kind |-> "quiet"]

Text(c) == [of |-> cmd[c].id, shows |-> 0]

Goto(c, label) == pc' = [pc EXCEPT ![c] = label]

\* Queue.put
Put(m) == queue' = Append(queue, m)

Init ==
  /\ queue = <<>> /\ response = <<>> /\ history = <<>>
  /\ pc = [c \in Sessions |-> "closed"]
  /\ cmd = [c \in Sessions |-> NoCommand]
  /\ num = [c \in Sessions |-> 0]
  /\ idx = [c \in Sessions |-> 0]
  /\ held = [c \in Sessions |-> NoMessage]
  /\ loaded = [c \in Sessions |-> <<>>]
  /\ issued = 0 /\ warned = 0
  /\ delivered = <<>> /\ recorded = <<>>

-----------------------------------------------------------------------------
(* The session: handle_command of sshsrv.py.                               *)

\* A shell request starts the thread of the session, which greets.
Login(c) ==
  /\ pc[c] = "closed"
  /\ Goto(c, "prompt")
  /\ UNCHANGED <<shared, locals, bounds, ghosts>>

\* self.response = '' at the head of the loop
Prompt(c) ==
  /\ pc[c] = "prompt"
  /\ response' = <<>>
  /\ Goto(c, "read")
  /\ UNCHANGED <<queue, history, locals, bounds, ghosts>>

\* A line that is not empty is read and given to usingHandler.
Receive(c) ==
  /\ pc[c] = "read"
  /\ issued < MaxCommands
  /\ issued' = issued + 1
  /\ \E k \in Kinds : cmd' = [cmd EXCEPT ![c] = [id |-> issued', kind |-> k]]
  /\ Goto(c, "dispatch")
  /\ UNCHANGED <<shared, num, idx, held, loaded, warned, ghosts>>

\* "quit", or the EOFError of a client that disconnects
Leave(c) ==
  /\ pc[c] = "read"
  /\ Goto(c, "closed")
  /\ UNCHANGED <<shared, locals, bounds, ghosts>>

-----------------------------------------------------------------------------
(* The command: handle_command of command.py.                              *)

\* num = len(self.command_history), and the dispatch on the first word
Dispatch(c) ==
  /\ pc[c] = "dispatch"
  /\ num' = [num EXCEPT ![c] = Len(history)]
  /\ idx' = [idx EXCEPT ![c] = 0]
  /\ Goto(c, CASE cmd[c].kind = "quiet"   -> "trim"
               [] cmd[c].kind = "history" -> "list"
               [] OTHER                   -> "put")
  /\ UNCHANGED <<shared, cmd, held, loaded, bounds, ghosts>>

\* Seeded bug: an illegal command is recorded as well.
PutTextRecordAll(c) ==
  /\ pc[c] = "put"
  /\ Put(Text(c))
  /\ Goto(c, IF cmd[c].kind = "raising" THEN "prompt" ELSE "trim")
  /\ UNCHANGED <<response, history, locals, bounds, delivered, recorded>>

PutText(c) ==
  /\ pc[c] = "put"
  /\ Put(Text(c))
  /\ Goto(c, CASE cmd[c].kind = "help"    -> "trim"
               [] cmd[c].kind = "illegal" -> "drain"
               [] cmd[c].kind = "raising" -> "prompt")
  /\ UNCHANGED <<response, history, locals, bounds, delivered, recorded>>

\* for i in range(0, 30): self.command_history[i], until IndexError
ListEntry(c) ==
  /\ pc[c] = "list"
  /\ IF idx[c] < Limit /\ idx[c] < Len(history)
       THEN /\ held' = [held EXCEPT ![c] = [Text(c) EXCEPT !.shows = history[idx[c] + 1]]]
            /\ Goto(c, "putEntry")
       ELSE Goto(c, "trim") /\ UNCHANGED held
  /\ UNCHANGED <<shared, cmd, num, idx, loaded, bounds, ghosts>>

PutEntry(c) ==
  /\ pc[c] = "putEntry"
  /\ Put(held[c])
  /\ held' = [held EXCEPT ![c] = NoMessage]
  /\ idx' = [idx EXCEPT ![c] = @ + 1]
  /\ Goto(c, "list")
  /\ UNCHANGED <<response, history, cmd, num, loaded, bounds, delivered, recorded>>

\* Seeded bug: off by one in the test of num.
TrimLate(c) ==
  /\ pc[c] = "trim"
  /\ IF num[c] > Limit THEN history' = Tail(history) ELSE UNCHANGED history
  /\ Goto(c, "append")
  /\ UNCHANGED <<queue, response, locals, bounds, ghosts>>

\* if num >= 30: self.command_history.pop(0), IndexError if it is empty
Trim(c) ==
  /\ pc[c] = "trim"
  /\ \/ /\ num[c] < Limit
        /\ Goto(c, "append")
        /\ UNCHANGED history
     \/ /\ num[c] >= Limit /\ history # <<>>
        /\ history' = Tail(history)
        /\ Goto(c, "append")
     \/ /\ num[c] >= Limit /\ history = <<>>
        /\ Goto(c, "prompt")
        /\ UNCHANGED history
  /\ UNCHANGED <<queue, response, locals, bounds, ghosts>>

\* self.command_history.append(cmd)
Record(c) ==
  /\ pc[c] = "append"
  /\ history' = Append(history, cmd[c].id)
  /\ recorded' = Append(recorded, cmd[c].id)
  /\ Goto(c, "drain")
  /\ UNCHANGED <<queue, response, locals, bounds, delivered>>

-----------------------------------------------------------------------------
(* The answer: usingHandler and the rest of handle_command of sshsrv.py.   *)

\* Seeded bug: the queue is not tested, as if every command put a message.
TestNothing(c) ==
  /\ pc[c] = "drain"
  /\ Goto(c, IF queue = <<>> /\ response # <<>> THEN "reply" ELSE "get")
  /\ UNCHANGED <<shared, locals, bounds, ghosts>>

\* while common.msg_queue.empty() is False
TestEmpty(c) ==
  /\ pc[c] = "drain"
  /\ Goto(c, IF queue = <<>> THEN "reply" ELSE "get")
  /\ UNCHANGED <<shared, locals, bounds, ghosts>>

\* common.msg_queue.get(), which blocks on an empty queue
Get(c) ==
  /\ pc[c] = "get"
  /\ queue # <<>>
  /\ held' = [held EXCEPT ![c] = Head(queue)]
  /\ queue' = Tail(queue)
  /\ Goto(c, "load")
  /\ UNCHANGED <<response, history, cmd, num, idx, loaded, bounds, ghosts>>

\* self.response += rspstr: a read, ...
LoadResponse(c) ==
  /\ pc[c] = "load"
  /\ loaded' = [loaded EXCEPT ![c] = response]
  /\ Goto(c, "save")
  /\ UNCHANGED <<shared, cmd, num, idx, held, bounds, ghosts>>

\* ... and a write
SaveResponse(c) ==
  /\ pc[c] = "save"
  /\ response' = Append(loaded[c], held[c])
  /\ held' = [held EXCEPT ![c] = NoMessage]
  /\ loaded' = [loaded EXCEPT ![c] = <<>>]
  /\ Goto(c, "drain")
  /\ UNCHANGED <<queue, history, cmd, num, idx, bounds, ghosts>>

\* if len(self.response)
TestResponse(c) ==
  /\ pc[c] = "reply"
  /\ Goto(c, IF response = <<>> THEN "prompt" ELSE "write")
  /\ UNCHANGED <<shared, locals, bounds, ghosts>>

\* self.response.split('\n'), written line by line
WriteResponse(c) ==
  /\ pc[c] = "write"
  /\ delivered' = delivered \o response
  /\ Goto(c, "prompt")
  /\ UNCHANGED <<shared, locals, bounds, recorded>>

-----------------------------------------------------------------------------
\* get_fault_value of a sensor thread: "WARN: Sensor ... did not cross ..."
SensorWarns ==
  /\ warned < MaxWarnings
  /\ warned' = warned + 1
  /\ Put(NoMessage)
  /\ UNCHANGED <<response, history, pc, locals, issued, delivered, recorded>>

\* The steps of a thread that does not wait for its client.
Serve(c) ==
  \/ Prompt(c) \/ Dispatch(c) \/ PutText(c) \/ ListEntry(c) \/ PutEntry(c)
  \/ Trim(c) \/ Record(c) \/ TestEmpty(c) \/ Get(c) \/ LoadResponse(c)
  \/ SaveResponse(c) \/ TestResponse(c) \/ WriteResponse(c)

Next ==
  \/ \E c \in Sessions : Login(c) \/ Receive(c) \/ Leave(c) \/ Serve(c)
  \/ SensorWarns

Spec == Init /\ [][Next]_vars

FairSpec == Spec /\ \A c \in Sessions : WF_vars(Serve(c))

-----------------------------------------------------------------------------
Labels ==
  { "closed", "prompt", "read", "dispatch", "put", "list", "putEntry", "trim",
    "append", "drain", "get", "load", "save", "reply", "write" }

\* Every variable has a value of its type.
TypeOK ==
  /\ queue \in Seq(Message) /\ response \in Seq(Message)
  /\ history \in Seq(1 .. MaxCommands)
  /\ pc \in [Sessions -> Labels]
  /\ cmd \in [Sessions -> [id : 0 .. MaxCommands, kind : KindSet]]
  /\ num \in [Sessions -> Nat] /\ idx \in [Sessions -> 0 .. Limit]
  /\ held \in [Sessions -> Message]
  /\ loaded \in [Sessions -> Seq(Message)]
  /\ issued \in 0 .. MaxCommands /\ warned \in 0 .. MaxWarnings
  /\ delivered \in Seq(Message)
  /\ recorded \in Seq(1 .. MaxCommands)

LastOf(s, n) == IF Len(s) <= n THEN s ELSE SubSeq(s, Len(s) - n + 1, Len(s))

\* What the only session has taken from the queue or that is still there.
InFlight(c) ==
  (IF pc[c] \in {"closed", "prompt"} THEN <<>> ELSE response)
  \o (IF pc[c] \in {"load", "save"} THEN <<held[c]>> ELSE <<>>)
  \o queue

\* Whatever number of sessions test the length of the history before the others
\* append to it, each of them but one lengthens it by one command at most.
HistoryNearlyBounded == Len(history) <= Limit + Cardinality(Sessions) - 1

\* With one session a command ends and the session prompts again: get() would
\* block for ever only if another session emptied the queue after the test.
CommandsAnswered ==
  \A c \in Sessions : pc[c] = "dispatch" ~> pc[c] = "read"

\* The commands of the only session are answered as ConsolePromise says.
Idle == {"closed", "prompt", "read"}

Answering == {"drain", "get", "load", "save", "reply", "write"}

User == CHOOSE c \in Sessions : TRUE

\* How many messages the command of the user has put.
Said ==
  IF pc[User] \in {"dispatch", "put"} \/ cmd[User].kind = "quiet" THEN 0
  ELSE IF cmd[User].kind = "history" THEN idx[User] ELSE 1

Promise == INSTANCE ConsolePromise WITH
  owed  <- InFlight(User),
  asked <- IF pc[User] \in Idle
             THEN [id |-> 0, kind |-> "quiet", said |-> 0, noted |-> FALSE]
             ELSE [id |-> cmd[User].id, kind |-> cmd[User].kind, said |-> Said,
                   noted |-> cmd[User].kind # "illegal" /\ pc[User] \in Answering]

\* A command is answered, before the next one is read, with its own messages in
\* order, after what earlier commands and sensors left; history shows the last
\* Limit commands.
KeepsPromise == Promise!Spec
=============================================================================
