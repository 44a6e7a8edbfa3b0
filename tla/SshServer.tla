------------------------------ MODULE SshServer ------------------------------
(***************************************************************************)
(* The SSH server of the simulator, sshim.Server: the loop that accepts    *)
(* connections (Server.run), one thread per shell (Actor.run), the counter *)
(* of the shells that are open (Counter), and Server.stop.                 *)
(*                                                                         *)
(* The server is used in two ways.  The library, its tests and its         *)
(* examples start a thread for the loop and stop it at the end of a `with` *)
(* block (own = TRUE); the simulator runs the loop in its main thread      *)
(* until Ctrl-C, and then stops a server whose thread was never started    *)
(* (own = FALSE).                                                          *)
(***************************************************************************)
EXTENDS Integers, Sequences, FiniteSets

CONSTANTS
  Clients,        (* the clients; each has at most one connection and shell   *)
  Nobody,         (* the holder of a lock that is free                        *)
  MaxConnections  (* bound on the connections that are accepted               *)

ASSUME ServerAssumption ==
  /\ IsFiniteSet(Clients)
  /\ Nobody \notin Clients
  /\ MaxConnections \in Nat

VARIABLES
  own,         (* the loop has a thread of its own                            *)
  loop,        (* where Server.run is                                         *)
  stopper,     (* where the thread is that stops the server                   *)
  sockOpen,    (* the listening socket is open                                *)
  threadStop,  (* SSHHandler.thread_stop                                      *)
  exceptions,  (* Server.exceptions, by their origin                          *)
  conn,        (* conn[c]: the connection of client c                         *)
  actor,       (* actor[c]: where the thread of its shell is                  *)
  count,       (* Counter.count                                               *)
  seen,        (* seen[c]: the count that thread c is about to store          *)
  mutex,       (* the holder of Counter.mutex                                 *)
  accepted,    (* how many connections were accepted                          *)
  raced        (* two threads were at once between reading count and storing  *)

loopVars    == <<own, loop, sockOpen, accepted>>
stopVars    == <<stopper, threadStop>>
counterVars == <<count, seen, mutex, raced>>
vars == <<loopVars, stopVars, exceptions, conn, actor, counterVars>>

Goto(c, pc)      == actor' = [actor EXCEPT ![c] = pc]
Connection(c, k) == conn' = [conn EXCEPT ![c] = k]
Queue(origin)    == exceptions' = Append(exceptions, origin)

\* The simulator is over when an exception leaves its main thread.  The
\* threads of the shells and of the connections are daemons.
Over    == stopper \in {"crashed", "masked"}
Running == ~Over

Storing == {c \in Clients : actor[c] \in {"entering", "leaving"}}

\* c joins those that have read count and have not stored it yet.
Reads(c) == raced' = (raced \/ Storing \ {c} # {})

Init ==
  /\ own \in BOOLEAN
  /\ loop = "select" /\ sockOpen = TRUE /\ accepted = 0
  /\ stopper = "idle" /\ threadStop = FALSE
  /\ exceptions = <<>>
  /\ conn = [c \in Clients |-> "none"]
  /\ actor = [c \in Clients |-> "none"]
  /\ count = 0 /\ seen = [c \in Clients |-> 0] /\ mutex = Nobody /\ raced = FALSE

-----------------------------------------------------------------------------
(* Server.run                                                              *)

\* accept(), and a Handler, whose start_server waits for the negotiation
Accept(c) ==
  /\ Running /\ loop = "select" /\ sockOpen
  /\ conn[c] = "none" /\ accepted < MaxConnections
  /\ accepted' = accepted + 1
  /\ Connection(c, "negotiating")
  /\ loop' = "negotiate"
  /\ UNCHANGED <<own, sockOpen, stopVars, exceptions, actor, counterVars>>

\* The thread of the transport goes on after an interrupt of the main thread.
Negotiated(c) ==
  /\ Running /\ conn[c] = "negotiating"
  /\ Connection(c, "up")
  /\ loop' = IF loop = "negotiate" THEN "select" ELSE loop
  /\ UNCHANGED <<own, sockOpen, accepted, stopVars, exceptions, actor, counterVars>>

\* start_server raises what ended the negotiation, and `except: put; raise`
\* ends the loop; serve_forever catches KeyboardInterrupt only.
NegotiationFails(c) ==
  /\ Running /\ conn[c] = "negotiating"
  /\ Connection(c, "none")
  /\ IF loop = "negotiate"
       THEN /\ Queue("negotiation")
            /\ loop' = "failed"
            /\ stopper' = IF own THEN stopper ELSE "crashed"
       ELSE UNCHANGED <<exceptions, loop, stopper>>
  /\ UNCHANGED <<own, sockOpen, accepted, threadStop, actor, counterVars>>

\* fileno() of the closed socket raises EBADF, which ends the loop normally.
LoopEnds ==
  /\ Running /\ loop = "select" /\ ~sockOpen
  /\ loop' = "ended"
  /\ UNCHANGED <<own, sockOpen, accepted, stopVars, exceptions, conn, actor, counterVars>>

\* Ctrl-C in the main thread of the simulator, wherever the loop is
Interrupt ==
  /\ ~own /\ loop \in {"select", "negotiate"}
  /\ Queue("interrupt")
  /\ loop' = "failed"
  /\ stopper' = "setFlag"
  /\ UNCHANGED <<own, sockOpen, accepted, threadStop, conn, actor, counterVars>>

-----------------------------------------------------------------------------
(* A client, and the thread of its shell: Actor.run                        *)

\* check_channel_shell_request: Actor(...).start()
RequestShell(c) ==
  /\ Running /\ conn[c] = "up" /\ actor[c] = "none"
  /\ Goto(c, "starting")
  /\ UNCHANGED <<loopVars, stopVars, exceptions, conn, counterVars>>

Disconnect(c) ==
  /\ Running /\ conn[c] = "up"
  /\ Connection(c, "down")
  /\ UNCHANGED <<loopVars, stopVars, exceptions, actor, counterVars>>

\* The client may connect again.
Forget(c) ==
  /\ Running /\ conn[c] = "down" /\ actor[c] \in {"none", "ended"}
  /\ Connection(c, "none")
  /\ Goto(c, "none")
  /\ UNCHANGED <<loopVars, stopVars, exceptions, counterVars>>

\* Counter.__enter__: self.count += 1 reads and then stores, without the lock.
EnterRead(c) ==
  /\ Running /\ actor[c] = "starting"
  /\ seen' = [seen EXCEPT ![c] = count + 1]
  /\ Reads(c)
  /\ Goto(c, "entering")
  /\ UNCHANGED <<loopVars, stopVars, exceptions, conn, count, mutex>>

EnterStore(c) ==
  /\ Running /\ actor[c] = "entering"
  /\ count' = seen[c]
  /\ seen' = [seen EXCEPT ![c] = 0]
  /\ Goto(c, "session")
  /\ UNCHANGED <<loopVars, stopVars, exceptions, conn, mutex, raced>>

\* The delegate returns: "quit", or the loop of handle_command sees thread_stop.
SessionEnds(c) ==
  /\ Running /\ actor[c] = "session"
  /\ Goto(c, "closing")
  /\ UNCHANGED <<loopVars, stopVars, exceptions, conn, counterVars>>

\* It raises: the EOFError of expect when the client is gone or types ^D.
SessionFails(c) ==
  /\ Running /\ actor[c] = "session"
  /\ Goto(c, "failing")
  /\ UNCHANGED <<loopVars, stopVars, exceptions, conn, counterVars>>

\* Seeded bug: the exception is raised out of the `with` block.
ReportUncounted(c) ==
  /\ Running /\ actor[c] = "failing"
  /\ Queue("session")
  /\ Goto(c, "ended")
  /\ UNCHANGED <<loopVars, stopVars, conn, counterVars>>

\* self.server.exceptions.put_nowait(sys.exc_info())
Report(c) ==
  /\ Running /\ actor[c] = "failing"
  /\ Queue("session")
  /\ Goto(c, "closing")
  /\ UNCHANGED <<loopVars, stopVars, conn, counterVars>>

\* self.channel.close()
CloseChannel(c) ==
  /\ Running /\ actor[c] = "closing"
  /\ Goto(c, "exit")
  /\ UNCHANGED <<loopVars, stopVars, exceptions, conn, counterVars>>

\* Counter.__exit__ reads under the lock; below zero it raises ValueError,
\* which ends the thread.
LeaveRead(c) ==
  /\ Running /\ actor[c] = "exit" /\ mutex = Nobody
  /\ Reads(c)
  /\ IF count > 0
       THEN /\ seen' = [seen EXCEPT ![c] = count - 1]
            /\ mutex' = c
            /\ Goto(c, "leaving")
       ELSE /\ Goto(c, "ended")
            /\ UNCHANGED <<seen, mutex>>
  /\ UNCHANGED <<loopVars, stopVars, exceptions, conn, count>>

\* Seeded bug: nobody is notified.
LeaveStoreSilent(c) ==
  /\ Running /\ actor[c] = "leaving"
  /\ count' = seen[c]
  /\ seen' = [seen EXCEPT ![c] = 0]
  /\ mutex' = Nobody
  /\ Goto(c, "ended")
  /\ UNCHANGED <<loopVars, stopVars, exceptions, conn, raced>>

\* Seeded bug: acquire() without a release.
LeaveStoreLocked(c) ==
  /\ Running /\ actor[c] = "leaving"
  /\ count' = seen[c]
  /\ seen' = [seen EXCEPT ![c] = 0]
  /\ stopper' = IF seen[c] = 0 /\ stopper = "waiting" THEN "joinCount" ELSE stopper
  /\ Goto(c, "ended")
  /\ UNCHANGED <<loopVars, threadStop, exceptions, conn, mutex, raced>>

\* self.condition.notify_all() at zero, and the store
LeaveStore(c) ==
  /\ Running /\ actor[c] = "leaving"
  /\ count' = seen[c]
  /\ seen' = [seen EXCEPT ![c] = 0]
  /\ mutex' = Nobody
  /\ stopper' = IF seen[c] = 0 /\ stopper = "waiting" THEN "joinCount" ELSE stopper
  /\ Goto(c, "ended")
  /\ UNCHANGED <<loopVars, threadStop, exceptions, conn, raced>>

ActorStep(c) ==
  \/ EnterRead(c) \/ EnterStore(c) \/ Report(c) \/ CloseChannel(c)
  \/ LeaveRead(c) \/ LeaveStore(c)

-----------------------------------------------------------------------------
(* SSHHandler.stop and Server.stop                                         *)

\* The end of the `with` block of a server that has its own thread.
Stop ==
  /\ own /\ stopper = "idle"
  /\ stopper' = "close"
  /\ UNCHANGED <<loopVars, threadStop, exceptions, conn, actor, counterVars>>

\* self.thread_stop.set()
SetFlag ==
  /\ stopper = "setFlag"
  /\ threadStop' = TRUE
  /\ stopper' = "close"
  /\ UNCHANGED <<loopVars, exceptions, conn, actor, counterVars>>

\* self.socket.close(), and join() if the thread of the server is alive
CloseSocket ==
  /\ stopper = "close"
  /\ sockOpen' = FALSE
  /\ stopper' = IF own /\ loop \in {"select", "negotiate"} THEN "joinCount" ELSE "reraise"
  /\ UNCHANGED <<own, loop, accepted, threadStop, exceptions, conn, actor, counterVars>>

\* Seeded bug: `if self.count: wait()`, and on after the first notification.
JoinCountOnce ==
  /\ stopper = "joinCount" /\ mutex = Nobody
  /\ stopper' = IF count = 0 \/ \E c \in Clients : actor[c] = "ended"
                  THEN "joinLoop" ELSE "waiting"
  /\ UNCHANGED <<loopVars, threadStop, exceptions, conn, actor, counterVars>>

\* Counter.join: while self.count: self.condition.wait()
JoinCount ==
  /\ stopper = "joinCount" /\ mutex = Nobody
  /\ stopper' = IF count = 0 THEN "joinLoop" ELSE "waiting"
  /\ UNCHANGED <<loopVars, threadStop, exceptions, conn, actor, counterVars>>

\* threading.Thread.join(self)
JoinLoop ==
  /\ stopper = "joinLoop" /\ loop \in {"ended", "failed"}
  /\ stopper' = "reraise"
  /\ UNCHANGED <<loopVars, threadStop, exceptions, conn, actor, counterVars>>

\* six.reraise(*self.exceptions.get()): the oldest one.  In the simulator a
\* KeyboardInterrupt leads to free_resource, any other ends the process.
Reraise ==
  /\ stopper = "reraise"
  /\ exceptions' = IF exceptions = <<>> THEN <<>> ELSE Tail(exceptions)
  /\ stopper' = CASE exceptions = <<>>              -> "returned"
                  [] own /\ exceptions # <<>>       -> "raised"
                  [] ~own /\ exceptions # <<>>      ->
                       IF Head(exceptions) = "interrupt" THEN "free" ELSE "masked"
  /\ UNCHANGED <<loopVars, threadStop, conn, actor, counterVars>>

StopStep == SetFlag \/ CloseSocket \/ JoinCount \/ JoinLoop \/ Reraise

-----------------------------------------------------------------------------
Next ==
  \/ \E c \in Clients :
       \/ Accept(c) \/ Negotiated(c) \/ NegotiationFails(c)
       \/ RequestShell(c) \/ Disconnect(c) \/ Forget(c)
       \/ SessionEnds(c) \/ SessionFails(c) \/ ActorStep(c)
  \/ LoopEnds \/ Interrupt \/ Stop \/ StopStep

Spec == Init /\ [][Next]_vars

\* Threads are scheduled, and a shell whose client is gone reads the end of its
\* input.  The mutex is held for one step, so that weak fairness is enough for
\* its users.  A negotiation need not end: the handshake timer of paramiko is
\* cleared by the first packet of the client (transport.py:1769), and the
\* server waits for the rest without a timeout.
Fairness ==
  /\ \A c \in Clients :
       /\ WF_vars(ActorStep(c))
       /\ WF_vars(conn[c] = "down" /\ SessionFails(c))
  /\ WF_vars(LoopEnds)
  /\ WF_vars(StopStep)

FairSpec == Spec /\ Fairness

-----------------------------------------------------------------------------
ActorPCs == { "none", "starting", "entering", "session", "failing", "closing",
              "exit", "leaving", "ended" }

\* The threads in the `with self.server.counter` block.
Inside == {c \in Clients : actor[c] \in {"session", "failing", "closing", "exit", "leaving"}}

\* Every variable has a value of its type.
TypeOK ==
  /\ own \in BOOLEAN /\ sockOpen \in BOOLEAN /\ threadStop \in BOOLEAN
  /\ raced \in BOOLEAN
  /\ loop \in {"select", "negotiate", "ended", "failed"}
  /\ stopper \in { "idle", "setFlag", "close", "joinCount", "waiting", "joinLoop",
                   "reraise", "returned", "raised", "free", "masked", "crashed" }
  /\ exceptions \in Seq({"negotiation", "session", "interrupt"})
  /\ conn \in [Clients -> {"none", "negotiating", "up", "down"}]
  /\ actor \in [Clients -> ActorPCs]
  /\ count \in Nat /\ seen \in [Clients -> Nat]
  /\ mutex \in Clients \cup {Nobody}
  /\ accepted \in 0 .. MaxConnections

\* Counter: as long as no thread entered while another one entered or left,
\* count is the number of the threads inside, also with several of them leaving
\* at once.
CountExact ==
  /\ TypeOK
  /\ ~raced => count = Cardinality(Inside)

\* Docstring of Server.stop, "waiting for the runloop to exit": join goes on to
\* the loop only when no shell is open, unless the counter was raced.
StopWaits ==
  [][stopper = "joinCount" /\ stopper' = "joinLoop" => raced \/ Inside = {}]_vars

\* stop does not wait for ever on a server that has no shell left: the last one
\* to leave wakes it, unless the counter was raced; only a client that stays
\* silent in its negotiation can hold the loop, and so stop, up.
StopReturns ==
  []<>(stopper \in {"joinCount", "waiting", "joinLoop"}
       => \/ raced \/ Inside # {}
          \/ stopper = "joinLoop" /\ loop = "negotiate")

\* The thread of a client that has disconnected ends and gives its count back,
\* whatever the others do with the mutex, unless the process ends first.
ShellsEnd ==
  \A c \in Clients : conn[c] = "down" ~> actor[c] \in {"none", "ended"} \/ Over

=============================================================================
