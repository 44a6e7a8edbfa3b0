------------------------------ MODULE Simulator ------------------------------
(***************************************************************************)
(* The simulator as one process: the SSH server, run by the main thread    *)
(* (SshServer with own = FALSE), the sessions and the sensor threads that  *)
(* it serves (SensorControl), and the end of the process, in which the     *)
(* exception that leaves the server decides whether the sensors are freed. *)
(*                                                                         *)
(* A client is a session of SensorControl while its shell is open.  The    *)
(* interrupt of SensorControl is the moment at which thread_stop is set;   *)
(* its main thread goes on only if KeyboardInterrupt reaches ipmi_sim.py.  *)
(***************************************************************************)
EXTENDS Integers, Sequences

CONSTANTS
  Clients, MaxConnections, NumSensors, Nobody, Readings, NoReading,
  SetModes, SetLevels, LinkFails

VARIABLES
  own, loop, stopper, sockOpen, threadStop, exceptions, conn, actor,
  count, seen, mutex, accepted, raced,
  mode, faultLevel, value, quit, cond, tpc, tval, probe, spc, cmd, tn, bmc, mpc, mi

Sensors == 1 .. NumSensors

\* What ends the process does not depend on the thresholds: every reading is
\* normal, and no sensor has a fault band.
AutoRange  == [s \in Sensors |-> Readings]
Readable   == [s \in Sensors |-> {}]
FaultRange == [s \in Sensors |-> [l \in {"lnc", "lc", "lnr", "unc", "uc", "unr"} |-> {}]]

Server  == INSTANCE SshServer
Control == INSTANCE SensorControl WITH Sessions <- Clients

serverVars ==
  <<own, loop, stopper, sockOpen, threadStop, exceptions, conn, actor,
    count, seen, mutex, accepted, raced>>
controlVars ==
  <<mode, faultLevel, value, quit, cond, tpc, tval, probe, spc, cmd, tn, bmc, mpc, mi>>
vars == <<serverVars, controlVars>>

Init == Server!Init /\ own = FALSE /\ Control!Init

\* The process ends when an exception leaves the main thread, or after the
\* joins of free_resource.
Alive == Server!Running /\ mpc # "exited"

SensorStep(s) ==
  /\ Alive
  /\ Control!ThreadStep(s)
  /\ UNCHANGED serverVars

\* The loop of handle_command reads a line and executes it.
Command(c) ==
  /\ Alive /\ actor[c] = "session"
  /\ (Control!ReceiveMode(c) \/ Control!ReceiveValue(c))
  /\ UNCHANGED serverVars

CommandStep(c) ==
  /\ Alive
  /\ Control!CommandStep(c)
  /\ UNCHANGED serverVars

\* A shell begins with the test of thread_stop.
Enter(c) ==
  /\ Alive
  /\ Server!EnterStore(c)
  /\ Control!SessionGoto(c, IF threadStop THEN "left" ELSE "idle")
  /\ UNCHANGED <<mode, faultLevel, value, quit, cond, tpc, tval, probe, cmd, tn, bmc, mpc, mi>>

\* Between two commands a session ends, or raises where it waits for a line.
EndSession(c) ==
  /\ Alive
  /\ \/ spc[c] \in {"idle", "left"} /\ Server!SessionEnds(c)
     \/ spc[c] = "idle" /\ Server!SessionFails(c)
  /\ UNCHANGED controlVars

ActorStep(c) ==
  /\ Alive
  /\ \/ Server!EnterRead(c) \/ Server!Report(c) \/ Server!CloseChannel(c)
     \/ Server!LeaveRead(c) \/ Server!LeaveStore(c)
  /\ UNCHANGED controlVars

ConnectionStep(c) ==
  /\ Alive
  /\ \/ Server!Accept(c) \/ Server!Negotiated(c) \/ Server!NegotiationFails(c)
     \/ Server!RequestShell(c) \/ Server!Disconnect(c) \/ Server!Forget(c)
  /\ UNCHANGED controlVars

CtrlC ==
  /\ Server!Interrupt
  /\ UNCHANGED controlVars

SetFlag == Server!SetFlag /\ Control!Interrupt

StopServer ==
  /\ Server!CloseSocket \/ Server!Reraise
  /\ UNCHANGED controlVars

\* `except KeyboardInterrupt: free_resource()`
FreeResource ==
  /\ stopper = "free"
  /\ Control!FreeStep
  /\ UNCHANGED serverVars

Next ==
  \/ \E s \in Sensors : SensorStep(s)
  \/ \E c \in Clients :
       \/ Command(c) \/ CommandStep(c) \/ Enter(c) \/ EndSession(c) \/ ActorStep(c)
       \/ ConnectionStep(c)
  \/ CtrlC \/ SetFlag \/ StopServer \/ FreeResource

Spec == Init /\ [][Next]_vars

\* As in SensorControl and SshServer.
Fairness ==
  /\ \A s \in Sensors : /\ WF_vars(SensorStep(s))
                        /\ SF_vars(tpc[s] = "connect" /\ SensorStep(s))
  /\ \A c \in Clients : /\ WF_vars(Enter(c))
                        /\ WF_vars(ActorStep(c))
                        /\ WF_vars(CommandStep(c))
                        /\ SF_vars(spc[c] \in {"notify", "notifyUser", "connect"} /\ CommandStep(c))
  /\ WF_vars(SetFlag) /\ WF_vars(StopServer) /\ WF_vars(FreeResource)
  /\ SF_vars(mpc = "notify" /\ FreeResource)

FairSpec == Spec /\ Fairness

-----------------------------------------------------------------------------
\* Comment of ipmi_sim.py, "join the sensor thread", for the end of a process
\* that announces "(Ctrl-C to stop)": after Ctrl-C every sensor thread is asked
\* to quit and joined, and then the process ends.
OrderlyShutdown == stopper = "setFlag" ~> mpc = "exited"
=============================================================================
