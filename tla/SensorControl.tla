---------------------------- MODULE SensorControl ----------------------------
(***************************************************************************)
(* The control of the threshold sensors of the IPMI simulator wrapper:     *)
(*                                                                         *)
(*   - one sensor thread per sensor (Sensor.execute, sensor.py), that      *)
(*     sleeps in user mode, publishes random readings in auto mode and one *)
(*     reading of a fault band in fault mode;                              *)
(*   - the console sessions, whose commands set the mode and the value of  *)
(*     a sensor (Command_Handler, command.py);                             *)
(*   - the main thread, which on Ctrl-C asks every sensor thread to quit   *)
(*     and joins it (free_resource, ipmi_sim.py).                          *)
(*                                                                         *)
(* They share the attributes of the Sensor objects (mode, fault_level,     *)
(* value, quit), which no lock protects, the condition of each sensor, and *)
(* the telnet object of common.py, which common.lock serialises.  A step   *)
(* of the model reads or writes at most one unprotected attribute.         *)
(***************************************************************************)
EXTENDS Integers

CONSTANTS
  NumSensors,  (* threshold sensors; sensor i is the i-th of sdr.sensor_list  *)
  Sessions,    (* console sessions, each runs one command at a time           *)
  Nobody,      (* the holder of a lock that is free                           *)
  Readings,    (* raw sensor readings                                         *)
  NoReading,   (* Python's None, and an argument that is not a number         *)
  AutoRange,   (* AutoRange[s]: the interval get_random_value draws from      *)
  Readable,    (* Readable[s]: the levels whose bit is set in the mask rtm    *)
  FaultRange,  (* FaultRange[s][l]: the interval get_fault_value draws from   *)
  SetModes,    (* the modes that the sessions ask for                         *)
  SetLevels,   (* the fault levels that the sessions ask for                  *)
  LinkFails    (* TRUE if connecting to lanserv may raise socket.error        *)

Sensors == 1 .. NumSensors
Actors  == Sensors \cup Sessions     \* sensor i stands for its thread as well
Modes   == {"user", "auto", "fault"}
NoLevel == "unset"                   \* the attribute fault_level does not exist

\* The fault levels in the order in which get_fault_value compares them.
LevelOrder == <<"lnc", "lc", "lnr", "unc", "uc", "unr">>
Levels     == {"lnc", "lc", "lnr", "unc", "uc", "unr"}

ASSUME ConstantsAssumption ==
  /\ NumSensors \in Nat \ {0}
  /\ Sessions \cap Sensors = {}
  /\ Nobody \notin Actors
  /\ NoReading \notin Readings
  /\ AutoRange \in [Sensors -> SUBSET Readings]
  /\ Readable \in [Sensors -> SUBSET Levels]
  /\ FaultRange \in [Sensors -> [Levels -> SUBSET Readings]]
  /\ SetModes \subseteq Modes
  /\ SetLevels \subseteq Levels
  /\ LinkFails \in BOOLEAN

VARIABLES
  mode,        (* mode[s]: Sensor.mode                                        *)
  faultLevel,  (* faultLevel[s]: Sensor.fault_level                           *)
  value,       (* value[s]: Sensor.value                                      *)
  quit,        (* quit[s]: Sensor.quit                                        *)
  cond,        (* cond[s]: TRUE while thread s holds Sensor.condition         *)
  tpc,         (* tpc[s]: where thread s is in execute                        *)
  tval,        (* tval[s]: its local s_value                                  *)
  probe,       (* probe[s]: the comparison get_fault_value makes next         *)
  spc,         (* spc[c]: where session c is in its command                   *)
  cmd,         (* cmd[c]: the arguments of the command and its pre_mode       *)
  tn,          (* the holder of common.lock, the user of the telnet object    *)
  bmc,         (* bmc[s]: the reading lanserv reports for sensor s            *)
  mpc, mi      (* where the main thread is, and the sensor it works on        *)

sensorVars == <<mode, faultLevel, value, quit>>
threadVars == <<cond, tpc, tval, probe>>
sessVars   == <<spc, cmd>>
linkVars   == <<tn, bmc>>
mainVars   == <<mpc, mi>>
vars       == <<sensorVars, threadVars, sessVars, linkVars, mainVars>>

Commands ==
  [ sensor : Sensors, mode : Modes, level : Levels \cup {NoLevel},
    reading : Readings \cup {NoReading}, pre : Modes ]

\* What cmd[c] is between two commands: the locals of a handler are gone.
NoCommand ==
  [ sensor |-> 1, mode |-> "user", level |-> NoLevel,
    reading |-> NoReading, pre |-> "user" ]

-----------------------------------------------------------------------------
(* Helpers.                                                                *)

ThreadGoto(s, pc) == tpc' = [tpc EXCEPT ![s] = pc]

\* `finally: self.condition.release()` and what follows it.
ReleaseAndGoto(s, pc) ==
  /\ cond' = [cond EXCEPT ![s] = FALSE]
  /\ ThreadGoto(s, pc)

\* The threads that serve sessions are daemons: they end with the process.
Running == mpc # "exited"

At(c, pc) == Running /\ spc[c] = pc

SessionGoto(c, pc) == spc' = [spc EXCEPT ![c] = pc]

\* `while not self.thread_stop.is_set()` of SSHHandler: after Ctrl-C a session
\* ends with its command, or with the next one if it waits for input.
Finish(c) ==
  /\ SessionGoto(c, IF mpc = "serving" THEN "idle" ELSE "left")
  /\ cmd' = [cmd EXCEPT ![c] = NoCommand]

\* condition.acquire(); condition.notify(); condition.release(): the thread,
\* if it waits, leaves the wait and has to acquire the condition again.
Notify(s) ==
  /\ ~cond[s]
  /\ tpc' = [tpc EXCEPT ![s] = IF @ \in {"waiting", "timed"} THEN "wake" ELSE @]
  /\ UNCHANGED <<cond, tval, probe>>

\* Seeded bug: the telnet object is used without its lock.
ConnectUnlocked(a) ==
  /\ tn' = a
  /\ UNCHANGED bmc

\* lock.acquire() of send_ipmi_sim_command.
Connect(a) ==
  /\ tn = Nobody
  /\ tn' = a
  /\ UNCHANGED bmc

\* Seeded bug: socket.error leaves the lock held, there is no `finally`.
DeliverNoFinally(s, v) ==
  \/ tn' = Nobody /\ bmc' = [bmc EXCEPT ![s] = v]
  \/ LinkFails /\ UNCHANGED linkVars

\* The rest of it: lanserv sets the reading, or the connection raises
\* socket.error and nothing is sent; the lock is released either way.
Deliver(s, v) ==
  /\ tn' = Nobody
  /\ \/ bmc' = [bmc EXCEPT ![s] = v]
     \/ LinkFails /\ UNCHANGED bmc

-----------------------------------------------------------------------------
(* Sensors start in user mode with no fault level, and their threads at    *)
(* the head of the loop of execute.                                        *)

Init ==
  /\ mode = [s \in Sensors |-> "user"]
  /\ faultLevel = [s \in Sensors |-> NoLevel]
  /\ value \in [Sensors -> Readings]
  /\ quit = [s \in Sensors |-> FALSE]
  /\ cond = [s \in Sensors |-> FALSE]
  /\ tpc = [s \in Sensors |-> "loop"]
  /\ tval = [s \in Sensors |-> NoReading]
  /\ probe = [s \in Sensors |-> 1]
  /\ spc = [c \in Sessions |-> "idle"]
  /\ cmd = [c \in Sessions |-> NoCommand]
  /\ tn = Nobody
  /\ bmc = value
  /\ mpc = "serving"
  /\ mi = 1

-----------------------------------------------------------------------------
(* The thread of sensor s: Sensor.execute.  A local that is never read     *)
(* again goes back to its initial value.                                   *)

\* Seeded bug: the loop is `while True`.
LoopForever(s) ==
  /\ tpc[s] = "loop"
  /\ ThreadGoto(s, "acquire")
  /\ UNCHANGED <<sensorVars, cond, tval, probe, sessVars, linkVars, mainVars>>

\* while not self.quit
LoopHead(s) ==
  /\ tpc[s] = "loop"
  /\ ThreadGoto(s, IF quit[s] THEN "done" ELSE "acquire")
  /\ UNCHANGED <<sensorVars, cond, tval, probe, sessVars, linkVars, mainVars>>

Acquire(s) ==
  /\ tpc[s] = "acquire"
  /\ ~cond[s]
  /\ cond' = [cond EXCEPT ![s] = TRUE]
  /\ ThreadGoto(s, "isUser")
  /\ UNCHANGED <<sensorVars, tval, probe, sessVars, linkVars, mainVars>>

\* if self.mode == "user": self.condition.wait(), which releases it
TestUser(s) ==
  /\ tpc[s] = "isUser"
  /\ IF mode[s] = "user" THEN ReleaseAndGoto(s, "waiting")
                         ELSE ThreadGoto(s, "isAuto") /\ UNCHANGED cond
  /\ UNCHANGED <<sensorVars, tval, probe, sessVars, linkVars, mainVars>>

\* if self.mode == "auto", read a second time.  random.randint raises
\* ValueError on an empty interval, which ends the thread.
TestAuto(s) ==
  /\ tpc[s] = "isAuto"
  /\ \/ /\ mode[s] = "auto"
        /\ \E v \in AutoRange[s] : tval' = [tval EXCEPT ![s] = v]
        /\ ThreadGoto(s, "store")
        /\ UNCHANGED cond
     \/ /\ mode[s] = "auto" /\ AutoRange[s] = {}
        /\ ReleaseAndGoto(s, "dead")
        /\ UNCHANGED tval
     \/ /\ mode[s] # "auto"
        /\ ThreadGoto(s, "fault")
        /\ UNCHANGED <<cond, tval>>
  /\ UNCHANGED <<sensorVars, probe, sessVars, linkVars, mainVars>>

\* One comparison of the if-elif chain of get_fault_value, which reads
\* self.fault_level again in each of them and not at all in the last branch.
ProbeLevel(s) ==
  LET level == LevelOrder[probe[s]]
      last  == probe[s] = 6
      taken == last \/ faultLevel[s] = level
  IN
  /\ tpc[s] = "fault"
  /\ probe' = [probe EXCEPT ![s] = IF taken \/ faultLevel[s] = NoLevel THEN 1 ELSE @ + 1]
  /\ \/ /\ ~last /\ faultLevel[s] = NoLevel          \* AttributeError
        /\ ReleaseAndGoto(s, "dead")
        /\ UNCHANGED tval
     \/ /\ ~taken /\ faultLevel[s] # NoLevel
        /\ UNCHANGED <<cond, tpc, tval>>
     \/ /\ taken /\ level \notin Readable[s]         \* "did not cross"
        /\ ThreadGoto(s, "toUser")
        /\ UNCHANGED <<cond, tval>>
     \/ /\ taken /\ level \in Readable[s]
        /\ \E v \in FaultRange[s][level] : tval' = [tval EXCEPT ![s] = v]
        /\ ThreadGoto(s, "toUser")
        /\ UNCHANGED cond
     \/ /\ taken /\ level \in Readable[s]            \* ValueError
        /\ FaultRange[s][level] = {}
        /\ ReleaseAndGoto(s, "dead")
        /\ UNCHANGED tval
  /\ UNCHANGED <<sensorVars, sessVars, linkVars, mainVars>>

\* self.mode = "user" after a fault; `continue` if there is no reading
BackToUser(s) ==
  /\ tpc[s] = "toUser"
  /\ mode' = [mode EXCEPT ![s] = "user"]
  /\ IF tval[s] = NoReading THEN ReleaseAndGoto(s, "loop")
                            ELSE ThreadGoto(s, "store") /\ UNCHANGED cond
  /\ UNCHANGED <<faultLevel, value, quit, tval, probe>>
  /\ UNCHANGED <<sessVars, linkVars, mainVars>>

\* self.value = s_value
Store(s) ==
  /\ tpc[s] = "store"
  /\ value' = [value EXCEPT ![s] = tval[s]]
  /\ ThreadGoto(s, "connect")
  /\ UNCHANGED <<mode, faultLevel, quit, cond, tval, probe>>
  /\ UNCHANGED <<sessVars, linkVars, mainVars>>

ThreadConnect(s) ==
  /\ tpc[s] = "connect"
  /\ Connect(s)
  /\ ThreadGoto(s, "send")
  /\ UNCHANGED <<sensorVars, cond, tval, probe, sessVars, mainVars>>

\* The command was formatted from the local s_value.
ThreadSend(s) ==
  /\ tpc[s] = "send"
  /\ Deliver(s, tval[s])
  /\ tval' = [tval EXCEPT ![s] = NoReading]
  /\ ThreadGoto(s, "after")
  /\ UNCHANGED <<sensorVars, cond, probe, sessVars, mainVars>>

\* Seeded bug: the wait between two readings has no timeout.
AfterPublishUntimed(s) ==
  /\ tpc[s] = "after"
  /\ ReleaseAndGoto(s, IF mode[s] = "auto" THEN "waiting" ELSE "loop")
  /\ UNCHANGED <<sensorVars, tval, probe, sessVars, linkVars, mainVars>>

\* if self.mode == "auto": self.condition.wait(5)
AfterPublish(s) ==
  /\ tpc[s] = "after"
  /\ ReleaseAndGoto(s, IF mode[s] = "auto" THEN "timed" ELSE "loop")
  /\ UNCHANGED <<sensorVars, tval, probe, sessVars, linkVars, mainVars>>

\* The five seconds are over.
Timeout(s) ==
  /\ tpc[s] = "timed"
  /\ ThreadGoto(s, "wake")
  /\ UNCHANGED <<sensorVars, cond, tval, probe, sessVars, linkVars, mainVars>>

\* The end of Condition.wait acquires the condition again.
Wake(s) ==
  /\ tpc[s] = "wake"
  /\ ~cond[s]
  /\ cond' = [cond EXCEPT ![s] = TRUE]
  /\ ThreadGoto(s, "checkQuit")
  /\ UNCHANGED <<sensorVars, tval, probe, sessVars, linkVars, mainVars>>

\* if self.quit == True: return
CheckQuit(s) ==
  /\ tpc[s] = "checkQuit"
  /\ ReleaseAndGoto(s, IF quit[s] THEN "done" ELSE "loop")
  /\ UNCHANGED <<sensorVars, tval, probe, sessVars, linkVars, mainVars>>

ThreadStep(s) ==
  \/ LoopHead(s) \/ Acquire(s) \/ TestUser(s) \/ TestAuto(s) \/ ProbeLevel(s)
  \/ BackToUser(s) \/ Store(s) \/ ThreadConnect(s) \/ ThreadSend(s)
  \/ AfterPublish(s) \/ Timeout(s) \/ Wake(s) \/ CheckQuit(s)

-----------------------------------------------------------------------------
(* Console session c: set_sensor_mode and set_sensor_value.                *)

\* "sensor mode set s m [l]"
ReceiveMode(c) ==
  /\ At(c, "idle")
  /\ \E s \in Sensors, m \in SetModes :
       \E l \in IF m = "fault" THEN SetLevels ELSE {NoLevel} :
         cmd' = [cmd EXCEPT ![c] = [NoCommand EXCEPT !.sensor = s, !.mode = m,
                                                     !.level = l]]
  /\ SessionGoto(c, IF cmd'[c].mode = "fault" THEN "setLevel" ELSE "readMode")
  /\ UNCHANGED <<sensorVars, threadVars, linkVars, mainVars>>

\* "sensor value set s v"; NoReading stands for an argument float() rejects
ReceiveValue(c) ==
  /\ At(c, "idle")
  /\ \E s \in Sensors, v \in Readings \cup {NoReading} :
       cmd' = [cmd EXCEPT ![c] = [NoCommand EXCEPT !.sensor = s, !.reading = v]]
  /\ SessionGoto(c, "testAuto")
  /\ UNCHANGED <<sensorVars, threadVars, linkVars, mainVars>>

SetFaultLevel(c) ==
  /\ At(c, "setLevel")
  /\ faultLevel' = [faultLevel EXCEPT ![cmd[c].sensor] = cmd[c].level]
  /\ SessionGoto(c, "readMode")
  /\ UNCHANGED <<mode, value, quit, threadVars, cmd, linkVars, mainVars>>

\* pre_mode = sensor_obj.get_mode()
ReadMode(c) ==
  /\ At(c, "readMode")
  /\ cmd' = [cmd EXCEPT ![c].pre = mode[cmd[c].sensor]]
  /\ SessionGoto(c, "setMode")
  /\ UNCHANGED <<sensorVars, threadVars, linkVars, mainVars>>

\* Seeded bug: the thread is notified of the fault mode only.
SetModeNotifyFault(c) ==
  /\ At(c, "setMode")
  /\ mode' = [mode EXCEPT ![cmd[c].sensor] = cmd[c].mode]
  /\ IF cmd[c].mode = "fault" /\ cmd[c].pre = "user"
       THEN SessionGoto(c, "notify") /\ UNCHANGED cmd
       ELSE Finish(c)
  /\ UNCHANGED <<faultLevel, value, quit, threadVars, linkVars, mainVars>>

\* sensor_obj.set_mode(mode), and whether the thread has to be notified
SetMode(c) ==
  /\ At(c, "setMode")
  /\ mode' = [mode EXCEPT ![cmd[c].sensor] = cmd[c].mode]
  /\ IF cmd[c].mode \in {"auto", "fault"} /\ cmd[c].pre = "user"
       THEN SessionGoto(c, "notify") /\ UNCHANGED cmd
       ELSE Finish(c)
  /\ UNCHANGED <<faultLevel, value, quit, threadVars, linkVars, mainVars>>

NotifyMode(c) ==
  /\ At(c, "notify")
  /\ Notify(cmd[c].sensor)
  /\ Finish(c)
  /\ UNCHANGED <<sensorVars, linkVars, mainVars>>

\* Seeded bug: the value is set while the thread may be publishing.
TestAutoModeSkip(c) ==
  /\ At(c, "testAuto")
  /\ SessionGoto(c, "setValue")
  /\ UNCHANGED <<sensorVars, threadVars, cmd, linkVars, mainVars>>

\* if sensor_obj.get_mode() == "auto"
TestAutoMode(c) ==
  /\ At(c, "testAuto")
  /\ SessionGoto(c, IF mode[cmd[c].sensor] = "auto" THEN "leaveAuto" ELSE "setValue")
  /\ UNCHANGED <<sensorVars, threadVars, cmd, linkVars, mainVars>>

LeaveAuto(c) ==
  /\ At(c, "leaveAuto")
  /\ mode' = [mode EXCEPT ![cmd[c].sensor] = "user"]
  /\ SessionGoto(c, "notifyUser")
  /\ UNCHANGED <<faultLevel, value, quit, threadVars, cmd, linkVars, mainVars>>

NotifyUser(c) ==
  /\ At(c, "notifyUser")
  /\ Notify(cmd[c].sensor)
  /\ SessionGoto(c, "setValue")
  /\ UNCHANGED <<sensorVars, cmd, linkVars, mainVars>>

\* "illegal sensor value", after the mode has changed; or self.value = value
SetValue(c) ==
  /\ At(c, "setValue")
  /\ \/ /\ cmd[c].reading = NoReading
        /\ Finish(c)
        /\ UNCHANGED value
     \/ /\ cmd[c].reading # NoReading
        /\ value' = [value EXCEPT ![cmd[c].sensor] = cmd[c].reading]
        /\ SessionGoto(c, "connect")
        /\ UNCHANGED cmd
  /\ UNCHANGED <<mode, faultLevel, quit, threadVars, linkVars, mainVars>>

SessionConnect(c) ==
  /\ At(c, "connect")
  /\ Connect(c)
  /\ SessionGoto(c, "send")
  /\ UNCHANGED <<sensorVars, threadVars, cmd, mainVars>>

SessionSend(c) ==
  /\ At(c, "send")
  /\ Deliver(cmd[c].sensor, cmd[c].reading)
  /\ Finish(c)
  /\ UNCHANGED <<sensorVars, threadVars, mainVars>>

\* The steps of a command that has begun.
CommandStep(c) ==
  \/ SetFaultLevel(c) \/ ReadMode(c) \/ SetMode(c) \/ NotifyMode(c)
  \/ TestAutoMode(c) \/ LeaveAuto(c) \/ NotifyUser(c)
  \/ SetValue(c) \/ SessionConnect(c) \/ SessionSend(c)

-----------------------------------------------------------------------------
(* The main thread.  Commands still run during free_resource.              *)

\* Ctrl-C: serve_forever sets thread_stop, and Server.stop re-raises the
\* KeyboardInterrupt that Server.run has queued, to the handler of ipmi_sim.py.
Interrupt ==
  /\ mpc = "serving"
  /\ mpc' = "setUser"
  /\ UNCHANGED <<sensorVars, threadVars, sessVars, linkVars, mi>>

FreeSetUser ==
  /\ mpc = "setUser"
  /\ mode' = [mode EXCEPT ![mi] = "user"]
  /\ mpc' = "setQuit"
  /\ UNCHANGED <<faultLevel, value, quit, threadVars, sessVars, linkVars, mi>>

FreeSetQuit ==
  /\ mpc = "setQuit"
  /\ quit' = [quit EXCEPT ![mi] = TRUE]
  /\ mpc' = "notify"
  /\ UNCHANGED <<mode, faultLevel, value, threadVars, sessVars, linkVars, mi>>

\* Seeded bug: the flag is set, and the thread finds out when it wakes.
FreeNotifyNobody ==
  /\ mpc = "notify"
  /\ IF mi < NumSensors THEN mpc' = "setUser" /\ mi' = mi + 1
                        ELSE mpc' = "join" /\ mi' = 1
  /\ UNCHANGED <<sensorVars, threadVars, sessVars, linkVars>>

FreeNotify ==
  /\ mpc = "notify"
  /\ Notify(mi)
  /\ IF mi < NumSensors THEN mpc' = "setUser" /\ mi' = mi + 1
                        ELSE mpc' = "join" /\ mi' = 1
  /\ UNCHANGED <<sensorVars, sessVars, linkVars>>

\* thread.join() returns when the thread has ended, normally or not.
Join ==
  /\ mpc = "join"
  /\ tpc[mi] \in {"done", "dead"}
  /\ IF mi < NumSensors THEN mpc' = mpc /\ mi' = mi + 1
                        ELSE mpc' = "exited" /\ mi' = mi
  /\ UNCHANGED <<sensorVars, threadVars, sessVars, linkVars>>

FreeStep == FreeSetUser \/ FreeSetQuit \/ FreeNotify \/ Join

-----------------------------------------------------------------------------
Next ==
  \/ \E s \in Sensors : ThreadStep(s)
  \/ \E c \in Sessions : ReceiveMode(c) \/ ReceiveValue(c) \/ CommandStep(c)
  \/ Interrupt
  \/ FreeStep

Spec == Init /\ [][Next]_vars

\* Every thread is scheduled, and every lock that is released over and over
\* is granted in the end; nobody has to type a command or Ctrl-C.
Fairness ==
  /\ \A s \in Sensors : /\ WF_vars(ThreadStep(s))
                        /\ SF_vars(ThreadConnect(s))
  /\ \A c \in Sessions : /\ WF_vars(CommandStep(c))
                         /\ SF_vars(NotifyMode(c) \/ NotifyUser(c))
                         /\ SF_vars(SessionConnect(c))
  /\ WF_vars(FreeStep)
  /\ SF_vars(FreeNotify)

FairSpec == Spec /\ Fairness

-----------------------------------------------------------------------------
(* Properties.                                                             *)

ThreadPCs ==
  { "loop", "acquire", "isUser", "isAuto", "fault", "toUser", "store", "connect",
    "send", "after", "waiting", "timed", "wake", "checkQuit", "done", "dead" }

\* Where a thread holds the condition of its sensor.
Holding ==
  { "isUser", "isAuto", "fault", "toUser", "store", "connect", "send", "after",
    "checkQuit" }

SessionPCs ==
  { "idle", "left", "setLevel", "readMode", "setMode", "notify", "testAuto", "leaveAuto",
    "notifyUser", "setValue", "connect", "send" }

MainPCs == {"serving", "setUser", "setQuit", "notify", "join", "exited"}

\* Every variable has a value of its type.
TypeOK ==
  /\ mode \in [Sensors -> Modes]
  /\ faultLevel \in [Sensors -> Levels \cup {NoLevel}]
  /\ value \in [Sensors -> Readings]
  /\ quit \in [Sensors -> BOOLEAN]
  /\ cond \in [Sensors -> BOOLEAN]
  /\ tpc \in [Sensors -> ThreadPCs]
  /\ tval \in [Sensors -> Readings \cup {NoReading}]
  /\ probe \in [Sensors -> 1 .. 6]
  /\ spc \in [Sessions -> SessionPCs]
  /\ cmd \in [Sessions -> Commands]
  /\ tn \in Actors \cup {Nobody}
  /\ bmc \in [Sensors -> Readings]
  /\ mpc \in MainPCs
  /\ mi \in Sensors

Sending(a) == IF a \in Sensors THEN tpc[a] = "send" ELSE spc[a] = "send"

\* The locks: a sensor's condition is held exactly while its thread is inside
\* the `try` of execute, and the telnet object, which all threads and sessions
\* share (common.tn), is in use by the one actor that holds common.lock.  No
\* exception or early return of execute leaves the condition locked.
LockDiscipline ==
  /\ \A s \in Sensors : cond[s] <=> tpc[s] \in Holding
  /\ \A a \in Actors : tn = a <=> Sending(a)

\* Where a thread is between two of its cycles.
Settled == {"loop", "waiting", "timed", "wake", "checkQuit", "done", "dead"}

\* Comments of execute and free_resource, "we release the lock so that master
\* thread could join us" and "set quit flag": a thread that is between two cycles
\* when free_resource comes to notify it ends without another one, whatever the
\* sessions still do to its mode and with its condition.  (A thread that is on its
\* way into Condition.wait() then is the case of ShutdownCompletes.)
ToldThreadsEnd ==
  \A s \in Sensors :
    [](mpc = "notify" /\ mi = s /\ tpc[s] \in Settled
         => [](tpc[s] \in Settled) /\ <>(tpc[s] \in {"done", "dead"}))

\* Every command of a session ends, whatever the threads and the other
\* sessions do with the condition of the sensor and with the telnet lock,
\* unless the process ends first.
CommandsComplete ==
  \A c \in Sessions :
    spc[c] \notin {"idle", "left"} ~> spc[c] \in {"idle", "left"} \/ ~Running

\* A thread asleep in Condition.wait() without a timeout, on a sensor that is
\* not in user mode, has a session that is about to notify it.  From the test
\* of pre_mode in set_sensor_mode: a command that finds the sensor out of user
\* mode need not wake its thread.
NoLostWakeup ==
  \A s \in Sensors :
    tpc[s] = "waiting" /\ mode[s] # "user" =>
      \/ quit[s]
      \/ mpc = "setQuit" /\ mi = s
      \/ \E c \in Sessions : spc[c] = "notify" /\ cmd[c].sensor = s

\* README of the tool, "auto mode: changes the sensor reading to a random value
\* between the lnc and unc thresholds": a sensor in auto mode gets a new reading
\* again and again, unless it leaves that mode, has to quit, or its thread has
\* died (see FaultOnlyWhenAsked).
AutoRefreshes ==
  \A s \in Sensors :
    mode[s] = "auto" ~> tpc[s] \in {"store", "dead"} \/ mode[s] # "auto" \/ quit[s]

\* Somebody is between the store to value and the end of the exchange with
\* lanserv, so that the two may differ.
Publishing(s) ==
  \/ tpc[s] \in {"connect", "send"}
  \/ \E c \in Sessions : spc[c] \in {"connect", "send"} /\ cmd[c].sensor = s

\* Docstring of set_sensor_value, "Set sensor value to sensor object, and then
\* write back to openipmi data structure": while the server is up, and once
\* nobody is publishing, the value of the sensor object is what lanserv reports.
BmcAgrees ==
  mpc = "serving" => \A s \in Sensors : Publishing(s) \/ bmc[s] = value[s]

\* The branch "fault mode" of execute is taken in fault mode only.
FaultOnlyWhenAsked ==
  [][\A s \in Sensors :
       tpc[s] = "isAuto" /\ tpc'[s] = "fault" => mode[s] = "fault"]_vars

\* README of the tool, "fault mode: changes the sensor reading to a random value
\* to cause a particular type of fault as instructed": a fault reading lies in
\* the band of a level that a session may have asked for.
FaultAsInstructed ==
  \A s \in Sensors :
    tpc[s] = "toUser" /\ tval[s] # NoReading =>
      \E l \in SetLevels : tval[s] \in FaultRange[s][l]

\* Comment of execute, "we release the lock so that master thread could join us
\* and release the thread resource": after Ctrl-C, the joins all return.
ShutdownCompletes == mpc # "serving" ~> mpc = "exited"

=============================================================================
