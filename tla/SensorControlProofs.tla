------------------------ MODULE SensorControlProofs ------------------------
(***************************************************************************)
(* Proofs about SensorControl, for any number of sensors and any sessions. *)
(***************************************************************************)
EXTENDS SensorControl, TLAPS

\* What TypeOK needs to be inductive: whoever is about to store or to send a
\* reading has one, and not None.
ReadingInHand ==
  /\ \A s \in Sensors : tpc[s] \in {"store", "connect", "send"} => tval[s] # NoReading
  /\ \A c \in Sessions : spc[c] \in {"connect", "send"} => cmd[c].reading # NoReading

TypeInv == TypeOK /\ ReadingInHand

\* The locals of a session are a command, and so is what they start from.
LEMMA CommandFields ==
  /\ NoCommand \in Commands
  /\ \A x \in Commands : /\ x.sensor \in Sensors /\ x.mode \in Modes
                        /\ x.level \in Levels \cup {NoLevel}
                        /\ x.reading \in Readings \cup {NoReading} /\ x.pre \in Modes
  /\ \A s \in Sensors, m \in Modes, l \in Levels \cup {NoLevel} :
       [NoCommand EXCEPT !.sensor = s, !.mode = m, !.level = l] \in Commands
  /\ \A s \in Sensors, v \in Readings \cup {NoReading} :
       [NoCommand EXCEPT !.sensor = s, !.reading = v] \in Commands
  /\ \A x \in Commands, m \in Modes : [x EXCEPT !.pre = m] \in Commands
<1>1. 1 \in Sensors /\ "user" \in Modes
  BY ConstantsAssumption DEF Sensors, Modes
<1>2. NoCommand \in Commands
  BY <1>1 DEF NoCommand, Commands
<1>3. ASSUME NEW s \in Sensors, NEW m \in Modes, NEW l \in Levels \cup {NoLevel}
      PROVE  [NoCommand EXCEPT !.sensor = s, !.mode = m, !.level = l] \in Commands
  BY <1>2 DEF Commands
<1>4. ASSUME NEW s \in Sensors, NEW v \in Readings \cup {NoReading}
      PROVE  [NoCommand EXCEPT !.sensor = s, !.reading = v] \in Commands
  BY <1>2 DEF Commands
<1> QED
  BY <1>2, <1>3, <1>4 DEF Commands

\* Types, with what they need to be inductive.
LEMMA TypeInvariant == Spec => []TypeInv
<1>1. Init => TypeInv
  BY ConstantsAssumption, SMT DEF Init, TypeInv, TypeOK, ReadingInHand, NoCommand, Commands,
     Sensors, Actors, Modes, ThreadPCs, SessionPCs, MainPCs
<1>2. TypeInv /\ [Next]_vars => TypeInv'
  <2> SUFFICES ASSUME TypeInv, [Next]_vars PROVE TypeInv'
    OBVIOUS
  <2> USE DEF TypeInv, TypeOK, ReadingInHand, sensorVars, threadVars, sessVars, linkVars, mainVars
  <2>1. ASSUME NEW s \in Sensors, ThreadStep(s) PROVE TypeInv'
    <3>1. CASE LoopHead(s)
      BY <3>1 DEF LoopHead, ThreadGoto, ThreadPCs
    <3>2. CASE Acquire(s)
      BY <3>2 DEF Acquire, ThreadGoto, ThreadPCs
    <3>3. CASE TestUser(s)
      BY <3>3 DEF TestUser, ThreadGoto, ReleaseAndGoto, ThreadPCs
    <3>4. CASE TestAuto(s)
      <4> USE <3>4 DEF TestAuto, ThreadPCs
      <4>1. CASE mode[s] # "auto"
        BY <4>1 DEF ThreadGoto
      <4>2. CASE mode[s] = "auto" /\ tpc'[s] = "dead"
        BY <4>2 DEF ReleaseAndGoto, ThreadGoto
      <4>3. ASSUME NEW v \in AutoRange[s], tval' = [tval EXCEPT ![s] = v],
                   ThreadGoto(s, "store"), UNCHANGED cond
            PROVE  TypeInv'
        <5>1. v \in Readings /\ v # NoReading
          BY ConstantsAssumption
        <5> QED
          BY <4>3, <5>1 DEF ThreadGoto
      <4> QED
        BY <4>1, <4>2, <4>3 DEF ReleaseAndGoto, ThreadGoto
    <3>5. CASE ProbeLevel(s)
      <4> USE DEF ThreadPCs
      <4>1. /\ probe' \in [Sensors -> 1 .. 6]
            /\ UNCHANGED <<sensorVars, sessVars, linkVars, mainVars>>
        BY <3>5 DEF ProbeLevel
      <4>2. CASE ReleaseAndGoto(s, "dead") /\ UNCHANGED tval
        BY <4>1, <4>2 DEF ReleaseAndGoto, ThreadGoto
      <4>3. CASE UNCHANGED <<cond, tpc, tval>>
        BY <4>1, <4>3
      <4>4. CASE ThreadGoto(s, "toUser") /\ UNCHANGED <<cond, tval>>
        BY <4>1, <4>4 DEF ThreadGoto
      <4>5. ASSUME NEW l \in Levels, NEW v \in FaultRange[s][l],
                   tval' = [tval EXCEPT ![s] = v],
                   ThreadGoto(s, "toUser"), UNCHANGED cond
            PROVE  TypeInv'
        <5>1. v \in Readings
          BY ConstantsAssumption
        <5> QED
          BY <4>1, <4>5, <5>1 DEF ThreadGoto
      <4>6. LevelOrder[probe[s]] \in Levels
        BY DEF LevelOrder, Levels
      <4> QED
        BY <3>5, <4>2, <4>3, <4>4, <4>5, <4>6 DEF ProbeLevel
    <3>6. CASE BackToUser(s)
      BY <3>6 DEF BackToUser, ThreadGoto, ReleaseAndGoto, ThreadPCs, Modes
    <3>7. CASE Store(s)
      BY <3>7 DEF Store, ThreadGoto, ThreadPCs
    <3>8. CASE ThreadConnect(s)
      BY <3>8 DEF ThreadConnect, ThreadGoto, Connect, ThreadPCs, Actors
    <3>9. CASE ThreadSend(s)
      BY <3>9 DEF ThreadSend, ThreadGoto, Deliver, ThreadPCs
    <3>10. CASE AfterPublish(s)
      BY <3>10 DEF AfterPublish, ReleaseAndGoto, ThreadGoto, ThreadPCs
    <3>11. CASE Timeout(s)
      BY <3>11 DEF Timeout, ThreadGoto, ThreadPCs
    <3>12. CASE Wake(s)
      BY <3>12 DEF Wake, ThreadGoto, ThreadPCs
    <3>13. CASE CheckQuit(s)
      BY <3>13 DEF CheckQuit, ReleaseAndGoto, ThreadGoto, ThreadPCs
    <3> QED
      BY <2>1, <3>1, <3>2, <3>3, <3>4, <3>5, <3>6, <3>7, <3>8, <3>9, <3>10, <3>11, <3>12, <3>13 DEF ThreadStep
  <2>2. ASSUME NEW c \in Sessions, CommandStep(c) PROVE TypeInv'
    <3>1. CASE SetFaultLevel(c)
      BY <3>1 DEF SetFaultLevel, At, SessionGoto, SessionPCs, Commands, NoCommand
    <3>2. CASE ReadMode(c)
      BY <3>2 DEF ReadMode, At, SessionGoto, SessionPCs, Commands, NoCommand
    <3>3. CASE SetMode(c)
      BY <3>3, CommandFields DEF SetMode, At, SessionGoto, Finish, SessionPCs
    <3>4. CASE NotifyMode(c)
      BY <3>4, CommandFields DEF NotifyMode, At, Notify, SessionGoto, Finish, SessionPCs,
         ThreadPCs
    <3>5. CASE TestAutoMode(c)
      BY <3>5 DEF TestAutoMode, At, SessionGoto, SessionPCs, Commands, NoCommand
    <3>6. CASE LeaveAuto(c)
      BY <3>6 DEF LeaveAuto, At, SessionGoto, SessionPCs, Commands, NoCommand, Modes
    <3>7. CASE NotifyUser(c)
      BY <3>7 DEF NotifyUser, At, Notify, SessionGoto, SessionPCs, Commands, NoCommand, ThreadPCs
    <3>8. CASE SetValue(c)
      <4>1. value' \in [Sensors -> Readings]
        BY <3>8, CommandFields DEF SetValue, Commands
      <4>2. spc' \in [Sessions -> SessionPCs] /\ cmd' \in [Sessions -> Commands]
        BY <3>8, CommandFields DEF SetValue, SessionGoto, Finish, SessionPCs
      <4>3. UNCHANGED <<mode, faultLevel, quit, threadVars, linkVars, mainVars>>
        BY <3>8 DEF SetValue
      <4>4. \/ spc'[c] \in {"idle", "left"}
            \/ spc'[c] = "connect" /\ cmd[c].reading # NoReading /\ cmd' = cmd
        BY <3>8, CommandFields DEF SetValue, SessionGoto, Finish
      <4>5. \A d \in Sessions : d # c => spc'[d] = spc[d] /\ cmd'[d] = cmd[d]
        BY <3>8, CommandFields DEF SetValue, SessionGoto, Finish
      <4>6. ReadingInHand'
        BY <4>3, <4>4, <4>5
      <4> QED
        BY <4>1, <4>2, <4>3, <4>6
    <3>9. CASE SessionConnect(c)
      BY <3>9 DEF SessionConnect, At, SessionGoto, Connect, SessionPCs, Commands, NoCommand, Actors
    <3>10. CASE SessionSend(c)
      BY <3>10, CommandFields DEF SessionSend, At, SessionGoto, Deliver, Finish, SessionPCs
    <3> QED
      BY <2>2, <3>1, <3>2, <3>3, <3>4, <3>5, <3>6, <3>7, <3>8, <3>9, <3>10 DEF CommandStep
  <2>3. ASSUME NEW c \in Sessions, ReceiveMode(c) \/ ReceiveValue(c) PROVE TypeInv'
    <3>1. /\ cmd' \in [Sessions -> Commands]
          /\ \A d \in Sessions : d # c => cmd'[d] = cmd[d]
      <4>1. CASE ReceiveMode(c)
        <5>1. PICK s \in Sensors, m \in SetModes :
                \E l \in IF m = "fault" THEN SetLevels ELSE {NoLevel} :
                  cmd' = [cmd EXCEPT ![c] = [NoCommand EXCEPT !.sensor = s, !.mode = m,
                                                              !.level = l]]
          BY <4>1 DEF ReceiveMode
        <5>2. PICK l \in Levels \cup {NoLevel} :
                cmd' = [cmd EXCEPT ![c] = [NoCommand EXCEPT !.sensor = s, !.mode = m,
                                                            !.level = l]]
          BY <5>1, ConstantsAssumption
        <5>3. [NoCommand EXCEPT !.sensor = s, !.mode = m, !.level = l] \in Commands
          BY CommandFields, ConstantsAssumption
        <5> QED
          BY <5>2, <5>3
      <4>2. CASE ReceiveValue(c)
        <5>1. PICK s \in Sensors, v \in Readings \cup {NoReading} :
                cmd' = [cmd EXCEPT ![c] = [NoCommand EXCEPT !.sensor = s, !.reading = v]]
          BY <4>2 DEF ReceiveValue
        <5>2. [NoCommand EXCEPT !.sensor = s, !.reading = v] \in Commands
          BY CommandFields
        <5> QED
          BY <5>1, <5>2
      <4> QED
        BY <2>3, <4>1, <4>2
    <3>2. \E pc \in {"setLevel", "readMode", "testAuto"} : SessionGoto(c, pc)
      BY <2>3 DEF ReceiveMode, ReceiveValue
    <3>3. UNCHANGED <<sensorVars, threadVars, linkVars, mainVars>>
      BY <2>3 DEF ReceiveMode, ReceiveValue
    <3> QED
      BY <3>1, <3>2, <3>3 DEF SessionGoto, SessionPCs
  <2>4. CASE Interrupt
    BY <2>4 DEF Interrupt, MainPCs
  <2>5. CASE FreeStep
    <3>1. CASE FreeSetUser
      BY <3>1 DEF FreeSetUser, MainPCs, Modes
    <3>2. CASE FreeSetQuit
      BY <3>2 DEF FreeSetQuit, MainPCs
    <3>3. CASE FreeNotify
      <4>1. /\ mpc' \in MainPCs /\ mi' \in Sensors
        BY <3>3, ConstantsAssumption DEF FreeNotify, MainPCs, Sensors
      <4>2. UNCHANGED <<sensorVars, sessVars, linkVars, cond, tval, probe>>
        BY <3>3 DEF FreeNotify, Notify
      <4> QED
        BY <3>3, <4>1, <4>2 DEF FreeNotify, Notify, ThreadPCs
    <3>4. CASE Join
      BY <3>4, ConstantsAssumption DEF Join, MainPCs, Sensors
    <3> QED
      BY <2>5, <3>1, <3>2, <3>3, <3>4 DEF FreeStep
  <2>6. CASE UNCHANGED vars
    BY <2>6 DEF vars
  <2> QED
    BY <2>1, <2>2, <2>3, <2>4, <2>5, <2>6 DEF Next
<1> QED
  BY <1>1, <1>2, PTL DEF Spec

\* Every variable keeps a value of its type; in particular a thread never stores
\* the None that get_fault_value returns for a threshold that does not exist.
THEOREM TypeCorrect == Spec => []TypeOK
BY TypeInvariant, PTL DEF TypeInv

-----------------------------------------------------------------------------
\* The two kinds of lock are held exactly where execute and the commands hold them.
THEOREM LocksHeld == Spec => []LockDiscipline
<1> USE ConstantsAssumption
<1>1. Init => LockDiscipline
  BY DEF Init, LockDiscipline, Holding, Sending, Actors
<1>2. TypeInv /\ LockDiscipline /\ [Next]_vars => LockDiscipline'
  <2> SUFFICES ASSUME TypeInv, LockDiscipline, [Next]_vars PROVE LockDiscipline'
    OBVIOUS
  <2> USE DEF TypeInv, TypeOK, LockDiscipline, Sending, Actors, sensorVars, threadVars,
              sessVars, linkVars, mainVars
  <2>1. ASSUME NEW s \in Sensors, ThreadStep(s) PROVE LockDiscipline'
    <3> DEFINE Within == /\ tpc[s] \in Holding \ {"send"}
                         /\ UNCHANGED <<tn, spc>>
    <3>a. ASSUME Within, UNCHANGED <<cond, tpc>> PROVE LockDiscipline'
      BY <3>a
    <3>b. ASSUME Within, UNCHANGED cond, NEW pc \in Holding \ {"send"}, ThreadGoto(s, pc)
          PROVE  LockDiscipline'
      BY <3>b DEF ThreadGoto, Holding
    <3>c. ASSUME Within, NEW pc \in {"loop", "waiting", "timed", "done", "dead"},
                 ReleaseAndGoto(s, pc)
          PROVE  LockDiscipline'
      BY <3>c DEF ReleaseAndGoto, ThreadGoto, Holding
    <3>1. CASE LoopHead(s)
      BY <3>1 DEF LoopHead, ThreadGoto, Holding
    <3>2. CASE Acquire(s)
      BY <3>2 DEF Acquire, ThreadGoto, Holding
    <3>3. CASE TestUser(s)
      <4>1. Within
        BY <3>3 DEF TestUser, Holding
      <4> QED
        BY <3>3, <4>1, <3>b, <3>c DEF TestUser, Holding
    <3>4. CASE TestAuto(s)
      <4>1. Within
        BY <3>4 DEF TestAuto, Holding
      <4> QED
        BY <3>4, <4>1, <3>b, <3>c DEF TestAuto, Holding
    <3>5. CASE ProbeLevel(s)
      <4>1. Within
        BY <3>5 DEF ProbeLevel, Holding
      <4> QED
        BY <3>5, <4>1, <3>a, <3>b, <3>c DEF ProbeLevel, Holding
    <3>6. CASE BackToUser(s)
      BY <3>6 DEF BackToUser, ThreadGoto, ReleaseAndGoto, Holding
    <3>7. CASE Store(s)
      BY <3>7 DEF Store, ThreadGoto, Holding
    <3>8. CASE ThreadConnect(s)
      BY <3>8 DEF ThreadConnect, ThreadGoto, Connect, Holding
    <3>9. CASE ThreadSend(s)
      BY <3>9 DEF ThreadSend, ThreadGoto, Deliver, Holding
    <3>10. CASE AfterPublish(s)
      BY <3>10 DEF AfterPublish, ReleaseAndGoto, ThreadGoto, Holding
    <3>11. CASE Timeout(s)
      BY <3>11 DEF Timeout, ThreadGoto, Holding
    <3>12. CASE Wake(s)
      BY <3>12 DEF Wake, ThreadGoto, Holding
    <3>13. CASE CheckQuit(s)
      BY <3>13 DEF CheckQuit, ReleaseAndGoto, ThreadGoto, Holding
    <3> QED
      BY <2>1, <3>1, <3>2, <3>3, <3>4, <3>5, <3>6, <3>7, <3>8, <3>9, <3>10, <3>11, <3>12, <3>13 DEF ThreadStep
  <2>2. ASSUME NEW c \in Sessions, CommandStep(c) PROVE LockDiscipline'
    <3>1. CASE SetFaultLevel(c)
      BY <3>1 DEF SetFaultLevel, At, SessionGoto, Holding
    <3>2. CASE ReadMode(c)
      BY <3>2 DEF ReadMode, At, SessionGoto, Holding
    <3>3. CASE SetMode(c)
      BY <3>3 DEF SetMode, At, SessionGoto, Finish, Holding
    <3>4. CASE NotifyMode(c)
      BY <3>4 DEF NotifyMode, At, Notify, Finish, SessionGoto, Holding
    <3>5. CASE TestAutoMode(c)
      BY <3>5 DEF TestAutoMode, At, SessionGoto, Holding
    <3>6. CASE LeaveAuto(c)
      BY <3>6 DEF LeaveAuto, At, SessionGoto, Holding
    <3>7. CASE NotifyUser(c)
      BY <3>7 DEF NotifyUser, At, Notify, SessionGoto, Holding
    <3>8. CASE SetValue(c)
      BY <3>8 DEF SetValue, At, SessionGoto, Finish, Holding
    <3>9. CASE SessionConnect(c)
      BY <3>9 DEF SessionConnect, At, SessionGoto, Connect, Holding
    <3>10. CASE SessionSend(c)
      BY <3>10 DEF SessionSend, At, SessionGoto, Deliver, Finish, Holding
    <3> QED
      BY <2>2, <3>1, <3>2, <3>3, <3>4, <3>5, <3>6, <3>7, <3>8, <3>9, <3>10 DEF CommandStep
  <2>3. ASSUME NEW c \in Sessions, ReceiveMode(c) \/ ReceiveValue(c) PROVE LockDiscipline'
    <3>1. \E pc \in {"setLevel", "readMode", "testAuto"} : SessionGoto(c, pc)
      BY <2>3 DEF ReceiveMode, ReceiveValue
    <3>2. spc[c] # "send" /\ UNCHANGED <<cond, tpc, tn>>
      BY <2>3 DEF ReceiveMode, ReceiveValue, At
    <3> QED
      BY <3>1, <3>2 DEF SessionGoto
  <2>4. CASE Interrupt
    BY <2>4 DEF Interrupt
  <2>5. CASE FreeStep
    BY <2>5 DEF FreeStep, FreeSetUser, FreeSetQuit, FreeNotify, Join, Notify, Holding
  <2>6. CASE UNCHANGED vars
    BY <2>6 DEF vars
  <2> QED
    BY <2>1, <2>2, <2>3, <2>4, <2>5, <2>6 DEF Next
<1> QED
  BY <1>1, <1>2, TypeInvariant, PTL DEF Spec

-----------------------------------------------------------------------------
(* What holds with one session that never asks for fault mode.  With two   *)
(* of them, or with fault mode, a wakeup can be lost.                      *)

OneSession == \A c, d \in Sessions : c = d

\* Nothing leads into fault mode, so that a thread which takes the branch of the
\* fault mode by mistake finds no fault_level at its first comparison.
NoFault ==
  /\ \A s \in Sensors : /\ mode[s] # "fault" /\ faultLevel[s] = NoLevel
                        /\ tpc[s] # "toUser" /\ probe[s] = 1
  /\ \A c \in Sessions : cmd[c].mode # "fault" /\ spc[c] # "setLevel"

\* Sessions that never ask for the mode fault keep NoFault.
LEMMA NoFaultInvariant ==
  ASSUME "fault" \notin SetModes PROVE Spec => []NoFault
<1>1. Init => NoFault
  BY DEF Init, NoFault, NoCommand
<1>2. TypeInv /\ NoFault /\ [Next]_vars => NoFault'
  <2> SUFFICES ASSUME TypeInv, NoFault, [Next]_vars PROVE NoFault'
    OBVIOUS
  <2> USE DEF TypeInv, TypeOK, NoFault, sensorVars, threadVars, sessVars, linkVars, mainVars
  <2>1. ASSUME NEW s \in Sensors, ThreadStep(s) PROVE NoFault'
    <3>1. UNCHANGED <<mode, faultLevel, spc, cmd>>
      BY <2>1 DEF ThreadStep, LoopHead, Acquire, TestUser, TestAuto, ProbeLevel,
         BackToUser, Store, ThreadConnect, ThreadSend, AfterPublish, Timeout, Wake,
         CheckQuit
    <3>2. probe' = probe
      BY <2>1 DEF ThreadStep, LoopHead, Acquire, TestUser, TestAuto, ProbeLevel,
         BackToUser, Store, ThreadConnect, ThreadSend, AfterPublish, Timeout, Wake,
         CheckQuit
    <3>3. tpc' = tpc \/ \E pc \in ThreadPCs \ {"toUser"} : ThreadGoto(s, pc)
      <4>1. CASE ProbeLevel(s)
        BY <4>1 DEF ProbeLevel, LevelOrder, Levels, NoLevel, ReleaseAndGoto, ThreadPCs
      <4> QED
        BY <2>1, <4>1 DEF ThreadStep, LoopHead, Acquire, TestUser, TestAuto,
           BackToUser, Store, ThreadConnect, ThreadSend, AfterPublish, Timeout, Wake,
           CheckQuit, ReleaseAndGoto, ThreadPCs
    <3> QED
      BY <3>1, <3>2, <3>3 DEF ThreadGoto
  <2>2. ASSUME NEW c \in Sessions, CommandStep(c) PROVE NoFault'
    <3>1. UNCHANGED <<faultLevel, probe>>
      BY <2>2 DEF CommandStep, SetFaultLevel, ReadMode, SetMode, NotifyMode, TestAutoMode,
         LeaveAuto, NotifyUser, SetValue, SessionConnect, SessionSend, At, Notify
    <3>2. \A s \in Sensors : tpc'[s] = tpc[s] \/ tpc'[s] = "wake"
      BY <2>2, CommandFields DEF CommandStep, SetFaultLevel, ReadMode, SetMode, NotifyMode,
         TestAutoMode, LeaveAuto, NotifyUser, SetValue, SessionConnect, SessionSend, At,
         Notify
    <3>3. \A s \in Sensors : mode'[s] # "fault"
      BY <2>2, CommandFields DEF CommandStep, SetFaultLevel, ReadMode, SetMode, NotifyMode,
         TestAutoMode, LeaveAuto, NotifyUser, SetValue, SessionConnect, SessionSend, At
    <3>4. \E pc \in SessionPCs \ {"setLevel"} : SessionGoto(c, pc)
      BY <2>2 DEF CommandStep, SetFaultLevel, ReadMode, SetMode, NotifyMode,
         TestAutoMode, LeaveAuto, NotifyUser, SetValue, SessionConnect, SessionSend, At,
         Finish, SessionPCs
    <3>5. \A d \in Sessions : cmd'[d].mode # "fault"
      <4>1. CASE ReadMode(c)
        BY <4>1 DEF ReadMode, At
      <4>2. NoCommand.mode = "user"
        BY DEF NoCommand
      <4>3. CASE cmd' = cmd \/ Finish(c)
        BY <4>2, <4>3 DEF Finish
      <4> QED
        BY <2>2, <4>1, <4>3 DEF CommandStep, SetFaultLevel, SetMode, NotifyMode,
           TestAutoMode, LeaveAuto, NotifyUser, SetValue, SessionConnect, SessionSend, At
    <3> QED
      BY <3>1, <3>2, <3>3, <3>4, <3>5 DEF SessionGoto
  <2>3. ASSUME NEW c \in Sessions, ReceiveMode(c) \/ ReceiveValue(c) PROVE NoFault'
    <3>1. cmd'[c].mode # "fault" /\ \A d \in Sessions : d # c => cmd'[d] = cmd[d]
      BY <2>3 DEF ReceiveMode, ReceiveValue, NoCommand
    <3>2. \E pc \in {"readMode", "testAuto"} : SessionGoto(c, pc)
      BY <2>3, <3>1 DEF ReceiveMode, ReceiveValue
    <3> QED
      BY <2>3, <3>1, <3>2 DEF ReceiveMode, ReceiveValue, SessionGoto
  <2>4. CASE Interrupt
    BY <2>4 DEF Interrupt
  <2>5. CASE FreeStep
    BY <2>5 DEF FreeStep, FreeSetUser, FreeSetQuit, FreeNotify, Join, Notify
  <2>6. CASE UNCHANGED vars
    BY <2>6 DEF vars
  <2> QED
    BY <2>1, <2>2, <2>3, <2>4, <2>5, <2>6 DEF Next
<1> QED
  BY <1>1, <1>2, TypeInvariant, PTL DEF Spec

\* A command that found its sensor out of user mode still finds it so, unless the
\* main thread has set it to user mode on the way out.
Leaving(s) == quit[s] \/ (mpc = "setQuit" /\ mi = s)

PreModeFresh ==
  \A c \in Sessions :
    spc[c] = "setMode" /\ cmd[c].pre # "user" =>
      Leaving(cmd[c].sensor) \/ mode[cmd[c].sensor] # "user"

\* No sensor thread sleeps on a sensor that left user mode: with one session
\* and no fault mode, the pre_mode of a command is never stale.
THEOREM WakeupNotLost ==
  ASSUME OneSession, "fault" \notin SetModes PROVE Spec => []NoLostWakeup
<1> DEFINE Inv == NoLostWakeup /\ PreModeFresh
<1>1. Init => Inv
  BY DEF Init, NoLostWakeup, PreModeFresh
<1>2. TypeInv /\ NoFault /\ Inv /\ [Next]_vars => Inv'
  <2> SUFFICES ASSUME TypeInv, NoFault, Inv, [Next]_vars PROVE Inv'
    OBVIOUS
  <2> USE DEF TypeInv, TypeOK, NoLostWakeup, PreModeFresh, Leaving, sensorVars, threadVars,
              sessVars, linkVars, mainVars
  <2>1. ASSUME NEW s \in Sensors, ThreadStep(s) PROVE Inv'
    <3>1. UNCHANGED <<mode, quit, spc, cmd, mpc, mi>>
      BY <2>1 DEF NoFault, ThreadStep, LoopHead, Acquire, TestUser, TestAuto, ProbeLevel,
         BackToUser, Store, ThreadConnect, ThreadSend, AfterPublish, Timeout, Wake,
         CheckQuit
    <3>2. \/ tpc' = tpc
          \/ \E pc \in ThreadPCs : ThreadGoto(s, pc) /\ (pc = "waiting" => mode[s] = "user")
      BY <2>1 DEF ThreadStep, LoopHead, Acquire, TestUser, TestAuto, ProbeLevel,
         BackToUser, Store, ThreadConnect, ThreadSend, AfterPublish, Timeout, Wake,
         CheckQuit, ReleaseAndGoto, ThreadPCs
    <3> QED
      BY <3>1, <3>2 DEF ThreadGoto
  <2>2. ASSUME NEW c \in Sessions, CommandStep(c) PROVE Inv'
    <3>1. UNCHANGED <<quit, mpc, mi>> /\ \A d \in Sessions : d = c
      BY <2>2 DEF OneSession, CommandStep, SetFaultLevel, ReadMode, SetMode, NotifyMode,
         TestAutoMode, LeaveAuto, NotifyUser, SetValue, SessionConnect, SessionSend
    <3>a. cmd[c] \in Commands
      OBVIOUS
    <3>b. cmd[c].sensor \in Sensors /\ cmd[c].mode \in {"user", "auto"}
      <4>1. cmd[c].sensor \in Sensors /\ cmd[c].mode \in Modes
        BY <3>a, CommandFields
      <4> QED
        BY <4>1 DEF NoFault, Modes
    <3>2. CASE SetMode(c)
      <4>1. \A r \in Sensors : r # cmd[c].sensor => mode'[r] = mode[r]
        BY <3>2 DEF SetMode
      <4>2. mode'[cmd[c].sensor] = cmd[c].mode /\ cmd[c].mode \in {"user", "auto"}
        BY <3>2, <3>b DEF SetMode
      <4>3. tpc' = tpc /\ spc[c] = "setMode"
        BY <3>2 DEF SetMode, At
      <4>4. \/ spc'[c] = "notify" /\ cmd' = cmd
            \/ spc'[c] \in {"idle", "left"} /\ (cmd[c].mode = "user" \/ cmd[c].pre # "user")
        BY <3>2, <4>2 DEF SetMode, SessionGoto, Finish
      <4> QED
        BY <3>1, <4>1, <4>2, <4>3, <4>4
    <3>3. CASE NotifyMode(c) \/ NotifyUser(c)
      <4>1. UNCHANGED mode /\ spc'[c] \in {"idle", "left", "setValue"}
        BY <3>3 DEF NotifyMode, NotifyUser, Finish, SessionGoto
      <4>2. /\ tpc'[cmd[c].sensor] # "waiting"
            /\ \A r \in Sensors : r # cmd[c].sensor => tpc'[r] = tpc[r]
        BY <3>3, CommandFields DEF NotifyMode, NotifyUser, Notify
      <4> QED
        BY <3>1, <4>1, <4>2
    <3>4. CASE ReadMode(c)
      <4>1. UNCHANGED <<mode, tpc>> /\ spc[c] = "readMode"
        BY <3>4 DEF ReadMode, At
      <4>2. cmd'[c].pre = mode[cmd[c].sensor] /\ cmd'[c].sensor = cmd[c].sensor
        BY <3>4, <3>a DEF ReadMode, Commands
      <4> QED
        BY <3>1, <4>1, <4>2
    <3>5. CASE LeaveAuto(c)
      <4>1. /\ UNCHANGED <<cmd, tpc>>
            /\ spc[c] # "notify" /\ spc'[c] = "notifyUser"
            /\ \A r \in Sensors : mode'[r] = mode[r] \/ mode'[r] = "user"
        BY <3>5, <3>b DEF LeaveAuto, At, SessionGoto
      <4> QED
        BY <3>1, <4>1
    <3>6. CASE \/ SetFaultLevel(c) \/ TestAutoMode(c) \/ SetValue(c)
               \/ SessionConnect(c) \/ SessionSend(c)
      <4>1. UNCHANGED <<mode, tpc>> /\ spc[c] # "notify" /\ spc'[c] # "setMode"
        BY <3>6 DEF SetFaultLevel, TestAutoMode, SetValue, SessionConnect, SessionSend,
           At, SessionGoto, Finish
      <4> QED
        BY <3>1, <4>1
    <3> QED
      BY <2>2, <3>2, <3>3, <3>4, <3>5, <3>6 DEF CommandStep
  <2>3. ASSUME NEW c \in Sessions, ReceiveMode(c) \/ ReceiveValue(c) PROVE Inv'
    <3>1. \E pc \in {"setLevel", "readMode", "testAuto"} : SessionGoto(c, pc)
      BY <2>3 DEF ReceiveMode, ReceiveValue
    <3>2. /\ UNCHANGED <<mode, quit, tpc, mpc, mi>>
          /\ spc[c] = "idle" /\ \A d \in Sessions : d = c
      BY <2>3 DEF ReceiveMode, ReceiveValue, At, OneSession
    <3> QED
      BY <3>1, <3>2 DEF SessionGoto
  <2>4. CASE Interrupt
    BY <2>4 DEF Interrupt
  <2>5. CASE FreeSetUser
    BY <2>5, CommandFields DEF FreeSetUser
  <2>6. CASE FreeSetQuit
    BY <2>6, CommandFields DEF FreeSetQuit
  <2>7. CASE FreeNotify
    BY <2>7, CommandFields DEF FreeNotify, Notify
  <2>8. CASE Join
    BY <2>8 DEF Join
  <2>9. CASE UNCHANGED vars
    BY <2>9 DEF vars
  <2> QED
    BY <2>1, <2>2, <2>3, <2>4, <2>5, <2>6, <2>7, <2>8, <2>9 DEF Next, FreeStep
<1> QED
  BY <1>1, <1>2, TypeInvariant, NoFaultInvariant, PTL DEF Spec, Inv

-----------------------------------------------------------------------------
(* With one session that asks for auto mode only, and lanserv always up,   *)
(* the command "sensor value set" never meets a thread in mid-cycle: the   *)
(* only way out of auto mode is its own, and it acquires the condition     *)
(* between the two.                                                        *)

\* Where a thread is going to publish, or to die.
MidCycle == {"isAuto", "fault", "store", "connect", "send"}

\* Once its sensor is in user mode, a thread finishes its cycle before the session
\* that set that mode gets the condition.
UserModeSettles ==
  \A s \in Sensors : mode[s] = "user" /\ tpc[s] \in MidCycle =>
    \E c \in Sessions : spc[c] = "notifyUser" /\ cmd[c].sensor = s

CommandsInAuto ==
  \A c \in Sessions :
    /\ spc[c] \in {"notifyUser", "setValue", "connect", "send"} =>
         mode[cmd[c].sensor] = "user"
    /\ spc[c] \in {"readMode", "setMode"} => cmd[c].mode = "auto"

\* What is on its way to lanserv is the value of the sensor object.
InFlightIsCurrent ==
  /\ \A s \in Sensors : tpc[s] \in {"connect", "send"} => value[s] = tval[s]
  /\ \A c \in Sessions :
       spc[c] \in {"connect", "send"} => value[cmd[c].sensor] = cmd[c].reading

WriteBackInv ==
  mpc = "serving" => /\ UserModeSettles
                     /\ CommandsInAuto
                     /\ InFlightIsCurrent
                     /\ BmcAgrees

\* The value of a sensor object and what lanserv reports agree whenever nobody
\* is publishing.
THEOREM WriteBackAgrees ==
  ASSUME OneSession, SetModes \subseteq {"auto"}, LinkFails = FALSE
  PROVE  Spec => []BmcAgrees
<1>1. Init => WriteBackInv
  BY DEF Init, WriteBackInv, UserModeSettles, CommandsInAuto, InFlightIsCurrent,
     BmcAgrees, MidCycle
<1>2. TypeInv /\ LockDiscipline /\ NoFault /\ WriteBackInv /\ [Next]_vars => WriteBackInv'
  <2> SUFFICES ASSUME TypeInv, LockDiscipline, NoFault, WriteBackInv, [Next]_vars,
                      mpc' = "serving"
               PROVE  WriteBackInv'
    BY DEF WriteBackInv
  <2> USE DEF TypeInv, TypeOK, sensorVars, threadVars, sessVars, linkVars, mainVars
  <2>0. /\ mpc = "serving"
        /\ UserModeSettles /\ CommandsInAuto /\ InFlightIsCurrent /\ BmcAgrees
    <3>1. mpc = "serving"
      BY DEF Next, ThreadStep, LoopHead, Acquire, TestUser, TestAuto, ProbeLevel,
         BackToUser, Store, ThreadConnect, ThreadSend, AfterPublish, Timeout, Wake,
         CheckQuit, ReceiveMode, ReceiveValue, CommandStep, SetFaultLevel, ReadMode,
         SetMode, NotifyMode, TestAutoMode, LeaveAuto, NotifyUser, SetValue,
         SessionConnect, SessionSend, Interrupt, FreeStep, FreeSetUser, FreeSetQuit,
         FreeNotify, Join, vars
    <3> QED
      BY <3>1 DEF WriteBackInv
  <2> SUFFICES UserModeSettles' /\ CommandsInAuto' /\ InFlightIsCurrent' /\ BmcAgrees'
    BY DEF WriteBackInv
  <2> USE DEF UserModeSettles, CommandsInAuto, InFlightIsCurrent, BmcAgrees, Publishing,
              MidCycle
  <2>1. ASSUME NEW s \in Sensors, ThreadStep(s)
        PROVE  UserModeSettles' /\ CommandsInAuto' /\ InFlightIsCurrent' /\ BmcAgrees'
    <3>1. UNCHANGED <<mode, spc, cmd>>
      BY <2>1 DEF NoFault, ThreadStep, LoopHead, Acquire, TestUser, TestAuto, ProbeLevel,
         BackToUser, Store, ThreadConnect, ThreadSend, AfterPublish, Timeout, Wake,
         CheckQuit
    <3>2. CASE Store(s)
      <4>1. /\ tpc[s] = "store" /\ tpc' = [tpc EXCEPT ![s] = "connect"]
            /\ value' = [value EXCEPT ![s] = tval[s]] /\ UNCHANGED <<tval, bmc>>
        BY <3>2 DEF Store, ThreadGoto
      <4>2. \A c \in Sessions : spc[c] \in {"connect", "send"} => cmd[c].sensor # s
        BY <2>0, <4>1 DEF OneSession
      <4>3. \A c \in Sessions : cmd[c].sensor \in Sensors
        BY CommandFields
      <4> QED
        BY <2>0, <3>1, <4>1, <4>2, <4>3
    <3>3. CASE ThreadConnect(s)
      BY <2>0, <3>1, <3>3 DEF ThreadConnect, ThreadGoto, Connect
    <3>4. CASE ThreadSend(s)
      BY <2>0, <3>1, <3>4 DEF ThreadSend, ThreadGoto, Deliver
    <3>5. CASE TestUser(s)
      <4>1. /\ UNCHANGED <<value, tval, bmc>> /\ tpc[s] = "isUser"
            /\ \/ tpc' = [tpc EXCEPT ![s] = "waiting"]
               \/ tpc' = [tpc EXCEPT ![s] = "isAuto"] /\ mode[s] # "user"
        BY <3>5 DEF TestUser, ReleaseAndGoto, ThreadGoto
      <4> QED
        BY <2>0, <3>1, <4>1
    <3>6. CASE TestAuto(s)
      <4>1. /\ UNCHANGED <<value, bmc>> /\ tpc[s] = "isAuto"
            /\ \A r \in Sensors : r # s => tval'[r] = tval[r]
            /\ \E pc \in {"store", "dead", "fault"} : tpc' = [tpc EXCEPT ![s] = pc]
        BY <3>6 DEF TestAuto, ReleaseAndGoto, ThreadGoto
      <4> QED
        BY <2>0, <3>1, <4>1
    <3>7. CASE ProbeLevel(s)
      <4>1. /\ UNCHANGED <<value, bmc, tval>> /\ tpc[s] = "fault"
            /\ tpc' = [tpc EXCEPT ![s] = "dead"]
        BY <3>7 DEF ProbeLevel, ReleaseAndGoto, ThreadGoto, NoFault, LevelOrder, NoLevel
      <4> QED
        BY <2>0, <3>1, <4>1
    <3>8. CASE \/ LoopHead(s) \/ Acquire(s) \/ AfterPublish(s) \/ Timeout(s) \/ Wake(s)
               \/ CheckQuit(s)
      <4>1. /\ UNCHANGED <<value, tval, bmc>> /\ tpc[s] \notin MidCycle
            /\ \E pc \in ThreadPCs \ MidCycle : tpc' = [tpc EXCEPT ![s] = pc]
        BY <3>8 DEF LoopHead, Acquire, AfterPublish, Timeout, Wake, CheckQuit, ThreadGoto,
           ReleaseAndGoto, ThreadPCs
      <4> QED
        BY <2>0, <3>1, <4>1
    <3>9. ~BackToUser(s)
      BY DEF BackToUser, NoFault
    <3> QED
      BY <2>1, <3>2, <3>3, <3>4, <3>5, <3>6, <3>7, <3>8, <3>9 DEF ThreadStep
  <2>2. ASSUME NEW c \in Sessions, CommandStep(c)
        PROVE  UserModeSettles' /\ CommandsInAuto' /\ InFlightIsCurrent' /\ BmcAgrees'
    <3>1. \A d \in Sessions : d = c
      BY DEF OneSession
    <3>2. cmd[c] \in Commands /\ cmd[c].sensor \in Sensors
      BY CommandFields
    <3>3. CASE ReadMode(c)
      <4>1. /\ UNCHANGED <<mode, value, tpc, tval, bmc>> /\ spc[c] = "readMode"
            /\ spc'[c] = "setMode" /\ cmd'[c].mode = cmd[c].mode
        BY <3>2, <3>3 DEF ReadMode, At, SessionGoto, Commands
      <4> QED
        BY <2>0, <3>1, <4>1
    <3>4. CASE SetMode(c)
      <4>0. spc[c] = "setMode" /\ cmd[c].mode = "auto"
        BY <2>0, <3>4 DEF SetMode, At
      <4>1. /\ UNCHANGED <<value, tpc, tval, bmc>> /\ spc[c] = "setMode"
            /\ spc'[c] \in {"notify", "idle", "left"}
            /\ mode' = [mode EXCEPT ![cmd[c].sensor] = "auto"]
        BY <3>4, <4>0 DEF SetMode, SessionGoto, Finish
      <4> QED
        BY <2>0, <3>1, <3>2, <4>1
    <3>5. CASE NotifyMode(c)
      <4>1. /\ UNCHANGED <<mode, value, tval, bmc>> /\ spc[c] = "notify"
            /\ spc'[c] \in {"idle", "left"}
            /\ \A r \in Sensors : tpc'[r] = tpc[r] \/
                                  (tpc[r] \in {"waiting", "timed"} /\ tpc'[r] = "wake")
        BY <3>2, <3>5 DEF NotifyMode, Notify, At, SessionGoto, Finish
      <4> QED
        BY <2>0, <3>1, <4>1
    <3>6. CASE TestAutoMode(c)
      <4>1. mode[cmd[c].sensor] \in {"user", "auto"}
        BY <3>2 DEF NoFault, Modes
      <4>2. /\ UNCHANGED <<mode, value, tpc, tval, bmc, cmd>> /\ spc[c] = "testAuto"
            /\ \/ spc'[c] = "leaveAuto"
               \/ spc'[c] = "setValue" /\ mode[cmd[c].sensor] = "user"
        BY <3>6, <4>1 DEF TestAutoMode, At, SessionGoto
      <4> QED
        BY <2>0, <3>1, <4>2
    <3>7. CASE LeaveAuto(c)
      <4>1. /\ UNCHANGED <<value, tpc, tval, bmc, cmd>> /\ spc[c] = "leaveAuto"
            /\ spc'[c] = "notifyUser"
            /\ mode' = [mode EXCEPT ![cmd[c].sensor] = "user"]
        BY <3>7 DEF LeaveAuto, At, SessionGoto
      <4> QED
        BY <2>0, <3>1, <3>2, <4>1
    <3>8. CASE NotifyUser(c)
      <4>1. /\ UNCHANGED <<mode, value, tval, bmc, cmd>> /\ spc[c] = "notifyUser"
            /\ spc'[c] = "setValue" /\ ~cond[cmd[c].sensor]
            /\ \A r \in Sensors : tpc'[r] = tpc[r] \/
                                  (tpc[r] \in {"waiting", "timed"} /\ tpc'[r] = "wake")
        BY <3>2, <3>8 DEF NotifyUser, Notify, At, SessionGoto
      <4>2. tpc[cmd[c].sensor] \notin MidCycle
        BY <3>2, <4>1 DEF LockDiscipline, Holding
      <4>3. mode[cmd[c].sensor] = "user"
        BY <2>0, <4>1
      <4> QED
        BY <2>0, <3>1, <4>1, <4>2, <4>3
    <3>9. CASE SetValue(c)
      <4>1. /\ UNCHANGED <<mode, tpc, tval, bmc>> /\ spc[c] = "setValue"
            /\ \/ UNCHANGED value /\ spc'[c] \in {"idle", "left"}
               \/ /\ value' = [value EXCEPT ![cmd[c].sensor] = cmd[c].reading]
                  /\ spc'[c] = "connect" /\ cmd' = cmd
        BY <3>9 DEF SetValue, At, SessionGoto, Finish
      <4>2. tpc[cmd[c].sensor] \notin {"connect", "send"}
        BY <2>0, <3>1, <3>2, <4>1
      <4> QED
        BY <2>0, <3>1, <3>2, <4>1, <4>2
    <3>10. CASE SessionConnect(c)
      BY <2>0, <3>1, <3>10 DEF SessionConnect, Connect, At, SessionGoto
    <3>11. CASE SessionSend(c)
      <4>1. /\ UNCHANGED <<mode, value, tpc, tval>> /\ spc[c] = "send" /\ spc'[c] \in {"idle", "left"}
            /\ bmc' = [bmc EXCEPT ![cmd[c].sensor] = cmd[c].reading]
        BY <3>11 DEF SessionSend, Deliver, At, SessionGoto, Finish
      <4> QED
        BY <2>0, <3>1, <3>2, <4>1
    <3>12. ~SetFaultLevel(c)
      BY DEF SetFaultLevel, At, NoFault
    <3> QED
      BY <2>2, <3>3, <3>4, <3>5, <3>6, <3>7, <3>8, <3>9, <3>10, <3>11, <3>12 DEF CommandStep
  <2>3. ASSUME NEW c \in Sessions, ReceiveMode(c) \/ ReceiveValue(c)
        PROVE  UserModeSettles' /\ CommandsInAuto' /\ InFlightIsCurrent' /\ BmcAgrees'
    <3>1. /\ UNCHANGED <<mode, value, tpc, tval, bmc>> /\ spc[c] = "idle"
          /\ \A d \in Sessions : d = c
      BY <2>3 DEF ReceiveMode, ReceiveValue, At, OneSession
    <3>2. \/ spc'[c] \in {"setLevel", "testAuto"}
          \/ spc'[c] = "readMode" /\ cmd'[c].mode = "auto"
      <4>1. CASE ReceiveMode(c)
        <5>1. PICK s \in Sensors, m \in SetModes :
                \E l \in IF m = "fault" THEN SetLevels ELSE {NoLevel} :
                  cmd' = [cmd EXCEPT ![c] = [NoCommand EXCEPT !.sensor = s, !.mode = m,
                                                              !.level = l]]
          BY <4>1 DEF ReceiveMode
        <5>2. cmd'[c].mode = "auto"
          BY <5>1 DEF NoCommand
        <5> QED
          BY <4>1, <5>2 DEF ReceiveMode, SessionGoto
      <4>2. CASE ReceiveValue(c)
        BY <4>2 DEF ReceiveValue, SessionGoto
      <4> QED
        BY <2>3, <4>1, <4>2
    <3> QED
      BY <2>0, <3>1, <3>2
  <2>4. ~Interrupt /\ ~FreeStep
    BY <2>0 DEF Interrupt, FreeStep, FreeSetUser, FreeSetQuit, FreeNotify, Join
  <2>5. CASE UNCHANGED vars
    BY <2>0, <2>5 DEF vars
  <2> QED
    BY <2>1, <2>2, <2>3, <2>4, <2>5 DEF Next
<1>3. WriteBackInv => BmcAgrees
  BY DEF WriteBackInv, BmcAgrees
<1> QED
  <2>1. Spec => []NoFault
    BY NoFaultInvariant
  <2> QED
    BY <1>1, <1>2, <1>3, <2>1, TypeInvariant, LocksHeld, PTL DEF Spec

=============================================================================
