------------------------- MODULE SensorWritesProofs -------------------------
(***************************************************************************)
(* The commands that set discrete sensors and add events, for any number   *)
(* of sessions, sensors, states and events.                                *)
(***************************************************************************)
EXTENDS SensorWrites, TLAPS

-----------------------------------------------------------------------------
(***************************************************************************)
(* Types.  A command that is past its arguments has a sensor that its      *)
(* session reaches; one that adds an event has an event.                   *)
(***************************************************************************)
Arguments ==
  \A c \in Sessions :
    /\ pc[c] \in D!Labels => write[c].sensor \in Reach[c] \cap Discrete
    /\ pc[c] \in {"check"} \cup E!Filling =>
         ask[c].sensor \in Reach[c] /\ ask[c].event \in Events

TypeInv == TypeOK /\ Arguments

\* What the command for bit i may do.
SentBit(c, i) ==
  LET s == write[c].sensor IN
  \/ /\ bits' = [bits EXCEPT ![s] =
                   IF i \in write[c].target THEN @ \cup {i} ELSE @ \ {i}]
     /\ lost' = [lost EXCEPT ![s] = @ \ {i}]
  \/ /\ lost' = [lost EXCEPT ![s] = @ \cup {i}]
     /\ UNCHANGED bits

USE DEF D!Goto, E!Goto

LEMMA DiffUpdate ==
  ASSUME NEW S, NEW T, NEW U, NEW r \in [sensor : S, target : T, diff : U], NEW x
  PROVE  [r EXCEPT !.diff = x] = [sensor |-> r.sensor, target |-> r.target, diff |-> x]
OBVIOUS

LEMMA SelUpdates ==
  ASSUME NEW r \in [dir : E!Dirs, data : [E!Bytes -> Events \cup {0}]], NEW x
  PROVE  /\ [r EXCEPT !.dir = x] = [dir |-> x, data |-> r.data]
         /\ [r EXCEPT !.data = x] = [dir |-> r.dir, data |-> x]
OBVIOUS

LEMMA StatesUpdate ==
  ASSUME NEW f \in [Discrete -> SUBSET States], NEW s \in Discrete, NEW T \in SUBSET States
  PROVE  [f EXCEPT ![s] = T] \in [Discrete -> SUBSET States]
OBVIOUS

LEMMA InitTypes == Init => TypeInv
<1> SUFFICES ASSUME Init PROVE TypeInv
  OBVIOUS
<1>1. D!TypeOK
  BY WritesAssumption DEF Init, D!Init, D!TypeOK, D!NoWrite
<1>2. E!TypeOK
  BY WritesAssumption
  DEF Init, E!Init, E!TypeOK, E!NoAsk, E!NoRecord, E!Record, E!Records, E!Bytes, E!Dirs
<1>3. Arguments
  BY DEF Init, Arguments, D!Labels, D!Writing, E!Filling
<1> QED
  BY <1>1, <1>2, <1>3 DEF TypeInv, TypeOK, Init

LEMMA ValuesSteps ==
  ASSUME TypeInv, D!Next, UNCHANGED <<sel, log, ask, line>>
  PROVE  TypeInv'
<1> USE WritesAssumption DEF TypeInv, TypeOK, D!TypeOK, Arguments
<1>0. E!TypeOK'
  BY DEF E!TypeOK, E!Records
<1>1. PICK c \in Sessions : D!ReceiveValue(c) \/ D!WriteStep(c)
  BY DEF D!Next
<1>2. CASE D!ReceiveValue(c)
  <2>1. PICK s \in Reach[c] \cap Discrete, v \in SUBSET States :
          write' = [write EXCEPT ![c] = [sensor |-> s, target |-> v, diff |-> {}]]
    BY <1>2 DEF D!ReceiveValue
  <2>2. D!TypeOK'
    BY <1>2, <2>1 DEF D!ReceiveValue
  <2>3. Arguments'
    BY <1>2, <2>1 DEF D!ReceiveValue, D!Labels, D!Writing, E!Labels, E!Filling
  <2> QED
    BY <1>0, <1>2, <2>2, <2>3 DEF D!ReceiveValue, D!Labels
<1>3. CASE D!Compare(c)
  <2>1. D!SymDiff(value[write[c].sensor], write[c].target) \in SUBSET States
          \/ value[write[c].sensor] = Unread
    BY <1>3 DEF D!Compare, D!SymDiff, D!Labels
  <2>2. D!TypeOK'
    BY <1>3, <2>1 DEF D!Compare, D!NoWrite
  <2>3. Arguments'
    BY <1>3 DEF D!Compare, D!NoWrite, D!Labels, D!Writing, E!Labels, E!Filling
  <2> QED
    BY <1>0, <1>3, <2>2, <2>3 DEF D!Compare, D!Labels
<1>4. CASE D!LockWrite(c)
  BY <1>0, <1>4 DEF D!LockWrite, D!Labels, D!Writing, E!Labels, E!Filling
<1>5. CASE D!StoreValue(c)
  BY <1>0, <1>5 DEF D!StoreValue, D!Labels, D!Writing, E!Labels, E!Filling
<1>6. CASE D!ConnectBit(c)
  BY <1>0, <1>6 DEF D!ConnectBit, D!discreteVars, D!Labels, D!Writing, E!Labels, E!Filling
<1>7. CASE D!SendBit(c)
  <2>1. PICK i \in States :
          write' = [write EXCEPT ![c].diff = @ \ {i}] /\ SentBit(c, i)
    BY <1>7 DEF D!SendBit, SentBit
  <2>2. write'[c] = [sensor |-> write[c].sensor, target |-> write[c].target,
                     diff |-> write[c].diff \ {i}]
    <3>1. write[c] \in
            [sensor : Discrete \cup {0}, target : SUBSET States, diff : SUBSET States]
      OBVIOUS
    <3>2. write'[c] = [write[c] EXCEPT !.diff = write[c].diff \ {i}]
      BY <2>1
    <3> QED
      BY <3>1, <3>2, DiffUpdate
  <2>3. write' \in [Sessions ->
          [sensor : Discrete \cup {0}, target : SUBSET States, diff : SUBSET States]]
    <3>1. write'[c] \in
            [sensor : Discrete \cup {0}, target : SUBSET States, diff : SUBSET States]
      BY <2>2
    <3> QED
      BY <2>1, <3>1
  <2>4. bits' \in [Discrete -> SUBSET States] /\ lost' \in [Discrete -> SUBSET States]
    <3>1. write[c].sensor \in Discrete
      BY <1>7 DEF D!SendBit, D!Labels, D!Writing
    <3> DEFINE s == write[c].sensor
    <3>2. lost[s] \cup {i} \in SUBSET States /\ lost[s] \ {i} \in SUBSET States
      BY <3>1
    <3>3. \/ lost' = [lost EXCEPT ![s] = lost[s] \cup {i}]
          \/ lost' = [lost EXCEPT ![s] = lost[s] \ {i}]
      BY <2>1 DEF SentBit
    <3>4. lost' \in [Discrete -> SUBSET States]
      BY <3>1, <3>2, <3>3, StatesUpdate
    <3>5. bits[s] \cup {i} \in SUBSET States /\ bits[s] \ {i} \in SUBSET States
      BY <3>1
    <3>6. \/ bits' = [bits EXCEPT ![s] = bits[s] \cup {i}]
          \/ bits' = [bits EXCEPT ![s] = bits[s] \ {i}]
          \/ bits' = bits
      BY <2>1 DEF SentBit
    <3>7. bits' \in [Discrete -> SUBSET States]
      BY <3>1, <3>5, <3>6, StatesUpdate
    <3> QED
      BY <3>4, <3>7
  <2>5. D!TypeOK'
    BY <1>7, <2>3, <2>4 DEF D!SendBit
  <2>6. Arguments'
    BY <1>7, <2>2 DEF D!SendBit, D!Labels, D!Writing, E!Labels, E!Filling
  <2> QED
    BY <1>0, <1>7, <2>5, <2>6 DEF D!SendBit, D!Labels, D!Writing
<1>8. CASE D!UnlockWrite(c)
  BY <1>0, <1>8 DEF D!UnlockWrite, D!NoWrite, D!Labels, D!Writing, E!Labels, E!Filling
<1> QED
  BY <1>1, <1>2, <1>3, <1>4, <1>5, <1>6, <1>7, <1>8 DEF D!WriteStep

LEMMA EventsSteps ==
  ASSUME TypeInv, E!Next, UNCHANGED <<value, writeLock, bits, lost, write>>
  PROVE  TypeInv'
<1> USE WritesAssumption
    DEF TypeInv, TypeOK, E!TypeOK, Arguments, D!Labels, D!Writing, E!Labels, E!Filling
<1>0. D!TypeOK'
  BY DEF D!TypeOK
<1>1. PICK c \in Sessions : E!ReceiveSel(c) \/ E!ReceiveOem(c) \/ E!EventStep(c)
  BY DEF E!Next
<1>2. CASE E!ReceiveSel(c)
  BY <1>0, <1>2 DEF E!ReceiveSel, E!Dirs
<1>3. CASE E!ReceiveOem(c)
  <2>1. Typed \subseteq E!Records
    BY DEF E!Records, E!Dirs, E!Bytes
  <2> QED
    BY <1>0, <1>3, <2>1 DEF E!ReceiveOem
<1>4. CASE E!Check(c)
  <2>0. ask' \in [Sessions ->
          [sensor : Sensors \cup {0}, event : Events \cup {0}, dir : E!Dirs]]
    <3>1. E!NoAsk \in [sensor : Sensors \cup {0}, event : Events \cup {0}, dir : E!Dirs]
      BY DEF E!NoAsk, E!Dirs
    <3> QED
      BY <1>4, <3>1 DEF E!Check
  <2>1. E!TypeOK'
    BY <1>4, <2>0 DEF E!Check
  <2>2. Arguments'
    BY <1>4 DEF E!Check, E!NoAsk
  <2> QED
    BY <1>0, <1>4, <2>1, <2>2 DEF E!Check
<1>5. CASE E!SetData(c)
  <2>1. PICK i \in E!Bytes : E!SetData(c)!(i)
    BY <1>5 DEF E!SetData
  <2>2. ask[c].event \in Events /\ ask[c].sensor \in Sensors
    BY <2>1 DEF E!DataLabel, E!Bytes
  <2>3. sel' = [sel EXCEPT ![ask[c].sensor] =
                 [dir |-> sel[ask[c].sensor].dir,
                  data |-> [sel[ask[c].sensor].data EXCEPT ![i] = ask[c].event]]]
    <3> DEFINE r == sel[ask[c].sensor]
    <3>1. r \in [dir : E!Dirs, data : [E!Bytes -> Events \cup {0}]]
      BY <2>2
    <3>2. [r EXCEPT !.data = [r.data EXCEPT ![i] = ask[c].event]]
            = [dir |-> r.dir, data |-> [r.data EXCEPT ![i] = ask[c].event]]
      BY ONLY <3>1, SelUpdates
    <3>3. sel' = [sel EXCEPT ![ask[c].sensor] =
                    [r EXCEPT !.data = [r.data EXCEPT ![i] = ask[c].event]]]
      BY <2>1
    <3> QED
      BY <3>2, <3>3
  <2>4. sel' \in [Sensors -> [dir : E!Dirs, data : [E!Bytes -> Events \cup {0}]]]
    BY <2>2, <2>3
  <2> QED
    BY <1>0, <2>1, <2>4 DEF E!DataLabel, E!Bytes
<1>6. CASE E!SetDir(c)
  <2>1. ask[c].sensor \in Sensors /\ ask[c].dir \in E!Dirs
    BY <1>6 DEF E!SetDir
  <2>2. sel' = [sel EXCEPT ![ask[c].sensor] =
                 [dir |-> ask[c].dir, data |-> sel[ask[c].sensor].data]]
    <3> DEFINE r == sel[ask[c].sensor]
    <3>1. r \in [dir : E!Dirs, data : [E!Bytes -> Events \cup {0}]]
      BY <2>1
    <3>2. [r EXCEPT !.dir = ask[c].dir] = [dir |-> ask[c].dir, data |-> r.data]
      BY ONLY <3>1, SelUpdates
    <3>3. sel' = [sel EXCEPT ![ask[c].sensor] = [r EXCEPT !.dir = ask[c].dir]]
      BY <1>6 DEF E!SetDir
    <3> QED
      BY ONLY <3>2, <3>3
  <2>3. sel' \in [Sensors -> [dir : E!Dirs, data : [E!Bytes -> Events \cup {0}]]]
    BY <2>1, <2>2
  <2> QED
    BY <1>0, <1>6, <2>3 DEF E!SetDir
<1>7. CASE E!Format(c)
  <2>1. line'[c] \in E!Records
    BY <1>7 DEF E!Format, E!Records
  <2> QED
    BY <1>0, <1>7, <2>1 DEF E!Format, E!NoAsk, E!Dirs
<1>8. CASE E!ConnectSel(c)
  BY <1>0, <1>8 DEF E!ConnectSel, E!eventVars
<1>9. CASE E!SendSel(c)
  <2>1. E!NoRecord \in E!Records
    BY DEF E!NoRecord, E!Record, E!Records, E!Dirs, E!Bytes
  <2>2. CASE log' = Append(log, line[c])
    <3>1. line[c] \in E!Records
      BY DEF E!TypeOK
    <3>2. log' \in Seq(E!Records)
      BY <2>2, <3>1
    <3> QED
      BY <1>0, <1>9, <2>1, <3>2 DEF E!SendSel
  <2>3. CASE log' = log
    BY <1>0, <1>9, <2>1, <2>3 DEF E!SendSel
  <2> QED
    BY <1>9, <2>2, <2>3 DEF E!SendSel
<1> QED
  BY <1>1, <1>2, <1>3, <1>4, <1>5, <1>6, <1>7, <1>8, <1>9 DEF E!EventStep

LEMMA NextTypes == TypeInv /\ [Next]_vars => TypeInv'
<1>1. CASE UNCHANGED vars
  BY <1>1 DEF vars, TypeInv, TypeOK, D!TypeOK, E!TypeOK, Arguments
<1> QED
  BY <1>1, ValuesSteps, EventsSteps DEF Next

LEMMA TypesInv == Spec => []TypeInv
  BY InitTypes, NextTypes, PTL DEF Spec

\* For any number of sessions, sensors, states and events every variable of both
\* components keeps its type: TypeOK of DiscreteSensor and of SensorEvents, whose
\* conjuncts are typing and no more.
THEOREM WritesTypeCorrect == Spec => []TypeOK
<1>1. TypeInv => TypeOK
  BY DEF TypeInv
<1> QED
  BY <1>1, TypesInv, PTL

-----------------------------------------------------------------------------
(***************************************************************************)
(* The bits of lanserv, for sessions that do not share a discrete sensor.  *)
(***************************************************************************)
Apart ==
  \A c, d \in Sessions : c # d => Reach[c] \cap Reach[d] = {}

\* What lanserv lacks of the states t is among the states ts.
Lacks(s, t, ts) == D!SymDiff(t, bits[s]) \subseteq ts

\* A session holds the lock of a sensor exactly while it is writing it.
WriteLocked ==
  /\ \A c \in Sessions : pc[c] \in D!Writing => writeLock[write[c].sensor] = c
  /\ \A s \in Discrete, c \in Sessions :
       writeLock[s] = c => pc[c] \in D!Writing /\ write[c].sensor = s

\* list_diff is the difference from a value that still is the value of the sensor.
DiffFresh ==
  \A c \in Sessions :
    LET s == write[c].sensor IN
    pc[c] \in {"lockWrite", "storeValue"} =>
      /\ value[s] # Unread
      /\ write[c].diff = D!SymDiff(value[s], write[c].target)
      /\ Lacks(s, value[s], lost[s])

\* The bits that lanserv lacks of the new value are still to be sent, or lost.
RestToSend ==
  \A c \in Sessions :
    LET s == write[c].sensor IN
    pc[c] \in {"nextBit", "sendBit"} =>
      /\ value[s] = write[c].target
      /\ Lacks(s, value[s], write[c].diff \cup lost[s])

WriteInv == BitsAgree /\ WriteLocked /\ DiffFresh /\ RestToSend

\* A step of one session leaves alone what the others are writing.
LEMMA OthersUntouched ==
  ASSUME TypeInv, Apart, NEW c \in Sessions, NEW d \in Sessions, c # d,
         pc[c] \in D!Labels, pc[d] \in D!Labels
  PROVE  write[c].sensor # write[d].sensor
BY DEF TypeInv, Arguments, Apart

LEMMA InitWrites == Init => WriteInv
<1> SUFFICES ASSUME Init PROVE WriteInv
  OBVIOUS
<1>1. \A c \in Sessions : pc[c] = "idle"
  BY DEF Init
<1>2. BitsAgree
  BY DEF Init, D!Init, BitsAgree, D!BitsAgree, D!SymDiff
<1>3. WriteLocked
  BY <1>1, WritesAssumption DEF Init, D!Init, WriteLocked, D!Writing
<1> QED
  BY <1>1, <1>2, <1>3 DEF WriteInv, DiffFresh, RestToSend

\* The steps of SensorEvents take no session into or out of a write.
LEMMA EventsKeepWrites ==
  ASSUME TypeInv, WriteInv, E!Next, UNCHANGED <<value, writeLock, bits, lost, write>>
  PROVE  WriteInv'
<1>1. PICK c \in Sessions : E!ReceiveSel(c) \/ E!ReceiveOem(c) \/ E!EventStep(c)
  BY DEF E!Next
<1>2. /\ pc[c] \notin D!Labels
      /\ \E l \in {"idle"} \cup E!Labels : pc' = [pc EXCEPT ![c] = l]
  BY <1>1
  DEF E!EventStep, E!ReceiveSel, E!ReceiveOem, E!Check, E!SetData, E!SetDir, E!Format,
      E!ConnectSel, E!SendSel, E!DataLabel, E!Bytes, E!Labels, E!Filling, D!Labels, D!Writing
<1>3. \A d \in Sessions :
        (pc[d] \in D!Labels \/ pc'[d] \in D!Labels) => pc'[d] = pc[d]
  BY <1>2 DEF TypeInv, TypeOK, D!Labels, D!Writing, E!Labels, E!Filling
<1> QED
  BY <1>3 DEF WriteInv, BitsAgree, D!BitsAgree, WriteLocked, DiffFresh, RestToSend, Lacks,
              D!Labels, D!Writing

LEMMA ValuesKeepWrites ==
  ASSUME TypeInv, TypeInv', Apart, WriteInv, D!Next
  PROVE  WriteInv'
<1> USE WritesAssumption
<1>1. PICK c \in Sessions : D!ReceiveValue(c) \/ D!WriteStep(c)
  BY DEF D!Next
<1> DEFINE s == write[c].sensor
<1>t. /\ value \in [Discrete -> {Unread} \cup SUBSET States]
      /\ writeLock \in [Discrete -> Sessions \cup {Nobody}]
      /\ bits \in [Discrete -> SUBSET States]
      /\ lost \in [Discrete -> SUBSET States]
      /\ write \in [Sessions ->
           [sensor : Discrete \cup {0}, target : SUBSET States, diff : SUBSET States]]
      /\ pc \in [Sessions -> {"idle"} \cup D!Labels \cup E!Labels]
  BY DEF TypeInv, TypeOK, D!TypeOK
<1>u. \A d \in Sessions \ {c} : pc'[d] = pc[d] /\ write'[d] = write[d]
  BY <1>1, <1>t
  DEF D!WriteStep, D!ReceiveValue, D!Compare, D!LockWrite, D!StoreValue, D!ConnectBit,
      D!SendBit, D!UnlockWrite, D!discreteVars
<1>s. pc[c] \in D!Labels => s \in Discrete
  BY DEF TypeInv, Arguments
<1>o. pc[c] \in D!Labels =>
        \A d \in Sessions \ {c} : pc[d] \in D!Labels =>
           write[d].sensor # s /\ write[d].sensor \in Discrete
  BY OthersUntouched DEF TypeInv, Arguments
<1>2. CASE D!ReceiveValue(c)
  <2>1. pc[c] = "idle" /\ pc'[c] = "compare" /\ UNCHANGED <<value, writeLock, bits, lost>>
    BY <1>2, <1>t DEF D!ReceiveValue
  <2>2. BitsAgree' /\ WriteLocked'
    BY <2>1, <1>t, <1>u DEF WriteInv, BitsAgree, D!BitsAgree, WriteLocked, D!Writing
  <2>3. DiffFresh'
    BY <2>1, <1>t, <1>u DEF WriteInv, DiffFresh, Lacks
  <2>4. RestToSend'
    BY <2>1, <1>t, <1>u DEF WriteInv, RestToSend, Lacks
  <2> QED
    BY <2>2, <2>3, <2>4 DEF WriteInv
<1>3. CASE D!Compare(c)
  <2>1. pc[c] = "compare" /\ UNCHANGED <<value, writeLock, bits, lost>>
    BY <1>3 DEF D!Compare
  <2>2. pc[c] \in D!Labels /\ s \in Discrete
    BY <2>1, <1>s DEF D!Labels
  <2>3. writeLock[s] = Nobody
    <3> SUFFICES ASSUME NEW d \in Sessions, writeLock[s] = d PROVE FALSE
      BY <2>2, <1>t
    <3>1. pc[d] \in D!Writing /\ write[d].sensor = s
      <4>1. \A q \in Discrete, e \in Sessions :
              writeLock[q] = e => pc[e] \in D!Writing /\ write[e].sensor = q
        BY DEF WriteInv, WriteLocked
      <4> HIDE DEF s
      <4> QED
        BY ONLY <2>2, <4>1, d \in Sessions, writeLock[s] = d
    <3>2. d # c
      BY <2>1, <3>1 DEF D!Writing
    <3> QED
      BY <2>2, <3>1, <3>2, <1>o DEF D!Labels
  <2>4. value[s] = Unread \/ Lacks(s, value[s], lost[s])
    BY <2>2, <2>3 DEF WriteInv, BitsAgree, D!BitsAgree, Lacks
  <2>5. CASE value[s] = Unread
    <3>1. pc'[c] = "idle"
      BY <1>3, <2>5, <1>t DEF D!Compare
    <3>2. BitsAgree' /\ WriteLocked'
      BY <2>1, <3>1, <1>t, <1>u DEF WriteInv, BitsAgree, D!BitsAgree, WriteLocked, D!Writing
    <3>3. DiffFresh'
      BY <2>1, <3>1, <1>t, <1>u DEF WriteInv, DiffFresh, Lacks
    <3>4. RestToSend'
      BY <2>1, <3>1, <1>t, <1>u DEF WriteInv, RestToSend, Lacks
    <3> QED
      BY <3>2, <3>3, <3>4 DEF WriteInv
  <2>6. CASE value[s] # Unread
    <3>1. pc'[c] = "lockWrite" /\ write' = [write EXCEPT ![c].diff = D!SymDiff(value[s], write[c].target)]
      BY <1>3, <2>6, <1>t DEF D!Compare
    <3>2. /\ write'[c].sensor = s /\ write'[c].target = write[c].target
          /\ write'[c].diff = D!SymDiff(value[s], write[c].target)
      BY <3>1, <1>t
    <3>3. BitsAgree' /\ WriteLocked'
      BY <2>1, <3>1, <1>t, <1>u DEF WriteInv, BitsAgree, D!BitsAgree, WriteLocked, D!Writing
    <3>4. DiffFresh'
      BY <2>1, <2>4, <2>6, <3>1, <3>2, <1>u DEF WriteInv, DiffFresh, Lacks
    <3>5. RestToSend'
      BY <2>1, <3>1, <1>u DEF WriteInv, RestToSend, Lacks
    <3> QED
      BY <3>3, <3>4, <3>5 DEF WriteInv
  <2> QED
    BY <2>5, <2>6
<1>4. CASE D!LockWrite(c)
  <2>1. /\ pc[c] = "lockWrite" /\ pc'[c] = "storeValue" /\ UNCHANGED <<value, bits, lost, write>>
        /\ writeLock[s] = Nobody /\ writeLock' = [writeLock EXCEPT ![s] = c]
    BY <1>4, <1>t DEF D!LockWrite
  <2>2. pc[c] \in D!Labels /\ s \in Discrete
    BY <2>1, <1>s DEF D!Labels
  <2>3. BitsAgree'
    BY <2>1, <2>2, <1>t DEF WriteInv, BitsAgree, D!BitsAgree
  <2>4. WriteLocked'
    BY <2>1, <2>2, <1>t, <1>u, <1>o DEF WriteInv, WriteLocked, D!Writing, D!Labels
  <2>5. DiffFresh' /\ RestToSend'
    BY <2>1, <1>u DEF WriteInv, DiffFresh, RestToSend, Lacks
  <2> QED
    BY <2>3, <2>4, <2>5 DEF WriteInv
<1>5. CASE D!StoreValue(c)
  <2>1. /\ pc[c] = "storeValue" /\ pc'[c] = "nextBit" /\ UNCHANGED <<writeLock, bits, lost, write>>
        /\ value' = [value EXCEPT ![s] = write[c].target]
    BY <1>5, <1>t DEF D!StoreValue
  <2>2. pc[c] \in D!Labels /\ s \in Discrete
    BY <2>1, <1>s DEF D!Labels, D!Writing
  <2>3. writeLock[s] = c
    BY <2>1 DEF WriteInv, WriteLocked, D!Writing
  <2>4. BitsAgree'
    BY <2>1, <2>2, <2>3, <1>t DEF WriteInv, BitsAgree, D!BitsAgree
  <2>5. WriteLocked'
    BY <2>1, <1>t, <1>u DEF WriteInv, WriteLocked, D!Writing
  <2>6. DiffFresh'
    BY <2>1, <2>2, <1>t, <1>u, <1>o DEF WriteInv, DiffFresh, Lacks, D!Labels, D!Writing
  <2>7. value'[s] = write[c].target /\ Lacks(s, write[c].target, write[c].diff \cup lost[s])
    <3>1. Lacks(s, value[s], lost[s]) /\ write[c].diff = D!SymDiff(value[s], write[c].target)
      BY <2>1 DEF WriteInv, DiffFresh
    <3> QED
      BY <2>1, <2>2, <3>1, <1>t DEF Lacks, D!SymDiff
  <2>8. RestToSend'
    BY <2>1, <2>2, <2>7, <1>t, <1>u, <1>o DEF WriteInv, RestToSend, Lacks, D!Labels, D!Writing
  <2> QED
    BY <2>4, <2>5, <2>6, <2>8 DEF WriteInv
<1>6. CASE D!ConnectBit(c)
  <2>1. pc[c] = "nextBit" /\ pc'[c] = "sendBit" /\ UNCHANGED <<value, writeLock, bits, lost, write>>
    BY <1>6, <1>t DEF D!ConnectBit, D!discreteVars
  <2> QED
    BY <2>1, <1>t, <1>u
    DEF WriteInv, BitsAgree, D!BitsAgree, WriteLocked, DiffFresh, RestToSend, Lacks, D!Writing
<1>7. CASE D!SendBit(c)
  <2>1. pc[c] = "sendBit" /\ pc'[c] = "nextBit" /\ UNCHANGED <<value, writeLock>>
    BY <1>7, <1>t DEF D!SendBit
  <2>2. PICK i \in States :
          write' = [write EXCEPT ![c].diff = @ \ {i}] /\ SentBit(c, i)
    BY <1>7 DEF D!SendBit, SentBit
  <2>3. pc[c] \in D!Labels /\ s \in Discrete
    BY <2>1, <1>s DEF D!Labels, D!Writing
  <2>4. /\ write'[c].sensor = s /\ write'[c].target = write[c].target
        /\ write'[c].diff = write[c].diff \ {i}
    BY <2>2, <1>t
  <2>5. writeLock[s] = c
    BY <2>1 DEF WriteInv, WriteLocked, D!Writing
  <2>6. \A q \in Discrete \ {s} : bits'[q] = bits[q] /\ lost'[q] = lost[q]
    BY <2>2, <1>t DEF SentBit
  <2>7. BitsAgree'
    BY <2>1, <2>5, <2>6, <1>t DEF WriteInv, BitsAgree, D!BitsAgree
  <2>8. WriteLocked'
    BY <2>1, <2>4, <1>t, <1>u DEF WriteInv, WriteLocked, D!Writing
  <2>9. DiffFresh'
    BY <2>1, <2>3, <2>6, <1>u, <1>o DEF WriteInv, DiffFresh, Lacks, D!Labels, D!Writing
  <2>10. Lacks(s, value[s], write[c].diff \cup lost[s]) /\ value[s] = write[c].target
    BY <2>1 DEF WriteInv, RestToSend
  <2>11. D!SymDiff(value[s], bits'[s]) \subseteq (write[c].diff \ {i}) \cup lost'[s]
    BY <2>2, <2>3, <2>10, <1>t DEF Lacks, D!SymDiff, SentBit
  <2>12. RestToSend'
    <3> SUFFICES ASSUME NEW d \in Sessions, pc'[d] \in {"nextBit", "sendBit"}
                 PROVE  LET q == write'[d].sensor IN
                        /\ value'[q] = write'[d].target
                        /\ D!SymDiff(value'[q], bits'[q]) \subseteq write'[d].diff \cup lost'[q]
      BY DEF RestToSend, Lacks, D!SymDiff
    <3>1. CASE d = c
      BY <2>1, <2>4, <2>10, <2>11, <3>1
    <3>2. CASE d # c
      <4> DEFINE q == write[d].sensor
      <4>1. pc'[d] = pc[d] /\ write'[d] = write[d]
        BY <3>2, <1>u
      <4>2. q \in Discrete \ {s}
        BY <2>3, <3>2, <4>1, <1>o DEF D!Labels, D!Writing
      <4>3. value[q] = write[d].target /\ Lacks(q, value[q], write[d].diff \cup lost[q])
        BY <4>1 DEF WriteInv, RestToSend
      <4> QED
        BY <2>1, <2>6, <4>1, <4>2, <4>3 DEF Lacks
    <3> QED
      BY <3>1, <3>2
  <2> QED
    BY <2>7, <2>8, <2>9, <2>12 DEF WriteInv
<1>8. CASE D!UnlockWrite(c)
  <2>1. /\ pc[c] = "nextBit" /\ pc'[c] = "idle" /\ UNCHANGED <<value, bits, lost>>
        /\ write[c].diff = {} /\ writeLock' = [writeLock EXCEPT ![s] = Nobody]
    BY <1>8, <1>t DEF D!UnlockWrite
  <2>2. pc[c] \in D!Labels /\ s \in Discrete
    BY <2>1, <1>s DEF D!Labels, D!Writing
  <2>3. Lacks(s, value[s], lost[s])
    BY <2>1 DEF WriteInv, RestToSend
  <2>4. BitsAgree'
    BY <2>1, <2>2, <2>3, <1>t DEF WriteInv, BitsAgree, D!BitsAgree, Lacks
  <2>5. WriteLocked'
    BY <2>1, <2>2, <1>t, <1>u, <1>o DEF WriteInv, WriteLocked, D!Writing, D!Labels
  <2>6. DiffFresh' /\ RestToSend'
    BY <2>1, <1>u DEF WriteInv, DiffFresh, RestToSend, Lacks
  <2> QED
    BY <2>4, <2>5, <2>6 DEF WriteInv
<1> QED
  BY <1>1, <1>2, <1>3, <1>4, <1>5, <1>6, <1>7, <1>8 DEF D!WriteStep

\* For any number of sessions of which no two reach the same sensor, the bits of
\* lanserv are those of the value whenever nobody is writing, but for bits whose
\* command was lost.
THEOREM BitsKeepAgreeing ==
  ASSUME Apart PROVE Spec => []BitsAgree
<1>1. TypeInv /\ TypeInv' /\ WriteInv /\ [Next]_vars => WriteInv'
  <2>1. CASE UNCHANGED vars
    BY <2>1 DEF vars, WriteInv, BitsAgree, D!BitsAgree, WriteLocked, DiffFresh, RestToSend, Lacks
  <2> QED
    BY <2>1, ValuesKeepWrites, EventsKeepWrites DEF Next
<1>2. WriteInv => BitsAgree
  BY DEF WriteInv
<1> QED
  BY <1>1, <1>2, InitWrites, TypesInv, PTL DEF Spec

-----------------------------------------------------------------------------
(***************************************************************************)
(* The event log, for sessions that do not share a sensor.                 *)
(***************************************************************************)
\* A session has either arguments or a line, and only in their phase of the command.
OneForm ==
  \A c \in Sessions :
    /\ pc[c] \notin {"check"} \cup E!Filling => ask[c] = E!NoAsk
    /\ pc[c] \in {"connectSel", "sendSel"} <=> line[c] # E!NoRecord

\* The bytes that are filled in when a session is at a label.
Done(label) ==
  CASE label = "data2" -> {1}
    [] label = "data3" -> {1, 2}
    [] label \in {"dir", "format"} -> E!Bytes
    [] OTHER -> {}

\* What has been filled in belongs to the event of the session.
FilledIn ==
  \A c \in Sessions : pc[c] \in E!Filling =>
    /\ \A i \in Done(pc[c]) : sel[ask[c].sensor].data[i] = ask[c].event
    /\ pc[c] = "format" => sel[ask[c].sensor].dir = ask[c].dir

EventInv == OneForm /\ FilledIn

LEMMA InitEvents == Init => EventInv
BY DEF Init, E!Init, EventInv, OneForm, FilledIn, E!Filling

LEMMA ValuesKeepEvents ==
  ASSUME TypeInv, EventInv, D!Next, UNCHANGED <<sel, log, ask, line>>
  PROVE  EventInv'
<1>1. PICK c \in Sessions : D!ReceiveValue(c) \/ D!WriteStep(c)
  BY DEF D!Next
<1>2. /\ pc[c] \in {"idle"} \cup D!Labels
      /\ \E l \in {"idle"} \cup D!Labels : pc' = [pc EXCEPT ![c] = l]
  BY <1>1
  DEF D!WriteStep, D!ReceiveValue, D!Compare, D!LockWrite, D!StoreValue, D!ConnectBit,
      D!SendBit, D!UnlockWrite, D!Labels, D!Writing
<1>3. \A d \in Sessions :
        (pc[d] \in E!Labels \/ pc'[d] \in E!Labels) => pc'[d] = pc[d]
  BY <1>2 DEF TypeInv, TypeOK, D!Labels, D!Writing, E!Labels, E!Filling
<1> QED
  BY <1>3 DEF EventInv, OneForm, FilledIn, Done, E!Labels, E!Filling

LEMMA EventsKeepEvents ==
  ASSUME TypeInv, TypeInv', Apart, EventInv, E!Next
  PROVE  EventInv'
<1> USE WritesAssumption
<1>1. PICK c \in Sessions : E!ReceiveSel(c) \/ E!ReceiveOem(c) \/ E!EventStep(c)
  BY DEF E!Next
<1>t. /\ sel \in [Sensors -> [dir : E!Dirs, data : [E!Bytes -> Events \cup {0}]]]
      /\ ask \in [Sessions -> [sensor : Sensors \cup {0}, event : Events \cup {0}, dir : E!Dirs]]
      /\ line \in [Sessions -> E!Records]
      /\ pc \in [Sessions -> {"idle"} \cup D!Labels \cup E!Labels]
  BY DEF TypeInv, TypeOK, E!TypeOK
<1>u. \A d \in Sessions \ {c} : pc'[d] = pc[d] /\ ask'[d] = ask[d] /\ line'[d] = line[d]
  BY <1>1, <1>t
  DEF E!EventStep, E!ReceiveSel, E!ReceiveOem, E!Check, E!SetData, E!SetDir, E!Format,
      E!ConnectSel, E!SendSel, E!eventVars
<1>a. \A d \in Sessions : pc[d] \in {"check"} \cup E!Filling =>
        ask[d].sensor \in Reach[d] \cap Sensors /\ ask[d].event \in Events
  BY DEF TypeInv, Arguments
<1>o. pc[c] \in E!Filling =>
        \A d \in Sessions \ {c} : pc[d] \in E!Filling => ask[d].sensor # ask[c].sensor
  BY <1>a DEF Apart
<1>2. CASE E!ReceiveSel(c)
  <2>1. pc[c] = "idle" /\ pc'[c] = "check" /\ UNCHANGED <<sel, line>>
    BY <1>2, <1>t DEF E!ReceiveSel
  <2>2. OneForm'
    BY <2>1, <1>u DEF EventInv, OneForm, E!Filling
  <2>3. FilledIn'
    BY <2>1, <1>u DEF EventInv, FilledIn, E!Filling
  <2> QED
    BY <2>2, <2>3 DEF EventInv
<1>3. CASE E!ReceiveOem(c)
  <2>1. pc[c] = "idle" /\ pc'[c] = "connectSel" /\ UNCHANGED <<sel, ask>>
    BY <1>3, <1>t DEF E!ReceiveOem
  <2>2. line'[c] # E!NoRecord
    BY <1>3, <1>t DEF E!ReceiveOem, E!NoRecord, E!Record
  <2>3. OneForm'
    BY <2>1, <2>2, <1>u DEF EventInv, OneForm, E!Filling
  <2>4. FilledIn'
    BY <2>1, <1>u DEF EventInv, FilledIn, E!Filling
  <2> QED
    BY <2>3, <2>4 DEF EventInv
<1>4. CASE E!Check(c)
  <2>1. /\ pc[c] = "check" /\ UNCHANGED <<sel, line>>
        /\ \/ pc'[c] = "data1"
           \/ pc'[c] = "idle" /\ ask'[c] = E!NoAsk
    BY <1>4, <1>t DEF E!Check
  <2>2. OneForm'
    BY <2>1, <1>u DEF EventInv, OneForm, E!Filling
  <2>3. FilledIn'
    BY <2>1, <1>u DEF EventInv, FilledIn, Done, E!Filling
  <2> QED
    BY <2>2, <2>3 DEF EventInv
<1>5. CASE E!SetData(c)
  <2>1. PICK i \in E!Bytes : E!SetData(c)!(i)
    BY <1>5 DEF E!SetData
  <2>2. pc[c] \in E!Filling /\ UNCHANGED <<ask, line>>
    BY <2>1 DEF E!DataLabel, E!Bytes, E!Filling
  <2>3. pc'[c] = IF i = 3 THEN "dir" ELSE E!DataLabel[i + 1]
    BY <2>1, <1>t
  <2>4. pc'[c] \in E!Filling \ {"format"}
    BY <2>3 DEF E!DataLabel, E!Bytes, E!Filling
  <2>5. OneForm'
    BY <2>2, <2>4, <1>u DEF EventInv, OneForm, E!Filling
  <2>6. /\ sel'[ask[c].sensor].data = [sel[ask[c].sensor].data EXCEPT ![i] = ask[c].event]
        /\ \A s \in Sensors \ {ask[c].sensor} : sel'[s] = sel[s]
    BY <2>1, <2>2, <1>t, <1>a
  <2>7. \A j \in Done(pc'[c]) : j = i \/ j \in Done(pc[c])
    BY <2>1, <2>3 DEF Done, E!DataLabel, E!Bytes
  <2>8. \A j \in Done(pc'[c]) : sel'[ask[c].sensor].data[j] = ask[c].event
    <3>1. \A j \in Done(pc[c]) : sel[ask[c].sensor].data[j] = ask[c].event
      BY <2>2 DEF EventInv, FilledIn
    <3>2. sel[ask[c].sensor].data \in [E!Bytes -> Events \cup {0}]
      BY <2>2, <1>t, <1>a
    <3> QED
      BY <2>6, <2>7, <3>1, <3>2 DEF Done
  <2>9. FilledIn'
    <3> SUFFICES ASSUME NEW d \in Sessions, pc'[d] \in E!Filling
                 PROVE  /\ \A j \in Done(pc'[d]) : sel'[ask'[d].sensor].data[j] = ask'[d].event
                        /\ pc'[d] = "format" => sel'[ask'[d].sensor].dir = ask'[d].dir
      BY DEF FilledIn, Done, E!Filling
    <3>1. CASE d = c
      BY <2>2, <2>4, <2>8, <3>1
    <3>2. CASE d # c
      <4>1. pc'[d] = pc[d] /\ ask'[d] = ask[d]
        BY <3>2, <1>u
      <4>2. sel'[ask[d].sensor] = sel[ask[d].sensor]
        BY <2>2, <2>6, <3>2, <4>1, <1>a, <1>o
      <4> QED
        BY <4>1, <4>2 DEF EventInv, FilledIn
    <3> QED
      BY <3>1, <3>2
  <2> QED
    BY <2>5, <2>9 DEF EventInv
<1>6. CASE E!SetDir(c)
  <2>1. pc[c] = "dir" /\ pc'[c] = "format" /\ UNCHANGED <<ask, line>>
    BY <1>6, <1>t DEF E!SetDir
  <2>2. OneForm'
    BY <2>1, <1>u DEF EventInv, OneForm, E!Filling
  <2>3. /\ sel'[ask[c].sensor].data = sel[ask[c].sensor].data
        /\ sel'[ask[c].sensor].dir = ask[c].dir
        /\ \A s \in Sensors \ {ask[c].sensor} : sel'[s] = sel[s]
    BY <2>1, <1>6, <1>t, <1>a DEF E!SetDir, E!Filling
  <2>4. FilledIn'
    <3> SUFFICES ASSUME NEW d \in Sessions, pc'[d] \in E!Filling
                 PROVE  /\ \A j \in Done(pc'[d]) : sel'[ask'[d].sensor].data[j] = ask'[d].event
                        /\ pc'[d] = "format" => sel'[ask'[d].sensor].dir = ask'[d].dir
      BY DEF FilledIn, Done, E!Filling
    <3>1. CASE d = c
      BY <2>1, <2>3, <3>1 DEF EventInv, FilledIn, Done, E!Filling
    <3>2. CASE d # c
      <4>1. pc'[d] = pc[d] /\ ask'[d] = ask[d]
        BY <3>2, <1>u
      <4>2. sel'[ask[d].sensor] = sel[ask[d].sensor]
        BY <2>1, <2>3, <3>2, <4>1, <1>a, <1>o DEF E!Filling
      <4> QED
        BY <4>1, <4>2 DEF EventInv, FilledIn
    <3> QED
      BY <3>1, <3>2
  <2> QED
    BY <2>2, <2>4 DEF EventInv
<1>7. CASE E!Format(c)
  <2>1. /\ pc[c] = "format" /\ pc'[c] = "connectSel" /\ UNCHANGED sel
        /\ ask'[c] = E!NoAsk /\ line'[c].sensor = ask[c].sensor
    BY <1>7, <1>t DEF E!Format
  <2>2. line'[c] # E!NoRecord
    BY <2>1, <1>a DEF E!NoRecord, E!Record, E!Filling
  <2>3. OneForm'
    BY <2>1, <2>2, <1>u DEF EventInv, OneForm, E!Filling
  <2>4. FilledIn'
    BY <2>1, <1>u DEF EventInv, FilledIn, E!Filling
  <2> QED
    BY <2>3, <2>4 DEF EventInv
<1>8. CASE E!ConnectSel(c)
  <2>1. pc[c] = "connectSel" /\ pc'[c] = "sendSel" /\ UNCHANGED <<sel, ask, line>>
    BY <1>8, <1>t DEF E!ConnectSel, E!eventVars
  <2> QED
    BY <2>1, <1>u DEF EventInv, OneForm, FilledIn, E!Filling
<1>9. CASE E!SendSel(c)
  <2>1. pc[c] = "sendSel" /\ pc'[c] = "idle" /\ UNCHANGED <<sel, ask>> /\ line'[c] = E!NoRecord
    BY <1>9, <1>t DEF E!SendSel
  <2> QED
    BY <2>1, <1>u DEF EventInv, OneForm, FilledIn, E!Filling
<1> QED
  BY <1>1, <1>2, <1>3, <1>4, <1>5, <1>6, <1>7, <1>8, <1>9 DEF E!EventStep

-----------------------------------------------------------------------------
(***************************************************************************)
(* The steps of the code as steps of EventPromise.                         *)
(***************************************************************************)
Asks == [c \in Sessions |-> E!Asked(c)]

LEMMA InitPromise == Init => E!Promise!Init
BY DEF Init, E!Init, E!Promise!Init, E!Asked, E!NoRecord, E!NoAsk

LEMMA ValuesStutter ==
  UNCHANGED <<sel, log, ask, line>> => UNCHANGED E!Promise!vars
BY DEF E!Promise!vars, E!Asked

LEMMA EventsSimulate ==
  ASSUME TypeInv, TypeInv', EventInv, E!Next
  PROVE  [E!Promise!Next]_(E!Promise!vars)
<1> USE WritesAssumption
<1>1. PICK c \in Sessions : E!ReceiveSel(c) \/ E!ReceiveOem(c) \/ E!EventStep(c)
  BY DEF E!Next
<1>t. /\ sel \in [Sensors -> [dir : E!Dirs, data : [E!Bytes -> Events \cup {0}]]]
      /\ ask \in [Sessions -> [sensor : Sensors \cup {0}, event : Events \cup {0}, dir : E!Dirs]]
      /\ line \in [Sessions -> E!Records]
      /\ line' \in [Sessions -> E!Records]
      /\ ask' \in [Sessions -> [sensor : Sensors \cup {0}, event : Events \cup {0}, dir : E!Dirs]]
  BY DEF TypeInv, TypeOK, E!TypeOK
<1>u. \A d \in Sessions \ {c} : Asks'[d] = Asks[d]
  BY <1>1, <1>t
  DEF Asks, E!Asked, E!EventStep, E!ReceiveSel, E!ReceiveOem, E!Check, E!SetData, E!SetDir,
      E!Format, E!ConnectSel, E!SendSel, E!eventVars
<1>n. E!Record(0, 0, 0) = E!NoRecord
  BY DEF E!NoRecord
<1>r. \A d \in Sessions : E!Asked(d) \in E!Records /\ E!Asked(d)' \in E!Records
  BY <1>t DEF E!Asked, E!Record, E!Records
<1>2. (log' = log /\ Asks'[c] = Asks[c]) => UNCHANGED E!Promise!vars
  BY <1>u DEF E!Promise!vars, Asks
<1>3. (log' = log /\ Asks[c] = E!NoRecord) => [E!Promise!Next]_(E!Promise!vars)
  <2> SUFFICES ASSUME log' = log, Asks[c] = E!NoRecord PROVE E!Promise!Ask(c)
    BY DEF E!Promise!Next
  <2>1. Asks' = [Asks EXCEPT ![c] = E!Asked(c)']
    BY <1>u DEF Asks
  <2> QED
    BY <2>1, <1>r DEF E!Promise!Ask, Asks
<1>4. (log' = log /\ Asks'[c] = E!NoRecord) => [E!Promise!Next]_(E!Promise!vars)
  <2> SUFFICES ASSUME log' = log, Asks'[c] = E!NoRecord PROVE E!Promise!Drop(c)
    BY DEF E!Promise!Next
  <2>1. Asks' = [Asks EXCEPT ![c] = E!NoRecord]
    BY <1>u DEF Asks
  <2> QED
    BY <2>1 DEF E!Promise!Drop, Asks
<1>5. CASE E!ReceiveSel(c)
  <2>1. pc[c] = "idle" /\ log' = log
    BY <1>5 DEF E!ReceiveSel
  <2>2. Asks[c] = E!NoRecord
    BY <2>1, <1>n DEF EventInv, OneForm, Asks, E!Asked, E!NoAsk, E!Filling
  <2> QED
    BY <2>1, <2>2, <1>3
<1>6. CASE E!ReceiveOem(c)
  <2>1. pc[c] = "idle" /\ log' = log
    BY <1>6 DEF E!ReceiveOem
  <2>2. Asks[c] = E!NoRecord
    BY <2>1, <1>n DEF EventInv, OneForm, Asks, E!Asked, E!NoAsk, E!Filling
  <2> QED
    BY <2>1, <2>2, <1>3
<1>7. CASE E!Check(c)
  <2>1. /\ pc[c] = "check" /\ log' = log /\ line' = line
        /\ ask' = ask \/ ask'[c] = E!NoAsk
    BY <1>7, <1>t DEF E!Check
  <2>2. line[c] = E!NoRecord
    BY <2>1 DEF EventInv, OneForm
  <2>3. Asks'[c] = Asks[c] \/ Asks'[c] = E!NoRecord
    BY <2>1, <2>2, <1>n DEF Asks, E!Asked, E!NoAsk
  <2> QED
    BY <2>1, <2>3, <1>2, <1>4
<1>8. CASE E!SetData(c) \/ E!SetDir(c) \/ E!ConnectSel(c)
  <2>1. UNCHANGED <<log, ask, line>>
    BY <1>8 DEF E!SetData, E!SetDir, E!ConnectSel, E!eventVars
  <2> QED
    BY <2>1, <1>2 DEF Asks, E!Asked
<1>9. CASE E!Format(c)
  <2>1. /\ pc[c] = "format" /\ log' = log
        /\ line'[c] = [sensor |-> ask[c].sensor, dir |-> sel[ask[c].sensor].dir,
                       data |-> sel[ask[c].sensor].data]
    BY <1>9, <1>t DEF E!Format
  <2>2. ask[c].sensor \in Sensors
    BY <2>1 DEF TypeInv, Arguments, E!Filling
  <2>3. sel[ask[c].sensor].data = [i \in E!Bytes |-> ask[c].event]
    <3>1. \A i \in E!Bytes : sel[ask[c].sensor].data[i] = ask[c].event
      BY <2>1 DEF EventInv, FilledIn, Done, E!Filling
    <3>2. sel[ask[c].sensor].data \in [E!Bytes -> Events \cup {0}]
      BY <2>2, <1>t
    <3> QED
      BY <3>1, <3>2
  <2>4. sel[ask[c].sensor].dir = ask[c].dir
    BY <2>1 DEF EventInv, FilledIn, E!Filling
  <2>5. line'[c] = E!Record(ask[c].sensor, ask[c].event, ask[c].dir)
    BY <2>1, <2>3, <2>4 DEF E!Record
  <2>6. line[c] = E!NoRecord
    BY <2>1 DEF EventInv, OneForm
  <2>7. line'[c] # E!NoRecord
    BY <2>2, <2>5 DEF E!NoRecord, E!Record
  <2>8. Asks'[c] = Asks[c]
    BY <2>5, <2>6, <2>7 DEF Asks, E!Asked
  <2> QED
    BY <2>1, <2>8, <1>2
<1>10. CASE E!SendSel(c)
  <2>1. /\ pc[c] = "sendSel" /\ ask' = ask /\ line'[c] = E!NoRecord
        /\ log' = Append(log, line[c]) \/ log' = log
    BY <1>10, <1>t DEF E!SendSel
  <2>2. line[c] # E!NoRecord /\ ask[c] = E!NoAsk
    BY <2>1 DEF EventInv, OneForm, E!Filling
  <2>3. Asks[c] = line[c] /\ Asks'[c] = E!NoRecord
    BY <2>1, <2>2, <1>n DEF Asks, E!Asked, E!NoAsk
  <2>4. CASE log' = Append(log, line[c])
    <3>1. Asks' = [Asks EXCEPT ![c] = E!NoRecord]
      BY <2>3, <1>u DEF Asks
    <3>2. E!Promise!Add(c)
      BY <2>2, <2>3, <2>4, <3>1 DEF E!Promise!Add, Asks
    <3> QED
      BY <3>2 DEF E!Promise!Next
  <2> QED
    BY <2>1, <2>3, <2>4, <1>4
<1> QED
  BY <1>1, <1>2, <1>5, <1>6, <1>7, <1>8, <1>9, <1>10 DEF E!EventStep

\* For any number of sessions of which no two reach the same sensor, the commands
\* implement EventPromise: an event is added as it was asked for, once, or not at all.
THEOREM EventsAreKept ==
  ASSUME Apart PROVE Spec => EventsKept
<1>1. TypeInv /\ TypeInv' /\ EventInv /\ [Next]_vars => EventInv'
  <2>1. CASE UNCHANGED vars
    BY <2>1 DEF vars, EventInv, OneForm, FilledIn
  <2> QED
    BY <2>1, ValuesKeepEvents, EventsKeepEvents DEF Next
<1>2. TypeInv /\ TypeInv' /\ EventInv /\ [Next]_vars => [E!Promise!Next]_(E!Promise!vars)
  <2>1. CASE UNCHANGED vars
    BY <2>1, ValuesStutter DEF vars
  <2> QED
    BY <2>1, ValuesStutter, EventsSimulate DEF Next
<1> QED
  BY <1>1, <1>2, InitPromise, InitEvents, TypesInv, PTL
  DEF Spec, EventsKept, E!EventsKept, E!Promise!Spec
=============================================================================
