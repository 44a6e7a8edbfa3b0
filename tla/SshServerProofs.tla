--------------------------- MODULE SshServerProofs ---------------------------
(***************************************************************************)
(* Proofs about the SSH server: for every number of clients, the counter   *)
(* of the open shells is exact unless it was raced (CountExact), no shell  *)
(* dies of the ValueError of Counter.__exit__ unless it was raced, and     *)
(* stop goes on to the loop only when no shell is open (StopWaits).        *)
(***************************************************************************)
EXTENDS SshServer, FiniteSetTheorems, TLAPS

\* The mutex of the counter is held by the thread that is leaving, and by
\* nobody else.
MutexHeld == \A c \in Clients : mutex = c <=> actor[c] = "leaving"

\* Unless two threads were between their read and their store at once, what
\* the one that is there is about to store is one off the count.
SeenFresh ==
  ~raced =>
    /\ \A c, d \in Storing : c = d
    /\ \A c \in Clients : actor[c] = "entering" => seen[c] = count + 1
    /\ \A c \in Clients : actor[c] = "leaving"  => seen[c] = count - 1

\* The inductive invariant of the server.
ServerInv == CountExact /\ MutexHeld /\ SeenFresh

\* Initially no thread exists and nothing is counted.
LEMMA ServerInit == Init => ServerInv
<1> SUFFICES ASSUME Init PROVE ServerInv
  OBVIOUS
<1>1. TypeOK
  <2>1. accepted \in 0 .. MaxConnections
    BY ServerAssumption DEF Init
  <2>2. exceptions \in Seq({"negotiation", "session", "interrupt"})
    BY DEF Init
  <2>3. /\ conn \in [Clients -> {"none", "negotiating", "up", "down"}]
        /\ actor \in [Clients -> ActorPCs] /\ seen \in [Clients -> Nat]
    BY DEF Init, ActorPCs
  <2> QED
    BY <2>1, <2>2, <2>3 DEF Init, TypeOK
<1>2. Inside = {}
  BY DEF Init, Inside
<1>3. CountExact
  BY <1>1, <1>2, FS_EmptySet DEF Init, CountExact
<1>4. MutexHeld
  BY ServerAssumption DEF Init, MutexHeld
<1>5. SeenFresh
  BY DEF Init, SeenFresh, Storing
<1> QED
  BY <1>3, <1>4, <1>5 DEF ServerInv

\* The threads inside the block are a finite set, which grows by the thread
\* that enters it and shrinks by the one that leaves it.
LEMMA InsideCounts ==
  /\ IsFiniteSet(Inside)
  /\ Cardinality(Inside) \in Nat
  /\ \A c \in Clients : c \notin Inside => Cardinality(Inside \cup {c}) = Cardinality(Inside) + 1
  /\ \A c \in Inside : Cardinality(Inside \ {c}) = Cardinality(Inside) - 1
<1>1. IsFiniteSet(Inside)
  BY ServerAssumption, FS_Subset DEF Inside
<1> QED
  BY <1>1, FS_CardinalityType, FS_AddElement, FS_RemoveElement

\* Every step keeps the types.
LEMMA ServerTypes == TypeOK /\ [Next]_vars => TypeOK'
<1> SUFFICES ASSUME TypeOK, [Next]_vars PROVE TypeOK'
  OBVIOUS
<1> USE DEF TypeOK
<1>1. ASSUME NEW c \in Clients, Accept(c) PROVE TypeOK'
  BY <1>1, ServerAssumption DEF Accept, Connection, stopVars, counterVars
<1>2. ASSUME NEW c \in Clients, Negotiated(c) PROVE TypeOK'
  BY <1>2 DEF Negotiated, Connection, stopVars, counterVars
<1>3. ASSUME NEW c \in Clients, NegotiationFails(c) PROVE TypeOK'
  <2>1. exceptions' \in Seq({"negotiation", "session", "interrupt"})
    <3>1. CASE exceptions' = Append(exceptions, "negotiation")
      BY <3>1
    <3>2. CASE exceptions' = exceptions
      BY <3>2
    <3> QED
      BY <1>3, <3>1, <3>2 DEF NegotiationFails, Queue
  <2>2. loop' \in {"select", "negotiate", "ended", "failed"} /\ stopper' \in {stopper, "crashed"}
    BY <1>3 DEF NegotiationFails
  <2>3. conn' \in [Clients -> {"none", "negotiating", "up", "down"}]
    BY <1>3 DEF NegotiationFails, Connection
  <2> QED
    BY <1>3, <2>1, <2>2, <2>3 DEF NegotiationFails, counterVars
<1>4. ASSUME NEW c \in Clients, RequestShell(c) PROVE TypeOK'
  BY <1>4 DEF RequestShell, Goto, ActorPCs, loopVars, stopVars, counterVars
<1>5. ASSUME NEW c \in Clients, Disconnect(c) PROVE TypeOK'
  BY <1>5 DEF Disconnect, Connection, loopVars, stopVars, counterVars
<1>6. ASSUME NEW c \in Clients, Forget(c) PROVE TypeOK'
  BY <1>6 DEF Forget, Connection, Goto, ActorPCs, loopVars, stopVars, counterVars
<1>7. ASSUME NEW c \in Clients, SessionEnds(c) PROVE TypeOK'
  BY <1>7 DEF SessionEnds, Goto, ActorPCs, loopVars, stopVars, counterVars
<1>8. ASSUME NEW c \in Clients, SessionFails(c) PROVE TypeOK'
  BY <1>8 DEF SessionFails, Goto, ActorPCs, loopVars, stopVars, counterVars
<1>9. ASSUME NEW c \in Clients, EnterRead(c) PROVE TypeOK'
  BY <1>9 DEF EnterRead, Reads, Goto, ActorPCs, loopVars, stopVars
<1>10. ASSUME NEW c \in Clients, EnterStore(c) PROVE TypeOK'
  BY <1>10 DEF EnterStore, Goto, ActorPCs, loopVars, stopVars
<1>11. ASSUME NEW c \in Clients, Report(c) PROVE TypeOK'
  BY <1>11 DEF Report, Queue, Goto, ActorPCs, loopVars, stopVars, counterVars
<1>12. ASSUME NEW c \in Clients, CloseChannel(c) PROVE TypeOK'
  BY <1>12 DEF CloseChannel, Goto, ActorPCs, loopVars, stopVars, counterVars
<1>13. ASSUME NEW c \in Clients, LeaveRead(c) PROVE TypeOK'
  <2>1. raced' \in BOOLEAN
    BY <1>13 DEF LeaveRead, Reads
  <2>2. /\ actor' = [actor EXCEPT ![c] = "leaving"] \/ actor' = [actor EXCEPT ![c] = "ended"]
        /\ mutex' \in {c, mutex}
    BY <1>13 DEF LeaveRead, Goto
  <2>3. seen' \in [Clients -> Nat]
    BY <1>13 DEF LeaveRead
  <2> QED
    BY <1>13, <2>1, <2>2, <2>3 DEF LeaveRead, ActorPCs, loopVars, stopVars
<1>14. ASSUME NEW c \in Clients, LeaveStore(c) PROVE TypeOK'
  BY <1>14 DEF LeaveStore, Goto, ActorPCs, loopVars
<1>15. CASE LoopEnds
  BY <1>15 DEF LoopEnds, stopVars, counterVars
<1>16. CASE Interrupt
  BY <1>16 DEF Interrupt, Queue, counterVars
<1>17. CASE Stop
  BY <1>17 DEF Stop, loopVars, counterVars
<1>18. CASE SetFlag
  BY <1>18 DEF SetFlag, loopVars, counterVars
<1>19. CASE CloseSocket
  BY <1>19 DEF CloseSocket, counterVars
<1>20. CASE JoinCount
  BY <1>20 DEF JoinCount, loopVars, counterVars
<1>21. CASE JoinLoop
  BY <1>21 DEF JoinLoop, loopVars, counterVars
<1>22. CASE Reraise
  <2>1. exceptions' \in Seq({"negotiation", "session", "interrupt"})
    BY <1>22 DEF Reraise
  <2>2. stopper' \in {"returned", "raised", "free", "masked"}
    BY <1>22 DEF Reraise
  <2> QED
    BY <1>22, <2>1, <2>2 DEF Reraise, loopVars, counterVars
<1>23. CASE UNCHANGED vars
  BY <1>23 DEF vars, loopVars, stopVars, counterVars
<1> QED
  BY <1>1, <1>2, <1>3, <1>4, <1>5, <1>6, <1>7, <1>8, <1>9, <1>10, <1>11, <1>12,
     <1>13, <1>14, <1>15, <1>16, <1>17, <1>18, <1>19, <1>20, <1>21, <1>22, <1>23
     DEF Next, ActorStep, StopStep

\* A step that leaves the counter alone, and moves no thread into the block,
\* out of it or to a place from where it stores, keeps the rest of the
\* invariant.
LEMMA CounterUntouched ==
  ASSUME ServerInv, TypeOK', UNCHANGED counterVars,
         \A c \in Clients : \/ actor'[c] = actor[c]
                            \/ /\ actor[c] \in {"session", "failing", "closing"}
                               /\ actor'[c] \in {"failing", "closing", "exit"}
                            \/ /\ actor[c] \in {"none", "starting", "ended"}
                               /\ actor'[c] \in {"none", "starting", "ended"}
  PROVE  ServerInv'
<1>1. Inside' = Inside
  BY DEF ServerInv, CountExact, TypeOK, Inside
<1>2. Storing' = Storing
  BY DEF ServerInv, CountExact, TypeOK, Storing
<1>3. CountExact'
  BY <1>1 DEF ServerInv, CountExact, counterVars
<1>4. MutexHeld'
  BY DEF ServerInv, MutexHeld, counterVars
<1>5. SeenFresh'
  BY <1>2 DEF ServerInv, SeenFresh, counterVars
<1> QED
  BY <1>3, <1>4, <1>5 DEF ServerInv

\* Unless the counter was raced, a thread that leaves the block finds a count
\* above zero, so that Counter.__exit__ does not raise ValueError.
LEMMA LeavesAboveZero ==
  ASSUME ServerInv, NEW c \in Clients, actor[c] = "exit", ~raced
  PROVE  count > 0
<1>1. c \in Inside
  BY DEF Inside
<1> QED
  BY <1>1, InsideCounts, FS_EmptySet, FS_CardinalityType DEF ServerInv, CountExact, TypeOK

\* A step that moves one thread only.
LEMMA OneMoves ==
  ASSUME TypeOK, NEW c \in Clients, NEW pc, Goto(c, pc), TypeOK'
  PROVE  \A d \in Clients : actor'[d] = IF d = c THEN pc ELSE actor[d]
BY DEF Goto, TypeOK

\* EnterRead: the thread joins those that are about to store.
LEMMA EnterReadKeeps ==
  ASSUME ServerInv, TypeOK', NEW c \in Clients, EnterRead(c)
  PROVE  ServerInv'
<1> USE DEF EnterRead
<1>1. \A d \in Clients : actor'[d] = IF d = c THEN "entering" ELSE actor[d]
  BY OneMoves DEF ServerInv, CountExact
<1>2. Inside' = Inside
  BY <1>1 DEF Inside
<1>3. ~raced' => ~raced /\ Storing \subseteq {c} /\ Storing' = {c}
  BY <1>1 DEF Reads, Storing
<1>4. CountExact'
  BY <1>2, <1>3 DEF ServerInv, CountExact
<1>5. MutexHeld'
  BY <1>1 DEF ServerInv, MutexHeld
<1>6. SeenFresh'
  BY <1>1, <1>3 DEF ServerInv, CountExact, TypeOK, SeenFresh, Storing
<1> QED
  BY <1>4, <1>5, <1>6 DEF ServerInv

\* EnterStore: the thread is inside, and the count is one more.
LEMMA EnterStoreKeeps ==
  ASSUME ServerInv, TypeOK', NEW c \in Clients, EnterStore(c)
  PROVE  ServerInv'
<1> USE DEF EnterStore
<1>1. \A d \in Clients : actor'[d] = IF d = c THEN "session" ELSE actor[d]
  BY OneMoves DEF ServerInv, CountExact
<1>2. Inside' = Inside \cup {c} /\ c \notin Inside
  BY <1>1 DEF Inside
<1>3. ~raced => Storing = {c} /\ count' = count + 1
  BY DEF ServerInv, SeenFresh, Storing
<1>4. CountExact'
  <2>1. ~raced => count' = Cardinality(Inside) + 1
    BY <1>3 DEF ServerInv, CountExact
  <2> QED
    BY <1>2, <2>1, InsideCounts DEF CountExact
<1>5. MutexHeld'
  BY <1>1 DEF ServerInv, MutexHeld
<1>6. SeenFresh'
  <2>1. ~raced => Storing' = {}
    BY <1>1, <1>3 DEF Storing
  <2> QED
    BY <2>1 DEF SeenFresh, Storing
<1> QED
  BY <1>4, <1>5, <1>6 DEF ServerInv

\* LeaveRead: the thread takes the mutex, and is the only one about to store;
\* or it dies, which it does only where the counter was raced.
LEMMA LeaveReadKeeps ==
  ASSUME ServerInv, TypeOK', NEW c \in Clients, LeaveRead(c)
  PROVE  ServerInv'
<1> USE DEF LeaveRead
<1>1. ASSUME count > 0 PROVE ServerInv'
  <2>1. \A d \in Clients : actor'[d] = IF d = c THEN "leaving" ELSE actor[d]
    BY <1>1, OneMoves DEF ServerInv, CountExact
  <2>2. Inside' = Inside
    BY <2>1 DEF Inside
  <2>3. ~raced' => ~raced /\ Storing' = {c}
    BY <2>1 DEF Reads, Storing
  <2>4. CountExact'
    BY <2>2, <2>3 DEF ServerInv, CountExact
  <2>5. MutexHeld'
    BY <1>1, <2>1, ServerAssumption DEF ServerInv, MutexHeld
  <2>6. SeenFresh'
    BY <1>1, <2>1, <2>3 DEF ServerInv, CountExact, TypeOK, SeenFresh, Storing
  <2> QED
    BY <2>4, <2>5, <2>6 DEF ServerInv
<1>2. ASSUME ~(count > 0) PROVE ServerInv'
  <2>1. raced /\ raced'
    BY <1>2, LeavesAboveZero DEF Reads
  <2>2. \A d \in Clients : actor'[d] = IF d = c THEN "ended" ELSE actor[d]
    BY <1>2, OneMoves DEF ServerInv, CountExact
  <2>3. MutexHeld'
    BY <1>2, <2>2 DEF ServerInv, MutexHeld
  <2> QED
    BY <2>1, <2>3 DEF ServerInv, CountExact, SeenFresh
<1> QED
  BY <1>1, <1>2

\* LeaveStore: the thread is outside, and the count is one less.
LEMMA LeaveStoreKeeps ==
  ASSUME ServerInv, TypeOK', NEW c \in Clients, LeaveStore(c)
  PROVE  ServerInv'
<1> USE DEF LeaveStore
<1>1. \A d \in Clients : actor'[d] = IF d = c THEN "ended" ELSE actor[d]
  BY OneMoves DEF ServerInv, CountExact
<1>2. Inside' = Inside \ {c} /\ c \in Inside
  BY <1>1 DEF Inside
<1>3. ~raced => Storing = {c} /\ count' = count - 1
  BY DEF ServerInv, SeenFresh, Storing
<1>4. CountExact'
  <2>1. ~raced => count' = Cardinality(Inside) - 1
    BY <1>3 DEF ServerInv, CountExact
  <2> QED
    BY <1>2, <2>1, InsideCounts DEF CountExact
<1>5. MutexHeld'
  BY <1>1, ServerAssumption DEF ServerInv, MutexHeld
<1>6. SeenFresh'
  <2>1. ~raced => Storing' = {}
    BY <1>1, <1>3 DEF Storing
  <2> QED
    BY <2>1 DEF SeenFresh, Storing
<1> QED
  BY <1>4, <1>5, <1>6 DEF ServerInv

\* Every step keeps the invariant: four of them touch the counter.
LEMMA ServerStep == ServerInv /\ [Next]_vars => ServerInv'
<1> SUFFICES ASSUME ServerInv, [Next]_vars PROVE ServerInv'
  OBVIOUS
<1>0. TypeOK /\ TypeOK'
  BY ServerTypes DEF ServerInv, CountExact
<1>1. ASSUME NEW c \in Clients, EnterRead(c) \/ EnterStore(c) \/ LeaveRead(c) \/ LeaveStore(c)
      PROVE  ServerInv'
  BY <1>0, <1>1, EnterReadKeeps, EnterStoreKeeps, LeaveReadKeeps, LeaveStoreKeeps
<1>2. ASSUME NEW c \in Clients,
             Accept(c) \/ Negotiated(c) \/ NegotiationFails(c) \/ Disconnect(c)
      PROVE  ServerInv'
  <2>1. UNCHANGED <<actor, counterVars>>
    BY <1>2 DEF Accept, Negotiated, NegotiationFails, Disconnect
  <2> QED
    BY <1>0, <2>1, CounterUntouched
<1>3. ASSUME NEW c \in Clients,
             \/ RequestShell(c) \/ Forget(c) \/ SessionEnds(c) \/ SessionFails(c)
             \/ Report(c) \/ CloseChannel(c)
      PROVE  ServerInv'
  <2>1. UNCHANGED counterVars
    BY <1>3 DEF RequestShell, Forget, SessionEnds, SessionFails, Report, CloseChannel
  <2>2. \A d \in Clients \ {c} : actor'[d] = actor[d]
    BY <1>0, <1>3 DEF TypeOK, Goto, RequestShell, Forget, SessionEnds, SessionFails, Report,
       CloseChannel
  <2>3. \/ /\ actor[c] \in {"session", "failing", "closing"}
           /\ actor'[c] \in {"failing", "closing", "exit"}
        \/ /\ actor[c] \in {"none", "starting", "ended"}
           /\ actor'[c] \in {"none", "starting", "ended"}
    BY <1>0, <1>3 DEF TypeOK, Goto, RequestShell, Forget, SessionEnds, SessionFails, Report,
       CloseChannel
  <2> QED
    BY <1>0, <2>1, <2>2, <2>3, CounterUntouched
<1>4. CASE LoopEnds \/ Interrupt \/ Stop \/ StopStep \/ UNCHANGED vars
  <2>1. UNCHANGED <<actor, counterVars>>
    BY <1>4 DEF LoopEnds, Interrupt, Stop, StopStep, SetFlag, CloseSocket, JoinCount, JoinLoop,
       Reraise, vars
  <2> QED
    BY <1>0, <2>1, CounterUntouched
<1> QED
  BY <1>1, <1>2, <1>3, <1>4 DEF Next, ActorStep

\* Counter: the count is the number of the shells that are open, for any number
\* of clients and connections, unless two threads raced.
THEOREM CounterIsExact == Spec => []CountExact
<1>1. Spec => []ServerInv
  BY ServerInit, ServerStep, PTL DEF Spec
<1>2. ServerInv => CountExact
  BY DEF ServerInv
<1> QED
  BY <1>1, <1>2, PTL

\* Server.stop: join goes on from the counter to the thread of the loop only
\* when no shell is open, unless the counter was raced.
THEOREM StopWaitsForShells == Spec => StopWaits
<1>1. ServerInv /\ [Next]_vars
        => [stopper = "joinCount" /\ stopper' = "joinLoop" => raced \/ Inside = {}]_vars
  <2> SUFFICES ASSUME ServerInv, Next, stopper = "joinCount", stopper' = "joinLoop", ~raced
               PROVE  Inside = {}
    OBVIOUS
  <2>1. JoinCount
    <3>1. ASSUME NEW c \in Clients, NegotiationFails(c) PROVE FALSE
      BY <3>1 DEF NegotiationFails
    <3>2. ASSUME NEW c \in Clients, LeaveStore(c) PROVE FALSE
      BY <3>2 DEF LeaveStore
    <3> QED
      BY <3>1, <3>2 DEF Next, ActorStep, StopStep, Accept, Negotiated, RequestShell, Disconnect,
         Forget, SessionEnds, SessionFails, EnterRead, EnterStore, Report, CloseChannel,
         LeaveRead, LoopEnds, Interrupt, Stop, SetFlag, CloseSocket, JoinLoop, Reraise, stopVars
  <2>2. count = 0
    BY <2>1 DEF JoinCount
  <2>3. Cardinality(Inside) = 0
    BY <2>2 DEF ServerInv, CountExact
  <2> QED
    BY <2>3, InsideCounts, FS_EmptySet
<1>2. Spec => []ServerInv
  BY ServerInit, ServerStep, PTL DEF Spec
<1> QED
  BY <1>1, <1>2, PTL DEF Spec, StopWaits
=============================================================================
