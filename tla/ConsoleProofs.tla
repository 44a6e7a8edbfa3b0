--------------------------- MODULE ConsoleProofs ---------------------------
(***************************************************************************)
(* The length of the history for any number of sessions, any limit and any *)
(* number of commands, and, for one session, that Console implements       *)
(* ConsolePromise.                                                         *)
(***************************************************************************)
EXTENDS Console, FiniteSetTheorems, SequenceTheorems, TLAPS

\* The sessions that lengthen the history with no pop(0) to come: they have
\* read that there was room, or they have popped already.
Pending ==
  { c \in Sessions :
      \/ pc[c] = "append"
      \/ pc[c] \in {"put", "list", "putEntry", "trim"} /\ num[c] < Limit }

Types ==
  /\ history \in Seq(Nat)
  /\ pc \in [Sessions -> Labels]
  /\ num \in [Sessions -> Nat]
  /\ cmd \in [Sessions -> [id : Nat, kind : KindSet]]
  /\ issued \in Nat
  /\ \A c \in Sessions : pc[c] = "put" => cmd[c].kind \in {"help", "illegal", "raising"}

\* The strengthening of HistoryNearlyBounded: a session becomes pending only
\* where the history is below its limit, and gives up its place for each command
\* that it appends.
HistoryInv ==
  /\ Types
  /\ Len(history) + Cardinality(Pending) <= Limit + Cardinality(Sessions) - 1

-----------------------------------------------------------------------------
\* Pending is finite and has no more elements than there are sessions.
LEMMA PendingIsFinite ==
  /\ IsFiniteSet(Pending) /\ Cardinality(Pending) \in Nat
  /\ Cardinality(Sessions) \in Nat /\ Cardinality(Pending) <= Cardinality(Sessions)
<1>1. Pending \subseteq Sessions
  BY DEF Pending
<1> QED
  BY <1>1, ConsoleAssumption, FS_Subset, FS_CardinalityType

\* A step that makes no other session pending does not raise the number.
LEMMA PendingShrinks ==
  ASSUME Pending' \subseteq Pending
  PROVE  Cardinality(Pending') \in Nat /\ Cardinality(Pending') <= Cardinality(Pending)
BY PendingIsFinite, FS_Subset, FS_CardinalityType

\* A step that leaves the history alone and makes nobody pending is harmless.
LEMMA NobodyNew ==
  ASSUME HistoryInv, Types', history' = history, Pending' \subseteq Pending
  PROVE  HistoryInv'
<1>1. Len(history) \in Nat
  BY DEF HistoryInv, Types
<1> QED
  BY <1>1, PendingShrinks, PendingIsFinite, ConsoleAssumption DEF HistoryInv

\* The steps that leave the history and num alone.
LEMMA OtherSteps ==
  ASSUME HistoryInv, NEW c \in Sessions,
         \/ Login(c) \/ Receive(c) \/ Leave(c) \/ Prompt(c) \/ PutText(c) \/ ListEntry(c)
         \/ PutEntry(c) \/ TestEmpty(c) \/ Get(c) \/ LoadResponse(c) \/ SaveResponse(c)
         \/ TestResponse(c) \/ WriteResponse(c)
  PROVE  HistoryInv'
<1> USE DEF HistoryInv, Types, Labels, Goto, shared, locals, bounds, ghosts
<1>1. CASE Login(c)
  <2> SUFFICES Types' /\ Pending' \subseteq Pending /\ history' = history
    BY NobodyNew
  <2> QED
    BY <1>1 DEF Login, Pending
<1>2. CASE Receive(c)
  <2> SUFFICES Types' /\ Pending' \subseteq Pending /\ history' = history
    BY NobodyNew
  <2> QED
    BY <1>2, ConsoleAssumption DEF Receive, Pending, KindSet
<1>3. CASE Leave(c)
  <2> SUFFICES Types' /\ Pending' \subseteq Pending /\ history' = history
    BY NobodyNew
  <2> QED
    BY <1>3 DEF Leave, Pending
<1>4. CASE Prompt(c)
  <2> SUFFICES Types' /\ Pending' \subseteq Pending /\ history' = history
    BY NobodyNew
  <2> QED
    BY <1>4 DEF Prompt, Pending
<1>5. CASE PutText(c)
  <2> SUFFICES Types' /\ Pending' \subseteq Pending /\ history' = history
    BY NobodyNew
  <2> QED
    BY <1>5 DEF PutText, Pending, KindSet, Put
<1>6. CASE ListEntry(c)
  <2> SUFFICES Types' /\ Pending' \subseteq Pending /\ history' = history
    BY NobodyNew
  <2> QED
    BY <1>6 DEF ListEntry, Pending
<1>7. CASE PutEntry(c)
  <2> SUFFICES Types' /\ Pending' \subseteq Pending /\ history' = history
    BY NobodyNew
  <2> QED
    BY <1>7 DEF PutEntry, Pending, Put
<1>8. CASE TestEmpty(c)
  <2> SUFFICES Types' /\ Pending' \subseteq Pending /\ history' = history
    BY NobodyNew
  <2> QED
    BY <1>8 DEF TestEmpty, Pending
<1>9. CASE Get(c)
  <2> SUFFICES Types' /\ Pending' \subseteq Pending /\ history' = history
    BY NobodyNew
  <2> QED
    BY <1>9 DEF Get, Pending
<1>10. CASE LoadResponse(c)
  <2> SUFFICES Types' /\ Pending' \subseteq Pending /\ history' = history
    BY NobodyNew
  <2> QED
    BY <1>10 DEF LoadResponse, Pending
<1>11. CASE SaveResponse(c)
  <2> SUFFICES Types' /\ Pending' \subseteq Pending /\ history' = history
    BY NobodyNew
  <2> QED
    BY <1>11 DEF SaveResponse, Pending
<1>12. CASE TestResponse(c)
  <2> SUFFICES Types' /\ Pending' \subseteq Pending /\ history' = history
    BY NobodyNew
  <2> QED
    BY <1>12 DEF TestResponse, Pending
<1>13. CASE WriteResponse(c)
  <2> SUFFICES Types' /\ Pending' \subseteq Pending /\ history' = history
    BY NobodyNew
  <2> QED
    BY <1>13 DEF WriteResponse, Pending
<1> QED
  BY <1>1, <1>2, <1>3, <1>4, <1>5, <1>6, <1>7, <1>8, <1>9, <1>10, <1>11, <1>12, <1>13

\* A session that reads a full history does not become pending.
LEMMA DispatchStep ==
  ASSUME HistoryInv, NEW c \in Sessions, Dispatch(c) PROVE HistoryInv'
<1> USE DEF Goto, shared, locals, bounds, ghosts
<1>0. Types /\ Len(history) \in Nat
  BY DEF HistoryInv, Types
<1>1. history' = history /\ num' = [num EXCEPT ![c] = Len(history)]
  BY DEF Dispatch
<1>1a. Types'
  BY <1>0, <1>1 DEF Dispatch, KindSet, Types, Labels
<1>2. CASE Len(history) < Limit
  <2>1. Pending' \subseteq Sessions
    BY DEF Pending
  <2>2. Cardinality(Pending') \in Nat /\ Cardinality(Pending') <= Cardinality(Sessions)
    BY <2>1, ConsoleAssumption, FS_Subset, FS_CardinalityType
  <2> QED
    BY <1>0, <1>1, <1>1a, <1>2, <2>2, ConsoleAssumption, PendingIsFinite DEF HistoryInv
<1>3. CASE ~(Len(history) < Limit)
  <2>1. Pending' \subseteq Pending
    BY <1>0, <1>1, <1>3 DEF Dispatch, Pending, Types
  <2> QED
    BY <1>1, <1>1a, <2>1, NobodyNew
<1> QED
  BY <1>0, <1>2, <1>3

\* A session that pops becomes pending, and one that finds room stays so.
LEMMA TrimStep ==
  ASSUME HistoryInv, NEW c \in Sessions, Trim(c) PROVE HistoryInv'
<1> USE DEF Goto, shared, locals, bounds, ghosts
<1>0. Types /\ Len(history) \in Nat
  BY DEF HistoryInv, Types
<1>1. CASE history = <<>> \/ num[c] < Limit
  <2>1. /\ history' = history /\ UNCHANGED <<num, cmd, issued>>
        /\ \/ num[c] < Limit /\ pc' = [pc EXCEPT ![c] = "append"]
           \/ pc' = [pc EXCEPT ![c] = "prompt"]
    BY <1>0, <1>1, ConsoleAssumption DEF Trim, Types
  <2>2. Types'
    BY <1>0, <2>1 DEF Types, Labels
  <2>3. Pending' \subseteq Pending
    BY <1>0, <2>1 DEF Trim, Pending, Types
  <2> QED
    BY <2>1, <2>2, <2>3, NobodyNew
<1>2. CASE history # <<>> /\ history' = Tail(history) /\ num[c] >= Limit
  <2>1. Types'
    <3>1. history' \in Seq(Nat)
      BY <1>0, <1>2 DEF Types
    <3> QED
      BY <1>0, <3>1 DEF Trim, Types, Labels
  <2>2. Pending' \subseteq Pending \cup {c}
    BY <1>0 DEF Trim, Pending, Types
  <2>3. Cardinality(Pending') \in Nat /\ Cardinality(Pending') <= Cardinality(Pending) + 1
    <3>1. /\ IsFiniteSet(Pending \cup {c})
          /\ Cardinality(Pending \cup {c}) \in {Cardinality(Pending), Cardinality(Pending) + 1}
      BY PendingIsFinite, FS_AddElement
    <3> QED
      BY <2>2, <3>1, FS_Subset, FS_CardinalityType, PendingIsFinite
  <2>4. Len(history') = Len(history) - 1 /\ Len(history) \in Nat
    BY <1>0, <1>2 DEF Types
  <2> QED
    BY <2>1, <2>3, <2>4, PendingIsFinite, ConsoleAssumption DEF HistoryInv
<1> QED
  BY <1>0, <1>1, <1>2 DEF Trim, Types

\* A session that appends is pending no more.
LEMMA RecordStep ==
  ASSUME HistoryInv, NEW c \in Sessions, Record(c) PROVE HistoryInv'
<1> USE DEF Goto, shared, locals, bounds, ghosts
<1>0. Types /\ Len(history) \in Nat
  BY DEF HistoryInv, Types
<1>1. Types'
  <2>1. history' \in Seq(Nat)
    BY <1>0 DEF Record, Types
  <2> QED
    BY <1>0, <2>1 DEF Record, Types, Labels
<1>2. c \in Pending /\ Pending' \subseteq Pending \ {c}
  BY <1>0 DEF Record, Pending, Types
<1>3. Cardinality(Pending') \in Nat /\ Cardinality(Pending') <= Cardinality(Pending) - 1
  BY <1>2, PendingIsFinite, FS_Subset, FS_RemoveElement, FS_CardinalityType
<1>4. Len(history') = Len(history) + 1 /\ Len(history) \in Nat
  BY <1>0 DEF Record, Types
<1> QED
  BY <1>1, <1>3, <1>4, PendingIsFinite, ConsoleAssumption DEF HistoryInv

\* No session is pending at first.
LEMMA HistoryInit ==
  ASSUME Init PROVE HistoryInv
<1>1. Types
  BY DEF Init, Types, NoCommand, KindSet, Labels
<1>2. Pending = {}
  BY DEF Init, Pending
<1> QED
  BY <1>1, <1>2, PendingIsFinite, FS_EmptySet, ConsoleAssumption DEF Init, HistoryInv

\* Every step keeps the bound.
LEMMA HistoryStep ==
  ASSUME HistoryInv, [Next]_vars PROVE HistoryInv'
<1>1. CASE SensorWarns \/ UNCHANGED vars
  <2>1. Types' /\ Pending' \subseteq Pending /\ history' = history
    BY <1>1 DEF SensorWarns, HistoryInv, Types, Pending, vars, shared, locals, bounds
  <2> QED
    BY <2>1, NobodyNew
<1>2. ASSUME NEW c \in Sessions, Login(c) \/ Receive(c) \/ Leave(c) \/ Serve(c)
      PROVE  HistoryInv'
  BY <1>2, OtherSteps, DispatchStep, TrimStep, RecordStep DEF Serve
<1> QED
  BY <1>1, <1>2 DEF Next

\* However many sessions test the length of the history before the others append
\* to it, the history stays within its limit and one command for each session
\* but one.  (handle_command of command.py, "if num >= 30")
THEOREM HistoryBounded == Spec => []HistoryNearlyBounded
<1>1. HistoryInv => HistoryNearlyBounded
  BY PendingIsFinite, ConsoleAssumption DEF HistoryInv, Types, HistoryNearlyBounded
<1> QED
  BY <1>1, HistoryInit, HistoryStep, PTL DEF Spec

-----------------------------------------------------------------------------
(* One session: the console implements ConsolePromise                      *)

\* The last n elements, by their places.
LEMMA LastPlaces ==
  ASSUME NEW s \in Seq(Nat), NEW n \in Nat
  PROVE  /\ LastOf(s, n) \in Seq(Nat)
         /\ Len(s) <= n => LastOf(s, n) = s
         /\ Len(s) > n => /\ Len(LastOf(s, n)) = n
                          /\ \A i \in 1 .. n : LastOf(s, n)[i] = s[Len(s) - n + i]
<1>1. Len(s) \in Nat /\ \A i \in 1 .. Len(s) : s[i] \in Nat
  OBVIOUS
<1>2. CASE Len(s) <= n
  BY <1>1, <1>2 DEF LastOf
<1>3. CASE Len(s) > n
  <2>1. PICK m \in Int : m = Len(s) - n + 1
    <3>1. Len(s) - n + 1 \in Int
      BY <1>1
    <3> QED
      BY <3>1
  <2>2. LastOf(s, n) = SubSeq(s, m, Len(s))
    <3>1. ~(Len(s) <= n)
      BY <1>1, <1>3
    <3> QED
      BY <2>1, <3>1, Zenon DEF LastOf
  <2>3. \A i \in m .. Len(s) : s[i] \in Nat
    BY <1>1, <1>3, <2>1
  <2>4. /\ SubSeq(s, m, Len(s)) \in Seq(Nat)
        /\ Len(SubSeq(s, m, Len(s))) = IF m <= Len(s) THEN Len(s) - m + 1 ELSE 0
        /\ \A i \in 1 .. Len(s) - m + 1 : SubSeq(s, m, Len(s))[i] = s[m + i - 1]
    BY <1>1, <2>3, SubSeqProperties
  <2>5. Len(s) - m + 1 = n /\ \A i \in 1 .. n : m + i - 1 = Len(s) - n + i
    BY <1>1, <2>1
  <2>6. Len(LastOf(s, n)) = n
    BY <1>1, <1>3, <2>1, <2>2, <2>4, <2>5
  <2> QED
    BY <1>1, <1>3, <2>2, <2>4, <2>5, <2>6
<1> QED
  BY <1>1, <1>2, <1>3

\* One more command moves the last n of them by one.
LEMMA LastMoves ==
  ASSUME NEW s \in Seq(Nat), NEW n \in Nat \ {0}, NEW x \in Nat
  PROVE  /\ LastOf(s, n) \in Seq(Nat) /\ LastOf(s, n - 1) \in Seq(Nat)
         /\ Len(LastOf(s, n)) < n => LastOf(s, n - 1) = LastOf(s, n)
         /\ Len(LastOf(s, n)) >= n => LastOf(s, n) # <<>> /\ LastOf(s, n - 1) = Tail(LastOf(s, n))
         /\ LastOf(Append(s, x), n) = Append(LastOf(s, n - 1), x)
<1>1. n - 1 \in Nat /\ n \in Nat /\ Len(s) \in Nat
  OBVIOUS
<1>2. /\ LastOf(s, n) \in Seq(Nat) /\ LastOf(s, n - 1) \in Seq(Nat)
      /\ Len(s) <= n => LastOf(s, n) = s
      /\ Len(s) > n => /\ Len(LastOf(s, n)) = n
                       /\ \A i \in 1 .. n : LastOf(s, n)[i] = s[Len(s) - n + i]
      /\ Len(s) <= n - 1 => LastOf(s, n - 1) = s
      /\ Len(s) > n - 1 => /\ Len(LastOf(s, n - 1)) = n - 1
                           /\ \A i \in 1 .. n - 1 : LastOf(s, n - 1)[i] = s[Len(s) - (n - 1) + i]
  BY <1>1, LastPlaces
<1>3. ASSUME Len(LastOf(s, n)) < n PROVE LastOf(s, n - 1) = LastOf(s, n)
  BY <1>1, <1>2, <1>3
<1>4. ASSUME Len(LastOf(s, n)) >= n
      PROVE  LastOf(s, n) # <<>> /\ LastOf(s, n - 1) = Tail(LastOf(s, n))
  <2>1. PICK l \in Seq(Nat) : l = LastOf(s, n)
    BY <1>2
  <2>2. PICK k \in Seq(Nat) : k = LastOf(s, n - 1)
    BY <1>2
  <2>3. Len(l) = n /\ l # <<>> /\ Len(s) >= n /\ Len(k) = n - 1
    BY <1>1, <1>2, <1>4, <2>1, <2>2
  <2>4. /\ Tail(l) \in Seq(Nat) /\ Len(Tail(l)) = n - 1
        /\ \A i \in 1 .. n - 1 : Tail(l)[i] = l[i + 1]
    BY <2>3
  <2>5. ASSUME NEW i \in 1 .. n - 1 PROVE k[i] = Tail(l)[i]
    <3>1. i + 1 \in 1 .. n /\ i \in Int
      BY <1>1
    <3>2. l[i + 1] = s[Len(s) - n + (i + 1)]
      <4>1. CASE Len(s) > n
        BY <1>1, <1>2, <2>1, <3>1, <4>1
      <4>2. CASE Len(s) = n
        <5>1. l = s /\ Len(s) - n + (i + 1) = i + 1
          BY <1>1, <1>2, <2>1, <3>1, <4>2
        <5> QED
          BY <5>1
      <4> QED
        BY <1>1, <2>3, <4>1, <4>2
    <3>3. k[i] = s[Len(s) - (n - 1) + i]
      <4>1. Len(s) > n - 1
        BY <1>1, <2>3
      <4> QED
        BY <1>1, <1>2, <2>2, <4>1
    <3>4. Len(s) - n + (i + 1) = Len(s) - (n - 1) + i
      BY <1>1, <3>1
    <3> QED
      BY <2>4, <3>2, <3>3, <3>4
  <2>6. k = Tail(l)
    BY <1>1, <2>3, <2>4, <2>5, SeqEqual
  <2> QED
    BY <2>1, <2>2, <2>3, <2>6
<1>5. LastOf(Append(s, x), n) = Append(LastOf(s, n - 1), x)
  <2>1. PICK t \in Seq(Nat) : t = Append(s, x)
    <3>1. Append(s, x) \in Seq(Nat)
      OBVIOUS
    <3> QED
      BY <3>1
  <2>2. Len(t) = Len(s) + 1 /\ t[Len(s) + 1] = x /\ \A i \in 1 .. Len(s) : t[i] = s[i]
    BY <2>1
  <2>3. /\ LastOf(t, n) \in Seq(Nat)
        /\ Len(t) <= n => LastOf(t, n) = t
        /\ Len(t) > n => /\ Len(LastOf(t, n)) = n
                         /\ \A i \in 1 .. n : LastOf(t, n)[i] = t[Len(t) - n + i]
    BY <1>1, LastPlaces
  <2>4. CASE Len(s) <= n - 1
    <3>1. LastOf(t, n) = t
      BY <1>1, <2>2, <2>3, <2>4
    <3>2. LastOf(s, n - 1) = s
      BY <1>2, <2>4
    <3> QED
      BY <2>1, <3>1, <3>2
  <2>5. CASE Len(s) > n - 1
    <3>1. PICK l \in Seq(Nat) : l = LastOf(t, n)
      BY <2>3
    <3>2. PICK k \in Seq(Nat) : k = LastOf(s, n - 1)
      BY <1>2
    <3>3. Len(l) = n /\ \A i \in 1 .. n : l[i] = t[Len(t) - n + i]
      BY <1>1, <2>2, <2>3, <2>5, <3>1
    <3>4. Len(k) = n - 1 /\ \A i \in 1 .. n - 1 : k[i] = s[Len(s) - (n - 1) + i]
      BY <1>2, <2>5, <3>2
    <3>5. /\ Append(k, x) \in Seq(Nat) /\ Len(Append(k, x)) = n /\ Append(k, x)[n] = x
          /\ \A i \in 1 .. n - 1 : Append(k, x)[i] = k[i]
      BY <1>1, <3>4
    <3>6. ASSUME NEW i \in 1 .. n PROVE l[i] = Append(k, x)[i]
      <4>0. i \in Nat /\ 1 <= i /\ i <= n
        BY <1>1
      <4>1. CASE i = n
        <5>1. Len(t) - n + i = Len(s) + 1
          BY <1>1, <2>2, <4>1
        <5> QED
          BY <2>2, <3>3, <3>5, <4>1, <5>1
      <4>2. CASE i # n
        <5>1. i \in 1 .. n - 1
          BY <1>1, <4>0, <4>2
        <5>2. /\ Len(t) - n + i = Len(s) - (n - 1) + i
              /\ Len(s) - (n - 1) + i \in 1 .. Len(s)
          BY <1>1, <2>2, <2>5, <5>1
        <5> QED
          BY <2>2, <3>3, <3>4, <3>5, <5>1, <5>2
      <4> QED
        BY <4>1, <4>2
    <3>7. l = Append(k, x)
      BY <3>3, <3>5, <3>6, SeqEqual
    <3> QED
      BY <2>1, <3>1, <3>2, <3>7
  <2> QED
    BY <1>1, <2>4, <2>5
<1> QED
  BY <1>2, <1>3, <1>4, <1>5

Messages == [of : Nat, shows : Nat]

\* What was taken from a queue and what is still there, as one sequence.
LEMMA Together ==
  ASSUME NEW a \in Seq(Messages), NEW m \in Messages, NEW q \in Seq(Messages)
  PROVE  /\ a \o <<>> \o q \in Seq(Messages) /\ a \o <<m>> \o q \in Seq(Messages)
         /\ <<>> \o <<>> \o q = q
         /\ a \o <<>> \o q = a \o q
         /\ a \o <<>> \o Append(q, m) = Append(a \o <<>> \o q, m)
         /\ a \o <<m>> \o q = Append(a, m) \o <<>> \o q
         /\ \A n \in Messages : a \o <<n>> \o Append(q, m) = Append(a \o <<n>> \o q, m)
         /\ q # <<>> => a \o <<>> \o q = a \o <<Head(q)>> \o Tail(q)
         /\ q \o <<m>> = Append(q, m)
         /\ SubSeq(a \o q, 1, Len(a)) = a
         /\ SubSeq(a \o q, Len(a) + 1, Len(a \o q)) = q
<1>1. a \o <<>> = a /\ <<>> \o <<>> = <<>> /\ <<>> \o q = q
  BY ConcatEmptySeq, EmptySeq
<1>2. <<m>> \in Seq(Messages) /\ a \o q \in Seq(Messages) /\ a \o <<m>> \in Seq(Messages)
  OBVIOUS
<1>3. \A s \in Seq(Messages), x \in Messages : s \o <<x>> = Append(s, x)
  <2> SUFFICES ASSUME NEW s \in Seq(Messages), NEW x \in Messages PROVE s \o <<x>> = Append(s, x)
    OBVIOUS
  <2>1. s \o <<x>> \in Seq(Messages) /\ Append(s, x) \in Seq(Messages) /\ Len(s \o <<x>>) = Len(Append(s, x))
    OBVIOUS
  <2>2. \A i \in 1 .. Len(s \o <<x>>) : (s \o <<x>>)[i] = Append(s, x)[i]
    OBVIOUS
  <2> QED
    BY <2>1, <2>2, SeqEqual
<1>4. \A s \in Seq(Messages) : s \o Append(q, m) = Append(s \o q, m)
  <2> SUFFICES ASSUME NEW s \in Seq(Messages) PROVE s \o Append(q, m) = Append(s \o q, m)
    OBVIOUS
  <2>1. s \o Append(q, m) = s \o (q \o <<m>>)
    BY <1>3
  <2>2. s \o (q \o <<m>>) = (s \o q) \o <<m>>
    BY <1>2, ConcatAssociative
  <2>3. (s \o q) \o <<m>> = Append(s \o q, m)
    <3>1. s \o q \in Seq(Messages)
      OBVIOUS
    <3> QED
      BY <1>3, <3>1
  <2> QED
    BY <2>1, <2>2, <2>3
<1>5. ASSUME q # <<>> PROVE a \o <<>> \o q = a \o <<Head(q)>> \o Tail(q)
  <2>1. Head(q) \in Messages /\ Tail(q) \in Seq(Messages) /\ <<Head(q)>> \in Seq(Messages)
    BY <1>5
  <2>2. q = <<Head(q)>> \o Tail(q)
    <3>1. <<Head(q)>> \o Tail(q) \in Seq(Messages) /\ Len(<<Head(q)>> \o Tail(q)) = Len(q)
      BY <1>5, <2>1
    <3>2. \A i \in 1 .. Len(q) : q[i] = (<<Head(q)>> \o Tail(q))[i]
      BY <1>5, <2>1
    <3> QED
      BY <3>1, <3>2, SeqEqual
  <2>3. a \o (<<Head(q)>> \o Tail(q)) = a \o <<Head(q)>> \o Tail(q)
    BY <2>1, ConcatAssociative
  <2> QED
    BY <1>1, <2>2, <2>3
<1>6. a \o <<m>> \o q = Append(a, m) \o <<>> \o q
  <2>1. Append(a, m) \in Seq(Messages) /\ a \o <<m>> = Append(a, m)
    BY <1>3
  <2>2. Append(a, m) \o <<>> = Append(a, m)
    BY <2>1, ConcatEmptySeq
  <2> QED
    BY <2>1, <2>2
<1>7. ASSUME NEW n \in Messages PROVE a \o <<n>> \o Append(q, m) = Append(a \o <<n>> \o q, m)
  <2>1. a \o <<n>> \in Seq(Messages)
    OBVIOUS
  <2> QED
    BY <1>4, <2>1
<1>8. SubSeq(a \o q, 1, Len(a)) = a /\ SubSeq(a \o q, Len(a) + 1, Len(a \o q)) = q
  <2>1. PICK b \in Seq(Messages) : b = a \o q
    BY <1>2
  <2>2. /\ Len(b) = Len(a) + Len(q) /\ Len(a) \in Nat /\ Len(q) \in Nat
        /\ \A i \in 1 .. Len(a) + Len(q) : b[i] = IF i <= Len(a) THEN a[i] ELSE q[i - Len(a)]
    BY <2>1, ConcatProperties
  <2>3. SubSeq(b, 1, Len(a)) = a
    <3>1. /\ SubSeq(b, 1, Len(a)) \in Seq(Messages) /\ Len(SubSeq(b, 1, Len(a))) = Len(a)
          /\ \A i \in 1 .. Len(a) : SubSeq(b, 1, Len(a))[i] = b[i]
      BY <2>2
    <3>2. \A i \in 1 .. Len(a) : SubSeq(b, 1, Len(a))[i] = a[i]
      BY <2>2, <3>1
    <3> QED
      BY <3>1, <3>2, SeqEqual
  <2>4. SubSeq(b, Len(a) + 1, Len(b)) = q
    <3>1. PICK k \in Int : k = Len(a) + 1
      BY <2>2
    <3>2. /\ SubSeq(b, k, Len(b)) \in Seq(Messages) /\ Len(SubSeq(b, k, Len(b))) = Len(q)
          /\ \A i \in 1 .. Len(q) : SubSeq(b, k, Len(b))[i] = b[k + i - 1]
      <4>1. \A i \in k .. Len(b) : b[i] \in Messages
        BY <2>2, <3>1
      <4>2. /\ SubSeq(b, k, Len(b)) \in Seq(Messages)
            /\ Len(SubSeq(b, k, Len(b))) = IF k <= Len(b) THEN Len(b) - k + 1 ELSE 0
            /\ \A i \in 1 .. Len(b) - k + 1 : SubSeq(b, k, Len(b))[i] = b[k + i - 1]
        BY <2>2, <3>1, <4>1, SubSeqProperties
      <4>3. Len(b) - k + 1 = Len(q) /\ (IF k <= Len(b) THEN Len(b) - k + 1 ELSE 0) = Len(q)
        BY <2>2, <3>1
      <4> QED
        BY <4>2, <4>3
    <3>3. ASSUME NEW i \in 1 .. Len(q) PROVE SubSeq(b, k, Len(b))[i] = q[i]
      <4>1. k + i - 1 = Len(a) + i /\ Len(a) + i \in 1 .. Len(a) + Len(q) /\ ~(Len(a) + i <= Len(a))
            /\ Len(a) + i - Len(a) = i
        BY <2>2, <3>1
      <4>2. b[Len(a) + i] = q[i]
        BY <2>2, <4>1
      <4> QED
        BY <3>2, <4>1, <4>2
    <3> QED
      BY <3>1, <3>2, <3>3, SeqEqual
  <2> QED
    BY <2>1, <2>3, <2>4
<1>9. /\ a \o <<>> \o q = a \o q /\ a \o <<>> \o q \in Seq(Messages) /\ a \o <<m>> \o q \in Seq(Messages)
      /\ <<>> \o <<>> \o q = q
  BY <1>1, <1>2
<1>10. a \o <<>> \o Append(q, m) = Append(a \o <<>> \o q, m)
  BY <1>1, <1>4
<1>11. q \o <<m>> = Append(q, m)
  BY <1>3
<1> QED
  BY <1>5, <1>6, <1>7, <1>8, <1>9, <1>10, <1>11

-----------------------------------------------------------------------------
OneSession == Sessions = {User}

Listed == LastOf(recorded, Limit)

\* Every other variable has a value of its type.
Values ==
  /\ Types
  /\ queue \in Seq(Messages) /\ response \in Seq(Messages) /\ recorded \in Seq(Nat)
  /\ idx \in [Sessions -> Nat]
  /\ held \in [Sessions -> Messages] /\ loaded \in [Sessions -> Seq(Messages)]
  /\ delivered \in Seq(Messages)

\* The response is empty until the messages of the command are taken from the
\* queue, no other thread changes it, and it is written when the queue is empty
\* but for the warnings that came since.
Responding ==
  /\ pc[User] \notin Answering \cup {"closed", "prompt"} => response = <<>>
  /\ pc[User] = "save" => loaded[User] = response
  /\ pc[User] \in {"reply", "write"} => \A i \in 1 .. Len(queue) : queue[i] = NoMessage

\* The history is what was recorded last, and num is its length.
Recording ==
  /\ history = LastOf(recorded, IF pc[User] = "append" THEN Limit - 1 ELSE Limit)
  /\ pc[User] \in {"put", "list", "putEntry", "trim"} => num[User] = Len(history)

\* Which commands come where.
Commanding ==
  /\ pc[User] \notin Idle => cmd[User].id > 0
  /\ pc[User] = "put" => cmd[User].kind \in {"help", "illegal", "raising"}
  /\ pc[User] \in {"list", "putEntry"} => cmd[User].kind = "history"
  /\ pc[User] \in {"trim", "append"} => cmd[User].kind \in {"quiet", "help", "history"}
  /\ pc[User] \in Answering => cmd[User].kind # "raising"

\* The list of "history" is complete when the command is recorded.
Listing ==
  /\ pc[User] = "list" => idx[User] <= Len(Listed)
  /\ pc[User] = "putEntry" =>
       /\ idx[User] < Len(Listed)
       /\ held[User] = [of |-> cmd[User].id, shows |-> Listed[idx[User] + 1]]
  /\ pc[User] \in {"trim", "append"} /\ cmd[User].kind = "history" => idx[User] = Len(Listed)

SessionInv == Values /\ Responding /\ Recording /\ Commanding /\ Listing

\* At first nothing was said and nothing is recorded.
LEMMA SessionInit ==
  ASSUME OneSession, Init
  PROVE  SessionInv
<1> USE DEF Init
<1>1. User \in Sessions /\ <<>> \in Seq(Messages) /\ <<>> \in Seq(Nat) /\ pc[User] = "closed"
  BY DEF OneSession
<1>2. NoMessage \in Messages
  BY DEF NoMessage, Messages
<1>3. Types
  BY <1>1 DEF Types, NoCommand, KindSet, Labels
<1>4. Values
  BY <1>1, <1>2, <1>3 DEF Values
<1>5. LastOf(<<>>, Limit) = <<>>
  BY ConsoleAssumption DEF LastOf
<1>6. Responding /\ Recording /\ Commanding /\ Listing
  BY <1>1, <1>5 DEF Responding, Recording, Commanding, Listing, Idle, Answering
<1> QED
  BY <1>4, <1>6 DEF SessionInv

\* The values of the variables, for the only session.
LEMMA SessionValues ==
  ASSUME OneSession, Values
  PROVE  /\ User \in Sessions /\ \A c \in Sessions : c = User
         /\ pc[User] \in Labels /\ num[User] \in Nat /\ idx[User] \in Nat
         /\ cmd[User].id \in Nat /\ cmd[User].kind \in KindSet
         /\ held[User] \in Messages /\ loaded[User] \in Seq(Messages)
         /\ Len(history) \in Nat /\ Len(Listed) \in Nat /\ Listed \in Seq(Nat)
<1>1. User \in Sessions /\ \A c \in Sessions : c = User
  BY DEF OneSession
<1>2. Listed \in Seq(Nat)
  BY LastPlaces, ConsoleAssumption DEF Listed, Values
<1> QED
  BY <1>1, <1>2 DEF Values, Types

\* The steps of the only session.
LEMMA SessionSteps ==
  ASSUME OneSession, [Next]_vars
  PROVE  \/ UNCHANGED vars \/ SensorWarns
         \/ Login(User) \/ Receive(User) \/ Leave(User) \/ Prompt(User) \/ Dispatch(User)
         \/ PutText(User) \/ ListEntry(User) \/ PutEntry(User) \/ Trim(User) \/ Record(User)
         \/ TestEmpty(User) \/ Get(User) \/ LoadResponse(User) \/ SaveResponse(User)
         \/ TestResponse(User) \/ WriteResponse(User)
<1>1. \A c \in Sessions : c = User
  BY DEF OneSession
<1> QED
  BY <1>1 DEF Next, Serve

\* Every step of the session keeps the types.
LEMMA ValuesStep ==
  ASSUME OneSession, SessionInv, [Next]_vars, Types'
  PROVE  Values'
<1>0. /\ User \in Sessions /\ \A c \in Sessions : c = User
      /\ cmd[User].id \in Nat /\ held[User] \in Messages /\ loaded[User] \in Seq(Messages)
      /\ idx[User] \in Nat /\ pc[User] \in Labels /\ Len(history) \in Nat
  BY SessionValues DEF SessionInv
<1>1. /\ queue \in Seq(Messages) /\ response \in Seq(Messages) /\ recorded \in Seq(Nat)
      /\ idx \in [Sessions -> Nat] /\ history \in Seq(Nat)
      /\ held \in [Sessions -> Messages] /\ loaded \in [Sessions -> Seq(Messages)]
  BY DEF SessionInv, Values, Types
<1>2. Text(User) \in Messages /\ NoMessage \in Messages
  BY <1>0 DEF Text, Messages, NoMessage
<1>3. queue' \in Seq(Messages)
  <2>1. UNCHANGED queue \/ Put(Text(User)) \/ Put(held[User]) \/ Put(NoMessage)
        \/ (queue # <<>> /\ queue' = Tail(queue))
    BY SessionSteps DEF Login, Receive, Leave, Prompt, Dispatch, PutText, ListEntry, PutEntry,
       Trim, Record, TestEmpty, Get, LoadResponse, SaveResponse, TestResponse, WriteResponse,
       SensorWarns, vars, shared
  <2>2. \A m \in Messages : Append(queue, m) \in Seq(Messages)
    BY <1>1
  <2>3. queue # <<>> => Tail(queue) \in Seq(Messages)
    BY <1>1
  <2> QED
    BY <1>0, <1>1, <1>2, <2>1, <2>2, <2>3, Zenon DEF Put
<1>4. response' \in Seq(Messages)
  <2>1. \/ UNCHANGED response \/ response' = <<>>
        \/ response' = Append(loaded[User], held[User])
    BY SessionSteps DEF Login, Receive, Leave, Prompt, Dispatch, PutText, ListEntry, PutEntry,
       Trim, Record, TestEmpty, Get, LoadResponse, SaveResponse, TestResponse, WriteResponse,
       SensorWarns, vars, shared
  <2>2. Append(loaded[User], held[User]) \in Seq(Messages) /\ <<>> \in Seq(Messages)
    <3>1. \A s \in Seq(Messages), m \in Messages : Append(s, m) \in Seq(Messages)
      OBVIOUS
    <3> QED
      BY <1>0, <3>1, EmptySeq, Zenon
  <2> QED
    BY <1>1, <2>1, <2>2, Zenon
<1>5. recorded' \in Seq(Nat)
  <2>1. UNCHANGED recorded \/ recorded' = Append(recorded, cmd[User].id)
    BY SessionSteps DEF Login, Receive, Leave, Prompt, Dispatch, PutText, ListEntry, PutEntry,
       Trim, Record, TestEmpty, Get, LoadResponse, SaveResponse, TestResponse, WriteResponse,
       SensorWarns, vars, ghosts
  <2>2. Append(recorded, cmd[User].id) \in Seq(Nat)
    <3>1. \A s \in Seq(Nat), m \in Nat : Append(s, m) \in Seq(Nat)
      OBVIOUS
    <3> QED
      BY <1>0, <1>1, <3>1, Zenon
  <2> QED
    BY <1>1, <2>1, <2>2, Zenon
<1>6. idx' \in [Sessions -> Nat]
  <2>1. \/ UNCHANGED idx \/ idx' = [idx EXCEPT ![User] = 0]
        \/ idx' = [idx EXCEPT ![User] = idx[User] + 1]
    BY SessionSteps DEF Login, Receive, Leave, Prompt, Dispatch, PutText, ListEntry, PutEntry,
       Trim, Record, TestEmpty, Get, LoadResponse, SaveResponse, TestResponse, WriteResponse,
       SensorWarns, vars, locals
  <2> QED
    BY <1>0, <1>1, <2>1
<1>7. loaded' \in [Sessions -> Seq(Messages)]
  <2>1. \/ UNCHANGED loaded \/ loaded' = [loaded EXCEPT ![User] = response]
        \/ loaded' = [loaded EXCEPT ![User] = <<>>]
    BY SessionSteps DEF Login, Receive, Leave, Prompt, Dispatch, PutText, ListEntry, PutEntry,
       Trim, Record, TestEmpty, Get, LoadResponse, SaveResponse, TestResponse, WriteResponse,
       SensorWarns, vars, locals
  <2>2. <<>> \in Seq(Messages)
    OBVIOUS
  <2> QED
    BY <1>0, <1>1, <2>1, <2>2
<1>8. held' \in [Sessions -> Messages]
  <2>1. CASE ListEntry(User)
    <3>1. \/ UNCHANGED held
          \/ /\ idx[User] < Len(history)
             /\ held' = [held EXCEPT ![User] = [Text(User) EXCEPT !.shows = history[idx[User] + 1]]]
      BY <2>1 DEF ListEntry
    <3>2. ASSUME idx[User] < Len(history)
          PROVE  [Text(User) EXCEPT !.shows = history[idx[User] + 1]] \in Messages
      <4>1. idx[User] + 1 \in 1 .. Len(history)
        BY <1>0, <3>2
      <4>2. history[idx[User] + 1] \in Nat
        BY <1>1, <4>1
      <4> QED
        BY <1>2, <4>2 DEF Messages
    <3> QED
      BY <1>0, <1>1, <3>1, <3>2
  <2>2. CASE ~ListEntry(User)
    <3>1. \/ UNCHANGED held \/ held' = [held EXCEPT ![User] = NoMessage]
          \/ (queue # <<>> /\ held' = [held EXCEPT ![User] = Head(queue)])
      BY SessionSteps, <2>2 DEF Login, Receive, Leave, Prompt, Dispatch, PutText, PutEntry,
         Trim, Record, TestEmpty, Get, LoadResponse, SaveResponse, TestResponse, WriteResponse,
         SensorWarns, vars, locals
    <3> QED
      BY <1>0, <1>1, <1>2, <3>1
  <2> QED
    BY <2>1, <2>2
<1>9. delivered' \in Seq(Messages)
  <2>1. UNCHANGED delivered \/ delivered' = delivered \o response
    BY SessionSteps DEF Login, Receive, Leave, Prompt, Dispatch, PutText, ListEntry, PutEntry,
       Trim, Record, TestEmpty, Get, LoadResponse, SaveResponse, TestResponse, WriteResponse,
       SensorWarns, vars, ghosts
  <2>2. delivered \in Seq(Messages)
    BY DEF SessionInv, Values
  <2>3. delivered \o response \in Seq(Messages)
    BY <1>1, <2>2, ConcatProperties
  <2> QED
    BY <2>1, <2>2, <2>3
<1> QED
  BY <1>3, <1>4, <1>5, <1>6, <1>7, <1>8, <1>9 DEF Values

\* What a step does to the place of the session and to what it has read.
LEMMA Assigned ==
  ASSUME OneSession, Values
  PROVE  /\ \A l : Goto(User, l) => pc'[User] = l
         /\ \A v : cmd' = [cmd EXCEPT ![User] = v] => cmd'[User] = v
         /\ \A v : num' = [num EXCEPT ![User] = v] => num'[User] = v
         /\ \A v : idx' = [idx EXCEPT ![User] = v] => idx'[User] = v
         /\ \A v : held' = [held EXCEPT ![User] = v] => held'[User] = v
         /\ \A v : loaded' = [loaded EXCEPT ![User] = v] => loaded'[User] = v
<1>1. /\ User \in DOMAIN pc /\ User \in DOMAIN cmd /\ User \in DOMAIN num
      /\ User \in DOMAIN idx /\ User \in DOMAIN held /\ User \in DOMAIN loaded
  BY DEF OneSession, Values, Types
<1> QED
  BY <1>1 DEF Goto

\* Every step keeps what the response is.
LEMMA RespondingStep ==
  ASSUME OneSession, SessionInv, [Next]_vars
  PROVE  Responding'
<1>0. /\ \A l : Goto(User, l) => pc'[User] = l
      /\ \A v : loaded' = [loaded EXCEPT ![User] = v] => loaded'[User] = v
  BY Assigned DEF SessionInv
<1>1. Responding /\ Commanding /\ queue \in Seq(Messages)
  BY DEF SessionInv, Values
<1> USE DEF Responding, Answering, shared, locals
<1>2. CASE UNCHANGED vars
  BY <1>1, <1>2 DEF vars
<1>3. CASE SensorWarns
  <2>1. UNCHANGED <<pc, response, loaded>> /\ queue' = Append(queue, NoMessage)
    BY <1>3 DEF SensorWarns, Put
  <2>2. ASSUME \A i \in 1 .. Len(queue) : queue[i] = NoMessage
        PROVE  \A i \in 1 .. Len(queue') : queue'[i] = NoMessage
    <3>1. /\ Len(queue) \in Nat /\ Len(queue') = Len(queue) + 1 /\ queue'[Len(queue) + 1] = NoMessage
          /\ \A i \in 1 .. Len(queue) : queue'[i] = queue[i]
      BY <1>1, <2>1
    <3> QED
      BY <2>2, <3>1
  <2> QED
    BY <1>1, <2>1, <2>2
<1>4. CASE Login(User) \/ Leave(User) \/ WriteResponse(User)
  <2>1. pc'[User] \in {"prompt", "closed"}
    BY <1>0, <1>4 DEF Login, Leave, WriteResponse
  <2> QED
    BY <2>1
<1>5. CASE Prompt(User)
  <2>1. pc'[User] = "read" /\ response' = <<>>
    BY <1>0, <1>5 DEF Prompt
  <2> QED
    BY <2>1
<1>6. CASE Receive(User) \/ Dispatch(User) \/ ListEntry(User) \/ PutEntry(User) \/ Trim(User) \/ Record(User)
  <2>1. /\ pc'[User] \in {"dispatch", "trim", "list", "put", "putEntry", "prompt", "append", "drain"}
        /\ pc[User] \in {"read", "dispatch", "list", "putEntry", "trim", "append"}
        /\ response' = response
    BY <1>0, <1>6 DEF Receive, Dispatch, ListEntry, PutEntry, Trim, Record
  <2> QED
    BY <1>1, <2>1
<1>7. CASE PutText(User)
  <2>1. pc'[User] \in {"trim", "drain", "prompt"} /\ pc[User] = "put" /\ response' = response
    <3>1. pc[User] = "put" /\ response' = response
          /\ (\/ cmd[User].kind = "help" /\ Goto(User, "trim")
              \/ cmd[User].kind = "illegal" /\ Goto(User, "drain")
              \/ cmd[User].kind = "raising" /\ Goto(User, "prompt"))
      BY <1>1, <1>7 DEF PutText, Commanding
    <3> QED
      BY <1>0, <3>1
  <2> QED
    BY <1>1, <2>1
<1>8. CASE TestEmpty(User)
  <2>1. (pc'[User] = "reply" /\ queue = <<>> /\ queue' = queue) \/ pc'[User] = "get"
    BY <1>0, <1>8 DEF TestEmpty
  <2>2. queue = <<>> => \A i \in 1 .. Len(queue) : queue[i] = NoMessage
    OBVIOUS
  <2> QED
    BY <2>1, <2>2
<1>9. CASE Get(User) \/ SaveResponse(User)
  <2>1. pc'[User] \in {"load", "drain"}
    BY <1>0, <1>9 DEF Get, SaveResponse
  <2> QED
    BY <2>1
<1>10. CASE LoadResponse(User)
  <2>1. pc'[User] = "save" /\ loaded'[User] = response /\ response' = response
    BY <1>0, <1>10 DEF LoadResponse
  <2> QED
    BY <2>1
<1>11. CASE TestResponse(User)
  <2>1. pc'[User] \in {"prompt", "write"} /\ pc[User] = "reply" /\ queue' = queue
    BY <1>0, <1>11 DEF TestResponse
  <2> QED
    BY <1>1, <2>1
<1> QED
  BY <1>2, <1>3, <1>4, <1>5, <1>6, <1>7, <1>8, <1>9, <1>10, <1>11, SessionSteps

\* Every step keeps the history what was recorded last.
LEMMA RecordingStep ==
  ASSUME OneSession, SessionInv, [Next]_vars
  PROVE  Recording'
<1>0. /\ \A l : Goto(User, l) => pc'[User] = l
      /\ \A v : num' = [num EXCEPT ![User] = v] => num'[User] = v
  BY Assigned DEF SessionInv
<1>1. /\ Recording /\ Commanding /\ Limit \in Nat \ {0} /\ recorded \in Seq(Nat)
      /\ Len(history) \in Nat /\ cmd[User].id \in Nat
  BY SessionValues, ConsoleAssumption DEF SessionInv, Values
<1> USE DEF Recording, shared, locals, ghosts
<1>2. CASE UNCHANGED vars \/ SensorWarns
  <2>1. UNCHANGED <<pc, history, recorded, num>>
    BY <1>2 DEF vars, SensorWarns
  <2> QED
    BY <1>1, <2>1
<1>3. CASE Login(User) \/ Leave(User) \/ WriteResponse(User) \/ Prompt(User) \/ Receive(User)
           \/ TestEmpty(User) \/ Get(User) \/ SaveResponse(User) \/ LoadResponse(User) \/ TestResponse(User)
  <2>1. /\ UNCHANGED <<history, recorded>>
        /\ pc[User] # "append"
        /\ pc'[User] \in {"prompt", "closed", "read", "dispatch", "get", "reply", "load", "save", "drain", "write"}
    BY <1>0, <1>3 DEF Login, Leave, WriteResponse, Prompt, Receive, TestEmpty, Get, SaveResponse,
       LoadResponse, TestResponse
  <2> QED
    BY <1>1, <2>1
<1>4. CASE Dispatch(User)
  <2>1. /\ UNCHANGED <<history, recorded>> /\ num'[User] = Len(history)
        /\ pc[User] = "dispatch" /\ pc'[User] \in {"trim", "list", "put"}
    BY <1>0, <1>4 DEF Dispatch
  <2> QED
    BY <1>1, <2>1
<1>5. CASE PutText(User) \/ ListEntry(User) \/ PutEntry(User)
  <2>1. /\ UNCHANGED <<history, recorded, num>> /\ pc[User] \in {"put", "list", "putEntry"}
        /\ pc'[User] # "append"
    <3>1. UNCHANGED <<history, recorded, num>> /\ pc[User] \in {"put", "list", "putEntry"}
      BY <1>5 DEF PutText, ListEntry, PutEntry
    <3>2. \/ Goto(User, "trim") \/ Goto(User, "drain") \/ Goto(User, "prompt")
          \/ Goto(User, "list") \/ Goto(User, "putEntry")
      <4>1. CASE PutText(User)
        <5>1. cmd[User].kind \in {"help", "illegal", "raising"}
          BY <1>1, <4>1 DEF PutText, Commanding
        <5> QED
          BY <4>1, <5>1 DEF PutText
      <4>2. CASE ListEntry(User) \/ PutEntry(User)
        BY <4>2 DEF ListEntry, PutEntry
      <4> QED
        BY <1>5, <4>1, <4>2
    <3> QED
      BY <1>0, <3>1, <3>2
  <2> QED
    BY <1>1, <2>1
<1>6. CASE Trim(User)
  <2>1. /\ pc[User] = "trim" /\ num[User] = Len(history) /\ history = LastOf(recorded, Limit)
        /\ recorded' = recorded
    BY <1>1, <1>6 DEF Trim
  <2>2. /\ Len(history) < Limit => LastOf(recorded, Limit - 1) = history
        /\ Len(history) >= Limit => history # <<>> /\ LastOf(recorded, Limit - 1) = Tail(history)
    <3>1. 0 \in Nat
      OBVIOUS
    <3>2. /\ Len(LastOf(recorded, Limit)) < Limit
                => LastOf(recorded, Limit - 1) = LastOf(recorded, Limit)
          /\ Len(LastOf(recorded, Limit)) >= Limit
                => /\ LastOf(recorded, Limit) # <<>>
                   /\ LastOf(recorded, Limit - 1) = Tail(LastOf(recorded, Limit))
      BY <1>1, <3>1, LastMoves, Zenon
    <3> QED
      BY <2>1, <3>2
  <2>3. pc'[User] = "append" /\ history' = LastOf(recorded, Limit - 1)
    BY <1>0, <1>1, <1>6, <2>1, <2>2 DEF Trim
  <2> QED
    BY <2>1, <2>3
<1>7. CASE Record(User)
  <2>1. /\ pc[User] = "append" /\ history = LastOf(recorded, Limit - 1)
        /\ history' = Append(history, cmd[User].id) /\ recorded' = Append(recorded, cmd[User].id)
        /\ pc'[User] = "drain"
    BY <1>0, <1>1, <1>7 DEF Record
  <2>2. history' = LastOf(recorded', Limit)
    <3>1. LastOf(Append(recorded, cmd[User].id), Limit)
            = Append(LastOf(recorded, Limit - 1), cmd[User].id)
      BY <1>1, LastMoves, Zenon
    <3> QED
      BY <2>1, <3>1
  <2> QED
    BY <2>1, <2>2
<1> QED
  BY <1>2, <1>3, <1>4, <1>5, <1>6, <1>7, SessionSteps

\* Every step keeps what is known of the command in progress.
LEMMA CommandingStep ==
  ASSUME OneSession, SessionInv, [Next]_vars
  PROVE  Commanding'
<1>0. /\ \A l : Goto(User, l) => pc'[User] = l
      /\ \A v : cmd' = [cmd EXCEPT ![User] = v] => cmd'[User] = v
  BY Assigned DEF SessionInv
<1>1. /\ Commanding /\ cmd[User].kind \in KindSet /\ issued \in Nat /\ cmd[User].id \in Nat
  BY SessionValues DEF SessionInv, Values, Types
<1> USE DEF Commanding, Answering, Idle, shared, locals
<1>2. CASE UNCHANGED vars \/ SensorWarns
  <2>1. UNCHANGED <<pc, cmd>>
    BY <1>2 DEF vars, SensorWarns
  <2> QED
    BY <1>1, <2>1
<1>3. CASE Login(User) \/ Leave(User) \/ WriteResponse(User) \/ Prompt(User)
  <2>1. pc'[User] \in {"prompt", "closed", "read"}
    BY <1>0, <1>3 DEF Login, Leave, WriteResponse, Prompt
  <2> QED
    BY <2>1
<1>4. CASE Receive(User)
  <2>1. /\ pc'[User] = "dispatch"
        /\ \E k \in Kinds : cmd' = [cmd EXCEPT ![User] = [id |-> issued + 1, kind |-> k]]
    BY <1>0, <1>4 DEF Receive
  <2>2. cmd'[User].id = issued + 1
    <3>1. PICK k \in Kinds : cmd' = [cmd EXCEPT ![User] = [id |-> issued + 1, kind |-> k]]
      BY <2>1
    <3>2. cmd'[User] = [id |-> issued + 1, kind |-> k]
      BY <1>0, <3>1, Zenon
    <3> QED
      BY <3>2
  <2>3. cmd'[User].id > 0
    BY <1>1, <2>2
  <2>4. pc'[User] = "dispatch"
    BY <2>1
  <2> QED
    BY <2>3, <2>4
<1>5. CASE Dispatch(User)
  <2>1. cmd' = cmd /\ pc[User] = "dispatch"
    BY <1>5 DEF Dispatch
  <2>2. \/ cmd[User].kind = "quiet" /\ pc'[User] = "trim"
        \/ cmd[User].kind = "history" /\ pc'[User] = "list"
        \/ cmd[User].kind \in {"help", "illegal", "raising"} /\ pc'[User] = "put"
    BY <1>0, <1>1, <1>5 DEF Dispatch, KindSet
  <2> QED
    BY <1>1, <2>1, <2>2
<1>6. CASE PutText(User)
  <2>1. /\ cmd' = cmd /\ pc[User] = "put"
        /\ (\/ cmd[User].kind = "help" /\ Goto(User, "trim")
            \/ cmd[User].kind = "illegal" /\ Goto(User, "drain")
            \/ cmd[User].kind = "raising" /\ Goto(User, "prompt"))
    BY <1>1, <1>6 DEF PutText
  <2> QED
    BY <1>0, <1>1, <2>1
<1>7. CASE ListEntry(User) \/ PutEntry(User)
  <2>1. /\ cmd' = cmd /\ pc[User] \in {"list", "putEntry"}
        /\ (Goto(User, "putEntry") \/ Goto(User, "list") \/ Goto(User, "trim"))
    BY <1>7 DEF ListEntry, PutEntry
  <2> QED
    BY <1>0, <1>1, <2>1
<1>8. CASE Trim(User) \/ Record(User)
  <2>1. /\ cmd' = cmd /\ pc[User] \in {"trim", "append"}
        /\ (Goto(User, "append") \/ Goto(User, "drain") \/ Goto(User, "prompt"))
    BY <1>8 DEF Trim, Record
  <2> QED
    BY <1>0, <1>1, <2>1
<1>9. CASE TestEmpty(User) \/ Get(User) \/ LoadResponse(User) \/ SaveResponse(User) \/ TestResponse(User)
  <2>1. /\ cmd' = cmd /\ pc[User] \in {"drain", "get", "load", "save", "reply"}
        /\ pc'[User] \in {"get", "reply", "load", "save", "drain", "prompt", "write"}
    BY <1>0, <1>9 DEF TestEmpty, Get, LoadResponse, SaveResponse, TestResponse
  <2> QED
    BY <1>1, <2>1
<1> QED
  BY <1>2, <1>3, <1>4, <1>5, <1>6, <1>7, <1>8, <1>9, SessionSteps

\* Every step keeps what is known of the list of "history".
LEMMA ListingStep ==
  ASSUME OneSession, SessionInv, [Next]_vars
  PROVE  Listing'
<1>0. /\ \A l : Goto(User, l) => pc'[User] = l
      /\ \A v : idx' = [idx EXCEPT ![User] = v] => idx'[User] = v
      /\ \A v : held' = [held EXCEPT ![User] = v] => held'[User] = v
  BY Assigned DEF SessionInv
<1>1. /\ Listing /\ Commanding /\ idx[User] \in Nat /\ Listed \in Seq(Nat)
      /\ Len(history) \in Nat /\ Limit \in Nat \ {0} /\ cmd[User].kind \in KindSet
  BY SessionValues, ConsoleAssumption DEF SessionInv
<1>2. pc[User] \in {"list", "putEntry"} => history = Listed
  BY DEF SessionInv, Recording, Listed
<1>3. Len(Listed) <= Limit
  <2>1. PICK l \in Seq(Nat) : l = Listed
    BY <1>1
  <2>2. recorded \in Seq(Nat) /\ Len(recorded) \in Nat
    BY DEF SessionInv, Values
  <2>3. /\ Len(recorded) <= Limit => l = recorded
        /\ Len(recorded) > Limit => Len(l) = Limit
    BY <1>1, <2>1, <2>2, LastPlaces DEF Listed
  <2> QED
    BY <1>1, <2>1, <2>2, <2>3
<1>4. recorded' = recorded => Listed' = Listed
  BY DEF Listed
<1> USE DEF shared, locals, ghosts
<1>5. CASE UNCHANGED vars \/ SensorWarns
  <2>1. UNCHANGED <<pc, cmd, idx, held, recorded>>
    BY <1>5 DEF vars, SensorWarns
  <2> QED
    BY <1>1, <1>4, <2>1 DEF Listing
<1>6. CASE Login(User) \/ Leave(User) \/ WriteResponse(User) \/ Prompt(User) \/ Receive(User)
           \/ TestEmpty(User) \/ Get(User) \/ SaveResponse(User) \/ LoadResponse(User)
           \/ TestResponse(User) \/ Record(User)
  <2>1. pc'[User] \in {"prompt", "closed", "read", "dispatch", "get", "reply", "load", "save", "drain", "write"}
    BY <1>0, <1>6 DEF Login, Leave, WriteResponse, Prompt, Receive, TestEmpty, Get, SaveResponse,
       LoadResponse, TestResponse, Record
  <2> QED
    BY <2>1 DEF Listing
<1>7. CASE Dispatch(User)
  <2>1. /\ idx'[User] = 0 /\ cmd' = cmd /\ recorded' = recorded
        /\ \/ cmd[User].kind = "quiet" /\ pc'[User] = "trim"
           \/ cmd[User].kind = "history" /\ pc'[User] = "list"
           \/ pc'[User] = "put"
    BY <1>0, <1>1, <1>7 DEF Dispatch
  <2> QED
    BY <1>1, <1>4, <2>1 DEF Listing
<1>8. CASE PutText(User)
  <2>1. /\ cmd' = cmd /\ cmd[User].kind # "history"
        /\ pc'[User] \in {"trim", "drain", "prompt"}
    <3>1. /\ cmd' = cmd /\ pc[User] = "put"
          /\ (\/ cmd[User].kind = "help" /\ Goto(User, "trim")
              \/ cmd[User].kind = "illegal" /\ Goto(User, "drain")
              \/ cmd[User].kind = "raising" /\ Goto(User, "prompt"))
      BY <1>1, <1>8 DEF PutText, Commanding
    <3> QED
      BY <1>0, <3>1
  <2> QED
    BY <2>1 DEF Listing
<1>9. CASE ListEntry(User)
  <2>1. pc[User] = "list" /\ history = Listed /\ UNCHANGED <<cmd, idx, recorded>> /\ Listed' = Listed
    BY <1>2, <1>4, <1>9 DEF ListEntry
  <2>2. CASE idx[User] < Limit /\ idx[User] < Len(history)
    <3>1. /\ pc'[User] = "putEntry"
          /\ held' = [held EXCEPT ![User] = [Text(User) EXCEPT !.shows = history[idx[User] + 1]]]
      BY <1>0, <1>9, <2>2 DEF ListEntry
    <3>2. held'[User] = [Text(User) EXCEPT !.shows = history[idx[User] + 1]]
      BY <1>0, <3>1
    <3>3. held'[User] = [of |-> cmd[User].id, shows |-> Listed[idx[User] + 1]]
      BY <2>1, <3>2 DEF Text
    <3> QED
      BY <2>1, <2>2, <3>1, <3>3 DEF Listing
  <2>3. CASE ~(idx[User] < Limit /\ idx[User] < Len(history))
    <3>1. pc'[User] = "trim"
      BY <1>0, <1>9, <2>3 DEF ListEntry
    <3>2. idx[User] = Len(Listed)
      <4>1. PICK n \in Nat : n = Len(Listed)
        BY <1>1, <2>1
      <4>2. idx[User] <= n /\ n <= Limit /\ ~(idx[User] < Limit /\ idx[User] < n)
        BY <1>1, <1>3, <2>1, <2>3, <4>1 DEF Listing
      <4>3. idx[User] = n
        BY <1>1, <4>2
      <4> QED
        BY <4>1, <4>3
    <3> QED
      BY <2>1, <3>1, <3>2 DEF Listing
  <2> QED
    BY <2>2, <2>3
<1>10. CASE PutEntry(User)
  <2>1. /\ pc[User] = "putEntry" /\ pc'[User] = "list" /\ idx'[User] = idx[User] + 1
        /\ recorded' = recorded
    BY <1>0, <1>10 DEF PutEntry
  <2>2. idx[User] + 1 <= Len(Listed)
    BY <1>1, <2>1 DEF Listing
  <2> QED
    BY <1>4, <2>1, <2>2 DEF Listing
<1>11. CASE Trim(User)
  <2>1. /\ pc[User] = "trim" /\ pc'[User] \in {"append", "prompt"}
        /\ UNCHANGED <<cmd, idx, recorded>>
    BY <1>0, <1>11 DEF Trim
  <2> QED
    BY <1>1, <1>4, <2>1 DEF Listing
<1> QED
  BY <1>5, <1>6, <1>7, <1>8, <1>9, <1>10, <1>11, SessionSteps

\* What the variables asked and owed of ConsolePromise are here.
Asked ==
  IF pc[User] \in Idle
    THEN [id |-> 0, kind |-> "quiet", said |-> 0, noted |-> FALSE]
    ELSE [id |-> cmd[User].id, kind |-> cmd[User].kind, said |-> Said,
          noted |-> cmd[User].kind # "illegal" /\ pc[User] \in Answering]

Owed == InFlight(User)

\* The actions of ConsolePromise, of Asked and Owed.
LEMMA PromiseSteps ==
  /\ (UNCHANGED <<issued, Asked, recorded, Owed, delivered>> => UNCHANGED Promise!vars)
  /\ (/\ Asked = Promise!Nothing /\ issued < MaxCommands /\ issued' = issued + 1
      /\ \E k \in Kinds : Asked' = [Promise!Nothing EXCEPT !.id = issued', !.kind = k]
      /\ UNCHANGED <<recorded, Owed, delivered>>)
     => Promise!Ask
  /\ (/\ Asked # Promise!Nothing /\ Asked.kind # "raising" /\ ~Asked.noted
      /\ Asked.said # Len(Promise!Reply) /\ Owed' = Append(Owed, Promise!Reply[Asked.said + 1])
      /\ Asked' = [Asked EXCEPT !.said = @ + 1]
      /\ UNCHANGED <<issued, recorded, delivered>>)
     => Promise!Say
  /\ (/\ Asked.kind = "raising" /\ Owed' = Owed \o Promise!Reply /\ Asked' = Promise!Nothing
      /\ UNCHANGED <<issued, recorded, delivered>>)
     => Promise!Fail
  /\ (/\ Asked # Promise!Nothing /\ Asked.kind \notin {"illegal", "raising"} /\ ~Asked.noted
      /\ Asked.said = Len(Promise!Reply) /\ Asked' = [Asked EXCEPT !.noted = TRUE]
      /\ recorded' = Append(recorded, Asked.id) /\ UNCHANGED <<issued, Owed, delivered>>)
     => Promise!Note
  /\ (/\ Owed' = Append(Owed, Promise!Warning) /\ UNCHANGED <<issued, Asked, recorded, delivered>>)
     => Promise!Warn
BY DEF Promise!vars, Promise!Ask, Promise!Say, Promise!AllSaid, Promise!Fail, Promise!Note,
   Promise!Warn, Asked, Owed

\* The answer of ConsolePromise, for the n messages that it holds.
LEMMA PromiseAnswer ==
  ASSUME Asked.noted \/ (Asked.kind = "illegal" /\ Asked.said = Len(Promise!Reply)),
         NEW n \in 0 .. Len(Owed), \A i \in n + 1 .. Len(Owed) : Owed[i] = Promise!Warning,
         delivered' = delivered \o SubSeq(Owed, 1, n), Owed' = SubSeq(Owed, n + 1, Len(Owed)),
         Asked' = Promise!Nothing, UNCHANGED <<issued, recorded>>
  PROVE  Promise!Answer
BY DEF Promise!Answer, Promise!AllSaid, Asked, Owed

AskedBy ==
  /\ pc[User] \in Idle => Asked = Promise!Nothing
  /\ pc[User] \notin Idle =>
       /\ Asked = [id |-> cmd[User].id, kind |-> cmd[User].kind, said |-> Said,
                   noted |-> cmd[User].kind # "illegal" /\ pc[User] \in Answering]
       /\ Asked.id = cmd[User].id /\ Asked.kind = cmd[User].kind /\ Asked.said = Said
       /\ Asked.noted = (cmd[User].kind # "illegal" /\ pc[User] \in Answering)
       /\ cmd[User].id > 0 => Asked # Promise!Nothing

OwedBy ==
  /\ pc[User] \in {"closed", "prompt"} => Owed = <<>> \o <<>> \o queue
  /\ pc[User] \in {"load", "save"} => Owed = response \o <<held[User]>> \o queue
  /\ pc[User] \notin {"closed", "prompt", "load", "save"} => Owed = response \o <<>> \o queue

\* The command in progress, by the place of the session.
LEMMA AskedIs == AskedBy /\ AskedBy'
<1>1. pc[User] \in Idle => Asked = Promise!Nothing
  BY DEF Asked, Promise!Nothing
<1>2. ASSUME pc[User] \notin Idle
      PROVE  Asked = [id |-> cmd[User].id, kind |-> cmd[User].kind, said |-> Said,
                      noted |-> cmd[User].kind # "illegal" /\ pc[User] \in Answering]
  BY <1>2, Zenon DEF Asked
<1>3. ASSUME pc[User] \notin Idle
      PROVE  /\ Asked.id = cmd[User].id /\ Asked.kind = cmd[User].kind /\ Asked.said = Said
             /\ Asked.noted = (cmd[User].kind # "illegal" /\ pc[User] \in Answering)
  <2> DEFINE noted == cmd[User].kind # "illegal" /\ pc[User] \in Answering
  <2>1. PICK b : b = noted
    OBVIOUS
  <2>2. Asked = [id |-> cmd[User].id, kind |-> cmd[User].kind, said |-> Said, noted |-> b]
    BY <1>2, <1>3, <2>1
  <2> QED
    BY <2>1, <2>2
<1>4. ASSUME pc[User] \notin Idle, cmd[User].id > 0
      PROVE  Asked # Promise!Nothing
  <2>1. Promise!Nothing.id = 0
    BY DEF Promise!Nothing
  <2>2. Asked.id = cmd[User].id
    BY <1>3, <1>4
  <2>3. cmd[User].id # 0
    BY <1>4
  <2> QED
    BY <2>1, <2>2, <2>3
<1>5. AskedBy
  BY <1>1, <1>2, <1>3, <1>4 DEF AskedBy
<1> QED
  BY <1>5, PTL

\* What is owed, by the place of the session.
LEMMA OwedIs == OwedBy /\ OwedBy'
<1>1. OwedBy
  BY DEF OwedBy, Owed, InFlight
<1> QED
  BY <1>1, PTL

\* What the command in progress has to say.
LEMMA ReplyIs ==
  ASSUME OneSession, SessionInv, pc[User] \notin Idle
  PROVE  /\ cmd[User].kind = "quiet" => Promise!Reply = <<>>
         /\ cmd[User].kind = "history" =>
              /\ Len(Promise!Reply) = Len(Listed)
              /\ \A i \in 1 .. Len(Listed) :
                   Promise!Reply[i] = [of |-> cmd[User].id, shows |-> Listed[i]]
         /\ cmd[User].kind \notin {"quiet", "history"} =>
              /\ Promise!Reply = <<[of |-> cmd[User].id, shows |-> 0]>>
              /\ Len(Promise!Reply) = 1
              /\ Promise!Reply[1] = [of |-> cmd[User].id, shows |-> 0]
<1>1. Asked.kind = cmd[User].kind /\ Asked.id = cmd[User].id
  BY AskedIs DEF AskedBy
<1>2. Promise!LastOf(recorded, Limit) = Listed
  BY DEF Promise!LastOf, LastOf, Listed
<1>3. Promise!Reply =
        CASE Asked.kind = "quiet"   -> <<>>
          [] Asked.kind = "history" -> [i \in 1 .. Len(Listed) |-> [of |-> Asked.id, shows |-> Listed[i]]]
          [] OTHER                  -> <<[of |-> Asked.id, shows |-> 0]>>
  BY <1>2 DEF Promise!Reply, Asked
<1>4. cmd[User].kind = "quiet" => Promise!Reply = <<>>
  BY <1>1, <1>3
<1>5. ASSUME cmd[User].kind = "history"
      PROVE  /\ Len(Promise!Reply) = Len(Listed)
             /\ \A i \in 1 .. Len(Listed) :
                  Promise!Reply[i] = [of |-> cmd[User].id, shows |-> Listed[i]]
  <2>1. Promise!Reply = [i \in 1 .. Len(Listed) |-> [of |-> cmd[User].id, shows |-> Listed[i]]]
    BY <1>1, <1>3, <1>5
  <2>2. Len(Listed) \in Nat
    BY SessionValues DEF SessionInv
  <2> QED
    BY <2>1, <2>2
<1>6. ASSUME cmd[User].kind \notin {"quiet", "history"}
      PROVE  /\ Promise!Reply = <<[of |-> cmd[User].id, shows |-> 0]>>
             /\ Len(Promise!Reply) = 1
             /\ Promise!Reply[1] = [of |-> cmd[User].id, shows |-> 0]
  <2>1. Promise!Reply = <<[of |-> cmd[User].id, shows |-> 0]>>
    BY <1>1, <1>3, <1>6
  <2> QED
    BY <2>1
<1> QED
  BY <1>4, <1>5, <1>6

\* The command in progress is the same when its kind and number are, and what it
\* has said and whether it is noted.
LEMMA AskedSame ==
  ASSUME pc[User] \notin Idle, pc'[User] \notin Idle, UNCHANGED cmd, Said' = Said,
         (pc'[User] \in Answering) = (pc[User] \in Answering)
  PROVE  UNCHANGED Asked
<1>1. Asked = [id |-> cmd[User].id, kind |-> cmd[User].kind, said |-> Said,
               noted |-> cmd[User].kind # "illegal" /\ pc[User] \in Answering]
  BY AskedIs DEF AskedBy
<1>2. Asked' = [id |-> cmd'[User].id, kind |-> cmd'[User].kind, said |-> Said',
                noted |-> cmd'[User].kind # "illegal" /\ pc'[User] \in Answering]
  BY AskedIs DEF AskedBy
<1> QED
  BY <1>1, <1>2, Zenon

\* A step between two commands, or at their ends, is no step of ConsolePromise.
LEMMA IdleSteps ==
  ASSUME OneSession, SessionInv,
         UNCHANGED vars \/ Login(User) \/ Prompt(User) \/ Leave(User)
  PROVE  UNCHANGED Promise!vars
<1>0. \A l : Goto(User, l) => pc'[User] = l
  BY Assigned DEF SessionInv
<1>1. Responding /\ queue \in Seq(Messages)
  BY DEF SessionInv, Values
<1> USE DEF shared, locals, ghosts, bounds
<1>2. CASE UNCHANGED vars
  BY <1>2 DEF vars, Promise!vars, InFlight, Said
<1>3. CASE Login(User) \/ Prompt(User) \/ Leave(User)
  <2>1. UNCHANGED <<issued, recorded, delivered, queue>>
    BY <1>3 DEF Login, Prompt, Leave
  <2>2. pc[User] \in Idle /\ pc'[User] \in Idle
    BY <1>0, <1>3 DEF Login, Prompt, Leave, Idle
  <2>3. UNCHANGED Asked
    BY <2>2, AskedIs DEF AskedBy
  <2>4. Owed = <<>> \o <<>> \o queue
    <3>1. pc[User] = "read" => response = <<>>
      BY <1>1 DEF Responding, Answering
    <3>2. pc[User] \in {"closed", "prompt"} \/ pc[User] = "read"
      BY <2>2 DEF Idle
    <3> QED
      BY <3>1, <3>2, OwedIs DEF OwedBy
  <2>5. Owed' = <<>> \o <<>> \o queue'
    <3>1. pc'[User] \in {"closed", "prompt"} \/ (pc'[User] = "read" /\ response' = <<>>)
      BY <1>0, <1>3 DEF Login, Prompt, Leave
    <3> QED
      BY <3>1, OwedIs DEF OwedBy
  <2> QED
    BY <2>1, <2>3, <2>4, <2>5, PromiseSteps
<1> QED
  BY <1>2, <1>3

\* So are the steps that prepare a message, make room in the history or move a
\* message from the queue to the response.
LEMMA InnerSteps ==
  ASSUME OneSession, SessionInv,
         \/ Dispatch(User) \/ ListEntry(User) \/ Trim(User) \/ TestEmpty(User) \/ Get(User)
         \/ LoadResponse(User) \/ SaveResponse(User)
  PROVE  UNCHANGED Promise!vars
<1>0. /\ \A l : Goto(User, l) => pc'[User] = l
      /\ \A v : idx' = [idx EXCEPT ![User] = v] => idx'[User] = v
      /\ \A v : held' = [held EXCEPT ![User] = v] => held'[User] = v
  BY Assigned DEF SessionInv
<1>1. /\ Responding /\ Recording /\ Commanding /\ queue \in Seq(Messages)
      /\ response \in Seq(Messages) /\ held[User] \in Messages
      /\ cmd[User].kind \in KindSet /\ num[User] \in Nat /\ history \in Seq(Nat)
  BY SessionValues DEF SessionInv, Values, Types
<1> USE DEF shared, locals, ghosts, bounds
<1>2. UNCHANGED <<issued, recorded, delivered, cmd>>
  BY DEF Dispatch, ListEntry, Trim, TestEmpty, Get, LoadResponse, SaveResponse
<1>3. CASE Dispatch(User)
  <2>1. /\ pc[User] = "dispatch" /\ UNCHANGED <<response, queue>> /\ idx'[User] = 0
        /\ \/ cmd[User].kind = "quiet" /\ pc'[User] = "trim"
           \/ cmd[User].kind = "history" /\ pc'[User] = "list"
           \/ pc'[User] = "put"
    BY <1>0, <1>1, <1>3 DEF Dispatch
  <2>2. Said = 0 /\ Said' = 0
    BY <1>2, <2>1 DEF Said
  <2>3. UNCHANGED Asked
    BY <1>2, <2>1, <2>2, AskedSame DEF Idle, Answering
  <2>4. UNCHANGED Owed
    <3>1. Owed = response \o <<>> \o queue
      BY <2>1, OwedIs DEF OwedBy
    <3>2. Owed' = response' \o <<>> \o queue'
      BY <2>1, OwedIs DEF OwedBy
    <3> QED
      BY <2>1, <3>1, <3>2
  <2> QED
    BY <1>2, <2>3, <2>4, PromiseSteps
<1>4. CASE ListEntry(User)
  <2>1. /\ pc[User] = "list" /\ UNCHANGED <<response, queue, idx>>
        /\ pc'[User] \in {"trim", "putEntry"} /\ cmd[User].kind = "history"
    BY <1>0, <1>1, <1>4 DEF ListEntry, Commanding
  <2>2. Said = idx[User] /\ Said' = idx[User]
    BY <1>2, <2>1 DEF Said
  <2>3. UNCHANGED Asked
    BY <1>2, <2>1, <2>2, AskedSame DEF Idle, Answering
  <2>4. UNCHANGED Owed
    <3>1. Owed = response \o <<>> \o queue
      BY <2>1, OwedIs DEF OwedBy
    <3>2. Owed' = response' \o <<>> \o queue'
      BY <2>1, OwedIs DEF OwedBy
    <3> QED
      BY <2>1, <3>1, <3>2
  <2> QED
    BY <1>2, <2>3, <2>4, PromiseSteps
<1>5. CASE Trim(User)
  <2>1. pc[User] = "trim" /\ pc'[User] = "append" /\ UNCHANGED <<response, queue, idx>>
    <3>1. pc[User] = "trim" /\ num[User] = Len(history) /\ UNCHANGED <<response, queue, idx>>
      BY <1>1, <1>5 DEF Trim, Recording
    <3>2. ~(num[User] >= Limit /\ history = <<>>)
      BY <1>1, <3>1, ConsoleAssumption
    <3> QED
      BY <1>0, <1>5, <3>1, <3>2 DEF Trim
  <2>2. Said' = Said
    BY <1>2, <2>1 DEF Said
  <2>3. UNCHANGED Asked
    BY <1>2, <2>1, <2>2, AskedSame DEF Idle, Answering
  <2>4. UNCHANGED Owed
    <3>1. Owed = response \o <<>> \o queue
      BY <2>1, OwedIs DEF OwedBy
    <3>2. Owed' = response' \o <<>> \o queue'
      BY <2>1, OwedIs DEF OwedBy
    <3> QED
      BY <2>1, <3>1, <3>2
  <2> QED
    BY <1>2, <2>3, <2>4, PromiseSteps
<1>6. CASE TestEmpty(User) \/ Get(User) \/ LoadResponse(User) \/ SaveResponse(User)
  <2>1. /\ pc[User] \in {"drain", "get", "load", "save"} /\ UNCHANGED idx
        /\ pc'[User] \in {"reply", "get", "load", "save", "drain"}
    BY <1>0, <1>6 DEF TestEmpty, Get, LoadResponse, SaveResponse
  <2>2. Said' = Said
    BY <1>2, <2>1 DEF Said
  <2>3. UNCHANGED Asked
    BY <1>2, <2>1, <2>2, AskedSame DEF Idle, Answering
  <2>4. UNCHANGED Owed
    <3>1. CASE TestEmpty(User)
      <4>1. UNCHANGED <<response, queue>> /\ pc[User] = "drain" /\ pc'[User] \in {"reply", "get"}
        BY <1>0, <3>1 DEF TestEmpty
      <4>2. Owed = response \o <<>> \o queue
        BY <4>1, OwedIs DEF OwedBy
      <4>3. Owed' = response' \o <<>> \o queue'
        BY <4>1, OwedIs DEF OwedBy
      <4> QED
        BY <4>1, <4>2, <4>3
    <3>2. CASE Get(User)
      <4>1. /\ UNCHANGED response /\ queue # <<>> /\ queue' = Tail(queue) /\ held'[User] = Head(queue)
            /\ pc[User] = "get" /\ pc'[User] = "load"
        BY <1>0, <3>2 DEF Get
      <4>2. Owed = response \o <<>> \o queue
        BY <4>1, OwedIs DEF OwedBy
      <4>3. Owed' = response' \o <<held'[User]>> \o queue'
        BY <4>1, OwedIs DEF OwedBy
      <4>4. response \o <<>> \o queue = response \o <<Head(queue)>> \o Tail(queue)
        BY <1>1, <4>1, Together
      <4> QED
        BY <4>1, <4>2, <4>3, <4>4
    <3>3. CASE LoadResponse(User)
      <4>1. UNCHANGED <<response, queue, held>> /\ pc[User] = "load" /\ pc'[User] = "save"
        BY <1>0, <3>3 DEF LoadResponse
      <4>2. Owed = response \o <<held[User]>> \o queue
        BY <4>1, OwedIs DEF OwedBy
      <4>3. Owed' = response' \o <<held'[User]>> \o queue'
        BY <4>1, OwedIs DEF OwedBy
      <4> QED
        BY <4>1, <4>2, <4>3
    <3>4. CASE SaveResponse(User)
      <4>1. /\ response' = Append(response, held[User]) /\ UNCHANGED queue
            /\ pc[User] = "save" /\ pc'[User] = "drain"
        BY <1>0, <1>1, <3>4 DEF SaveResponse, Responding
      <4>2. Owed = response \o <<held[User]>> \o queue
        BY <4>1, OwedIs DEF OwedBy
      <4>3. Owed' = response' \o <<>> \o queue'
        BY <4>1, OwedIs DEF OwedBy
      <4>4. response \o <<held[User]>> \o queue = Append(response, held[User]) \o <<>> \o queue
        BY <1>1, Together
      <4> QED
        BY <4>1, <4>2, <4>3, <4>4
    <3> QED
      BY <1>6, <3>1, <3>2, <3>3, <3>4
  <2> QED
    BY <1>2, <2>3, <2>4, PromiseSteps
<1> QED
  BY <1>3, <1>4, <1>5, <1>6

\* A warning of a sensor is owed as soon as it is put.
LEMMA WarnStep ==
  ASSUME OneSession, SessionInv, SensorWarns
  PROVE  Promise!Warn
<1>1. /\ UNCHANGED <<response, history, pc, cmd, idx, held, issued, delivered, recorded>>
      /\ queue' = Append(queue, NoMessage)
  BY DEF SensorWarns, Put, locals
<1>2. /\ queue \in Seq(Messages) /\ response \in Seq(Messages) /\ held[User] \in Messages
      /\ NoMessage \in Messages /\ <<>> \in Seq(Messages)
  BY SessionValues DEF SessionInv, Values, NoMessage, Messages
<1>3. UNCHANGED Asked
  BY <1>1 DEF Asked, Said
<1>4. Owed' = Append(Owed, NoMessage)
  <2>1. CASE pc[User] \in {"closed", "prompt"}
    <3>1. Owed = <<>> \o <<>> \o queue /\ Owed' = <<>> \o <<>> \o queue'
      BY <1>1, <2>1, OwedIs DEF OwedBy
    <3>2. <<>> \o <<>> \o Append(queue, NoMessage) = Append(<<>> \o <<>> \o queue, NoMessage)
      BY <1>2, Together
    <3> QED
      BY <1>1, <3>1, <3>2
  <2>2. CASE pc[User] \in {"load", "save"}
    <3>1. /\ Owed = response \o <<held[User]>> \o queue
          /\ Owed' = response' \o <<held'[User]>> \o queue'
      BY <1>1, <2>2, OwedIs DEF OwedBy
    <3>2. response \o <<held[User]>> \o Append(queue, NoMessage)
            = Append(response \o <<held[User]>> \o queue, NoMessage)
      BY <1>2, Together
    <3> QED
      BY <1>1, <3>1, <3>2
  <2>3. CASE pc[User] \notin {"closed", "prompt", "load", "save"}
    <3>1. Owed = response \o <<>> \o queue /\ Owed' = response' \o <<>> \o queue'
      BY <1>1, <2>3, OwedIs DEF OwedBy
    <3>2. response \o <<>> \o Append(queue, NoMessage) = Append(response \o <<>> \o queue, NoMessage)
      BY <1>2, Together
    <3> QED
      BY <1>1, <3>1, <3>2
  <2> QED
    BY <2>1, <2>2, <2>3
<1>5. NoMessage = Promise!Warning
  BY DEF NoMessage, Promise!Warning
<1> QED
  BY <1>1, <1>3, <1>4, <1>5, PromiseSteps

\* A command that is read is asked.
LEMMA AskStep ==
  ASSUME OneSession, SessionInv, Receive(User)
  PROVE  Promise!Ask
<1>0. /\ \A l : Goto(User, l) => pc'[User] = l
      /\ \A v : cmd' = [cmd EXCEPT ![User] = v] => cmd'[User] = v
  BY Assigned DEF SessionInv
<1>1. /\ pc[User] = "read" /\ pc'[User] = "dispatch" /\ issued < MaxCommands
      /\ issued' = issued + 1 /\ UNCHANGED <<response, queue, delivered, recorded>>
      /\ \E k \in Kinds : cmd' = [cmd EXCEPT ![User] = [id |-> issued', kind |-> k]]
  BY <1>0 DEF Receive, shared, ghosts
<1>2. UNCHANGED Owed
  <2>1. Owed = response \o <<>> \o queue
    BY <1>1, OwedIs DEF OwedBy
  <2>2. Owed' = response' \o <<>> \o queue'
    BY <1>1, OwedIs DEF OwedBy
  <2> QED
    BY <1>1, <2>1, <2>2
<1>3. Asked = Promise!Nothing
  BY <1>1, AskedIs DEF AskedBy, Idle
<1>4. \E k \in Kinds : Asked' = [Promise!Nothing EXCEPT !.id = issued', !.kind = k]
  <2>1. PICK k \in Kinds : cmd' = [cmd EXCEPT ![User] = [id |-> issued', kind |-> k]]
    BY <1>1
  <2>2. cmd'[User] = [id |-> issued', kind |-> k]
    BY <1>0, <2>1, Zenon
  <2>3. cmd'[User].id = issued' /\ cmd'[User].kind = k
    BY <2>2
  <2>4. Asked' = [id |-> cmd'[User].id, kind |-> cmd'[User].kind, said |-> Said',
                  noted |-> cmd'[User].kind # "illegal" /\ pc'[User] \in Answering]
    BY <1>1, AskedIs DEF AskedBy, Idle
  <2>5. Said' = 0
    BY <1>1 DEF Said
  <2>6. (cmd'[User].kind # "illegal" /\ pc'[User] \in Answering) = FALSE
    BY <1>1 DEF Answering
  <2>7. Asked' = [id |-> issued', kind |-> k, said |-> 0, noted |-> FALSE]
    BY <2>3, <2>4, <2>5, <2>6
  <2>8. Asked' = [Promise!Nothing EXCEPT !.id = issued', !.kind = k]
    <3>1. PICK r : r = Promise!Nothing
      OBVIOUS
    <3>2. r = [id |-> 0, kind |-> "quiet", said |-> 0, noted |-> FALSE]
      BY <3>1 DEF Promise!Nothing
    <3>3. PICK q : q = [r EXCEPT !.id = issued', !.kind = k]
      OBVIOUS
    <3>4. q = [id |-> issued', kind |-> k, said |-> 0, noted |-> FALSE]
      BY <3>2, <3>3
    <3> QED
      BY <2>7, <3>1, <3>3, <3>4, Zenon
  <2> QED
    BY <2>8
<1> QED
  BY <1>1, <1>2, <1>3, <1>4, PromiseSteps

\* A message that is put says the next part of the reply.
LEMMA SayStep ==
  ASSUME OneSession, SessionInv, pc[User] \in {"put", "putEntry"}, pc'[User] \notin Idle,
         cmd[User].kind \in {"help", "illegal", "history"},
         cmd[User].kind # "illegal" => pc'[User] \notin Answering,
         UNCHANGED <<cmd, response, issued, recorded, delivered>>,
         pc'[User] \notin {"load", "save"},
         Said \in Nat, Said' = Said + 1, Said # Len(Promise!Reply),
         Promise!Reply[Said + 1] \in Messages, Put(Promise!Reply[Said + 1])
  PROVE  Promise!Say
<1>1. /\ queue \in Seq(Messages) /\ response \in Seq(Messages) /\ cmd[User].id > 0
  BY DEF SessionInv, Values, Commanding, Idle
<1>2. pc[User] \notin Idle /\ pc[User] \notin Answering
  BY DEF Idle, Answering
<1>3. /\ Asked # Promise!Nothing /\ Asked.kind = cmd[User].kind /\ Asked.said = Said /\ ~Asked.noted
      /\ Asked = [id |-> cmd[User].id, kind |-> cmd[User].kind, said |-> Said, noted |-> FALSE]
  <2>1. (cmd[User].kind # "illegal" /\ pc[User] \in Answering) = FALSE
    BY <1>2
  <2> QED
    BY <1>1, <1>2, <2>1, AskedIs, Zenon DEF AskedBy
<1>4. Asked' = [Asked EXCEPT !.said = @ + 1]
  <2>1. (cmd'[User].kind # "illegal" /\ pc'[User] \in Answering) = FALSE
    OBVIOUS
  <2>2. Asked' = [id |-> cmd'[User].id, kind |-> cmd'[User].kind, said |-> Said', noted |-> FALSE]
    BY <2>1, AskedIs, Zenon DEF AskedBy
  <2>3. cmd' = cmd /\ Said' = Said + 1
    OBVIOUS
  <2>4. PICK r : r = Asked
    OBVIOUS
  <2>5. PICK q : q = [r EXCEPT !.said = @ + 1]
    OBVIOUS
  <2>6. q = [id |-> cmd[User].id, kind |-> cmd[User].kind, said |-> Said + 1, noted |-> FALSE]
    <3>1. PICK f : f = FALSE
      OBVIOUS
    <3>2. r = [id |-> cmd[User].id, kind |-> cmd[User].kind, said |-> Said, noted |-> f]
      BY <1>3, <2>4, <3>1
    <3>3. q = [id |-> cmd[User].id, kind |-> cmd[User].kind, said |-> Said + 1, noted |-> f]
      BY <2>5, <3>2
    <3> QED
      BY <3>1, <3>3
  <2>7. Asked' = q
    BY <2>2, <2>3, <2>6
  <2> QED
    BY <2>4, <2>5, <2>7, Zenon
<1>5. Owed' = Append(Owed, Promise!Reply[Said + 1])
  <2>1. Owed = response \o <<>> \o queue
    BY OwedIs DEF OwedBy
  <2>2. Owed' = response' \o <<>> \o queue'
    <3>1. pc'[User] \notin {"closed", "prompt", "load", "save"}
      BY DEF Idle
    <3> QED
      BY <3>1, OwedIs DEF OwedBy
  <2>3. queue' = Append(queue, Promise!Reply[Said + 1])
    BY DEF Put
  <2>4. response \o <<>> \o Append(queue, Promise!Reply[Said + 1])
          = Append(response \o <<>> \o queue, Promise!Reply[Said + 1])
    BY <1>1, Together
  <2> QED
    BY <2>1, <2>2, <2>3, <2>4
<1>6. Asked.kind # "raising"
  BY <1>3
<1> QED
  BY <1>3, <1>4, <1>5, <1>6, PromiseSteps, Zenon

\* The text of a command is what it has to say; one that raises says it and fails.
LEMMA PutTextStep ==
  ASSUME OneSession, SessionInv, PutText(User)
  PROVE  Promise!Say \/ Promise!Fail
<1>0. \A l : Goto(User, l) => pc'[User] = l
  BY Assigned DEF SessionInv
<1>1. /\ queue \in Seq(Messages) /\ response \in Seq(Messages) /\ Responding /\ Commanding
      /\ cmd[User].id \in Nat
  BY SessionValues DEF SessionInv, Values
<1>2. /\ pc[User] = "put" /\ Put(Text(User))
      /\ UNCHANGED <<cmd, idx, response, issued, recorded, delivered>>
  BY DEF PutText, locals, bounds
<1>3. pc[User] \notin Idle /\ cmd[User].kind \notin {"quiet", "history"}
  BY <1>1, <1>2 DEF Idle, Commanding
<1>4. /\ Len(Promise!Reply) = 1 /\ Promise!Reply = <<Text(User)>> /\ Promise!Reply[1] = Text(User)
      /\ Text(User) \in Messages
  BY <1>1, <1>3, ReplyIs DEF Text, Messages
<1>5. \/ cmd[User].kind = "help" /\ pc'[User] = "trim"
      \/ cmd[User].kind = "illegal" /\ pc'[User] = "drain"
      \/ cmd[User].kind = "raising" /\ pc'[User] = "prompt"
  <2>1. \/ cmd[User].kind = "help" /\ Goto(User, "trim")
        \/ cmd[User].kind = "illegal" /\ Goto(User, "drain")
        \/ cmd[User].kind = "raising" /\ Goto(User, "prompt")
    BY <1>1, <1>2 DEF PutText, Commanding
  <2> QED
    BY <1>0, <2>1
<1>6. CASE cmd[User].kind \in {"help", "illegal"}
  <2>1. Said = 0 /\ Said' = 1
    BY <1>2, <1>5, <1>6 DEF Said
  <2>2. /\ pc'[User] \notin Idle /\ pc'[User] \notin {"load", "save"}
        /\ cmd[User].kind # "illegal" => pc'[User] \notin Answering
    BY <1>5, <1>6 DEF Idle, Answering
  <2>3. /\ Said + 1 = 1 /\ Said \in Nat /\ Said # Len(Promise!Reply)
        /\ Promise!Reply[Said + 1] = Text(User)
    BY <1>4, <2>1
  <2> QED
    BY <1>2, <1>4, <1>6, <2>1, <2>2, <2>3, SayStep
<1>7. CASE cmd[User].kind = "raising"
  <2>1. pc'[User] = "prompt" /\ response = <<>>
    BY <1>1, <1>2, <1>5, <1>7 DEF Responding, Answering
  <2>2. Asked.kind = "raising" /\ Asked' = Promise!Nothing
    BY <1>3, <1>7, <2>1, AskedIs DEF AskedBy, Idle
  <2>3. Owed' = Owed \o Promise!Reply
    <3>1. Owed = <<>> \o <<>> \o queue
      BY <1>2, <2>1, OwedIs DEF OwedBy
    <3>2. Owed' = <<>> \o <<>> \o queue'
      BY <2>1, OwedIs DEF OwedBy
    <3>3. /\ <<>> \o <<>> \o queue = queue
          /\ queue \o <<Text(User)>> = Append(queue, Text(User))
          /\ <<>> \o <<>> \o Append(queue, Text(User)) = Append(<<>> \o <<>> \o queue, Text(User))
      <4>1. <<>> \in Seq(Messages)
        OBVIOUS
      <4> QED
        BY <1>1, <1>4, <4>1, Together
    <3>4. queue' = Append(queue, Text(User))
      BY <1>2 DEF Put
    <3> QED
      BY <1>4, <3>1, <3>2, <3>3, <3>4
  <2> QED
    BY <1>2, <2>2, <2>3, PromiseSteps
<1> QED
  BY <1>5, <1>6, <1>7

\* An entry of the history is the next message of its list.
LEMMA PutEntryStep ==
  ASSUME OneSession, SessionInv, PutEntry(User)
  PROVE  Promise!Say
<1>0. /\ \A l : Goto(User, l) => pc'[User] = l
      /\ \A v : idx' = [idx EXCEPT ![User] = v] => idx'[User] = v
  BY Assigned DEF SessionInv
<1>1. /\ Listing /\ Commanding /\ idx[User] \in Nat /\ held[User] \in Messages
      /\ Listed \in Seq(Nat) /\ Len(Listed) \in Nat
  BY SessionValues DEF SessionInv
<1>2. /\ pc[User] = "putEntry" /\ pc'[User] = "list" /\ Put(held[User])
      /\ idx'[User] = idx[User] + 1 /\ cmd[User].kind = "history"
      /\ UNCHANGED <<cmd, response, issued, recorded, delivered>>
  BY <1>0, <1>1 DEF PutEntry, bounds, Commanding
<1>3. /\ idx[User] < Len(Listed)
      /\ held[User] = [of |-> cmd[User].id, shows |-> Listed[idx[User] + 1]]
  BY <1>1, <1>2 DEF Listing
<1>4. Said = idx[User] /\ Said' = idx[User] + 1
  BY <1>2 DEF Said
<1>5. /\ Len(Promise!Reply) = Len(Listed)
      /\ \A i \in 1 .. Len(Listed) : Promise!Reply[i] = [of |-> cmd[User].id, shows |-> Listed[i]]
  <2>1. pc[User] \notin Idle
    BY <1>2 DEF Idle
  <2> QED
    BY <1>2, <2>1, ReplyIs
<1>6. Promise!Reply[Said + 1] = held[User] /\ Said # Len(Promise!Reply)
  <2>1. PICK n \in Nat : n = Len(Listed)
    BY <1>1
  <2>2. idx[User] + 1 \in 1 .. n /\ idx[User] # n
    BY <1>1, <1>3, <2>1
  <2>3. Promise!Reply[idx[User] + 1] = held[User]
    BY <1>3, <1>5, <2>1, <2>2
  <2> QED
    BY <1>4, <1>5, <2>1, <2>2, <2>3
<1>7. pc'[User] \notin Idle /\ pc'[User] \notin Answering /\ pc'[User] \notin {"load", "save"}
  BY <1>2 DEF Idle, Answering
<1>8. Said \in Nat /\ Said' = Said + 1
  BY <1>1, <1>4
<1> QED
  BY <1>1, <1>2, <1>6, <1>7, <1>8, SayStep

\* A command is recorded when all that it has to say was said.
LEMMA NoteStep ==
  ASSUME OneSession, SessionInv, Record(User)
  PROVE  Promise!Note
<1>0. \A l : Goto(User, l) => pc'[User] = l
  BY Assigned DEF SessionInv
<1>1. /\ queue \in Seq(Messages) /\ response \in Seq(Messages) /\ Listing /\ Commanding
  BY DEF SessionInv, Values
<1>2. /\ pc[User] = "append" /\ pc'[User] = "drain" /\ recorded' = Append(recorded, cmd[User].id)
      /\ UNCHANGED <<cmd, idx, queue, response, issued, delivered>>
  BY <1>0 DEF Record, locals, bounds
<1>3. pc[User] \notin Idle /\ pc[User] \notin Answering /\ pc'[User] \notin Idle /\ pc'[User] \in Answering
  BY <1>2 DEF Idle, Answering
<1>4. cmd[User].kind \in {"quiet", "help", "history"} /\ cmd[User].id > 0
  BY <1>1, <1>2, <1>3 DEF Commanding
<1>5. Said = Len(Promise!Reply) /\ Said' = Said
  <2>1. CASE cmd[User].kind = "quiet"
    <3>1. Said = 0 /\ Said' = 0
      BY <1>2, <2>1 DEF Said
    <3>2. Len(<<>>) = 0
      OBVIOUS
    <3>3. Promise!Reply = <<>>
      BY <1>3, <2>1, ReplyIs
    <3> QED
      BY <3>1, <3>2, <3>3
  <2>2. CASE cmd[User].kind = "help"
    <3>1. Said = 1 /\ Said' = 1
      BY <1>2, <2>2 DEF Said
    <3>2. Len(Promise!Reply) = 1
      BY <1>3, <2>2, ReplyIs
    <3> QED
      BY <3>1, <3>2
  <2>3. CASE cmd[User].kind = "history"
    <3>1. Said = idx[User] /\ Said' = idx[User]
      BY <1>2, <2>3 DEF Said
    <3>2. Len(Promise!Reply) = Len(Listed)
      BY <1>3, <2>3, ReplyIs
    <3>3. idx[User] = Len(Listed)
      BY <1>1, <1>2, <2>3 DEF Listing
    <3> QED
      BY <3>1, <3>2, <3>3
  <2> QED
    BY <1>4, <2>1, <2>2, <2>3
<1>6. /\ Asked # Promise!Nothing /\ Asked.id = cmd[User].id /\ Asked.kind = cmd[User].kind
      /\ Asked.said = Said /\ ~Asked.noted
      /\ Asked = [id |-> cmd[User].id, kind |-> cmd[User].kind, said |-> Said, noted |-> FALSE]
  <2>1. (cmd[User].kind # "illegal" /\ pc[User] \in Answering) = FALSE
    BY <1>3
  <2> QED
    BY <1>3, <1>4, <2>1, AskedIs, Zenon DEF AskedBy
<1>7. Asked' = [Asked EXCEPT !.noted = TRUE]
  <2>1. (cmd'[User].kind # "illegal" /\ pc'[User] \in Answering) = TRUE
    BY <1>2, <1>3, <1>4
  <2>2. Asked' = [id |-> cmd'[User].id, kind |-> cmd'[User].kind, said |-> Said', noted |-> TRUE]
    BY <1>3, <2>1, AskedIs, Zenon DEF AskedBy
  <2>3. PICK r : r = Asked
    OBVIOUS
  <2>4. PICK q : q = [r EXCEPT !.noted = TRUE]
    OBVIOUS
  <2>5. q = [id |-> cmd[User].id, kind |-> cmd[User].kind, said |-> Said, noted |-> TRUE]
    <3>1. PICK f : f = FALSE
      OBVIOUS
    <3>2. PICK t : t = TRUE
      OBVIOUS
    <3>3. r = [id |-> cmd[User].id, kind |-> cmd[User].kind, said |-> Said, noted |-> f]
      BY <1>6, <2>3, <3>1
    <3>4. q = [r EXCEPT !.noted = t]
      BY <2>4, <3>2
    <3>5. q = [id |-> cmd[User].id, kind |-> cmd[User].kind, said |-> Said, noted |-> t]
      BY <3>3, <3>4
    <3> QED
      BY <3>2, <3>5
  <2>6. Asked' = q
    BY <1>2, <1>5, <2>2, <2>5
  <2> QED
    BY <2>3, <2>4, <2>6, Zenon
<1>8. UNCHANGED Owed
  <2>1. Owed = response \o <<>> \o queue
    BY <1>2, OwedIs DEF OwedBy
  <2>2. Owed' = response' \o <<>> \o queue'
    BY <1>2, OwedIs DEF OwedBy
  <2> QED
    BY <1>2, <2>1, <2>2
<1>9. Asked.kind \notin {"illegal", "raising"} /\ Asked.said = Len(Promise!Reply)
      /\ recorded' = Append(recorded, Asked.id)
  BY <1>2, <1>4, <1>5, <1>6
<1> QED
  BY <1>2, <1>6, <1>7, <1>8, <1>9, PromiseSteps, Zenon

\* The end of a command answers it: with the response, or with nothing.
LEMMA AnswerStep ==
  ASSUME OneSession, SessionInv, WriteResponse(User) \/ (TestResponse(User) /\ response = <<>>)
  PROVE  Promise!Answer
<1>0. \A l : Goto(User, l) => pc'[User] = l
  BY Assigned DEF SessionInv
<1>1. /\ queue \in Seq(Messages) /\ response \in Seq(Messages) /\ delivered \in Seq(Messages)
      /\ Responding /\ Commanding /\ cmd[User].kind \in KindSet
  BY SessionValues DEF SessionInv, Values
<1>2. /\ pc[User] \in {"reply", "write"} /\ pc'[User] = "prompt" /\ delivered' = delivered \o response
      /\ UNCHANGED <<cmd, queue, response, issued, recorded>>
  <2>1. CASE WriteResponse(User)
    BY <1>0, <2>1 DEF WriteResponse, shared, locals, bounds
  <2>2. CASE TestResponse(User) /\ response = <<>>
    <3>1. delivered \o <<>> = delivered
      BY <1>1, ConcatEmptySeq
    <3>2. /\ pc[User] = "reply" /\ Goto(User, "prompt") /\ delivered' = delivered
          /\ UNCHANGED <<cmd, queue, response, issued, recorded>>
      BY <2>2 DEF TestResponse, shared, locals, bounds, ghosts
    <3> QED
      BY <1>0, <2>2, <3>1, <3>2
  <2> QED
    BY <2>1, <2>2
<1>3. pc[User] \notin Idle /\ pc[User] \in Answering /\ pc'[User] \in Idle
  BY <1>2 DEF Idle, Answering
<1>4. Asked.noted \/ (Asked.kind = "illegal" /\ Asked.said = Len(Promise!Reply))
  <2>1. CASE cmd[User].kind # "illegal"
    <3>1. Asked.noted = (cmd[User].kind # "illegal" /\ pc[User] \in Answering)
      BY <1>3, AskedIs, Zenon DEF AskedBy
    <3> QED
      BY <1>3, <2>1, <3>1, Zenon
  <2>2. CASE cmd[User].kind = "illegal"
    <3>1. Len(Promise!Reply) = 1
      BY <1>3, <2>2, ReplyIs
    <3>2. Said = 1
      BY <1>2, <2>2 DEF Said
    <3>3. Asked.kind = "illegal" /\ Asked.said = Said
      BY <1>3, <2>2, AskedIs, Zenon DEF AskedBy
    <3> QED
      BY <3>1, <3>2, <3>3
  <2> QED
    BY <2>1, <2>2
<1>5. Asked' = Promise!Nothing
  BY <1>3, AskedIs DEF AskedBy
<1>6. Owed = response \o queue
  <2>1. Owed = response \o <<>> \o queue
    BY <1>2, OwedIs DEF OwedBy
  <2>2. NoMessage \in Messages
    BY DEF NoMessage, Messages
  <2> QED
    BY <1>1, <2>1, <2>2, Together
<1>7. Owed' = queue
  <2>1. Owed' = <<>> \o <<>> \o queue'
    BY <1>2, OwedIs DEF OwedBy
  <2>2. <<>> \o <<>> \o queue = queue
    BY <1>1, ConcatEmptySeq, EmptySeq
  <2> QED
    BY <1>2, <2>1, <2>2
<1>8. PICK n \in Nat : n = Len(response)
  <2>1. Len(response) \in Nat
    BY <1>1
  <2> QED
    BY <2>1
<1>9. SubSeq(Owed, 1, n) = response /\ SubSeq(Owed, n + 1, Len(Owed)) = queue
  <2>1. NoMessage \in Messages
    BY DEF NoMessage, Messages
  <2>2. /\ SubSeq(response \o queue, 1, Len(response)) = response
        /\ SubSeq(response \o queue, Len(response) + 1, Len(response \o queue)) = queue
    BY <1>1, <2>1, Together
  <2> QED
    BY <1>6, <1>8, <2>2
<1>10. /\ Len(Owed) \in Nat /\ n \in 0 .. Len(Owed)
       /\ \A i \in n + 1 .. Len(Owed) : Owed[i] = Promise!Warning
  <2>1. \A i \in 1 .. Len(queue) : queue[i] = NoMessage
    BY <1>1, <1>2 DEF Responding
  <2>2. PICK o \in Seq(Messages) : o = response \o queue
    <3>1. response \o queue \in Seq(Messages)
      BY <1>1
    <3> QED
      BY <3>1
  <2>3. PICK k \in Nat : k = Len(queue)
    <3>1. Len(queue) \in Nat
      BY <1>1
    <3> QED
      BY <3>1
  <2>4. Len(o) = n + k /\ \A i \in 1 .. n + k : o[i] = IF i <= n THEN response[i] ELSE queue[i - n]
    BY <1>1, <1>8, <2>2, <2>3, ConcatProperties
  <2>5. ASSUME NEW i \in n + 1 .. n + k PROVE o[i] = NoMessage
    <3>1. i \in 1 .. n + k /\ ~(i <= n) /\ i - n \in 1 .. k
      OBVIOUS
    <3>2. o[i] = queue[i - n]
      BY <2>4, <3>1
    <3> QED
      BY <2>1, <2>3, <3>1, <3>2
  <2>6. NoMessage = Promise!Warning
    BY DEF NoMessage, Promise!Warning
  <2>7. Owed = o
    BY <1>6, <2>2
  <2>8. n + k \in Nat /\ n \in 0 .. n + k
    OBVIOUS
  <2> QED
    BY <2>4, <2>5, <2>6, <2>7, <2>8, Zenon
<1> QED
  BY <1>2, <1>4, <1>5, <1>7, <1>9, <1>10, PromiseAnswer

\* A response that is not empty is written next.
LEMMA TestResponseStep ==
  ASSUME OneSession, SessionInv, TestResponse(User), response # <<>>
  PROVE  UNCHANGED Promise!vars
<1>0. \A l : Goto(User, l) => pc'[User] = l
  BY Assigned DEF SessionInv
<1>1. /\ pc[User] = "reply" /\ pc'[User] = "write"
      /\ UNCHANGED <<cmd, idx, queue, response, issued, recorded, delivered>>
  BY <1>0 DEF TestResponse, shared, locals, bounds, ghosts
<1>2. Said' = Said
  BY <1>1 DEF Said
<1>3. UNCHANGED Asked
  BY <1>1, <1>2, AskedSame DEF Idle, Answering
<1>4. UNCHANGED Owed
  <2>1. Owed = response \o <<>> \o queue
    BY <1>1, OwedIs DEF OwedBy
  <2>2. Owed' = response' \o <<>> \o queue'
    BY <1>1, OwedIs DEF OwedBy
  <2> QED
    BY <1>1, <2>1, <2>2
<1> QED
  BY <1>1, <1>3, <1>4, PromiseSteps

\* Every step of the session keeps all that is known of it.
LEMMA SessionStep ==
  ASSUME OneSession, HistoryInv, SessionInv, [Next]_vars
  PROVE  HistoryInv' /\ SessionInv'
<1>1. HistoryInv'
  BY HistoryStep
<1>2. Types'
  BY <1>1 DEF HistoryInv
<1> QED
  BY <1>1, <1>2, ValuesStep, RespondingStep, RecordingStep, CommandingStep, ListingStep DEF SessionInv

\* Every step of the session is a step of ConsolePromise, or none.
LEMMA SessionImplements ==
  ASSUME OneSession, SessionInv, [Next]_vars
  PROVE  [Promise!Next]_(Promise!vars)
<1>1. CASE UNCHANGED vars \/ Login(User) \/ Prompt(User) \/ Leave(User)
  BY <1>1, IdleSteps
<1>2. CASE \/ Dispatch(User) \/ ListEntry(User) \/ Trim(User) \/ TestEmpty(User) \/ Get(User)
           \/ LoadResponse(User) \/ SaveResponse(User)
  BY <1>2, InnerSteps
<1>3. CASE PutText(User)
  BY <1>3, PutTextStep DEF Promise!Next
<1>4. CASE PutEntry(User)
  BY <1>4, PutEntryStep DEF Promise!Next
<1>5. CASE Record(User)
  BY <1>5, NoteStep DEF Promise!Next
<1>6. CASE WriteResponse(User) \/ (TestResponse(User) /\ response = <<>>)
  BY <1>6, AnswerStep DEF Promise!Next
<1>7. CASE TestResponse(User) /\ response # <<>>
  BY <1>7, TestResponseStep
<1>8. CASE Receive(User)
  BY <1>8, AskStep DEF Promise!Next
<1>9. CASE SensorWarns
  BY <1>9, WarnStep DEF Promise!Next
<1> QED
  BY <1>1, <1>2, <1>3, <1>4, <1>5, <1>6, <1>7, <1>8, <1>9, SessionSteps

\* With one session, every command is answered before the next is read, with
\* its own messages in order, and history shows the last Limit commands: the
\* loops of sshsrv.py and command.py implement ConsolePromise.
THEOREM ConsoleKeepsPromise ==
  ASSUME \E c : Sessions = {c}
  PROVE  Spec => KeepsPromise
<1>1. OneSession
  BY DEF OneSession, User
<1>2. Init => HistoryInv /\ SessionInv
  BY <1>1, HistoryInit, SessionInit
<1>3. HistoryInv /\ SessionInv /\ [Next]_vars => (HistoryInv /\ SessionInv)'
  BY <1>1, SessionStep
<1>4. Init => Promise!Init
  <2> SUFFICES ASSUME Init PROVE Promise!Init
    OBVIOUS
  <2>1. User \in Sessions /\ pc[User] = "closed" /\ queue = <<>>
    BY <1>1 DEF Init, OneSession
  <2>2. Asked = Promise!Nothing
    BY <2>1, AskedIs DEF AskedBy, Idle
  <2>3. Owed = <<>>
    <3>1. Owed = <<>> \o <<>> \o queue
      BY <2>1, OwedIs DEF OwedBy
    <3>2. <<>> \o <<>> \o <<>> = <<>>
      BY ConcatEmptySeq, EmptySeq
    <3> QED
      BY <2>1, <3>1, <3>2
  <2> QED
    BY <2>2, <2>3 DEF Init, Promise!Init, Asked, Owed
<1>5. SessionInv /\ [Next]_vars => [Promise!Next]_(Promise!vars)
  BY <1>1, SessionImplements
<1> QED
  BY <1>2, <1>3, <1>4, <1>5, PTL DEF Spec, KeepsPromise, Promise!Spec
=============================================================================
