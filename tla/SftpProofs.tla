----------------------------- MODULE SftpProofs -----------------------------
(***************************************************************************)
(* Theorems about Sftp: what is read, written or listed is what the file   *)
(* or the folder holds, for every file, chunk, channel, number of threads  *)
(* and order of the steps, in programs that read, that write, or that list.*)
(*                                                                         *)
(* First what all of them share: the shapes of the state (Shapes), and the *)
(* numbers of the requests, each of which has been given out before it is  *)
(* used (Packets).  Then one invariant for each kind of program: WriterInv,*)
(* ReaderInv and ListerInv.                                                *)
(***************************************************************************)
EXTENDS Sftp, SequenceTheorems, WellFoundedInduction, TLAPS

-----------------------------------------------------------------------------
(* Sequences of anything *)

\* A sequence, of whatever elements
IsSeq(s) == \E S : s \in Seq(S)

\* What a sequence is a function on, and that only the empty one has no element.
LEMMA LenIs ==
  ASSUME NEW s, IsSeq(s)
  PROVE  /\ Len(s) \in Nat /\ DOMAIN s = 1 .. Len(s)
         /\ s # <<>> <=> Len(s) > 0
<1>1. PICK S : s \in Seq(S)  BY DEF IsSeq
<1>2. Len(s) \in Nat /\ DOMAIN s = 1 .. Len(s)  BY <1>1, LenProperties
<1>3. Len(<<>>) = 0  BY EmptySeq
<1>4. s # <<>> => Len(s) \in Nat \ {0}  BY <1>1, EmptySeq
<1> QED  BY <1>2, <1>3, <1>4

\* The sequence without elements
LEMMA EmptyIs == IsSeq(<<>>) /\ Len(<<>>) = 0
<1>1. <<>> \in Seq({})  BY EmptySeq
<1>2. Len(<<>>) = 0  BY EmptySeq
<1> QED  BY <1>1, <1>2 DEF IsSeq

\* A function on 1 .. n is a sequence of n elements.
LEMMA FunctionIs ==
  ASSUME NEW n \in Nat, NEW s, DOMAIN s = 1 .. n, s = [i \in DOMAIN s |-> s[i]]
  PROVE  IsSeq(s) /\ Len(s) = n
<1> DEFINE S == {s[i] : i \in 1 .. n}
<1>1. s \in [1 .. n -> S]  OBVIOUS
<1>2. s \in Seq(S)  BY <1>1, SeqDef
<1>3. Len(s) \in Nat /\ DOMAIN s = 1 .. Len(s)  BY <1>2, LenProperties
<1>4. Len(s) = n  BY <1>3
<1> QED  BY <1>2, <1>4 DEF IsSeq

\* One more element at the end
LEMMA AppendIs ==
  ASSUME NEW s, IsSeq(s), NEW x
  PROVE  /\ IsSeq(Append(s, x)) /\ Len(Append(s, x)) = Len(s) + 1
         /\ Append(s, x)[Len(s) + 1] = x
         /\ \A i \in 1 .. Len(s) : Append(s, x)[i] = s[i]
<1>1. PICK S : s \in Seq(S)  BY DEF IsSeq
<1> DEFINE T == S \cup {x}
<1>2. s \in Seq(T)  BY <1>1, SeqMonotonic
<1>3. x \in T  OBVIOUS
<1> HIDE DEF T
<1>4. /\ Append(s, x) \in Seq(T) /\ Len(Append(s, x)) = Len(s) + 1
      /\ \A i \in 1 .. Len(s) : Append(s, x)[i] = s[i]
      /\ Append(s, x)[Len(s) + 1] = x
  BY <1>2, <1>3, AppendProperties
<1> QED  BY <1>4 DEF IsSeq

\* The first element, and the others
LEMMA TailIs ==
  ASSUME NEW s, IsSeq(s), s # <<>>
  PROVE  /\ IsSeq(Tail(s)) /\ Len(Tail(s)) = Len(s) - 1 /\ Len(s) \in Nat \ {0}
         /\ Head(s) = s[1]
         /\ \A i \in 1 .. Len(s) - 1 : Tail(s)[i] = s[i + 1]
<1>1. PICK S : s \in Seq(S)  BY DEF IsSeq
<1>2. /\ Tail(s) \in Seq(S) /\ Len(Tail(s)) = Len(s) - 1
      /\ \A i \in 1 .. Len(Tail(s)) : Tail(s)[i] = s[i + 1]
  BY <1>1, HeadTailProperties
<1>3. Len(s) \in Nat \ {0}  BY LenIs
<1>4. Head(s) = s[1]  BY <1>1 DEF Head
<1> QED  BY <1>2, <1>3, <1>4 DEF IsSeq

\* A part of a sequence
LEMMA SubSeqIs ==
  ASSUME NEW s, IsSeq(s), NEW m \in Nat \ {0}, NEW n \in 0 .. Len(s)
  PROVE  /\ IsSeq(SubSeq(s, m, n)) /\ Len(SubSeq(s, m, n)) = IF m <= n THEN n - m + 1 ELSE 0
         /\ \A i \in 1 .. n - m + 1 : SubSeq(s, m, n)[i] = s[m + i - 1]
<1>1. PICK S : s \in Seq(S)  BY DEF IsSeq
<1>2. Len(s) \in Nat  BY LenIs
<1>3. \A i \in 1 .. Len(s) : s[i] \in S  BY <1>1, ElementOfSeq
<1>4. \A i \in m .. n : s[i] \in S  BY <1>2, <1>3
<1>5. m \in Int /\ n \in Int  BY <1>2
<1>6. /\ SubSeq(s, m, n) \in Seq(S) /\ Len(SubSeq(s, m, n)) = IF m <= n THEN n - m + 1 ELSE 0
      /\ \A i \in 1 .. n - m + 1 : SubSeq(s, m, n)[i] = s[m + i - 1]
  BY <1>4, <1>5, SubSeqProperties
<1> QED  BY <1>6 DEF IsSeq

\* Two sequences, one behind the other
LEMMA ConcatIs ==
  ASSUME NEW s, NEW t, IsSeq(s), IsSeq(t)
  PROVE  /\ IsSeq(s \o t) /\ Len(s \o t) = Len(s) + Len(t)
         /\ \A i \in 1 .. Len(s) : (s \o t)[i] = s[i]
         /\ \A i \in 1 .. Len(t) : (s \o t)[Len(s) + i] = t[i]
<1>1. PICK S : s \in Seq(S)  BY DEF IsSeq
<1>2. PICK T : t \in Seq(T)  BY DEF IsSeq
<1> DEFINE U == S \cup T
<1>3. s \in Seq(U) /\ t \in Seq(U)  BY <1>1, <1>2, SeqMonotonic
<1> HIDE DEF U
<1>4. /\ s \o t \in Seq(U) /\ Len(s \o t) = Len(s) + Len(t)
      /\ \A i \in 1 .. Len(s) + Len(t) : (s \o t)[i] = IF i <= Len(s) THEN s[i] ELSE t[i - Len(s)]
  BY <1>3, ConcatProperties
<1>5. Len(s) \in Nat /\ Len(t) \in Nat  BY LenIs
<1>6. \A i \in 1 .. Len(s) : (s \o t)[i] = s[i]  BY <1>4, <1>5
<1>7. ASSUME NEW i \in 1 .. Len(t)  PROVE (s \o t)[Len(s) + i] = t[i]
  <2>1. Len(s) + i \in 1 .. Len(s) + Len(t) /\ ~(Len(s) + i <= Len(s)) /\ Len(s) + i - Len(s) = i  BY <1>5
  <2> QED  BY <1>4, <2>1
<1> QED  BY <1>4, <1>6, <1>7 DEF IsSeq

\* Sequences with the same elements are the same.
LEMMA EqualIs ==
  ASSUME NEW s, NEW t, IsSeq(s), IsSeq(t), Len(s) = Len(t), \A i \in 1 .. Len(s) : s[i] = t[i]
  PROVE  s = t
<1>1. PICK S : s \in Seq(S)  BY DEF IsSeq
<1>2. PICK T : t \in Seq(T)  BY DEF IsSeq
<1> DEFINE U == S \cup T
<1>3. s \in Seq(U) /\ t \in Seq(U)  BY <1>1, <1>2, SeqMonotonic
<1> QED  BY <1>3, SeqEqual

\* The elements of s are consecutive, from off on, and none is above n.
Run(s, off, n) == IsSeq(s) /\ off \in Nat /\ off + Len(s) <= n /\ \A i \in 1 .. Len(s) : s[i] = off + i

\* The part of s behind its first k elements, up to element j
LEMMA RunPart ==
  ASSUME NEW s, NEW off, NEW n \in Nat, Run(s, off, n), NEW k \in Nat, NEW j \in Nat, k <= j, j <= Len(s)
  PROVE  /\ IsSeq(SubSeq(s, k + 1, j)) /\ Len(SubSeq(s, k + 1, j)) = j - k
         /\ Run(SubSeq(s, k + 1, j), off + k, n)
<1>1. IsSeq(s) /\ off \in Nat /\ off + Len(s) <= n /\ \A i \in 1 .. Len(s) : s[i] = off + i
  BY DEF Run
<1>2. Len(s) \in Nat  BY <1>1, LenIs
<1>3. PICK d : d = SubSeq(s, k + 1, j)  OBVIOUS
<1>4. PICK m : m = k + 1  OBVIOUS
<1>5. m \in Nat \ {0} /\ j \in 0 .. Len(s)  BY <1>2, <1>4
<1>6. /\ IsSeq(d) /\ Len(d) = IF m <= j THEN j - m + 1 ELSE 0
      /\ \A i \in 1 .. j - m + 1 : d[i] = s[m + i - 1]
  BY <1>1, <1>3, <1>4, <1>5, SubSeqIs
<1>7. Len(d) = j - k  BY <1>4, <1>6
<1>8. \A i \in 1 .. Len(d) : d[i] = off + k + i
  <2>1. ASSUME NEW i \in 1 .. Len(d)  PROVE d[i] = off + k + i
    <3>1. i \in 1 .. j - m + 1 /\ m + i - 1 = k + i /\ k + i \in 1 .. Len(s)  BY <1>2, <1>4, <1>7
    <3>2. d[i] = s[k + i]  BY <1>6, <3>1
    <3> QED  BY <1>1, <3>1, <3>2
  <2> QED  BY <2>1
<1>9. off + k \in Nat /\ off + k + Len(d) <= n  BY <1>1, <1>2, <1>7
<1>10. Run(d, off + k, n)  BY <1>6, <1>8, <1>9 DEF Run
<1> QED  BY <1>3, <1>6, <1>7, <1>10

\* What follows a run, behind it
LEMMA RunJoin ==
  ASSUME NEW s, NEW off, NEW n \in Nat, Run(s, off, n), NEW d, Run(d, off + Len(s), n)
  PROVE  Run(s \o d, off, n) /\ Len(s \o d) = Len(s) + Len(d) /\ Len(s) \in Nat /\ Len(d) \in Nat
<1>1. /\ IsSeq(s) /\ off \in Nat /\ \A i \in 1 .. Len(s) : s[i] = off + i
      /\ IsSeq(d) /\ off + Len(s) + Len(d) <= n /\ \A i \in 1 .. Len(d) : d[i] = off + Len(s) + i
  BY DEF Run
<1>2. Len(s) \in Nat /\ Len(d) \in Nat  BY <1>1, LenIs
<1>3. PICK c : c = s \o d  OBVIOUS
<1>4. /\ IsSeq(c) /\ Len(c) = Len(s) + Len(d)
      /\ \A i \in 1 .. Len(s) : c[i] = s[i]
      /\ \A i \in 1 .. Len(d) : c[Len(s) + i] = d[i]
  BY <1>1, <1>3, ConcatIs
<1>5. ASSUME NEW i \in 1 .. Len(c)  PROVE c[i] = off + i
  <2>1. CASE i <= Len(s)
    <3>1. i \in 1 .. Len(s)  BY <1>2, <1>4, <2>1
    <3> QED  BY <1>1, <1>4, <3>1
  <2>2. CASE i > Len(s)
    <3>1. PICK j : j = i - Len(s)  OBVIOUS
    <3>2. j \in 1 .. Len(d) /\ Len(s) + j = i  BY <1>2, <1>4, <2>2, <3>1
    <3>3. c[Len(s) + j] = off + Len(s) + j  BY <1>1, <1>4, <3>2
    <3>4. c[i] = off + Len(s) + j  BY <3>2, <3>3
    <3>5. off \in Nat /\ Len(s) \in Nat /\ j \in Nat /\ i = Len(s) + j  BY <1>1, <1>2, <3>2
    <3>6. off + Len(s) + j = off + i  BY <3>5
    <3> QED  BY <3>4, <3>6
  <2> QED  BY <1>2, <1>4, <2>1, <2>2
<1>6. off + Len(c) <= n  BY <1>1, <1>2, <1>4
<1>7. Run(c, off, n)  BY <1>1, <1>4, <1>5, <1>6 DEF Run
<1> QED  BY <1>2, <1>3, <1>4, <1>7

\* The numbers from 1 on up to n
LEMMA RunIs ==
  ASSUME NEW n \in Nat, NEW s, s = [i \in 1 .. n |-> i]
  PROVE  Run(s, 0, n) /\ Len(s) = n
<1>1. DOMAIN s = 1 .. n /\ s = [i \in DOMAIN s |-> s[i]] /\ \A i \in 1 .. n : s[i] = i  OBVIOUS
<1>2. IsSeq(s) /\ Len(s) = n  BY <1>1, FunctionIs
<1> QED  BY <1>1, <1>2 DEF Run

Paths == ChangesPath \cup ReadsPath \cup SetsPath \cup NamesPath
-----------------------------------------------------------------------------
(* The records of the user, of the file and of the threads *)

UserFields == {"pc", "call", "calls", "from", "want", "got", "req", "wait", "held", "nums", "failed"}
FileFields == {"handle", "realpos", "pipelined", "closed", "prefetching", "done", "data",
               "extents", "plock", "saved", "reqs", "refused"}
ThreadFields == {"pc", "chunks", "num"}

\* The calls that ask the server for something
Requesting == {"open", "read", "write", "fstat", "fsetstat", "close", "list", "listiter"} \cup Paths

\* The fields of the records; what a field holds is said where it matters.
Shapes ==
  /\ DOMAIN user = UserFields /\ DOMAIN file = FileFields
  /\ DOMAIN threads = Threads /\ \A t \in Threads : DOMAIN threads[t] = ThreadFields

\* A thread of the program that is not idle has made a call.
Asked == user.pc # "idle" => user.call \in Requesting

\* A response is expected by a call or by the file.
Kinds == \A n \in DOMAIN expecting : expecting[n] \in {"sync", "file"}

\* What the response to a call comes to
LEMMA ResponseIs ==
  ASSUME NEW m, Response(m), user.call \in Requesting
  PROVE
    \/ /\ Says(m, {"failure", "bad"}) /\ UNCHANGED file
       /\ user' = IF user.call = "close" THEN Return(user) ELSE Raise(user)
    \/ /\ ~Says(m, {"failure", "bad"})
       /\ \/ user.call = "open" /\ file' = NewFile(m.v[1], use.pipelined) /\ user' = Return(user)
          \/ user.call = "read" /\ Got(user, file, IF m.t = "data" THEN m.v ELSE <<>>)
          \/ user.call = "write" /\ user' = [user EXCEPT !.pc = "collect"] /\ UNCHANGED file
          \/ /\ user.call \in Paths \cup {"fstat", "fsetstat"}
             /\ user' = Return([user EXCEPT !.got = m.v]) /\ UNCHANGED file
          \/ user.call = "close" /\ user' = Return(user) /\ UNCHANGED file
          \/ /\ user.call \in {"list", "listiter"} /\ UNCHANGED file
             /\ \/ m.t = "handle"
                   /\ user' = Ask([user EXCEPT !.from = m.v[1]], Request("readdir", m.v[1], 0, 0))
                \/ m.t = "name" /\ user' = Ask([user EXCEPT !.got = @ \o m.v], user.req)
                \/ Says(m, {"eof"}) /\ user' = Ask(user, Request("close", user.from, 0, 0))
                \/ m.t \notin {"handle", "name"} /\ ~Says(m, {"eof"}) /\ user' = Return(user)
<1> DEFINE bad == Says(m, {"failure", "bad"})
           eof == Says(m, {"eof"})
<1>1. m.t \in {"handle", "name"} => ~eof  BY DEF Says
<1>2. CASE bad  BY <1>2 DEF Response
<1>3. CASE ~bad
  <2> HIDE DEF bad, eof
  <2>1. user.call \in Paths <=> user.call \in ChangesPath \cup ReadsPath \cup SetsPath \cup NamesPath
    BY DEF Paths
  <2> USE DEF Response
  <2>2. ~Says(m, {"failure", "bad"})  BY <1>3 DEF bad
  <2>0. ASSUME user.call \in Paths
        PROVE  user.call \notin {"open", "read", "write", "fstat", "fsetstat", "close", "list", "listiter"}
    BY <2>0 DEF Paths, ChangesPath, ReadsPath, SetsPath, NamesPath
  <2>3. CASE user.call = "open"  BY <2>0, <2>1, <2>2, <2>3
  <2>4. CASE user.call = "read"  BY <2>0, <2>1, <2>2, <2>4
  <2>5. CASE user.call = "write"  BY <2>0, <2>1, <2>2, <2>5
  <2>6. CASE user.call \in Paths \cup {"fstat", "fsetstat"}
    <3>1. user.call \notin {"open", "read", "write"}  BY <2>0, <2>6
    <3> QED  BY <2>1, <2>2, <2>6, <3>1
  <2>7. CASE user.call = "close"
    <3>1. user.call \notin Paths  BY <2>0, <2>7
    <3> QED  BY <2>1, <2>2, <2>7, <3>1
  <2>8. CASE user.call \in {"list", "listiter"}
    <3>1. user.call \notin Paths  BY <2>0, <2>8
    <3> QED  BY <1>1, <2>1, <2>2, <2>8, <3>1 DEF eof
  <2> QED  BY <2>3, <2>4, <2>5, <2>6, <2>7, <2>8 DEF Requesting
<1> QED  BY <1>2, <1>3

\* What looking for a response comes to
LEMMA ReadResponseIs ==
  ASSUME Kinds, ReadResponse, NEW m, m = Head(resps)
  PROVE  \/ /\ m.num \in DOMAIN expecting => m.num # user.wait /\ expecting[m.num] = "sync"
            /\ Dispatched(file)
         \/ m.num \in DOMAIN expecting /\ m.num = user.wait /\ Response(m)
         \/ /\ m.num \in DOMAIN expecting /\ m.num # user.wait /\ expecting[m.num] = "file"
            /\ \/ /\ m.t = "status"
                  /\ Dispatched([file EXCEPT !.saved = IF Says(m, {"eof"}) THEN "eof" ELSE "failure",
                                             !.refused = TRUE])
               \/ /\ m.t # "status"
                  /\ user' = [user EXCEPT !.pc = "store", !.held = m] /\ UNCHANGED file
<1> HIDE DEF Response, Dispatched, Says
<1>1. CASE m.num \notin DOMAIN expecting  BY <1>1 DEF ReadResponse
<1>2. CASE m.num \in DOMAIN expecting /\ m.num = user.wait  BY <1>2 DEF ReadResponse
<1>3. CASE m.num \in DOMAIN expecting /\ m.num # user.wait /\ expecting[m.num] = "sync"
  BY <1>3 DEF ReadResponse
<1>4. CASE m.num \in DOMAIN expecting /\ m.num # user.wait /\ expecting[m.num] = "file"
  BY <1>4 DEF ReadResponse
<1> QED  BY <1>1, <1>2, <1>3, <1>4 DEF Kinds

\* The first records have their fields.
LEMMA ShapesInitial == Init => Shapes /\ Asked /\ Kinds
BY DEF Init, Asked, Kinds, Shapes, NewFile, UserFields, FileFields, ThreadFields

\* A step of the program keeps the fields.
LEMMA UserShapesKept ==
  ASSUME Shapes, Asked, Kinds, UserStep
  PROVE  Shapes'
<1>1. CASE AcquireLock  BY <1>1 DEF Shapes, UserFields, FileFields, AcquireLock
<1>2. CASE SendRequest
  BY <1>2 DEF Shapes, UserFields, FileFields, SendRequest
<1>3. CASE SendFails
  BY <1>3 DEF Shapes, UserFields, SendFails, EndOfFile, Return, Raise, Ask
<1>4. CASE ReadResponse
  <2>0. user.pc # "idle"  BY <1>4 DEF ReadResponse
  <2>1. UNCHANGED threads  BY <1>4 DEF ReadResponse
  <2>2. ASSUME NEW f, DOMAIN f = FileFields, Dispatched(f)  PROVE Shapes'
    BY <2>1, <2>2 DEF Shapes, UserFields, FileFields, Dispatched, AfterPoll, Return, Raise
  <2>3. ASSUME NEW m, Response(m)  PROVE Shapes'
    <3>1. user.call \in Requesting  BY <2>0 DEF Asked
    <3>2. ASSUME NEW d, Got(user, file, d)  PROVE Shapes'
      BY <2>1, <3>2 DEF Shapes, UserFields, FileFields, Got, ReadRest, Return, Ask
    <3>3. DOMAIN user' = UserFields /\ DOMAIN file' = FileFields => Shapes'
      BY <2>1 DEF Shapes
    <3>4. ASSUME UNCHANGED file, DOMAIN user' = UserFields  PROVE Shapes'
      BY <3>3, <3>4 DEF Shapes
    <3>5. DOMAIN Return(user) = UserFields /\ DOMAIN Raise(user) = UserFields
      BY DEF Shapes, UserFields, Return, Raise
    <3>6. /\ DOMAIN [user EXCEPT !.pc = "collect"] = UserFields
          /\ DOMAIN Return([user EXCEPT !.got = m.v]) = UserFields
          /\ DOMAIN Ask([user EXCEPT !.from = m.v[1]], Request("readdir", m.v[1], 0, 0)) = UserFields
          /\ DOMAIN Ask([user EXCEPT !.got = @ \o m.v], user.req) = UserFields
          /\ DOMAIN Ask(user, Request("close", user.from, 0, 0)) = UserFields
      BY DEF Shapes, UserFields, Return, Ask
    <3>7. ASSUME NEW h, NEW p  PROVE DOMAIN NewFile(h, p) = FileFields
      BY DEF FileFields, NewFile
    <3> HIDE DEF Shapes
    <3>8. CASE user.call = "open" /\ ~Says(m, {"failure", "bad"})
      <4>1. file' = NewFile(m.v[1], use.pipelined) /\ user' = Return(user)
        BY <2>3, <3>8 DEF Response, ChangesPath, ReadsPath, SetsPath, NamesPath
      <4> QED  BY <3>3, <3>5, <3>7, <4>1
    <3>9. CASE user.call = "read" /\ ~Says(m, {"failure", "bad"})
      <4>1. Got(user, file, IF m.t = "data" THEN m.v ELSE <<>>)
        BY <2>3, <3>9 DEF Response, ChangesPath, ReadsPath, SetsPath, NamesPath
      <4> QED  BY <3>2, <4>1
    <3>10. CASE Says(m, {"failure", "bad"}) \/ user.call \notin {"open", "read"}
      <4>1. UNCHANGED file  BY <2>3, <3>1, <3>10, ResponseIs
      <4>2. DOMAIN user' = UserFields  BY <2>3, <3>1, <3>5, <3>6, <3>10, ResponseIs
      <4> QED  BY <3>4, <4>1, <4>2
    <3> QED  BY <3>8, <3>9, <3>10
  <2>4. ASSUME NEW m, user' = [user EXCEPT !.pc = "store", !.held = m], UNCHANGED file  PROVE Shapes'
    BY <2>1, <2>4 DEF Shapes, UserFields
  <2>5. ASSUME NEW s  PROVE DOMAIN [file EXCEPT !.saved = s, !.refused = TRUE] = FileFields
    BY DEF Shapes
  <2>6. DOMAIN file = FileFields  BY DEF Shapes
  <2>7. PICK m : m = Head(resps)  OBVIOUS
  <2> QED  BY <1>4, <2>2, <2>3, <2>4, <2>5, <2>6, <2>7, ReadResponseIs
<1>5. CASE StorePrefetched
  BY <1>5 DEF Shapes, UserFields, FileFields, StorePrefetched, AfterPoll, Return, Raise
<1>6. CASE ReadFails  BY <1>6 DEF Shapes, UserFields, ReadFails, Raise
<1>7. CASE ReadPrefetch
  BY <1>7 DEF Shapes, UserFields, FileFields, ReadPrefetch, Got, ReadRest, Return, Ask
<1>8. CASE AfterWrite
  BY <1>8 DEF Shapes, UserFields, FileFields, AfterWrite, WroteChunk, WriteRest, Return, Ask
<1>9. CASE Collect
  BY <1>9 DEF Shapes, UserFields, FileFields, Collect, WroteChunk, WriteRest, Return, Ask
<1>10. CASE Finish  BY <1>10 DEF Shapes, UserFields, FileFields, Finish, Ask
<1>11. CASE ReadRaw  BY <1>11 DEF Shapes, UserFields, ReadRaw, Ask
<1>12. CASE RawFails  BY <1>12 DEF Shapes, UserFields, RawFails, Ask
<1> QED  BY <1>1, <1>2, <1>3, <1>4, <1>5, <1>6, <1>7, <1>8, <1>9, <1>10, <1>11, <1>12 DEF UserStep

\* So does a call.
LEMMA CallShapesKept ==
  ASSUME Shapes, Call
  PROVE  Shapes'
<1> USE DEF Shapes, UserFields, FileFields, Begin
<1>1. CASE CallOpen  BY <1>1 DEF CallOpen, Ask
<1>2. CASE CallClose  BY <1>2 DEF CallClose
<1>3. ASSUME NEW t, CallPath(t)  PROVE Shapes'  BY <1>3 DEF CallPath, Ask
<1>4. ASSUME NEW t, CallFile(t)  PROVE Shapes'  BY <1>4 DEF CallFile, Ask
<1>5. ASSUME NEW n, CallRead(n)  PROVE Shapes'  BY <1>5 DEF CallRead, ReadRest, Ask
<1>6. ASSUME NEW n, CallWrite(n)  PROVE Shapes'  BY <1>6 DEF CallWrite, WriteRest, Ask
<1>7. ASSUME NEW off, CallSeek(off)  PROVE Shapes'  BY <1>7 DEF CallSeek, Return
<1>8. ASSUME NEW off, NEW n, CallReadv(off, n)  PROVE Shapes'
  BY <1>8 DEF CallReadv, StartPrefetch, ReadRest, Ask, ThreadFields
<1>9. ASSUME NEW extra, CallPrefetch(extra)  PROVE Shapes'
  BY <1>9 DEF CallPrefetch, StartPrefetch, Return, ThreadFields
<1>10. ASSUME NEW c, CallList(c)  PROVE Shapes'  BY <1>10 DEF CallList, Ask
<1> QED  BY <1>1, <1>2, <1>3, <1>4, <1>5, <1>6, <1>7, <1>8, <1>9, <1>10 DEF Call

\* So does a thread, and the other steps change none of the records.
LEMMA ShapesKept ==
  ASSUME Shapes, Asked, Kinds, [Next]_vars
  PROVE  Shapes'
<1>1. ASSUME NEW t, ThreadStep(t)  PROVE Shapes'
  <2> USE DEF Shapes, FileFields, ThreadFields, Thread
  <2>1. CASE TakePrefetchLock(t)  BY <2>1 DEF TakePrefetchLock
  <2>2. CASE TakeLock(t)  BY <2>2 DEF TakeLock
  <2>3. CASE SendPrefetch(t)  BY <2>3 DEF SendPrefetch
  <2>4. CASE NoteExtent(t)  BY <2>4 DEF NoteExtent
  <2>5. CASE PrefetchDies(t)  BY <2>5 DEF PrefetchDies
  <2> QED  BY <1>1, <2>1, <2>2, <2>3, <2>4, <2>5 DEF ThreadStep
<1>2. ASSUME ServerStep \/ Drop \/ UNCHANGED vars  PROVE Shapes'
  BY <1>2 DEF Shapes, ServerStep, Serve, Reply, ServerEnds, Drop, vars
<1> QED  BY <1>1, <1>2, UserShapesKept, CallShapesKept DEF Next

\* Only a call changes what the thread of the program is at.
LEMMA CallKept ==
  ASSUME Shapes, Asked, Kinds, UserStep
  PROVE  user.pc # "idle" /\ user'.call = user.call
<1> USE DEF Shapes, UserFields
<1>1. CASE AcquireLock  BY <1>1 DEF AcquireLock
<1>2. CASE SendRequest  BY <1>2 DEF SendRequest
<1>3. CASE SendFails  BY <1>3 DEF SendFails, EndOfFile, Return, Raise, Ask
<1>4. CASE ReadResponse
  <2>0. user.pc # "idle"  BY <1>4 DEF ReadResponse
  <2>1. user.call \in Requesting  BY <2>0 DEF Asked
  <2>2. ASSUME NEW f, Dispatched(f)  PROVE user'.call = user.call
    BY <2>2 DEF Dispatched, AfterPoll, Return, Raise
  <2>3. ASSUME NEW d, Got(user, file, d)  PROVE user'.call = user.call
    BY <2>3 DEF Got, ReadRest, Return, Ask
  <2>4. ASSUME NEW m, Response(m)  PROVE user'.call = user.call
    BY <2>1, <2>3, <2>4, ResponseIs DEF Return, Raise, Ask
  <2>5. ASSUME NEW m, user' = [user EXCEPT !.pc = "store", !.held = m]  PROVE user'.call = user.call
    BY <2>5
  <2>6. PICK m : m = Head(resps)  OBVIOUS
  <2> HIDE DEF Shapes
  <2> QED  BY <1>4, <2>0, <2>2, <2>4, <2>5, <2>6, ReadResponseIs
<1>5. CASE StorePrefetched  BY <1>5 DEF StorePrefetched, AfterPoll, Return, Raise
<1>6. CASE ReadFails  BY <1>6 DEF ReadFails, Raise
<1>7. CASE ReadPrefetch  BY <1>7 DEF ReadPrefetch, Got, ReadRest, Return, Ask
<1>8. CASE AfterWrite  BY <1>8 DEF AfterWrite, WroteChunk, WriteRest, Return, Ask
<1>9. CASE Collect  BY <1>9 DEF Collect, WroteChunk, WriteRest, Return, Ask
<1>10. CASE Finish  BY <1>10 DEF Finish, Ask
<1>11. CASE ReadRaw  BY <1>11 DEF ReadRaw, Ask
<1>12. CASE RawFails  BY <1>12 DEF RawFails, Ask
<1> QED  BY <1>1, <1>2, <1>3, <1>4, <1>5, <1>6, <1>7, <1>8, <1>9, <1>10, <1>11, <1>12 DEF UserStep

\* A step that is not one of the program's changes nothing of its thread.
LEMMA OthersKeep ==
  ASSUME (\E t \in Threads : ThreadStep(t)) \/ ServerStep \/ Drop \/ UNCHANGED vars
  PROVE  UNCHANGED user
BY DEF ThreadStep, TakePrefetchLock, TakeLock, SendPrefetch, NoteExtent, PrefetchDies, ServerStep,
   Serve, Reply, ServerEnds, Drop, vars

\* What the program has been asked to do stays within its calls.
LEMMA AskedKept ==
  ASSUME Shapes, Asked, Kinds, [Next]_vars
  PROVE  Asked'
<1>1. CASE UserStep  BY <1>1, CallKept DEF Asked
<1>2. CASE Call
  <2> USE DEF Shapes, UserFields, Begin, Asked, Requesting
  <2>1. CASE CallOpen  BY <2>1 DEF CallOpen, Ask
  <2>2. CASE CallClose  BY <2>2 DEF CallClose
  <2>3. ASSUME NEW t \in ChangesPath \cup ReadsPath \cup SetsPath \cup NamesPath, CallPath(t)
        PROVE  Asked'
    BY <2>3 DEF CallPath, Ask, Paths
  <2>4. ASSUME NEW t \in {"fstat", "fsetstat"}, CallFile(t)  PROVE Asked'  BY <2>4 DEF CallFile, Ask
  <2>5. ASSUME NEW n, CallRead(n)  PROVE Asked'  BY <2>5 DEF CallRead, ReadRest, Ask
  <2>6. ASSUME NEW n, CallWrite(n)  PROVE Asked'  BY <2>6 DEF CallWrite, WriteRest, Ask
  <2>7. ASSUME NEW off, CallSeek(off)  PROVE Asked'  BY <2>7 DEF CallSeek, Return
  <2>8. ASSUME NEW off, NEW n, CallReadv(off, n)  PROVE Asked'  BY <2>8 DEF CallReadv, ReadRest, Ask
  <2>9. ASSUME NEW extra, CallPrefetch(extra)  PROVE Asked'  BY <2>9 DEF CallPrefetch, Return
  <2>10. ASSUME NEW c \in {"list", "listiter"}, CallList(c)  PROVE Asked'  BY <2>10 DEF CallList, Ask
  <2> QED  BY <1>2, <2>1, <2>2, <2>3, <2>4, <2>5, <2>6, <2>7, <2>8, <2>9, <2>10 DEF Call
<1>3. ASSUME UNCHANGED user  PROVE Asked'  BY <1>3 DEF Asked
<1> QED  BY <1>1, <1>2, <1>3, OthersKeep DEF Next

\* No step has a response expected by anything but a call or the file.
LEMMA KindsKept ==
  ASSUME Kinds, [Next]_vars
  PROVE  Kinds'
<1>1. ASSUME NEW n, NEW k \in {"sync", "file"}, expecting' = Put(expecting, n, k)  PROVE Kinds'
  BY <1>1 DEF Kinds, Put
<1>2. ASSUME UNCHANGED expecting  PROVE Kinds'  BY <1>2 DEF Kinds
<1>3. ASSUME ReadResponse  PROVE Kinds'  BY <1>3 DEF Kinds, ReadResponse
<1>4. CASE UserStep
  <2>1. ASSUME SendRequest \/ SendFails  PROVE Kinds'
    BY <1>1, <2>1 DEF SendRequest, Transmit, SendFails
  <2> QED
    BY <1>2, <1>3, <1>4, <2>1 DEF UserStep, AcquireLock, StorePrefetched, ReadFails, ReadPrefetch,
       AfterWrite, Collect, Finish, ReadRaw, RawFails, clientVars
<1>5. ASSUME NEW t, ThreadStep(t)  PROVE Kinds'
  <2>1. ASSUME SendPrefetch(t) \/ PrefetchDies(t)  PROVE Kinds'
    BY <1>1, <2>1 DEF SendPrefetch, Transmit, PrefetchDies
  <2> QED
    BY <1>2, <1>5, <2>1 DEF ThreadStep, TakePrefetchLock, TakeLock, NoteExtent, clientVars
<1>6. ASSUME Call  PROVE UNCHANGED expecting
  BY <1>6 DEF Call, CallOpen, CallClose, CallPath, CallFile, CallRead, CallWrite, CallSeek,
     CallReadv, CallPrefetch, CallList, clientVars
<1>7. ASSUME ServerStep \/ Drop \/ UNCHANGED vars  PROVE UNCHANGED expecting
  BY <1>7 DEF ServerStep, Serve, Reply, ServerEnds, Drop, vars, clientVars
<1> QED  BY <1>2, <1>4, <1>5, <1>6, <1>7 DEF Next

-----------------------------------------------------------------------------
(* Packets on their way, whatever the program does *)

Answering == srv.pc = "replying"

\* The user waits for the response to request n.
Awaiting  == user.pc = "wait" \/ (user.pc = "store" /\ user.wait # 0)
Awaits(n) == Awaiting /\ n = user.wait

Numbered(n) == n \in 1 .. number - 1

\* Every number that is on its way, or that somebody waits for, has been given
\* out; the next one is new.
Packets ==
  /\ IsSeq(reqs) /\ IsSeq(resps) /\ IsSeq(file.reqs)
  /\ number \in Nat \ {0} /\ nextHandle \in Nat \ {0}
  /\ srv.pc \in {"reading", "replying", "gone"}
  /\ \A i \in 1 .. Len(reqs) : Numbered(reqs[i].num)
  /\ \A i \in 1 .. Len(resps) : Numbered(resps[i].num)
  /\ Answering => Numbered(srv.msg.num)
  /\ \A i \in 1 .. Len(file.reqs) : Numbered(file.reqs[i])
  /\ user.wait = 0 \/ Numbered(user.wait)
  /\ user.pc = "wait" => user.wait # 0
  /\ user.pc = "poll" => user.wait = 0

\* What holds of every program
Common == Shapes /\ Asked /\ Kinds /\ Packets

\* Sending puts a packet behind the others.
LEMMA TransmitIs ==
  ASSUME IsSeq(reqs), NEW req, NEW kind, Transmit(req, kind)
  PROVE  /\ IsSeq(reqs') /\ Len(reqs) \in Nat /\ Len(reqs') = Len(reqs) + 1
         /\ \A i \in 1 .. Len(reqs) : reqs'[i] = reqs[i]
         /\ \E r : /\ reqs'[Len(reqs) + 1] = r
                   /\ r.num = number /\ r.t = req.t /\ r.h = req.h /\ r.off = req.off /\ r.arg = req.arg
         /\ up /\ number' = number + 1 /\ lock' = Nobody /\ UNCHANGED <<resps, up>>
<1>1. PICK r : r = [num |-> number, t |-> req.t, h |-> req.h, off |-> req.off, arg |-> req.arg]  OBVIOUS
<1>2. r.num = number /\ r.t = req.t /\ r.h = req.h /\ r.off = req.off /\ r.arg = req.arg
  BY <1>1
<1>3. reqs' = Append(reqs, r)  BY <1>1 DEF Transmit
<1>4. /\ IsSeq(reqs') /\ Len(reqs') = Len(reqs) + 1 /\ reqs'[Len(reqs) + 1] = r
      /\ \A i \in 1 .. Len(reqs) : reqs'[i] = reqs[i]
  BY <1>3, AppendIs
<1>5. up /\ number' = number + 1 /\ lock' = Nobody /\ UNCHANGED <<resps, up>>  BY DEF Transmit
<1>6. Len(reqs) \in Nat  BY LenIs
<1> QED  BY <1>2, <1>4, <1>5, <1>6

\* Taking a packet off the channel
LEMMA TakenIs ==
  ASSUME NEW s, IsSeq(s), s # <<>>, NEW r, r = Tail(s)
  PROVE  /\ IsSeq(r) /\ Len(s) \in Nat \ {0} /\ Len(r) = Len(s) - 1 /\ Head(s) = s[1]
         /\ 1 \in 1 .. Len(s)
         /\ \A i \in 1 .. Len(r) : r[i] = s[i + 1] /\ i + 1 \in 1 .. Len(s)
<1>1. /\ IsSeq(r) /\ Len(r) = Len(s) - 1 /\ Len(s) \in Nat \ {0} /\ Head(s) = s[1]
      /\ \A i \in 1 .. Len(s) - 1 : r[i] = s[i + 1]
  BY TailIs
<1> QED  BY <1>1

\* The response that the server sends comes behind the others.
LEMMA ReplyIs ==
  ASSUME IsSeq(resps), Reply
  PROVE  /\ IsSeq(resps') /\ Len(resps) \in Nat /\ Len(resps') = Len(resps) + 1
         /\ \A i \in 1 .. Len(resps) : resps'[i] = resps[i]
         /\ resps'[Len(resps) + 1] = srv.msg /\ srv.pc = "replying" /\ srv'.pc = "reading" /\ up
         /\ UNCHANGED <<use, reqs, up, files, folders, nextHandle, stored, clientVars, file,
                        threads, user>>
<1>1. resps' = Append(resps, srv.msg)  BY DEF Reply
<1>2. /\ IsSeq(resps') /\ Len(resps') = Len(resps) + 1 /\ resps'[Len(resps) + 1] = srv.msg
      /\ \A i \in 1 .. Len(resps) : resps'[i] = resps[i]
  BY <1>1, AppendIs
<1>3. Len(resps) \in Nat  BY LenIs
<1>4. /\ srv.pc = "replying" /\ srv'.pc = "reading" /\ up
      /\ UNCHANGED <<use, reqs, up, files, folders, nextHandle, stored, clientVars, file, threads, user>>
  BY DEF Reply
<1> QED  BY <1>2, <1>3, <1>4

\* The responses that have come are still there when the connection is lost.
LEMMA DropIs ==
  ASSUME IsSeq(resps), Drop
  PROVE  /\ IsSeq(resps') /\ Len(resps) \in Nat /\ Len(resps') \in 0 .. Len(resps)
         /\ \A i \in 1 .. Len(resps') : i \in 1 .. Len(resps) /\ resps'[i] = resps[i]
         /\ reqs' = <<>> /\ ~up' /\ UNCHANGED <<use, serverVars, clientVars, file, threads, user>>
<1>1. PICK n \in 0 .. Len(resps) : resps' = SubSeq(resps, 1, n)  BY DEF Drop
<1>2. Len(resps) \in Nat  BY LenIs
<1>3. n \in Nat /\ n <= Len(resps) /\ 1 \in Nat \ {0} /\ n - 1 + 1 = n  BY <1>2
<1>4. /\ IsSeq(SubSeq(resps, 1, n)) /\ Len(SubSeq(resps, 1, n)) = IF 1 <= n THEN n - 1 + 1 ELSE 0
      /\ \A i \in 1 .. n - 1 + 1 : SubSeq(resps, 1, n)[i] = resps[1 + i - 1]
  BY <1>3, SubSeqIs
<1>5. IsSeq(resps') /\ Len(resps') = n /\ \A i \in 1 .. n : resps'[i] = resps[i]
  BY <1>1, <1>3, <1>4
<1>6. reqs' = <<>> /\ ~up' /\ UNCHANGED <<use, serverVars, clientVars, file, threads, user>>
  BY DEF Drop
<1> QED  BY <1>2, <1>3, <1>5, <1>6

\* The server takes the first request and makes its response.
LEMMA ServeIs ==
  ASSUME IsSeq(reqs), Serve
  PROVE  /\ IsSeq(reqs') /\ Len(reqs) \in Nat \ {0} /\ Len(reqs') = Len(reqs) - 1
         /\ \A i \in 1 .. Len(reqs') : reqs'[i] = reqs[i + 1] /\ i + 1 \in 1 .. Len(reqs)
         /\ 1 \in 1 .. Len(reqs) /\ Head(reqs) = reqs[1]
         /\ srv.pc = "reading" /\ srv'.pc = "replying" /\ srv'.msg.num = reqs[1].num
         /\ UNCHANGED <<use, resps, up, clientVars, file, threads, user>>
<1>1. reqs # <<>> /\ reqs' = Tail(reqs)  BY DEF Serve
<1>2. /\ IsSeq(reqs') /\ Len(reqs) \in Nat \ {0} /\ Len(reqs') = Len(reqs) - 1 /\ Head(reqs) = reqs[1]
      /\ 1 \in 1 .. Len(reqs)
      /\ \A i \in 1 .. Len(reqs') : reqs'[i] = reqs[i + 1] /\ i + 1 \in 1 .. Len(reqs)
  BY <1>1, TakenIs
<1>3. srv.pc = "reading" /\ srv'.pc = "replying" /\ srv'.msg.num = Head(reqs).num
  BY DEF Serve
<1>4. UNCHANGED <<use, resps, up, clientVars, file, threads, user>>  BY DEF Serve
<1> QED  BY <1>2, <1>3, <1>4

\* The numbers at first
LEMMA PacketsInitial == Init => Packets
BY EmptyIs DEF Init, Packets, NewFile, Answering

\* A step of the program that leaves the packets on their way alone
LEMMA UserNumbersKept ==
  ASSUME Packets, UNCHANGED <<reqs, resps, number, serverVars>>,
         \/ file'.reqs = file.reqs
         \/ file'.reqs = <<>>
         \/ file.reqs # <<>> /\ file'.reqs = Tail(file.reqs),
         user'.wait = user.wait \/ user'.wait = 0 \/ Numbered(user'.wait),
         user'.pc = "wait" => user'.wait # 0, user'.pc = "poll" => user'.wait = 0
  PROVE  Packets'
<1>1. ASSUME file.reqs # <<>>, file'.reqs = Tail(file.reqs)
      PROVE  IsSeq(file'.reqs) /\ \A i \in 1 .. Len(file'.reqs) : Numbered(file'.reqs[i])
  <2>1. PICK s : s = file.reqs  OBVIOUS
  <2>2. PICK r : r = Tail(s)  OBVIOUS
  <2>3. IsSeq(s) /\ s # <<>> /\ \A i \in 1 .. Len(s) : Numbered(s[i])  BY <1>1, <2>1 DEF Packets
  <2>4. IsSeq(r) /\ \A i \in 1 .. Len(r) : r[i] = s[i + 1] /\ i + 1 \in 1 .. Len(s)
    BY <2>2, <2>3, TakenIs
  <2>5. file'.reqs = r  BY <1>1, <2>1, <2>2
  <2> QED  BY <2>3, <2>4, <2>5
<1>2. IsSeq(file'.reqs) /\ \A i \in 1 .. Len(file'.reqs) : Numbered(file'.reqs[i])
  <2>1. CASE file'.reqs = file.reqs  BY <2>1 DEF Packets
  <2>2. CASE file'.reqs = <<>>  BY <2>2, EmptyIs
  <2> QED  BY <1>1, <2>1, <2>2
<1>3. Packets  OBVIOUS
<1> QED  BY <1>2, <1>3 DEF Packets, Numbered, Answering, serverVars

\* What looking for a response leaves as it is
LEMMA LookKeeps ==
  ASSUME Shapes, Asked, Kinds, ReadResponse
  PROVE  /\ user'.wait = user.wait
         /\ UNCHANGED user \/ user'.pc \notin {"wait", "poll"}
         /\ file'.reqs = file.reqs \/ file'.reqs = <<>>
<1> DEFINE Kept == /\ user'.wait = user.wait
                   /\ UNCHANGED user \/ user'.pc \notin {"wait", "poll"}
                   /\ file'.reqs = file.reqs \/ file'.reqs = <<>>
<1> USE DEF Shapes, UserFields, FileFields
<1>1. user.call \in Requesting  BY DEF ReadResponse, Asked
<1>2. ASSUME NEW f, DOMAIN f = FileFields, f.reqs = file.reqs, Dispatched(f)  PROVE Kept
  BY <1>2, ZenonT(40) DEF Dispatched, AfterPoll, Return, Raise
<1>3. ASSUME NEW d, Got(user, file, d)  PROVE Kept
  BY <1>3 DEF Got, ReadRest, Return, Ask
<1>4. ASSUME NEW h, NEW p, file' = NewFile(h, p), user' = Return(user)  PROVE Kept
  BY <1>4 DEF NewFile, Return
<1>5. ASSUME NEW v, NEW w,
             \/ user' = [user EXCEPT !.pc = "collect"]
             \/ user' = Return([user EXCEPT !.got = v])
             \/ user' = Ask([user EXCEPT !.from = v], w)
             \/ user' = Ask([user EXCEPT !.got = v], w)
             \/ user' = Ask(user, w) \/ user' = Return(user) \/ user' = Raise(user),
             UNCHANGED file
      PROVE Kept
  BY <1>5 DEF Return, Raise, Ask
<1>6. ASSUME NEW m, Response(m)  PROVE Kept
  <2> HIDE DEF Kept
  <2>1. CASE user.call = "open" /\ ~Says(m, {"failure", "bad"})
    <3>1. file' = NewFile(m.v[1], use.pipelined) /\ user' = Return(user)
      BY <1>6, <2>1 DEF Response, ChangesPath, ReadsPath, SetsPath, NamesPath
    <3> QED  BY <1>4, <3>1
  <2>2. CASE user.call = "read" /\ ~Says(m, {"failure", "bad"})
    <3>1. Got(user, file, IF m.t = "data" THEN m.v ELSE <<>>)
      BY <1>6, <2>2 DEF Response, ChangesPath, ReadsPath, SetsPath, NamesPath
    <3> QED  BY <1>3, <3>1
  <2>3. CASE Says(m, {"failure", "bad"}) \/ user.call \notin {"open", "read"}
    <3>1. UNCHANGED file  BY <1>6, <1>1, <2>3, ResponseIs
    <3>2. \/ user' = Return(user) \/ user' = Raise(user)
          \/ user' = [user EXCEPT !.pc = "collect"]
          \/ user' = Return([user EXCEPT !.got = m.v])
          \/ user' = Ask([user EXCEPT !.from = m.v[1]], Request("readdir", m.v[1], 0, 0))
          \/ user' = Ask([user EXCEPT !.got = @ \o m.v], user.req)
          \/ user' = Ask(user, Request("close", user.from, 0, 0))
      BY <1>6, <1>1, <2>3, ResponseIs
    <3> QED  BY <1>5, <3>1, <3>2
  <2> QED  BY <2>1, <2>2, <2>3
<1>7. ASSUME NEW m, user' = [user EXCEPT !.pc = "store", !.held = m], UNCHANGED file  PROVE Kept
  BY <1>7
<1>8. ASSUME NEW s
      PROVE  /\ DOMAIN [file EXCEPT !.saved = s, !.refused = TRUE] = FileFields
             /\ [file EXCEPT !.saved = s, !.refused = TRUE].reqs = file.reqs
  OBVIOUS
<1>9. DOMAIN file = FileFields /\ file.reqs = file.reqs  OBVIOUS
<1>10. PICK m : m = Head(resps)  OBVIOUS
<1> HIDE DEF Kept, Shapes
<1>11. Kept  BY <1>2, <1>6, <1>7, <1>8, <1>9, <1>10, ReadResponseIs
<1> QED  BY <1>11 DEF Kept

\* A step of the program keeps the numbers.
LEMMA UserPacketsKept ==
  ASSUME Common, UserStep
  PROVE  Packets'
<1> USE DEF Common
<1>1. ASSUME \/ AcquireLock \/ SendFails \/ StorePrefetched \/ ReadFails \/ ReadPrefetch
             \/ AfterWrite \/ Collect \/ Finish \/ RawFails
      PROVE  Packets'
  <2> DEFINE Kept == /\ UNCHANGED <<reqs, resps, number, serverVars>>
                     /\ \/ file'.reqs = file.reqs \/ file'.reqs = <<>>
                        \/ file.reqs # <<>> /\ file'.reqs = Tail(file.reqs)
                     /\ user'.wait = user.wait \/ user'.wait = 0 \/ Numbered(user'.wait)
                     /\ user'.pc = "wait" => user'.wait # 0
                     /\ user'.pc = "poll" => user'.wait = 0
  <2> USE DEF Shapes, UserFields, FileFields, channelVars, clientVars
  <2>1. ASSUME AcquireLock  PROVE Kept  BY <2>1 DEF AcquireLock
  <2>2. ASSUME SendFails  PROVE Kept  BY <2>2 DEF SendFails, EndOfFile, Return, Raise, Ask
  <2>3. ASSUME StorePrefetched  PROVE Kept  BY <2>3, ZenonT(40) DEF StorePrefetched, AfterPoll, Return, Raise
  <2>4. ASSUME ReadFails  PROVE Kept  BY <2>4 DEF ReadFails, Raise
  <2>5. ASSUME ReadPrefetch  PROVE Kept
    <3>1. UNCHANGED <<reqs, resps, number, serverVars>>  BY <2>5 DEF ReadPrefetch
    <3>2. ASSUME NEW f, f.reqs = file.reqs, NEW d, DOMAIN f = FileFields, Got(user, f, d)
          PROVE  /\ file'.reqs = file.reqs /\ user'.wait = user.wait
                 /\ user'.pc \notin {"wait", "poll"}
      BY <3>2 DEF Got, ReadRest, Return, Ask
    <3>3. ASSUME NEW d
          PROVE  [file EXCEPT !.data = d].reqs = file.reqs /\ DOMAIN [file EXCEPT !.data = d] = FileFields
      OBVIOUS
    <3>4. \/ \E f, d : f.reqs = file.reqs /\ DOMAIN f = FileFields /\ Got(user, f, d)
          \/ \E f : file' = [file EXCEPT !.prefetching = FALSE] /\ user' = ReadRest(user, f)
          \/ user' = [user EXCEPT !.pc = "poll", !.wait = 0] /\ UNCHANGED file
      BY <2>5, <3>3 DEF ReadPrefetch
    <3>5. ASSUME NEW f, file' = [file EXCEPT !.prefetching = FALSE], user' = ReadRest(user, f)
          PROVE  Kept
      BY <3>1, <3>5 DEF ReadRest, Ask
    <3>6. ASSUME user' = [user EXCEPT !.pc = "poll", !.wait = 0], UNCHANGED file  PROVE Kept
      BY <3>1, <3>6
    <3> QED  BY <3>1, <3>2, <3>4, <3>5, <3>6
  <2>6. ASSUME AfterWrite  PROVE Kept
    <3>1. \/ user' = [user EXCEPT !.pc = "collect"] /\ UNCHANGED file
          \/ WroteChunk
      BY <2>6 DEF AfterWrite
    <3>2. UNCHANGED <<reqs, resps, number, serverVars>>  BY <2>6 DEF AfterWrite
    <3> QED  BY <3>1, <3>2 DEF WroteChunk, WriteRest, Return, Ask
  <2>7. ASSUME Collect  PROVE Kept
    <3>1. CASE file.reqs = <<>>
      BY <2>7, <3>1 DEF Collect, WroteChunk, WriteRest, Return, Ask
    <3>2. CASE file.reqs # <<>>
      <4>1. IsSeq(file.reqs) /\ \A i \in 1 .. Len(file.reqs) : Numbered(file.reqs[i])  BY DEF Packets
      <4>2. 1 \in 1 .. Len(file.reqs) /\ Head(file.reqs) = file.reqs[1]  BY <3>2, <4>1, TakenIs
      <4>3. user'.wait = Head(file.reqs) /\ user'.pc = "wait"  BY <2>7, <3>2 DEF Collect
      <4>4. Numbered(user'.wait)  BY <4>1, <4>2, <4>3
      <4>5. user'.wait # 0  BY <4>4 DEF Numbered
      <4>6. file'.reqs = Tail(file.reqs) /\ UNCHANGED <<reqs, resps, number, serverVars>>
        BY <2>7, <3>2 DEF Collect
      <4> QED  BY <3>2, <4>3, <4>4, <4>5, <4>6
    <3> QED  BY <3>1, <3>2
  <2>8. ASSUME Finish  PROVE Kept
    <3>1. \/ user' = [user EXCEPT !.pc = "poll", !.wait = 0] /\ UNCHANGED file
          \/ /\ file' = [file EXCEPT !.closed = TRUE]
             /\ user' = Ask(user, Request("close", file.handle, 0, 0))
      BY <2>8 DEF Finish
    <3>2. UNCHANGED <<reqs, resps, number, serverVars>>  BY <2>8 DEF Finish
    <3> QED  BY <3>1, <3>2 DEF Ask
  <2>9. ASSUME RawFails  PROVE Kept  BY <2>9 DEF RawFails, Ask
  <2>10. Kept  BY <1>1, <2>1, <2>2, <2>3, <2>4, <2>5, <2>6, <2>7, <2>8, <2>9
  <2> QED  BY <2>10, UserNumbersKept
<1>2. ASSUME ReadResponse \/ ReadRaw  PROVE Packets'
  <2>1. resps # <<>> /\ resps' = Tail(resps)  BY <1>2 DEF ReadResponse, ReadRaw
  <2>2. IsSeq(resps) /\ \A i \in 1 .. Len(resps) : Numbered(resps[i].num)  BY DEF Packets
  <2>3. IsSeq(resps') /\ \A i \in 1 .. Len(resps') : resps'[i] = resps[i + 1] /\ i + 1 \in 1 .. Len(resps)
    BY <2>1, <2>2, TakenIs
  <2>4. \A i \in 1 .. Len(resps') : Numbered(resps'[i].num)  BY <2>2, <2>3
  <2>5. UNCHANGED <<reqs, serverVars, number>>  BY <1>2 DEF ReadResponse, ReadRaw, clientVars
  <2>6. /\ user'.wait = user.wait
        /\ UNCHANGED user \/ user'.pc \notin {"wait", "poll"}
        /\ file'.reqs = file.reqs \/ file'.reqs = <<>>
    <3>1. CASE ReadResponse  BY <3>1, LookKeeps
    <3>2. CASE ReadRaw  BY <3>2 DEF ReadRaw, Ask, Shapes, UserFields
    <3> QED  BY <1>2, <3>1, <3>2
  <2>7. IsSeq(file'.reqs) /\ \A i \in 1 .. Len(file'.reqs) : Numbered(file'.reqs[i])
    <3>1. CASE file'.reqs = file.reqs  BY <3>1 DEF Packets
    <3>2. CASE file'.reqs = <<>>  BY <3>2, EmptyIs
    <3> QED  BY <2>6, <3>1, <3>2
  <2>8. Packets  OBVIOUS
  <2> QED  BY <2>3, <2>4, <2>5, <2>6, <2>7, <2>8 DEF Packets, Numbered, Answering, serverVars
<1>3. ASSUME SendRequest  PROVE Packets'
  <2> DEFINE New(n) == n \in 1 .. number' - 1
  <2>1. Transmit(user.req, "sync") /\ UNCHANGED serverVars  BY <1>3 DEF SendRequest
  <2>2. Packets  OBVIOUS
  <2>3. IsSeq(reqs) /\ IsSeq(file.reqs)  BY DEF Packets
  <2>4. /\ IsSeq(reqs') /\ Len(reqs) \in Nat /\ Len(reqs') = Len(reqs) + 1
        /\ \A i \in 1 .. Len(reqs) : reqs'[i] = reqs[i]
        /\ reqs'[Len(reqs) + 1].num = number
        /\ number' = number + 1 /\ UNCHANGED resps
    BY <2>1, <2>3, TransmitIs
  <2>5. \A n : Numbered(n) => New(n)  BY <2>2, <2>4 DEF Packets, Numbered
  <2>6. New(number)  BY <2>2, <2>4 DEF Packets, Numbered
  <2>7. \A i \in 1 .. Len(reqs') : New(reqs'[i].num)
    <3>1. ASSUME NEW i \in 1 .. Len(reqs')  PROVE New(reqs'[i].num)
      <4>1. CASE i \in 1 .. Len(reqs)  BY <2>2, <2>4, <2>5, <4>1 DEF Packets
      <4>2. CASE i = Len(reqs) + 1  BY <2>4, <2>6, <4>2
      <4> QED  BY <2>4, <4>1, <4>2
    <3> QED  BY <3>1
  <2>8. /\ file'.reqs = file.reqs \/ file'.reqs = Append(file.reqs, number)
        /\ user'.wait = user.wait \/ user'.wait = number
        /\ user'.pc = "wait" => user'.wait = number
        /\ user'.pc # "poll"
    BY <1>3 DEF SendRequest, Shapes, UserFields, FileFields
  <2>9. IsSeq(file'.reqs) /\ \A i \in 1 .. Len(file'.reqs) : New(file'.reqs[i])
    <3>1. CASE file'.reqs = file.reqs  BY <2>2, <2>5, <3>1 DEF Packets
    <3>2. CASE file'.reqs = Append(file.reqs, number)
      <4>1. /\ IsSeq(file'.reqs) /\ Len(file'.reqs) = Len(file.reqs) + 1
            /\ file'.reqs[Len(file.reqs) + 1] = number
            /\ \A i \in 1 .. Len(file.reqs) : file'.reqs[i] = file.reqs[i]
        BY <2>3, <3>2, AppendIs
      <4>2. Len(file.reqs) \in Nat  BY <2>3, LenIs
      <4>3. \A i \in 1 .. Len(file.reqs) : New(file.reqs[i])  BY <2>2, <2>5 DEF Packets
      <4>4. \A i \in 1 .. Len(file'.reqs) : i \in 1 .. Len(file.reqs) \/ i = Len(file.reqs) + 1
        BY <4>1, <4>2
      <4> QED  BY <2>6, <4>1, <4>3, <4>4
    <3> QED  BY <2>8, <3>1, <3>2
  <2>10. user'.wait = 0 \/ New(user'.wait)  BY <2>2, <2>5, <2>6, <2>8 DEF Packets
  <2>11. number \in Nat \ {0}  BY DEF Packets
  <2>12. /\ \A i \in 1 .. Len(resps) : New(resps[i].num)
         /\ srv.pc = "replying" => New(srv.msg.num)
    BY <2>2, <2>5 DEF Packets, Answering
  <2> QED  BY <2>1, <2>2, <2>4, <2>7, <2>8, <2>9, <2>10, <2>11, <2>12 DEF Packets, Numbered, Answering, serverVars
<1> QED  BY <1>1, <1>2, <1>3 DEF UserStep

\* A call sends nothing yet.
LEMMA CallPacketsKept ==
  ASSUME Common, Call
  PROVE  Packets'
<1> DEFINE Kept == /\ UNCHANGED <<reqs, resps, number, serverVars>>
                   /\ file'.reqs = file.reqs /\ user'.wait = 0
                   /\ user'.pc \notin {"wait", "poll"}
<1>0. DOMAIN user = UserFields /\ DOMAIN file = FileFields  BY DEF Common, Shapes
<1> USE <1>0 DEF UserFields, FileFields, Begin, MayCall, channelVars, clientVars
<1>1. ASSUME CallOpen  PROVE Kept  BY <1>1 DEF CallOpen, Ask
<1>2. ASSUME CallClose  PROVE Kept  BY <1>2 DEF CallClose
<1>3. ASSUME NEW t, CallPath(t)  PROVE Kept  BY <1>3 DEF CallPath, Ask
<1>4. ASSUME NEW t, CallFile(t)  PROVE Kept  BY <1>4 DEF CallFile, Ask
<1>5. ASSUME NEW n, CallRead(n)  PROVE Kept  BY <1>5 DEF CallRead, ReadRest, Ask
<1>6. ASSUME NEW n, CallWrite(n)  PROVE Kept  BY <1>6 DEF CallWrite, WriteRest, Ask
<1>7. ASSUME NEW off, CallSeek(off)  PROVE Kept  BY <1>7 DEF CallSeek, Return
<1>8. ASSUME NEW off, NEW n, CallReadv(off, n)  PROVE Kept  BY <1>8 DEF CallReadv, ReadRest, Ask
<1>9. ASSUME NEW extra, CallPrefetch(extra)  PROVE Kept  BY <1>9 DEF CallPrefetch, Return
<1>10. ASSUME NEW c, CallList(c)  PROVE Kept  BY <1>10 DEF CallList, Ask
<1> HIDE DEF Kept
<1>11. Kept  BY <1>1, <1>2, <1>3, <1>4, <1>5, <1>6, <1>7, <1>8, <1>9, <1>10 DEF Call
<1> QED  BY <1>11, UserNumbersKept DEF Kept, Common

\* A thread that prefetches takes a number of its own.
LEMMA ThreadPacketsKept ==
  ASSUME Common, NEW t, ThreadStep(t)
  PROVE  Packets'
<1>0. DOMAIN file = FileFields /\ Packets  BY DEF Common, Shapes
<1>1. ASSUME UNCHANGED <<reqs, resps, number, serverVars, user>>, file'.reqs = file.reqs
      PROVE  Packets'
  BY <1>0, <1>1, UserNumbersKept DEF Packets
<1> USE DEF FileFields, channelVars, clientVars
<1>2. CASE TakePrefetchLock(t)  BY <1>0, <1>1, <1>2 DEF TakePrefetchLock
<1>3. CASE TakeLock(t)  BY <1>1, <1>3 DEF TakeLock
<1>4. CASE NoteExtent(t)  BY <1>0, <1>1, <1>4 DEF NoteExtent
<1>5. CASE PrefetchDies(t)  BY <1>0, <1>1, <1>5 DEF PrefetchDies
<1>6. CASE SendPrefetch(t)
  <2> DEFINE New(n) == n \in 1 .. number' - 1
             c == Head(threads[t].chunks)
  <2>1. Transmit(Request("read", file.handle, c.off, c.len), "file") /\ UNCHANGED <<serverVars, file, user>>
    BY <1>6 DEF SendPrefetch
  <2>2. IsSeq(reqs)  BY <1>0 DEF Packets
  <2>3. /\ IsSeq(reqs') /\ Len(reqs) \in Nat /\ Len(reqs') = Len(reqs) + 1
        /\ \A i \in 1 .. Len(reqs) : reqs'[i] = reqs[i]
        /\ reqs'[Len(reqs) + 1].num = number
        /\ number' = number + 1 /\ UNCHANGED resps
    BY <2>1, <2>2, TransmitIs
  <2>4. \A n : Numbered(n) => New(n)  BY <1>0, <2>3 DEF Packets, Numbered
  <2>5. New(number)  BY <1>0, <2>3 DEF Packets
  <2>6. \A i \in 1 .. Len(reqs') : New(reqs'[i].num)
    <3>1. ASSUME NEW i \in 1 .. Len(reqs')  PROVE New(reqs'[i].num)
      <4>1. CASE i \in 1 .. Len(reqs)  BY <1>0, <2>3, <2>4, <4>1 DEF Packets
      <4>2. CASE i = Len(reqs) + 1  BY <2>3, <2>5, <4>2
      <4> QED  BY <2>3, <4>1, <4>2
    <3> QED  BY <3>1
  <2>7. /\ \A i \in 1 .. Len(resps) : New(resps[i].num)
        /\ srv.pc = "replying" => New(srv.msg.num)
        /\ \A i \in 1 .. Len(file.reqs) : New(file.reqs[i])
        /\ user.wait = 0 \/ New(user.wait)
    BY <1>0, <2>4 DEF Packets, Answering
  <2> QED  BY <1>0, <2>1, <2>3, <2>6, <2>7 DEF Packets, Numbered, Answering, serverVars
<1> QED  BY <1>2, <1>3, <1>4, <1>5, <1>6 DEF ThreadStep

\* The server answers with the number of the request.
LEMMA ServerPacketsKept ==
  ASSUME Common, ServerStep \/ Drop
  PROVE  Packets'
<1>0. Packets  BY DEF Common
<1>1. IsSeq(reqs) /\ IsSeq(resps)  BY <1>0 DEF Packets
<1>2. CASE Serve
  <2>1. /\ IsSeq(reqs') /\ 1 \in 1 .. Len(reqs)
        /\ \A i \in 1 .. Len(reqs') : reqs'[i] = reqs[i + 1] /\ i + 1 \in 1 .. Len(reqs)
        /\ srv'.pc = "replying" /\ srv'.msg.num = reqs[1].num
        /\ UNCHANGED <<resps, number, file, user>>
    BY <1>1, <1>2, ServeIs DEF clientVars
  <2>2. nextHandle' \in Nat \ {0}
    <3>1. nextHandle' = nextHandle \/ nextHandle' = nextHandle + 1  BY <1>2 DEF Serve
    <3>2. nextHandle \in Nat \ {0}  BY <1>0 DEF Packets
    <3> QED  BY <3>1, <3>2
  <2> QED  BY <1>0, <2>1, <2>2 DEF Packets, Numbered, Answering
<1>3. CASE Reply
  <2>1. /\ IsSeq(resps') /\ Len(resps) \in Nat /\ Len(resps') = Len(resps) + 1
        /\ \A i \in 1 .. Len(resps) : resps'[i] = resps[i]
        /\ resps'[Len(resps) + 1] = srv.msg /\ srv.pc = "replying" /\ srv'.pc = "reading"
        /\ UNCHANGED <<reqs, nextHandle, number, file, user>>
    BY <1>1, <1>3, ReplyIs DEF clientVars
  <2>2. \A i \in 1 .. Len(resps') : Numbered(resps'[i].num)
    <3>1. \A i \in 1 .. Len(resps') : i \in 1 .. Len(resps) \/ i = Len(resps) + 1  BY <2>1
    <3> QED  BY <1>0, <2>1, <3>1 DEF Packets, Answering
  <2> QED  BY <1>0, <2>1, <2>2 DEF Packets, Numbered, Answering
<1>4. CASE ServerEnds
  BY <1>0, <1>4 DEF ServerEnds, Packets, Numbered, Answering, channelVars, clientVars
<1>5. CASE Drop
  <2>1. /\ IsSeq(resps') /\ \A i \in 1 .. Len(resps') : i \in 1 .. Len(resps) /\ resps'[i] = resps[i]
        /\ reqs' = <<>> /\ UNCHANGED <<serverVars, number, file, user>>
    BY <1>1, <1>5, DropIs DEF clientVars
  <2>2. IsSeq(reqs') /\ Len(reqs') = 0  BY <2>1, EmptyIs
  <2> QED  BY <1>0, <2>1, <2>2 DEF Packets, Numbered, Answering, serverVars
<1> QED  BY <1>2, <1>3, <1>4, <1>5 DEF ServerStep

\* What holds of every program
LEMMA CommonInitial == Init => Common
BY ShapesInitial, PacketsInitial DEF Common

\* No step of any program ends what is common to all of them.
LEMMA CommonKept ==
  ASSUME Common, [Next]_vars
  PROVE  Common'
<1>1. Shapes' /\ Asked' /\ Kinds'  BY ShapesKept, AskedKept, KindsKept DEF Common
<1>2. ASSUME UNCHANGED vars  PROVE Packets'
  BY <1>2 DEF Common, vars, channelVars, serverVars, clientVars, Packets, Numbered, Answering
<1>3. Packets'
  BY <1>2, UserPacketsKept, CallPacketsKept, ThreadPacketsKept, ServerPacketsKept DEF Next
<1> QED  BY <1>1, <1>3 DEF Common

-----------------------------------------------------------------------------
(* A program that writes *)

WriteCalls == {"open", "write", "fstat", "fsetstat", "close"} \cup Paths

\* A program that writes its file from the beginning to the end: one that
\* seeks leaves gaps.
Writes == use.writes /\ use.calls \subseteq WriteCalls

\* The bytes s of the file from off on
Bytes(s, off) ==
  /\ off + Len(s) <= Length
  /\ \A i \in 1 .. Len(s) : s[i] = off + i

\* Request r has been made for what the user asks.
Made(r) == r.t = user.req.t /\ r.h = user.req.h /\ r.off = user.req.off /\ r.arg = user.req.arg

Right(b) == b \in 1 .. Len(stored) /\ stored[b] = b

\* A request to write bytes of the file
IsWrite(r) ==
  /\ r.h = file.handle /\ file.handle # 0
  /\ r.off \in Nat /\ Len(r.arg) \in Nat /\ Bytes(r.arg, r.off)

\* Byte b is in a write on its way to the server.
OnTheWay(b) ==
  \E i \in 1 .. Len(reqs) :
    reqs[i].t = "write" /\ b \in reqs[i].off + 1 .. reqs[i].off + Len(reqs[i].arg)

NoWrites == \A i \in 1 .. Len(reqs) : reqs[i].t # "write"

\* The bytes that the user has asked to write
Chunk == user.req.off + 1 .. user.req.off + Len(user.req.arg)

\* Without pipelining, n is the write that the user has sent last.
LastWrite(n) ==
  /\ ~file.pipelined /\ user.call = "write"
  /\ \/ user.pc \in {"written", "collect"} /\ file.reqs # <<>> /\ n = Head(file.reqs)
     \/ Awaits(n)

\* A request on its way is one that the program makes, for the file it has open;
\* close comes behind the last write.
WriterRequest(i) ==
  LET r == reqs[i] IN
  /\ r.t \in WriteCalls
  /\ r.t = "write" => IsWrite(r)
  /\ r.t \in {"fstat", "fsetstat"} => r.h = file.handle /\ file.handle # 0
  /\ r.t = "close" => file.closed /\ \A j \in i + 1 .. Len(reqs) : reqs[j].t # "write"
  /\ Awaits(r.num) /\ user.call # "write" => Made(r)
  /\ LastWrite(r.num) => Made(r)

\* A write is refused only once its file is closed, and after the response to
\* the last write, or to close, no byte is on its way.
WriterAnswer(m) ==
  /\ Says(m, {"failure"}) => use.fails
  /\ Says(m, {"bad"}) => file.closed /\ (Awaits(m.num) => user.call = "close")
  /\ Awaits(m.num) /\ user.call = "open" =>
       m.t = "handle" /\ m.v[1] \in Nat \ {0} /\ (m.v[1] \in files \/ srv.pc = "gone")
  /\ Awaits(m.num) /\ user.call = "close" => NoWrites
  /\ LastWrite(m.num) /\ ~Says(m, {"failure"}) => \A b \in Chunk : Right(b)

\* What is on its way in both directions, and in the hands of the server
WriterOnTheWay ==
  /\ \A i \in 1 .. Len(reqs) : WriterRequest(i)
  /\ \A i \in 1 .. Len(resps) : WriterAnswer(resps[i])
  /\ Answering => WriterAnswer(srv.msg)

\* Every byte up to the position is in the file, or will be.
Covered ==
  /\ IsSeq(stored)
  /\ ~file.pipelined => \A b \in 1 .. file.realpos : Right(b)
  /\ up /\ ~use.fails => \A b \in 1 .. file.realpos : Right(b) \/ OnTheWay(b)
  /\ up /\ ~use.fails /\ user.call = "write" /\ user.pc \in {"written", "collect", "wait"} =>
       \A b \in Chunk : Right(b) \/ OnTheWay(b)
  /\ ~file.pipelined /\ user.pc = "collect" /\ file.reqs = <<>> => \A b \in Chunk : Right(b)

\* The handle is good as long as anything is written with it.
WriterFile ==
  /\ file.realpos \in 0 .. Length
  /\ ~file.refused /\ file.saved = "none"
  /\ ~file.pipelined =>
       Len(file.reqs) <= 1 /\ (user.pc \notin {"written", "collect"} => file.reqs = <<>>)
  /\ user.pc = "written" => file.reqs # <<>>
  /\ file.handle # 0 => file.handle \in files \/ srv.pc = "gone" \/ (file.closed /\ NoWrites)
  /\ file.handle = 0 => ~file.closed
  /\ file.closed => NoWrites \/ (user.call = "close" /\ user.pc \in {"acquire", "send", "wait"})
  /\ ~up => reqs = <<>>

\* A call is where its kind allows, and a write asks for the bytes at the position.
WriterUser ==
  /\ user.pc \in {"idle", "acquire", "send", "wait", "written", "collect", "finish"}
  /\ user.call \in WriteCalls \cup {"none"}
  /\ user.pc \in {"written", "collect"} => user.call = "write"
  /\ user.pc = "finish" => user.call = "close" /\ file.handle # 0 /\ ~file.closed
  /\ user.pc # "idle" /\ user.call \in {"write", "fstat", "fsetstat"} => file.handle # 0 /\ ~file.closed
  /\ user.pc # "idle" /\ user.call = "open" => file.handle = 0
  /\ user.pc # "idle" /\ user.call = "write" =>
       /\ user.req.t = "write" /\ IsWrite(user.req) /\ user.req.off = file.realpos
       /\ user.want \in Nat \ {0} /\ file.realpos + user.want <= Length
       /\ Len(user.req.arg) = Least(user.want, MaxRequest)
  /\ user.pc \in {"acquire", "send", "wait"} =>
       /\ user.req.t = user.call
       /\ user.call \in {"fstat", "fsetstat"} => user.req.h = file.handle
       /\ user.call = "close" => file.closed
  /\ user.pc = "idle" /\ user.failed => ~up \/ use.fails
  /\ \A n \in DOMAIN expecting : expecting[n] = "sync"
  /\ \A t \in Threads : threads[t].pc = "unused"

WriterInv == WriterOnTheWay /\ Covered /\ WriterFile /\ WriterUser

\* What write() of the server makes of the file
LEMMA WrittenIs ==
  ASSUME NEW s, IsSeq(s), NEW off \in Nat, NEW d, Len(d) \in Nat
  PROVE  /\ IsSeq(Written(s, off, d))
         /\ Len(Written(s, off, d)) = IF off + Len(d) > Len(s) THEN off + Len(d) ELSE Len(s)
         /\ \A i \in 1 .. Len(Written(s, off, d)) :
              Written(s, off, d)[i] = IF i \in off + 1 .. off + Len(d) THEN d[i - off]
                                      ELSE IF i <= Len(s) THEN s[i] ELSE 0
<1>1. PICK w : w = Written(s, off, d)  OBVIOUS
<1>2. PICK n : n = IF off + Len(d) > Len(s) THEN off + Len(d) ELSE Len(s)  OBVIOUS
<1>3. Len(s) \in Nat  BY LenIs
<1>4. n \in Nat  BY <1>2, <1>3
<1>5. w = [i \in 1 .. n |-> IF i \in off + 1 .. off + Len(d) THEN d[i - off]
                            ELSE IF i <= Len(s) THEN s[i] ELSE 0]
  BY <1>1, <1>2 DEF Written
<1>6. DOMAIN w = 1 .. n /\ w = [i \in DOMAIN w |-> w[i]]  BY <1>5
<1>7. IsSeq(w) /\ Len(w) = n  BY <1>4, <1>6, FunctionIs
<1>8. \A i \in 1 .. n : w[i] = IF i \in off + 1 .. off + Len(d) THEN d[i - off]
                              ELSE IF i <= Len(s) THEN s[i] ELSE 0
  BY <1>5
<1>9. IsSeq(Written(s, off, d)) /\ Len(Written(s, off, d)) = n  BY <1>1, <1>7
<1>10. \A i \in 1 .. n : Written(s, off, d)[i] = w[i]  BY <1>1
<1> QED  BY <1>2, <1>8, <1>9, <1>10

\* A write of bytes of the file leaves the right bytes right, and adds its own.
LEMMA WriteRight ==
  ASSUME IsSeq(stored), NEW off \in Nat, NEW d, Len(d) \in Nat, \A i \in 1 .. Len(d) : d[i] = off + i,
         stored' = Written(stored, off, d)
  PROVE  /\ IsSeq(stored')
         /\ \A b : Right(b) => Right(b)'
         /\ \A b \in off + 1 .. off + Len(d) : Right(b)'
<1>1. PICK s : s = stored  OBVIOUS
<1>2. PICK w : w = Written(s, off, d)  OBVIOUS
<1>3. /\ IsSeq(w)
      /\ Len(w) = IF off + Len(d) > Len(s) THEN off + Len(d) ELSE Len(s)
      /\ \A i \in 1 .. Len(w) : w[i] = IF i \in off + 1 .. off + Len(d) THEN d[i - off]
                                      ELSE IF i <= Len(s) THEN s[i] ELSE 0
  BY <1>1, <1>2, WrittenIs
<1>4. Len(s) \in Nat  BY <1>1, LenIs
<1>5. ASSUME NEW b \in off + 1 .. off + Len(d)  PROVE b \in 1 .. Len(w) /\ w[b] = b
  <2>1. b \in 1 .. Len(w)  BY <1>3, <1>4
  <2>2. b - off \in 1 .. Len(d) /\ off + (b - off) = b  OBVIOUS
  <2>3. d[b - off] = b  BY <2>2
  <2> QED  BY <1>3, <2>1, <2>3
<1>6. ASSUME NEW b \in 1 .. Len(s), s[b] = b  PROVE b \in 1 .. Len(w) /\ w[b] = b
  <2>1. b \in 1 .. Len(w) /\ b <= Len(s)  BY <1>3, <1>4
  <2> QED  BY <1>3, <1>5, <1>6, <2>1
<1>7. stored' = w  BY <1>1, <1>2
<1> QED  BY <1>1, <1>3, <1>5, <1>6, <1>7 DEF Right

\* A program that has written nothing yet
LEMMA WriterInitial == Init /\ use.writes => WriterInv
<1> SUFFICES ASSUME Init, use.writes  PROVE WriterInv
  OBVIOUS
<1>1. IsSeq(<<>>) /\ Len(<<>>) = 0  BY EmptyIs
<1>2. reqs = <<>> /\ resps = <<>> /\ srv.pc = "reading" /\ stored = <<>> /\ expecting = <<>>
  BY DEF Init
<1>3. WriterOnTheWay  BY <1>1, <1>2 DEF WriterOnTheWay, Answering
<1>4. file = NewFile(0, FALSE)  BY DEF Init
<1>5. file.realpos = 0 /\ ~file.refused /\ file.saved = "none" /\ file.reqs = <<>> /\ file.handle = 0
      /\ ~file.closed
  BY <1>4 DEF NewFile
<1>6. user.pc = "idle" /\ user.call = "none" /\ ~user.failed  BY DEF Init
<1>7. Covered  BY <1>1, <1>2, <1>5, <1>6 DEF Covered
<1>8. WriterFile  BY <1>1, <1>2, <1>5, <1>6, SftpAssumption DEF WriterFile
<1>9. \A t \in Threads : threads[t].pc = "unused"  BY DEF Init
<1>10. DOMAIN expecting = {}  BY <1>1, <1>2, LenIs
<1>11. WriterUser  BY <1>6, <1>9, <1>10 DEF WriterUser
<1> QED  BY <1>3, <1>7, <1>8, <1>11 DEF WriterInv

\* What is on its way stays as it was through a step of the program that sends
\* nothing.
LEMMA WriterAside ==
  ASSUME WriterInv, UNCHANGED <<use, reqs, up, srv, files, stored>>,
         file'.handle = file.handle \/ file.handle = 0, file.closed => file'.closed,
         \A n : Awaits(n)' => \/ Awaits(n) /\ user'.call = user.call /\ user'.req = user.req
                              \/ user'.call = "write" /\ ~file.closed,
         \A n : LastWrite(n)' => LastWrite(n) /\ user'.req = user.req
  PROVE  /\ \A i \in 1 .. Len(reqs') : WriterRequest(i)'
         /\ \A m : WriterAnswer(m) => WriterAnswer(m)'
         /\ Answering' => WriterAnswer(srv.msg)'
<1>1. ASSUME NEW i \in 1 .. Len(reqs)  PROVE WriterRequest(i)'
  <2>1. WriterRequest(i)  BY DEF WriterInv, WriterOnTheWay
  <2>2. PICK r : r = reqs[i]  OBVIOUS
  <2>3. reqs'[i] = r /\ Len(reqs') = Len(reqs)  BY <2>2
  <2>4. r.t = "write" => IsWrite(r)'  BY <2>1, <2>2 DEF WriterRequest, IsWrite, Bytes
  <2>5. Awaits(r.num)' /\ user'.call # "write" => Made(r)'  BY <2>1, <2>2 DEF WriterRequest, Made
  <2>6. LastWrite(r.num)' => Made(r)'  BY <2>1, <2>2 DEF WriterRequest, Made
  <2> HIDE DEF IsWrite, Made
  <2> QED  BY <2>1, <2>2, <2>3, <2>4, <2>5, <2>6 DEF WriterRequest
<1>2. ASSUME NEW m, WriterAnswer(m)  PROVE WriterAnswer(m)'
  <2>1. \A b : Right(b) => Right(b)'  BY DEF Right
  <2>2. LastWrite(m.num)' => LastWrite(m.num) /\ Chunk' = Chunk  BY DEF Chunk
  <2>3. NoWrites => NoWrites'  BY DEF NoWrites
  <2>4. Says(m, {"bad"})' = Says(m, {"bad"}) /\ Says(m, {"failure"})' = Says(m, {"failure"})  BY DEF Says
  <2>5. Says(m, {"failure"}) => use'.fails  BY <1>2 DEF WriterAnswer
  <2>6. Says(m, {"bad"}) => file'.closed /\ (Awaits(m.num)' => user'.call = "close")
    BY <1>2 DEF WriterAnswer
  <2>7. Awaits(m.num)' /\ user'.call = "open" =>
          m.t = "handle" /\ m.v[1] \in Nat \ {0} /\ (m.v[1] \in files' \/ srv'.pc = "gone")
    BY <1>2 DEF WriterAnswer
  <2>8. Awaits(m.num)' /\ user'.call = "close" => NoWrites'  BY <1>2, <2>3 DEF WriterAnswer
  <2>9. LastWrite(m.num)' /\ ~Says(m, {"failure"}) => \A b \in Chunk' : Right(b)'
    BY <1>2, <2>1, <2>2 DEF WriterAnswer
  <2> QED  BY <2>4, <2>5, <2>6, <2>7, <2>8, <2>9 DEF WriterAnswer
<1>3. Answering' => WriterAnswer(srv.msg)'
  <2>1. PICK m : m = srv.msg  OBVIOUS
  <2>2. Answering' => WriterAnswer(m)'  BY <1>2, <2>1 DEF Answering, WriterInv, WriterOnTheWay
  <2>3. srv'.msg = m  BY <2>1
  <2> QED  BY <2>2, <2>3
<1> QED  BY <1>1, <1>2, <1>3

\* So it is when the program takes nothing off the channel.
LEMMA WriterQuiet ==
  ASSUME WriterInv, UNCHANGED <<use, reqs, resps, up, srv, files, stored>>,
         file'.handle = file.handle, file.closed => file'.closed,
         \A n : Awaits(n)' => \/ Awaits(n) /\ user'.call = user.call /\ user'.req = user.req
                              \/ user'.call = "write" /\ ~file.closed,
         \A n : LastWrite(n)' => LastWrite(n) /\ user'.req = user.req
  PROVE  WriterOnTheWay'
<1>1. /\ \A i \in 1 .. Len(reqs') : WriterRequest(i)'
      /\ \A m : WriterAnswer(m) => WriterAnswer(m)'
      /\ Answering' => WriterAnswer(srv.msg)'
  BY WriterAside
<1>2. ASSUME NEW i \in 1 .. Len(resps)  PROVE WriterAnswer(resps[i])'
  <2>1. PICK m : m = resps[i]  OBVIOUS
  <2>2. WriterAnswer(m)'  BY <1>1, <2>1 DEF WriterInv, WriterOnTheWay
  <2>3. resps'[i] = m  BY <2>1
  <2> QED  BY <2>2, <2>3
<1> QED  BY <1>1, <1>2 DEF WriterOnTheWay

\* The next chunk of a write
LEMMA WriteRestIs ==
  ASSUME NEW u, DOMAIN u = UserFields, u.want \in Nat \ {0},
         NEW f, f.realpos \in Nat, f.realpos + u.want <= Length, NEW v, v = WriteRest(u, f)
  PROVE  /\ v.pc = "acquire" /\ v.call = u.call /\ v.want = u.want /\ v.failed = u.failed
         /\ v.req.t = "write" /\ v.req.h = f.handle /\ v.req.off = f.realpos
         /\ Len(v.req.arg) = Least(u.want, MaxRequest)
         /\ Len(v.req.arg) \in 1 .. u.want /\ Bytes(v.req.arg, f.realpos)
<1> DEFINE n == Least(u.want, MaxRequest)
<1>1. PICK a : a = [i \in 1 .. n |-> f.realpos + i]  OBVIOUS
<1>2. PICK r : r = Request("write", f.handle, f.realpos, a)  OBVIOUS
<1>3. r.t = "write" /\ r.h = f.handle /\ r.off = f.realpos /\ r.arg = a  BY <1>2 DEF Request
<1>4. v = [u EXCEPT !.pc = "acquire", !.req = r]  BY <1>1, <1>2 DEF WriteRest, Ask
<1>5. v.pc = "acquire" /\ v.call = u.call /\ v.want = u.want /\ v.failed = u.failed /\ v.req = r
  BY <1>4 DEF UserFields
<1>6. n \in 1 .. u.want  BY SftpAssumption DEF Least
<1>7. n \in Nat /\ DOMAIN a = 1 .. n /\ a = [i \in DOMAIN a |-> a[i]]  BY <1>1, <1>6
<1>8. Len(a) = n  BY <1>7, FunctionIs
<1>9. \A i \in 1 .. n : a[i] = f.realpos + i  BY <1>1
<1>10. Bytes(a, f.realpos)  BY <1>6, <1>8, <1>9, SftpAssumption DEF Bytes
<1> HIDE DEF n
<1>11. n = Least(u.want, MaxRequest)  BY DEF n
<1> QED  BY <1>3, <1>5, <1>6, <1>8, <1>10, <1>11

\* Most steps of the program touch neither what is on its way nor the position.
LEMMA WriterStill ==
  ASSUME WriterInv, WriterUser', UNCHANGED <<use, reqs, resps, up, srv, files, stored>>,
         file'.handle = file.handle, file'.realpos = file.realpos,
         file'.pipelined = file.pipelined, file'.refused = file.refused,
         file'.saved = file.saved, file'.reqs = file.reqs,
         file.closed => file'.closed,
         file'.closed => /\ file.handle # 0
                         /\ NoWrites \/ (user'.call = "close" /\ user'.pc \in {"acquire", "send"}),
         user.pc \notin {"written", "collect"},
         user'.pc \notin {"wait", "store", "written", "collect"}
  PROVE  WriterInv'
<1>1. \A n : ~Awaits(n)' /\ ~LastWrite(n)'  BY DEF Awaits, Awaiting, LastWrite
<1>2. WriterOnTheWay'  BY <1>1, WriterQuiet
<1>3. \A b : Right(b)' <=> Right(b)  BY DEF Right
<1>4. \A b : OnTheWay(b)' <=> OnTheWay(b)  BY DEF OnTheWay
<1>5. Covered'
  <2>1. Covered  BY DEF WriterInv
  <2> HIDE DEF Right, OnTheWay
  <2> QED  BY <1>3, <1>4, <2>1 DEF Covered
<1>6. WriterFile'
  <2>1. WriterFile  BY DEF WriterInv
  <2>2. NoWrites' <=> NoWrites  BY DEF NoWrites
  <2> QED  BY <2>1, <2>2 DEF WriterFile
<1> QED  BY <1>2, <1>5, <1>6 DEF WriterInv

\* The calls of a program that writes
LEMMA WriterCall ==
  ASSUME Common, Writes, WriterInv, Call
  PROVE  WriterInv'
<1>0. DOMAIN user = UserFields /\ DOMAIN file = FileFields  BY DEF Common, Shapes
<1>1. WriterUser /\ WriterFile  BY DEF WriterInv
<1>2. file.closed => file.handle # 0  BY <1>1 DEF WriterFile
<1>3. user.pc = "idle" => (file.closed => NoWrites)  BY <1>1 DEF WriterFile
<1>4. ASSUME UNCHANGED <<use, channelVars, serverVars, clientVars, file, threads>>, user.pc = "idle",
             user'.pc \in {"acquire", "finish"}, WriterUser'
      PROVE  WriterInv'
  BY <1>2, <1>3, <1>4, WriterStill DEF channelVars, serverVars
<1>5. ASSUME UNCHANGED <<file, expecting, threads, up, use>>, user.pc = "idle", user'.pc = "acquire",
             user'.call \in WriteCalls, user'.call \notin {"write", "close"}, user'.req.t = user'.call,
             user'.call \in {"fstat", "fsetstat"} => /\ file.handle # 0 /\ ~file.closed
                                                    /\ user'.req.h = file.handle,
             user'.call = "open" => file.handle = 0
      PROVE  WriterUser'
  BY <1>1, <1>5 DEF WriterUser
<1> USE DEF Begin, UserFields, Request, Ask, MayCall
<1>6. \A c : MayCall(c) => c \in WriteCalls  BY DEF Writes
<1>7. CASE CallOpen
  <2>1. /\ user'.pc = "acquire" /\ user'.call = "open" /\ user'.req.t = "open" /\ user.pc = "idle"
        /\ file.handle = 0 /\ UNCHANGED <<use, channelVars, serverVars, clientVars, file, threads>>
    BY <1>0, <1>7 DEF CallOpen
  <2> QED  BY <1>4, <1>5, <2>1 DEF WriteCalls, channelVars, clientVars
<1>8. ASSUME NEW t \in ChangesPath \cup ReadsPath \cup SetsPath \cup NamesPath, CallPath(t)
      PROVE  WriterInv'
  <2>1. /\ user'.pc = "acquire" /\ user'.call = t /\ user'.req.t = t /\ user.pc = "idle"
        /\ UNCHANGED <<use, channelVars, serverVars, clientVars, file, threads>>
    BY <1>0, <1>8 DEF CallPath
  <2>2. t \in Paths /\ t \notin {"open", "write", "close", "fstat", "fsetstat"}
    BY DEF Paths, ChangesPath, ReadsPath, SetsPath, NamesPath
  <2> QED  BY <1>4, <1>5, <2>1, <2>2 DEF WriteCalls, channelVars, clientVars
<1>9. ASSUME NEW t \in {"fstat", "fsetstat"}, CallFile(t)  PROVE WriterInv'
  <2>1. /\ user'.pc = "acquire" /\ user'.call = t /\ user'.req.t = t /\ user'.req.h = file.handle
        /\ user.pc = "idle" /\ file.handle # 0 /\ ~file.closed
        /\ UNCHANGED <<use, channelVars, serverVars, clientVars, file, threads>>
    BY <1>0, <1>9 DEF CallFile, IsOpen
  <2> QED  BY <1>4, <1>5, <2>1 DEF WriteCalls, channelVars, clientVars
<1>10. CASE CallClose
  <2>1. /\ user'.pc = "finish" /\ user'.call = "close" /\ user.pc = "idle" /\ file.handle # 0 /\ ~file.closed
        /\ UNCHANGED <<use, channelVars, serverVars, clientVars, file, threads>>
    BY <1>0, <1>10 DEF CallClose, IsOpen
  <2>2. WriterUser'  BY <1>1, <2>1 DEF WriterUser, WriteCalls, channelVars, clientVars
  <2> QED  BY <1>4, <2>1, <2>2
<1>11. ASSUME NEW size \in Sizes, CallWrite(size)  PROVE WriterInv'
  <2>1. size \in Nat \ {0}  BY SftpAssumption
  <2>2. PICK u : u = [Begin("write") EXCEPT !.want = size]  OBVIOUS
  <2>3. DOMAIN u = UserFields /\ u.want = size /\ u.call = "write"  BY <1>0, <2>2
  <2>4. /\ user.pc = "idle" /\ file.handle # 0 /\ ~file.closed /\ file.realpos + size <= Length
        /\ user' = WriteRest(u, file)
        /\ UNCHANGED <<use, channelVars, serverVars, clientVars, file, threads>>
    BY <1>11, <2>2 DEF CallWrite, IsOpen
  <2>5. file.realpos \in Nat  BY <1>1, SftpAssumption DEF WriterFile
  <2>6. PICK f : f = file  OBVIOUS
  <2>7. PICK v : v = WriteRest(u, f)  OBVIOUS
  <2>8. /\ v.pc = "acquire" /\ v.call = "write" /\ v.want = size
        /\ v.req.t = "write" /\ v.req.h = f.handle /\ v.req.off = f.realpos
        /\ Len(v.req.arg) = Least(size, MaxRequest)
        /\ Len(v.req.arg) \in 1 .. size /\ Bytes(v.req.arg, f.realpos)
    BY <2>1, <2>3, <2>4, <2>5, <2>6, <2>7, WriteRestIs
  <2>9. user' = v /\ file' = f  BY <2>4, <2>6, <2>7
  <2>10. IsWrite(v.req)'  BY <2>4, <2>5, <2>6, <2>8, <2>9 DEF IsWrite, Bytes
  <2>11. WriterUser'
    BY <1>1, <2>1, <2>4, <2>6, <2>8, <2>9, <2>10 DEF WriterUser, WriteCalls, channelVars, clientVars
  <2> QED  BY <1>4, <2>4, <2>8, <2>9, <2>11
<1>12. /\ \A n : ~CallRead(n)
       /\ \A off : ~CallSeek(off)
       /\ \A off, n : ~CallReadv(off, n)
       /\ \A e : ~CallPrefetch(e)
       /\ \A c \in {"list", "listiter"} : ~CallList(c)
  <2>1. {"read", "seek", "readv", "prefetch", "list", "listiter"} \cap WriteCalls = {}
    BY DEF WriteCalls, Paths, ChangesPath, ReadsPath, SetsPath, NamesPath
  <2> QED  BY <1>6, <2>1 DEF CallRead, CallSeek, CallReadv, CallPrefetch, CallList
<1> QED  BY <1>7, <1>8, <1>9, <1>10, <1>11, <1>12 DEF Call

\* A step that takes or loses the lock, fails, or begins to close
LEMMA WriterPlain ==
  ASSUME Common, WriterInv, AcquireLock \/ SendFails \/ ReadFails \/ Finish
  PROVE  WriterInv'
<1>0. DOMAIN user = UserFields /\ DOMAIN file = FileFields  BY DEF Common, Shapes
<1>1. WriterUser /\ WriterFile /\ IsSeq(reqs)  BY DEF WriterInv, Common, Packets
<1>2. file.closed => file.handle # 0  BY <1>1 DEF WriterFile
<1>3. ~up => NoWrites  BY <1>1, EmptyIs DEF WriterFile, NoWrites
<1>4. UNCHANGED <<use, reqs, resps, up, srv, files, stored, threads>>
  BY DEF AcquireLock, SendFails, ReadFails, Finish, channelVars, serverVars
<1>5. CASE AcquireLock
  <2>1. user.pc = "acquire" /\ user'.pc = "send" /\ user'.call = user.call /\ user'.req = user.req
        /\ user'.want = user.want /\ UNCHANGED <<file, expecting>>
    BY <1>0, <1>5 DEF AcquireLock, UserFields
  <2>2. WriterUser'
    <3>1. user'.call = "write" => IsWrite(user.req)'
      BY <1>1, <2>1 DEF WriterUser, IsWrite, Bytes
    <3> HIDE DEF IsWrite
    <3> QED  BY <1>1, <1>4, <2>1, <3>1 DEF WriterUser
  <2>3. file.closed => NoWrites \/ user.call = "close"  BY <1>1 DEF WriterFile
  <2> QED  BY <1>2, <1>4, <2>1, <2>2, <2>3, WriterStill
<1>6. CASE SendFails
  <2>1. user.pc = "send" /\ user'.pc = "idle" /\ user'.call = user.call /\ ~up /\ UNCHANGED file
        /\ expecting' = Put(expecting, number, "sync")
    <3>1. user.pc = "send" /\ ~up /\ UNCHANGED file /\ expecting' = Put(expecting, number, "sync")
      BY <1>6 DEF SendFails
    <3>2. user.req.t # "readdir"
      <4>1. "readdir" \notin WriteCalls \cup {"none"}
        BY DEF WriteCalls, Paths, ChangesPath, ReadsPath, SetsPath, NamesPath
      <4> QED  BY <1>1, <3>1, <4>1 DEF WriterUser
    <3>3. user' = Return(user) \/ user' = Raise(user)  BY <1>6, <3>2 DEF SendFails, EndOfFile
    <3> QED  BY <1>0, <3>1, <3>3 DEF UserFields, Return, Raise
  <2>2. \A n \in DOMAIN expecting' : expecting'[n] = "sync"
    BY <1>1, <2>1 DEF WriterUser, Put
  <2>3. WriterUser'  BY <1>1, <1>4, <2>1, <2>2 DEF WriterUser
  <2> QED  BY <1>2, <1>3, <1>4, <2>1, <2>3, WriterStill
<1>7. CASE ReadFails
  <2>1. user.pc = "wait" /\ user'.pc = "idle" /\ user'.call = user.call /\ ~up /\ UNCHANGED <<file, expecting>>
    BY <1>0, <1>1, <1>7 DEF ReadFails, UserFields, Raise, clientVars, WriterUser
  <2>2. WriterUser'  BY <1>1, <1>4, <2>1 DEF WriterUser
  <2> QED  BY <1>2, <1>3, <1>4, <2>1, <2>2, WriterStill
<1>8. CASE Finish
  <2>1. user.pc = "finish" /\ user.call = "close" /\ file.handle # 0 /\ ~file.closed
    BY <1>1, <1>8 DEF Finish, WriterUser
  <2>2. ~\E n \in DOMAIN expecting : expecting[n] = "file"  BY <1>1 DEF WriterUser
  <2>3. /\ file' = [file EXCEPT !.closed = TRUE] /\ user' = Ask(user, Request("close", file.handle, 0, 0))
        /\ UNCHANGED expecting
    BY <1>8, <2>2 DEF Finish, clientVars
  <2>4. user'.pc = "acquire" /\ user'.call = "close" /\ user'.req.t = "close"
    BY <1>0, <2>1, <2>3 DEF UserFields, Ask, Request
  <2>5. /\ file'.handle = file.handle /\ file'.realpos = file.realpos
        /\ file'.pipelined = file.pipelined /\ file'.refused = file.refused
        /\ file'.saved = file.saved /\ file'.reqs = file.reqs /\ file'.closed
    BY <1>0, <2>3 DEF FileFields
  <2>6. UNCHANGED expecting  BY <2>3
  <2>7. WriterUser'  BY <1>1, <1>4, <2>1, <2>4, <2>5, <2>6 DEF WriterUser
  <2> QED  BY <1>4, <2>1, <2>4, <2>5, <2>7, WriterStill
<1> QED  BY <1>5, <1>6, <1>7, <1>8

\* Sending a request
LEMMA WriterSends ==
  ASSUME Common, WriterInv, SendRequest
  PROVE  WriterInv'
<1>0. DOMAIN user = UserFields /\ DOMAIN file = FileFields  BY DEF Common, Shapes
<1>1. WriterUser /\ WriterFile /\ Covered /\ WriterOnTheWay  BY DEF WriterInv
<1>2. Packets  BY DEF Common
<1>3. Transmit(user.req, "sync") /\ user.pc = "send" /\ UNCHANGED <<use, serverVars, threads>>
  BY DEF SendRequest
<1>4. IsSeq(reqs) /\ IsSeq(file.reqs)  BY <1>2 DEF Packets
<1>5. PICK k : k = Len(reqs) + 1  OBVIOUS
<1>6. /\ IsSeq(reqs') /\ Len(reqs) \in Nat /\ Len(reqs') = k
      /\ \A i \in 1 .. Len(reqs) : reqs'[i] = reqs[i]
      /\ up /\ number' = number + 1 /\ UNCHANGED <<resps, up>>
  BY <1>3, <1>4, <1>5, TransmitIs
<1>7. PICK r : /\ reqs'[k] = r /\ r.num = number
               /\ r.t = user.req.t /\ r.h = user.req.h /\ r.off = user.req.off /\ r.arg = user.req.arg
  BY <1>3, <1>4, <1>5, TransmitIs
<1>8. expecting' = Put(expecting, number, "sync")  BY <1>3 DEF Transmit
<1>9. user.req.t = user.call /\ user.call \in WriteCalls
  <2>1. user.call # "none"  BY <1>3 DEF Common, Asked, Requesting, Paths, ChangesPath, ReadsPath, SetsPath, NamesPath
  <2> QED  BY <1>1, <1>3, <2>1 DEF WriterUser
<1>10. user.call # "listiter"  BY <1>9 DEF WriteCalls, Paths, ChangesPath, ReadsPath, SetsPath, NamesPath
<1>11. /\ user'.call = user.call /\ user'.req = user.req /\ user'.want = user.want
       /\ file'.handle = file.handle /\ file'.realpos = file.realpos
       /\ file'.pipelined = file.pipelined /\ file'.refused = file.refused
       /\ file'.saved = file.saved /\ file'.closed = file.closed
       /\ user.call = "write" => user'.pc = "written" /\ file'.reqs = Append(file.reqs, number)
       /\ user.call # "write" => user'.pc = "wait" /\ user'.wait = number /\ file'.reqs = file.reqs
  BY <1>0, <1>10 DEF SendRequest, UserFields, FileFields
<1>12. number \in Nat \ {0} /\ \A n : Numbered(n) => n # number  BY <1>2 DEF Packets, Numbered
<1>13. user.call = "write" => IsWrite(user.req) /\ IsWrite(r)
  BY <1>1, <1>3, <1>7 DEF WriterUser, IsWrite, Bytes
<1>14. ~file.pipelined => file.reqs = <<>>  BY <1>1, <1>3 DEF WriterFile
<1>15. \A n : Awaits(n)' => n = number /\ user.call # "write"
  BY <1>9, <1>11 DEF Awaits, Awaiting
<1>16. \A n : LastWrite(n)' => n = number
  <2>1. ~file.pipelined /\ user.call = "write" => Head(file'.reqs) = number
    <3>1. Append(<<>>, number) = <<number>> /\ Head(<<number>>) = number  OBVIOUS
    <3> QED  BY <1>11, <1>14, <3>1
  <2> QED  BY <1>11, <1>15, <2>1 DEF LastWrite
<1>17. NoWrites' <=> NoWrites /\ user.call # "write"
  BY <1>4, <1>5, <1>6, <1>7, <1>9 DEF NoWrites
<1>18. user.call = "write" => ~file.closed  BY <1>1, <1>3 DEF WriterUser
<1>19. ASSUME NEW i \in 1 .. k  PROVE WriterRequest(i)'
  <2>1. CASE i = k
    <3>1. Made(r)'  BY <1>7, <1>11 DEF Made
    <3>2. r.t = "write" => IsWrite(r)'  BY <1>9, <1>7, <1>11, <1>13 DEF IsWrite, Bytes
    <3>3. r.t \in {"fstat", "fsetstat"} => r.h = file.handle /\ file.handle # 0
      BY <1>1, <1>3, <1>7, <1>9 DEF WriterUser
    <3>4. r.t = "close" => file.closed  BY <1>1, <1>3, <1>7, <1>9 DEF WriterUser
    <3> HIDE DEF Made, IsWrite
    <3> QED  BY <1>5, <1>6, <1>7, <1>9, <1>11, <2>1, <3>1, <3>2, <3>3, <3>4 DEF WriterRequest
  <2>2. CASE i \in 1 .. Len(reqs)
    <3>1. PICK q : q = reqs[i]  OBVIOUS
    <3>2. WriterRequest(i)  BY <1>1, <2>2 DEF WriterOnTheWay
    <3>3. reqs'[i] = q /\ q.num # number  BY <1>2, <1>6, <1>12, <2>2, <3>1 DEF Packets
    <3>4. q.t = "write" => IsWrite(q)'  BY <1>11, <3>1, <3>2 DEF WriterRequest, IsWrite, Bytes
    <3>5. q.t = "close" => file.closed /\ \A j \in i + 1 .. k : reqs'[j].t # "write"
      <4>1. q.t = "close" => file.closed /\ \A j \in i + 1 .. Len(reqs) : reqs[j].t # "write"
        BY <3>1, <3>2 DEF WriterRequest
      <4>2. file.closed => r.t # "write"  BY <1>7, <1>9, <1>18
      <4>3. \A j \in i + 1 .. k : j = k \/ (j \in i + 1 .. Len(reqs) /\ reqs'[j] = reqs[j])
        BY <1>5, <1>6, <2>2
      <4> QED  BY <1>7, <4>1, <4>2, <4>3
    <3>6. ~Awaits(q.num)' /\ ~LastWrite(q.num)'  BY <1>15, <1>16, <3>3
    <3> HIDE DEF IsWrite
    <3> QED  BY <1>6, <1>11, <3>1, <3>2, <3>3, <3>4, <3>5, <3>6 DEF WriterRequest
  <2> QED  BY <1>5, <1>6, <2>1, <2>2
<1>20. ASSUME NEW m, WriterAnswer(m), m.num # number  PROVE WriterAnswer(m)'
  BY <1>3, <1>11, <1>15, <1>16, <1>20 DEF WriterAnswer, Says
<1>21. WriterOnTheWay'
  <2>1. ASSUME NEW i \in 1 .. Len(resps')  PROVE WriterAnswer(resps[i])'
    <3>1. PICK m : m = resps[i]  OBVIOUS
    <3>2. WriterAnswer(m) /\ m.num # number  BY <1>1, <1>2, <1>6, <1>12, <3>1 DEF WriterOnTheWay, Packets
    <3>3. resps'[i] = m  BY <1>6, <3>1
    <3> QED  BY <1>20, <3>2, <3>3
  <2>2. Answering' => WriterAnswer(srv.msg)'
    <3>1. PICK m : m = srv.msg  OBVIOUS
    <3>2. Answering => WriterAnswer(m) /\ m.num # number
      BY <1>1, <1>2, <1>12, <3>1 DEF WriterOnTheWay, Packets
    <3>3. srv'.msg = m /\ Answering' = Answering  BY <1>3, <3>1 DEF serverVars, Answering
    <3> QED  BY <1>20, <3>2, <3>3
  <2> QED  BY <1>6, <1>19, <2>1, <2>2 DEF WriterOnTheWay
<1>22. Covered'
  <2>1. \A b : Right(b)' <=> Right(b)  BY <1>3 DEF Right, serverVars
  <2>2. ASSUME NEW b, OnTheWay(b)  PROVE OnTheWay(b)'
    BY <1>5, <1>6, <2>2 DEF OnTheWay
  <2>3. user.call = "write" => \A b \in Chunk : OnTheWay(b)'
    <3>1. k \in 1 .. Len(reqs')  BY <1>5, <1>6
    <3> QED  BY <1>7, <1>9, <3>1 DEF OnTheWay, Chunk
  <2>4. Chunk' = Chunk  BY <1>11 DEF Chunk
  <2>5. IsSeq(stored)'  BY <1>1, <1>3 DEF Covered, serverVars
  <2>6. user'.pc = "written" <=> user.call = "write"  BY <1>11
  <2>7. user'.pc \in {"written", "wait"}  BY <1>11
  <2> HIDE DEF Right, OnTheWay, Chunk
  <2> QED  BY <1>1, <1>3, <1>6, <1>11, <2>1, <2>2, <2>3, <2>4, <2>5, <2>6, <2>7 DEF Covered
<1>23. WriterFile'
  <2>1. ~file.pipelined => Len(file'.reqs) <= 1 /\ (user'.pc # "written" => file'.reqs = <<>>)
    <3>1. Len(<<>>) = 0  BY EmptyIs
    <3>2. CASE user.call = "write"
      <4>1. IsSeq(<<>>) /\ Len(Append(<<>>, number)) = Len(<<>>) + 1  BY EmptyIs, AppendIs
      <4> QED  BY <1>11, <1>14, <3>1, <3>2, <4>1
    <3>3. CASE user.call # "write"  BY <1>11, <1>14, <3>1, <3>3
    <3> QED  BY <3>2, <3>3
  <2>2. file.handle # 0 => file.handle \in files \/ srv.pc = "gone" \/ (file.closed /\ NoWrites')
    BY <1>1, <1>17, <1>18 DEF WriterFile
  <2>3. file.closed => NoWrites' \/ (user.call = "close" /\ user'.pc = "wait")
    BY <1>1, <1>11, <1>17, <1>18 DEF WriterFile
  <2>4. UNCHANGED <<files, srv>>  BY <1>3 DEF serverVars
  <2>5. user'.pc = "written" => file'.reqs # <<>>
    <3>1. PICK w : w = Append(file.reqs, number)  OBVIOUS
    <3>2. IsSeq(w) /\ Len(w) = Len(file.reqs) + 1 /\ Len(file.reqs) \in Nat
      BY <1>4, <3>1, AppendIs, LenIs
    <3>3. w # <<>>  BY <3>2, LenIs
    <3> QED  BY <1>9, <1>11, <3>1, <3>3
  <2> QED  BY <1>1, <1>6, <1>11, <2>1, <2>2, <2>3, <2>4, <2>5 DEF WriterFile
<1>24. WriterUser'
  <2>1. \A n \in DOMAIN expecting' : expecting'[n] = "sync"  BY <1>1, <1>8 DEF WriterUser, Put
  <2>2. user'.call = "write" => IsWrite(user.req)'
    BY <1>11, <1>13 DEF IsWrite, Bytes
  <2>3. user'.pc \in {"written", "wait"} /\ (user'.pc = "written" => user'.call = "write")  BY <1>11
  <2>4. UNCHANGED threads  BY <1>3
  <2> HIDE DEF IsWrite
  <2> QED  BY <1>1, <1>3, <1>9, <1>11, <2>1, <2>2, <2>3, <2>4 DEF WriterUser
<1> QED  BY <1>21, <1>22, <1>23, <1>24 DEF WriterInv

\* Taking a response off the channel
LEMMA WriterLooks ==
  ASSUME Common, WriterInv, ReadResponse
  PROVE  WriterInv'
<1>0. DOMAIN user = UserFields /\ DOMAIN file = FileFields /\ Kinds  BY DEF Common, Shapes
<1>1. WriterUser /\ WriterFile /\ Covered /\ WriterOnTheWay  BY DEF WriterInv
<1>2. Packets  BY DEF Common
<1>3. /\ user.pc = "wait" /\ resps # <<>> /\ resps' = Tail(resps)
      /\ UNCHANGED <<use, reqs, up, serverVars, number, threads>>
      /\ expecting' = [n \in DOMAIN expecting \ {Head(resps).num} |-> expecting[n]]
  BY <1>1 DEF ReadResponse, WriterUser
<1>4. user.wait # 0  BY <1>2, <1>3 DEF Packets
<1>5. PICK m : m = Head(resps)  OBVIOUS
<1>6. IsSeq(resps)  BY <1>2 DEF Packets
<1>7. /\ m = resps[1] /\ 1 \in 1 .. Len(resps)
      /\ \A i \in 1 .. Len(resps') : resps'[i] = resps[i + 1] /\ i + 1 \in 1 .. Len(resps)
  BY <1>3, <1>5, <1>6, TakenIs
<1>8. WriterAnswer(m)  BY <1>1, <1>7 DEF WriterOnTheWay
<1>9. \A n \in DOMAIN expecting' : expecting'[n] = "sync"  BY <1>1, <1>3 DEF WriterUser
<1>10. ASSUME \A r : WriterAnswer(r) => WriterAnswer(r)',
              \A i \in 1 .. Len(reqs') : WriterRequest(i)', Answering' => WriterAnswer(srv.msg)'
       PROVE  WriterOnTheWay'
  <2>1. ASSUME NEW i \in 1 .. Len(resps')  PROVE WriterAnswer(resps[i])'
    <3>1. PICK r : r = resps[i + 1]  OBVIOUS
    <3>2. resps'[i] = r /\ WriterAnswer(r)'  BY <1>1, <1>7, <1>10, <3>1 DEF WriterOnTheWay
    <3> QED  BY <3>2
  <2> QED  BY <1>10, <2>1 DEF WriterOnTheWay
<1>11. \A b : Right(b)' <=> Right(b)  BY <1>3 DEF Right, serverVars
<1>12. \A b : OnTheWay(b)' <=> OnTheWay(b)  BY <1>3 DEF OnTheWay
<1>13. NoWrites' <=> NoWrites  BY <1>3 DEF NoWrites
<1>14. UNCHANGED <<use, reqs, up, srv, files, stored>>  BY <1>3 DEF serverVars
<1>15. CASE UNCHANGED <<file, user>>
  <2>1. /\ \A n : Awaits(n)' => Awaits(n)
        /\ \A n : LastWrite(n)' => LastWrite(n)
    BY <1>15 DEF Awaits, Awaiting, LastWrite
  <2>2. /\ \A r : WriterAnswer(r) => WriterAnswer(r)'
        /\ \A i \in 1 .. Len(reqs') : WriterRequest(i)'
        /\ Answering' => WriterAnswer(srv.msg)'
    BY <1>14, <1>15, <2>1, WriterAside
  <2>3. WriterOnTheWay'  BY <1>10, <2>2
  <2>4. Covered'
    <3>1. Chunk' = Chunk  BY <1>15 DEF Chunk
    <3> HIDE DEF Right, OnTheWay, Chunk
    <3> QED  BY <1>1, <1>11, <1>12, <1>14, <1>15, <3>1 DEF Covered
  <2>5. WriterFile'  BY <1>1, <1>13, <1>14, <1>15 DEF WriterFile
  <2>6. WriterUser'
    <3>1. IsWrite(user.req)' <=> IsWrite(user.req)  BY <1>15 DEF IsWrite, Bytes
    <3> HIDE DEF IsWrite
    <3> QED  BY <1>1, <1>3, <1>9, <1>14, <1>15, <3>1 DEF WriterUser
  <2> QED  BY <2>3, <2>4, <2>5, <2>6 DEF WriterInv
<1>16. CASE Response(m) /\ m.num = user.wait
  <2>1. user.call \in Requesting  BY <1>3 DEF Common, Asked
  <2>2. Awaits(m.num)  BY <1>3, <1>16 DEF Awaits, Awaiting
  <2>3. user.call \in WriteCalls  
    BY <1>1, <2>1 DEF WriterUser, Requesting, Paths, ChangesPath, ReadsPath, SetsPath, NamesPath
  <2>4. user.call \notin {"read", "list", "listiter"}
    BY <2>3 DEF WriteCalls, Paths, ChangesPath, ReadsPath, SetsPath, NamesPath
  <2>5. PICK v : v = m.v  OBVIOUS
  <2>6. \/ /\ Says(m, {"failure", "bad"}) /\ UNCHANGED file
           /\ user' = IF user.call = "close" THEN Return(user) ELSE Raise(user)
        \/ /\ ~Says(m, {"failure", "bad"})
           /\ \/ user.call = "open" /\ file' = NewFile(v[1], use.pipelined) /\ user' = Return(user)
              \/ user.call = "write" /\ user' = [user EXCEPT !.pc = "collect"] /\ UNCHANGED file
              \/ /\ user.call \notin {"open", "write", "close"}
                 /\ user' = Return([user EXCEPT !.got = v]) /\ UNCHANGED file
              \/ user.call = "close" /\ user' = Return(user) /\ UNCHANGED file
    BY <1>16, <2>1, <2>4, <2>5, ResponseIs
       DEF Paths, ChangesPath, ReadsPath, SetsPath, NamesPath
  <2>7. \/ /\ UNCHANGED file /\ user.call # "open" /\ user'.call = user.call /\ user'.pc = "idle"
           /\ user'.failed => Says(m, {"failure", "bad"}) /\ user.call # "close"
        \/ /\ user.call = "open" /\ file' = NewFile(v[1], use.pipelined) /\ user'.call = user.call
           /\ user'.pc = "idle" /\ ~user'.failed
        \/ /\ UNCHANGED file /\ user.call = "write" /\ user'.call = "write" /\ user'.pc = "collect"
           /\ user'.req = user.req /\ user'.want = user.want /\ ~Says(m, {"failure"})
    <3>1. Says(m, {"failure"}) => Says(m, {"failure", "bad"})  BY DEF Says
    <3>2. user.call = "open" => ~Says(m, {"failure", "bad"})
      BY <1>8, <2>2 DEF WriterAnswer, Says
    <3> HIDE DEF Says
    <3> QED  BY <1>0, <2>6, <3>1, <3>2 DEF UserFields, Return, Raise
  <2>8. user'.pc \in {"idle", "collect"}  BY <2>7
  <2>9. \A n : ~Awaits(n)'  BY <2>8 DEF Awaits, Awaiting
  <2>10. \A n : ~LastWrite(n)'
    <3>1. ~file.pipelined => file.reqs = <<>>  BY <1>1, <1>3 DEF WriterFile
    <3> QED  BY <2>7, <2>9, <3>1 DEF LastWrite
  <2>11. ASSUME Says(m, {"failure", "bad"})  PROVE use.fails \/ user.call = "close"
    <3>1. Says(m, {"failure"}) \/ Says(m, {"bad"})  BY <2>11 DEF Says
    <3> QED  BY <1>8, <2>2, <3>1 DEF WriterAnswer
  <2>12. CASE UNCHANGED file /\ user.call # "open" /\ user'.call = user.call /\ user'.pc = "idle"
              /\ (user'.failed => Says(m, {"failure", "bad"}) /\ user.call # "close")
    <3>1. WriterOnTheWay'  BY <1>10, <1>14, <2>9, <2>10, <2>12, WriterAside
    <3>2. Covered'
      <4> HIDE DEF Right, OnTheWay
      <4> QED  BY <1>1, <1>11, <1>12, <1>14, <2>12 DEF Covered
    <3>3. WriterFile'
      <4>1. user.call = "close" => NoWrites  BY <1>8, <2>2 DEF WriterAnswer
      <4>2. file.closed => NoWrites  BY <1>1, <4>1 DEF WriterFile
      <4> QED  BY <1>1, <1>3, <1>13, <1>14, <2>12, <4>2 DEF WriterFile
    <3>4. WriterUser'  BY <1>1, <1>3, <1>9, <1>14, <2>11, <2>12 DEF WriterUser
    <3> QED  BY <3>1, <3>2, <3>3, <3>4 DEF WriterInv
  <2>13. CASE user.call = "open" /\ file' = NewFile(v[1], use.pipelined) /\ user'.call = user.call
              /\ user'.pc = "idle" /\ ~user'.failed
    <3>1. v[1] \in Nat \ {0} /\ (v[1] \in files \/ srv.pc = "gone")
      BY <1>8, <2>2, <2>5, <2>13 DEF WriterAnswer
    <3>2. /\ file'.handle = v[1] /\ file'.realpos = 0 /\ ~file'.closed /\ ~file'.refused
          /\ file'.saved = "none" /\ file'.reqs = <<>>
      BY <2>13 DEF NewFile
    <3>3. file.handle = 0 /\ ~file.closed  BY <1>1, <1>3, <2>13 DEF WriterUser, WriterFile
    <3>4. WriterOnTheWay'  BY <1>10, <1>14, <2>9, <2>10, <3>3, WriterAside
    <3>5. Covered'
      <4> HIDE DEF Right, OnTheWay
      <4> QED  BY <1>1, <1>11, <1>12, <1>14, <2>13, <3>2 DEF Covered
    <3>6. WriterFile'
      <4>1. Len(<<>>) = 0  BY EmptyIs
      <4> QED  BY <1>1, <1>3, <1>14, <2>13, <3>1, <3>2, <4>1, SftpAssumption DEF WriterFile
    <3>7. WriterUser'  BY <1>1, <1>3, <1>9, <1>14, <2>13 DEF WriterUser
    <3> QED  BY <3>4, <3>5, <3>6, <3>7 DEF WriterInv
  <2>14. CASE UNCHANGED file /\ user.call = "write" /\ user'.call = "write" /\ user'.pc = "collect"
              /\ user'.req = user.req /\ user'.want = user.want /\ ~Says(m, {"failure"})
    <3>1. WriterOnTheWay'  BY <1>10, <1>14, <2>9, <2>10, <2>14, WriterAside
    <3>2. Covered'
      <4>1. ~file.pipelined => LastWrite(m.num)  BY <2>2, <2>14 DEF LastWrite
      <4>2. ~file.pipelined => \A b \in Chunk : Right(b)  BY <1>8, <2>14, <4>1 DEF WriterAnswer
      <4>3. Chunk' = Chunk  BY <2>14 DEF Chunk
      <4> HIDE DEF Right, OnTheWay, Chunk
      <4> QED  BY <1>1, <1>3, <1>11, <1>12, <1>14, <2>14, <4>2, <4>3 DEF Covered
    <3>3. WriterFile'
      <4>1. ~file.closed  BY <1>1, <1>3, <2>14 DEF WriterUser
      <4> QED  BY <1>1, <1>3, <1>13, <1>14, <2>14, <4>1 DEF WriterFile
    <3>4. WriterUser'
      <4>1. IsWrite(user.req)' <=> IsWrite(user.req)  BY <2>14 DEF IsWrite, Bytes
      <4> HIDE DEF IsWrite
      <4> QED  BY <1>1, <1>3, <1>9, <1>14, <2>14, <4>1 DEF WriterUser
    <3> QED  BY <3>1, <3>2, <3>3, <3>4 DEF WriterInv
  <2> QED  BY <2>7, <2>12, <2>13, <2>14
<1>17. \/ UNCHANGED <<file, user>>
       \/ Response(m) /\ m.num = user.wait
  <2>1. Dispatched(file) => UNCHANGED <<file, user>>  BY <1>4 DEF Dispatched
  <2>2. m.num \in DOMAIN expecting => expecting[m.num] # "file"  BY <1>1 DEF WriterUser
  <2> QED  BY <1>0, <1>5, <2>1, <2>2, ReadResponseIs
<1> QED  BY <1>15, <1>16, <1>17

\* A chunk has been written, as far as write() is concerned.
LEMMA WriterWrote ==
  ASSUME Common, WriterInv, user.pc \in {"written", "collect"}, WroteChunk,
         file.pipelined \/ (user.pc = "collect" /\ file.reqs = <<>>),
         UNCHANGED <<use, reqs, resps, up, srv, files, stored, expecting, threads>>
  PROVE  WriterInv'
<1>0. DOMAIN user = UserFields /\ DOMAIN file = FileFields  BY DEF Common, Shapes
<1>1. WriterUser /\ WriterFile /\ Covered  BY DEF WriterInv
<1>2. user.call = "write" /\ file.handle # 0 /\ ~file.closed  BY <1>1 DEF WriterUser
<1>3. /\ IsWrite(user.req) /\ user.req.off = file.realpos
      /\ user.want \in Nat \ {0} /\ file.realpos + user.want <= Length
      /\ Len(user.req.arg) = Least(user.want, MaxRequest)
  BY <1>1, <1>2 DEF WriterUser
<1>4. PICK n : n = Len(user.req.arg)  OBVIOUS
<1>5. n \in 1 .. user.want  BY <1>3, <1>4, SftpAssumption DEF Least
<1>6. file.realpos \in Nat  BY <1>1, SftpAssumption DEF WriterFile
<1>7. PICK f : f = [file EXCEPT !.realpos = @ + n]  OBVIOUS
<1>8. PICK u : u = [user EXCEPT !.want = @ - n]  OBVIOUS
<1>9. PICK v : v = WriteRest(u, f)  OBVIOUS
<1>10. file' = f /\ user' = IF u.want = 0 THEN Return(u) ELSE v
  BY <1>4, <1>7, <1>8, <1>9 DEF WroteChunk
<1>11. /\ f.handle = file.handle /\ f.realpos = file.realpos + n
       /\ f.pipelined = file.pipelined /\ f.refused = file.refused
       /\ f.saved = file.saved /\ f.closed = file.closed /\ f.reqs = file.reqs
  BY <1>0, <1>7 DEF FileFields
<1>12. DOMAIN u = UserFields /\ u.want = user.want - n /\ u.call = "write" /\ u.want \in Nat
  BY <1>0, <1>2, <1>3, <1>5, <1>8 DEF UserFields
<1>13. f.realpos \in Nat /\ f.realpos + u.want <= Length /\ f.realpos <= Length
  BY <1>3, <1>5, <1>6, <1>11, <1>12, SftpAssumption, SMTT(20)
<1>14. u.want # 0 =>
         /\ v.pc = "acquire" /\ v.call = "write" /\ v.want = u.want
         /\ v.req.t = "write" /\ v.req.h = f.handle /\ v.req.off = f.realpos
         /\ Len(v.req.arg) = Least(u.want, MaxRequest)
         /\ Len(v.req.arg) \in 1 .. u.want /\ Bytes(v.req.arg, f.realpos)
  BY <1>9, <1>12, <1>13, WriteRestIs
<1>15. u.want = 0 => Return(u).pc = "idle" /\ Return(u).call = "write" /\ ~Return(u).failed
  BY <1>12 DEF UserFields, Return
<1>16. user'.pc \in {"idle", "acquire"} /\ user'.call = "write"  BY <1>10, <1>14, <1>15
<1>17. \A k : ~Awaits(k)' /\ ~LastWrite(k)'  BY <1>16 DEF Awaits, Awaiting, LastWrite
<1>18. WriterOnTheWay'  BY <1>10, <1>11, <1>17, WriterQuiet
<1>19. \A b : (Right(b)' <=> Right(b)) /\ (OnTheWay(b)' <=> OnTheWay(b))  BY DEF Right, OnTheWay
<1>20. Covered'
  <2>1. \A b : b \in 1 .. f.realpos <=> b \in 1 .. file.realpos \/ b \in Chunk
    BY <1>3, <1>4, <1>5, <1>6, <1>11 DEF Chunk
  <2>2. ~file.pipelined => \A b \in 1 .. f.realpos : Right(b)
    BY <1>1, <2>1 DEF Covered
  <2>3. up /\ ~use.fails => \A b \in 1 .. f.realpos : Right(b) \/ OnTheWay(b)
    BY <1>1, <1>2, <2>1 DEF Covered
  <2> HIDE DEF Right, OnTheWay
  <2> QED  BY <1>1, <1>10, <1>11, <1>16, <1>19, <2>2, <2>3 DEF Covered
<1>21. WriterFile'
  <2>1. ~file.pipelined => Len(f.reqs) <= 1 /\ f.reqs = <<>>  BY <1>1, <1>11 DEF WriterFile
  <2>2. NoWrites' <=> NoWrites  BY DEF NoWrites
  <2> QED  BY <1>1, <1>2, <1>10, <1>11, <1>13, <1>16, <2>1, <2>2, SftpAssumption DEF WriterFile
<1>22. WriterUser'
  <2>1. CASE u.want = 0
    <3>1. user'.pc = "idle" /\ user'.call = "write" /\ ~user'.failed  BY <1>10, <1>15, <2>1
    <3> QED  BY <1>1, <3>1 DEF WriterUser, WriteCalls
  <2>2. CASE u.want # 0
    <3>1. user' = v /\ v.pc = "acquire" /\ v.call = "write"  BY <1>10, <1>14, <2>2
    <3>2. IsWrite(v.req)'  BY <1>2, <1>10, <1>11, <1>13, <1>14, <2>2 DEF IsWrite, Bytes
    <3> HIDE DEF IsWrite
    <3> QED  BY <1>1, <1>2, <1>10, <1>11, <1>12, <1>13, <1>14, <2>2, <3>1, <3>2 DEF WriterUser, WriteCalls
  <2> QED  BY <2>1, <2>2
<1> QED  BY <1>18, <1>20, <1>21, <1>22 DEF WriterInv

\* Whether to wait for responses, and waiting for the next
LEMMA WriterCollects ==
  ASSUME Common, WriterInv, AfterWrite \/ Collect
  PROVE  WriterInv'
<1>0. DOMAIN user = UserFields /\ DOMAIN file = FileFields  BY DEF Common, Shapes
<1>1. WriterUser /\ WriterFile /\ Covered  BY DEF WriterInv
<1>2. user.pc \in {"written", "collect"}  BY DEF AfterWrite, Collect
<1>3. user.call = "write" /\ ~file.closed /\ file.handle # 0  BY <1>1, <1>2 DEF WriterUser
<1>4. UNCHANGED <<use, reqs, resps, up, srv, files, stored, expecting, threads>>
  BY DEF AfterWrite, Collect, channelVars, serverVars, clientVars
<1>5. CASE WroteChunk /\ (file.pipelined \/ (user.pc = "collect" /\ file.reqs = <<>>))
  BY <1>2, <1>4, <1>5, WriterWrote
<1>6. \A b : (Right(b)' <=> Right(b)) /\ (OnTheWay(b)' <=> OnTheWay(b))  BY <1>4 DEF Right, OnTheWay
<1>7. NoWrites' <=> NoWrites  BY <1>4 DEF NoWrites
<1>8. CASE user.pc = "written" /\ user' = [user EXCEPT !.pc = "collect"] /\ UNCHANGED file
  <2>1. user'.pc = "collect" /\ user'.call = user.call /\ user'.req = user.req /\ user'.want = user.want
    BY <1>0, <1>8 DEF UserFields
  <2>2. \A n : ~Awaits(n)'  BY <2>1 DEF Awaits, Awaiting
  <2>3. \A n : LastWrite(n)' => LastWrite(n)  BY <1>2, <1>8, <2>1, <2>2 DEF LastWrite
  <2>4. WriterOnTheWay'  BY <1>4, <1>8, <2>1, <2>2, <2>3, WriterQuiet
  <2>5. Chunk' = Chunk  BY <2>1 DEF Chunk
  <2>6. ~file.pipelined => file.reqs # <<>>
    BY <1>1, <1>8 DEF WriterFile
  <2>7. Covered'
    <3> HIDE DEF Right, OnTheWay, Chunk
    <3> QED  BY <1>1, <1>2, <1>4, <1>6, <1>8, <2>1, <2>5, <2>6 DEF Covered
  <2>8. WriterFile'  BY <1>1, <1>3, <1>4, <1>7, <1>8, <2>1 DEF WriterFile
  <2>9. WriterUser'
    <3>1. IsWrite(user.req)' <=> IsWrite(user.req)  BY <1>8, <2>1 DEF IsWrite, Bytes
    <3> HIDE DEF IsWrite
    <3> QED  BY <1>1, <1>3, <1>4, <1>8, <2>1, <3>1 DEF WriterUser
  <2> QED  BY <2>4, <2>7, <2>8, <2>9 DEF WriterInv
<1>9. CASE /\ user.pc = "collect" /\ file.reqs # <<>>
           /\ user' = [user EXCEPT !.pc = "wait", !.wait = Head(file.reqs)]
           /\ file' = [file EXCEPT !.reqs = Tail(@)]
  <2>1. /\ user'.pc = "wait" /\ user'.call = user.call /\ user'.req = user.req /\ user'.want = user.want
        /\ user'.wait = Head(file.reqs)
        /\ file'.handle = file.handle /\ file'.realpos = file.realpos
        /\ file'.pipelined = file.pipelined /\ file'.refused = file.refused
        /\ file'.saved = file.saved /\ file'.closed = file.closed /\ file'.reqs = Tail(file.reqs)
    BY <1>0, <1>9 DEF UserFields, FileFields
  <2>2. \A n : LastWrite(n)' => LastWrite(n)
    BY <1>3, <1>9, <2>1 DEF LastWrite, Awaits, Awaiting
  <2>3. WriterOnTheWay'  BY <1>3, <1>4, <2>1, <2>2, WriterQuiet
  <2>4. Chunk' = Chunk  BY <2>1 DEF Chunk
  <2>5. Covered'
    <3> HIDE DEF Right, OnTheWay, Chunk
    <3> QED  BY <1>1, <1>3, <1>4, <1>6, <1>9, <2>1, <2>4 DEF Covered
  <2>6. ~file.pipelined => Len(file'.reqs) <= 1 /\ file'.reqs = <<>>
    <3>1. IsSeq(file.reqs)  BY DEF Common, Packets
    <3>2. PICK s : s = Tail(file.reqs)  OBVIOUS
    <3>3. IsSeq(s) /\ Len(s) = Len(file.reqs) - 1 /\ Len(file.reqs) \in Nat \ {0}
      BY <1>9, <3>1, <3>2, TakenIs
    <3>4. Len(s) \in Nat /\ (s # <<>> => Len(s) > 0)  BY <3>3, LenIs
    <3>5. ~file.pipelined => Len(file.reqs) <= 1  BY <1>1 DEF WriterFile
    <3> QED  BY <2>1, <3>2, <3>3, <3>4, <3>5
  <2>7. WriterFile'  BY <1>1, <1>3, <1>4, <1>7, <2>1, <2>6 DEF WriterFile
  <2>8. WriterUser'
    <3>1. IsWrite(user.req)' <=> IsWrite(user.req)  BY <2>1 DEF IsWrite, Bytes
    <3>2. user.req.t = "write" /\ IsWrite(user.req)  BY <1>1, <1>2, <1>3 DEF WriterUser
    <3> HIDE DEF IsWrite
    <3> QED  BY <1>1, <1>3, <1>4, <1>9, <2>1, <3>1, <3>2 DEF WriterUser
  <2> QED  BY <2>3, <2>5, <2>7, <2>8 DEF WriterInv
<1> QED  BY <1>5, <1>8, <1>9 DEF AfterWrite, Collect

\* What the server does with a request of a program that writes
LEMMA ServeWrites ==
  ASSUME Serve, NEW m, m = Head(reqs), m.t \in WriteCalls
  PROVE  \E a :
           /\ \A c : Says(srv'.msg, c) <=> Says(a, c)
           /\ srv'.msg.t = a.t /\ srv'.msg.v = a.v
           /\ Says(a, {"failure"}) => use.fails
           /\ Says(a, {"bad"}) => m.t = "close" \/ (m.t \in {"write", "fstat"} /\ m.h \notin files)
           /\ m.t = "open" => a.t = "handle" /\ a.v[1] = nextHandle /\ files' = files \cup {nextHandle}
           /\ m.t = "close" => files' = files \ {m.h}
           /\ m.t \notin {"open", "close"} => files' = files
           /\ m.t = "write" /\ Says(a, {"ok"}) => stored' = Written(stored, m.off, m.arg)
           /\ ~(m.t = "write" /\ Says(a, {"ok"})) => stored' = stored
           /\ m.t = "write" /\ m.h \in files => Says(a, {"ok"}) \/ Says(a, {"failure"})
<1> DEFINE fails == use.fails /\ m.t \notin {"open", "close", "read", "opendir", "readdir"}
<1>1. PICK a \in {Answer(m)} \cup (IF fails THEN {Status("failure")} ELSE {}) :
        /\ srv' = [pc |-> "replying", msg |-> [num |-> m.num, t |-> a.t, v |-> a.v]]
        /\ files' = CASE m.t = "open"  -> files \cup {nextHandle}
                      [] m.t = "close" -> files \ {m.h}
                      [] OTHER         -> files
        /\ stored' = IF m.t = "write" /\ Says(a, {"ok"}) THEN Written(stored, m.off, m.arg) ELSE stored
  BY DEF Serve
<1>2. m.t = "open" => m.t # "close"  OBVIOUS
<1>3. /\ m.t = "open" => files' = files \cup {nextHandle}
      /\ m.t = "close" => files' = files \ {m.h}
      /\ m.t \notin {"open", "close"} => files' = files
  BY <1>1, <1>2
<1>4. srv'.msg.t = a.t /\ srv'.msg.v = a.v  BY <1>1
<1>5. \A c : Says(srv'.msg, c) <=> Says(a, c)  BY <1>4 DEF Says
<1>6. CASE fails /\ a = Status("failure")
  <2>1. a.t = "status" /\ a.v[1] = "failure"  BY <1>6 DEF Status
  <2>2. Says(a, {"failure"}) /\ ~Says(a, {"bad"}) /\ ~Says(a, {"ok"})  BY <2>1 DEF Says
  <2>3. m.t # "open"  BY <1>6
  <2> QED  BY <1>1, <1>3, <1>4, <1>5, <1>6, <2>2, <2>3
<1>7. CASE a = Answer(m)
  <2>1. CASE m.t = "open"
    <3>1. a.t = "handle" /\ a.v[1] = nextHandle  BY <1>7, <2>1 DEF Answer
    <3>2. ~Says(a, {"failure"}) /\ ~Says(a, {"bad"})  BY <3>1 DEF Says
    <3> QED  BY <1>1, <1>3, <1>4, <1>5, <2>1, <3>1, <3>2
  <2>2. CASE m.t = "close"
    <3>1. a = Status(IF m.h \in files \cup DOMAIN folders THEN "ok" ELSE "bad")
      BY <1>7, <2>2 DEF Answer
    <3>2. ~Says(a, {"failure"})  BY <3>1 DEF Says, Status
    <3> QED  BY <1>1, <1>3, <1>4, <1>5, <2>2, <3>2
  <2>3. CASE m.t = "write"
    <3>1. a = Status(IF m.h \in files THEN "ok" ELSE "bad")  BY <1>7, <2>3 DEF Answer
    <3>2. /\ ~Says(a, {"failure"}) /\ (m.h \in files => Says(a, {"ok"}))
          /\ Says(a, {"bad"}) => m.h \notin files
      BY <3>1 DEF Says, Status
    <3> QED  BY <1>1, <1>3, <1>4, <1>5, <2>3, <3>2
  <2>4. CASE m.t = "fstat"
    <3>1. a = IF m.h \in files THEN [t |-> "attrs", v |-> <<Len(stored)>>] ELSE Status("bad")
      BY <1>7, <2>4 DEF Answer
    <3>2. ~Says(a, {"failure"}) /\ (Says(a, {"bad"}) => m.h \notin files)
      BY <3>1 DEF Says, Status
    <3> QED  BY <1>1, <1>3, <1>4, <1>5, <2>4, <3>2
  <2>5. CASE m.t = "fsetstat"
    <3>1. a = IF m.h \in files THEN Status("ok") ELSE [t |-> "5", v |-> <<>>]
      BY <1>7, <2>5 DEF Answer
    <3>2. ~Says(a, {"failure"}) /\ ~Says(a, {"bad"})  BY <3>1 DEF Says, Status
    <3> QED  BY <1>1, <1>3, <1>4, <1>5, <2>5, <3>2
  <2>6. CASE m.t \in Paths
    <3>0. m.t \in {"stat", "lstat", "readlink", "realpath", "remove", "rename", "mkdir", "rmdir",
                   "symlink", "setstat"}
      BY <2>6 DEF Paths, ChangesPath, ReadsPath, SetsPath, NamesPath
    <3>1. ~Says(a, {"failure"}) /\ ~Says(a, {"bad"})
      <4>1. CASE m.t \in {"stat", "lstat"}
        <5>1. a = [t |-> "attrs", v |-> <<Len(stored)>>]  BY <1>7, <4>1 DEF Answer
        <5> QED  BY <5>1 DEF Says
      <4>2. CASE m.t \in {"readlink", "realpath"}
        <5>1. a = [t |-> "name", v |-> <<1>>]  BY <1>7, <4>2 DEF Answer
        <5> QED  BY <5>1 DEF Says
      <4>3. CASE m.t \in {"remove", "rename", "mkdir", "rmdir", "symlink", "setstat"}
        <5>1. a = Status("ok")  BY <1>7, <4>3 DEF Answer
        <5> QED  BY <5>1 DEF Says, Status
      <4> QED  BY <3>0, <4>1, <4>2, <4>3
    <3>2. m.t \notin {"open", "close", "write"}  BY <3>0
    <3> QED  BY <1>1, <1>3, <1>4, <1>5, <3>1, <3>2
  <2> QED  BY <2>1, <2>2, <2>3, <2>4, <2>5, <2>6 DEF WriteCalls
<1> QED  BY <1>1, <1>6, <1>7

\* The server handles a request: a write that it does not refuse puts the right
\* bytes into the file.
LEMMA WriterServes ==
  ASSUME Common, WriterInv, Serve
  PROVE  WriterInv'
<1>1. WriterOnTheWay /\ Covered /\ WriterFile /\ WriterUser /\ Packets  BY DEF WriterInv, Common
<1>2. IsSeq(reqs) /\ nextHandle \in Nat \ {0}  BY <1>1 DEF Packets
<1>3. /\ IsSeq(reqs') /\ Len(reqs) \in Nat \ {0} /\ Len(reqs') = Len(reqs) - 1
      /\ \A i \in 1 .. Len(reqs') : reqs'[i] = reqs[i + 1] /\ i + 1 \in 1 .. Len(reqs)
      /\ 1 \in 1 .. Len(reqs) /\ Head(reqs) = reqs[1]
      /\ srv.pc = "reading" /\ srv'.pc = "replying" /\ srv'.msg.num = reqs[1].num
      /\ UNCHANGED <<use, resps, up, clientVars, file, threads, user>>
  BY <1>2, ServeIs
<1>4. PICK m : m = reqs[1]  OBVIOUS
<1>5. /\ m.t \in WriteCalls
      /\ m.t = "write" => IsWrite(m)
      /\ m.t \in {"fstat", "fsetstat"} => m.h = file.handle /\ file.handle # 0
      /\ m.t = "close" => file.closed /\ \A j \in 2 .. Len(reqs) : reqs[j].t # "write"
      /\ Awaits(m.num) /\ user.call # "write" => Made(m)
      /\ LastWrite(m.num) => Made(m)
  BY <1>1, <1>3, <1>4 DEF WriterOnTheWay, WriterRequest
<1>6. PICK a :
        /\ \A c : Says(srv'.msg, c) <=> Says(a, c)
        /\ srv'.msg.t = a.t /\ srv'.msg.v = a.v
        /\ Says(a, {"failure"}) => use.fails
        /\ Says(a, {"bad"}) => m.t = "close" \/ (m.t \in {"write", "fstat"} /\ m.h \notin files)
        /\ m.t = "open" => a.t = "handle" /\ a.v[1] = nextHandle /\ files' = files \cup {nextHandle}
        /\ m.t = "close" => files' = files \ {m.h}
        /\ m.t \notin {"open", "close"} => files' = files
        /\ m.t = "write" /\ Says(a, {"ok"}) => stored' = Written(stored, m.off, m.arg)
        /\ ~(m.t = "write" /\ Says(a, {"ok"})) => stored' = stored
        /\ m.t = "write" /\ m.h \in files => Says(a, {"ok"}) \/ Says(a, {"failure"})
  BY <1>3, <1>4, <1>5, ServeWrites
<1>7. up  BY <1>1, <1>2, <1>3, LenIs DEF WriterFile
<1>8. m.t = "write" => m.h \in files
  <2>1. m.t = "write" => ~NoWrites  BY <1>3, <1>4 DEF NoWrites
  <2> QED  BY <1>1, <1>3, <1>5, <2>1 DEF WriterFile, IsWrite
<1>9. /\ IsSeq(stored') /\ \A b : Right(b) => Right(b)'
      /\ m.t = "write" /\ Says(a, {"ok"}) => \A b \in m.off + 1 .. m.off + Len(m.arg) : Right(b)'
  <2>1. CASE m.t = "write" /\ Says(a, {"ok"})
    <3>1. /\ m.off \in Nat /\ Len(m.arg) \in Nat /\ \A i \in 1 .. Len(m.arg) : m.arg[i] = m.off + i
      BY <1>5, <2>1 DEF IsWrite, Bytes
    <3>2. IsSeq(stored) /\ stored' = Written(stored, m.off, m.arg)  BY <1>1, <1>6, <2>1 DEF Covered
    <3> QED  BY <3>1, <3>2, WriteRight
  <2>2. CASE ~(m.t = "write" /\ Says(a, {"ok"}))
    <3>1. stored' = stored  BY <1>6, <2>2
    <3> QED  BY <1>1, <2>2, <3>1 DEF Covered, Right
  <2> QED  BY <2>1, <2>2
<1>10. NoWrites => NoWrites'  BY <1>3 DEF NoWrites
<1>11. m.t = "close" => NoWrites'
  <2>1. ASSUME m.t = "close", NEW i \in 1 .. Len(reqs')  PROVE reqs'[i].t # "write"
    <3>1. i + 1 \in 2 .. Len(reqs) /\ reqs'[i] = reqs[i + 1]  BY <1>3
    <3> QED  BY <1>5, <2>1, <3>1
  <2> QED  BY <2>1 DEF NoWrites
<1>12. UNCHANGED <<user, file, use, resps, up, expecting, threads>>  BY <1>3 DEF clientVars
<1>13. /\ \A n : Awaits(n)' <=> Awaits(n)
       /\ \A n : LastWrite(n)' <=> LastWrite(n)
       /\ \A r : IsWrite(r)' <=> IsWrite(r)
       /\ \A r : Made(r)' <=> Made(r)
       /\ Chunk' = Chunk
  <2>1. \A n : Awaits(n)' <=> Awaits(n)  BY <1>12 DEF Awaits, Awaiting
  <2>2. \A n : LastWrite(n)' <=> LastWrite(n)  BY <1>12, <2>1 DEF LastWrite
  <2>3. \A r : IsWrite(r)' <=> IsWrite(r)  BY <1>12 DEF IsWrite, Bytes
  <2> QED  BY <1>12, <2>1, <2>2, <2>3 DEF Made, Chunk
<1>14. user.pc # "store"  BY <1>1 DEF WriterUser
<1>15. \A n : Awaits(n) => user.pc = "wait"  BY <1>14 DEF Awaits, Awaiting
<1>16. Awaits(m.num) => m.t = user.call \/ user.call = "write"
  BY <1>1, <1>5, <1>15 DEF Made, WriterUser
<1>17. LastWrite(m.num) => m.t = "write" /\ m.off = user.req.off /\ m.arg = user.req.arg
  <2>1. LastWrite(m.num) => user.pc # "idle" /\ user.call = "write"
    BY <1>15 DEF LastWrite
  <2> QED  BY <1>1, <1>5, <2>1 DEF Made, WriterUser
<1>18. ASSUME NEW i \in 1 .. Len(reqs')  PROVE WriterRequest(i)'
  <2>1. PICK r : r = reqs[i + 1]  OBVIOUS
  <2>2. i + 1 \in 1 .. Len(reqs) /\ reqs'[i] = r  BY <1>3, <2>1
  <2>3. WriterRequest(i + 1)  BY <1>1, <2>2 DEF WriterOnTheWay
  <2>4. /\ r.t \in WriteCalls
        /\ r.t = "write" => IsWrite(r)
        /\ r.t \in {"fstat", "fsetstat"} => r.h = file.handle /\ file.handle # 0
        /\ r.t = "close" => file.closed
        /\ Awaits(r.num) /\ user.call # "write" => Made(r)
        /\ LastWrite(r.num) => Made(r)
    BY <2>1, <2>3 DEF WriterRequest
  <2>5. ASSUME r.t = "close", NEW j \in i + 1 .. Len(reqs')  PROVE reqs'[j].t # "write"
    <3>1. j \in 1 .. Len(reqs') /\ j + 1 \in i + 1 + 1 .. Len(reqs)  BY <1>3
    <3>2. reqs'[j] = reqs[j + 1]  BY <1>3, <3>1
    <3> QED  BY <2>1, <2>3, <2>5, <3>1, <3>2 DEF WriterRequest
  <2> HIDE DEF IsWrite, Made
  <2> QED  BY <1>12, <1>13, <2>2, <2>4, <2>5 DEF WriterRequest
<1>19. ASSUME NEW n, WriterAnswer(n)  PROVE WriterAnswer(n)'
  <2>1. Says(n, {"bad"})' = Says(n, {"bad"}) /\ Says(n, {"failure"})' = Says(n, {"failure"})  BY DEF Says
  <2>2. ASSUME Awaits(n.num), user.call = "open"
        PROVE  n.t = "handle" /\ n.v[1] \in Nat \ {0} /\ (n.v[1] \in files' \/ srv'.pc = "gone")
    <3>1. n.t = "handle" /\ n.v[1] \in Nat \ {0} /\ n.v[1] \in files
      BY <1>3, <1>19, <2>2 DEF WriterAnswer
    <3>2. ~file.closed  BY <1>1, <1>15, <2>2 DEF WriterUser, WriterFile
    <3>3. m.t # "close"  BY <1>5, <3>2
    <3> QED  BY <1>6, <3>1, <3>3
  <2>3. LastWrite(n.num) /\ ~Says(n, {"failure"}) => \A b \in Chunk : Right(b)'
    BY <1>9, <1>19 DEF WriterAnswer
  <2> HIDE DEF Right, Chunk
  <2> QED  BY <1>10, <1>12, <1>13, <1>19, <2>1, <2>2, <2>3 DEF WriterAnswer
<1>20. WriterOnTheWay'
  <2>1. ASSUME NEW i \in 1 .. Len(resps)  PROVE WriterAnswer(resps[i])'
    <3>1. PICK n : n = resps[i]  OBVIOUS
    <3>2. WriterAnswer(n)'  BY <1>1, <1>19, <3>1 DEF WriterOnTheWay
    <3>3. resps'[i] = n  BY <1>12, <3>1
    <3> QED  BY <3>2, <3>3
  <2>2. WriterAnswer(srv.msg)'
    <3>1. PICK n : n = srv'.msg  OBVIOUS
    <3>2. n.num = m.num /\ n.t = a.t /\ n.v = a.v /\ \A c : Says(n, c) <=> Says(a, c)
      BY <1>3, <1>4, <1>6, <3>1
    <3>3. Says(n, {"failure"}) => use.fails  BY <1>6, <3>2
    <3>4. ASSUME Says(n, {"bad"})  PROVE file.closed /\ (Awaits(n.num) => user.call = "close")
      <4>1. m.t = "close" \/ (m.t = "fstat" /\ m.h \notin files)  BY <1>6, <1>8, <3>2, <3>4
      <4>2. file.closed
        BY <1>1, <1>3, <1>5, <4>1 DEF WriterFile
      <4>3. Awaits(n.num) => user.call \notin {"write", "fstat"}
        BY <1>1, <1>15, <4>2 DEF WriterUser
      <4> QED  BY <1>16, <3>2, <4>1, <4>2, <4>3
    <3>5. Awaits(n.num) /\ user.call = "open" =>
            n.t = "handle" /\ n.v[1] \in Nat \ {0} /\ (n.v[1] \in files' \/ srv'.pc = "gone")
      BY <1>2, <1>6, <1>16, <3>2
    <3>6. Awaits(n.num) /\ user.call = "close" => NoWrites'  BY <1>11, <1>16, <3>2
    <3>7. LastWrite(n.num) /\ ~Says(n, {"failure"}) => \A b \in Chunk : Right(b)'
      <4>1. ASSUME LastWrite(n.num), ~Says(n, {"failure"})  PROVE \A b \in Chunk : Right(b)'
        <5>1. m.t = "write" /\ m.off = user.req.off /\ m.arg = user.req.arg
          BY <1>17, <3>2, <4>1
        <5>2. Says(a, {"ok"})  BY <1>6, <1>8, <3>2, <4>1, <5>1
        <5> QED  BY <1>9, <5>1, <5>2 DEF Chunk
      <4> QED  BY <4>1
    <3>8. Says(n, {"bad"})' = Says(n, {"bad"}) /\ Says(n, {"failure"})' = Says(n, {"failure"})  BY DEF Says
    <3>9. WriterAnswer(n)'
      <4> HIDE DEF Right, Chunk
      <4> QED  BY <1>12, <1>13, <3>3, <3>4, <3>5, <3>6, <3>7, <3>8 DEF WriterAnswer
    <3> QED  BY <3>1, <3>9
  <2> QED  BY <1>12, <1>18, <2>1, <2>2 DEF WriterOnTheWay
<1>21. ~use.fails => \A b : OnTheWay(b) => OnTheWay(b)' \/ Right(b)'
  <2>1. ASSUME ~use.fails, NEW b, OnTheWay(b)  PROVE OnTheWay(b)' \/ Right(b)'
    <3>1. PICK i \in 1 .. Len(reqs) :
            reqs[i].t = "write" /\ b \in reqs[i].off + 1 .. reqs[i].off + Len(reqs[i].arg)
      BY <2>1 DEF OnTheWay
    <3>2. CASE i = 1
      <4>1. m.t = "write" /\ b \in m.off + 1 .. m.off + Len(m.arg)  BY <1>4, <3>1, <3>2
      <4>2. Says(a, {"ok"})  BY <1>6, <1>8, <2>1, <4>1
      <4> QED  BY <1>9, <4>1, <4>2
    <3>3. CASE i # 1
      <4>1. PICK k : k = i - 1  OBVIOUS
      <4>2. k \in 1 .. Len(reqs') /\ k + 1 = i  BY <1>3, <3>3, <4>1
      <4>3. reqs'[k] = reqs[i]  BY <1>3, <4>2
      <4> QED  BY <3>1, <4>2, <4>3 DEF OnTheWay
    <3> QED  BY <3>2, <3>3
  <2> QED  BY <2>1
<1>22. Covered'
  <2> HIDE DEF Right, OnTheWay, Chunk
  <2> QED  BY <1>1, <1>9, <1>12, <1>13, <1>21 DEF Covered
<1>23. WriterFile'
  <2>1. file.handle # 0 => file.handle \in files' \/ srv'.pc = "gone" \/ (file.closed /\ NoWrites')
    BY <1>1, <1>3, <1>5, <1>6, <1>10, <1>11 DEF WriterFile
  <2> QED  BY <1>1, <1>7, <1>10, <1>12, <2>1 DEF WriterFile
<1>24. WriterUser'  BY <1>1, <1>12, <1>13 DEF WriterUser
<1> QED  BY <1>20, <1>22, <1>23, <1>24 DEF WriterInv

\* The server sends a response, or has nothing more to do.
LEMMA WriterReplies ==
  ASSUME Common, WriterInv, Reply \/ ServerEnds \/ Drop
  PROVE  WriterInv'
<1>1. WriterOnTheWay /\ Covered /\ WriterFile /\ WriterUser /\ Packets  BY DEF WriterInv, Common
<1>2. IsSeq(reqs) /\ IsSeq(resps)  BY <1>1 DEF Packets
<1>3. UNCHANGED <<use, stored, clientVars, file, threads, user>>
      /\ (files' = files \/ srv'.pc = "gone") /\ (srv'.pc = "gone" \/ srv.pc # "gone" \/ srv' = srv)
  BY DEF Reply, ServerEnds, Drop, serverVars
<1>4. reqs' = reqs \/ (reqs' = <<>> /\ ~up')  BY DEF Reply, ServerEnds, Drop, channelVars
<1>5. up' => up  BY DEF Reply, ServerEnds, Drop, channelVars
<1>6. UNCHANGED expecting  BY <1>3 DEF clientVars
<1>7. /\ \A n : Awaits(n)' <=> Awaits(n)
      /\ \A n : LastWrite(n)' <=> LastWrite(n)
      /\ \A r : IsWrite(r)' <=> IsWrite(r)
      /\ \A r : Made(r)' <=> Made(r)
      /\ \A b : Right(b)' <=> Right(b)
      /\ Chunk' = Chunk
  <2>1. \A n : Awaits(n)' <=> Awaits(n)  BY <1>3 DEF Awaits, Awaiting
  <2>2. \A n : LastWrite(n)' <=> LastWrite(n)  BY <1>3, <2>1 DEF LastWrite
  <2>3. \A r : IsWrite(r)' <=> IsWrite(r)  BY <1>3 DEF IsWrite, Bytes
  <2> QED  BY <1>3, <2>1, <2>2, <2>3 DEF Made, Chunk, Right
<1>8. reqs' = <<>> => Len(reqs') = 0 /\ NoWrites'  BY EmptyIs DEF NoWrites
<1>9. NoWrites => NoWrites'  BY <1>4, <1>8 DEF NoWrites
<1>10. ASSUME NEW n, WriterAnswer(n)  PROVE WriterAnswer(n)'
  <2>1. Says(n, {"bad"})' = Says(n, {"bad"}) /\ Says(n, {"failure"})' = Says(n, {"failure"})  BY DEF Says
  <2>2. Awaits(n.num) /\ user.call = "open" =>
          n.t = "handle" /\ n.v[1] \in Nat \ {0} /\ (n.v[1] \in files' \/ srv'.pc = "gone")
    BY <1>3, <1>10 DEF WriterAnswer
  <2> HIDE DEF Right, Chunk
  <2> QED  BY <1>3, <1>7, <1>9, <1>10, <2>1, <2>2 DEF WriterAnswer
<1>11. ASSUME NEW i \in 1 .. Len(reqs')  PROVE WriterRequest(i)'
  <2>1. reqs' = reqs  BY <1>4, <1>8
  <2>2. PICK r : r = reqs[i]  OBVIOUS
  <2>3. WriterRequest(i)  BY <1>1, <2>1 DEF WriterOnTheWay
  <2> HIDE DEF IsWrite, Made
  <2> QED  BY <1>3, <1>7, <2>1, <2>2, <2>3 DEF WriterRequest
<1>12. \A i \in 1 .. Len(resps') : WriterAnswer(resps[i])'
  <2>1. CASE Reply
    <3>1. /\ Len(resps) \in Nat /\ Len(resps') = Len(resps) + 1
          /\ \A i \in 1 .. Len(resps) : resps'[i] = resps[i]
          /\ resps'[Len(resps) + 1] = srv.msg /\ srv.pc = "replying"
      BY <1>2, <2>1, ReplyIs
    <3>2. ASSUME NEW i \in 1 .. Len(resps')  PROVE WriterAnswer(resps[i])'
      <4>1. PICK n : n = resps'[i]  OBVIOUS
      <4>2. i \in 1 .. Len(resps) \/ i = Len(resps) + 1  BY <3>1
      <4>3. WriterAnswer(n)
        <5>1. CASE i \in 1 .. Len(resps)
          <6>1. n = resps[i]  BY <3>1, <4>1, <5>1
          <6> QED  BY <1>1, <5>1, <6>1 DEF WriterOnTheWay
        <5>2. CASE i = Len(resps) + 1
          <6>1. n = srv.msg /\ Answering  BY <3>1, <4>1, <5>2 DEF Answering
          <6> QED  BY <1>1, <6>1 DEF WriterOnTheWay
        <5> QED  BY <4>2, <5>1, <5>2
      <4> QED  BY <1>10, <4>1, <4>3
    <3> QED  BY <3>2
  <2>2. CASE ServerEnds \/ Drop
    <3>1. \A i \in 1 .. Len(resps') : i \in 1 .. Len(resps) /\ resps'[i] = resps[i]
      <4>1. CASE ServerEnds
        <5>1. resps' = resps  BY <4>1 DEF ServerEnds, channelVars
        <5> QED  BY <5>1
      <4>2. CASE Drop  BY <1>2, <4>2, DropIs
      <4> QED  BY <2>2, <4>1, <4>2
    <3>2. ASSUME NEW i \in 1 .. Len(resps')  PROVE WriterAnswer(resps[i])'
      <4>1. PICK n : n = resps'[i]  OBVIOUS
      <4>2. n = resps[i] /\ i \in 1 .. Len(resps)  BY <3>1, <4>1
      <4>3. WriterAnswer(n)  BY <1>1, <4>2 DEF WriterOnTheWay
      <4> QED  BY <1>10, <4>1, <4>3
    <3> QED  BY <3>2
  <2> QED  BY <2>1, <2>2
<1>13. Answering' => WriterAnswer(srv.msg)'
  <2>1. PICK n : n = srv.msg  OBVIOUS
  <2>2. Answering' => srv' = srv  BY DEF Answering, Reply, ServerEnds, Drop, serverVars
  <2>3. Answering' => WriterAnswer(n)'  BY <1>1, <1>10, <2>1, <2>2 DEF WriterOnTheWay, Answering
  <2> QED  BY <2>1, <2>2, <2>3
<1>14. WriterOnTheWay'  BY <1>11, <1>12, <1>13 DEF WriterOnTheWay
<1>15. up' => \A b : OnTheWay(b) => OnTheWay(b)'
  <2>1. up' => reqs' = reqs  BY <1>4
  <2> QED  BY <2>1 DEF OnTheWay
<1>16. Covered'
  <2> HIDE DEF Right, OnTheWay, Chunk
  <2> QED  BY <1>1, <1>3, <1>5, <1>7, <1>15 DEF Covered
<1>17. WriterFile'
  <2>1. file.handle # 0 => file.handle \in files' \/ srv'.pc = "gone" \/ (file.closed /\ NoWrites')
    BY <1>1, <1>3, <1>9 DEF WriterFile
  <2>2. ~up' => reqs' = <<>>
    BY <1>1 DEF WriterFile, Reply, ServerEnds, Drop, channelVars
  <2> QED  BY <1>1, <1>3, <1>9, <2>1, <2>2 DEF WriterFile
<1>18. WriterUser'  BY <1>1, <1>3, <1>5, <1>6, <1>7 DEF WriterUser
<1> QED  BY <1>14, <1>16, <1>17, <1>18 DEF WriterInv

\* Every step of a program that writes
LEMMA WriterKept ==
  ASSUME Common, Writes, WriterInv, [Next]_vars
  PROVE  WriterInv'
<1>1. WriterUser  BY DEF WriterInv
<1>2. ASSUME NEW t \in Threads  PROVE ~ThreadStep(t)
  BY <1>1, <1>2 DEF WriterUser, ThreadStep, TakePrefetchLock, TakeLock, SendPrefetch, NoteExtent,
     PrefetchDies
<1>3. CASE Call  BY <1>3, WriterCall
<1>4. CASE UserStep
  <2>1. ~StorePrefetched /\ ~ReadPrefetch /\ ~ReadRaw /\ ~RawFails
    BY <1>1 DEF WriterUser, StorePrefetched, ReadPrefetch, ReadRaw, RawFails
  <2> QED  BY <1>4, <2>1, WriterPlain, WriterSends, WriterLooks, WriterWrote, WriterCollects DEF UserStep
<1>5. CASE ServerStep \/ Drop  BY <1>5, WriterServes, WriterReplies DEF ServerStep
<1>6. CASE UNCHANGED vars
  <2>1. UNCHANGED <<use, reqs, resps, up, srv, files, stored, expecting, file, threads, user>>
    BY <1>6 DEF vars, channelVars, serverVars, clientVars
  <2> QED
    BY <2>1 DEF WriterInv, WriterOnTheWay, WriterRequest, WriterAnswer, Covered, WriterFile, WriterUser,
       Answering, Awaits, Awaiting, LastWrite, IsWrite, Made, Bytes, Right, OnTheWay, NoWrites, Chunk, Says
<1> QED  BY <1>2, <1>3, <1>4, <1>5, <1>6 DEF Next

\* The bytes of the file up to p, once they are right
LEMMA RightIs ==
  ASSUME IsSeq(stored), NEW p \in 0 .. Length, \A b \in 1 .. p : Right(b)
  PROVE  Slice(stored, 0, p) = Slice(Content, 0, p)
<1>0. Length \in Nat  BY SftpAssumption
<1>1. PICK s : s = stored  OBVIOUS
<1>2. PICK c : c = Content  OBVIOUS
<1>3. IsSeq(s) /\ Len(s) \in Nat  BY <1>1, LenIs
<1>4. DOMAIN c = 1 .. Length /\ \A i \in 1 .. Length : c[i] = i  BY <1>2 DEF Content
<1>5. IsSeq(c) /\ Len(c) = Length
  <2>1. c = [i \in DOMAIN c |-> c[i]]  BY <1>2 DEF Content
  <2> QED  BY <1>0, <1>4, <2>1, FunctionIs
<1>6. \A b \in 1 .. p : b \in 1 .. Len(s) /\ s[b] = b  BY <1>1 DEF Right
<1>7. p \in 0 .. Len(s)
  <2>1. CASE p = 0  BY <1>3, <2>1
  <2>2. CASE p > 0
    <3>1. p \in 1 .. p  BY <2>2
    <3>2. p \in 1 .. Len(s)  BY <1>6, <3>1
    <3> QED  BY <1>3, <3>2
  <2> QED  BY <1>0, <2>1, <2>2
<1>8. Slice(s, 0, p) = SubSeq(s, 1, p) /\ Slice(c, 0, p) = SubSeq(c, 1, p)
  <2>1. Least(0 + p, Len(s)) = p /\ Least(0 + p, Len(c)) = p
    BY <1>0, <1>3, <1>5, <1>7 DEF Least
  <2> QED  BY <2>1 DEF Slice
<1>9. /\ IsSeq(SubSeq(s, 1, p)) /\ Len(SubSeq(s, 1, p)) = p
      /\ \A i \in 1 .. p : SubSeq(s, 1, p)[i] = s[i]
  <2>1. /\ IsSeq(SubSeq(s, 1, p)) /\ Len(SubSeq(s, 1, p)) = IF 1 <= p THEN p - 1 + 1 ELSE 0
        /\ \A i \in 1 .. p - 1 + 1 : SubSeq(s, 1, p)[i] = s[1 + i - 1]
    BY <1>3, <1>7, SubSeqIs
  <2> QED  BY <1>0, <2>1
<1>10. /\ IsSeq(SubSeq(c, 1, p)) /\ Len(SubSeq(c, 1, p)) = p
       /\ \A i \in 1 .. p : SubSeq(c, 1, p)[i] = c[i]
  <2>1. p \in 0 .. Len(c)  BY <1>5
  <2>2. /\ IsSeq(SubSeq(c, 1, p)) /\ Len(SubSeq(c, 1, p)) = IF 1 <= p THEN p - 1 + 1 ELSE 0
        /\ \A i \in 1 .. p - 1 + 1 : SubSeq(c, 1, p)[i] = c[1 + i - 1]
    BY <1>5, <2>1, SubSeqIs
  <2> QED  BY <1>0, <2>2
<1>11. \A i \in 1 .. p : SubSeq(s, 1, p)[i] = SubSeq(c, 1, p)[i]
  BY <1>0, <1>4, <1>6, <1>9, <1>10
<1>12. SubSeq(s, 1, p) = SubSeq(c, 1, p)  BY <1>9, <1>10, <1>11, EqualIs
<1> QED  BY <1>1, <1>2, <1>8, <1>12

\* With the invariant, what has been written is in the file.
LEMMA WriterRight ==
  ASSUME WriterInv
  PROVE  WritesKept
<1>1. Covered /\ WriterFile /\ WriterUser  BY DEF WriterInv
<1> DEFINE Kept == Slice(stored, 0, file.realpos) = Slice(Content, 0, file.realpos)
<1>2. file.realpos \in 0 .. Length /\ IsSeq(stored)  BY <1>1 DEF WriterFile, Covered
<1>3. ASSUME \A b \in 1 .. file.realpos : Right(b)  PROVE Kept  BY <1>2, <1>3, RightIs
<1>4. ~file.pipelined => Kept  BY <1>1, <1>3 DEF Covered
<1>5. ASSUME file.closed, user.pc = "idle", up, ~use.fails  PROVE Kept
  <2>1. NoWrites  BY <1>1, <1>5 DEF WriterFile
  <2>2. \A b : ~OnTheWay(b)  BY <2>1 DEF NoWrites, OnTheWay
  <2> QED  BY <1>1, <1>3, <1>5, <2>2 DEF Covered
<1> HIDE DEF Kept
<1>6. /\ use.writes /\ ~file.pipelined => Kept
      /\ use.writes /\ file.closed /\ user.pc = "idle" /\ up /\ ~use.fails => Kept
  BY <1>4, <1>5
<1> QED  BY <1>6 DEF Kept, WritesKept

\* The use of a program stays what it is.
LEMMA UseKept ==
  ASSUME [Next]_vars
  PROVE  use' = use
<1>1. CASE Call
  BY <1>1 DEF Call, CallOpen, CallClose, CallPath, CallFile, CallRead, CallWrite, CallSeek, CallReadv,
     CallPrefetch, CallList
<1>2. CASE UserStep
  BY <1>2 DEF UserStep, AcquireLock, SendRequest, SendFails, ReadResponse, StorePrefetched, ReadFails,
     ReadPrefetch, AfterWrite, Collect, Finish, ReadRaw, RawFails
<1>3. ASSUME NEW t, ThreadStep(t)  PROVE use' = use
  BY <1>3 DEF ThreadStep, TakePrefetchLock, TakeLock, SendPrefetch, NoteExtent, PrefetchDies
<1>4. CASE ServerStep \/ Drop  BY <1>4 DEF ServerStep, Serve, Reply, ServerEnds, Drop
<1>5. CASE UNCHANGED vars  BY <1>5 DEF vars
<1> QED  BY <1>1, <1>2, <1>3, <1>4, <1>5 DEF Next

-----------------------------------------------------------------------------
(* A program that reads *)

ReadTypes == {"open", "read", "fstat", "fsetstat", "close"} \cup Paths
ReadCalls == {"prefetch", "seek", "readv"} \cup ReadTypes

Reads == ~use.writes /\ use.calls \subseteq ReadCalls

\* The sequence s is bytes of the file from off on.
Piece(s, off) == IsSeq(s) /\ off \in Nat /\ Bytes(s, off)

\* Response m to a read of n bytes at off: what is there, or that nothing is
Data(m, off, n) ==
  \/ m.t = "data" /\ Piece(m.v, off) /\ Len(m.v) \in 1 .. n
  \/ Says(m, {"eof"}) /\ off >= Length

\* Response m to what the user asks.  Only close may find its handle gone.
Answers(m) ==
  /\ Says(m, {"failure"}) => use.fails
  /\ Says(m, {"bad"}) => user.call = "close"
  /\ user.call = "open" => /\ m.t = "handle" /\ m.v[1] \in Nat \ {0}
                           /\ m.v[1] \in files \/ srv.pc = "gone"
  /\ user.call = "read" => Data(m, user.req.off, user.req.arg)

ForFile(n) == n \in DOMAIN expecting /\ expecting[n] = "file"

\* Thread t has sent request n, and not yet noted what it asked for.
Unnoted(t, n) == threads[t].pc = "sent" /\ threads[t].num = n

\* Request n is a prefetch.
Prefetched(n) == n \in DOMAIN file.extents \/ \E t \in Threads : Unnoted(t, n)

\* What the client knows of request n is that it asks for the bytes from off on.
Noted(n, off) ==
  /\ n \in DOMAIN file.extents => file.extents[n].off = off
  /\ \A t \in Threads : Unnoted(t, n) => Head(threads[t].chunks).off = off

\* A request of a prefetch thread is noted by the offset that it asks for.
PrefetchRequest(r) ==
  /\ r.t = "read" /\ r.off \in Nat /\ r.arg \in Nat
  /\ Prefetched(r.num) /\ Noted(r.num, r.off)

\* A response to a prefetch is an error, or the bytes from the noted offset on.
PrefetchAnswer(m) ==
  /\ Prefetched(m.num)
  /\ m.t = "status" \/ \E off \in Nat : Piece(m.v, off) /\ Noted(m.num, off)

\* A request on its way is the call's that waits for it, or a prefetch.
ReaderRequest(r) ==
  /\ r.t \in ReadTypes
  /\ r.t = "close" => file.closed
  /\ Awaits(r.num) => Made(r)
  /\ ForFile(r.num) => PrefetchRequest(r)

\* A response is what its call or the file takes it for.
ReaderAnswer(m) ==
  /\ Awaits(m.num) => Answers(m)
  /\ ForFile(m.num) => PrefetchAnswer(m)

\* What is on its way in both directions, and in the hands of the server
ReaderOnTheWay ==
  /\ \A i \in 1 .. Len(reqs) : ReaderRequest(reqs[i])
  /\ \A i \in 1 .. Len(resps) : ReaderAnswer(resps[i])
  /\ Answering => ReaderAnswer(srv.msg)

Locking == {"acquire", "send", "sent"}

\* A thread that asks for a chunk holds the lock of the extents.
ReaderThread(t) ==
  /\ threads[t].pc \in Locking => file.plock = t /\ threads[t].chunks # <<>>
  /\ IsSeq(threads[t].chunks)
  /\ \A i \in 1 .. Len(threads[t].chunks) :
       threads[t].chunks[i].off \in Nat /\ threads[t].chunks[i].len \in Nat
  /\ threads[t].pc = "sent" => Numbered(threads[t].num)
  /\ file.handle = 0 => threads[t].pc = "unused"

ReaderThreads == \A t \in Threads : ReaderThread(t)

\* The file as the client has it
ReaderFile ==
  /\ stored = Content
  /\ file.realpos \in 0 .. Length
  /\ file.saved # "none" => file.refused
  /\ file.handle # 0 /\ ~file.closed => file.handle \in files \/ srv.pc = "gone"
  /\ file.handle = 0 => DOMAIN file.data = {} /\ DOMAIN file.extents = {} /\ ~file.closed
  /\ \A o \in DOMAIN file.data : Piece(file.data[o], o)
  /\ \A n \in DOMAIN file.extents : Numbered(n)

\* How far a read has come
Reading ==
  user.call = "read" =>
    /\ user.from \in Nat /\ user.want \in Nat \ {0} /\ Piece(user.got, user.from)
    /\ file.realpos = user.from + Len(user.got) /\ Len(user.got) <= user.want
    /\ user.pc # "idle" => Len(user.got) < user.want
    /\ user.pc = "idle" /\ ~user.failed =>
         \/ file.refused \/ cut = "eof"
         \/ Len(user.got) = user.want \/ file.realpos = Length

OnFile == {"read", "fstat", "fsetstat"}

\* The call asks for what it is about; a read, for the bytes at the position.
ReaderAsks ==
  user.pc \in {"acquire", "send"} \/ Awaiting =>
    /\ user.req.t = user.call /\ user.call \in ReadTypes
    /\ user.call \in OnFile => user.req.h = file.handle
    /\ user.call = "close" => file.closed
    /\ user.call = "read" => /\ user.req.off = file.realpos
                             /\ user.req.arg = Least(user.want - Len(user.got), MaxRequest)

\* The user keeps a prefetched response until it may take the lock.
Held ==
  user.pc = "store" =>
    /\ user.held.t # "status" /\ PrefetchAnswer(user.held)
    /\ user.held.num \notin DOMAIN expecting /\ Numbered(user.held.num)

\* A call is where its kind allows.
ReaderUser ==
  /\ user.pc \in {"idle", "acquire", "send", "wait", "poll", "store", "prefetched", "finish"}
  /\ user.call \in ReadCalls \cup {"none"}
  /\ user.pc = "prefetched" => user.call = "read"
  /\ user.pc = "finish" => user.call = "close" /\ file.handle # 0 /\ ~file.closed
  /\ user.pc = "poll" \/ (user.pc = "store" /\ user.wait = 0) =>
       user.call = "read" \/ (user.call = "close" /\ file.handle # 0 /\ ~file.closed)
  /\ user.pc # "idle" /\ user.call \in OnFile => file.handle # 0 /\ ~file.closed
  /\ user.pc # "idle" /\ user.call = "open" => file.handle = 0
  /\ user.pc = "idle" /\ user.failed => ~up \/ file.refused \/ use.fails

ReaderInv ==
  ReaderOnTheWay /\ ReaderThreads /\ ReaderFile /\ Reading /\ ReaderAsks /\ Held /\ ReaderUser

\* The part of s behind its first k bytes, up to byte n
LEMMA PartIs ==
  ASSUME NEW s, NEW off, Piece(s, off), NEW k \in Nat, NEW n \in Nat, k <= n, n <= Len(s)
  PROVE  /\ IsSeq(SubSeq(s, k + 1, n)) /\ Len(SubSeq(s, k + 1, n)) = n - k
         /\ Piece(SubSeq(s, k + 1, n), off + k)
<1>1. Length \in Nat /\ Run(s, off, Length)  BY SftpAssumption DEF Piece, Bytes, Run
<1>2. Run(SubSeq(s, k + 1, n), off + k, Length) /\ IsSeq(SubSeq(s, k + 1, n))
      /\ Len(SubSeq(s, k + 1, n)) = n - k
  BY <1>1, RunPart
<1> QED  BY <1>2 DEF Piece, Bytes, Run

\* What follows a part of the file, behind it
LEMMA JoinIs ==
  ASSUME NEW s, NEW off, Piece(s, off), NEW d, Piece(d, off + Len(s))
  PROVE  Piece(s \o d, off) /\ Len(s \o d) = Len(s) + Len(d) /\ Len(s) \in Nat /\ Len(d) \in Nat
<1>1. Length \in Nat /\ Run(s, off, Length) /\ Run(d, off + Len(s), Length)
  BY SftpAssumption DEF Piece, Bytes, Run
<1>2. Run(s \o d, off, Length) /\ Len(s \o d) = Len(s) + Len(d) /\ Len(s) \in Nat /\ Len(d) \in Nat
  BY <1>1, RunJoin
<1> QED  BY <1>2 DEF Piece, Bytes, Run

\* The file as the server reads it
LEMMA ContentIs == Piece(Content, 0) /\ Len(Content) = Length
<1>0. Length \in Nat  BY SftpAssumption
<1>1. PICK c : c = Content  OBVIOUS
<1>2. DOMAIN c = 1 .. Length /\ c = [i \in DOMAIN c |-> c[i]] /\ \A i \in 1 .. Length : c[i] = i
  BY <1>1 DEF Content
<1>3. IsSeq(c) /\ Len(c) = Length  BY <1>0, <1>2, FunctionIs
<1>4. Piece(c, 0)  BY <1>0, <1>2, <1>3 DEF Piece, Bytes
<1> QED  BY <1>1, <1>3, <1>4

\* A read of n bytes at off
LEMMA ReadIs ==
  ASSUME NEW off \in Nat, NEW n \in Nat, NEW d, d = Slice(Content, off, n)
  PROVE  /\ IsSeq(d) /\ Len(d) <= n
         /\ d # <<>> => Piece(d, off) /\ Len(d) \in 1 .. n
         /\ d = <<>> /\ n > 0 => off >= Length
<1>0. Length \in Nat  BY SftpAssumption
<1>1. PICK c : c = Content  OBVIOUS
<1>2. Piece(c, 0) /\ Len(c) = Length  BY <1>1, ContentIs
<1>3. PICK l : l = Least(off + n, Length)  OBVIOUS
<1>4. l \in Nat /\ l <= Length /\ l <= off + n /\ (l = Length \/ l = off + n)
  BY <1>0, <1>3 DEF Least
<1>5. d = SubSeq(c, off + 1, l)  BY <1>1, <1>2, <1>3 DEF Slice
<1>6. CASE off <= l
  <2>1. IsSeq(d) /\ Len(d) = l - off /\ Piece(d, off)
    <3>1. l <= Len(c) /\ 0 + off = off  BY <1>2, <1>4
    <3> QED  BY <1>2, <1>4, <1>5, <1>6, <3>1, PartIs
  <2> QED  BY <1>0, <1>4, <1>6, <2>1, LenIs
<1>7. CASE off > l
  <2>1. PICK m : m = off + 1  OBVIOUS
  <2>2. m \in Nat \ {0} /\ ~(m <= l) /\ l \in 0 .. Len(c) /\ IsSeq(c)
    BY <1>0, <1>2, <1>4, <1>7, <2>1 DEF Piece
  <2>3. IsSeq(d) /\ Len(d) = 0  BY <1>5, <2>1, <2>2, SubSeqIs
  <2> QED  BY <1>0, <1>4, <1>7, <2>3, LenIs
<1> QED  BY <1>4, <1>6, <1>7

\* A buffer that _data_in_prefetch_buffers finds holds the byte that is looked for.
LEMMA BufferIs ==
  ASSUME DOMAIN file.data \subseteq Nat, NEW off \in Nat, NEW b, b = BufferAt(off)
  PROVE  b = -1 \/ (b \in DOMAIN file.data /\ b <= off /\ ~(off - b >= Len(file.data[b])))
<1> DEFINE before == {i \in DOMAIN file.data : i <= off}
           index  == CHOOSE i \in before : \A j \in before : j <= i
<1>0. b = IF before = {} THEN -1 ELSE IF off - index >= Len(file.data[index]) THEN -1 ELSE index
  BY DEF BufferAt
<1>1. CASE before = {}  BY <1>0, <1>1
<1>2. CASE before # {}
  <2> DEFINE T == {off - i : i \in before}
  <2>1. T # {} /\ T \subseteq Nat  BY <1>2
  <2> DEFINE R == {ss \in Nat \X Nat : ss[1] < ss[2]}
  <2>2. IsWellFoundedOn(R, Nat)  BY NatLessThanWellFounded DEF OpToRel
  <2> HIDE DEF T, R
  <2>3. PICK n \in T : \A m \in T : ~(<<m, n>> \in R)  BY <2>1, <2>2, WFMin
  <2> USE DEF T, R
  <2>10. \A m \in T : ~(m < n)  BY <2>1, <2>3
  <2>4. PICK i \in before : n = off - i  OBVIOUS
  <2>5. \A j \in before : j <= i
    <3>1. ASSUME NEW j \in before  PROVE j <= i
      <4>1. off - j \in T  OBVIOUS
      <4>2. ~(off - j < n)  BY <2>10, <4>1
      <4>3. i \in Nat /\ j \in Nat  OBVIOUS
      <4> QED  BY <2>4, <4>2, <4>3
    <3> QED  BY <3>1
  <2>6. index \in before  BY <2>5
  <2>7. index \in DOMAIN file.data /\ index <= off  BY <2>6
  <2> HIDE DEF index
  <2> QED  BY <1>0, <1>2, <2>7
<1> QED  BY <1>1, <1>2

\* The chunks of a prefetch
LEMMA ChunksAre ==
  ASSUME NEW off \in Nat, NEW end \in Nat, NEW s, s = Chunks(off, end)
  PROVE  IsSeq(s) /\ \A i \in 1 .. Len(s) : s[i].off \in Nat /\ s[i].len \in Nat
<1>1. PICK n : n = IF end > off THEN (end - off + MaxRequest - 1) \div MaxRequest ELSE 0  OBVIOUS
<1>2. MaxRequest \in Nat \ {0}  BY SftpAssumption
<1>3. n \in Nat /\ (end > off => n * MaxRequest <= end - off + MaxRequest - 1)
  <2>1. CASE end > off
    <3>1. PICK q : q = end - off + MaxRequest - 1  OBVIOUS
    <3>2. q \in Nat /\ n = q \div MaxRequest  BY <1>1, <1>2, <2>1, <3>1
    <3>3. n \in Nat /\ n * MaxRequest <= q  BY <1>2, <3>2
    <3> QED  BY <3>1, <3>3
  <2>2. CASE ~(end > off)  BY <1>1, <2>2
  <2> QED  BY <2>1, <2>2
<1>4. s = [ i \in 1 .. n |-> [off |-> off + (i - 1) * MaxRequest,
                             len |-> Least(MaxRequest, end - off - (i - 1) * MaxRequest)] ]
  BY <1>1 DEF Chunks
<1>5. DOMAIN s = 1 .. n /\ s = [i \in DOMAIN s |-> s[i]]  BY <1>4
<1>6. IsSeq(s) /\ Len(s) = n  BY <1>3, <1>5, FunctionIs
<1>7. ASSUME NEW i \in 1 .. n  PROVE s[i].off \in Nat /\ s[i].len \in Nat
  <2>1. PICK k : k = (i - 1) * MaxRequest  OBVIOUS
  <2>2. end > off  BY <1>1
  <2>3. k \in Nat /\ k + MaxRequest = i * MaxRequest /\ i * MaxRequest <= n * MaxRequest
    BY <1>2, <1>3, <2>1
  <2>4. n * MaxRequest \in Nat  BY <1>2, <1>3
  <2>5. k <= end - off - 1  BY <1>2, <1>3, <2>2, <2>3, <2>4
  <2>6. s[i].off = off + k /\ s[i].len = Least(MaxRequest, end - off - k)  BY <1>4, <2>1
  <2> QED  BY <1>2, <2>3, <2>5, <2>6 DEF Least
<1> QED  BY <1>6, <1>7

\* A program that has read nothing yet
LEMMA ReaderInitial == Init /\ ~use.writes => ReaderInv
<1> SUFFICES ASSUME Init, ~use.writes  PROVE ReaderInv
  OBVIOUS
<1>1. IsSeq(<<>>) /\ Len(<<>>) = 0 /\ DOMAIN <<>> = {}  BY EmptyIs, LenIs
<1>2. reqs = <<>> /\ resps = <<>> /\ srv.pc = "reading" /\ stored = Content /\ expecting = <<>>
  BY DEF Init
<1>3. ReaderOnTheWay  BY <1>1, <1>2 DEF ReaderOnTheWay, Answering
<1>4. file = NewFile(0, FALSE)  BY DEF Init
<1>5. file.realpos = 0 /\ file.saved = "none" /\ file.handle = 0
      /\ file.data = <<>> /\ file.extents = <<>> /\ ~file.closed
  BY <1>4 DEF NewFile
<1>6. user.pc = "idle" /\ user.call = "none" /\ ~user.failed  BY DEF Init
<1>7. ReaderFile  BY <1>1, <1>2, <1>5, SftpAssumption DEF ReaderFile
<1>8. ASSUME NEW t \in Threads  PROVE ReaderThread(t)
  <2>1. threads[t].pc = "unused" /\ threads[t].chunks = <<>>  BY DEF Init
  <2> QED  BY <1>1, <2>1 DEF ReaderThread, Locking
<1>9. Reading /\ ReaderAsks /\ Held /\ ReaderUser
  BY <1>6 DEF Reading, ReaderAsks, Held, ReaderUser, Awaiting
<1> QED  BY <1>3, <1>7, <1>8, <1>9 DEF ReaderInv, ReaderThreads

\* What is known of a packet on its way holds as long as the user waits for the
\* same and the client knows as much of what it prefetches.
LEMMA ReaderFrame ==
  ASSUME use' = use, file.closed => file'.closed,
         \A n : Numbered(n) /\ Awaits(n)' => Awaits(n) /\ user'.call = user.call /\ user'.req = user.req,
         \A n : Numbered(n) /\ ForFile(n)' =>
                  /\ ForFile(n) /\ (Prefetched(n) => Prefetched(n)')
                  /\ \A off : Noted(n, off) => Noted(n, off)',
         srv.pc = "gone" => srv'.pc = "gone",
         files \subseteq files' \/ srv'.pc = "gone" \/ user.call # "open" \/ ~Awaiting
  PROVE  /\ \A r : Numbered(r.num) /\ ReaderRequest(r) => ReaderRequest(r)'
         /\ \A m : Numbered(m.num) /\ ReaderAnswer(m) => ReaderAnswer(m)'
<1>1. ASSUME NEW r, Numbered(r.num), ReaderRequest(r)  PROVE ReaderRequest(r)'
  <2>1. Awaits(r.num)' => Made(r)'  BY <1>1 DEF ReaderRequest, Made
  <2>2. ForFile(r.num)' => PrefetchRequest(r)'
    <3> HIDE DEF Prefetched, Noted, ForFile
    <3> QED  BY <1>1 DEF ReaderRequest, PrefetchRequest
  <2>3. r.t \in ReadTypes /\ (r.t = "close" => file'.closed)  BY <1>1 DEF ReaderRequest
  <2> QED  BY <2>1, <2>2, <2>3 DEF ReaderRequest
<1>2. ASSUME NEW m, Numbered(m.num), ReaderAnswer(m)  PROVE ReaderAnswer(m)'
  <2>1. ASSUME Awaits(m.num)'  PROVE Answers(m)'
    <3>1. Answers(m) /\ Awaits(m.num) /\ user'.call = user.call /\ user'.req = user.req
      BY <1>2, <2>1 DEF ReaderAnswer
    <3>2. \A c : Says(m, c)' <=> Says(m, c)  BY DEF Says
    <3>3. \A off, n : Data(m, off, n)' <=> Data(m, off, n)  BY <3>2 DEF Data, Piece, Bytes
    <3>4. user.call = "open" => m.v[1] \in files' \/ srv'.pc = "gone"  BY <3>1 DEF Answers, Awaits
    <3> HIDE DEF Data, Says
    <3>5. user.call = "read" => Data(m, user'.req.off, user'.req.arg)  BY <3>1 DEF Answers
    <3>6. Says(m, {"failure"})' => use'.fails  BY <3>1, <3>2 DEF Answers
    <3>7. Says(m, {"bad"})' => user'.call = "close"  BY <3>1, <3>2 DEF Answers
    <3> QED  BY <3>1, <3>3, <3>4, <3>6, <3>7 DEF Answers
  <2>2. ASSUME ForFile(m.num)'  PROVE PrefetchAnswer(m)'
    <3>1. PrefetchAnswer(m) /\ Prefetched(m.num)'  BY <1>2, <2>2 DEF ReaderAnswer, PrefetchAnswer
    <3>2. \A off : Noted(m.num, off) => Noted(m.num, off)'  BY <1>2, <2>2
    <3>3. \A off : Piece(m.v, off)' <=> Piece(m.v, off)  BY DEF Piece, Bytes
    <3> HIDE DEF Piece, Noted, Prefetched
    <3> QED  BY <3>1, <3>2, <3>3 DEF PrefetchAnswer
  <2> QED  BY <2>1, <2>2 DEF ReaderAnswer
<1> QED  BY <1>1, <1>2

\* A step of the client that takes a response or none
LEMMA ReaderQuiet ==
  ASSUME Packets, ReaderOnTheWay, UNCHANGED <<use, reqs, srv, files>>,
         resps' = resps \/ (resps # <<>> /\ resps' = Tail(resps)),
         file.closed => file'.closed,
         \A n : Numbered(n) /\ Awaits(n)' => Awaits(n) /\ user'.call = user.call /\ user'.req = user.req,
         \A n : Numbered(n) /\ ForFile(n)' =>
                  /\ ForFile(n) /\ (Prefetched(n) => Prefetched(n)')
                  /\ \A off : Noted(n, off) => Noted(n, off)'
  PROVE  ReaderOnTheWay'
<1>1. /\ \A r : Numbered(r.num) /\ ReaderRequest(r) => ReaderRequest(r)'
      /\ \A m : Numbered(m.num) /\ ReaderAnswer(m) => ReaderAnswer(m)'
  BY ReaderFrame
<1>2. ASSUME NEW i \in 1 .. Len(reqs')  PROVE ReaderRequest(reqs[i])'
  <2>1. PICK r : r = reqs[i]  OBVIOUS
  <2>2. reqs'[i] = r /\ i \in 1 .. Len(reqs)  BY <2>1
  <2>3. Numbered(r.num) /\ ReaderRequest(r)  BY <2>1, <2>2 DEF Packets, ReaderOnTheWay
  <2>4. ReaderRequest(r)'  BY <1>1, <2>3
  <2> QED  BY <2>2, <2>4
<1>3. ASSUME NEW i \in 1 .. Len(resps')  PROVE ReaderAnswer(resps[i])'
  <2>1. PICK m : m = resps'[i]  OBVIOUS
  <2>2. \E k \in 1 .. Len(resps) : m = resps[k]
    <3>1. CASE resps' = resps  BY <2>1, <3>1
    <3>2. CASE resps # <<>> /\ resps' = Tail(resps)
      <4>1. IsSeq(resps)  BY DEF Packets
      <4>2. \A k \in 1 .. Len(resps') : resps'[k] = resps[k + 1] /\ k + 1 \in 1 .. Len(resps)
        BY <3>2, <4>1, TakenIs
      <4> QED  BY <2>1, <4>2
    <3> QED  BY <3>1, <3>2
  <2>3. Numbered(m.num) /\ ReaderAnswer(m)  BY <2>2 DEF Packets, ReaderOnTheWay
  <2>4. ReaderAnswer(m)'  BY <1>1, <2>3
  <2> QED  BY <2>1, <2>4
<1>4. Answering' => ReaderAnswer(srv.msg)'
  <2>1. PICK m : m = srv.msg  OBVIOUS
  <2>2. Answering' => Numbered(m.num) /\ ReaderAnswer(m)
    BY <2>1 DEF Packets, ReaderOnTheWay, Answering
  <2>3. Answering' => ReaderAnswer(m)'  BY <1>1, <2>2
  <2> QED  BY <2>1, <2>3
<1> QED  BY <1>2, <1>3, <1>4 DEF ReaderOnTheWay

\* What the client knows of its prefetches, in a step that leaves them alone
LEMMA PrefetchesKept ==
  ASSUME UNCHANGED threads, file'.extents = file.extents
  PROVE  /\ \A n : Prefetched(n)' <=> Prefetched(n)
         /\ \A n, off : Noted(n, off)' <=> Noted(n, off)
BY DEF Prefetched, Noted, Unnoted

\* A step of the program that leaves the threads alone
LEMMA ThreadsStill ==
  ASSUME ReaderThreads, UNCHANGED <<threads, number>>, file'.plock = file.plock,
         file'.handle = file.handle
  PROVE  ReaderThreads'
<1>1. ASSUME NEW t \in Threads  PROVE ReaderThread(t)'
  <2>1. ReaderThread(t)  BY DEF ReaderThreads
  <2>2. PICK h : h = threads[t]  OBVIOUS
  <2>3. threads'[t] = h  BY <2>2
  <2> QED  BY <2>1, <2>2, <2>3 DEF ReaderThread, Numbered
<1> QED  BY <1>1 DEF ReaderThreads

\* The file keeps its bytes in a step of the program.
LEMMA ReaderMoves ==
  ASSUME Common, ReaderInv, UNCHANGED <<use, reqs, srv, files, stored, number>>,
         resps' = resps \/ (resps # <<>> /\ resps' = Tail(resps)),
         file'.handle = file.handle, \A o \in DOMAIN file'.data : Piece(file'.data[o], o),
         DOMAIN file'.extents \subseteq DOMAIN file.extents,
         file.handle = 0 => DOMAIN file'.data = {},
         file'.saved # "none" => file'.refused, file'.realpos \in 0 .. Length,
         file.closed => file'.closed, file'.closed => file.handle # 0,
         \A n : Numbered(n) /\ Awaits(n)' => Awaits(n) /\ user'.call = user.call /\ user'.req = user.req,
         \A n : Numbered(n) /\ ForFile(n)' =>
                  /\ ForFile(n) /\ (Prefetched(n) => Prefetched(n)')
                  /\ \A off : Noted(n, off) => Noted(n, off)',
         ReaderThreads', Reading', ReaderAsks', Held', ReaderUser'
  PROVE  ReaderInv'
<1>1. Packets /\ ReaderOnTheWay /\ ReaderFile  BY DEF ReaderInv, Common
<1>2. ReaderOnTheWay'  BY <1>1, ReaderQuiet
<1>3. \A n : Numbered(n)' <=> Numbered(n)  BY DEF Numbered
<1>4. ReaderFile'
  <2> HIDE DEF Piece, Numbered
  <2> QED  BY <1>1, <1>3 DEF ReaderFile
<1> QED  BY <1>2, <1>4 DEF ReaderInv

\* Most steps leave alone what is on its way and what is prefetched.
LEMMA ReaderStill ==
  ASSUME Common, ReaderInv, UNCHANGED <<use, reqs, resps, srv, files, stored, number>>,
         file'.handle = file.handle, file'.data = file.data, file'.extents = file.extents,
         file'.saved = file.saved, file'.refused = file.refused, file'.realpos \in 0 .. Length,
         file.closed => file'.closed, file'.closed => file.handle # 0,
         user'.pc \notin {"wait", "store"},
         \A n : Numbered(n) /\ ForFile(n)' => ForFile(n),
         \A n : Prefetched(n) => Prefetched(n)',
         \A n, off : Noted(n, off) => Noted(n, off)',
         ReaderThreads', Reading', ReaderAsks', ReaderUser'
  PROVE  ReaderInv'
<1>1. \A n : ~Awaits(n)'  BY DEF Awaits, Awaiting
<1>2. ReaderFile  BY DEF ReaderInv
<1>3. Held'  BY DEF Held
<1>4. \A o \in DOMAIN file'.data : Piece(file'.data[o], o)
  <2> HIDE DEF Piece
  <2> QED  BY <1>2 DEF ReaderFile
<1>5. /\ file.handle = 0 => DOMAIN file'.data = {}
      /\ file'.saved # "none" => file'.refused
  BY <1>2 DEF ReaderFile
<1> HIDE DEF Prefetched, Noted, ForFile, Awaits, Piece
<1> QED  BY <1>1, <1>3, <1>4, <1>5, ReaderMoves

\* The rest of a read
LEMMA ReadRestIs ==
  ASSUME NEW u, DOMAIN u = UserFields, u.call = "read", u.from \in Nat, u.want \in Nat \ {0},
         Piece(u.got, u.from), Len(u.got) < u.want,
         NEW f, f.realpos = u.from + Len(u.got), f.handle # 0, ~f.closed,
         user' = ReadRest(u, f), file' = f
  PROVE  Reading' /\ ReaderAsks' /\ ReaderUser' /\ user'.pc \in {"acquire", "prefetched"}
<1>1. PICK v : v = ReadRest(u, f)  OBVIOUS
<1>2. PICK r : r = Request("read", f.handle, f.realpos, Least(u.want - Len(u.got), MaxRequest))  OBVIOUS
<1>3. /\ r.t = "read" /\ r.h = f.handle /\ r.off = f.realpos
      /\ r.arg = Least(u.want - Len(u.got), MaxRequest)
  BY <1>2 DEF Request
<1>4. v = [u EXCEPT !.pc = "prefetched"] \/ v = [u EXCEPT !.pc = "acquire", !.req = r]
  BY <1>1, <1>2 DEF ReadRest, Ask
<1>5. /\ v.call = "read" /\ v.from = u.from /\ v.want = u.want /\ v.got = u.got
      /\ v.pc = "prefetched" \/ (v.pc = "acquire" /\ v.req = r)
  BY <1>4 DEF UserFields
<1>6. user' = v  BY <1>1
<1>7. Reading'
  <2>1. Piece(v.got, v.from)  BY <1>5
  <2>2. IsSeq(u.got)  BY DEF Piece
  <2>3. Len(u.got) \in Nat  BY <2>2, LenIs
  <2> HIDE DEF Piece
  <2> QED  BY <1>5, <1>6, <2>1, <2>3 DEF Reading
<1>8. ReaderAsks'  BY <1>3, <1>5, <1>6 DEF ReaderAsks, Awaiting, ReadTypes
<1>9. ReaderUser'  BY <1>5, <1>6 DEF ReaderUser, ReadCalls, ReadTypes, OnFile
<1> QED  BY <1>5, <1>6, <1>7, <1>8, <1>9

\* A read gets d, the next bytes of the file, or nothing at its end.
LEMMA GotIs ==
  ASSUME DOMAIN user = UserFields, ReaderUser, Reading, user.call = "read", user.pc # "idle",
         NEW f, DOMAIN f = FileFields, f.handle = file.handle, f.closed = file.closed,
         f.realpos = file.realpos,
         NEW d, Piece(d, file.realpos), Len(d) <= user.want - Len(user.got),
         d = <<>> => file.realpos = Length,
         Got(user, f, d)
  PROVE  /\ Reading' /\ ReaderAsks' /\ ReaderUser' /\ user'.pc \in {"idle", "acquire", "prefetched"}
         /\ file'.realpos \in 0 .. Length /\ DOMAIN file' = FileFields
         /\ \A x \in FileFields \ {"realpos"} : file'[x] = f[x]
<1>1. PICK n : n = Len(d)  OBVIOUS
<1>2. PICK v : v = [user EXCEPT !.got = @ \o d]  OBVIOUS
<1>3. PICK g : g = [f EXCEPT !.realpos = @ + n]  OBVIOUS
<1>4. file' = g /\ user' = IF d = <<>> \/ Len(v.got) >= v.want THEN Return(v) ELSE ReadRest(v, g)
  BY <1>1, <1>2, <1>3 DEF Got
<1>5. /\ DOMAIN v = UserFields /\ v.call = "read" /\ v.from = user.from /\ v.want = user.want
      /\ v.got = user.got \o d
  BY <1>2 DEF UserFields
<1>6. /\ DOMAIN g = FileFields /\ g.realpos = file.realpos + n
      /\ \A x \in FileFields \ {"realpos"} : g[x] = f[x]
  BY <1>3 DEF FileFields
<1>7. /\ user.from \in Nat /\ user.want \in Nat \ {0} /\ Piece(user.got, user.from)
      /\ file.realpos = user.from + Len(user.got) /\ Len(user.got) < user.want
  BY DEF Reading
<1>8. Piece(v.got, v.from) /\ Len(v.got) = Len(user.got) + n /\ Len(user.got) \in Nat /\ n \in Nat
  BY <1>1, <1>5, <1>7, JoinIs
<1>9. g.realpos = v.from + Len(v.got) /\ Len(v.got) <= v.want
  <2>1. g.realpos = user.from + Len(user.got) + n  BY <1>6, <1>7
  <2>2. user.from \in Nat /\ user.want \in Nat /\ Len(user.got) \in Nat /\ n \in Nat
    BY <1>7, <1>8
  <2>3. n <= user.want - Len(user.got)  BY <1>1
  <2>4. Len(v.got) = Len(user.got) + n /\ v.from = user.from /\ v.want = user.want  BY <1>5, <1>8
  <2> QED  BY <2>1, <2>2, <2>3, <2>4
<1>10. g.realpos \in 0 .. Length
  <2>1. v.from + Len(v.got) <= Length  BY <1>8 DEF Piece, Bytes
  <2>2. v.from \in Nat /\ Len(v.got) \in Nat  BY <1>5, <1>7, <1>8
  <2>3. Length \in Nat  BY SftpAssumption
  <2> QED  BY <1>9, <2>1, <2>2, <2>3
<1>11. g.handle # 0 /\ ~g.closed  BY <1>6 DEF ReaderUser, OnFile, FileFields
<1>12. CASE d = <<>> \/ Len(v.got) >= v.want
  <2>1. user' = Return(v)  BY <1>4, <1>12
  <2>2. user'.pc = "idle" /\ user'.call = "read" /\ user'.from = v.from /\ user'.want = v.want
        /\ user'.got = v.got /\ ~user'.failed
    BY <1>5, <2>1 DEF Return, UserFields
  <2>3. d = <<>> => n = 0  BY <1>1, EmptyIs
  <2>4. g.realpos = Length \/ Len(v.got) = v.want
    <3>1. CASE d = <<>>
      <4>1. g.realpos = file.realpos + 0  BY <1>6, <2>3, <3>1
      <4>2. file.realpos = Length /\ Length \in Nat  BY <3>1, SftpAssumption
      <4> QED  BY <4>1, <4>2
    <3>2. CASE Len(v.got) >= v.want
      <4>1. Len(v.got) \in Nat /\ v.want \in Nat  BY <1>5, <1>7, <1>8
      <4> QED  BY <1>9, <3>2, <4>1
    <3> QED  BY <1>12, <3>1, <3>2
  <2>5. Reading'
    <3> HIDE DEF Piece
    <3> QED  BY <1>4, <1>5, <1>7, <1>8, <1>9, <2>2, <2>4 DEF Reading
  <2>6. ReaderAsks' /\ ReaderUser'
    BY <2>2 DEF ReaderAsks, Awaiting, ReaderUser, ReadCalls, ReadTypes
  <2> QED  BY <1>4, <1>6, <1>10, <2>2, <2>5, <2>6
<1>13. CASE ~(d = <<>> \/ Len(v.got) >= v.want)
  <2>1. user' = ReadRest(v, g) /\ file' = g  BY <1>4, <1>13
  <2>2. Len(v.got) < v.want  BY <1>5, <1>7, <1>8, <1>13
  <2>3. Reading' /\ ReaderAsks' /\ ReaderUser' /\ user'.pc \in {"acquire", "prefetched"}
    <3> HIDE DEF Piece
    <3> QED  BY <1>5, <1>7, <1>8, <1>9, <1>11, <2>1, <2>2, ReadRestIs
  <2> QED  BY <1>4, <1>6, <1>10, <2>3
<1> QED  BY <1>12, <1>13

\* A step that takes or loses the lock, fails, or begins to close
LEMMA ReaderPlain ==
  ASSUME Common, ReaderInv, AcquireLock \/ SendFails \/ ReadFails \/ Finish
  PROVE  ReaderInv'
<1>0. DOMAIN user = UserFields /\ DOMAIN file = FileFields  BY DEF Common, Shapes
<1>1. ReaderUser /\ ReaderFile /\ ReaderThreads /\ Reading /\ ReaderAsks  BY DEF ReaderInv
<1>2. file.closed => file.handle # 0  BY <1>1 DEF ReaderFile
<1>3. UNCHANGED <<use, reqs, resps, up, srv, files, stored, number, threads>>
  BY DEF AcquireLock, SendFails, ReadFails, Finish, channelVars, serverVars, clientVars
<1>4. file.realpos \in 0 .. Length  BY <1>1 DEF ReaderFile
<1>5. \A n : Numbered(n) /\ ForFile(n)' => ForFile(n)
  <2>1. expecting' = expecting \/ expecting' = Put(expecting, number, "sync")
    BY DEF AcquireLock, SendFails, ReadFails, Finish, clientVars
  <2> QED  BY <2>1 DEF ForFile, Put
<1>6. ASSUME file'.handle = file.handle, file'.data = file.data, file'.extents = file.extents,
             file'.saved = file.saved, file'.refused = file.refused, file'.realpos = file.realpos,
             file'.plock = file.plock, file'.closed = file.closed \/ (file'.closed /\ file.handle # 0),
             user'.pc \notin {"wait", "store"}, Reading', ReaderAsks', ReaderUser'
      PROVE  ReaderInv'
  <2>1. /\ \A n : Prefetched(n) => Prefetched(n)'
        /\ \A n, off : Noted(n, off) => Noted(n, off)'
    BY <1>3, <1>6, PrefetchesKept
  <2>2. ReaderThreads'  BY <1>1, <1>3, <1>6, ThreadsStill
  <2> HIDE DEF Prefetched, Noted, ForFile, Reading, ReaderAsks, ReaderUser
  <2> QED  BY <1>2, <1>3, <1>4, <1>5, <1>6, <2>1, <2>2, ReaderStill
<1>7. \A s, off : Piece(s, off)' <=> Piece(s, off)  BY DEF Piece, Bytes
<1>8. CASE AcquireLock
  <2>1. user.pc = "acquire" /\ user'.pc = "send" /\ UNCHANGED file
        /\ \A x \in UserFields \ {"pc"} : user'[x] = user[x]
    BY <1>0, <1>8 DEF AcquireLock, UserFields
  <2>2. user'.call = user.call /\ user'.req = user.req /\ user'.want = user.want
        /\ user'.got = user.got /\ user'.from = user.from /\ user'.failed = user.failed
    BY <2>1 DEF UserFields
  <2>3. Reading'
    <3> HIDE DEF Piece
    <3> QED  BY <1>1, <2>1, <2>2 DEF Reading
  <2>4. ReaderAsks'  BY <1>1, <2>1, <2>2 DEF ReaderAsks, Awaiting
  <2>5. ReaderUser'  BY <1>1, <2>1, <2>2 DEF ReaderUser
  <2> QED  BY <1>6, <2>1, <2>3, <2>4, <2>5
<1>9. CASE SendFails \/ ReadFails
  <2>1. /\ user.pc # "idle" /\ user'.pc = "idle" /\ ~up /\ UNCHANGED file
        /\ \A x \in UserFields \ {"pc", "failed"} : user'[x] = user[x]
        /\ user'.failed \/ user.call = "close" \/ cut' = "eof"
    <3>1. CASE SendFails
      <4>1. user.req.t # "readdir"
        <5>1. "readdir" \notin ReadTypes
          BY DEF ReadTypes, Paths, ChangesPath, ReadsPath, SetsPath, NamesPath
        <5>2. user.pc = "send"  BY <3>1 DEF SendFails
        <5> QED  BY <1>1, <5>1, <5>2 DEF ReaderAsks
      <4>2. /\ user.pc = "send" /\ ~up /\ UNCHANGED file
            /\ \/ user' = Raise(user)
               \/ user' = Return(user) /\ (user.call = "close" \/ cut' = "eof")
        BY <3>1, <4>1 DEF SendFails, EndOfFile
      <4> QED  BY <1>0, <4>2 DEF UserFields, Return, Raise
    <3>2. CASE ReadFails  BY <1>0, <3>2 DEF ReadFails, UserFields, Return, Raise
    <3> QED  BY <1>9, <3>1, <3>2
  <2>2. user'.call = user.call /\ user'.req = user.req /\ user'.want = user.want
        /\ user'.got = user.got /\ user'.from = user.from
    BY <2>1 DEF UserFields
  <2>3. Reading'
    <3> HIDE DEF Piece
    <3> QED  BY <1>1, <2>1, <2>2 DEF Reading
  <2>4. ReaderAsks'  BY <2>1 DEF ReaderAsks, Awaiting
  <2>5. ReaderUser'  BY <1>1, <1>3, <2>1, <2>2 DEF ReaderUser
  <2> QED  BY <1>6, <2>1, <2>3, <2>4, <2>5
<1>10. CASE Finish
  <2>1. user.pc = "finish" /\ user.call = "close" /\ file.handle # 0 /\ ~file.closed
    BY <1>1, <1>10 DEF Finish, ReaderUser
  <2>2. CASE user' = [user EXCEPT !.pc = "poll", !.wait = 0] /\ UNCHANGED file
    <3>1. user'.pc = "poll" /\ user'.call = "close"  BY <1>0, <2>1, <2>2 DEF UserFields
    <3>2. Reading'  BY <3>1 DEF Reading
    <3>3. ReaderAsks'  BY <3>1 DEF ReaderAsks, Awaiting
    <3>4. ReaderUser'  BY <2>1, <2>2, <3>1 DEF ReaderUser, ReadCalls, ReadTypes, OnFile
    <3> QED  BY <1>6, <2>2, <3>1, <3>2, <3>3, <3>4
  <2>3. CASE /\ file' = [file EXCEPT !.closed = TRUE]
             /\ user' = Ask(user, Request("close", file.handle, 0, 0))
    <3>1. user'.pc = "acquire" /\ user'.call = "close" /\ user'.req.t = "close"
      BY <1>0, <2>1, <2>3 DEF UserFields, Ask, Request
    <3>2. /\ file'.handle = file.handle /\ file'.data = file.data /\ file'.extents = file.extents
          /\ file'.saved = file.saved /\ file'.refused = file.refused /\ file'.realpos = file.realpos
          /\ file'.plock = file.plock /\ file'.closed
      BY <1>0, <2>3 DEF FileFields
    <3>3. Reading'  BY <3>1 DEF Reading
    <3>4. ReaderAsks'  BY <3>1, <3>2 DEF ReaderAsks, Awaiting, ReadTypes, OnFile
    <3>5. ReaderUser'  BY <3>1 DEF ReaderUser, ReadCalls, ReadTypes, OnFile
    <3> QED  BY <1>6, <2>1, <3>1, <3>2, <3>3, <3>4, <3>5
  <2> QED  BY <1>10, <2>2, <2>3 DEF Finish
<1> QED  BY <1>8, <1>9, <1>10

\* A thread that is started has asked for nothing yet.
LEMMA PrefetchStarts ==
  ASSUME Shapes, ReaderThreads, NEW chunks, IsSeq(chunks),
         \A i \in 1 .. Len(chunks) : chunks[i].off \in Nat /\ chunks[i].len \in Nat,
         StartPrefetch(chunks), number' = number, file.handle # 0,
         file'.plock = file.plock, file'.handle = file.handle, file'.extents = file.extents
  PROVE  /\ ReaderThreads'
         /\ \A n : Prefetched(n) => Prefetched(n)'
         /\ \A n, off : Noted(n, off) => Noted(n, off)'
<1>1. PICK t : /\ threads[t].pc = "unused"
               /\ threads' = [threads EXCEPT ![t] = [@ EXCEPT !.pc = "next", !.chunks = chunks]]
  BY DEF StartPrefetch
<1>2. DOMAIN threads = Threads /\ \A s \in Threads : DOMAIN threads[s] = ThreadFields  BY DEF Shapes
<1>3. PICK g : g = [threads[t] EXCEPT !.pc = "next", !.chunks = chunks]  OBVIOUS
<1>4. threads' = [threads EXCEPT ![t] = g]  BY <1>1, <1>3
<1>5. \A s \in Threads : threads'[s] = IF s = t THEN g ELSE threads[s]  BY <1>2, <1>4
<1>6. t \in Threads => g.pc = "next" /\ g.chunks = chunks  BY <1>2, <1>3 DEF ThreadFields
<1>7. ASSUME NEW s \in Threads  PROVE ReaderThread(s)'
  <2>1. ReaderThread(s)  BY DEF ReaderThreads
  <2>2. CASE s = t
    <3>1. threads'[s].pc = "next" /\ threads'[s].chunks = chunks  BY <1>5, <1>6, <2>2
    <3> QED  BY <3>1 DEF ReaderThread, Locking
  <2>3. CASE s # t
    <3>1. PICK h : h = threads[s]  OBVIOUS
    <3>2. threads'[s] = h  BY <1>5, <2>3, <3>1
    <3> QED  BY <2>1, <3>1, <3>2 DEF ReaderThread, Numbered
  <2> QED  BY <2>2, <2>3
<1>8. ASSUME NEW s \in Threads, NEW n
      PROVE  /\ Unnoted(s, n)' <=> Unnoted(s, n)
             /\ Unnoted(s, n) => threads'[s] = threads[s]
  BY <1>1, <1>5, <1>6 DEF Unnoted
<1>9. \A n : Prefetched(n) => Prefetched(n)'
  <2> HIDE DEF Unnoted
  <2> QED  BY <1>8 DEF Prefetched
<1>10. ASSUME NEW n, NEW off, Noted(n, off)  PROVE Noted(n, off)'
  <2> HIDE DEF Unnoted
  <2> QED  BY <1>8, <1>10 DEF Noted
<1> QED  BY <1>7, <1>9, <1>10 DEF ReaderThreads

\* The calls of a program that reads
LEMMA ReaderCall ==
  ASSUME Common, use \in Uses, Reads, ReaderInv, Call
  PROVE  ReaderInv'
<1>0. DOMAIN user = UserFields /\ DOMAIN file = FileFields /\ Shapes  BY DEF Common, Shapes
<1>1. ReaderUser /\ ReaderFile /\ ReaderThreads /\ Reading /\ ReaderAsks  BY DEF ReaderInv
<1>2. file.closed => file.handle # 0  BY <1>1 DEF ReaderFile
<1>3. file.realpos \in 0 .. Length /\ Length \in Nat  BY <1>1, SftpAssumption DEF ReaderFile
<1>4. user.pc = "idle" /\ UNCHANGED <<use, channelVars, serverVars, clientVars>>
  BY DEF Call, CallOpen, CallClose, CallPath, CallFile, CallRead, CallWrite, CallSeek, CallReadv,
     CallPrefetch, CallList, MayCall
<1>5. UNCHANGED <<use, reqs, resps, up, srv, files, stored, number, expecting>>
  BY <1>4 DEF channelVars, serverVars, clientVars
<1>6. \A n : Numbered(n) /\ ForFile(n)' => ForFile(n)  BY <1>5 DEF ForFile
<1>7. ASSUME UNCHANGED threads, file'.handle = file.handle, file'.data = file.data,
             file'.extents = file.extents, file'.plock = file.plock,
             file'.saved = file.saved, file'.refused = file.refused, file'.realpos \in 0 .. Length,
             file'.closed = file.closed,
             user'.pc \notin {"wait", "store"}, Reading', ReaderAsks', ReaderUser'
      PROVE  ReaderInv'
  <2>1. /\ \A n : Prefetched(n) => Prefetched(n)'
        /\ \A n, off : Noted(n, off) => Noted(n, off)'
    BY <1>7, PrefetchesKept
  <2>2. ReaderThreads'  BY <1>1, <1>5, <1>7, ThreadsStill
  <2> HIDE DEF Prefetched, Noted, ForFile, Reading, ReaderAsks, ReaderUser
  <2> QED  BY <1>2, <1>5, <1>6, <1>7, <2>1, <2>2, ReaderStill
<1>8. ASSUME UNCHANGED <<threads, file>>, user'.pc \notin {"wait", "store"},
             Reading', ReaderAsks', ReaderUser'
      PROVE  ReaderInv'
  BY <1>3, <1>7, <1>8
<1>9. ASSUME UNCHANGED file, user'.pc = "acquire", user'.call \in ReadTypes \ {"read", "close"},
             user'.req.t = user'.call, user'.call \in OnFile => IsOpen /\ user'.req.h = file.handle,
             user'.call = "open" => file.handle = 0
      PROVE  Reading' /\ ReaderAsks' /\ ReaderUser'
  BY <1>9 DEF Reading, ReaderAsks, ReaderUser, ReadCalls, OnFile, IsOpen
<1> USE DEF Begin, UserFields, Request, Ask
<1>10. \A c : MayCall(c) => c \in ReadCalls  BY DEF Reads, MayCall
<1>11. CASE CallOpen
  <2>1. user'.pc = "acquire" /\ user'.call = "open" /\ user'.req.t = "open" /\ file.handle = 0
        /\ UNCHANGED <<file, threads>>
    BY <1>0, <1>11 DEF CallOpen
  <2> QED  BY <1>8, <1>9, <2>1 DEF ReadTypes, OnFile
<1>12. ASSUME NEW t \in ChangesPath \cup ReadsPath \cup SetsPath \cup NamesPath, CallPath(t)
       PROVE  ReaderInv'
  <2>1. user'.pc = "acquire" /\ user'.call = t /\ user'.req.t = t /\ UNCHANGED <<file, threads>>
    BY <1>0, <1>12 DEF CallPath
  <2>2. t \in Paths /\ t \notin {"open", "read", "close", "fstat", "fsetstat"}
    BY DEF Paths, ChangesPath, ReadsPath, SetsPath, NamesPath
  <2> QED  BY <1>8, <1>9, <2>1, <2>2 DEF ReadTypes, OnFile
<1>13. ASSUME NEW t \in {"fstat", "fsetstat"}, CallFile(t)  PROVE ReaderInv'
  <2>1. /\ user'.pc = "acquire" /\ user'.call = t /\ user'.req.t = t /\ user'.req.h = file.handle
        /\ IsOpen /\ UNCHANGED <<file, threads>>
    BY <1>0, <1>13 DEF CallFile
  <2> QED  BY <1>8, <1>9, <2>1 DEF ReadTypes, OnFile
<1>14. CASE CallClose
  <2>1. user'.pc = "finish" /\ user'.call = "close" /\ IsOpen /\ UNCHANGED <<file, threads>>
    BY <1>0, <1>14 DEF CallClose
  <2>2. Reading' /\ ReaderAsks' /\ ReaderUser'
    BY <2>1 DEF Reading, ReaderAsks, Awaiting, ReaderUser, ReadCalls, ReadTypes, OnFile, IsOpen
  <2> QED  BY <1>8, <2>1, <2>2
<1>15. ASSUME NEW pos \in 0 .. Length  PROVE Piece(<<>>, pos)
  <2>1. IsSeq(<<>>) /\ Len(<<>>) = 0  BY EmptyIs
  <2> QED  BY <1>3, <2>1 DEF Piece, Bytes
<1>16. ASSUME NEW size \in Sizes, CallRead(size)  PROVE ReaderInv'
  <2>1. PICK u : u = [Begin("read") EXCEPT !.want = size]  OBVIOUS
  <2>2. /\ DOMAIN u = UserFields /\ u.call = "read" /\ u.from = file.realpos /\ u.want = size
        /\ u.got = <<>>
    BY <1>0, <2>1
  <2>3. size \in Nat \ {0} /\ Len(<<>>) = 0  BY SftpAssumption, EmptyIs
  <2>4. IsOpen /\ user' = ReadRest(u, file) /\ UNCHANGED <<file, threads>>
    BY <1>16, <2>1 DEF CallRead
  <2>5. PICK f : f = file  OBVIOUS
  <2>6. /\ u.from \in Nat /\ u.want \in Nat \ {0} /\ Piece(u.got, u.from) /\ Len(u.got) < u.want
        /\ f.realpos = u.from + Len(u.got) /\ f.handle # 0 /\ ~f.closed
        /\ user' = ReadRest(u, f) /\ file' = f
    BY <1>3, <1>15, <2>2, <2>3, <2>4, <2>5 DEF IsOpen
  <2>7. Reading' /\ ReaderAsks' /\ ReaderUser' /\ user'.pc \in {"acquire", "prefetched"}
    BY <2>2, <2>6, ReadRestIs
  <2> QED  BY <1>8, <2>4, <2>7
<1>17. ASSUME NEW off \in 0 .. Length, CallSeek(off)  PROVE ReaderInv'
  <2>1. user'.pc = "idle" /\ user'.call = "seek" /\ ~user'.failed /\ UNCHANGED threads
    BY <1>0, <1>17 DEF CallSeek, Return
  <2>2. file' = [file EXCEPT !.realpos = off]  BY <1>17 DEF CallSeek
  <2>3. /\ file'.handle = file.handle /\ file'.data = file.data /\ file'.extents = file.extents
        /\ file'.plock = file.plock /\ file'.closed = file.closed
        /\ file'.saved = file.saved /\ file'.refused = file.refused /\ file'.realpos \in 0 .. Length
    BY <1>0, <2>2 DEF FileFields
  <2>4. Reading' /\ ReaderAsks' /\ ReaderUser'
    BY <2>1 DEF Reading, ReaderAsks, Awaiting, ReaderUser, ReadCalls
  <2> QED  BY <1>7, <2>1, <2>3, <2>4
<1>18. ASSUME NEW chunks, IsSeq(chunks),
              \A i \in 1 .. Len(chunks) : chunks[i].off \in Nat /\ chunks[i].len \in Nat,
              StartPrefetch(chunks), IsOpen,
              file'.handle = file.handle, file'.data = file.data, file'.extents = file.extents,
              file'.saved = file.saved, file'.refused = file.refused, file'.realpos \in 0 .. Length,
              file'.closed = file.closed, file'.plock = file.plock,
              user'.pc \notin {"wait", "store"}, Reading', ReaderAsks', ReaderUser'
       PROVE  ReaderInv'
  <2>1. /\ ReaderThreads'
        /\ \A n : Prefetched(n) => Prefetched(n)'
        /\ \A n, off : Noted(n, off) => Noted(n, off)'
    BY <1>0, <1>1, <1>5, <1>18, PrefetchStarts DEF IsOpen
  <2> HIDE DEF Prefetched, Noted, ForFile, Reading, ReaderAsks, ReaderUser
  <2> QED  BY <1>2, <1>5, <1>6, <1>18, <2>1, ReaderStill
<1>19. ASSUME NEW extra \in 0 .. use.slack, CallPrefetch(extra)  PROVE ReaderInv'
  <2>1. user'.pc = "idle" /\ user'.call = "prefetch" /\ ~user'.failed /\ IsOpen
    BY <1>0, <1>19 DEF CallPrefetch, Return
  <2>2. Reading' /\ ReaderAsks' /\ ReaderUser'
    BY <2>1 DEF Reading, ReaderAsks, Awaiting, ReaderUser, ReadCalls
  <2>3. PICK chunks : chunks = Chunks(file.realpos, Length + extra)  OBVIOUS
  <2>4. file.realpos \in Nat /\ Length + extra \in Nat
    BY <1>3, SftpAssumption
  <2>5. IsSeq(chunks) /\ \A i \in 1 .. Len(chunks) : chunks[i].off \in Nat /\ chunks[i].len \in Nat
    BY <2>3, <2>4, ChunksAre
  <2>6. CASE UNCHANGED <<threads, file>>  BY <1>8, <2>1, <2>2, <2>6
  <2>7. CASE StartPrefetch(chunks) /\ file' = [file EXCEPT !.prefetching = TRUE, !.done = FALSE]
    <3>1. /\ file'.handle = file.handle /\ file'.data = file.data /\ file'.extents = file.extents
          /\ file'.plock = file.plock /\ file'.closed = file.closed
          /\ file'.saved = file.saved /\ file'.refused = file.refused /\ file'.realpos = file.realpos
      BY <1>0, <2>7 DEF FileFields
    <3> QED  BY <1>3, <1>18, <2>1, <2>2, <2>5, <2>7, <3>1
  <2> QED  BY <1>19, <2>3, <2>6, <2>7 DEF CallPrefetch
<1>20. ASSUME NEW off \in 0 .. Length, NEW size \in Sizes, CallReadv(off, size)  PROVE ReaderInv'
  <2>1. PICK u : u = [Begin("read") EXCEPT !.want = size, !.from = off]  OBVIOUS
  <2>2. /\ DOMAIN u = UserFields /\ u.call = "read" /\ u.from = off /\ u.want = size
        /\ u.got = <<>>
    BY <1>0, <2>1
  <2>3. size \in Nat \ {0} /\ Len(<<>>) = 0  BY SftpAssumption, EmptyIs
  <2>4. PICK f : f = [file EXCEPT !.prefetching = TRUE, !.done = FALSE, !.realpos = off]  OBVIOUS
  <2>5. /\ f.handle = file.handle /\ f.data = file.data /\ f.extents = file.extents
        /\ f.plock = file.plock /\ f.closed = file.closed
        /\ f.saved = file.saved /\ f.refused = file.refused /\ f.realpos = off
    BY <1>0, <2>4 DEF FileFields
  <2>6. IsOpen /\ user' = ReadRest(u, f) /\ file' = f
    BY <1>20, <2>1, <2>4 DEF CallReadv
  <2>7. /\ u.from \in Nat /\ u.want \in Nat \ {0} /\ Piece(u.got, u.from) /\ Len(u.got) < u.want
        /\ f.realpos = u.from + Len(u.got) /\ f.handle # 0 /\ ~f.closed
    BY <1>3, <1>15, <2>2, <2>3, <2>5, <2>6 DEF IsOpen
  <2>8. Reading' /\ ReaderAsks' /\ ReaderUser' /\ user'.pc \in {"acquire", "prefetched"}
    BY <2>2, <2>6, <2>7, ReadRestIs
  <2>9. PICK chunks : /\ chunks \in {<<>>, Chunks(off, off + size)}
                      /\ StartPrefetch(chunks)
    BY <1>20 DEF CallReadv
  <2>10. IsSeq(chunks) /\ \A i \in 1 .. Len(chunks) : chunks[i].off \in Nat /\ chunks[i].len \in Nat
    <3>1. off \in Nat /\ off + size \in Nat  BY <1>3, <2>3
    <3>2. CASE chunks = <<>>  BY <3>2, EmptyIs
    <3>3. CASE chunks = Chunks(off, off + size)  BY <3>1, <3>3, ChunksAre
    <3> QED  BY <2>9, <3>2, <3>3
  <2> QED  BY <1>18, <2>5, <2>6, <2>8, <2>9, <2>10
<1>21. /\ \A n : ~CallWrite(n)
       /\ \A c \in {"list", "listiter"} : ~CallList(c)
  <2>1. {"write", "list", "listiter"} \cap ReadCalls = {}
    BY DEF ReadCalls, ReadTypes, Paths, ChangesPath, ReadsPath, SetsPath, NamesPath
  <2> QED  BY <1>10, <2>1 DEF CallWrite, CallList
<1> QED
  BY <1>11, <1>12, <1>13, <1>14, <1>16, <1>17, <1>19, <1>20, <1>21 DEF Call

\* The file keeps its bytes while requests are sent and answered.
LEMMA ReaderFileKept ==
  ASSUME ReaderFile, number \in Nat \ {0}, number' \in {number, number + 1}, stored' = stored,
         file'.handle = file.handle, file'.data = file.data, file'.realpos = file.realpos,
         file'.extents = file.extents, file'.saved = file.saved, file'.refused = file.refused,
         file'.closed = file.closed,
         file.handle # 0 /\ ~file.closed => file.handle \in files' \/ srv'.pc = "gone"
  PROVE  ReaderFile'
<1>1. \A n : Numbered(n) => Numbered(n)'
  <2>1. CASE number' = number  BY <2>1 DEF Numbered
  <2>2. CASE number' = number + 1  BY <2>2 DEF Numbered
  <2> QED  BY <2>1, <2>2
<1> HIDE DEF Piece, Numbered
<1> QED  BY <1>1 DEF ReaderFile

\* Sending a request
LEMMA ReaderSends ==
  ASSUME Common, ReaderInv, SendRequest
  PROVE  ReaderInv'
<1>0. DOMAIN user = UserFields /\ Asked /\ Packets  BY DEF Common, Shapes
<1>1. ReaderUser /\ ReaderFile /\ ReaderThreads /\ Reading /\ ReaderAsks /\ ReaderOnTheWay
  BY DEF ReaderInv
<1>2. Transmit(user.req, "sync") /\ user.pc = "send" /\ UNCHANGED <<use, serverVars, threads>>
  BY DEF SendRequest
<1>3. IsSeq(reqs) /\ number \in Nat \ {0}  BY <1>0 DEF Packets
<1>4. /\ Len(reqs) \in Nat /\ Len(reqs') = Len(reqs) + 1
      /\ \A i \in 1 .. Len(reqs) : reqs'[i] = reqs[i]
      /\ number' = number + 1 /\ UNCHANGED <<resps, up>>
  BY <1>2, <1>3, TransmitIs
<1>5. PICK r : /\ reqs'[Len(reqs) + 1] = r /\ r.num = number
               /\ r.t = user.req.t /\ r.h = user.req.h /\ r.off = user.req.off /\ r.arg = user.req.arg
  BY <1>2, <1>3, TransmitIs
<1>6. expecting' = Put(expecting, number, "sync")  BY <1>2 DEF Transmit
<1>7. user.req.t = user.call /\ user.call \in ReadTypes  BY <1>1, <1>2 DEF ReaderAsks
<1>8. user.call \notin {"write", "listiter"}
  BY <1>7 DEF ReadTypes, Paths, ChangesPath, ReadsPath, SetsPath, NamesPath
<1>9. user' = [user EXCEPT !.pc = "wait", !.wait = number] /\ UNCHANGED file
  BY <1>8 DEF SendRequest
<1>10. /\ user'.pc = "wait" /\ user'.wait = number /\ user'.call = user.call /\ user'.req = user.req
       /\ user'.want = user.want /\ user'.got = user.got /\ user'.from = user.from
  BY <1>0, <1>9 DEF UserFields
<1>11. \A n : Numbered(n) => n # number  BY <1>3 DEF Numbered
<1>12. \A n : Awaits(n)' => n = number  BY <1>10 DEF Awaits, Awaiting
<1>13. \A n : ForFile(n)' => ForFile(n) /\ n # number  BY <1>6 DEF ForFile, Put
<1>14. /\ \A n : Prefetched(n)' <=> Prefetched(n)
       /\ \A n, off : Noted(n, off)' <=> Noted(n, off)
  BY <1>2, <1>9, PrefetchesKept
<1>15. UNCHANGED <<use, srv, files, stored, file, threads>>  BY <1>2, <1>9 DEF serverVars
<1>16. /\ \A q : Numbered(q.num) /\ ReaderRequest(q) => ReaderRequest(q)'
       /\ \A m : Numbered(m.num) /\ ReaderAnswer(m) => ReaderAnswer(m)'
  <2> HIDE DEF Prefetched, Noted, ForFile, Awaits, Numbered
  <2> QED  BY <1>11, <1>12, <1>13, <1>14, <1>15, ReaderFrame
<1>17. ReaderRequest(r)'
  <2>1. Made(r)'  BY <1>5, <1>10 DEF Made
  <2>2. ~ForFile(r.num)'  BY <1>5, <1>13
  <2>3. r.t = "close" => file'.closed  BY <1>1, <1>2, <1>5, <1>7, <1>15 DEF ReaderAsks
  <2> HIDE DEF Made, ForFile
  <2> QED  BY <1>5, <1>7, <2>1, <2>2, <2>3 DEF ReaderRequest
<1>18. ASSUME NEW i \in 1 .. Len(reqs')  PROVE ReaderRequest(reqs[i])'
  <2>1. CASE i = Len(reqs) + 1  BY <1>5, <1>17, <2>1
  <2>2. CASE i \in 1 .. Len(reqs)
    <3>1. PICK q : q = reqs[i]  OBVIOUS
    <3>2. Numbered(q.num) /\ ReaderRequest(q)  BY <1>0, <1>1, <2>2, <3>1 DEF Packets, ReaderOnTheWay
    <3>3. reqs'[i] = q  BY <1>4, <2>2, <3>1
    <3> QED  BY <1>16, <3>2, <3>3
  <2> QED  BY <1>4, <2>1, <2>2
<1>19. ASSUME NEW i \in 1 .. Len(resps')  PROVE ReaderAnswer(resps[i])'
  <2>1. PICK m : m = resps[i]  OBVIOUS
  <2>2. i \in 1 .. Len(resps) /\ resps'[i] = m  BY <1>4, <2>1
  <2>3. Numbered(m.num) /\ ReaderAnswer(m)  BY <1>0, <1>1, <2>1, <2>2 DEF Packets, ReaderOnTheWay
  <2> QED  BY <1>16, <2>2, <2>3
<1>20. Answering' => ReaderAnswer(srv.msg)'
  <2>1. PICK m : m = srv.msg  OBVIOUS
  <2>2. srv'.msg = m /\ (Answering' <=> Answering)  BY <1>15, <2>1 DEF Answering
  <2>3. Answering => Numbered(m.num) /\ ReaderAnswer(m)  BY <1>0, <1>1, <2>1 DEF Packets, ReaderOnTheWay
  <2> QED  BY <1>16, <2>2, <2>3
<1>21. ReaderOnTheWay'  BY <1>18, <1>19, <1>20 DEF ReaderOnTheWay
<1>22. ReaderThreads'
  <2>1. ASSUME NEW t \in Threads  PROVE ReaderThread(t)'
    <3>1. ReaderThread(t)  BY <1>1 DEF ReaderThreads
    <3>2. \A n : Numbered(n) => Numbered(n)'  BY <1>3, <1>4 DEF Numbered
    <3>3. PICK h : h = threads[t]  OBVIOUS
    <3>4. threads'[t] = h  BY <1>15, <3>3
    <3> HIDE DEF Numbered
    <3> QED  BY <1>15, <3>1, <3>2, <3>3, <3>4 DEF ReaderThread
  <2> QED  BY <2>1 DEF ReaderThreads
<1>23. ReaderFile'
  <2>1. file.handle # 0 /\ ~file.closed => file.handle \in files' \/ srv'.pc = "gone"
    BY <1>1, <1>15 DEF ReaderFile
  <2> QED  BY <1>1, <1>3, <1>4, <1>15, <2>1, ReaderFileKept
<1>24. Reading'
  <2> HIDE DEF Piece
  <2> QED  BY <1>1, <1>2, <1>9, <1>10 DEF Reading
<1>25. ReaderAsks'  BY <1>1, <1>2, <1>9, <1>10 DEF ReaderAsks
<1>26. Held'  BY <1>10 DEF Held
<1>27. ReaderUser'  BY <1>1, <1>2, <1>9, <1>10 DEF ReaderUser
<1> QED  BY <1>21, <1>22, <1>23, <1>24, <1>25, <1>26, <1>27 DEF ReaderInv

\* A single look for a response leads back to the read or to close.
LEMMA PollIs ==
  ASSUME DOMAIN user = UserFields, ReaderUser, Reading, user.pc # "idle",
         user.call = "read" \/ (user.call = "close" /\ file.handle # 0 /\ ~file.closed),
         NEW f, DOMAIN f = FileFields, f.handle = file.handle, f.closed = file.closed,
         f.realpos = file.realpos, f.saved # "none" => f.refused, AfterPoll(f)
  PROVE  /\ user'.pc \in {"idle", "finish", "prefetched"}
         /\ Reading' /\ ReaderAsks' /\ ReaderUser'
         /\ file'.saved # "none" => file'.refused
         /\ \A x \in FileFields \ {"saved"} : file'[x] = f[x]
<1>1. CASE f.saved = "none"
  <2>1. /\ file' = f
        /\ user' = [user EXCEPT !.pc = IF user.call = "close" THEN "finish" ELSE "prefetched",
                                !.held = NoMessage]
    BY <1>1 DEF AfterPoll
  <2>2. /\ user'.pc = IF user.call = "close" THEN "finish" ELSE "prefetched"
        /\ user'.call = user.call /\ user'.want = user.want /\ user'.got = user.got
        /\ user'.from = user.from
    BY <2>1 DEF UserFields
  <2>3. Reading'
    <3> HIDE DEF Piece
    <3> QED  BY <2>1, <2>2 DEF Reading
  <2>4. ReaderAsks'  BY <2>2 DEF ReaderAsks, Awaiting
  <2>5. ReaderUser'  BY <2>1, <2>2 DEF ReaderUser, ReadCalls, ReadTypes, OnFile
  <2> QED  BY <2>1, <2>2, <2>3, <2>4, <2>5
<1>2. CASE f.saved # "none"
  <2>1. PICK u : u = IF f.saved = "eof" /\ user.call = "read" THEN Return(user) ELSE Raise(user)
    OBVIOUS
  <2>2. /\ DOMAIN u = UserFields /\ u.pc = "idle" /\ u.call = user.call /\ u.want = user.want
        /\ u.got = user.got /\ u.from = user.from
    BY <2>1 DEF Return, Raise, UserFields
  <2>3. file' = [f EXCEPT !.saved = "none"] /\ user' = [u EXCEPT !.held = NoMessage]
    BY <1>2, <2>1 DEF AfterPoll
  <2>4. /\ user'.pc = "idle" /\ user'.call = user.call /\ user'.want = user.want
        /\ user'.got = user.got /\ user'.from = user.from
    BY <2>2, <2>3 DEF UserFields
  <2>5. file'.saved = "none" /\ \A x \in FileFields \ {"saved"} : file'[x] = f[x]
    BY <2>3 DEF FileFields
  <2>6. file'.refused /\ file'.handle = f.handle /\ file'.closed = f.closed /\ file'.realpos = f.realpos
    BY <1>2, <2>5 DEF FileFields
  <2>7. Reading'
    <3> HIDE DEF Piece
    <3> QED  BY <2>4, <2>6 DEF Reading
  <2>8. ReaderAsks'  BY <2>4 DEF ReaderAsks, Awaiting
  <2>9. ReaderUser'  BY <2>4, <2>6 DEF ReaderUser, ReadCalls, ReadTypes, OnFile
  <2> QED  BY <2>4, <2>5, <2>7, <2>8, <2>9
<1> QED  BY <1>1, <1>2

\* Taking a response off the channel
LEMMA ReaderLooks ==
  ASSUME Common, ReaderInv, ReadResponse
  PROVE  ReaderInv'
<1>0. DOMAIN user = UserFields /\ DOMAIN file = FileFields /\ Kinds /\ Asked /\ Packets
  BY DEF Common, Shapes
<1>1. ReaderUser /\ ReaderFile /\ ReaderThreads /\ Reading /\ ReaderAsks /\ ReaderOnTheWay
  BY DEF ReaderInv
<1>2. /\ user.pc \in {"wait", "poll"} /\ resps # <<>> /\ resps' = Tail(resps)
      /\ UNCHANGED <<use, reqs, up, serverVars, number, threads>>
      /\ expecting' = [n \in DOMAIN expecting \ {Head(resps).num} |-> expecting[n]]
  BY DEF ReadResponse
<1>3. PICK m : m = Head(resps)  OBVIOUS
<1>4. IsSeq(resps)  BY <1>0 DEF Packets
<1>5. m = resps[1] /\ 1 \in 1 .. Len(resps)  BY <1>2, <1>3, <1>4, TakenIs
<1>6. ReaderAnswer(m) /\ Numbered(m.num)  BY <1>0, <1>1, <1>5 DEF ReaderOnTheWay, Packets
<1>7. \A n : ForFile(n)' => ForFile(n) /\ n # m.num  BY <1>2, <1>3 DEF ForFile
<1>8. m.num \notin DOMAIN expecting'  BY <1>2, <1>3
<1>9. file.closed => file.handle # 0  BY <1>1 DEF ReaderFile
<1>10. UNCHANGED <<use, reqs, up, srv, files, stored, number, threads>>  BY <1>2 DEF serverVars
<1>11. ASSUME DOMAIN file' = FileFields, \A x \in FileFields \ {"saved", "refused", "realpos"} : file'[x] = file[x],
              file'.saved # "none" => file'.refused, file'.realpos \in 0 .. Length,
              \A n : Awaits(n)' => Awaits(n) /\ user'.call = user.call /\ user'.req = user.req,
              Reading', ReaderAsks', Held', ReaderUser'
       PROVE  ReaderInv'
  <2>1. /\ file'.handle = file.handle /\ file'.data = file.data /\ file'.extents = file.extents
        /\ file'.plock = file.plock /\ file'.closed = file.closed
    BY <1>11 DEF FileFields
  <2>2. /\ \A n : Prefetched(n)' <=> Prefetched(n)
        /\ \A n, off : Noted(n, off)' <=> Noted(n, off)
    BY <1>10, <2>1, PrefetchesKept
  <2>3. ReaderThreads'  BY <1>1, <1>10, <2>1, ThreadsStill
  <2>4. /\ \A o \in DOMAIN file'.data : Piece(file'.data[o], o)
        /\ file.handle = 0 => DOMAIN file'.data = {}
    <3> HIDE DEF Piece
    <3> QED  BY <1>1, <2>1 DEF ReaderFile
  <2> HIDE DEF Prefetched, Noted, ForFile, Awaits, Piece, Numbered, Reading, ReaderAsks, Held, ReaderUser,
      ReaderThreads
  <2>5. \A n : ForFile(n)' => /\ ForFile(n) /\ (Prefetched(n) => Prefetched(n)')
                              /\ \A off : Noted(n, off) => Noted(n, off)'
    BY <1>7, <2>2
  <2> QED  BY <1>2, <1>9, <1>10, <1>11, <2>1, <2>3, <2>4, <2>5, ReaderMoves
<1>14. ASSUME NEW f, DOMAIN f = FileFields, f.saved # "none" => f.refused, file.refused => f.refused,
              \A x \in FileFields \ {"saved", "refused"} : f[x] = file[x], Dispatched(f)
       PROVE  ReaderInv'
  <2>1. f.handle = file.handle /\ f.closed = file.closed /\ f.realpos = file.realpos
    BY <1>14 DEF FileFields
  <2>2. CASE user.wait = 0
    <3>1. AfterPoll(f)  BY <1>14, <2>2 DEF Dispatched
    <3>2. user.pc = "poll"  BY <1>0, <1>2, <2>2 DEF Packets
    <3>3. user.call = "read" \/ (user.call = "close" /\ file.handle # 0 /\ ~file.closed)
      BY <1>1, <3>2 DEF ReaderUser
    <3>4. /\ user'.pc \in {"idle", "finish", "prefetched"}
          /\ Reading' /\ ReaderAsks' /\ ReaderUser'
          /\ file'.saved # "none" => file'.refused
          /\ \A x \in FileFields \ {"saved"} : file'[x] = f[x]
      BY <1>0, <1>1, <1>14, <2>1, <3>1, <3>2, <3>3, PollIs
    <3>5. \A x \in FileFields \ {"saved", "refused", "realpos"} : file'[x] = file[x]
      BY <1>14, <3>4
    <3>6. file'.realpos = f.realpos  BY <3>4 DEF FileFields
    <3>7. file'.realpos \in 0 .. Length  BY <1>1, <2>1, <3>6 DEF ReaderFile
    <3>8. DOMAIN file' = FileFields  BY <1>14, <3>1 DEF AfterPoll
    <3>9. \A n : ~Awaits(n)'  BY <3>4 DEF Awaits, Awaiting
    <3>10. Held'  BY <3>4 DEF Held
    <3> HIDE DEF Awaits, Reading, ReaderAsks, ReaderUser
    <3> QED  BY <1>11, <3>4, <3>5, <3>7, <3>8, <3>9, <3>10
  <2>3. CASE user.wait # 0
    <3>1. file' = f /\ UNCHANGED user  BY <1>14, <2>3 DEF Dispatched
    <3>2. \A n : Awaits(n)' => Awaits(n)  BY <3>1 DEF Awaits, Awaiting
    <3>3. Reading'
      <4> HIDE DEF Piece
      <4>1. user.pc # "idle" /\ user' = user  BY <3>1 DEF ReadResponse
      <4> QED  BY <1>1, <1>14, <2>1, <3>1, <4>1 DEF Reading
    <3>4. ReaderAsks'  BY <1>1, <2>1, <3>1 DEF ReaderAsks, Awaiting
    <3>5. ReaderUser'  BY <1>1, <1>2, <1>10, <2>1, <3>1 DEF ReaderUser
    <3>6. Held'  BY <1>2, <3>1 DEF Held
    <3>7. file'.realpos \in 0 .. Length  BY <1>1, <2>1, <3>1 DEF ReaderFile
    <3> HIDE DEF Awaits, Reading, ReaderAsks, ReaderUser, Held
    <3> QED  BY <1>11, <1>14, <3>1, <3>2, <3>3, <3>4, <3>5, <3>6, <3>7
  <2> QED  BY <2>2, <2>3
<1>15. CASE Dispatched(file)
  <2>1. file.saved # "none" => file.refused  BY <1>1 DEF ReaderFile
  <2> QED  BY <1>0, <1>14, <1>15, <2>1
<1>16. CASE Dispatched([file EXCEPT !.saved = IF Says(m, {"eof"}) THEN "eof" ELSE "failure",
                                    !.refused = TRUE])
  <2>1. PICK s : s = IF Says(m, {"eof"}) THEN "eof" ELSE "failure"  OBVIOUS
  <2>2. PICK f : f = [file EXCEPT !.saved = s, !.refused = TRUE]  OBVIOUS
  <2>3. DOMAIN f = FileFields /\ f.refused /\ \A x \in FileFields \ {"saved", "refused"} : f[x] = file[x]
    BY <1>0, <2>2 DEF FileFields
  <2>4. Dispatched(f)  BY <1>16, <2>1, <2>2
  <2> QED  BY <1>14, <2>3, <2>4
<1>17. CASE /\ m.t # "status" /\ ForFile(m.num)
            /\ user' = [user EXCEPT !.pc = "store", !.held = m] /\ UNCHANGED file
  <2>1. /\ user'.pc = "store" /\ user'.held = m /\ user'.call = user.call /\ user'.req = user.req
        /\ user'.want = user.want /\ user'.got = user.got /\ user'.from = user.from
        /\ user'.wait = user.wait
    BY <1>0, <1>17 DEF UserFields
  <2>2. user.pc = "wait" <=> user.wait # 0  BY <1>0, <1>2 DEF Packets
  <2>3. \A n : Awaits(n)' => Awaits(n)  BY <1>2, <2>1, <2>2 DEF Awaits, Awaiting
  <2>4. Reading'
    <3> HIDE DEF Piece
    <3> QED  BY <1>1, <1>2, <1>17, <2>1 DEF Reading
  <2>5. ReaderAsks'  BY <1>1, <1>17, <2>1, <2>2 DEF ReaderAsks, Awaiting
  <2>6. ReaderUser'  BY <1>1, <1>2, <1>17, <2>1, <2>2 DEF ReaderUser
  <2>7. Held'
    <3>1. PrefetchAnswer(m)  BY <1>6, <1>17 DEF ReaderAnswer
    <3>2. /\ \A n : Prefetched(n)' <=> Prefetched(n)
          /\ \A n, off : Noted(n, off)' <=> Noted(n, off)
      BY <1>10, <1>17, PrefetchesKept
    <3>3. PrefetchAnswer(m)'
      <4> HIDE DEF Prefetched, Noted, Piece
      <4> QED  BY <3>1, <3>2 DEF PrefetchAnswer
    <3>4. Numbered(m.num)'  BY <1>6, <1>10 DEF Numbered
    <3> HIDE DEF PrefetchAnswer, Numbered
    <3> QED  BY <1>8, <1>17, <2>1, <3>3, <3>4 DEF Held
  <2>8. file'.saved # "none" => file'.refused  BY <1>1, <1>17 DEF ReaderFile
  <2>9. file'.realpos \in 0 .. Length  BY <1>1, <1>17 DEF ReaderFile
  <2> HIDE DEF Awaits, Reading, ReaderAsks, ReaderUser, Held
  <2> QED  BY <1>0, <1>11, <1>17, <2>1, <2>3, <2>4, <2>5, <2>6, <2>7, <2>8, <2>9
<1>18. CASE Response(m) /\ m.num = user.wait
  <2>1. user.pc = "wait" /\ Awaits(m.num)
    <3>1. m.num # 0  BY <1>6 DEF Numbered
    <3> QED  BY <1>0, <1>2, <1>18, <3>1 DEF Packets, Awaits, Awaiting
  <2>2. Answers(m)  BY <1>6, <2>1 DEF ReaderAnswer
  <2>3. user.req.t = user.call /\ user.call \in ReadTypes  BY <1>1, <2>1 DEF ReaderAsks, Awaiting
  <2>4. user.call \notin {"write", "list", "listiter"} /\ user.call \in Requesting
    BY <2>3 DEF ReadTypes, Requesting, Paths, ChangesPath, ReadsPath, SetsPath, NamesPath
  <2>5. PICK v : v = m.v  OBVIOUS
  <2>6. \/ /\ Says(m, {"failure", "bad"}) /\ UNCHANGED file
           /\ user' = IF user.call = "close" THEN Return(user) ELSE Raise(user)
        \/ /\ ~Says(m, {"failure", "bad"})
           /\ \/ user.call = "open" /\ file' = NewFile(v[1], use.pipelined) /\ user' = Return(user)
              \/ user.call = "read" /\ Got(user, file, IF m.t = "data" THEN v ELSE <<>>)
              \/ /\ user.call \notin {"open", "read", "close"}
                 /\ user' = Return([user EXCEPT !.got = v]) /\ UNCHANGED file
              \/ user.call = "close" /\ user' = Return(user) /\ UNCHANGED file
    <3>1. user.call \in Paths \cup {"fstat", "fsetstat"} => user.call \notin {"open", "read", "close"}
      BY DEF Paths, ChangesPath, ReadsPath, SetsPath, NamesPath
    <3> HIDE DEF Says, Got, Return, Raise, NewFile
    <3> QED  BY <1>18, <2>4, <2>5, <3>1, ResponseIs
  <2>7. user.call = "read" => Data(m, user.req.off, user.req.arg)  BY <2>2 DEF Answers
  <2>8. user.call = "read" => ~Says(m, {"failure", "bad"})  BY <2>7 DEF Data, Says
  <2>9. CASE /\ UNCHANGED file /\ user.call \notin {"open", "read"}
             /\ user'.pc = "idle" /\ user'.call = user.call
             /\ user'.failed => Says(m, {"failure", "bad"}) /\ user.call # "close"
    <3>1. user'.failed => use.fails
      <4>1. Says(m, {"failure", "bad"}) => Says(m, {"failure"}) \/ Says(m, {"bad"})  BY DEF Says
      <4> QED  BY <2>2, <2>9, <4>1 DEF Answers
    <3>2. \A n : ~Awaits(n)'  BY <2>9 DEF Awaits, Awaiting
    <3>3. Reading' /\ ReaderAsks' /\ Held'  BY <2>9 DEF Reading, ReaderAsks, Awaiting, Held
    <3>4. ReaderUser'  BY <1>1, <1>10, <2>9, <3>1 DEF ReaderUser
    <3>5. file'.saved # "none" => file'.refused  BY <1>1, <2>9 DEF ReaderFile
    <3>6. file'.realpos \in 0 .. Length  BY <1>1, <2>9 DEF ReaderFile
    <3> HIDE DEF Awaits, Reading, ReaderAsks, ReaderUser, Held
    <3> QED  BY <1>0, <1>11, <2>9, <3>2, <3>3, <3>4, <3>5, <3>6
  <2>10. CASE user.call = "read" /\ Got(user, file, IF m.t = "data" THEN v ELSE <<>>)
    <3>1. PICK d : d = IF m.t = "data" THEN v ELSE <<>>  OBVIOUS
    <3>2. /\ user.req.off = file.realpos /\ user.req.arg = Least(user.want - Len(user.got), MaxRequest)
      BY <1>1, <2>1, <2>10 DEF ReaderAsks, Awaiting
    <3>3. user.want \in Nat \ {0} /\ Len(user.got) < user.want /\ IsSeq(user.got)
      BY <1>1, <2>1, <2>10 DEF Reading, Piece
    <3>4. Len(user.got) \in Nat /\ Len(<<>>) = 0 /\ IsSeq(<<>>)  BY <3>3, LenIs, EmptyIs
    <3>5. user.req.arg <= user.want - Len(user.got)
      BY <3>2, <3>3, <3>4, SftpAssumption DEF Least
    <3>6. file.realpos \in 0 .. Length /\ Length \in Nat  BY <1>1, SftpAssumption DEF ReaderFile
    <3>7. Data(m, file.realpos, user.req.arg)  BY <2>7, <2>10, <3>2
    <3>8. ASSUME m.t = "data"
        PROVE  Piece(d, file.realpos) /\ Len(d) <= user.want - Len(user.got)
               /\ (d = <<>> => file.realpos = Length)
      <4>1. d = v /\ Piece(v, file.realpos) /\ Len(v) \in 1 .. user.req.arg
        BY <2>5, <3>1, <3>7, <3>8 DEF Data, Says
      <4>2. Len(d) <= user.want - Len(user.got)
        <5>1. user.want - Len(user.got) \in Int /\ user.req.arg \in Int
          BY <3>2, <3>3, <3>4, SftpAssumption DEF Least
        <5> QED  BY <3>5, <4>1, <5>1
      <4>3. Len(v) # 0  BY <4>1
      <4>4. d # <<>>  BY <3>4, <4>1, <4>3
      <4> QED  BY <2>10, <4>1, <4>2, <4>4
    <3>9. ASSUME m.t # "data"
        PROVE  Piece(d, file.realpos) /\ Len(d) <= user.want - Len(user.got)
               /\ (d = <<>> => file.realpos = Length)
      <4>1. d = <<>> /\ file.realpos >= Length  BY <3>1, <3>7, <3>9 DEF Data
      <4>2. file.realpos = Length  BY <3>6, <4>1
      <4>3. Piece(d, file.realpos)  BY <3>4, <3>6, <4>1 DEF Piece, Bytes
      <4>4. Len(d) <= user.want - Len(user.got)  BY <3>3, <3>4, <4>1
      <4> QED  BY <4>2, <4>3, <4>4
    <3>10. Piece(d, file.realpos) /\ Len(d) <= user.want - Len(user.got)
           /\ (d = <<>> => file.realpos = Length)
      BY <2>10, <3>8, <3>9
    <3>11. Got(user, file, d)  BY <2>10, <3>1
    <3>12. /\ Reading' /\ ReaderAsks' /\ ReaderUser' /\ user'.pc \in {"idle", "acquire", "prefetched"}
           /\ file'.realpos \in 0 .. Length /\ DOMAIN file' = FileFields
           /\ \A x \in FileFields \ {"realpos"} : file'[x] = file[x]
      <4> HIDE DEF Reading, ReaderAsks, ReaderUser, Piece, Got
      <4> QED  BY <1>0, <1>1, <2>1, <2>10, <3>10, <3>11, GotIs
    <3>13. \A n : ~Awaits(n)'  BY <3>12 DEF Awaits, Awaiting
    <3>14. Held'  BY <3>12 DEF Held
    <3>15. file'.saved # "none" => file'.refused  BY <1>1, <3>12 DEF ReaderFile, FileFields
    <3>16. \A x \in FileFields \ {"saved", "refused", "realpos"} : file'[x] = file[x]  BY <3>12
    <3> HIDE DEF Awaits, Reading, ReaderAsks, ReaderUser, Held
    <3> QED  BY <1>11, <3>12, <3>13, <3>14, <3>15, <3>16
  <2>11. CASE user.call = "open" /\ file' = NewFile(v[1], use.pipelined) /\ user' = Return(user)
    <3>1. v[1] \in Nat \ {0} /\ (v[1] \in files \/ srv.pc = "gone")
      BY <2>2, <2>5, <2>11 DEF Answers
    <3>2. /\ file'.handle = v[1] /\ file'.realpos = 0 /\ file'.saved = "none" /\ ~file'.closed
          /\ file'.data = <<>> /\ file'.extents = <<>>
      BY <2>11 DEF NewFile
    <3>3. DOMAIN <<>> = {}  BY EmptyIs, LenIs
    <3>4. user'.pc = "idle" /\ user'.call = "open" /\ ~user'.failed
      BY <1>0, <2>11 DEF Return, UserFields
    <3>5. file.handle = 0  BY <1>1, <2>1, <2>11 DEF ReaderUser
    <3>6. DOMAIN file.extents = {} /\ ~file.closed  BY <1>1, <3>5 DEF ReaderFile
    <3>7. \A t \in Threads : threads[t].pc = "unused" /\ threads'[t] = threads[t]
      BY <1>1, <1>10, <3>5 DEF ReaderThreads, ReaderThread
    <3>8. \A n : ~Prefetched(n)  BY <3>6, <3>7 DEF Prefetched, Unnoted
    <3>9. \A n, off : Noted(n, off)'  BY <3>2, <3>3, <3>7 DEF Noted, Unnoted
    <3>10. \A n : ~Awaits(n)'  BY <3>4 DEF Awaits, Awaiting
    <3>11. ReaderOnTheWay'
      <4> HIDE DEF Prefetched, Noted, ForFile, Awaits
      <4> QED  BY <1>0, <1>1, <1>2, <1>7, <1>10, <3>6, <3>8, <3>9, <3>10, ReaderQuiet
    <3>12. ASSUME NEW t \in Threads  PROVE ReaderThread(t)'
      <4>1. ReaderThread(t)  BY <1>1 DEF ReaderThreads
      <4>2. PICK h : h = threads[t]  OBVIOUS
      <4>3. threads'[t] = h /\ h.pc = "unused" /\ file'.handle # 0  BY <3>1, <3>2, <3>7, <4>2
      <4> QED  BY <4>1, <4>2, <4>3 DEF ReaderThread, Locking
    <3>13. ReaderFile'  BY <1>1, <1>10, <3>1, <3>2, <3>3, SftpAssumption DEF ReaderFile
    <3>14. Reading' /\ ReaderAsks' /\ Held'  BY <3>4 DEF Reading, ReaderAsks, Awaiting, Held
    <3>15. ReaderUser'  BY <3>4 DEF ReaderUser, ReadCalls, ReadTypes
    <3> QED  BY <3>11, <3>12, <3>13, <3>14, <3>15 DEF ReaderInv, ReaderThreads
  <2>12. CASE /\ user.call # "read" \/ Says(m, {"failure", "bad"})
              /\ UNCHANGED file
              /\ user' = IF user.call = "close" THEN Return(user) ELSE Raise(user)
              /\ Says(m, {"failure", "bad"})
    <3>1. user.call \notin {"open", "read"}
      <4>1. user.call # "open"  BY <2>2, <2>12 DEF Answers, Says
      <4> QED  BY <2>8, <2>12, <4>1
    <3>2. user'.pc = "idle" /\ user'.call = user.call /\ (user'.failed => user.call # "close")
      BY <1>0, <2>12 DEF Return, Raise, UserFields
    <3> HIDE DEF Says
    <3> QED  BY <2>9, <2>12, <3>1, <3>2
  <2>13. CASE /\ UNCHANGED file /\ user.call \notin {"open", "read"}
              /\ \E w : user' = Return(w) /\ DOMAIN w = UserFields /\ w.call = user.call
    <3>1. user'.pc = "idle" /\ user'.call = user.call /\ ~user'.failed
      BY <2>13 DEF Return, UserFields
    <3> QED  BY <2>9, <2>13, <3>1
  <2>14. /\ DOMAIN [user EXCEPT !.got = v] = UserFields
         /\ [user EXCEPT !.got = v].call = user.call
    BY <1>0 DEF UserFields
  <2> HIDE DEF Says, Got, Return, Raise, NewFile
  <2> QED  BY <1>0, <2>6, <2>10, <2>11, <2>12, <2>13, <2>14
<1>19. (m.num \in DOMAIN expecting /\ expecting[m.num] = "file") <=> ForFile(m.num)  BY DEF ForFile
<1> HIDE DEF Dispatched, Response, Says, ForFile
<1> QED  BY <1>0, <1>2, <1>3, <1>15, <1>16, <1>17, <1>18, <1>19, ReadResponseIs

\* One more buffer, or one in another's place
LEMMA BuffersPut ==
  ASSUME NEW f, \A o \in DOMAIN f : Piece(f[o], o), NEW x, NEW v, Piece(v, x), NEW g, g = Put(f, x, v)
  PROVE  \A o \in DOMAIN g : Piece(g[o], o)
<1>1. DOMAIN g = DOMAIN f \cup {x} /\ \A o \in DOMAIN g : g[o] = IF o = x THEN v ELSE f[o]
  BY DEF Put
<1> HIDE DEF Piece
<1> QED  BY <1>1

\* Prefetched bytes are kept where they belong.
LEMMA ReaderStores ==
  ASSUME Common, ReaderInv, StorePrefetched
  PROVE  ReaderInv'
<1>0. DOMAIN user = UserFields /\ DOMAIN file = FileFields  BY DEF Common, Shapes
<1>1. ReaderUser /\ ReaderFile /\ ReaderThreads /\ Reading /\ ReaderAsks /\ Held  BY DEF ReaderInv
<1>2. user.pc = "store" /\ file.plock = 0  BY DEF StorePrefetched, Nobody
<1>3. UNCHANGED <<use, reqs, resps, up, srv, files, stored, number, expecting, threads>>
  BY DEF StorePrefetched, channelVars, serverVars, clientVars
<1>4. PICK n : n = user.held.num  OBVIOUS
<1>5. PrefetchAnswer(user.held) /\ n \notin DOMAIN expecting /\ user.held.t # "status"
  BY <1>1, <1>2, <1>4 DEF Held
<1>6. \A t \in Threads : threads[t].pc # "sent"
  <2>1. ASSUME NEW t \in Threads, threads[t].pc = "sent"  PROVE FALSE
    <3>1. file.plock = t  BY <1>1, <2>1 DEF ReaderThreads, ReaderThread, Locking
    <3>2. t # 0  BY SftpAssumption DEF Threads
    <3> QED  BY <1>2, <3>1, <3>2
  <2> QED  BY <2>1
<1>7. n \in DOMAIN file.extents  BY <1>4, <1>5, <1>6 DEF PrefetchAnswer, Prefetched, Unnoted
<1>8. PICK off \in Nat : Piece(user.held.v, off) /\ file.extents[n].off = off
  <2>1. PICK off \in Nat : Piece(user.held.v, off) /\ Noted(n, off)
    <3> HIDE DEF Piece, Noted
    <3> QED  BY <1>4, <1>5 DEF PrefetchAnswer
  <2>2. file.extents[n].off = off  BY <1>7, <2>1 DEF Noted
  <2> HIDE DEF Piece
  <2> QED  BY <2>1, <2>2
<1>9. PICK left : left = [k \in DOMAIN file.extents \ {n} |-> file.extents[k]]  OBVIOUS
<1>10. PICK data : data = Put(file.data, off, user.held.v)  OBVIOUS
<1>11. PICK f : f = [file EXCEPT !.data = data, !.extents = left, !.done = @ \/ left = <<>>]  OBVIOUS
<1>12. IF user.wait = 0 THEN AfterPoll(f)
       ELSE file' = f /\ user' = [user EXCEPT !.pc = "wait", !.held = NoMessage]
  <2>1. data = Put(file.data, file.extents[user.held.num].off, user.held.v)  BY <1>4, <1>8, <1>10
  <2> HIDE DEF AfterPoll, Put
  <2> QED  BY <1>4, <1>7, <1>9, <1>11, <2>1 DEF StorePrefetched
<1>13. /\ DOMAIN f = FileFields /\ f.data = data /\ f.extents = left
       /\ \A x \in FileFields \ {"data", "extents", "done"} : f[x] = file[x]
  BY <1>0, <1>11 DEF FileFields
<1>14. /\ f.handle = file.handle /\ f.realpos = file.realpos /\ f.closed = file.closed
       /\ f.saved = file.saved /\ f.refused = file.refused /\ f.plock = file.plock
  BY <1>13 DEF FileFields
<1>15. file.handle # 0  BY <1>1, <1>7 DEF ReaderFile
<1>16. \A o \in DOMAIN data : Piece(data[o], o)
  <2>1. \A o \in DOMAIN file.data : Piece(file.data[o], o)  BY <1>1 DEF ReaderFile
  <2> HIDE DEF Piece
  <2> QED  BY <1>8, <1>10, <2>1, BuffersPut
<1>17. /\ DOMAIN left \subseteq DOMAIN file.extents
       /\ \A k \in DOMAIN left : left[k] = file.extents[k]
       /\ \A k \in DOMAIN file.extents : k # n => k \in DOMAIN left
  BY <1>9
<1>18. f.saved # "none" => f.refused  BY <1>1, <1>14 DEF ReaderFile
<1>19. /\ \A x \in FileFields \ {"saved"} : file'[x] = f[x]
       /\ file'.saved # "none" => file'.refused
       /\ Reading' /\ ReaderAsks' /\ Held' /\ ReaderUser'
       /\ \A k : Awaits(k)' => Awaits(k) /\ user'.call = user.call /\ user'.req = user.req
  <2>1. CASE user.wait = 0
    <3>1. AfterPoll(f)  BY <1>12, <2>1
    <3>2. user.call = "read" \/ (user.call = "close" /\ file.handle # 0 /\ ~file.closed)
      BY <1>1, <1>2, <2>1 DEF ReaderUser
    <3>3. user.pc # "idle"  BY <1>2
    <3>4. /\ user'.pc \in {"idle", "finish", "prefetched"}
          /\ Reading' /\ ReaderAsks' /\ ReaderUser'
          /\ file'.saved # "none" => file'.refused
          /\ \A x \in FileFields \ {"saved"} : file'[x] = f[x]
      <4> HIDE DEF Reading, ReaderAsks, ReaderUser, AfterPoll
      <4> QED  BY <1>0, <1>1, <1>13, <1>14, <1>18, <3>1, <3>2, <3>3, PollIs
    <3>5. \A k : ~Awaits(k)'  BY <3>4 DEF Awaits, Awaiting
    <3>6. Held'  BY <3>4 DEF Held
    <3> HIDE DEF Awaits, Reading, ReaderAsks, ReaderUser, Held
    <3> QED  BY <3>4, <3>5, <3>6
  <2>2. CASE user.wait # 0
    <3>1. file' = f /\ user' = [user EXCEPT !.pc = "wait", !.held = NoMessage]  BY <1>12, <2>2
    <3>2. /\ user'.pc = "wait" /\ user'.call = user.call /\ user'.req = user.req
          /\ user'.want = user.want /\ user'.got = user.got /\ user'.from = user.from
          /\ user'.wait = user.wait
      BY <1>0, <3>1 DEF UserFields
    <3>3. \A k : Awaits(k)' => Awaits(k)  BY <1>2, <2>2, <3>2 DEF Awaits, Awaiting
    <3>4. Reading'
      <4> HIDE DEF Piece
      <4> QED  BY <1>1, <1>2, <1>14, <3>1, <3>2 DEF Reading
    <3>5. ReaderAsks'  BY <1>1, <1>2, <1>14, <2>2, <3>1, <3>2 DEF ReaderAsks, Awaiting
    <3>6. ReaderUser'  BY <1>1, <1>2, <1>14, <3>1, <3>2 DEF ReaderUser
    <3>7. Held'  BY <3>2 DEF Held
    <3>8. file'.saved # "none" => file'.refused  BY <1>18, <3>1
    <3> HIDE DEF Awaits, Reading, ReaderAsks, ReaderUser, Held
    <3> QED  BY <3>1, <3>2, <3>3, <3>4, <3>5, <3>6, <3>7, <3>8
  <2> QED  BY <2>1, <2>2
<1>20. /\ file'.handle = file.handle /\ file'.realpos = file.realpos /\ file'.closed = file.closed
       /\ file'.plock = file.plock /\ file'.data = data /\ file'.extents = left
  BY <1>13, <1>14, <1>19 DEF FileFields
<1>21. \A k : ForFile(k)' => /\ ForFile(k) /\ (Prefetched(k) => Prefetched(k)')
                             /\ \A o : Noted(k, o) => Noted(k, o)'
  <2>1. ASSUME NEW k, ForFile(k)'
        PROVE  ForFile(k) /\ (Prefetched(k) => Prefetched(k)') /\ \A o : Noted(k, o) => Noted(k, o)'
    <3>1. ForFile(k) /\ k # n  BY <1>3, <1>5, <2>1 DEF ForFile
    <3>2. Prefetched(k) => Prefetched(k)'  BY <1>3, <1>17, <1>20, <3>1 DEF Prefetched, Unnoted
    <3>3. ASSUME NEW o, Noted(k, o)  PROVE Noted(k, o)'
      BY <1>3, <1>17, <1>20, <3>3 DEF Noted, Unnoted
    <3> HIDE DEF Prefetched, Noted, ForFile
    <3> QED  BY <3>1, <3>2, <3>3
  <2> QED  BY <2>1
<1>22. ReaderThreads'  BY <1>1, <1>3, <1>20, ThreadsStill
<1>23. file'.realpos \in 0 .. Length
  BY <1>1, <1>15, <1>20 DEF ReaderFile
<1>24. \A o \in DOMAIN file'.data : Piece(file'.data[o], o)
  <2> HIDE DEF Piece
  <2> QED  BY <1>16, <1>20
<1> HIDE DEF Prefetched, Noted, ForFile, Awaits, Piece, Numbered, Reading, ReaderAsks, Held, ReaderUser,
    ReaderThreads
<1> QED  BY <1>3, <1>15, <1>17, <1>19, <1>20, <1>21, <1>22, <1>23, <1>24, ReaderMoves

\* A read takes what it can from the prefetched bytes.
LEMMA ReaderTakes ==
  ASSUME Common, ReaderInv, ReadPrefetch
  PROVE  ReaderInv'
<1>0. DOMAIN user = UserFields /\ DOMAIN file = FileFields  BY DEF Common, Shapes
<1>1. ReaderUser /\ ReaderFile /\ ReaderThreads /\ Reading  BY DEF ReaderInv
<1>2. user.pc = "prefetched" /\ user.pc # "idle"  BY DEF ReadPrefetch
<1>3. UNCHANGED <<use, reqs, resps, up, srv, files, stored, number, expecting, threads>>
  BY DEF ReadPrefetch, channelVars, serverVars, clientVars
<1>4. user.call = "read" /\ file.handle # 0 /\ ~file.closed  BY <1>1, <1>2 DEF ReaderUser, OnFile
<1>5. /\ user.from \in Nat /\ user.want \in Nat \ {0} /\ Piece(user.got, user.from)
      /\ file.realpos = user.from + Len(user.got) /\ Len(user.got) < user.want /\ IsSeq(user.got)
  BY <1>1, <1>2, <1>4 DEF Reading, Piece
<1>6. Len(user.got) \in Nat /\ file.realpos \in 0 .. Length /\ Length \in Nat /\ file.realpos \in Nat
  BY <1>1, <1>5, LenIs, SftpAssumption DEF ReaderFile
<1>7. \A o \in DOMAIN file.data : Piece(file.data[o], o) /\ o \in Nat  BY <1>1 DEF ReaderFile, Piece
<1>8. ASSUME DOMAIN file' = FileFields,
             \A x \in FileFields \ {"data", "prefetching", "realpos"} : file'[x] = file[x],
             \A o \in DOMAIN file'.data : Piece(file'.data[o], o), file'.realpos \in 0 .. Length,
             Reading', ReaderAsks', ReaderUser', user'.pc \in {"idle", "acquire", "prefetched", "poll"}
      PROVE  ReaderInv'
  <2>1. /\ file'.handle = file.handle /\ file'.closed = file.closed /\ file'.extents = file.extents
        /\ file'.plock = file.plock /\ file'.saved = file.saved /\ file'.refused = file.refused
    BY <1>8 DEF FileFields
  <2>2. /\ \A n : Prefetched(n)' <=> Prefetched(n)
        /\ \A n, off : Noted(n, off)' <=> Noted(n, off)
    BY <1>3, <2>1, PrefetchesKept
  <2>3. ReaderThreads'  BY <1>1, <1>3, <2>1, ThreadsStill
  <2>4. file'.saved # "none" => file'.refused  BY <1>1, <2>1 DEF ReaderFile
  <2>5. \A n : ForFile(n)' => ForFile(n)  BY <1>3 DEF ForFile
  <2>6. \A n : ~Awaits(n)'  BY <1>8 DEF Awaits, Awaiting
  <2>7. Held'  BY <1>8 DEF Held
  <2> HIDE DEF Prefetched, Noted, ForFile, Awaits, Piece, Numbered, Reading, ReaderAsks, Held, ReaderUser,
      ReaderThreads
  <2> QED  BY <1>3, <1>4, <1>8, <2>1, <2>2, <2>3, <2>4, <2>5, <2>6, <2>7, ReaderMoves
<1>9. PICK off : off = BufferAt(file.realpos)  OBVIOUS
<1>10. PICK size : size = Least(user.want - Len(user.got), MaxRequest)  OBVIOUS
<1>11. PICK skip : skip = file.realpos - off  OBVIOUS
<1>12. PICK d : d = file.data[off]  OBVIOUS
<1>13. PICK rest : rest = [o \in DOMAIN file.data \ {off} |-> file.data[o]]  OBVIOUS
<1>14. PICK head : head = IF skip > 0 THEN Put(rest, off, SubSeq(d, 1, skip)) ELSE rest  OBVIOUS
<1>15. PICK tail : tail = IF skip + size < Len(d)
                          THEN Put(head, file.realpos + size, SubSeq(d, skip + size + 1, Len(d)))
                          ELSE head
  OBVIOUS
<1>16. IF off # -1 THEN Got(user, [file EXCEPT !.data = tail], Slice(d, skip, size))
       ELSE IF file.done
       THEN file' = [file EXCEPT !.prefetching = FALSE]
            /\ user' = ReadRest(user, [file EXCEPT !.prefetching = FALSE])
       ELSE user' = [user EXCEPT !.pc = "poll", !.wait = 0] /\ UNCHANGED file
  <2> HIDE DEF Got, ReadRest, Put, Slice, Least, BufferAt
  <2> QED  BY <1>9, <1>10, <1>11, <1>12, <1>13, <1>14, <1>15, SMTT(20) DEF ReadPrefetch
<1>17. CASE off # -1
  <2>1. off \in DOMAIN file.data /\ off <= file.realpos /\ ~(file.realpos - off >= Len(d))
    BY <1>6, <1>7, <1>9, <1>12, <1>17, BufferIs
  <2>2. Piece(d, off) /\ off \in Nat /\ IsSeq(d)  BY <1>7, <1>12, <2>1 DEF Piece
  <2>3. Len(d) \in Nat /\ skip \in Nat /\ skip < Len(d) /\ off + skip = file.realpos
    BY <1>6, <1>11, <2>1, <2>2, LenIs
  <2>4. size \in Nat \ {0} /\ size <= user.want - Len(user.got)
    BY <1>5, <1>6, <1>10, SftpAssumption DEF Least
  <2>5. PICK n : n = Least(skip + size, Len(d))  OBVIOUS
  <2>6. n \in Nat /\ skip < n /\ n <= Len(d) /\ n - skip <= size
    BY <2>3, <2>4, <2>5 DEF Least
  <2>7. PICK e : e = Slice(d, skip, size)  OBVIOUS
  <2>8. e = SubSeq(d, skip + 1, n)  BY <2>5, <2>7 DEF Slice
  <2>9. IsSeq(e) /\ Len(e) = n - skip /\ Piece(e, file.realpos)
    <3> HIDE DEF Piece
    <3> QED  BY <2>2, <2>3, <2>6, <2>8, PartIs
  <2>10. e # <<>> /\ Len(e) <= user.want - Len(user.got)
    <3>1. Len(e) > 0  BY <2>3, <2>6, <2>9
    <3>2. e # <<>>  BY <3>1, EmptyIs
    <3>3. user.want - Len(user.got) \in Int  BY <1>5, <1>6
    <3> QED  BY <2>3, <2>4, <2>6, <2>9, <3>2, <3>3
  <2>11. \A o \in DOMAIN rest : Piece(rest[o], o)
    <3> HIDE DEF Piece
    <3> QED  BY <1>7, <1>13
  <2>12. \A o \in DOMAIN head : Piece(head[o], o)
    <3>1. CASE skip > 0
      <4>1. Piece(SubSeq(d, 0 + 1, skip), off + 0)
        <5> HIDE DEF Piece
        <5> QED  BY <2>2, <2>3, PartIs
      <4>2. off + 0 = off /\ 0 + 1 = 1  BY <2>2
      <4>3. Piece(SubSeq(d, 1, skip), off)  BY <4>1, <4>2
      <4> HIDE DEF Piece
      <4> QED  BY <1>14, <2>11, <3>1, <4>3, BuffersPut
    <3>2. CASE ~(skip > 0)  BY <1>14, <2>11, <3>2
    <3> QED  BY <3>1, <3>2
  <2>13. \A o \in DOMAIN tail : Piece(tail[o], o)
    <3>1. CASE skip + size < Len(d)
      <4>1. PICK k : k = skip + size  OBVIOUS
      <4>2. k \in Nat /\ k <= Len(d) /\ off + k = file.realpos + size  BY <1>6, <2>2, <2>3, <2>4, <3>1, <4>1
      <4>3. Piece(SubSeq(d, k + 1, Len(d)), off + k)
        <5> HIDE DEF Piece
        <5> QED  BY <2>2, <2>3, <4>2, PartIs
      <4>4. Piece(SubSeq(d, skip + size + 1, Len(d)), file.realpos + size)  BY <4>1, <4>2, <4>3
      <4> HIDE DEF Piece
      <4> QED  BY <1>15, <2>12, <3>1, <4>4, BuffersPut
    <3>2. CASE ~(skip + size < Len(d))  BY <1>15, <2>12, <3>2
    <3> QED  BY <3>1, <3>2
  <2>14. PICK f : f = [file EXCEPT !.data = tail]  OBVIOUS
  <2>15. /\ DOMAIN f = FileFields /\ f.data = tail
         /\ \A x \in FileFields \ {"data"} : f[x] = file[x]
    BY <1>0, <2>14 DEF FileFields
  <2>16. f.handle = file.handle /\ f.closed = file.closed /\ f.realpos = file.realpos
    BY <2>15 DEF FileFields
  <2>17. Got(user, f, e)  BY <1>16, <1>17, <2>7, <2>14
  <2>18. /\ Reading' /\ ReaderAsks' /\ ReaderUser' /\ user'.pc \in {"idle", "acquire", "prefetched"}
         /\ file'.realpos \in 0 .. Length /\ DOMAIN file' = FileFields
         /\ \A x \in FileFields \ {"realpos"} : file'[x] = f[x]
    <3> HIDE DEF Reading, ReaderAsks, ReaderUser, Piece, Got
    <3> QED  BY <1>0, <1>1, <1>2, <1>4, <2>9, <2>10, <2>15, <2>16, <2>17, GotIs
  <2>19. file'.data = tail  BY <2>15, <2>18 DEF FileFields
  <2>20. \A x \in FileFields \ {"data", "prefetching", "realpos"} : file'[x] = file[x]
    BY <2>15, <2>18
  <2> HIDE DEF Reading, ReaderAsks, ReaderUser, Piece
  <2> QED  BY <1>8, <2>13, <2>18, <2>19, <2>20
<1>18. CASE off = -1 /\ file.done
  <2>1. PICK f : f = [file EXCEPT !.prefetching = FALSE]  OBVIOUS
  <2>2. /\ DOMAIN f = FileFields /\ \A x \in FileFields \ {"prefetching"} : f[x] = file[x]
    BY <1>0, <2>1 DEF FileFields
  <2>3. f.handle # 0 /\ ~f.closed /\ f.realpos = file.realpos /\ f.data = file.data
    BY <1>4, <2>2 DEF FileFields
  <2>4. file' = f /\ user' = ReadRest(user, f)  BY <1>16, <1>18, <2>1
  <2>5. Reading' /\ ReaderAsks' /\ ReaderUser' /\ user'.pc \in {"acquire", "prefetched"}
    <3> HIDE DEF Piece
    <3> QED  BY <1>0, <1>4, <1>5, <2>3, <2>4, ReadRestIs
  <2> HIDE DEF Reading, ReaderAsks, ReaderUser, Piece
  <2> QED  BY <1>6, <1>7, <1>8, <2>2, <2>3, <2>4, <2>5
<1>19. CASE off = -1 /\ ~file.done
  <2>1. user' = [user EXCEPT !.pc = "poll", !.wait = 0] /\ UNCHANGED file  BY <1>16, <1>19
  <2>2. /\ user'.pc = "poll" /\ user'.call = user.call
        /\ user'.want = user.want /\ user'.got = user.got /\ user'.from = user.from
    BY <1>0, <2>1 DEF UserFields
  <2>3. Reading'
    <3> HIDE DEF Piece
    <3> QED  BY <1>1, <1>2, <2>1, <2>2 DEF Reading
  <2>4. ReaderAsks'  BY <2>2 DEF ReaderAsks, Awaiting
  <2>5. ReaderUser'  BY <1>4, <2>1, <2>2 DEF ReaderUser, ReadCalls, ReadTypes
  <2> HIDE DEF Reading, ReaderAsks, ReaderUser, Piece
  <2> QED  BY <1>0, <1>6, <1>7, <1>8, <2>1, <2>2, <2>3, <2>4, <2>5
<1> QED  BY <1>17, <1>18, <1>19

\* A thread that prefetches changes nothing of what the others know.
LEMMA ReaderPrefetches ==
  ASSUME Common, ReaderInv, UNCHANGED <<use, user, resps, up, cut, srv, files, stored>>,
         DOMAIN file' = FileFields, \A x \in FileFields \ {"extents", "plock"} : file'[x] = file[x],
         \A n \in DOMAIN file'.extents : Numbered(n)', file.handle # 0,
         \A n : Numbered(n) => Numbered(n)',
         \A n : Numbered(n) /\ n \in DOMAIN expecting' => n \in DOMAIN expecting,
         \A n : Numbered(n) /\ ForFile(n)' => ForFile(n),
         \A n : Numbered(n) /\ Prefetched(n) => Prefetched(n)',
         \A n, off : Numbered(n) /\ Noted(n, off) => Noted(n, off)',
         reqs' = reqs \/ (/\ Len(reqs) \in Nat /\ Len(reqs') = Len(reqs) + 1
                          /\ \A i \in 1 .. Len(reqs) : reqs'[i] = reqs[i]
                          /\ \E r : reqs'[Len(reqs) + 1] = r /\ ReaderRequest(r)'),
         ReaderThreads'
  PROVE  ReaderInv'
<1>1. ReaderUser /\ ReaderFile /\ Reading /\ ReaderAsks /\ Held /\ ReaderOnTheWay /\ Packets
  BY DEF ReaderInv, Common
<1>2. /\ file'.handle = file.handle /\ file'.realpos = file.realpos /\ file'.closed = file.closed
      /\ file'.saved = file.saved /\ file'.refused = file.refused /\ file'.data = file.data
  BY DEF FileFields
<1>3. \A n : Awaits(n)' <=> Awaits(n)  BY DEF Awaits, Awaiting
<1>4. \A s, off : Piece(s, off)' <=> Piece(s, off)  BY DEF Piece, Bytes
<1>5. /\ \A r : Numbered(r.num) /\ ReaderRequest(r) => ReaderRequest(r)'
      /\ \A m : Numbered(m.num) /\ ReaderAnswer(m) => ReaderAnswer(m)'
  <2>1. file.closed => file'.closed  BY <1>2
  <2> HIDE DEF Prefetched, Noted, ForFile, Awaits, Numbered, ReaderRequest, ReaderAnswer
  <2> QED  BY <1>3, <2>1, ReaderFrame
<1>6. ReaderOnTheWay'
  <2>1. ASSUME NEW i \in 1 .. Len(reqs')  PROVE ReaderRequest(reqs[i])'
    <3>1. PICK r : r = reqs'[i]  OBVIOUS
    <3>2. CASE i \in 1 .. Len(reqs) /\ r = reqs[i]
      <4>1. Numbered(r.num) /\ ReaderRequest(r)  BY <1>1, <3>2 DEF Packets, ReaderOnTheWay
      <4>2. ReaderRequest(r)'  BY <1>5, <4>1
      <4> QED  BY <3>1, <4>2
    <3>3. CASE ReaderRequest(r)'  BY <3>1, <3>3
    <3> HIDE DEF ReaderRequest
    <3>4. i \in 1 .. Len(reqs) \/ i = Len(reqs) + 1  OBVIOUS
    <3> QED  BY <3>1, <3>2, <3>3, <3>4
  <2>2. ASSUME NEW i \in 1 .. Len(resps')  PROVE ReaderAnswer(resps[i])'
    <3>1. PICK m : m = resps[i]  OBVIOUS
    <3>2. Numbered(m.num) /\ ReaderAnswer(m)  BY <1>1, <3>1 DEF Packets, ReaderOnTheWay
    <3>3. ReaderAnswer(m)'  BY <1>5, <3>2
    <3> QED  BY <3>1, <3>3
  <2>3. Answering' => ReaderAnswer(srv.msg)'
    <3>1. PICK m : m = srv.msg  OBVIOUS
    <3>2. Answering' => Numbered(m.num) /\ ReaderAnswer(m)
      BY <1>1, <3>1 DEF Packets, ReaderOnTheWay, Answering
    <3>3. Answering' => ReaderAnswer(m)'  BY <1>5, <3>2
    <3> QED  BY <3>1, <3>3
  <2> QED  BY <2>1, <2>2, <2>3 DEF ReaderOnTheWay
<1>7. ReaderFile'
  <2>1. /\ stored' = Content /\ file'.realpos \in 0 .. Length
        /\ file'.saved # "none" => file'.refused
        /\ file'.handle # 0 /\ ~file'.closed => file'.handle \in files' \/ srv'.pc = "gone"
        /\ file'.handle # 0
    BY <1>1, <1>2 DEF ReaderFile
  <2>2. \A o \in DOMAIN file'.data : Piece(file'.data[o], o)
    <3> HIDE DEF Piece
    <3> QED  BY <1>1, <1>2 DEF ReaderFile
  <2> HIDE DEF Piece, Numbered
  <2> QED  BY <2>1, <2>2 DEF ReaderFile
<1>8. Reading'
  <2> HIDE DEF Piece
  <2> QED  BY <1>1, <1>2 DEF Reading
<1>9. ReaderAsks'  BY <1>1, <1>2 DEF ReaderAsks, Awaiting
<1>10. ReaderUser'  BY <1>1, <1>2 DEF ReaderUser
<1>11. Held'
  <2>1. ASSUME user.pc = "store"
        PROVE  /\ user.held.t # "status" /\ PrefetchAnswer(user.held)'
               /\ user.held.num \notin DOMAIN expecting' /\ Numbered(user.held.num)'
    <3>1. PICK m : m = user.held  OBVIOUS
    <3>2. m.t # "status" /\ PrefetchAnswer(m) /\ m.num \notin DOMAIN expecting /\ Numbered(m.num)
      BY <1>1, <2>1, <3>1 DEF Held
    <3>3. PrefetchAnswer(m)'
      <4> HIDE DEF Prefetched, Noted, Numbered, Piece
      <4> QED  BY <1>4, <3>2 DEF PrefetchAnswer
    <3> HIDE DEF Numbered, PrefetchAnswer
    <3> QED  BY <3>1, <3>2, <3>3
  <2> HIDE DEF Numbered, PrefetchAnswer
  <2> QED  BY <2>1 DEF Held
<1> QED  BY <1>6, <1>7, <1>8, <1>9, <1>10, <1>11 DEF ReaderInv

\* The threads prefetch one at a time.
LEMMA ReaderThreadsGo ==
  ASSUME Common, ReaderInv, NEW t \in Threads, ThreadStep(t)
  PROVE  ReaderInv'
<1>0. Shapes /\ DOMAIN file = FileFields /\ Packets  BY DEF Common, Shapes
<1>1. ReaderThreads /\ ReaderFile  BY DEF ReaderInv
<1>2. UNCHANGED <<use, user, resps, cut, srv, files, stored>>
  BY DEF ThreadStep, TakePrefetchLock, TakeLock, SendPrefetch, NoteExtent, PrefetchDies,
     channelVars, serverVars, Transmit
<1>3. ReaderThread(t) /\ threads[t].pc # "unused"
  BY <1>1 DEF ReaderThreads, ThreadStep, TakePrefetchLock, TakeLock, SendPrefetch, NoteExtent, PrefetchDies
<1>4. file.handle # 0  BY <1>3 DEF ReaderThread
<1>5. t # 0 /\ number \in Nat \ {0}  BY <1>0, SftpAssumption DEF Threads, Packets
<1>6. ASSUME NEW pc, NEW chunks, NEW num,
             threads'[t].pc = pc, threads'[t].chunks = chunks, threads'[t].num = num,
             \A s \in Threads : s # t => threads'[s] = threads[s],
             \A s \in Threads : s # t /\ threads[s].pc \in Locking => file'.plock = s,
             file'.handle = file.handle, number' \in {number, number + 1},
             pc \in Locking => file'.plock = t /\ chunks # <<>>,
             chunks = threads[t].chunks \/ (chunks = Tail(threads[t].chunks) /\ threads[t].chunks # <<>>),
             pc = "sent" => Numbered(num)'
      PROVE  ReaderThreads'
  <2>0. \A n : Numbered(n) => Numbered(n)'
    <3>1. number' = number \/ number' = number + 1  BY <1>6
    <3> QED  BY <1>5, <3>1 DEF Numbered
  <2>1. ReaderThread(t)'
    <3>1. PICK c : c = threads[t].chunks  OBVIOUS
    <3>2. IsSeq(c) /\ \A i \in 1 .. Len(c) : c[i].off \in Nat /\ c[i].len \in Nat
      BY <1>3, <3>1 DEF ReaderThread
    <3>3. IsSeq(chunks) /\ \A i \in 1 .. Len(chunks) : chunks[i].off \in Nat /\ chunks[i].len \in Nat
      <4>1. CASE chunks = c  BY <3>2, <4>1
      <4>2. CASE chunks = Tail(c) /\ c # <<>>
        <5>1. /\ IsSeq(chunks)
              /\ \A i \in 1 .. Len(chunks) : chunks[i] = c[i + 1] /\ i + 1 \in 1 .. Len(c)
          BY <3>2, <4>2, TakenIs
        <5> QED  BY <3>2, <5>1
      <4> QED  BY <1>6, <3>1, <4>1, <4>2
    <3> HIDE DEF Numbered
    <3> QED  BY <1>4, <1>6, <3>3 DEF ReaderThread
  <2>2. ASSUME NEW s \in Threads, s # t  PROVE ReaderThread(s)'
    <3>1. PICK h : h = threads[s]  OBVIOUS
    <3>2. threads'[s] = h  BY <1>6, <2>2, <3>1
    <3>3. ReaderThread(s)  BY <1>1 DEF ReaderThreads
    <3>4. h.pc \in Locking => file'.plock = s  BY <1>6, <2>2, <3>1
    <3> HIDE DEF Numbered
    <3> QED  BY <1>6, <2>0, <3>1, <3>2, <3>3, <3>4 DEF ReaderThread
  <2> QED  BY <2>1, <2>2 DEF ReaderThreads
<1>7. ASSUME file.plock = t  PROVE \A s \in Threads : s # t => threads[s].pc \notin Locking
  BY <1>1, <1>7 DEF ReaderThreads, ReaderThread
<1>8. CASE TakePrefetchLock(t)
  <2>1. /\ threads[t].pc = "next"
        /\ UNCHANGED <<up, reqs, expecting, number>>
        /\ \/ Thread(t, "over") /\ UNCHANGED file
           \/ /\ threads[t].chunks # <<>> /\ file.plock = 0
              /\ file' = [file EXCEPT !.plock = t] /\ Thread(t, "acquire")
    BY <1>8 DEF TakePrefetchLock, channelVars, serverVars, clientVars, Nobody
  <2>2. PICK pc \in {"over", "acquire"} : threads' = [threads EXCEPT ![t].pc = pc]
                                   /\ (pc = "over" => UNCHANGED file)
                                   /\ (pc = "acquire" => threads[t].chunks # <<>> /\ file.plock = 0
                                          /\ file' = [file EXCEPT !.plock = t])
    BY <2>1 DEF Thread
  <2>3. /\ threads'[t].pc = pc /\ threads'[t].chunks = threads[t].chunks
        /\ threads'[t].num = threads[t].num
        /\ \A s \in Threads : s # t => threads'[s] = threads[s]
    BY <1>0, <2>2 DEF Shapes, ThreadFields
  <2>4. /\ DOMAIN file' = FileFields /\ \A x \in FileFields \ {"extents", "plock"} : file'[x] = file[x]
        /\ file'.extents = file.extents /\ (pc = "acquire" => file'.plock = t)
        /\ (pc = "over" => file'.plock = file.plock)
    BY <1>0, <2>2 DEF FileFields
  <2>5. file'.handle = file.handle  BY <2>4 DEF FileFields
  <2>6. \A s \in Threads : s # t /\ threads[s].pc \in Locking => file'.plock = s
    <3>1. \A s \in Threads : threads[s].pc \in Locking => file.plock = s /\ s # 0
      BY <1>1, SftpAssumption DEF ReaderThreads, ReaderThread, Threads
    <3> QED  BY <2>2, <2>4, <3>1
  <2>7. ReaderThreads'  BY <1>6, <2>1, <2>2, <2>3, <2>4, <2>5, <2>6 DEF Locking
  <2>8. /\ \A n : Prefetched(n) => Prefetched(n)'
        /\ \A n, off : Noted(n, off) => Noted(n, off)'
    BY <2>1, <2>2, <2>3, <2>4 DEF Prefetched, Noted, Unnoted
  <2>9. \A n : ForFile(n)' => ForFile(n)  BY <2>1 DEF ForFile
  <2>10. \A n : Numbered(n)' <=> Numbered(n)  BY <2>1 DEF Numbered
  <2>11. \A n \in DOMAIN file'.extents : Numbered(n)'  BY <1>1, <2>4, <2>10 DEF ReaderFile
  <2> HIDE DEF Prefetched, Noted, ForFile, Numbered, ReaderRequest, ReaderThreads
  <2> QED  BY <1>2, <1>4, <2>1, <2>4, <2>7, <2>8, <2>9, <2>10, <2>11, ReaderPrefetches
<1>9. CASE TakeLock(t)
  <2>1. threads[t].pc = "acquire" /\ threads' = [threads EXCEPT ![t].pc = "send"]
        /\ UNCHANGED <<up, reqs, expecting, number, file>>
    BY <1>9 DEF TakeLock, Thread, channelVars, serverVars
  <2>2. /\ threads'[t].pc = "send" /\ threads'[t].chunks = threads[t].chunks
        /\ threads'[t].num = threads[t].num
        /\ \A s \in Threads : s # t => threads'[s] = threads[s]
    BY <1>0, <2>1 DEF Shapes, ThreadFields
  <2>3. file.plock = t /\ threads[t].chunks # <<>>  BY <1>3, <2>1 DEF ReaderThread, Locking
  <2>4. \A s \in Threads : s # t /\ threads[s].pc \in Locking => file'.plock = s  BY <1>7, <2>3
  <2>5. ReaderThreads'
    <3>1. "send" # "sent" /\ "send" \in Locking  BY DEF Locking
    <3>2. file'.plock = t /\ file'.handle = file.handle  BY <2>1, <2>3
    <3> QED  BY <1>6, <2>1, <2>2, <2>3, <2>4, <3>1, <3>2
  <2>6. /\ \A n : Prefetched(n) => Prefetched(n)'
        /\ \A n, off : Noted(n, off) => Noted(n, off)'
    BY <2>1, <2>2 DEF Prefetched, Noted, Unnoted
  <2>7. \A n : ForFile(n)' => ForFile(n)  BY <2>1 DEF ForFile
  <2>8. \A n : Numbered(n)' <=> Numbered(n)  BY <2>1 DEF Numbered
  <2>9. \A n \in DOMAIN file'.extents : Numbered(n)'  BY <1>1, <2>1, <2>8 DEF ReaderFile
  <2> HIDE DEF Prefetched, Noted, ForFile, Numbered, ReaderRequest, ReaderThreads
  <2> QED  BY <1>0, <1>2, <1>4, <2>1, <2>5, <2>6, <2>7, <2>8, <2>9, ReaderPrefetches
<1>10. CASE SendPrefetch(t)
  <2>0. PICK k : k = number  OBVIOUS
  <2>1. PICK c : c = Head(threads[t].chunks)  OBVIOUS
  <2>2. PICK q : q = Request("read", file.handle, c.off, c.len)  OBVIOUS
  <2>3. /\ threads[t].pc = "send" /\ Transmit(q, "file") /\ UNCHANGED file
        /\ threads' = [threads EXCEPT ![t].pc = "sent", ![t].num = number]
    BY <1>10, <2>1, <2>2 DEF SendPrefetch
  <2>4. q.t = "read" /\ q.off = c.off /\ q.arg = c.len  BY <2>2 DEF Request
  <2>5. /\ threads'[t].pc = "sent" /\ threads'[t].chunks = threads[t].chunks
        /\ threads'[t].num = k
        /\ \A s \in Threads : s # t => threads'[s] = threads[s]
    BY <1>0, <2>0, <2>3 DEF Shapes, ThreadFields
  <2>6. file.plock = t /\ threads[t].chunks # <<>>  BY <1>3, <2>3 DEF ReaderThread, Locking
  <2>7. c.off \in Nat /\ c.len \in Nat
    <3>1. PICK s : s = threads[t].chunks  OBVIOUS
    <3>2. IsSeq(s) /\ s # <<>> /\ \A i \in 1 .. Len(s) : s[i].off \in Nat /\ s[i].len \in Nat
      BY <1>3, <2>6, <3>1 DEF ReaderThread
    <3>3. c = s[1] /\ 1 \in 1 .. Len(s)  BY <2>1, <3>1, <3>2, TakenIs
    <3> QED  BY <3>2, <3>3
  <2>8. IsSeq(reqs)  BY <1>0 DEF Packets
  <2>9. /\ Len(reqs) \in Nat /\ Len(reqs') = Len(reqs) + 1
        /\ \A i \in 1 .. Len(reqs) : reqs'[i] = reqs[i]
        /\ \E r : /\ reqs'[Len(reqs) + 1] = r
                  /\ r.num = k /\ r.t = q.t /\ r.h = q.h /\ r.off = q.off /\ r.arg = q.arg
        /\ number' = number + 1 /\ UNCHANGED up
    BY <2>0, <2>3, <2>8, TransmitIs
  <2>10. \A s \in Threads : s # t /\ threads[s].pc \in Locking => file'.plock = s  BY <1>7, <2>6
  <2>11. \A n : Numbered(n) => n # k /\ Numbered(n)'  BY <1>5, <2>0, <2>9 DEF Numbered
  <2>12. ReaderThreads'
    <3>1. Numbered(k)'  BY <1>5, <2>0, <2>9 DEF Numbered
    <3>2. file'.plock = t /\ file'.handle = file.handle  BY <2>3, <2>6
    <3> HIDE DEF Numbered
    <3> QED  BY <1>6, <2>5, <2>6, <2>9, <2>10, <3>1, <3>2
  <2>13. expecting' = Put(expecting, k, "file")  BY <2>0, <2>3 DEF Transmit
  <2>14. \A n : Numbered(n) => /\ n \in DOMAIN expecting' => n \in DOMAIN expecting
                               /\ ForFile(n)' => ForFile(n)
    BY <2>11, <2>13 DEF ForFile, Put
  <2>15. /\ \A n : Prefetched(n) => Prefetched(n)'
         /\ \A n, off : Numbered(n) /\ Noted(n, off) => Noted(n, off)'
    <3>1. ASSUME NEW n, Prefetched(n)  PROVE Prefetched(n)'
      BY <2>3, <2>5, <3>1 DEF Prefetched, Unnoted
    <3>2. ASSUME NEW n, NEW off, Numbered(n), Noted(n, off)  PROVE Noted(n, off)'
      <4>1. n # k  BY <2>11, <3>2
      <4> QED  BY <2>3, <2>5, <3>2, <4>1 DEF Noted, Unnoted
    <3> QED  BY <3>1, <3>2
  <2>16. PICK r : /\ reqs'[Len(reqs) + 1] = r
                  /\ r.num = k /\ r.t = q.t /\ r.h = q.h /\ r.off = q.off /\ r.arg = q.arg
    BY <2>9
  <2>17. ReaderRequest(r)'
    <3>1. ~Awaits(k)'
      <4>1. k \notin 1 .. number - 1 /\ k # 0  BY <1>5, <2>0
      <4> QED  BY <1>0, <1>2, <4>1 DEF Packets, Awaits, Awaiting, Numbered
    <3>2. Prefetched(k)'  BY <2>5 DEF Prefetched, Unnoted
    <3>3. Noted(k, c.off)'
      <4>1. ~Numbered(k)  BY <1>5, <2>0 DEF Numbered
      <4>2. k \notin DOMAIN file'.extents  BY <1>1, <2>3, <4>1 DEF ReaderFile
      <4>3. ASSUME NEW s \in Threads, Unnoted(s, k)'  PROVE Head(threads'[s].chunks).off = c.off
        <5>1. s = t
          <6>1. ASSUME s # t  PROVE FALSE
            <7>0. PICK h : h = threads[s]  OBVIOUS
            <7>1. h.pc = "sent" /\ h.num = k
              BY <2>5, <4>3, <6>1, <7>0 DEF Unnoted
            <7>2. Numbered(k)
              <8> HIDE DEF Numbered
              <8> QED  BY <1>1, <7>0, <7>1 DEF ReaderThreads, ReaderThread
            <7> QED  BY <4>1, <7>2
          <6> QED  BY <6>1
        <5> QED  BY <2>1, <2>5, <5>1
      <4> QED  BY <4>2, <4>3 DEF Noted
    <3>4. r.num = k /\ r.t = "read" /\ r.off = c.off /\ r.arg = c.len /\ r.off \in Nat /\ r.arg \in Nat
      BY <2>4, <2>7, <2>16
    <3>5. "read" \in ReadTypes  BY DEF ReadTypes
    <3> HIDE DEF Prefetched, Noted, ForFile, Awaits, Made
    <3> QED  BY <3>1, <3>2, <3>3, <3>4, <3>5 DEF ReaderRequest, PrefetchRequest
  <2>18. \A n \in DOMAIN file'.extents : Numbered(n)'  BY <1>1, <2>3, <2>11 DEF ReaderFile
  <2> HIDE DEF Prefetched, Noted, ForFile, Numbered, ReaderRequest, ReaderThreads
  <2> QED  BY <1>0, <1>2, <1>4, <2>3, <2>9, <2>11, <2>12, <2>14, <2>15, <2>16, <2>17, <2>18,
              ReaderPrefetches
<1>11. CASE NoteExtent(t)
  <2>1. PICK c : c = Head(threads[t].chunks)  OBVIOUS
  <2>2. PICK k : k = threads[t].num  OBVIOUS
  <2>3. /\ threads[t].pc = "sent" /\ UNCHANGED <<up, reqs, expecting, number>>
        /\ file' = [file EXCEPT !.extents = Put(@, k, c), !.plock = 0]
        /\ threads' = [threads EXCEPT ![t].pc = "next", ![t].chunks = Tail(@)]
    BY <1>11, <2>1, <2>2 DEF NoteExtent, channelVars, serverVars, clientVars, Nobody
  <2>4. /\ threads'[t].pc = "next" /\ threads'[t].chunks = Tail(threads[t].chunks)
        /\ threads'[t].num = threads[t].num
        /\ \A s \in Threads : s # t => threads'[s] = threads[s]
    BY <1>0, <2>3 DEF Shapes, ThreadFields
  <2>5. file.plock = t /\ threads[t].chunks # <<>> /\ Numbered(k)
    BY <1>3, <2>2, <2>3 DEF ReaderThread, Locking
  <2>6. /\ DOMAIN file' = FileFields /\ \A x \in FileFields \ {"extents", "plock"} : file'[x] = file[x]
        /\ file'.extents = Put(file.extents, k, c)
    BY <1>0, <2>3 DEF FileFields
  <2>7. file'.handle = file.handle  BY <2>6 DEF FileFields
  <2>8. \A s \in Threads : s # t /\ threads[s].pc \in Locking => file'.plock = s  BY <1>7, <2>5
  <2>9. ReaderThreads'
    <3>1. "next" # "sent" /\ "next" \notin Locking  BY DEF Locking
    <3> HIDE DEF Numbered
    <3> QED  BY <1>6, <2>3, <2>4, <2>5, <2>7, <2>8, <3>1
  <2>10. /\ DOMAIN file'.extents = DOMAIN file.extents \cup {k}
         /\ \A n \in DOMAIN file'.extents : file'.extents[n] = IF n = k THEN c ELSE file.extents[n]
    BY <2>6 DEF Put
  <2>11. /\ \A n : Prefetched(n) => Prefetched(n)'
         /\ \A n, off : Noted(n, off) => Noted(n, off)'
    <3>1. ASSUME NEW n, Prefetched(n)  PROVE Prefetched(n)'
      <4>1. CASE n \in DOMAIN file.extents \/ n = k  BY <2>10, <4>1 DEF Prefetched
      <4>2. CASE n # k /\ \E s \in Threads : Unnoted(s, n)
        BY <2>2, <2>4, <4>2 DEF Prefetched, Unnoted
      <4> QED  BY <3>1, <4>1, <4>2 DEF Prefetched
    <3>2. ASSUME NEW n, NEW off, Noted(n, off)  PROVE Noted(n, off)'
      <4>1. n = k => c.off = off  BY <2>1, <2>2, <2>3, <3>2 DEF Noted, Unnoted
      <4>2. n \in DOMAIN file'.extents => file'.extents[n].off = off
        BY <2>10, <3>2, <4>1 DEF Noted
      <4>3. ASSUME NEW s \in Threads, Unnoted(s, n)'  PROVE Head(threads'[s].chunks).off = off
        <5>1. s # t  BY <2>4, <4>3 DEF Unnoted
        <5> QED  BY <2>4, <3>2, <4>3, <5>1 DEF Noted, Unnoted
      <4> QED  BY <4>2, <4>3 DEF Noted
    <3> QED  BY <3>1, <3>2
  <2>12. \A n : ForFile(n)' => ForFile(n)  BY <2>3 DEF ForFile
  <2>13. \A n : Numbered(n)' <=> Numbered(n)  BY <2>3 DEF Numbered
  <2>14. \A n \in DOMAIN file'.extents : Numbered(n)'
    <3> HIDE DEF Numbered
    <3> QED  BY <1>1, <2>5, <2>10, <2>13 DEF ReaderFile
  <2> HIDE DEF Prefetched, Noted, ForFile, Numbered, ReaderRequest, ReaderThreads
  <2> QED  BY <1>2, <1>4, <2>3, <2>6, <2>9, <2>11, <2>12, <2>13, <2>14, ReaderPrefetches
<1>12. CASE PrefetchDies(t)
  <2>1. /\ threads[t].pc = "send" /\ UNCHANGED <<up, reqs, number>>
        /\ expecting' = Put(expecting, number, "file")
        /\ file' = [file EXCEPT !.plock = 0] /\ threads' = [threads EXCEPT ![t].pc = "over"]
    BY <1>12 DEF PrefetchDies, Thread, channelVars, serverVars, Nobody
  <2>2. /\ threads'[t].pc = "over" /\ threads'[t].chunks = threads[t].chunks
        /\ threads'[t].num = threads[t].num
        /\ \A s \in Threads : s # t => threads'[s] = threads[s]
    BY <1>0, <2>1 DEF Shapes, ThreadFields
  <2>3. file.plock = t  BY <1>3, <2>1 DEF ReaderThread, Locking
  <2>4. /\ DOMAIN file' = FileFields /\ \A x \in FileFields \ {"extents", "plock"} : file'[x] = file[x]
        /\ file'.extents = file.extents
    BY <1>0, <2>1 DEF FileFields
  <2>5. file'.handle = file.handle  BY <2>4 DEF FileFields
  <2>6. \A s \in Threads : s # t /\ threads[s].pc \in Locking => file'.plock = s  BY <1>7, <2>3
  <2>7. ReaderThreads'
    <3>1. "over" # "sent" /\ "over" \notin Locking  BY DEF Locking
    <3> HIDE DEF Numbered
    <3> QED  BY <1>6, <2>1, <2>2, <2>5, <2>6, <3>1
  <2>8. /\ \A n : Prefetched(n) => Prefetched(n)'
        /\ \A n, off : Noted(n, off) => Noted(n, off)'
    BY <2>1, <2>2, <2>4 DEF Prefetched, Noted, Unnoted
  <2>9. \A n : Numbered(n) => n # number  BY <1>5 DEF Numbered
  <2>10. \A n : Numbered(n) => /\ n \in DOMAIN expecting' => n \in DOMAIN expecting
                               /\ ForFile(n)' => ForFile(n)
    BY <2>1, <2>9 DEF ForFile, Put
  <2>11. \A n : Numbered(n)' <=> Numbered(n)  BY <2>1 DEF Numbered
  <2>12. \A n \in DOMAIN file'.extents : Numbered(n)'  BY <1>1, <2>4, <2>11 DEF ReaderFile
  <2> HIDE DEF Prefetched, Noted, ForFile, Numbered, ReaderRequest, ReaderThreads
  <2> QED  BY <1>2, <1>4, <2>1, <2>4, <2>7, <2>8, <2>10, <2>11, <2>12, ReaderPrefetches
<1> QED  BY <1>8, <1>9, <1>10, <1>11, <1>12 DEF ThreadStep

\* What the server does with a request of a program that reads
LEMMA ServeReads ==
  ASSUME Serve, stored = Content, NEW m, m = Head(reqs), m.t \in ReadTypes
  PROVE  \E a :
           /\ srv'.msg.t = a.t /\ srv'.msg.v = a.v /\ stored' = stored
           /\ Says(a, {"failure"}) => use.fails /\ m.t # "open"
           /\ Says(a, {"bad"}) => m.t = "close" \/ (m.t \in {"read", "fstat"} /\ m.h \notin files)
           /\ m.t = "open" => a.t = "handle" /\ a.v[1] = nextHandle /\ files' = files \cup {nextHandle}
           /\ m.t \notin {"open", "close"} => files' = files
           /\ m.t = "read" /\ m.off \in Nat /\ m.arg \in Nat => a.t = "status" \/ Piece(a.v, m.off)
           /\ m.t = "read" /\ m.off \in Nat /\ m.arg \in Nat \ {0} /\ m.h \in files => Data(a, m.off, m.arg)
<1> DEFINE fails == use.fails /\ m.t \notin {"open", "close", "read", "opendir", "readdir"}
<1>1. PICK a \in {Answer(m)} \cup (IF fails THEN {Status("failure")} ELSE {}) :
        /\ srv' = [pc |-> "replying", msg |-> [num |-> m.num, t |-> a.t, v |-> a.v]]
        /\ files' = CASE m.t = "open"  -> files \cup {nextHandle}
                      [] m.t = "close" -> files \ {m.h}
                      [] OTHER         -> files
        /\ stored' = IF m.t = "write" /\ Says(a, {"ok"}) THEN Written(stored, m.off, m.arg) ELSE stored
  BY DEF Serve
<1>2. m.t # "write"  BY DEF ReadTypes, Paths, ChangesPath, ReadsPath, SetsPath, NamesPath
<1>3. /\ m.t = "open" => files' = files \cup {nextHandle}
      /\ m.t \notin {"open", "close"} => files' = files
      /\ srv'.msg.t = a.t /\ srv'.msg.v = a.v /\ stored' = stored
  BY <1>1, <1>2
<1>4. CASE fails /\ a = Status("failure")
  <2>1. a.t = "status" /\ a.v[1] = "failure"  BY <1>4 DEF Status
  <2>2. ~Says(a, {"bad"})  BY <2>1 DEF Says
  <2>3. m.t \notin {"open", "read"}  BY <1>4
  <2> HIDE DEF Says, Data, Piece
  <2> QED  BY <1>3, <1>4, <2>2, <2>3
<1>5. CASE a = Answer(m)
  <2>0. ASSUME ~Says(a, {"failure"}), ~Says(a, {"bad"}), m.t \notin {"open", "read"}
        PROVE  \E b :
                 /\ srv'.msg.t = b.t /\ srv'.msg.v = b.v /\ stored' = stored
                 /\ Says(b, {"failure"}) => use.fails /\ m.t # "open"
                 /\ Says(b, {"bad"}) => m.t = "close" \/ (m.t \in {"read", "fstat"} /\ m.h \notin files)
                 /\ m.t = "open" => b.t = "handle" /\ b.v[1] = nextHandle
                                    /\ files' = files \cup {nextHandle}
                 /\ m.t \notin {"open", "close"} => files' = files
                 /\ m.t = "read" /\ m.off \in Nat /\ m.arg \in Nat => b.t = "status" \/ Piece(b.v, m.off)
                 /\ m.t = "read" /\ m.off \in Nat /\ m.arg \in Nat \ {0} /\ m.h \in files => Data(b, m.off, m.arg)
    <3> HIDE DEF Says, Data, Piece
    <3> QED  BY <1>3, <2>0
  <2>1. CASE m.t = "open"
    <3>1. a.t = "handle" /\ a.v[1] = nextHandle  BY <1>5, <2>1 DEF Answer
    <3>2. ~Says(a, {"failure"}) /\ ~Says(a, {"bad"})  BY <3>1 DEF Says
    <3> HIDE DEF Says, Data, Piece
    <3> QED  BY <1>3, <2>1, <3>1, <3>2
  <2>2. CASE m.t = "close"
    <3>1. a = Status(IF m.h \in files \cup DOMAIN folders THEN "ok" ELSE "bad")
      BY <1>5, <2>2 DEF Answer
    <3>2. ~Says(a, {"failure"})  BY <3>1 DEF Says, Status
    <3> HIDE DEF Says, Data, Piece
    <3> QED  BY <1>3, <2>2, <3>2
  <2>3. CASE m.t = "read"
    <3>1. PICK d : d = Slice(Content, m.off, m.arg)  OBVIOUS
    <3>2. a = IF m.h \notin files THEN Status("bad")
              ELSE IF d = <<>> THEN Status("eof") ELSE [t |-> "data", v |-> d]
      BY <1>5, <2>3, <3>1 DEF Answer
    <3>3. m.off \in Nat /\ m.arg \in Nat =>
            /\ d # <<>> => Piece(d, m.off) /\ Len(d) \in 1 .. m.arg
            /\ d = <<>> /\ m.arg > 0 => m.off >= Length
      BY <2>3, <3>1, ReadIs
    <3>4. CASE m.h \notin files
      <4>1. a.t = "status" /\ a.v[1] = "bad"  BY <3>2, <3>4 DEF Status
      <4>2. ~Says(a, {"failure"})  BY <4>1 DEF Says
      <4> HIDE DEF Says, Data, Piece
      <4> QED  BY <1>3, <2>3, <3>4, <4>1, <4>2
    <3>5. CASE m.h \in files /\ d = <<>>
      <4>1. a.t = "status" /\ a.v[1] = "eof"  BY <3>2, <3>5 DEF Status
      <4>2. ~Says(a, {"failure"}) /\ ~Says(a, {"bad"}) /\ Says(a, {"eof"})  BY <4>1 DEF Says
      <4>3. m.off \in Nat /\ m.arg \in Nat \ {0} => Data(a, m.off, m.arg)
        BY <3>3, <3>5, <4>2 DEF Data
      <4> HIDE DEF Says, Data, Piece
      <4> QED  BY <1>3, <2>3, <4>1, <4>2, <4>3
    <3>6. CASE m.h \in files /\ d # <<>>
      <4>1. a.t = "data" /\ a.v = d  BY <3>2, <3>6
      <4>2. ~Says(a, {"failure"}) /\ ~Says(a, {"bad"})  BY <4>1 DEF Says
      <4>3. m.off \in Nat /\ m.arg \in Nat => Data(a, m.off, m.arg) /\ Piece(a.v, m.off)
        <5> HIDE DEF Piece
        <5> QED  BY <3>3, <3>6, <4>1 DEF Data
      <4> HIDE DEF Says, Data, Piece
      <4> QED  BY <1>3, <2>3, <4>2, <4>3
    <3> QED  BY <3>4, <3>5, <3>6
  <2>4. CASE m.t = "fstat"
    <3>1. a = IF m.h \in files THEN [t |-> "attrs", v |-> <<Len(stored)>>] ELSE Status("bad")
      BY <1>5, <2>4 DEF Answer
    <3>2. ~Says(a, {"failure"}) /\ (Says(a, {"bad"}) => m.h \notin files)
      BY <3>1 DEF Says, Status
    <3> HIDE DEF Says, Data, Piece
    <3> QED  BY <1>3, <2>4, <3>2
  <2>5. CASE m.t = "fsetstat"
    <3>1. a = IF m.h \in files THEN Status("ok") ELSE [t |-> "5", v |-> <<>>]
      BY <1>5, <2>5 DEF Answer
    <3>2. ~Says(a, {"failure"}) /\ ~Says(a, {"bad"})  BY <3>1 DEF Says, Status
    <3> HIDE DEF Says, Data, Piece
    <3> QED  BY <2>0, <2>5, <3>2
  <2>6. CASE m.t \in Paths
    <3>0. m.t \in {"stat", "lstat", "readlink", "realpath", "remove", "rename", "mkdir", "rmdir",
                   "symlink", "setstat"}
      BY <2>6 DEF Paths, ChangesPath, ReadsPath, SetsPath, NamesPath
    <3>1. ~Says(a, {"failure"}) /\ ~Says(a, {"bad"})
      <4>1. CASE m.t \in {"stat", "lstat"}
        <5>1. a = [t |-> "attrs", v |-> <<Len(stored)>>]  BY <1>5, <4>1 DEF Answer
        <5> QED  BY <5>1 DEF Says
      <4>2. CASE m.t \in {"readlink", "realpath"}
        <5>1. a = [t |-> "name", v |-> <<1>>]  BY <1>5, <4>2 DEF Answer
        <5> QED  BY <5>1 DEF Says
      <4>3. CASE m.t \in {"remove", "rename", "mkdir", "rmdir", "symlink", "setstat"}
        <5>1. a = Status("ok")  BY <1>5, <4>3 DEF Answer
        <5> QED  BY <5>1 DEF Says, Status
      <4> QED  BY <3>0, <4>1, <4>2, <4>3
    <3>2. m.t \notin {"open", "read"}  BY <3>0
    <3> HIDE DEF Says, Data, Piece
    <3> QED  BY <2>0, <3>1, <3>2
  <2> QED  BY <2>1, <2>2, <2>3, <2>4, <2>5, <2>6 DEF ReadTypes
<1> QED  BY <1>1, <1>4, <1>5

\* A step of the server and of the channel leaves the client alone.
LEMMA ReaderServed ==
  ASSUME Common, ReaderInv, UNCHANGED <<use, stored, number, expecting, file, threads, user>>,
         up' => up, user.pc = "idle" => UNCHANGED cut, ReaderOnTheWay',
         file.handle # 0 /\ ~file.closed => file.handle \in files' \/ srv'.pc = "gone"
  PROVE  ReaderInv'
<1>1. ReaderUser /\ ReaderFile /\ ReaderThreads /\ Reading /\ ReaderAsks /\ Held  BY DEF ReaderInv
<1>2. ReaderThreads'  BY <1>1, ThreadsStill
<1>3. Reading' /\ ReaderAsks'
  <2> HIDE DEF Piece
  <2> QED  BY <1>1 DEF Reading, ReaderAsks, Awaiting
<1>4. \A n : Numbered(n)' <=> Numbered(n)  BY DEF Numbered
<1>5. Held'
  <2>1. PICK m : m = user.held  OBVIOUS
  <2>2. PrefetchAnswer(m)' <=> PrefetchAnswer(m)
    BY DEF PrefetchAnswer, Prefetched, Noted, Unnoted, Piece, Bytes
  <2> HIDE DEF PrefetchAnswer, Numbered
  <2> QED  BY <1>1, <1>4, <2>1, <2>2 DEF Held
<1>6. ReaderUser'  BY <1>1 DEF ReaderUser
<1>7. ReaderFile'
  <2> HIDE DEF Piece, Numbered
  <2> QED  BY <1>1, <1>4 DEF ReaderFile
<1> QED  BY <1>2, <1>3, <1>5, <1>6, <1>7 DEF ReaderInv

\* The server answers a request to read with the bytes that are asked for.
LEMMA ReaderServes ==
  ASSUME Common, ReaderInv, Serve
  PROVE  ReaderInv'
<1>1. ReaderOnTheWay /\ ReaderFile /\ ReaderUser /\ ReaderAsks /\ Reading /\ Packets
  BY DEF ReaderInv, Common
<1>2. IsSeq(reqs) /\ nextHandle \in Nat \ {0}  BY <1>1 DEF Packets
<1>3. /\ IsSeq(reqs') /\ Len(reqs) \in Nat \ {0} /\ Len(reqs') = Len(reqs) - 1
      /\ \A i \in 1 .. Len(reqs') : reqs'[i] = reqs[i + 1] /\ i + 1 \in 1 .. Len(reqs)
      /\ 1 \in 1 .. Len(reqs) /\ Head(reqs) = reqs[1]
      /\ srv.pc = "reading" /\ srv'.pc = "replying" /\ srv'.msg.num = reqs[1].num
      /\ UNCHANGED <<use, resps, up, clientVars, file, threads, user>>
  BY <1>2, ServeIs
<1>4. PICK m : m = reqs[1]  OBVIOUS
<1>5. ReaderRequest(m) /\ Numbered(m.num)  BY <1>1, <1>3, <1>4 DEF ReaderOnTheWay, Packets
<1>6. UNCHANGED <<use, resps, up, number, expecting, file, threads, user>>  BY <1>3 DEF clientVars
<1>7. user.want \in Nat \ {0} /\ user.pc # "idle" /\ user.call = "read" =>
        Least(user.want - Len(user.got), MaxRequest) \in Nat \ {0}
  <2>1. ASSUME user.pc # "idle", user.call = "read"
        PROVE  Least(user.want - Len(user.got), MaxRequest) \in Nat \ {0}
    <3>1. user.want \in Nat \ {0} /\ IsSeq(user.got) /\ Len(user.got) < user.want
      BY <1>1, <2>1 DEF Reading, Piece
    <3>2. Len(user.got) \in Nat  BY <3>1, LenIs
    <3>3. user.want - Len(user.got) \in Nat \ {0}  BY <3>1, <3>2
    <3> QED  BY <3>3, SftpAssumption DEF Least
  <2> QED  BY <2>1
<1>8. ASSUME Awaits(m.num)
      PROVE  /\ user.pc # "idle" /\ m.t = user.call /\ m.off = user.req.off /\ m.arg = user.req.arg
             /\ m.t \in OnFile => m.h \in files
             /\ m.t = "open" => file.handle = 0
             /\ m.t = "read" => m.off \in Nat /\ m.arg \in Nat \ {0}
  <2>1. Made(m) /\ Awaiting  BY <1>5, <1>8 DEF ReaderRequest, Awaits
  <2>2. user.pc # "idle"  BY <2>1 DEF Awaiting
  <2>3. m.t = user.call /\ m.off = user.req.off /\ m.arg = user.req.arg /\ m.h = user.req.h
    BY <1>1, <2>1 DEF Made, ReaderAsks
  <2>4. m.t \in OnFile => m.h = file.handle /\ file.handle # 0 /\ ~file.closed
    BY <1>1, <2>1, <2>2, <2>3 DEF ReaderAsks, ReaderUser
  <2>5. m.t \in OnFile => m.h \in files  BY <1>1, <1>3, <2>4 DEF ReaderFile
  <2>6. m.t = "open" => file.handle = 0  BY <1>1, <2>2, <2>3 DEF ReaderUser
  <2>7. ASSUME m.t = "read"  PROVE m.off \in Nat /\ m.arg \in Nat \ {0}
    <3>1. m.off = file.realpos /\ m.arg = Least(user.want - Len(user.got), MaxRequest)
      BY <1>1, <2>1, <2>3, <2>7 DEF ReaderAsks
    <3>2. file.realpos \in 0 .. Length /\ Length \in Nat  BY <1>1, SftpAssumption DEF ReaderFile
    <3>3. user.want \in Nat \ {0}  BY <1>1, <2>3, <2>7 DEF Reading
    <3> QED  BY <1>7, <2>2, <2>3, <2>7, <3>1, <3>2, <3>3
  <2> QED  BY <2>2, <2>3, <2>5, <2>6, <2>7
<1>9. ASSUME ForFile(m.num)
      PROVE  m.t = "read" /\ m.off \in Nat /\ m.arg \in Nat /\ Prefetched(m.num) /\ Noted(m.num, m.off)
  <2> HIDE DEF Prefetched, Noted, ForFile
  <2> QED  BY <1>5, <1>9 DEF ReaderRequest, PrefetchRequest
<1>10. m.t \in ReadTypes /\ stored = Content /\ (m.t = "close" => file.closed)
  BY <1>1, <1>5 DEF ReaderRequest, ReaderFile
<1>11. PICK a :
         /\ srv'.msg.t = a.t /\ srv'.msg.v = a.v /\ stored' = stored
         /\ Says(a, {"failure"}) => use.fails /\ m.t # "open"
         /\ Says(a, {"bad"}) => m.t = "close" \/ (m.t \in {"read", "fstat"} /\ m.h \notin files)
         /\ m.t = "open" => a.t = "handle" /\ a.v[1] = nextHandle /\ files' = files \cup {nextHandle}
         /\ m.t \notin {"open", "close"} => files' = files
         /\ m.t = "read" /\ m.off \in Nat /\ m.arg \in Nat => a.t = "status" \/ Piece(a.v, m.off)
         /\ m.t = "read" /\ m.off \in Nat /\ m.arg \in Nat \ {0} /\ m.h \in files => Data(a, m.off, m.arg)
  <2> HIDE DEF Says, Data, Piece
  <2> QED  BY <1>3, <1>4, <1>10, ServeReads
<1>12. files \subseteq files' \/ (m.t = "close" /\ file.closed)  BY <1>10, <1>11
<1>13. file.closed => user.call # "open" \/ ~Awaiting
  BY <1>1 DEF ReaderUser, ReaderFile, Awaiting
<1>14. /\ \A r : Numbered(r.num) /\ ReaderRequest(r) => ReaderRequest(r)'
       /\ \A n : Numbered(n.num) /\ ReaderAnswer(n) => ReaderAnswer(n)'
  <2>1. /\ \A n : Awaits(n)' <=> Awaits(n)
        /\ \A n : ForFile(n)' <=> ForFile(n)
    BY <1>6 DEF Awaits, Awaiting, ForFile
  <2>2. /\ \A n : Prefetched(n)' <=> Prefetched(n)
        /\ \A n, off : Noted(n, off)' <=> Noted(n, off)
    BY <1>6, PrefetchesKept
  <2> HIDE DEF Prefetched, Noted, ForFile, Awaits, Awaiting, Numbered, ReaderRequest, ReaderAnswer
  <2> QED  BY <1>3, <1>6, <1>12, <1>13, <2>1, <2>2, ReaderFrame
<1>15. ReaderAnswer(srv.msg)'
  <2>1. PICK n : n = srv'.msg  OBVIOUS
  <2>2. n.num = m.num /\ n.t = a.t /\ n.v = a.v  BY <1>3, <1>4, <1>11, <2>1
  <2>3. \A c : Says(n, c) <=> Says(a, c)  BY <2>2 DEF Says
  <2>4. ASSUME Awaits(m.num)  PROVE Answers(n)'
    <3>1. Says(n, {"failure"}) => use.fails
      <4> HIDE DEF Says
      <4> QED  BY <1>11, <2>3
    <3>2. Says(n, {"bad"}) => user.call = "close"
      <4>1. Says(a, {"bad"}) => m.t = "close"  BY <1>8, <1>11, <2>4 DEF OnFile
      <4> HIDE DEF Says, Awaits
      <4> QED  BY <1>8, <2>3, <2>4, <4>1
    <3>3. user.call = "open" => n.t = "handle" /\ n.v[1] \in Nat \ {0} /\ n.v[1] \in files'
      <4> HIDE DEF Awaits, Says, Data, Piece
      <4> QED  BY <1>2, <1>8, <1>11, <2>2, <2>4
    <3>4. user.call = "read" => Data(n, user.req.off, user.req.arg)
      <4>1. user.call = "read" => Data(a, m.off, m.arg)
        <5>1. "read" \in OnFile  BY DEF OnFile
        <5> HIDE DEF Awaits, Says, Data, Piece
        <5> QED  BY <1>8, <1>11, <2>4, <5>1
      <4>2. Data(a, m.off, m.arg) => Data(n, m.off, m.arg)
        <5> HIDE DEF Says, Piece
        <5> QED  BY <2>2, <2>3 DEF Data
      <4> HIDE DEF Awaits, Data
      <4> QED  BY <1>8, <2>4, <4>1, <4>2
    <3>5. \A c : Says(n, c)' <=> Says(n, c)  BY DEF Says
    <3>6. \A off, k : Data(n, off, k)' <=> Data(n, off, k)  BY <3>5 DEF Data, Piece, Bytes
    <3>7. Says(n, {"failure"})' => use'.fails  BY <1>6, <3>1, <3>5
    <3>8. Says(n, {"bad"})' => user'.call = "close"  BY <1>6, <3>2, <3>5
    <3> HIDE DEF Data, Says
    <3> QED  BY <1>6, <3>3, <3>4, <3>6, <3>7, <3>8 DEF Answers
  <2>5. ASSUME ForFile(m.num)  PROVE PrefetchAnswer(n)'
    <3>1. n.t = "status" \/ Piece(n.v, m.off)
      <4> HIDE DEF Prefetched, Noted, ForFile, Says, Piece, Data
      <4> QED  BY <1>9, <1>11, <2>2, <2>5
    <3>2. \A off : Piece(n.v, off)' <=> Piece(n.v, off)  BY DEF Piece, Bytes
    <3>3. /\ \A k : Prefetched(k)' <=> Prefetched(k)
          /\ \A k, off : Noted(k, off)' <=> Noted(k, off)
      BY <1>6, PrefetchesKept
    <3> HIDE DEF Prefetched, Noted, ForFile, Piece
    <3> QED  BY <1>9, <2>2, <2>5, <3>1, <3>2, <3>3 DEF PrefetchAnswer
  <2>6. Awaits(m.num)' <=> Awaits(m.num)
    <3>1. PICK k : k = m.num  OBVIOUS
    <3>2. Awaits(k)' <=> Awaits(k)  BY <1>6 DEF Awaits, Awaiting
    <3> QED  BY <3>1, <3>2
  <2>7. ForFile(n.num)' <=> ForFile(n.num)  BY <1>6 DEF ForFile
  <2> HIDE DEF Awaits, ForFile, Answers, PrefetchAnswer
  <2>8. ReaderAnswer(n)'  BY <2>2, <2>4, <2>5, <2>6, <2>7 DEF ReaderAnswer
  <2> QED  BY <2>1, <2>8
<1>16. ReaderOnTheWay'
  <2>1. ASSUME NEW i \in 1 .. Len(reqs')  PROVE ReaderRequest(reqs[i])'
    <3>1. PICK r : r = reqs[i + 1]  OBVIOUS
    <3>2. i + 1 \in 1 .. Len(reqs) /\ reqs'[i] = r  BY <1>3, <3>1
    <3>3. Numbered(r.num) /\ ReaderRequest(r)  BY <1>1, <3>1, <3>2 DEF Packets, ReaderOnTheWay
    <3>4. ReaderRequest(r)'  BY <1>14, <3>3
    <3> QED  BY <3>2, <3>4
  <2>2. ASSUME NEW i \in 1 .. Len(resps')  PROVE ReaderAnswer(resps[i])'
    <3>1. PICK n : n = resps[i]  OBVIOUS
    <3>2. i \in 1 .. Len(resps) /\ resps'[i] = n  BY <1>6, <3>1
    <3>3. Numbered(n.num) /\ ReaderAnswer(n)  BY <1>1, <3>1, <3>2 DEF Packets, ReaderOnTheWay
    <3>4. ReaderAnswer(n)'  BY <1>14, <3>3
    <3> QED  BY <3>2, <3>4
  <2> QED  BY <1>15, <2>1, <2>2 DEF ReaderOnTheWay
<1>17. file.handle # 0 /\ ~file.closed => file.handle \in files'
  BY <1>1, <1>3, <1>12 DEF ReaderFile
<1>18. stored' = stored /\ UNCHANGED cut  BY <1>11 DEF Serve
<1> HIDE DEF ReaderOnTheWay
<1> QED  BY <1>6, <1>16, <1>17, <1>18, ReaderServed

\* The server sends a response, or has nothing more to do.
LEMMA ReaderReplies ==
  ASSUME Common, ReaderInv, Reply \/ ServerEnds \/ Drop
  PROVE  ReaderInv'
<1>1. ReaderOnTheWay /\ ReaderFile /\ Packets  BY DEF ReaderInv, Common
<1>2. IsSeq(reqs) /\ IsSeq(resps)  BY <1>1 DEF Packets
<1>3. UNCHANGED <<use, stored, number, expecting, file, threads, user>>
      /\ (files' = files \/ srv'.pc = "gone") /\ (srv'.pc = "gone" \/ srv.pc # "gone" \/ srv' = srv)
  BY DEF Reply, ServerEnds, Drop, serverVars, clientVars
<1>4. reqs' = reqs \/ (reqs' = <<>> /\ ~up')  BY DEF Reply, ServerEnds, Drop, channelVars
<1>5. (up' => up) /\ (user.pc = "idle" => UNCHANGED cut)
  BY DEF Reply, ServerEnds, Drop, channelVars
<1>6. /\ \A r : Numbered(r.num) /\ ReaderRequest(r) => ReaderRequest(r)'
      /\ \A n : Numbered(n.num) /\ ReaderAnswer(n) => ReaderAnswer(n)'
  <2>1. /\ \A n : Awaits(n)' <=> Awaits(n)
        /\ \A n : ForFile(n)' <=> ForFile(n)
    BY <1>3 DEF Awaits, Awaiting, ForFile
  <2>2. /\ \A n : Prefetched(n)' <=> Prefetched(n)
        /\ \A n, off : Noted(n, off)' <=> Noted(n, off)
    BY <1>3, PrefetchesKept
  <2>3. srv.pc = "gone" => srv'.pc = "gone"  BY <1>3
  <2> HIDE DEF Prefetched, Noted, ForFile, Awaits, Numbered, ReaderRequest, ReaderAnswer
  <2> QED  BY <1>3, <2>1, <2>2, <2>3, ReaderFrame
<1>7. \A i \in 1 .. Len(reqs') : ReaderRequest(reqs[i])'
  <2>1. reqs' = <<>> => Len(reqs') = 0  BY EmptyIs
  <2>2. ASSUME NEW i \in 1 .. Len(reqs')  PROVE ReaderRequest(reqs[i])'
    <3>1. PICK r : r = reqs[i]  OBVIOUS
    <3>2. i \in 1 .. Len(reqs) /\ reqs'[i] = r  BY <1>4, <2>1, <3>1
    <3>3. Numbered(r.num) /\ ReaderRequest(r)  BY <1>1, <3>1, <3>2 DEF Packets, ReaderOnTheWay
    <3>4. ReaderRequest(r)'  BY <1>6, <3>3
    <3> QED  BY <3>2, <3>4
  <2> QED  BY <2>2
<1>8. ASSUME NEW n, Numbered(n.num), ReaderAnswer(n), NEW i, resps'[i] = n  PROVE ReaderAnswer(resps[i])'
  <2>1. ReaderAnswer(n)'  BY <1>6, <1>8
  <2> QED  BY <1>8, <2>1
<1>9. \A i \in 1 .. Len(resps') : ReaderAnswer(resps[i])'
  <2>1. CASE Reply
    <3>1. /\ Len(resps) \in Nat /\ Len(resps') = Len(resps) + 1
          /\ \A i \in 1 .. Len(resps) : resps'[i] = resps[i]
          /\ resps'[Len(resps) + 1] = srv.msg /\ srv.pc = "replying"
      BY <1>2, <2>1, ReplyIs
    <3>2. ASSUME NEW i \in 1 .. Len(resps')  PROVE ReaderAnswer(resps[i])'
      <4>1. PICK n : n = resps'[i]  OBVIOUS
      <4>2. i \in 1 .. Len(resps) \/ i = Len(resps) + 1  BY <3>1
      <4>3. Numbered(n.num) /\ ReaderAnswer(n)
        <5>1. CASE i \in 1 .. Len(resps)
          <6>1. n = resps[i]  BY <3>1, <4>1, <5>1
          <6> QED  BY <1>1, <5>1, <6>1 DEF ReaderOnTheWay, Packets
        <5>2. CASE i = Len(resps) + 1
          <6>1. n = srv.msg /\ Answering  BY <3>1, <4>1, <5>2 DEF Answering
          <6> QED  BY <1>1, <6>1 DEF ReaderOnTheWay, Packets
        <5> QED  BY <4>2, <5>1, <5>2
      <4> QED  BY <1>8, <4>1, <4>3
    <3> QED  BY <3>2
  <2>2. CASE ServerEnds \/ Drop
    <3>1. \A i \in 1 .. Len(resps') : i \in 1 .. Len(resps) /\ resps'[i] = resps[i]
      <4>1. CASE ServerEnds
        <5>1. resps' = resps  BY <4>1 DEF ServerEnds, channelVars
        <5> QED  BY <5>1
      <4>2. CASE Drop  BY <1>2, <4>2, DropIs
      <4> QED  BY <2>2, <4>1, <4>2
    <3>2. ASSUME NEW i \in 1 .. Len(resps')  PROVE ReaderAnswer(resps[i])'
      <4>1. PICK n : n = resps'[i]  OBVIOUS
      <4>2. n = resps[i] /\ i \in 1 .. Len(resps)  BY <3>1, <4>1
      <4>3. Numbered(n.num) /\ ReaderAnswer(n)  BY <1>1, <4>2 DEF ReaderOnTheWay, Packets
      <4> QED  BY <1>8, <4>1, <4>3
    <3> QED  BY <3>2
  <2> QED  BY <2>1, <2>2
<1>10. Answering' => ReaderAnswer(srv.msg)'
  <2>1. PICK n : n = srv.msg  OBVIOUS
  <2>2. Answering' => srv' = srv  BY DEF Answering, Reply, ServerEnds, Drop, serverVars
  <2>3. Answering' => ReaderAnswer(n)'
    BY <1>1, <1>6, <2>1, <2>2 DEF ReaderOnTheWay, Packets, Answering
  <2> QED  BY <2>1, <2>2, <2>3
<1>11. ReaderOnTheWay'  BY <1>7, <1>9, <1>10 DEF ReaderOnTheWay
<1>12. file.handle # 0 /\ ~file.closed => file.handle \in files' \/ srv'.pc = "gone"
  BY <1>1, <1>3 DEF ReaderFile
<1> HIDE DEF ReaderOnTheWay
<1> QED  BY <1>3, <1>5, <1>11, <1>12, ReaderServed

\* Every step of a program that reads
LEMMA ReaderKept ==
  ASSUME Common, use \in Uses, Reads, ReaderInv, [Next]_vars
  PROVE  ReaderInv'
<1>1. ReaderUser  BY DEF ReaderInv
<1>2. CASE Call  BY <1>2, ReaderCall
<1>3. CASE UserStep
  <2>1. ~AfterWrite /\ ~Collect /\ ~ReadRaw /\ ~RawFails
    BY <1>1 DEF ReaderUser, AfterWrite, Collect, ReadRaw, RawFails
  <2> QED  BY <1>3, <2>1, ReaderPlain, ReaderSends, ReaderLooks, ReaderStores, ReaderTakes DEF UserStep
<1>4. ASSUME NEW t \in Threads, ThreadStep(t)  PROVE ReaderInv'  BY <1>4, ReaderThreadsGo
<1>5. CASE ServerStep \/ Drop  BY <1>5, ReaderServes, ReaderReplies DEF ServerStep
<1>6. CASE UNCHANGED vars
  <2>1. UNCHANGED <<use, reqs, resps, up, cut, srv, files, stored, number, expecting, file, threads, user>>
    BY <1>6 DEF vars, channelVars, serverVars, clientVars
  <2> QED
    BY <2>1, SMTT(20) DEF ReaderInv, ReaderOnTheWay, ReaderRequest, ReaderAnswer, ReaderThreads, ReaderThread, ReaderFile,
       Reading, ReaderAsks, Held, ReaderUser, Answering, Awaits, Awaiting, Made, ForFile, PrefetchRequest,
       PrefetchAnswer, Prefetched, Noted, Unnoted, Answers, Data, Piece, Bytes, Says, Numbered
<1> QED  BY <1>2, <1>3, <1>4, <1>5, <1>6 DEF Next

\* Two pieces of the file from the same place on, the second at least as long
LEMMA PrefixIs ==
  ASSUME NEW off, NEW s, NEW t, Piece(s, off), Piece(t, off), Len(s) <= Len(t)
  PROVE  IsPrefix(s, t) /\ (Len(s) = Len(t) => s = t)
<1>1. /\ IsSeq(s) /\ IsSeq(t) /\ off \in Nat
      /\ \A i \in 1 .. Len(s) : s[i] = off + i
      /\ \A i \in 1 .. Len(t) : t[i] = off + i
  BY DEF Piece, Bytes
<1>2. PICK n : n = Len(s)  OBVIOUS
<1>3. n \in Nat /\ Len(t) \in Nat  BY <1>1, <1>2, LenIs
<1>4. n \in 0 .. Len(s) /\ n \in 0 .. Len(t) /\ 1 \in Nat \ {0} /\ n - 1 + 1 = n
      /\ (IF 1 <= n THEN n - 1 + 1 ELSE 0) = n
  BY <1>2, <1>3
<1>5. /\ IsSeq(SubSeq(s, 1, n)) /\ Len(SubSeq(s, 1, n)) = n
      /\ \A i \in 1 .. n : SubSeq(s, 1, n)[i] = s[i]
  <2>1. /\ IsSeq(SubSeq(s, 1, n)) /\ Len(SubSeq(s, 1, n)) = IF 1 <= n THEN n - 1 + 1 ELSE 0
        /\ \A i \in 1 .. n - 1 + 1 : SubSeq(s, 1, n)[i] = s[1 + i - 1]
    BY <1>1, <1>4, SubSeqIs
  <2> QED  BY <1>3, <1>4, <2>1
<1>6. /\ IsSeq(SubSeq(t, 1, n)) /\ Len(SubSeq(t, 1, n)) = n
      /\ \A i \in 1 .. n : SubSeq(t, 1, n)[i] = t[i]
  <2>1. /\ IsSeq(SubSeq(t, 1, n)) /\ Len(SubSeq(t, 1, n)) = IF 1 <= n THEN n - 1 + 1 ELSE 0
        /\ \A i \in 1 .. n - 1 + 1 : SubSeq(t, 1, n)[i] = t[1 + i - 1]
    BY <1>1, <1>4, SubSeqIs
  <2> QED  BY <1>3, <1>4, <2>1
<1>7. \A i \in 1 .. n : s[i] = t[i]  BY <1>1, <1>2, <1>3
<1>8. SubSeq(s, 1, n) = SubSeq(t, 1, n)  BY <1>5, <1>6, <1>7, EqualIs
<1>9. Len(s) = Len(t) => s = t  BY <1>1, <1>2, <1>7, EqualIs
<1> QED  BY <1>2, <1>8, <1>9 DEF IsPrefix

\* With the invariant, what a read gives is what the file holds there.
LEMMA ReaderRight ==
  ASSUME ReaderInv
  PROVE  TransfersFaithful
<1>1. Reading /\ ReaderUser  BY DEF ReaderInv
<1>2. ~Over("list") /\ ~Over("listiter")
  <2>1. /\ "list" \notin ReadCalls \cup {"none"}
        /\ "listiter" \notin ReadCalls \cup {"none"}
    BY DEF ReadCalls, ReadTypes, Paths, ChangesPath, ReadsPath, SetsPath, NamesPath
  <2> QED  BY <1>1, <2>1 DEF Over, ReaderUser
<1>3. user.pc = "idle" /\ user.failed => ~up \/ file.refused \/ use.fails  BY <1>1 DEF ReaderUser
<1>4. ASSUME Over("read"), NEW due, due = Slice(Content, user.from, user.want)
      PROVE  user.got = due \/ ((file.refused \/ cut = "eof") /\ IsPrefix(user.got, due))
  <2>1. /\ user.from \in Nat /\ user.want \in Nat \ {0} /\ Piece(user.got, user.from)
        /\ file.realpos = user.from + Len(user.got) /\ Len(user.got) <= user.want
        /\ file.refused \/ cut = "eof" \/ Len(user.got) = user.want \/ file.realpos = Length
    BY <1>1, <1>4 DEF Over, Reading
  <2>2. PICK k : k = Len(user.got)  OBVIOUS
  <2>3. PICK off : off = user.from  OBVIOUS
  <2>4. PICK n : n = Least(off + user.want, Length)  OBVIOUS
  <2>5. k \in Nat /\ off + k <= Length /\ k <= user.want /\ Length \in Nat /\ off \in Nat
    BY <2>1, <2>2, <2>3, LenIs, SftpAssumption DEF Piece, Bytes
  <2>6. n \in Nat /\ off + k <= n /\ n <= Length /\ off <= n
        /\ (k = user.want \/ off + k = Length => n = off + k)
    BY <2>1, <2>4, <2>5 DEF Least
  <2>7. PICK c : c = Content  OBVIOUS
  <2>8. Piece(c, 0) /\ Len(c) = Length  BY <2>7, ContentIs
  <2>9. due = SubSeq(c, off + 1, n)  BY <1>4, <2>3, <2>4, <2>7, <2>8 DEF Slice
  <2>10. Len(due) = n - off /\ Piece(due, off)
    <3>1. n <= Len(c) /\ 0 + off = off  BY <2>5, <2>6, <2>8
    <3>2. Len(SubSeq(c, off + 1, n)) = n - off /\ Piece(SubSeq(c, off + 1, n), 0 + off)
      <4> HIDE DEF Piece
      <4> QED  BY <2>5, <2>6, <2>8, <3>1, PartIs
    <3> QED  BY <2>9, <3>1, <3>2
  <2>11. Piece(user.got, off) /\ Len(user.got) <= Len(due)
    BY <2>1, <2>2, <2>3, <2>5, <2>6, <2>10
  <2>12. IsPrefix(user.got, due) /\ (Len(user.got) = Len(due) => user.got = due)
    <3> HIDE DEF Piece
    <3> QED  BY <2>10, <2>11, PrefixIs
  <2>13. file.refused \/ cut = "eof" \/ Len(user.got) = Len(due)
    <3>1. file.refused \/ cut = "eof" \/ k = user.want \/ off + k = Length  BY <2>1, <2>2, <2>3
    <3> QED  BY <2>2, <2>5, <2>6, <2>10, <3>1
  <2> QED  BY <2>12, <2>13
<1> QED  BY <1>2, <1>3, <1>4 DEF TransfersFaithful

-----------------------------------------------------------------------------
(* A program that lists folders *)

Listers   == {"list", "listiter"}
ListCalls == Listers \cup Paths

\* A program that lists has no file open: listdir_iter takes its packets off
\* the channel without a look at their numbers.
Lists == ~use.writes /\ use.calls \subseteq ListCalls

\* Response m to READDIR gives the names of the folder behind the first pos.
Names(m, pos) ==
  \/ m.t = "name" /\ m.v # <<>> /\ Run(m.v, pos, Entries)
  \/ Says(m, {"eof"}) /\ pos = Entries

\* The last name that has been given with it
LastName(m) == IF m.t = "name" THEN m.v[Len(m.v)] ELSE Entries

\* The names given once the user has taken i responses more, and by the server
Position(i) == IF i = 0 THEN Len(user.got) ELSE LastName(resps[i])
ServerPosition == IF Answering THEN LastName(srv.msg) ELSE Position(Len(resps))

InFolder == user.pc # "idle" /\ user.call \in Listers /\ user.req.t = "readdir"

\* The folder's names are on their way in their order, and the server has the rest.
NamesInOrder ==
  InFolder =>
    /\ Run(user.got, 0, Entries)
    /\ \A i \in 1 .. Len(resps) : Names(resps[i], Position(i - 1))
    /\ up =>
         /\ \A i \in 1 .. Len(reqs) : reqs[i].t = "readdir" /\ reqs[i].h = user.from
         /\ Answering => Names(srv.msg, Position(Len(resps)))
         /\ user.from \in DOMAIN folders
         /\ Run(folders[user.from], ServerPosition, Entries)
         /\ ServerPosition + Len(folders[user.from]) = Entries

\* Nothing is on its way.
Quiet == reqs = <<>> /\ resps = <<>> /\ ~Answering

\* The user looks for responses in between its requests.
OneByOne == user.call # "listiter" \/ user.req.t = "opendir"

\* What the user waits for is the last packet on its way, and the only one of a
\* program that goes one by one.
LastOnTheWay ==
  /\ \A n : Awaits(n) =>
       /\ n \in DOMAIN expecting
       /\ \A i \in 1 .. Len(reqs) : reqs[i].num = n => i = Len(reqs) /\ Made(reqs[i])
       /\ Answering /\ srv.msg.num = n /\ up => reqs = <<>>
       /\ \A i \in 1 .. Len(resps) :
            resps[i].num = n => i = Len(resps) /\ (up => ~Answering /\ reqs = <<>>)
       /\ OneByOne =>
            /\ \A i \in 1 .. Len(reqs) : reqs[i].num = n
            /\ Answering /\ up => srv.msg.num = n
            /\ \A i \in 1 .. Len(resps) : resps[i].num = n
  /\ up /\ (user.pc = "idle" \/ (user.pc \in {"acquire", "send"} /\ OneByOne)) => Quiet
  /\ ~up => reqs = <<>>
  /\ \A i \in 1 .. Len(reqs) : reqs[i].t = "close" => Awaits(reqs[i].num)

\* Response m to what the user waits for, other than names
ListerAnswer(m) ==
  Awaits(m.num) =>
    /\ user.req.t = "opendir" =>
         m.t = "handle" /\ (up => m.v[1] \in DOMAIN folders /\ folders[m.v[1]] = Listing)
    /\ user.req.t = "close" => Says(m, {"ok"})
    /\ user.call \in Paths => ~Says(m, {"bad"}) /\ (Says(m, {"failure"}) => use.fails)

\* Responses on their way, or in the hands of the server, other than names
ListerOnTheWay ==
  /\ \A i \in 1 .. Len(resps) : ListerAnswer(resps[i])
  /\ Answering /\ up => ListerAnswer(srv.msg)

\* A call is where its kind allows; when it closes the folder, it has all names.
ListerUser ==
  /\ user.pc \in {"idle", "acquire", "send", "wait", "raw"}
  /\ user.call \in ListCalls \cup {"none"}
  /\ user.pc = "raw" => user.call = "listiter" /\ user.req.t = "readdir"
  /\ user.pc = "wait" /\ user.call = "listiter" => user.req.t # "readdir"
  /\ user.pc # "idle" /\ user.call \in Paths => user.req.t = user.call
  /\ user.pc # "idle" /\ user.call \in Listers =>
       /\ user.req.t \in {"opendir", "readdir", "close"}
       /\ user.req.t = "opendir" => user.got = <<>>
       /\ user.req.t # "opendir" => user.req.h = user.from
       /\ user.req.t = "close" =>
            /\ user.got = Listing \/ (~up /\ user.pc # "wait")
            /\ up /\ (user.pc = "wait" => \E i \in 1 .. Len(reqs) : reqs[i].num = user.wait) =>
                 user.from \in DOMAIN folders
  /\ user.pc = "idle" /\ ~user.failed /\ user.call \in Listers => user.got = Listing
  /\ user.pc = "idle" /\ user.failed => ~up \/ use.fails
  /\ \A n \in DOMAIN expecting : expecting[n] = "sync"
  /\ \A t \in Threads : threads[t].pc = "unused"

ListerInv == NamesInOrder /\ LastOnTheWay /\ ListerOnTheWay /\ ListerUser

\* The names of the folder, and what gives all of them
LEMMA ListingIs ==
  /\ Run(Listing, 0, Entries) /\ Len(Listing) = Entries
  /\ \A s : Run(s, 0, Entries) /\ Len(s) = Entries => s = Listing
<1>0. Entries \in Nat  BY SftpAssumption
<1>1. PICK l : l = Listing  OBVIOUS
<1>2. Run(l, 0, Entries) /\ Len(l) = Entries  BY <1>0, <1>1, RunIs DEF Listing
<1>3. ASSUME NEW s, Run(s, 0, Entries), Len(s) = Entries  PROVE s = l
  <2>1. IsSeq(s) /\ IsSeq(l) /\ Len(s) = Len(l) /\ \A i \in 1 .. Len(s) : s[i] = l[i]
    BY <1>0, <1>2, <1>3 DEF Run
  <2> QED  BY <2>1, EqualIs
<1> QED  BY <1>1, <1>2, <1>3

\* The answer to READDIR of a folder with the names v behind pos, and what is left there
LEMMA BatchIs ==
  ASSUME NEW v, NEW pos, Run(v, pos, Entries), v # <<>>
  PROVE  \A a, b : a = Slice(v, 0, Batch) /\ b = SubSeq(v, Batch + 1, Len(v)) =>
           /\ Run(a, pos, Entries) /\ a # <<>>
           /\ Run(b, a[Len(a)], Entries)
           /\ a[Len(a)] = pos + Len(a) /\ Len(a) + Len(b) = Len(v) /\ Len(a) \in Nat /\ Len(b) \in Nat
<1> TAKE a, b
<1>a. HAVE a = Slice(v, 0, Batch) /\ b = SubSeq(v, Batch + 1, Len(v))
<1>0. Entries \in Nat /\ Batch \in Nat \ {0}  BY SftpAssumption
<1>1. IsSeq(v) /\ pos \in Nat /\ pos + Len(v) <= Entries  BY DEF Run
<1>2. PICK l : l = Len(v)  OBVIOUS
<1>3. l \in Nat \ {0}  BY <1>1, <1>2, LenIs
<1>4. PICK k : k = Least(0 + Batch, l)  OBVIOUS
<1>5. /\ k \in Nat \ {0} /\ k <= l
      /\ k = Batch \/ (k = l /\ Batch >= l)
  BY <1>0, <1>3, <1>4 DEF Least
<1>6. PICK q : q = pos + k  OBVIOUS
<1>7. q \in Nat /\ q + (l - k) <= Entries  BY <1>0, <1>1, <1>2, <1>3, <1>5, <1>6
<1>8. IsSeq(a) /\ Len(a) = k /\ Run(a, pos, Entries)
  <2>1. a = SubSeq(v, 0 + 1, k)  BY <1>a, <1>2, <1>4 DEF Slice
  <2>2. 0 \in Nat /\ 0 <= k /\ k <= Len(v) /\ pos + 0 = pos /\ k - 0 = k  BY <1>1, <1>2, <1>5
  <2>3. /\ IsSeq(SubSeq(v, 0 + 1, k)) /\ Len(SubSeq(v, 0 + 1, k)) = k - 0
        /\ Run(SubSeq(v, 0 + 1, k), pos + 0, Entries)
    BY <1>0, <1>5, <2>2, RunPart
  <2> QED  BY <2>1, <2>2, <2>3
<1>9. a # <<>>  BY <1>5, <1>8, LenIs
<1>10. a[Len(a)] = q
  <2>1. k \in 1 .. Len(a)  BY <1>5, <1>8
  <2> QED  BY <1>6, <1>8, <2>1 DEF Run
<1>11. IsSeq(b) /\ Len(b) = l - k /\ Run(b, q, Entries)
  <2>1. CASE k = Batch
    <3>1. l <= Len(v)  BY <1>2, <1>3
    <3>2. /\ IsSeq(SubSeq(v, k + 1, l)) /\ Len(SubSeq(v, k + 1, l)) = l - k
          /\ Run(SubSeq(v, k + 1, l), pos + k, Entries)
      BY <1>0, <1>3, <1>5, <3>1, RunPart
    <3> QED  BY <1>a, <1>2, <1>6, <2>1, <3>2
  <2>2. CASE k = l /\ Batch >= l
    <3>1. PICK m : m = Batch + 1  OBVIOUS
    <3>2. m \in Nat \ {0} /\ l \in 0 .. Len(v) /\ ~(m <= l)  BY <1>0, <1>2, <1>3, <2>2, <3>1
    <3>3. IsSeq(b) /\ Len(b) = 0  BY <1>a, <1>1, <1>2, <3>1, <3>2, SubSeqIs
    <3>4. l - k = 0  BY <1>3, <2>2
    <3>5. \A i \in 1 .. Len(b) : b[i] = q + i  BY <3>3
    <3>6. q + Len(b) <= Entries  BY <1>7, <3>3, <3>4
    <3> QED  BY <1>7, <3>3, <3>4, <3>5, <3>6 DEF Run
  <2> QED  BY <1>5, <2>1, <2>2
<1>12. Len(a) + Len(b) = Len(v) /\ Len(a) \in Nat /\ Len(b) \in Nat
  BY <1>2, <1>3, <1>5, <1>8, <1>11
<1>13. a[Len(a)] = pos + Len(a)  BY <1>6, <1>8, <1>10
<1> QED  BY <1>8, <1>9, <1>10, <1>11, <1>12, <1>13

\* What a program that lists begins with
LEMMA ListerInitial == Init /\ ~use.writes => ListerInv
<1> SUFFICES ASSUME Init, ~use.writes  PROVE ListerInv
  OBVIOUS
<1>1. /\ reqs = <<>> /\ resps = <<>> /\ up = TRUE /\ srv.pc = "reading" /\ expecting = <<>>
      /\ user.pc = "idle" /\ user.call = "none" /\ user.failed = FALSE
      /\ \A t \in Threads : threads[t].pc = "unused"
  BY DEF Init
<1>2. Len(reqs) = 0 /\ Len(resps) = 0 /\ DOMAIN expecting = {}
  BY <1>1, EmptyIs, LenIs
<1>3. ~Awaiting /\ ~InFolder /\ ~Answering /\ "none" \notin Listers  BY <1>1 DEF Awaiting, InFolder, Answering, Listers
<1>4. NamesInOrder  BY <1>3 DEF NamesInOrder
<1>5. LastOnTheWay  BY <1>1, <1>2, <1>3 DEF LastOnTheWay, Awaits, Quiet
<1>6. ListerOnTheWay  BY <1>2, <1>3 DEF ListerOnTheWay
<1>7. ListerUser  BY <1>1, <1>2, <1>3 DEF ListerUser
<1> QED  BY <1>4, <1>5, <1>6, <1>7 DEF ListerInv

\* The words for calls and requests that a program that lists uses are different.
LEMMA ListWords ==
  /\ Listers \cap Paths = {} /\ "none" \notin ListCalls
  /\ {"opendir", "readdir", "close", "open", "read", "write", "fstat", "fsetstat"} \cap Paths = {}
  /\ {"open", "read", "write", "readv", "seek", "fstat", "fsetstat", "prefetch", "close"} \cap ListCalls = {}
BY DEF ListCalls, Listers, Paths, ChangesPath, ReadsPath, SetsPath, NamesPath

\* A step of the program that leaves the channel and the server alone, and waits for nothing
LEMMA ListerStill ==
  ASSUME Packets, ListerInv, UNCHANGED <<reqs, resps, up, srv, folders>>, ~Awaiting \/ ~up, ~Awaiting',
         InFolder' => InFolder /\ user'.got = user.got /\ user'.from = user.from,
         up /\ (user'.pc = "idle" \/ (user'.pc \in {"acquire", "send"} /\ OneByOne')) => Quiet,
         ListerUser'
  PROVE  ListerInv'
<1>1. NamesInOrder /\ LastOnTheWay  BY DEF ListerInv
<1>2. NamesInOrder'
  <2>1. Answering' = Answering  BY DEF Answering
  <2>2. ASSUME InFolder'  PROVE ServerPosition' = ServerPosition /\ \A i : Position(i)' = Position(i)
    BY <2>1, <2>2 DEF ServerPosition, Position, LastName
  <2> QED  BY <1>1, <2>1, <2>2, SMTT(20) DEF NamesInOrder, Names, Says, Run
<1>3. \A i \in 1 .. Len(reqs) : reqs[i].t # "close"
  <2>1. ASSUME ~up  PROVE Len(reqs) = 0  BY <1>1, <2>1, EmptyIs DEF LastOnTheWay
  <2>2. ASSUME ~Awaiting  PROVE \A i \in 1 .. Len(reqs) : reqs[i].t # "close"
    BY <1>1, <2>2 DEF LastOnTheWay, Awaits
  <2> QED  BY <2>1, <2>2
<1>4. LastOnTheWay'
  <2>1. Quiet' = Quiet  BY DEF Quiet, Answering
  <2>2. ~up => reqs = <<>>  BY <1>1 DEF LastOnTheWay
  <2>3. \A n : ~Awaits(n)'  BY DEF Awaits
  <2> QED  BY <1>3, <2>1, <2>2, <2>3 DEF LastOnTheWay
<1>5. ListerOnTheWay'  BY DEF ListerOnTheWay, ListerAnswer, Awaits
<1> QED  BY <1>2, <1>4, <1>5 DEF ListerInv

\* A call begins with nothing on the way.
LEMMA ListerCall ==
  ASSUME Common, Lists, ListerInv, Call
  PROVE  ListerInv'
<1>0. DOMAIN user = UserFields /\ Packets  BY DEF Common, Shapes
<1>1. ListerUser /\ LastOnTheWay /\ use.calls \subseteq ListCalls  BY DEF ListerInv, Lists
<1>2. PICK c : /\ MayCall(c) /\ c \in ListCalls
               /\ \/ c \in Paths /\ user' = Ask(Begin(c), Request(c, 0, 0, 0))
                  \/ c \in Listers /\ user' = Ask(Begin(c), Request("opendir", 0, 0, 0))
               /\ UNCHANGED <<use, channelVars, serverVars, clientVars, file, threads>>
  <2>1. ASSUME NEW t, CallPath(t), t \in ChangesPath \cup ReadsPath \cup SetsPath \cup NamesPath
        PROVE  /\ MayCall(t) /\ t \in ListCalls /\ t \in Paths
               /\ user' = Ask(Begin(t), Request(t, 0, 0, 0))
               /\ UNCHANGED <<use, channelVars, serverVars, clientVars, file, threads>>
    BY <2>1 DEF CallPath, ListCalls, Paths
  <2>2. ASSUME NEW c \in {"list", "listiter"}, CallList(c)
        PROVE  /\ MayCall(c) /\ c \in ListCalls /\ c \in Listers
               /\ user' = Ask(Begin(c), Request("opendir", 0, 0, 0))
               /\ UNCHANGED <<use, channelVars, serverVars, clientVars, file, threads>>
    BY <2>2 DEF CallList, ListCalls, Listers
  <2>3. ASSUME NEW c, MayCall(c)  PROVE c \in ListCalls  BY <1>1, <2>3 DEF MayCall
  <2>4. ~CallOpen /\ ~CallClose  BY <2>3, ListWords DEF CallOpen, CallClose
  <2>5. \A t \in {"fstat", "fsetstat"} : ~CallFile(t)  BY <2>3, ListWords DEF CallFile
  <2>6. \A n : ~CallRead(n) /\ ~CallWrite(n)  BY <2>3, ListWords DEF CallRead, CallWrite
  <2>7. \A off : ~CallSeek(off) /\ \A n : ~CallReadv(off, n)  BY <2>3, ListWords DEF CallSeek, CallReadv
  <2>8. \A e : ~CallPrefetch(e)  BY <2>3, ListWords DEF CallPrefetch
  <2>9. \/ \E t \in ChangesPath \cup ReadsPath \cup SetsPath \cup NamesPath : CallPath(t)
        \/ \E c \in {"list", "listiter"} : CallList(c)
    BY <2>4, <2>5, <2>6, <2>7, <2>8 DEF Call
  <2> QED  BY <2>1, <2>2, <2>9
<1>3. /\ user.pc = "idle"
      /\ user'.pc = "acquire" /\ user'.call = c /\ user'.got = <<>>
      /\ user'.req.t = IF c \in Paths THEN c ELSE "opendir"
  <2>1. PICK t : t = IF c \in Paths THEN c ELSE "opendir"  OBVIOUS
  <2>2. user' = Ask(Begin(c), Request(t, 0, 0, 0))  BY <1>2, <2>1, ListWords
  <2>3. user.pc = "idle"  BY <1>2 DEF MayCall
  <2>4. /\ user'.pc = "acquire" /\ user'.call = c /\ user'.got = <<>> /\ user'.req.t = t
    BY <1>0, <2>2 DEF Ask, Begin, Request, UserFields
  <2> QED  BY <2>1, <2>3, <2>4
<1>4. UNCHANGED <<reqs, resps, up, srv, folders, expecting, threads>>
  BY <1>2 DEF channelVars, serverVars, clientVars
<1>5. ~Awaiting /\ ~Awaiting'  BY <1>3 DEF Awaiting
<1>6. ~InFolder'  BY <1>2, <1>3, ListWords DEF InFolder
<1>7. up => Quiet  BY <1>1, <1>3 DEF LastOnTheWay
<1>8. ListerUser'
  <2>1. /\ user'.pc \in {"idle", "acquire", "send", "wait", "raw"} /\ user'.pc \notin {"raw", "wait", "idle"}
        /\ user'.call \in ListCalls
    BY <1>2, <1>3
  <2>2. user'.call \in Paths => user'.req.t = user'.call  BY <1>3
  <2>3. user'.call \in Listers => user'.req.t = "opendir" /\ user'.got = <<>>  BY <1>3, ListWords
  <2>4. /\ \A n \in DOMAIN expecting' : expecting'[n] = "sync"
        /\ \A t \in Threads : threads'[t].pc = "unused"
    BY <1>1, <1>4 DEF ListerUser
  <2> QED  BY <2>1, <2>2, <2>3, <2>4 DEF ListerUser
<1> QED  BY <1>0, <1>3, <1>4, <1>5, <1>6, <1>7, <1>8, ListerStill

\* The lock is taken, or the connection is lost.
LEMMA ListerPlain ==
  ASSUME Common, ListerInv, AcquireLock \/ SendFails \/ ReadFails \/ RawFails
  PROVE  ListerInv'
<1>0. DOMAIN user = UserFields /\ Packets  BY DEF Common, Shapes
<1>1. ListerUser /\ LastOnTheWay  BY DEF ListerInv
<1>2. UNCHANGED <<use, reqs, resps, up, srv, folders, threads>>
  BY DEF AcquireLock, SendFails, ReadFails, RawFails, channelVars, serverVars, clientVars
<1>3. \A n \in DOMAIN expecting' : expecting'[n] = "sync"
  <2>1. expecting' = expecting \/ expecting' = Put(expecting, number, "sync")
    BY DEF AcquireLock, SendFails, ReadFails, RawFails, clientVars
  <2> QED  BY <1>1, <2>1 DEF ListerUser, Put
<1> USE DEF UserFields
<1>4. CASE AcquireLock
  <2>1. /\ user.pc = "acquire" /\ user'.pc = "send"
        /\ \A x \in UserFields \ {"pc"} : user'[x] = user[x]
    BY <1>0, <1>4 DEF AcquireLock
  <2>2. /\ user'.call = user.call /\ user'.got = user.got /\ user'.req = user.req
        /\ user'.from = user.from /\ user'.failed = user.failed
    BY <2>1
  <2>3. ~Awaiting /\ ~Awaiting' /\ (InFolder' => InFolder) /\ OneByOne' = OneByOne
    BY <2>1, <2>2 DEF Awaiting, InFolder, OneByOne
  <2>4. up /\ OneByOne => Quiet  BY <1>1, <2>1 DEF LastOnTheWay
  <2>5. ListerUser'  BY <1>1, <1>2, <1>3, <2>1, <2>2 DEF ListerUser
  <2> QED  BY <1>0, <1>2, <2>1, <2>2, <2>3, <2>4, <2>5, ListerStill
<1>5. CASE user' = Raise(user) /\ (SendFails \/ ReadFails)
  <2>1. user.pc # "idle" /\ ~up  BY <1>5 DEF SendFails, ReadFails
  <2>2. user' = Raise(user)  BY <1>5
  <2>3. user'.pc = "idle" /\ user'.failed = TRUE /\ user'.call = user.call
    BY <1>0, <2>2 DEF Raise
  <2>4. ~Awaiting' /\ ~InFolder'  BY <2>3 DEF Awaiting, InFolder
  <2>5. ListerUser'  BY <1>1, <1>2, <1>3, <2>1, <2>3 DEF ListerUser
  <2> QED  BY <1>0, <1>2, <2>1, <2>4, <2>5, ListerStill
<1>6. ASSUME user' = Ask(user, Request("close", user.from, 0, 0)), ~up, user.call \in Listers
      PROVE  ListerInv'
  <2>1. user' = Ask(user, Request("close", user.from, 0, 0)) /\ ~up  BY <1>6
  <2>2. /\ user'.pc = "acquire" /\ user'.call = user.call /\ user'.from = user.from
        /\ user'.req.t = "close" /\ user'.req.h = user.from
    BY <1>0, <2>1 DEF Ask, Request
  <2>4. ~Awaiting' /\ ~InFolder'  BY <2>2 DEF Awaiting, InFolder
  <2>5. ListerUser'
    <3>1. user.call \notin Paths /\ user.call \in Listers /\ user.call \in ListCalls
      BY <1>6, ListWords DEF ListCalls
    <3>2. ~up'  BY <1>2, <2>1
    <3>3. \A t \in Threads : threads'[t].pc = "unused"  BY <1>1, <1>2 DEF ListerUser
    <3> QED  BY <1>3, <2>2, <3>1, <3>2, <3>3 DEF ListerUser
  <2> QED  BY <1>0, <1>2, <2>1, <2>4, <2>5, ListerStill
<1>7. CASE SendFails \/ ReadFails
  <2>1. user.call # "close" /\ user.call # "read"
    <3>1. "close" \notin ListCalls \cup {"none"} /\ "read" \notin ListCalls \cup {"none"}  BY ListWords
    <3> QED  BY <1>1, <3>1 DEF ListerUser
  <2>2. user.pc # "idle" /\ ~up  BY <1>7 DEF SendFails, ReadFails
  <2>3. user.req.t = "readdir" => user.call \in Listers
    <3>1. "readdir" \notin Paths  BY ListWords
    <3>2. user.call # "none"
      BY <2>2 DEF Common, Asked, Requesting, Paths, ChangesPath, ReadsPath, SetsPath, NamesPath
    <3> QED  BY <1>1, <2>2, <3>1, <3>2 DEF ListerUser, ListCalls
  <2>4. \/ user' = Raise(user)
        \/ user.req.t = "readdir" /\ user' = Ask(user, Request("close", user.from, 0, 0))
    BY <1>7, <2>1 DEF SendFails, ReadFails, EndOfFile
  <2> QED  BY <1>5, <1>6, <1>7, <2>2, <2>3, <2>4
<1>8. CASE RawFails
  <2>1. user.pc = "raw" /\ ~up /\ user' = Ask(user, Request("close", user.from, 0, 0))
    BY <1>8 DEF RawFails
  <2>2. user.call \in Listers  BY <1>1, <2>1 DEF ListerUser, Listers
  <2> QED  BY <1>6, <2>1, <2>2
<1> QED  BY <1>4, <1>7, <1>8

\* The names that are on their way stay so when the user sends.
LEMMA NamesStill ==
  ASSUME NamesInOrder, UNCHANGED <<resps, srv, folders, up>>,
         InFolder' => /\ InFolder /\ user'.got = user.got /\ user'.from = user.from
                      /\ \A i \in 1 .. Len(reqs') : reqs'[i].t = "readdir" /\ reqs'[i].h = user.from
  PROVE  NamesInOrder'
<1>1. Answering' = Answering  BY DEF Answering
<1>2. ASSUME InFolder'  PROVE ServerPosition' = ServerPosition /\ \A i : Position(i)' = Position(i)
  BY <1>1, <1>2 DEF ServerPosition, Position, LastName
<1> QED  BY <1>1, <1>2, SMTT(20) DEF NamesInOrder, Names, Says, Run

\* What a program that lists sends comes last, and only listdir_iter sends more
\* than it has had answers to.
LEMMA ListerSends ==
  ASSUME Common, ListerInv, SendRequest
  PROVE  ListerInv'
<1>0. DOMAIN user = UserFields /\ Packets /\ Asked  BY DEF Common, Shapes
<1>1. ListerUser /\ LastOnTheWay /\ NamesInOrder  BY DEF ListerInv
<1>2. user.pc = "send" /\ Transmit(user.req, "sync") /\ UNCHANGED <<use, serverVars, threads>>
  BY DEF SendRequest
<1>3. IsSeq(reqs)  BY <1>0 DEF Packets
<1>4. PICK r :
        /\ IsSeq(reqs') /\ Len(reqs) \in Nat /\ Len(reqs') = Len(reqs) + 1
        /\ \A i \in 1 .. Len(reqs) : reqs'[i] = reqs[i]
        /\ reqs'[Len(reqs) + 1] = r
        /\ r.num = number /\ r.t = user.req.t /\ r.h = user.req.h /\ r.off = user.req.off
        /\ r.arg = user.req.arg
        /\ up /\ UNCHANGED <<resps, up>>
  <2> HIDE DEF Transmit
  <2> QED  BY <1>2, <1>3, TransmitIs
<1>5. \A i \in 1 .. Len(reqs') : (i \in 1 .. Len(reqs) /\ reqs'[i] = reqs[i]) \/ (i = Len(reqs') /\ reqs'[i] = r)
  BY <1>4
<1>6. UNCHANGED <<use, srv, folders, resps, up, threads>>  BY <1>2, <1>4 DEF serverVars
<1>7. expecting' = Put(expecting, number, "sync")  BY <1>2 DEF Transmit
<1>8. /\ \A n \in DOMAIN expecting' : expecting'[n] = "sync"
      /\ number \in DOMAIN expecting'
  BY <1>1, <1>7 DEF ListerUser, Put
<1>9. ~Awaiting /\ \A i \in 1 .. Len(reqs) : reqs[i].t # "close"
  BY <1>1, <1>2 DEF Awaiting, LastOnTheWay, Awaits
<1>10. user.call \in ListCalls /\ user.call \notin {"write", "close", "none"}
  BY <1>0, <1>1, <1>2, ListWords DEF ListerUser, ListCalls, Asked, Requesting
<1>11. \/ /\ user.call = "listiter" /\ user.req.t = "readdir"
          /\ user' = [user EXCEPT !.nums = Append(@, number),
                        !.pc = IF Len(user.nums) + 1 < ReadAheads THEN "acquire" ELSE "raw"]
       \/ /\ ~(user.call = "listiter" /\ user.req.t = "readdir")
          /\ user' = [user EXCEPT !.pc = "wait", !.wait = number]
  BY <1>10 DEF SendRequest
<1>12. /\ user'.pc \in {"acquire", "raw", "wait"}
       /\ user'.call = user.call /\ user'.got = user.got /\ user'.req = user.req
       /\ user'.from = user.from /\ user'.failed = user.failed
  BY <1>0, <1>11 DEF UserFields
<1>13. NamesInOrder'
  <2>1. ASSUME InFolder'
        PROVE  InFolder /\ \A i \in 1 .. Len(reqs') : reqs'[i].t = "readdir" /\ reqs'[i].h = user.from
    <3>1. InFolder /\ user.req.t = "readdir" /\ user.call \in Listers  BY <1>2, <1>12, <2>1 DEF InFolder
    <3>2. user.req.h = user.from  BY <1>1, <1>2, <3>1 DEF ListerUser
    <3>3. \A i \in 1 .. Len(reqs) : reqs[i].t = "readdir" /\ reqs[i].h = user.from
      BY <1>1, <1>4, <3>1 DEF NamesInOrder
    <3> QED  BY <1>4, <1>5, <3>1, <3>2, <3>3
  <2> QED  BY <1>1, <1>6, <1>12, <2>1, NamesStill
<1>14. \A t \in Threads : threads'[t].pc = "unused"  BY <1>1, <1>6 DEF ListerUser
<1>15. ASSUME user.req.t = "close", user.call \in Listers
       PROVE  user.got = Listing /\ user.from \in DOMAIN folders
  BY <1>1, <1>2, <1>4, <1>15 DEF ListerUser
<1>16. CASE /\ user.call = "listiter" /\ user.req.t = "readdir" /\ user'.pc \in {"acquire", "raw"}
  <2>1. ~Awaiting' /\ ~OneByOne'  BY <1>12, <1>16 DEF Awaiting, OneByOne
  <2>2. LastOnTheWay'
    <3>1. \A i \in 1 .. Len(reqs') : reqs'[i].t # "close"  BY <1>4, <1>5, <1>9, <1>16
    <3> QED  BY <1>4, <1>16, <2>1, <3>1 DEF LastOnTheWay, Awaits
  <2>3. ListerOnTheWay'  BY <2>1 DEF ListerOnTheWay, ListerAnswer, Awaits
  <2>4. ListerUser'
    <3>1. user.call \notin Paths /\ user.call \in Listers
      BY <1>16 DEF Listers, Paths, ChangesPath, ReadsPath, SetsPath, NamesPath
    <3>2. user.req.h = user.from  BY <1>1, <1>2, <1>16, <3>1 DEF ListerUser
    <3> QED  BY <1>8, <1>10, <1>12, <1>14, <1>16, <3>1, <3>2 DEF ListerUser
  <2> QED  BY <1>13, <2>2, <2>3, <2>4 DEF ListerInv
<1>17. CASE ~(user.call = "listiter" /\ user.req.t = "readdir") /\ user'.pc = "wait" /\ user'.wait = number
  <2> DEFINE New(q) == q.t = user'.req.t /\ q.h = user'.req.h /\ q.off = user'.req.off /\ q.arg = user'.req.arg
  <2>1. PICK k : k = number  OBVIOUS
  <2>2. Awaiting' /\ user'.wait = k  BY <1>17, <2>1 DEF Awaiting
  <2>3. \A n : Numbered(n) => n # k  BY <1>0, <2>1 DEF Packets, Numbered
  <2>4. /\ \A i \in 1 .. Len(reqs) : reqs[i].num # k
        /\ \A i \in 1 .. Len(resps) : resps[i].num # k
        /\ Answering => srv.msg.num # k
    BY <1>0, <2>3 DEF Packets
  <2>5. Answering' = Answering  BY <1>6 DEF Answering
  <2>6. OneByOne' => Quiet
    <3>1. OneByOne' = OneByOne  BY <1>12 DEF OneByOne
    <3> QED  BY <1>1, <1>2, <1>4, <3>1 DEF LastOnTheWay
  <2>7. LastOnTheWay'
    <3>1. k \in DOMAIN expecting'  BY <1>8, <2>1
    <3>2. \A i \in 1 .. Len(reqs') : reqs'[i].num = k => i = Len(reqs') /\ New(reqs'[i])
      BY <1>4, <1>5, <1>12, <2>4
    <3>3. ASSUME OneByOne'
          PROVE  /\ \A i \in 1 .. Len(reqs') : reqs'[i].num = k
                 /\ ~Answering' /\ Len(resps') = 0
      <4>1. reqs = <<>> /\ resps = <<>> /\ ~Answering  BY <2>6, <3>3 DEF Quiet
      <4>2. Len(reqs) = 0 /\ Len(resps) = 0  BY <4>1, EmptyIs
      <4> QED  BY <1>4, <1>5, <1>6, <2>1, <2>5, <4>1, <4>2
    <3>4. \A i \in 1 .. Len(reqs') : reqs'[i].t = "close" => reqs'[i].num = k
      BY <1>4, <1>5, <1>9, <2>1
    <3>5. /\ \A i \in 1 .. Len(resps') : resps'[i].num # k
          /\ Answering' => srv'.msg.num # k
      BY <1>6, <2>4, <2>5
    <3>6. user'.pc \notin {"idle", "acquire", "send"} /\ up'  BY <1>4, <1>6, <1>17
    <3> HIDE DEF New
    <3>7. ASSUME NEW n, n = k
          PROVE  /\ n \in DOMAIN expecting'
                 /\ \A i \in 1 .. Len(reqs') : reqs'[i].num = n => i = Len(reqs') /\ New(reqs'[i])
                 /\ ~(Answering' /\ srv'.msg.num = n)
                 /\ \A i \in 1 .. Len(resps') : resps'[i].num # n
                 /\ OneByOne' =>
                      /\ \A i \in 1 .. Len(reqs') : reqs'[i].num = n
                      /\ ~Answering'
                      /\ \A i \in 1 .. Len(resps') : resps'[i].num = n
      BY <3>1, <3>2, <3>3, <3>5, <3>7
    <3>8. \A n : Awaits(n)' <=> n = k  BY <2>2 DEF Awaits
    <3> QED  BY <2>2, <3>4, <3>6, <3>7, <3>8 DEF LastOnTheWay, Awaits, Made, New
  <2>8. ListerOnTheWay'
    <3>1. /\ \A i \in 1 .. Len(resps') : resps'[i].num # user'.wait
          /\ Answering' => srv'.msg.num # user'.wait
      BY <1>6, <2>2, <2>4, <2>5
    <3> QED  BY <3>1 DEF ListerOnTheWay, ListerAnswer, Awaits
  <2>9. ListerUser'
    <3>1. user.call \in Paths => user.req.t = user.call  BY <1>1, <1>2 DEF ListerUser
    <3>2. user.call \in Listers =>
            /\ user.req.t \in {"opendir", "readdir", "close"}
            /\ user.req.t = "opendir" => user.got = <<>>
            /\ user.req.t # "opendir" => user.req.h = user.from
      BY <1>1, <1>2 DEF ListerUser
    <3>3. folders' = folders  BY <1>6
    <3> QED  BY <1>8, <1>10, <1>12, <1>14, <1>15, <1>17, <3>1, <3>2, <3>3 DEF ListerUser
  <2> QED  BY <1>13, <2>7, <2>8, <2>9 DEF ListerInv
<1>18. \/ user.call = "listiter" /\ user.req.t = "readdir" /\ user'.pc \in {"acquire", "raw"}
       \/ ~(user.call = "listiter" /\ user.req.t = "readdir") /\ user'.pc = "wait" /\ user'.wait = number
  BY <1>0, <1>11 DEF UserFields
<1> QED  BY <1>16, <1>17, <1>18

\* With nothing on the way, the server has the rest of the names.
LEMMA ListerQuiet ==
  ASSUME reqs' = <<>>, resps' = <<>>, up' => ~Answering', ~Awaiting', ListerUser',
         InFolder' =>
           /\ Run(user'.got, 0, Entries)
           /\ up' => /\ user'.from \in DOMAIN folders'
                     /\ Run(folders'[user'.from], Len(user'.got), Entries)
                     /\ Len(user'.got) + Len(folders'[user'.from]) = Entries
  PROVE  ListerInv'
<1>1. Len(reqs') = 0 /\ Len(resps') = 0  BY EmptyIs
<1>2. up' => ServerPosition' = Len(user'.got)  BY <1>1 DEF ServerPosition, Position
<1>3. NamesInOrder'
  <2>1. /\ \A i \in 1 .. Len(resps') : Names(resps[i], Position(i - 1))'
        /\ \A i \in 1 .. Len(reqs') : FALSE
    BY <1>1
  <2>2. ASSUME InFolder', up'
        PROVE  /\ Run(folders'[user'.from], ServerPosition', Entries)
               /\ ServerPosition' + Len(folders'[user'.from]) = Entries
    BY <1>2, <2>2 DEF Run
  <2> HIDE DEF Answering, InFolder, Run
  <2> QED  BY <2>1, <2>2 DEF NamesInOrder
<1>4. LastOnTheWay'
  <2>1. \A n : ~Awaits(n)'  BY DEF Awaits
  <2> HIDE DEF Answering, Awaits
  <2> QED  BY <1>1, <2>1 DEF LastOnTheWay, Quiet
<1>5. ListerOnTheWay'  BY DEF ListerOnTheWay, ListerAnswer, Awaits
<1> QED  BY <1>3, <1>4, <1>5 DEF ListerInv

\* The names of a response, behind those that the user has
LEMMA NamesFollow ==
  ASSUME NEW got, Run(got, 0, Entries), NEW m, m.t = "name", Names(m, Len(got)), NEW g, g = got \o m.v
  PROVE  Run(g, 0, Entries) /\ Len(g) = LastName(m)
<1>1. Entries \in Nat  BY SftpAssumption
<1>2. m.v # <<>> /\ Run(m.v, Len(got), Entries)  BY DEF Names, Says
<1>3. PICK d : d = m.v  OBVIOUS
<1>4. PICK k : k = Len(got)  OBVIOUS
<1>5. IsSeq(got) /\ IsSeq(d) /\ k \in Nat  BY <1>2, <1>3, <1>4, LenIs DEF Run
<1>6. Run(d, 0 + Len(got), Entries)
  <2>1. 0 + Len(got) = Len(got)  BY <1>4, <1>5
  <2> QED  BY <1>2, <1>3, <2>1
<1>7. Run(got \o d, 0, Entries) /\ Len(got \o d) = Len(got) + Len(d)  BY <1>1, <1>6, RunJoin
<1>8. Len(d) \in Nat \ {0}  BY <1>2, <1>3, <1>5, LenIs
<1>9. d[Len(d)] = k + Len(d)
  <2>1. Len(d) \in 1 .. Len(d)  BY <1>8
  <2> QED  BY <1>2, <1>3, <1>4, <2>1 DEF Run
<1>10. LastName(m) = d[Len(d)]  BY <1>3 DEF LastName
<1> QED  BY <1>3, <1>4, <1>7, <1>9, <1>10

\* A response that the user does not wait for: listdir_iter has left it on the channel.
LEMMA ListerPasses ==
  ASSUME Common, ListerInv, user.pc = "wait", resps # <<>>, resps' = Tail(resps),
         UNCHANGED <<use, reqs, up, srv, folders, threads, user>>,
         Head(resps).num # user.wait,
         expecting' = [n \in DOMAIN expecting \ {Head(resps).num} |-> expecting[n]]
  PROVE  ListerInv'
<1>1. ListerUser /\ LastOnTheWay /\ ListerOnTheWay /\ Packets  BY DEF ListerInv, Common
<1>2. IsSeq(resps)  BY <1>1 DEF Packets
<1>3. /\ Len(resps) \in Nat \ {0} /\ Len(resps') = Len(resps) - 1 /\ Head(resps) = resps[1]
      /\ 1 \in 1 .. Len(resps)
      /\ \A i \in 1 .. Len(resps') : resps'[i] = resps[i + 1] /\ i + 1 \in 1 .. Len(resps)
  BY <1>2, TakenIs
<1>4. \A i \in 1 .. Len(resps') : i + 1 = Len(resps) => i = Len(resps')
  <2>1. \A a \in Nat : \A b : b = a - 1 => \A i \in 1 .. b : i + 1 = a => i = b  OBVIOUS
  <2>2. \A b : b = Len(resps) - 1 => \A i \in 1 .. b : i + 1 = Len(resps) => i = b  BY <1>3, <2>1
  <2> QED  BY <1>3, <2>2
<1>5. Awaiting /\ Awaiting'  BY DEF Awaiting
<1>6. PICK w : w = user.wait  OBVIOUS
<1>7. /\ w \in DOMAIN expecting
      /\ \A i \in 1 .. Len(resps) : resps[i].num = w => i = Len(resps) /\ (up => ~Answering /\ reqs = <<>>)
      /\ ~OneByOne
  <2>1. Awaits(w)  BY <1>5, <1>6 DEF Awaits
  <2>2. /\ w \in DOMAIN expecting
        /\ \A i \in 1 .. Len(resps) : resps[i].num = w => i = Len(resps) /\ (up => ~Answering /\ reqs = <<>>)
        /\ OneByOne => \A i \in 1 .. Len(resps) : resps[i].num = w
    BY <1>1, <2>1 DEF LastOnTheWay
  <2>3. resps[1].num # w  BY <1>3, <1>6
  <2> QED  BY <1>3, <2>2, <2>3
<1>8. ~InFolder'
  <2>1. user.call = "listiter" /\ user.req.t # "opendir"  BY <1>7 DEF OneByOne
  <2>2. user.req.t # "readdir"  BY <1>1, <2>1 DEF ListerUser
  <2> QED  BY <2>2 DEF InFolder
<1>9. NamesInOrder'  BY <1>8 DEF NamesInOrder
<1>10. LastOnTheWay'
  <2>1. w \in DOMAIN expecting'  BY <1>3, <1>6, <1>7
  <2>2. Answering' = Answering /\ OneByOne' = OneByOne  BY DEF Answering, OneByOne
  <2>3. \A i \in 1 .. Len(resps') :
          resps'[i].num = w => i = Len(resps') /\ (up => ~Answering /\ reqs = <<>>)
    BY <1>3, <1>4, <1>7
  <2> HIDE DEF Answering, OneByOne
  <2>4. /\ \A i \in 1 .. Len(reqs) : reqs[i].num = w => i = Len(reqs) /\ Made(reqs[i])
        /\ Answering /\ srv.msg.num = w /\ up => reqs = <<>>
        /\ ~up => reqs = <<>>
        /\ \A i \in 1 .. Len(reqs) : reqs[i].t = "close" => reqs[i].num = w
    BY <1>1, <1>5, <1>6 DEF LastOnTheWay, Awaits
  <2>5. user'.pc = "wait" /\ user'.wait = w  BY <1>6
  <2> QED  BY <1>5, <1>7, <2>1, <2>2, <2>3, <2>4, <2>5 DEF LastOnTheWay, Awaits, Made
<1>11. ListerOnTheWay'
  <2>1. Answering' = Answering /\ Awaiting' = Awaiting  BY DEF Answering, Awaiting
  <2> QED  BY <1>1, <1>3, <2>1 DEF ListerOnTheWay, ListerAnswer, Awaits, Says
<1>12. ListerUser'
  <2>1. \A n \in DOMAIN expecting' : expecting'[n] = "sync"  BY <1>1 DEF ListerUser
  <2> QED  BY <1>1, <2>1 DEF ListerUser
<1> QED  BY <1>9, <1>10, <1>11, <1>12 DEF ListerInv

\* The response that the user waits for is the last packet of all.
LEMMA ListerAnswered ==
  ASSUME Common, ListerInv, user.pc = "wait", resps # <<>>, NEW m, m = Head(resps),
         m.num = user.wait
  PROVE  /\ Tail(resps) = <<>> /\ reqs = <<>> /\ (up => ~Answering)
         /\ ListerAnswer(m)
         /\ user.call \in Listers /\ user.req.t = "readdir" =>
              /\ Names(m, Len(user.got)) /\ Run(user.got, 0, Entries)
              /\ up => /\ user.from \in DOMAIN folders
                       /\ Run(folders[user.from], LastName(m), Entries)
                       /\ LastName(m) + Len(folders[user.from]) = Entries
<1>1. ListerUser /\ LastOnTheWay /\ ListerOnTheWay /\ NamesInOrder /\ Packets  BY DEF ListerInv, Common
<1>2. IsSeq(resps)  BY <1>1 DEF Packets
<1>3. PICK rest : rest = Tail(resps)  OBVIOUS
<1>4. /\ IsSeq(rest) /\ Len(resps) \in Nat \ {0} /\ Len(rest) = Len(resps) - 1 /\ Head(resps) = resps[1]
      /\ 1 \in 1 .. Len(resps)
  BY <1>2, <1>3, TakenIs
<1>5. m = resps[1]  BY <1>4
<1>6. Awaits(m.num)  BY DEF Awaits, Awaiting
<1>7. 1 = Len(resps) /\ (up => ~Answering /\ reqs = <<>>)
  <2> HIDE DEF Answering, Awaits
  <2> QED  BY <1>1, <1>4, <1>5, <1>6 DEF LastOnTheWay
<1>8. rest = <<>>
  <2>1. Len(rest) = 0
    <3>1. PICK n : n = Len(resps)  OBVIOUS
    <3>2. n = 1 /\ Len(rest) = n - 1  BY <1>4, <1>7, <3>1
    <3> QED  BY <3>2
  <2> QED  BY <1>4, <2>1, LenIs
<1>9. reqs = <<>>  BY <1>1, <1>7 DEF LastOnTheWay
<1>10. ListerAnswer(m)  BY <1>1, <1>4, <1>5 DEF ListerOnTheWay
<1>11. ASSUME user.call \in Listers, user.req.t = "readdir"
       PROVE  /\ Names(m, Len(user.got)) /\ Run(user.got, 0, Entries)
              /\ up => /\ user.from \in DOMAIN folders
                       /\ Run(folders[user.from], LastName(m), Entries)
                       /\ LastName(m) + Len(folders[user.from]) = Entries
  <2>1. InFolder  BY <1>11 DEF InFolder
  <2>2. Run(user.got, 0, Entries) /\ Names(resps[1], Position(1 - 1))  BY <1>1, <1>4, <2>1 DEF NamesInOrder
  <2>3. Position(1 - 1) = Len(user.got)  BY DEF Position
  <2>4. Names(m, Len(user.got))
    <3> HIDE DEF Names
    <3>1. PICK p : p = Position(1 - 1)  OBVIOUS
    <3> QED  BY <1>5, <2>2, <2>3
  <2>5. ASSUME up
        PROVE  /\ user.from \in DOMAIN folders
               /\ Run(folders[user.from], LastName(m), Entries)
               /\ LastName(m) + Len(folders[user.from]) = Entries
    <3>1. ServerPosition = Position(Len(resps))  BY <1>7, <2>5 DEF ServerPosition
    <3>2. Position(Len(resps)) = LastName(resps[Len(resps)])  BY <1>7 DEF Position
    <3>3. resps[Len(resps)] = m  BY <1>5, <1>7
    <3>4. ServerPosition = LastName(m)  BY <3>1, <3>2, <3>3
    <3> QED  BY <1>1, <2>1, <2>5, <3>4 DEF NamesInOrder
  <2> QED  BY <2>2, <2>4, <2>5
<1> QED  BY <1>3, <1>7, <1>8, <1>9, <1>10, <1>11

\* What the user does with the response that it waits for
LEMMA ListerResponse ==
  ASSUME Common, ListerInv, user.pc = "wait", resps # <<>>, resps' = Tail(resps),
         UNCHANGED <<use, reqs, up, srv, folders, threads>>,
         NEW m, m = Head(resps), m.num = user.wait, Response(m),
         \A n \in DOMAIN expecting' : expecting'[n] = "sync"
  PROVE  ListerInv'
<1>0. DOMAIN user = UserFields /\ Asked  BY DEF Common, Shapes
<1>1. ListerUser  BY DEF ListerInv
<1>2. PICK rest : rest = Tail(resps)  OBVIOUS
<1>3. /\ resps' = <<>> /\ reqs' = <<>> /\ (up => ~Answering)
      /\ ListerAnswer(m)
      /\ user.call \in Listers /\ user.req.t = "readdir" =>
           /\ Names(m, Len(user.got)) /\ Run(user.got, 0, Entries)
           /\ up => /\ user.from \in DOMAIN folders
                    /\ Run(folders[user.from], LastName(m), Entries)
                    /\ LastName(m) + Len(folders[user.from]) = Entries
  <2> HIDE DEF ListerAnswer, Names, Run, LastName, Answering
  <2>1. /\ Tail(resps) = <<>> /\ reqs = <<>> /\ (up => ~Answering)
        /\ ListerAnswer(m)
        /\ user.call \in Listers /\ user.req.t = "readdir" =>
             /\ Names(m, Len(user.got)) /\ Run(user.got, 0, Entries)
             /\ up => /\ user.from \in DOMAIN folders
                      /\ Run(folders[user.from], LastName(m), Entries)
                      /\ LastName(m) + Len(folders[user.from]) = Entries
    BY ListerAnswered
  <2> QED  BY <2>1
<1>4. up' => ~Answering'  BY <1>3 DEF Answering
<1>5. user.call \in Requesting  BY <1>0 DEF Asked
<1>6. user.call \in Listers \/ user.call \in Paths
  BY <1>1, <1>5, ListWords DEF ListerUser, ListCalls, Requesting
<1>7. ListerAnswer(m) /\ Awaits(m.num)  BY <1>3 DEF Awaits, Awaiting
<1>8. /\ user.req.t = "opendir" => m.t = "handle" /\ (up => m.v[1] \in DOMAIN folders /\ folders[m.v[1]] = Listing)
      /\ user.req.t = "close" => Says(m, {"ok"})
      /\ user.call \in Paths => ~Says(m, {"bad"}) /\ (Says(m, {"failure"}) => use.fails)
  <2> HIDE DEF Awaits, Says
  <2> QED  BY <1>7 DEF ListerAnswer
<1>9. ASSUME user.call \in Listers
      PROVE  /\ user.req.t \in {"opendir", "readdir", "close"}
             /\ user.req.t = "opendir" => user.got = <<>>
             /\ user.req.t # "opendir" => user.req.h = user.from
             /\ user.req.t = "close" => user.got = Listing
             /\ user.req.t = "readdir" => user.call = "list"
  BY <1>1, <1>9 DEF ListerUser, Listers
<1>10. \A t \in Threads : threads'[t].pc = "unused"  BY <1>1 DEF ListerUser
<1> DEFINE bad == Says(m, {"failure", "bad"})
           eof == Says(m, {"eof"})
<1>11. CASE user.call \in Paths
  <2>1. user.call \notin Listers /\ user.call \notin {"open", "read", "write", "close"}
    BY <1>11, ListWords
  <2>2. user'.pc = "idle" /\ user'.call = user.call /\ (user'.failed => use.fails)
    <3>1. \/ bad /\ user' = Raise(user)
          \/ ~bad /\ user' = Return([user EXCEPT !.got = m.v])
      <4> HIDE DEF Says
      <4>1. "list" \notin Paths /\ "listiter" \notin Paths  BY ListWords DEF Listers
      <4> QED  BY <1>5, <1>11, <2>1, <4>1, ResponseIs
    <3>2. bad => use.fails  BY <1>8, <1>11 DEF Says
    <3> HIDE DEF bad
    <3> QED  BY <1>0, <3>1, <3>2 DEF Raise, Return, UserFields
  <2>3. ~Awaiting' /\ ~InFolder'  BY <2>2 DEF Awaiting, InFolder
  <2>4. ListerUser'
    <3>1. user.call \in ListCalls  BY <1>11 DEF ListCalls
    <3> QED  BY <1>10, <2>1, <2>2, <3>1 DEF ListerUser
  <2> QED  BY <1>3, <1>4, <2>3, <2>4, ListerQuiet
<1>12. CASE user.call \in Listers
  <2>0. /\ user.call \notin Paths /\ user.call \notin {"open", "read", "write", "close", "fstat", "fsetstat"}
        /\ user.call \in {"list", "listiter"} /\ user.call \in ListCalls
    BY <1>12 DEF Listers, ListCalls, Paths, ChangesPath, ReadsPath, SetsPath, NamesPath
  <2>1. user.req.t = "readdir" => (m.t = "name" \/ eof)  BY <1>3, <1>12 DEF Names
  <2>2. ~bad  BY <1>8, <1>9, <1>12, <2>1 DEF Says
  <2>3. \/ m.t = "handle"
           /\ user' = Ask([user EXCEPT !.from = m.v[1]], Request("readdir", m.v[1], 0, 0))
        \/ m.t = "name" /\ user' = Ask([user EXCEPT !.got = @ \o m.v], user.req)
        \/ eof /\ user' = Ask(user, Request("close", user.from, 0, 0))
        \/ m.t \notin {"handle", "name"} /\ ~eof /\ user' = Return(user)
    <3> HIDE DEF Says
    <3> QED  BY <1>5, <2>0, <2>2, ResponseIs
  <2>4. CASE m.t = "handle" /\ user' = Ask([user EXCEPT !.from = m.v[1]], Request("readdir", m.v[1], 0, 0))
    <3>1. user.req.t = "opendir"  BY <1>8, <1>9, <1>12, <2>1, <2>4 DEF Says
    <3>2. PICK h : h = m.v[1]  OBVIOUS
    <3>3. /\ user'.pc = "acquire" /\ user'.call = user.call /\ user'.from = h /\ user'.got = user.got
          /\ user'.req.t = "readdir" /\ user'.req.h = h
      BY <1>0, <2>4, <3>2 DEF Ask, Request, UserFields
    <3>4. user.got = <<>> /\ (up => h \in DOMAIN folders /\ folders[h] = Listing)
      BY <1>8, <1>9, <1>12, <3>1, <3>2
    <3>5. ~Awaiting'  BY <3>3 DEF Awaiting
    <3>6. ListerUser'  BY <1>10, <1>12, <2>0, <3>3 DEF ListerUser
    <3>7. Entries \in Nat  BY SftpAssumption
    <3>8. PICK g : g = user'.got  OBVIOUS
    <3>9. IsSeq(g) /\ Len(g) = 0  BY <3>3, <3>4, <3>8, EmptyIs
    <3>10. Run(g, 0, Entries)  BY <3>7, <3>9 DEF Run
    <3>11. up' => /\ user'.from \in DOMAIN folders'
                  /\ Run(folders'[user'.from], Len(g), Entries)
                  /\ Len(g) + Len(folders'[user'.from]) = Entries
      <4>1. PICK l : l = Listing  OBVIOUS
      <4>2. Run(l, 0, Entries) /\ Len(l) = Entries  BY <4>1, ListingIs
      <4>3. 0 + Len(l) = Entries  BY <3>7, <4>2
      <4>4. up' => user'.from \in DOMAIN folders' /\ folders'[user'.from] = l  BY <3>3, <3>4, <4>1
      <4> QED  BY <3>9, <4>2, <4>3, <4>4
    <3> QED  BY <1>3, <1>4, <3>5, <3>6, <3>8, <3>10, <3>11, ListerQuiet
  <2>5. CASE m.t = "name" /\ user' = Ask([user EXCEPT !.got = @ \o m.v], user.req)
    <3>1. user.req.t = "readdir"  BY <1>8, <1>9, <1>12, <2>5 DEF Says
    <3>2. PICK g : g = user.got \o m.v  OBVIOUS
    <3>3. /\ user'.pc = "acquire" /\ user'.call = user.call /\ user'.from = user.from /\ user'.got = g
          /\ user'.req = user.req
      BY <1>0, <2>5, <3>2 DEF Ask, UserFields
    <3>4. ~Awaiting'  BY <3>3 DEF Awaiting
    <3>5. Run(g, 0, Entries) /\ Len(g) = LastName(m)
      <4> HIDE DEF Names, Run, LastName
      <4>1. PICK got : got = user.got  OBVIOUS
      <4>2. Run(got, 0, Entries) /\ Names(m, Len(got)) /\ m.t = "name" /\ g = got \o m.v
        BY <1>3, <1>12, <2>5, <3>1, <3>2, <4>1
      <4> QED  BY <4>2, NamesFollow
    <3>6. up => /\ user.from \in DOMAIN folders
                /\ Run(folders[user.from], Len(g), Entries)
                /\ Len(g) + Len(folders[user.from]) = Entries
      <4>1. PICK p : p = LastName(m)  OBVIOUS
      <4>2. up => /\ user.from \in DOMAIN folders
                  /\ Run(folders[user.from], p, Entries)
                  /\ p + Len(folders[user.from]) = Entries
        BY <1>3, <1>12, <3>1, <4>1
      <4>3. Len(g) = p  BY <3>5, <4>1
      <4> QED  BY <4>2, <4>3
    <3>7. ListerUser'
      <4>1. user.req.h = user.from  BY <1>9, <1>12, <3>1
      <4> QED  BY <1>10, <1>12, <2>0, <3>1, <3>3, <4>1 DEF ListerUser
    <3>8. /\ Run(user'.got, 0, Entries)
          /\ up' => /\ user'.from \in DOMAIN folders'
                    /\ Run(folders'[user'.from], Len(user'.got), Entries)
                    /\ Len(user'.got) + Len(folders'[user'.from]) = Entries
      BY <3>3, <3>5, <3>6
    <3> QED  BY <1>3, <1>4, <3>4, <3>7, <3>8, ListerQuiet
  <2>6. CASE eof /\ user' = Ask(user, Request("close", user.from, 0, 0))
    <3>1. user.req.t = "readdir"  BY <1>8, <1>9, <1>12, <2>6 DEF Says
    <3>2. /\ user'.pc = "acquire" /\ user'.call = user.call /\ user'.from = user.from /\ user'.got = user.got
          /\ user'.req.t = "close" /\ user'.req.h = user.from
      BY <1>0, <2>6 DEF Ask, Request, UserFields
    <3>3. ~Awaiting' /\ ~InFolder'  BY <3>2 DEF Awaiting, InFolder
    <3>4. user.got = Listing
      <4>1. m.t = "status"  BY <2>6 DEF Says
      <4>2. Len(user.got) = Entries  BY <1>3, <1>12, <3>1, <4>1 DEF Names
      <4> QED  BY <1>3, <1>12, <3>1, <4>2, ListingIs
    <3>5. up => user.from \in DOMAIN folders  BY <1>3, <1>12, <3>1
    <3>6. ListerUser'  BY <1>10, <1>12, <2>0, <3>2, <3>4, <3>5 DEF ListerUser
    <3> QED  BY <1>3, <1>4, <3>3, <3>6, ListerQuiet
  <2>7. CASE m.t \notin {"handle", "name"} /\ ~eof /\ user' = Return(user)
    <3>1. user.got = Listing  BY <1>8, <1>9, <1>12, <2>1, <2>7
    <3>2. user'.pc = "idle" /\ user'.call = user.call /\ user'.failed = FALSE /\ user'.got = Listing
      BY <1>0, <2>7, <3>1 DEF Return, UserFields
    <3>3. ~Awaiting' /\ ~InFolder'  BY <3>2 DEF Awaiting, InFolder
    <3>4. ListerUser'  BY <1>10, <2>0, <3>2 DEF ListerUser
    <3> QED  BY <1>3, <1>4, <3>3, <3>4, ListerQuiet
  <2> QED  BY <2>3, <2>4, <2>5, <2>6, <2>7
<1> QED  BY <1>6, <1>11, <1>12

\* A look for a response
LEMMA ListerLooks ==
  ASSUME Common, ListerInv, ReadResponse
  PROVE  ListerInv'
<1>1. ListerUser /\ LastOnTheWay /\ Packets /\ Kinds  BY DEF ListerInv, Common
<1>2. /\ user.pc = "wait" /\ resps # <<>> /\ resps' = Tail(resps)
      /\ UNCHANGED <<use, reqs, up, srv, folders, threads>>
  BY <1>1 DEF ReadResponse, ListerUser, serverVars
<1>3. PICK m : m = Head(resps)  OBVIOUS
<1>4. expecting' = [n \in DOMAIN expecting \ {m.num} |-> expecting[n]]  BY <1>3 DEF ReadResponse
<1>5. \A n \in DOMAIN expecting' : expecting'[n] = "sync"  BY <1>1, <1>4 DEF ListerUser
<1>6. user.wait # 0 /\ user.wait \in DOMAIN expecting
  BY <1>1, <1>2 DEF Packets, LastOnTheWay, Awaits, Awaiting
<1>7. \/ m.num # user.wait /\ Dispatched(file)
      \/ m.num = user.wait /\ Response(m)
  <2>1. m.num \in DOMAIN expecting => expecting[m.num] # "file"  BY <1>1 DEF ListerUser
  <2> HIDE DEF Response, Dispatched, Says
  <2> QED  BY <1>1, <1>3, <1>6, <2>1, ReadResponseIs
<1>8. CASE m.num # user.wait /\ Dispatched(file)
  <2>1. UNCHANGED user  BY <1>6, <1>8 DEF Dispatched
  <2>2. Head(resps).num # user.wait /\ expecting' = [n \in DOMAIN expecting \ {Head(resps).num} |-> expecting[n]]
    BY <1>3, <1>4, <1>8
  <2> QED  BY <1>2, <2>1, <2>2, ListerPasses
<1>9. CASE m.num = user.wait /\ Response(m)
  <2> HIDE DEF Response
  <2> QED  BY <1>2, <1>3, <1>5, <1>9, ListerResponse
<1> QED  BY <1>7, <1>8, <1>9

\* listdir_iter takes what comes for the answer to its first request.
LEMMA ListerTakes ==
  ASSUME Common, ListerInv, ReadRaw
  PROVE  ListerInv'
<1>0. DOMAIN user = UserFields /\ Packets  BY DEF Common, Shapes
<1>1. ListerUser /\ LastOnTheWay /\ NamesInOrder  BY DEF ListerInv
<1>2. /\ user.pc = "raw" /\ resps # <<>> /\ resps' = Tail(resps)
      /\ UNCHANGED <<use, reqs, up, srv, folders, expecting, threads>>
  BY DEF ReadRaw, serverVars, clientVars
<1>3. IsSeq(resps)  BY <1>0 DEF Packets
<1>4. PICK rest : rest = Tail(resps)  OBVIOUS
<1>5. /\ Len(resps) \in Nat \ {0} /\ Len(rest) = Len(resps) - 1 /\ Head(resps) = resps[1]
      /\ 1 \in 1 .. Len(resps)
      /\ \A i \in 1 .. Len(rest) : rest[i] = resps[i + 1] /\ i + 1 \in 1 .. Len(resps)
  BY <1>2, <1>3, <1>4, TakenIs
<1>6. PICK m : m = resps[1]  OBVIOUS
<1>7. user.call = "listiter" /\ user.req.t = "readdir" /\ user.call \in Listers /\ user.call \notin Paths
      /\ user.call \in ListCalls /\ user.req.h = user.from
  <2>1. user.call = "listiter" /\ user.req.t = "readdir"  BY <1>1, <1>2 DEF ListerUser
  <2>2. user.call \in Listers /\ user.call \notin Paths /\ user.call \in ListCalls
    BY <2>1 DEF Listers, ListCalls, Paths, ChangesPath, ReadsPath, SetsPath, NamesPath
  <2> QED  BY <1>1, <1>2, <2>1, <2>2 DEF ListerUser
<1>8. InFolder /\ ~Awaiting  BY <1>2, <1>7 DEF InFolder, Awaiting
<1>9. Run(user.got, 0, Entries) /\ Names(m, Len(user.got))
  <2>1. Run(user.got, 0, Entries) /\ Names(resps[1], Position(1 - 1))  BY <1>1, <1>5, <1>8 DEF NamesInOrder
  <2>2. Position(1 - 1) = Len(user.got)  BY DEF Position
  <2> HIDE DEF Names
  <2> QED  BY <1>6, <2>1, <2>2
<1>10. \/ m.t = "status" /\ user' = Ask([user EXCEPT !.nums = Tail(@)], Request("close", user.from, 0, 0))
       \/ /\ m.t # "status"
          /\ \/ user' = Ask([user EXCEPT !.nums = Tail(@), !.got = @ \o m.v], user.req)
             \/ user' = [user EXCEPT !.nums = Tail(@), !.got = @ \o m.v]
  <2>1. m = Head(resps)  BY <1>5, <1>6
  <2> DEFINE u == [user EXCEPT !.nums = Tail(@)]
             v == [u EXCEPT !.got = @ \o m.v]
  <2>2. user' = IF m.t = "status" THEN Ask(u, Request("close", user.from, 0, 0))
                ELSE IF v.nums = <<>> THEN Ask(v, user.req) ELSE v
    BY <1>0, <2>1 DEF ReadRaw, UserFields
  <2>3. v = [user EXCEPT !.nums = Tail(@), !.got = @ \o m.v]  BY <1>0 DEF UserFields
  <2> HIDE DEF u, v
  <2>4. CASE m.t = "status"  BY <2>2, <2>4 DEF u
  <2>5. CASE m.t # "status"
    <3>1. user' = Ask(v, user.req) \/ user' = v  BY <2>2, <2>5
    <3> QED  BY <2>3, <2>5, <3>1
  <2> QED  BY <2>4, <2>5
<1>11. \A i \in 1 .. Len(reqs) : reqs[i].t # "close"
  BY <1>1, <1>8 DEF LastOnTheWay, Awaits
<1>12. ASSUME user'.pc \in {"acquire", "raw"}, user'.call = user.call, user'.req.t \in {"readdir", "close"}
       PROVE  LastOnTheWay' /\ ListerOnTheWay'
  <2>1. ~Awaiting' /\ ~OneByOne'  BY <1>7, <1>12 DEF Awaiting, OneByOne
  <2>2. ~up' => reqs' = <<>>  BY <1>1, <1>2 DEF LastOnTheWay
  <2>3. \A n : ~Awaits(n)'  BY <2>1 DEF Awaits
  <2>4. LastOnTheWay'
    <3> HIDE DEF Awaits
    <3> QED  BY <1>2, <1>11, <1>12, <2>1, <2>2, <2>3 DEF LastOnTheWay
  <2>5. ListerOnTheWay'  BY <2>1 DEF ListerOnTheWay, ListerAnswer, Awaits
  <2> QED  BY <2>4, <2>5
<1>13. /\ \A n \in DOMAIN expecting' : expecting'[n] = "sync"
       /\ \A t \in Threads : threads'[t].pc = "unused"
  BY <1>1, <1>2 DEF ListerUser
<1>14. CASE m.t = "status" /\ user' = Ask([user EXCEPT !.nums = Tail(@)], Request("close", user.from, 0, 0))
  <2>1. /\ user'.pc = "acquire" /\ user'.call = user.call /\ user'.from = user.from /\ user'.got = user.got
        /\ user'.req.t = "close" /\ user'.req.h = user.from
    BY <1>0, <1>14 DEF Ask, Request, UserFields
  <2>2. ~InFolder'  BY <2>1 DEF InFolder
  <2>3. user.got = Listing
    <3>1. Len(user.got) = Entries  BY <1>9, <1>14 DEF Names
    <3> QED  BY <1>9, <3>1, ListingIs
  <2>4. up => user.from \in DOMAIN folders  BY <1>1, <1>8 DEF NamesInOrder
  <2>5. ListerUser'  BY <1>2, <1>7, <1>13, <2>1, <2>3, <2>4 DEF ListerUser
  <2>6. NamesInOrder'  BY <2>2 DEF NamesInOrder
  <2> QED  BY <1>12, <2>1, <2>5, <2>6 DEF ListerInv
<1>15. CASE /\ m.t # "status"
            /\ \/ user' = Ask([user EXCEPT !.nums = Tail(@), !.got = @ \o m.v], user.req)
               \/ user' = [user EXCEPT !.nums = Tail(@), !.got = @ \o m.v]
  <2>1. PICK g : g = user.got \o m.v  OBVIOUS
  <2>2. /\ user'.pc \in {"acquire", "raw"} /\ user'.call = user.call /\ user'.from = user.from
        /\ user'.got = g /\ user'.req = user.req
    BY <1>0, <1>2, <1>15, <2>1 DEF Ask, UserFields
  <2>3. Run(g, 0, Entries) /\ Len(g) = LastName(m)
    <3>1. PICK got : got = user.got  OBVIOUS
    <3>2. m.t = "name"  BY <1>9, <1>15 DEF Names, Says
    <3> HIDE DEF Names, Run, LastName
    <3>3. Run(got, 0, Entries) /\ Names(m, Len(got)) /\ g = got \o m.v  BY <1>9, <2>1, <3>1
    <3> QED  BY <3>2, <3>3, NamesFollow
  <2>4. ListerUser'  BY <1>2, <1>7, <1>13, <2>2 DEF ListerUser
  <2>5. PICK n : n = Len(rest)  OBVIOUS
  <2>6. n \in Nat /\ Len(resps) = n + 1 /\ resps' = rest /\ Len(resps') = n
    <3>1. resps' = rest  BY <1>2, <1>4
    <3>2. Len(resps') = n  BY <2>5, <3>1
    <3> QED  BY <1>5, <2>5, <3>1, <3>2
  <2>7. ASSUME NEW i \in 0 .. n  PROVE Position(i)' = Position(i + 1)
    <3>1. CASE i = 0
      <4>1. Position(0)' = Len(g)  BY <2>2 DEF Position
      <4>2. Position(1) = LastName(m)  BY <1>6 DEF Position
      <4> QED  BY <2>3, <3>1, <4>1, <4>2
    <3>2. CASE i # 0
      <4>1. i \in 1 .. n /\ i + 1 # 0  BY <2>6, <3>2
      <4>2. resps'[i] = resps[i + 1]  BY <1>5, <2>5, <2>6, <4>1
      <4> QED  BY <3>2, <4>1, <4>2 DEF Position, LastName
    <3> QED  BY <3>1, <3>2
  <2>8. ServerPosition' = ServerPosition /\ Position(n)' = Position(n + 1) /\ Answering' = Answering
    <3>1. n \in 0 .. n  BY <2>6
    <3>2. Position(n)' = Position(n + 1)  BY <2>7, <3>1
    <3>3. Position(Len(resps))' = Position(Len(resps))  BY <2>6, <3>2
    <3> QED  BY <1>2, <3>2, <3>3 DEF ServerPosition, Answering, LastName
  <2>9. \A i \in 1 .. n : Names(resps'[i], Position(i - 1)')
    <3>1. ASSUME NEW i \in 1 .. n  PROVE Names(resps'[i], Position(i - 1)')
      <4>1. PICK j : j = i - 1  OBVIOUS
      <4>2. j \in 0 .. n /\ j + 1 = i /\ i + 1 - 1 = i /\ i + 1 \in 1 .. Len(resps)  BY <2>6, <4>1
      <4>3. Position(j)' = Position(i)  BY <2>7, <4>2
      <4>4. Names(resps[i + 1], Position(i))
        <5>1. Names(resps[i + 1], Position(i + 1 - 1))  BY <1>1, <1>8, <4>2 DEF NamesInOrder
        <5> HIDE DEF Names
        <5> QED  BY <4>2, <5>1
      <4>5. resps'[i] = resps[i + 1]  BY <1>5, <2>5, <2>6
      <4> HIDE DEF Names, Position
      <4> QED  BY <4>1, <4>3, <4>4, <4>5
    <3> QED  BY <3>1
  <2>10. NamesInOrder'
    <3>1. ASSUME up
          PROVE  /\ \A i \in 1 .. Len(reqs) : reqs[i].t = "readdir" /\ reqs[i].h = user.from
                 /\ Answering => Names(srv.msg, Position(n + 1))
                 /\ user.from \in DOMAIN folders
                 /\ Run(folders[user.from], ServerPosition, Entries)
                 /\ ServerPosition + Len(folders[user.from]) = Entries
      BY <1>1, <1>8, <2>6, <3>1 DEF NamesInOrder
    <3>2. up' /\ Answering' => Names(srv.msg, Position(Len(resps))')
      <4>1. PICK p : p = Position(n + 1)  OBVIOUS
      <4>2. Position(Len(resps))' = p  BY <2>6, <2>8, <4>1
      <4> HIDE DEF Names, Position, Answering
      <4> QED  BY <1>2, <2>8, <3>1, <4>1, <4>2
    <3>3. \A i \in 1 .. Len(resps') : Names(resps'[i], Position(i - 1)')  BY <2>6, <2>9
    <3>4. Run(user'.got, 0, Entries)  BY <2>2, <2>3
    <3>5. up' => /\ \A i \in 1 .. Len(reqs') : reqs'[i].t = "readdir" /\ reqs'[i].h = user'.from
                 /\ user'.from \in DOMAIN folders'
                 /\ Run(folders'[user'.from], ServerPosition', Entries)
                 /\ ServerPosition' + Len(folders'[user'.from]) = Entries
      BY <1>2, <2>2, <2>8, <3>1
    <3>6. srv' = srv  BY <1>2
    <3> QED  BY <3>2, <3>3, <3>4, <3>5, <3>6 DEF NamesInOrder, Names, Says, Run
  <2> QED  BY <1>7, <1>12, <2>2, <2>4, <2>10 DEF ListerInv
<1> QED  BY <1>10, <1>14, <1>15

\* What the server does with a request of a program that lists
LEMMA ServeLists ==
  ASSUME Serve, NEW m, m = Head(reqs)
  PROVE  \E a :
           /\ srv'.msg.t = a.t /\ srv'.msg.v = a.v
           /\ m.t # "close" => DOMAIN folders \subseteq DOMAIN folders'
           /\ m.t = "opendir" => /\ a.t = "handle" /\ a.v[1] \in DOMAIN folders'
                                 /\ folders'[a.v[1]] = Listing
           /\ m.t = "readdir" /\ m.h \in DOMAIN folders =>
                \/ folders[m.h] = <<>> /\ Says(a, {"eof"}) /\ folders' = folders
                \/ /\ folders[m.h] # <<>> /\ a.t = "name" /\ a.v = Slice(folders[m.h], 0, Batch)
                   /\ m.h \in DOMAIN folders'
                   /\ folders'[m.h] = SubSeq(folders[m.h], Batch + 1, Len(folders[m.h]))
           /\ m.t = "close" /\ m.h \in DOMAIN folders => Says(a, {"ok"})
           /\ m.t \in Paths => ~Says(a, {"bad"}) /\ (Says(a, {"failure"}) => use.fails)
<1> DEFINE fails == use.fails /\ m.t \notin {"open", "close", "read", "opendir", "readdir"}
<1>1. PICK a \in {Answer(m)} \cup (IF fails THEN {Status("failure")} ELSE {}) :
        /\ srv' = [pc |-> "replying", msg |-> [num |-> m.num, t |-> a.t, v |-> a.v]]
        /\ folders' = CASE m.t = "opendir" -> Put(folders, nextHandle, Listing)
                        [] m.t = "close"   -> [h \in DOMAIN folders \ {m.h} |-> folders[h]]
                        [] m.t = "readdir" /\ a.t = "name" ->
                             [folders EXCEPT ![m.h] = SubSeq(@, Batch + 1, Len(@))]
                        [] OTHER           -> folders
  BY DEF Serve
<1>2. srv'.msg.t = a.t /\ srv'.msg.v = a.v  BY <1>1
<1>3. PICK l : l = Listing  OBVIOUS
<1>4. /\ m.t = "opendir" => folders' = Put(folders, nextHandle, l)
      /\ m.t = "readdir" /\ a.t = "name" => folders' = [folders EXCEPT ![m.h] = SubSeq(@, Batch + 1, Len(@))]
      /\ m.t \notin {"opendir", "close", "readdir"} => folders' = folders
      /\ m.t = "readdir" /\ a.t # "name" => folders' = folders
  BY <1>1, <1>3
<1>5. m.t # "close" => DOMAIN folders \subseteq DOMAIN folders'
  <2>1. ASSUME folders' = Put(folders, nextHandle, l)  PROVE DOMAIN folders \subseteq DOMAIN folders'
    BY <2>1 DEF Put
  <2>2. ASSUME folders' = [folders EXCEPT ![m.h] = SubSeq(@, Batch + 1, Len(@))]
        PROVE  DOMAIN folders \subseteq DOMAIN folders'
    BY <2>2
  <2> QED  BY <1>4, <2>1, <2>2
<1>6. a = Answer(m) \/ (fails /\ a = Status("failure"))  BY <1>1
<1>7. m.t = "opendir" => /\ a.t = "handle" /\ a.v[1] \in DOMAIN folders'
                         /\ folders'[a.v[1]] = l
  <2> SUFFICES ASSUME m.t = "opendir"
               PROVE  a.t = "handle" /\ a.v[1] \in DOMAIN folders' /\ folders'[a.v[1]] = l
    OBVIOUS
  <2>1. a.t = "handle" /\ a.v[1] = nextHandle  BY <1>6 DEF Answer
  <2> QED  BY <1>4, <2>1 DEF Put
<1>8. ASSUME m.t = "readdir", m.h \in DOMAIN folders
      PROVE  \/ folders[m.h] = <<>> /\ Says(a, {"eof"}) /\ folders' = folders
             \/ /\ folders[m.h] # <<>> /\ a.t = "name" /\ a.v = Slice(folders[m.h], 0, Batch)
                /\ m.h \in DOMAIN folders'
                /\ folders'[m.h] = SubSeq(folders[m.h], Batch + 1, Len(folders[m.h]))
  <2> HIDE DEF Slice
  <2>1. a = IF folders[m.h] = <<>> THEN Status("eof")
            ELSE [t |-> "name", v |-> Slice(folders[m.h], 0, Batch)]
    BY <1>6, <1>8 DEF Answer
  <2>2. CASE folders[m.h] = <<>>
    <3>1. a.t = "status" /\ a.v[1] = "eof"  BY <2>1, <2>2 DEF Status
    <3> QED  BY <1>4, <1>8, <2>2, <3>1 DEF Says
  <2>3. CASE folders[m.h] # <<>>
    <3>1. a.t = "name" /\ a.v = Slice(folders[m.h], 0, Batch)  BY <2>1, <2>3
    <3>2. folders' = [folders EXCEPT ![m.h] = SubSeq(@, Batch + 1, Len(@))]  BY <1>4, <1>8, <3>1
    <3>3. /\ m.h \in DOMAIN folders'
          /\ folders'[m.h] = SubSeq(folders[m.h], Batch + 1, Len(folders[m.h]))
      BY <1>8, <3>2
    <3> QED  BY <2>3, <3>1, <3>3
  <2> QED  BY <2>2, <2>3
<1>9. m.t = "close" /\ m.h \in DOMAIN folders => Says(a, {"ok"})
  <2> SUFFICES ASSUME m.t = "close", m.h \in DOMAIN folders  PROVE Says(a, {"ok"})
    OBVIOUS
  <2>1. a = Status("ok")  BY <1>6 DEF Answer
  <2> QED  BY <2>1 DEF Says, Status
<1>10. ASSUME m.t \in Paths  PROVE ~Says(a, {"bad"}) /\ (Says(a, {"failure"}) => use.fails)
  <2>0. m.t \in {"stat", "lstat", "readlink", "realpath", "remove", "rename", "mkdir", "rmdir",
                 "symlink", "setstat"}
    BY <1>10 DEF Paths, ChangesPath, ReadsPath, SetsPath, NamesPath
  <2>1. CASE a = Answer(m)
    <3>1. CASE m.t \in {"stat", "lstat"}
      <4>1. a = [t |-> "attrs", v |-> <<Len(stored)>>]  BY <2>1, <3>1 DEF Answer
      <4> QED  BY <4>1 DEF Says
    <3>2. CASE m.t \in {"readlink", "realpath"}
      <4>1. a = [t |-> "name", v |-> <<1>>]  BY <2>1, <3>2 DEF Answer
      <4> QED  BY <4>1 DEF Says
    <3>3. CASE m.t \in {"remove", "rename", "mkdir", "rmdir", "symlink", "setstat"}
      <4>1. a = Status("ok")  BY <2>1, <3>3 DEF Answer
      <4> QED  BY <4>1 DEF Says, Status
    <3> QED  BY <2>0, <3>1, <3>2, <3>3
  <2>2. CASE fails /\ a = Status("failure")  BY <2>2 DEF Says, Status
  <2> QED  BY <1>6, <2>1, <2>2
<1> HIDE DEF Says, Slice
<1> QED  BY <1>2, <1>3, <1>5, <1>7, <1>8, <1>9, <1>10

\* The server answers the first request.
LEMMA ListerServes ==
  ASSUME Common, ListerInv, Serve
  PROVE  ListerInv'
<1>1. ListerUser /\ LastOnTheWay /\ ListerOnTheWay /\ NamesInOrder /\ Packets /\ Asked
  BY DEF ListerInv, Common
<1>2. IsSeq(reqs)  BY <1>1 DEF Packets
<1>3. /\ IsSeq(reqs') /\ Len(reqs) \in Nat \ {0} /\ Len(reqs') = Len(reqs) - 1
      /\ \A i \in 1 .. Len(reqs') : reqs'[i] = reqs[i + 1] /\ i + 1 \in 1 .. Len(reqs)
      /\ 1 \in 1 .. Len(reqs) /\ Head(reqs) = reqs[1]
      /\ srv.pc = "reading" /\ srv'.pc = "replying" /\ srv'.msg.num = reqs[1].num
      /\ UNCHANGED <<use, resps, up, expecting, threads, user>>
  BY <1>2, ServeIs DEF clientVars
<1>4. PICK m : m = reqs[1]  OBVIOUS
<1>5. reqs # <<>>  BY DEF Serve
<1>6. up  BY <1>1, <1>5 DEF LastOnTheWay
<1>7. ~Answering /\ Answering'  BY <1>3 DEF Answering
<1>8. PICK a :
        /\ srv'.msg.t = a.t /\ srv'.msg.v = a.v
        /\ m.t # "close" => DOMAIN folders \subseteq DOMAIN folders'
        /\ m.t = "opendir" => /\ a.t = "handle" /\ a.v[1] \in DOMAIN folders'
                              /\ folders'[a.v[1]] = Listing
        /\ m.t = "readdir" /\ m.h \in DOMAIN folders =>
             \/ folders[m.h] = <<>> /\ Says(a, {"eof"}) /\ folders' = folders
             \/ /\ folders[m.h] # <<>> /\ a.t = "name" /\ a.v = Slice(folders[m.h], 0, Batch)
                /\ m.h \in DOMAIN folders'
                /\ folders'[m.h] = SubSeq(folders[m.h], Batch + 1, Len(folders[m.h]))
        /\ m.t = "close" /\ m.h \in DOMAIN folders => Says(a, {"ok"})
        /\ m.t \in Paths => ~Says(a, {"bad"}) /\ (Says(a, {"failure"}) => use.fails)
  <2>1. m = Head(reqs)  BY <1>3, <1>4
  <2> HIDE DEF Says, Slice
  <2> QED  BY <2>1, ServeLists
<1>9. PICK q : q = srv'.msg  OBVIOUS
<1>10. /\ Awaiting' = Awaiting /\ OneByOne' = OneByOne
       /\ InFolder' = InFolder
  BY <1>3 DEF Awaiting, OneByOne, InFolder
<1>11. NamesInOrder'
  <2> SUFFICES ASSUME InFolder
               PROVE  /\ Run(user.got, 0, Entries)
                      /\ \A i \in 1 .. Len(resps) : Names(resps[i], Position(i - 1))
                      /\ \A i \in 1 .. Len(reqs') : reqs'[i].t = "readdir" /\ reqs'[i].h = user.from
                      /\ Names(q, Position(Len(resps)))
                      /\ user.from \in DOMAIN folders'
                      /\ Run(folders'[user.from], LastName(q), Entries)
                      /\ LastName(q) + Len(folders'[user.from]) = Entries
    <3>1. \A i : Position(i)' = Position(i)  BY <1>3 DEF Position, LastName
    <3>2. ServerPosition' = LastName(q)  BY <1>7, <1>9 DEF ServerPosition, LastName
    <3> HIDE DEF Answering, InFolder, Position
    <3> QED  BY <1>3, <1>7, <1>9, <1>10, <3>1, <3>2 DEF NamesInOrder, Names, Says, Run
  <2>1. /\ Run(user.got, 0, Entries)
        /\ \A i \in 1 .. Len(resps) : Names(resps[i], Position(i - 1))
        /\ \A i \in 1 .. Len(reqs) : reqs[i].t = "readdir" /\ reqs[i].h = user.from
        /\ user.from \in DOMAIN folders
        /\ Run(folders[user.from], ServerPosition, Entries)
        /\ ServerPosition + Len(folders[user.from]) = Entries
    BY <1>1, <1>6 DEF NamesInOrder
  <2>2. PICK h : h = user.from  OBVIOUS
  <2>3. m.t = "readdir" /\ m.h = h /\ h \in DOMAIN folders  BY <1>3, <1>4, <2>1, <2>2
  <2>4. PICK p : p = Position(Len(resps))  OBVIOUS
  <2>5. ServerPosition = p  BY <1>7, <2>4 DEF ServerPosition
  <2>6. PICK v : v = folders[h]  OBVIOUS
  <2>7. Run(v, p, Entries) /\ p + Len(v) = Entries  BY <2>1, <2>2, <2>5, <2>6
  <2>8. \A i \in 1 .. Len(reqs') : reqs'[i].t = "readdir" /\ reqs'[i].h = user.from  BY <1>3, <2>1
  <2>9. /\ Names(q, p) /\ h \in DOMAIN folders'
        /\ Run(folders'[h], LastName(q), Entries)
        /\ LastName(q) + Len(folders'[h]) = Entries
    <3>1. q.t = a.t /\ q.v = a.v  BY <1>8, <1>9
    <3>2. CASE v = <<>>
      <4>1. Says(a, {"eof"}) /\ folders' = folders  BY <1>8, <2>3, <2>6, <3>2
      <4>2. Entries \in Nat /\ p \in Nat /\ Len(v) = 0  BY <2>7, <3>2, EmptyIs, SftpAssumption DEF Run
      <4>3. p = Entries  BY <2>7, <4>2
      <4>4. q.t = "status" /\ Says(q, {"eof"})  BY <3>1, <4>1 DEF Says
      <4>5. LastName(q) = Entries  BY <4>4 DEF LastName
      <4>6. Names(q, p)  BY <4>3, <4>4 DEF Names
      <4>7. Entries + Len(v) = Entries  BY <4>2
      <4>8. Run(v, Entries, Entries)  BY <2>7, <4>3
      <4>9. folders'[h] = v /\ h \in DOMAIN folders'  BY <2>3, <2>6, <4>1
      <4> HIDE DEF Names, LastName, Run
      <4> QED  BY <4>5, <4>6, <4>7, <4>8, <4>9
    <3>3. CASE v # <<>>
      <4>1. /\ a.t = "name" /\ a.v = Slice(v, 0, Batch) /\ h \in DOMAIN folders'
            /\ folders'[h] = SubSeq(v, Batch + 1, Len(v))
        <5> HIDE DEF Slice, Says
        <5> QED  BY <1>8, <2>3, <2>6, <3>3
      <4>2. PICK c : c = a.v  OBVIOUS
      <4>3. PICK b : b = folders'[h]  OBVIOUS
      <4>4. /\ Run(c, p, Entries) /\ c # <<>>
            /\ Run(b, c[Len(c)], Entries)
            /\ c[Len(c)] = p + Len(c) /\ Len(c) + Len(b) = Len(v) /\ Len(c) \in Nat /\ Len(b) \in Nat
        <5> HIDE DEF Slice, Run
        <5>1. c = Slice(v, 0, Batch) /\ b = SubSeq(v, Batch + 1, Len(v))  BY <4>1, <4>2, <4>3
        <5>2. \A x, y : x = Slice(v, 0, Batch) /\ y = SubSeq(v, Batch + 1, Len(v)) =>
                /\ Run(x, p, Entries) /\ x # <<>>
                /\ Run(y, x[Len(x)], Entries)
                /\ x[Len(x)] = p + Len(x) /\ Len(x) + Len(y) = Len(v) /\ Len(x) \in Nat /\ Len(y) \in Nat
          BY <2>7, <3>3, BatchIs
        <5> QED  BY <5>1, <5>2, Zenon
      <4>5. q.t = "name" /\ q.v = c  BY <3>1, <4>1, <4>2
      <4>6. LastName(q) = c[Len(c)]  BY <4>5 DEF LastName
      <4>7. Names(q, p)  BY <4>4, <4>5 DEF Names
      <4>8. p \in Nat  BY <2>7 DEF Run
      <4>9. c[Len(c)] + Len(b) = Entries  BY <2>7, <4>4, <4>8
      <4> HIDE DEF Names, LastName, Run
      <4> QED  BY <4>1, <4>3, <4>4, <4>6, <4>7, <4>9
    <3> QED  BY <3>2, <3>3
  <2> HIDE DEF Names, LastName, Run, Position
  <2> QED  BY <2>1, <2>2, <2>4, <2>8, <2>9
<1>12. PICK w : w = user.wait  OBVIOUS
<1>13. Awaiting =>
         /\ w \in DOMAIN expecting
         /\ \A i \in 1 .. Len(reqs) : reqs[i].num = w => i = Len(reqs) /\ Made(reqs[i])
         /\ \A i \in 1 .. Len(resps) : resps[i].num # w
         /\ OneByOne => /\ \A i \in 1 .. Len(reqs) : reqs[i].num = w
                        /\ \A i \in 1 .. Len(resps) : resps[i].num = w
  BY <1>1, <1>5, <1>6, <1>12 DEF LastOnTheWay, Awaits
<1>14. \A i \in 1 .. Len(reqs') : i + 1 = Len(reqs) => i = Len(reqs')
  <2>1. PICK n : n = Len(reqs)  OBVIOUS
  <2>2. PICK k : k = Len(reqs')  OBVIOUS
  <2>3. n \in Nat /\ k = n - 1  BY <1>3, <2>1, <2>2
  <2>4. \A i \in 1 .. k : i + 1 = n => i = k  BY <2>3
  <2> QED  BY <2>1, <2>2, <2>4
<1>15. Awaiting /\ m.num = w => reqs' = <<>>
  <2> SUFFICES ASSUME Awaiting, m.num = w  PROVE reqs' = <<>>
    OBVIOUS
  <2>1. 1 = Len(reqs)  BY <1>3, <1>4, <1>13
  <2>2. PICK n : n = Len(reqs)  OBVIOUS
  <2>3. Len(reqs') = n - 1 /\ n = 1  BY <1>3, <2>1, <2>2
  <2>4. Len(reqs') = 0  BY <2>3
  <2> QED  BY <1>3, <2>4, LenIs
<1>16. \A i \in 1 .. Len(reqs) : reqs[i].t = "close" => Awaiting /\ reqs[i].num = w
  BY <1>1, <1>12 DEF LastOnTheWay, Awaits
<1>17. LastOnTheWay'
  <2>1. ~(user.pc = "idle" \/ (user.pc \in {"acquire", "send"} /\ OneByOne))
    BY <1>1, <1>5, <1>6 DEF LastOnTheWay, Quiet
  <2>2. Awaiting =>
          /\ \A i \in 1 .. Len(reqs') : reqs'[i].num = w => i = Len(reqs') /\ Made(reqs'[i])
          /\ srv'.msg.num = w => reqs' = <<>>
          /\ OneByOne => (\A i \in 1 .. Len(reqs') : reqs'[i].num = w) /\ srv'.msg.num = w
    <3> HIDE DEF Made, Awaiting, OneByOne
    <3> QED  BY <1>3, <1>4, <1>13, <1>14, <1>15
  <2>3. \A i \in 1 .. Len(reqs') : reqs'[i].t = "close" => Awaiting /\ reqs'[i].num = w  BY <1>3, <1>16
  <2>4. user'.wait = w /\ user'.pc = user.pc  BY <1>3, <1>12
  <2>5. user' = user  BY <1>3
  <2>6. w \in DOMAIN expecting' \/ ~Awaiting  BY <1>3, <1>13
  <2>7. \A i \in 1 .. Len(resps') : Awaiting => resps'[i].num # w /\ (OneByOne => resps'[i].num = w)
    BY <1>3, <1>13
  <2> HIDE DEF Awaiting, OneByOne, Answering
  <2> QED  BY <1>6, <1>3, <1>10, <2>1, <2>2, <2>3, <2>4, <2>5, <2>6, <2>7 DEF LastOnTheWay, Awaits, Made
<1>18. ASSUME Awaiting
       PROVE  user.pc = "wait" /\ (user.call \in Listers \/ user.call \in Paths)
  <2>1. user.pc = "wait"  BY <1>1, <1>18 DEF Awaiting, ListerUser
  <2>2. user.call \in Requesting  BY <1>1, <2>1 DEF Asked
  <2> QED  BY <1>1, <2>1, <2>2, ListWords DEF ListerUser, ListCalls, Requesting
<1>19. ASSUME Awaiting, m.num = w
       PROVE  /\ user.req.t = "opendir" =>
                   q.t = "handle" /\ q.v[1] \in DOMAIN folders' /\ folders'[q.v[1]] = Listing
              /\ user.req.t = "close" => Says(q, {"ok"})
              /\ user.call \in Paths => ~Says(q, {"bad"}) /\ (Says(q, {"failure"}) => use.fails)
  <2>1. q.t = a.t /\ q.v = a.v  BY <1>8, <1>9
  <2>2. m.t = user.req.t /\ m.h = user.req.h  BY <1>3, <1>4, <1>13, <1>19 DEF Made
  <2>3. user.req.t = "opendir" => q.t = "handle" /\ q.v[1] \in DOMAIN folders' /\ folders'[q.v[1]] = Listing
    BY <1>8, <2>1, <2>2
  <2>4. ASSUME user.req.t = "close"  PROVE Says(q, {"ok"})
    <3>1. user.call \in Listers
      <4>1. user.call \in Paths => user.req.t \in Paths  BY <1>1, <1>18, <1>19 DEF ListerUser
      <4> QED  BY <1>18, <1>19, <2>4, <4>1, ListWords
    <3>2. user.req.h = user.from /\ user.from \in DOMAIN folders
      <4>1. \E i \in 1 .. Len(reqs) : reqs[i].num = user.wait  BY <1>3, <1>4, <1>12, <1>19
      <4> QED  BY <1>1, <1>6, <1>18, <1>19, <2>4, <3>1, <4>1 DEF ListerUser
    <3>3. Says(a, {"ok"})  BY <1>8, <2>2, <2>4, <3>2
    <3> QED  BY <2>1, <3>3 DEF Says
  <2>5. ASSUME user.call \in Paths  PROVE ~Says(q, {"bad"}) /\ (Says(q, {"failure"}) => use.fails)
    <3>1. m.t \in Paths  BY <1>1, <1>18, <1>19, <2>2, <2>5 DEF ListerUser
    <3> QED  BY <1>8, <2>1, <3>1 DEF Says
  <2> QED  BY <2>3, <2>4, <2>5
<1>20. ListerOnTheWay'
  <2>1. q.num = m.num  BY <1>3, <1>4, <1>9
  <2>2. user'.wait = w /\ user' = user /\ use' = use /\ resps' = resps  BY <1>3, <1>12
  <2> HIDE DEF Awaiting, Says, Answering
  <2> QED  BY <1>9, <1>10, <1>13, <1>19, <2>1, <2>2 DEF ListerOnTheWay, ListerAnswer, Awaits, Says
<1>21. ListerUser'
  <2>1. ASSUME user.pc # "idle", user.call \in Listers, user.req.t = "close",
               user.pc = "wait" => \E i \in 1 .. Len(reqs') : reqs'[i].num = user.wait
        PROVE  user.from \in DOMAIN folders'
    <3>1. user.pc = "wait" => \E i \in 1 .. Len(reqs) : reqs[i].num = user.wait  BY <1>3, <2>1
    <3>2. user.from \in DOMAIN folders  BY <1>1, <1>6, <2>1, <3>1 DEF ListerUser
    <3>3. m.t # "close"
      <4>1. ASSUME m.t = "close"  PROVE FALSE
        <5>1. Awaiting /\ m.num = w  BY <1>3, <1>4, <1>16, <4>1
        <5>2. reqs' = <<>> /\ user.pc = "wait"  BY <1>15, <1>18, <5>1
        <5>3. Len(reqs') = 0  BY <5>2, EmptyIs
        <5> QED  BY <2>1, <5>2, <5>3
      <4> QED  BY <4>1
    <3> QED  BY <1>8, <3>2, <3>3
  <2> QED  BY <1>1, <1>3, <2>1 DEF ListerUser
<1> QED  BY <1>11, <1>17, <1>20, <1>21 DEF ListerInv

\* What the user is at when the server and the channel go on, with the folders as they are
LEMMA ListerAside ==
  ASSUME ListerUser, UNCHANGED <<use, expecting, threads, user>>, up' => up,
         up' => UNCHANGED <<reqs, folders>>
  PROVE  ListerUser'
<1>1. ASSUME user.pc # "idle", user.call \in Listers, user.req.t = "close", up',
             user.pc = "wait" => \E i \in 1 .. Len(reqs') : reqs'[i].num = user.wait
      PROVE  user.from \in DOMAIN folders'
  BY <1>1 DEF ListerUser
<1> QED  BY <1>1 DEF ListerUser

\* The response of the server is the last that the user waits for.
LEMMA ListerReplies ==
  ASSUME Common, ListerInv, Reply
  PROVE  ListerInv'
<1>1. ListerUser /\ LastOnTheWay /\ ListerOnTheWay /\ NamesInOrder /\ Packets  BY DEF ListerInv, Common
<1>2. IsSeq(resps)  BY <1>1 DEF Packets
<1>3. /\ Len(resps) \in Nat /\ Len(resps') = Len(resps) + 1
      /\ \A i \in 1 .. Len(resps) : resps'[i] = resps[i]
      /\ resps'[Len(resps) + 1] = srv.msg /\ srv.pc = "replying" /\ srv'.pc = "reading" /\ up
      /\ UNCHANGED <<use, reqs, up, folders, expecting, threads, user>>
  BY <1>2, ReplyIs DEF clientVars
<1>4. Answering /\ ~Answering'  BY <1>3 DEF Answering
<1>5. PICK n : n = Len(resps)  OBVIOUS
<1>6. PICK q : q = srv.msg  OBVIOUS
<1>7. /\ n \in Nat /\ Len(resps') = n + 1 /\ resps'[n + 1] = q
      /\ \A i \in 1 .. n : resps'[i] = resps[i]
      /\ \A i \in 1 .. n + 1 : i \in 1 .. n \/ i = n + 1
  BY <1>3, <1>5, <1>6
<1>8. /\ Awaiting' = Awaiting /\ OneByOne' = OneByOne
      /\ InFolder' = InFolder
  BY <1>3 DEF Awaiting, OneByOne, InFolder
<1>9. NamesInOrder'
  <2> SUFFICES ASSUME InFolder  PROVE NamesInOrder'
    BY <1>8 DEF NamesInOrder
  <2>1. /\ Run(user.got, 0, Entries)
        /\ \A i \in 1 .. n : Names(resps[i], Position(i - 1))
        /\ \A i \in 1 .. Len(reqs) : reqs[i].t = "readdir" /\ reqs[i].h = user.from
        /\ Names(q, Position(n))
        /\ user.from \in DOMAIN folders
        /\ Run(folders[user.from], ServerPosition, Entries)
        /\ ServerPosition + Len(folders[user.from]) = Entries
    BY <1>1, <1>3, <1>4, <1>5, <1>6 DEF NamesInOrder
  <2>2. \A i \in 0 .. n : Position(i)' = Position(i)  BY <1>3, <1>7 DEF Position, LastName
  <2>3. ServerPosition' = ServerPosition
    <3>1. ServerPosition = LastName(q)  BY <1>4, <1>6 DEF ServerPosition, LastName
    <3>2. n + 1 # 0  BY <1>7
    <3>3. Position(n + 1)' = LastName(q)  BY <1>7, <3>2 DEF Position, LastName
    <3>4. ServerPosition' = Position(n + 1)'  BY <1>4, <1>7 DEF ServerPosition, Position, LastName
    <3> QED  BY <3>1, <3>3, <3>4
  <2>4. \A i \in 1 .. n + 1 : Names(resps'[i], Position(i - 1)')
    <3>1. ASSUME NEW i \in 1 .. n + 1  PROVE Names(resps'[i], Position(i - 1)')
      <4>1. PICK j : j = i - 1  OBVIOUS
      <4>2. j \in 0 .. n  BY <1>7, <4>1
      <4>3. Position(j)' = Position(j)  BY <2>2, <4>2
      <4>4. Names(resps'[i], Position(j))
        <5> HIDE DEF Names, Position
        <5>1. CASE i \in 1 .. n  BY <1>7, <2>1, <4>1, <5>1
        <5>2. CASE i = n + 1
          <6>1. j = n  BY <1>7, <4>1, <5>2
          <6> QED  BY <1>7, <2>1, <5>2, <6>1
        <5> QED  BY <1>7, <5>1, <5>2
      <4> HIDE DEF Names, Position
      <4> QED  BY <4>1, <4>3, <4>4
    <3> QED  BY <3>1
  <2>5. \A i \in 1 .. Len(resps') : Names(resps'[i], Position(i - 1)')  BY <1>7, <2>4
  <2> HIDE DEF Answering, InFolder, Position, ServerPosition
  <2> QED  BY <1>3, <1>4, <1>8, <2>1, <2>3, <2>5 DEF NamesInOrder, Names, Says, Run
<1>10. PICK w : w = user.wait  OBVIOUS
<1>11. Awaiting =>
         /\ w \in DOMAIN expecting
         /\ \A i \in 1 .. Len(reqs) : reqs[i].num = w => i = Len(reqs) /\ Made(reqs[i])
         /\ q.num = w => reqs = <<>>
         /\ \A i \in 1 .. n : resps[i].num # w
         /\ OneByOne => /\ \A i \in 1 .. Len(reqs) : reqs[i].num = w
                        /\ q.num = w
                        /\ \A i \in 1 .. n : resps[i].num = w
  BY <1>1, <1>3, <1>4, <1>5, <1>6, <1>10 DEF LastOnTheWay, Awaits
<1>12. \A i \in 1 .. Len(reqs) : reqs[i].t = "close" => Awaiting /\ reqs[i].num = w
  BY <1>1, <1>10 DEF LastOnTheWay, Awaits
<1>13. LastOnTheWay'
  <2>1. ~(user.pc = "idle" \/ (user.pc \in {"acquire", "send"} /\ OneByOne))
    BY <1>1, <1>3, <1>4 DEF LastOnTheWay, Quiet
  <2>2. Awaiting => \A i \in 1 .. n + 1 : resps'[i].num = w => i = n + 1 /\ reqs = <<>>  BY <1>7, <1>11
  <2>3. Awaiting /\ OneByOne => \A i \in 1 .. n + 1 : resps'[i].num = w  BY <1>7, <1>11
  <2>4. /\ Awaiting => \A i \in 1 .. Len(resps') : resps'[i].num = w => i = Len(resps') /\ reqs = <<>>
        /\ Awaiting /\ OneByOne => \A i \in 1 .. Len(resps') : resps'[i].num = w
    BY <1>7, <2>2, <2>3
  <2>5. user'.wait = w /\ user' = user /\ reqs' = reqs /\ expecting' = expecting /\ up'
    BY <1>3, <1>10
  <2> HIDE DEF Awaiting, OneByOne, Answering
  <2> QED  BY <1>4, <1>8, <1>11, <1>12, <2>1, <2>4, <2>5 DEF LastOnTheWay, Awaits, Made
<1>14. ListerOnTheWay'
  <2>1. \A i \in 1 .. n : ListerAnswer(resps[i])  BY <1>1, <1>5 DEF ListerOnTheWay
  <2>2. ListerAnswer(q)  BY <1>1, <1>3, <1>4, <1>6 DEF ListerOnTheWay
  <2>3. ASSUME NEW i \in 1 .. Len(resps')  PROVE ListerAnswer(resps[i])'
    <3>1. PICK r : r = resps'[i]  OBVIOUS
    <3>2. i \in 1 .. n \/ i = n + 1  BY <1>7
    <3>3. ListerAnswer(r)
      <4> HIDE DEF ListerAnswer
      <4> QED  BY <1>7, <2>1, <2>2, <3>1, <3>2
    <3>4. ListerAnswer(r)'  BY <1>3, <1>8, <3>3 DEF ListerAnswer, Awaits, Says
    <3> QED  BY <3>1, <3>4
  <2> QED  BY <1>4, <2>3 DEF ListerOnTheWay
<1>15. ListerUser'  BY <1>1, <1>3, ListerAside
<1> QED  BY <1>9, <1>13, <1>14, <1>15 DEF ListerInv

\* The connection is lost: some of the last responses with it.
LEMMA ListerEnds ==
  ASSUME Common, ListerInv, ServerEnds \/ Drop
  PROVE  ListerInv'
<1>1. ListerUser /\ LastOnTheWay /\ ListerOnTheWay /\ NamesInOrder /\ Packets  BY DEF ListerInv, Common
<1>2. IsSeq(resps)  BY <1>1 DEF Packets
<1>3. /\ UNCHANGED <<use, expecting, threads, user>> /\ ~up' /\ reqs' = <<>>
      /\ \A i \in 1 .. Len(resps') : i \in 1 .. Len(resps) /\ resps'[i] = resps[i]
      /\ Len(resps) \in Nat /\ Len(resps') \in 0 .. Len(resps)
  <2>1. CASE ServerEnds
    <3>1. UNCHANGED <<use, expecting, threads, user, reqs, resps, up>> /\ ~up
      BY <2>1 DEF ServerEnds, channelVars, clientVars
    <3>2. reqs = <<>>  BY <1>1, <3>1 DEF LastOnTheWay
    <3>3. Len(resps) \in Nat  BY <1>2, LenIs
    <3> QED  BY <3>1, <3>2, <3>3
  <2>2. CASE Drop
    <3>1. /\ Len(resps) \in Nat /\ Len(resps') \in 0 .. Len(resps)
          /\ \A i \in 1 .. Len(resps') : i \in 1 .. Len(resps) /\ resps'[i] = resps[i]
          /\ reqs' = <<>> /\ ~up' /\ UNCHANGED <<use, serverVars, clientVars, file, threads, user>>
      BY <1>2, <2>2, DropIs
    <3> QED  BY <3>1 DEF clientVars
  <2> QED  BY <2>1, <2>2
<1>4. /\ Awaiting' = Awaiting /\ OneByOne' = OneByOne
      /\ InFolder' = InFolder
  BY <1>3 DEF Awaiting, OneByOne, InFolder
<1>5. PICK n : n = Len(resps')  OBVIOUS
<1>6. /\ n \in Nat /\ \A i \in 1 .. n : i \in 1 .. Len(resps) /\ resps'[i] = resps[i]
      /\ \A i \in 1 .. n : i = Len(resps) => i = n
  BY <1>3, <1>5
<1>7. NamesInOrder'
  <2> SUFFICES ASSUME InFolder  PROVE NamesInOrder'
    BY <1>4 DEF NamesInOrder
  <2>1. Run(user.got, 0, Entries) /\ \A i \in 1 .. n : Names(resps[i], Position(i - 1))
    BY <1>1, <1>6 DEF NamesInOrder
  <2>2. \A i \in 0 .. n : Position(i)' = Position(i)  BY <1>3, <1>6 DEF Position, LastName
  <2>3. \A i \in 1 .. n : Names(resps'[i], Position(i - 1)')
    <3>1. ASSUME NEW i \in 1 .. n  PROVE Names(resps'[i], Position(i - 1)')
      <4>1. PICK j : j = i - 1  OBVIOUS
      <4>2. j \in 0 .. n  BY <1>6, <4>1
      <4>3. Position(j)' = Position(j)  BY <2>2, <4>2
      <4> HIDE DEF Names, Position
      <4>4. Names(resps'[i], Position(j))  BY <1>6, <2>1, <4>1
      <4> QED  BY <4>1, <4>3, <4>4
    <3> QED  BY <3>1
  <2>4. \A i \in 1 .. Len(resps') : Names(resps'[i], Position(i - 1)')  BY <1>5, <2>3
  <2> HIDE DEF Answering, InFolder, Position, ServerPosition
  <2> QED  BY <1>3, <1>4, <2>1, <2>4 DEF NamesInOrder, Names, Says, Run
<1>8. LastOnTheWay'
  <2>1. PICK w : w = user.wait  OBVIOUS
  <2>2. Awaiting =>
          /\ w \in DOMAIN expecting
          /\ \A i \in 1 .. Len(resps) : resps[i].num = w => i = Len(resps)
          /\ OneByOne => \A i \in 1 .. Len(resps) : resps[i].num = w
    BY <1>1, <2>1 DEF LastOnTheWay, Awaits
  <2>3. Awaiting =>
          /\ \A i \in 1 .. n : resps'[i].num = w => i = n
          /\ OneByOne => \A i \in 1 .. n : resps'[i].num = w
    BY <1>6, <2>2
  <2>4. Awaiting =>
          /\ \A i \in 1 .. Len(resps') : resps'[i].num = w => i = Len(resps')
          /\ OneByOne => \A i \in 1 .. Len(resps') : resps'[i].num = w
    BY <1>5, <2>3
  <2>5. user'.wait = w /\ expecting' = expecting /\ Len(reqs') = 0  BY <1>3, <2>1, EmptyIs
  <2> HIDE DEF Awaiting, OneByOne, Answering
  <2> QED  BY <1>3, <1>4, <2>2, <2>4, <2>5 DEF LastOnTheWay, Awaits
<1>9. ListerOnTheWay'
  <2>1. ASSUME NEW i \in 1 .. Len(resps')  PROVE ListerAnswer(resps[i])'
    <3>1. PICK r : r = resps'[i]  OBVIOUS
    <3>2. ListerAnswer(r)
      <4>1. i \in 1 .. Len(resps) /\ r = resps[i]  BY <1>3, <3>1
      <4> QED  BY <1>1, <4>1 DEF ListerOnTheWay
    <3>3. ListerAnswer(r)'  BY <1>3, <1>4, <3>2 DEF ListerAnswer, Awaits, Says
    <3> QED  BY <3>1, <3>3
  <2> QED  BY <1>3, <2>1 DEF ListerOnTheWay
<1>10. ListerUser'  BY <1>1, <1>3, ListerAside
<1> QED  BY <1>7, <1>8, <1>9, <1>10 DEF ListerInv

\* Every step of a program that lists
LEMMA ListerKept ==
  ASSUME Common, Lists, ListerInv, [Next]_vars
  PROVE  ListerInv'
<1>1. ListerUser  BY DEF ListerInv
<1>2. CASE Call  BY <1>2, ListerCall
<1>3. CASE UserStep
  <2>1. ~StorePrefetched /\ ~ReadPrefetch /\ ~AfterWrite /\ ~Collect /\ ~Finish
    BY <1>1 DEF ListerUser, StorePrefetched, ReadPrefetch, AfterWrite, Collect, Finish
  <2> QED  BY <1>3, <2>1, ListerPlain, ListerSends, ListerLooks, ListerTakes DEF UserStep
<1>4. \A t \in Threads : ~ThreadStep(t)
  BY <1>1 DEF ListerUser, ThreadStep, TakePrefetchLock, TakeLock, SendPrefetch, NoteExtent, PrefetchDies
<1>5. CASE ServerStep \/ Drop  BY <1>5, ListerServes, ListerReplies, ListerEnds DEF ServerStep
<1>6. CASE UNCHANGED vars
  <2>1. UNCHANGED <<use, reqs, resps, up, srv, folders, expecting, threads, user>>
    BY <1>6 DEF vars, channelVars, serverVars, clientVars
  <2> QED
    BY <2>1 DEF ListerInv, NamesInOrder, InFolder, Names, Run, Position, ServerPosition, LastName,
       LastOnTheWay, OneByOne, Quiet, ListerOnTheWay, ListerAnswer, ListerUser, Answering, Awaits, Awaiting,
       Made, Says
<1> QED  BY <1>2, <1>3, <1>4, <1>5, <1>6 DEF Next

\* With the invariant, a listing gives every name once.
LEMMA ListerRight ==
  ASSUME ListerInv
  PROVE  TransfersFaithful
<1>1. ListerUser  BY DEF ListerInv
<1>2. ~Over("read")
  <2>1. "read" \notin ListCalls \cup {"none"}  BY ListWords
  <2> QED  BY <1>1, <2>1 DEF Over, ListerUser
<1>3. Over("list") \/ Over("listiter") => user.got = Listing
  BY <1>1 DEF Over, ListerUser, Listers
<1>4. user.pc = "idle" /\ user.failed => ~up \/ file.refused \/ use.fails  BY <1>1 DEF ListerUser
<1> QED  BY <1>2, <1>3, <1>4 DEF TransfersFaithful

-----------------------------------------------------------------------------
(* The theorems *)

\* What holds of a program of each kind
SftpInv ==
  /\ Common /\ use \in Uses
  /\ Reads => ReaderInv
  /\ Writes => WriterInv
  /\ Lists => ListerInv

\* It holds when the program begins.
LEMMA SftpInitial == Init => SftpInv
<1> SUFFICES ASSUME Init  PROVE SftpInv
  OBVIOUS
<1>1. use \in Uses  BY DEF Init
<1>2. Reads => ReaderInv  BY ReaderInitial DEF Reads
<1>3. Writes => WriterInv  BY WriterInitial DEF Writes
<1>4. Lists => ListerInv  BY ListerInitial DEF Lists
<1> QED  BY <1>1, <1>2, <1>3, <1>4, CommonInitial DEF SftpInv

\* No step ends it: a program is of one kind for as long as it runs.
LEMMA SftpKept == SftpInv /\ [Next]_vars => SftpInv'
<1> SUFFICES ASSUME SftpInv, [Next]_vars  PROVE SftpInv'
  OBVIOUS
<1>1. Common /\ use \in Uses  BY DEF SftpInv
<1>2. use' = use  BY UseKept
<1>3. Reads' = Reads /\ Writes' = Writes /\ Lists' = Lists  BY <1>2 DEF Reads, Writes, Lists
<1>4. Common'  BY <1>1, CommonKept
<1>5. Reads => ReaderInv'  BY <1>1, ReaderKept DEF SftpInv
<1>6. Writes => WriterInv'  BY <1>1, WriterKept DEF SftpInv
<1>7. Lists => ListerInv'  BY <1>1, ListerKept DEF SftpInv
<1> QED  BY <1>1, <1>2, <1>3, <1>4, <1>5, <1>6, <1>7 DEF SftpInv

\* The invariant of a program that makes calls of one kind
THEOREM SftpInvariant == Spec => []SftpInv
<1>1. Init => SftpInv  BY SftpInitial
<1>2. SftpInv /\ [Next]_vars => SftpInv'  BY SftpKept
<1> QED  BY <1>1, <1>2, PTL DEF Spec

\* A program that reads, writes or lists gets what it asks for, whatever is
\* prefetched, sent ahead or lost on the way: TransfersFaithful.  A program that
\* lists and has a file open is left out, since listdir_iter takes the
\* responses to its prefetches for names.
\* (SFTPFile._read_prefetch, _async_response, SFTPClient._read_response, listdir_iter)
THEOREM TransfersAreFaithful == Spec => [](Reads \/ Writes \/ Lists => TransfersFaithful)
<1>1. SftpInv => (Reads \/ Writes \/ Lists => TransfersFaithful)
  <2> SUFFICES ASSUME SftpInv, Reads \/ Writes \/ Lists  PROVE TransfersFaithful
    OBVIOUS
  <2>1. CASE Reads  BY <2>1, ReaderRight DEF SftpInv
  <2>2. CASE Lists  BY <2>2, ListerRight DEF SftpInv
  <2>3. CASE Writes
    <3>1. WriterUser  BY <2>3 DEF SftpInv, WriterInv
    <3>2. /\ "read" \notin WriteCalls \cup {"none"} /\ "list" \notin WriteCalls \cup {"none"}
          /\ "listiter" \notin WriteCalls \cup {"none"}
      BY DEF WriteCalls, Paths, ChangesPath, ReadsPath, SetsPath, NamesPath
    <3>3. ~Over("read") /\ ~Over("list") /\ ~Over("listiter")  BY <3>1, <3>2 DEF Over, WriterUser
    <3>4. user.pc = "idle" /\ user.failed => ~up \/ use.fails  BY <3>1 DEF WriterUser
    <3> QED  BY <3>3, <3>4 DEF TransfersFaithful
  <2> QED  BY <2>1, <2>2, <2>3
<1> QED  BY <1>1, SftpInvariant, PTL

\* A program that writes its file from the beginning to the end finds there
\* what it has written, once write has returned or, with pipelining, once close
\* has: WritesKept.  (SFTPFile._write, _close)
THEOREM WritesAreKept == Spec => [](Writes \/ ~use.writes => WritesKept)
<1>1. SftpInv => (Writes \/ ~use.writes => WritesKept)
  <2> SUFFICES ASSUME SftpInv, Writes \/ ~use.writes  PROVE WritesKept
    OBVIOUS
  <2>1. CASE Writes  BY <2>1, WriterRight DEF SftpInv
  <2>2. CASE ~use.writes  BY <2>2 DEF WritesKept
  <2> QED  BY <2>1, <2>2
<1> QED  BY <1>1, SftpInvariant, PTL

=============================================================================
