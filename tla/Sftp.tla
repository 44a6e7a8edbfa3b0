-------------------------------- MODULE Sftp --------------------------------
(***************************************************************************)
(* SFTP of the vendored paramiko: a program with one SFTPClient and one    *)
(* SFTPFile, the threads that prefetch for the file, and SFTPServer at the *)
(* other end of a channel that holds Window packets per direction.         *)
(*                                                                         *)
(* A byte of the remote file is its number, a packet is one message, and   *)
(* the file is unbuffered, as SFTPClient.open opens it by default.         *)
(***************************************************************************)
EXTENDS Integers, SequencesExt

CONSTANTS
  Length,         (* bytes of the remote file                                 *)
  MaxRequest,     (* SFTPFile.MAX_REQUEST_SIZE                                *)
  Window,         (* packets that the channel holds in each direction         *)
  PipelineLimit,  (* writes without a reply before pipelining looks for them  *)
  Entries,        (* files in the remote folder                               *)
  Batch,          (* names in one answer to READDIR                           *)
  ReadAheads,     (* read_aheads of listdir_iter                              *)
  Uses,           (* what programs do: the calls they make, how and how often *)
  Sizes,          (* sizes of reads and writes                                *)
  MaxThreads,     (* bound on the threads that prefetch                       *)
  MayDrop         (* the connection may be lost                               *)

ASSUME SftpAssumption ==
  /\ Length \in Nat /\ Entries \in Nat
  /\ {MaxRequest, Window, Batch, ReadAheads} \subseteq Nat \ {0}
  /\ PipelineLimit \in Nat /\ MaxThreads \in Nat
  /\ Sizes \subseteq Nat \ {0}
  /\ \A u \in Uses : u.limit \in Nat /\ u.slack \in Nat /\ u.threads \in 0 .. MaxThreads
  /\ MayDrop \in BOOLEAN

VARIABLES
  use,        (* the use that this program makes of SFTP                      *)
  reqs,       (* packets on their way to the server                           *)
  resps,      (* packets on their way to the client                           *)
  up,         (* the connection stands                                        *)
  cut,        (* whether the connection was lost as a request of the program  *)
              (* waited for the window, and what became of that request       *)
  srv,        (* the server: reading, or about to send a response             *)
  files,      (* SFTPServer.file_table: the handles of files                  *)
  folders,    (* SFTPServer.folder_table: handle -> names still to be read    *)
  nextHandle, (* SFTPServer.next_handle                                       *)
  stored,     (* the bytes of the remote file                                 *)
  number,     (* SFTPClient.request_number                                    *)
  expecting,  (* SFTPClient._expecting: number -> "sync" or "file"            *)
  lock,       (* who holds SFTPClient._lock                                   *)
  file,       (* the SFTPFile; refused records that a prefetch was answered   *)
              (* with a status                                                *)
  threads,    (* the prefetch threads                                         *)
  user        (* the thread of the program                                    *)

channelVars == <<reqs, resps, up, cut>>
serverVars  == <<srv, files, folders, nextHandle, stored>>
clientVars  == <<number, expecting, lock>>
vars == <<use, channelVars, serverVars, clientVars, file, threads, user>>

Threads == 1 .. MaxThreads
Nobody  == 0
TheUser == MaxThreads + 1
NoMessage == [num |-> 0, t |-> "none", v |-> <<>>]
Least(a, b) == IF a < b THEN a ELSE b
Put(f, x, v) == [y \in DOMAIN f \cup {x} |-> IF y = x THEN v ELSE f[y]]

\* Bytes off, off + 1, ... of s, at most n of them; offsets begin at 0.
Slice(s, off, n) == SubSeq(s, off + 1, Least(off + n, Len(s)))
Content == [i \in 1 .. Length |-> i]
Listing == [i \in 1 .. Entries |-> i]

NewFile(h, pipelined) ==
  [ handle |-> h, realpos |-> 0, pipelined |-> pipelined, closed |-> FALSE,
    prefetching |-> FALSE, done |-> FALSE, data |-> <<>>, extents |-> <<>>,
    plock |-> Nobody, saved |-> "none", reqs |-> <<>>,
    refused |-> FALSE ]

Init ==
  /\ use \in Uses
  /\ reqs = <<>> /\ resps = <<>> /\ up = TRUE /\ cut = "no"
  /\ srv = [pc |-> "reading", msg |-> NoMessage]
  /\ files = {} /\ folders = <<>> /\ nextHandle = 1
  /\ stored = IF use.writes THEN <<>> ELSE Content
  /\ number = 1 /\ expecting = <<>> /\ lock = Nobody
  /\ file = NewFile(0, FALSE)
  /\ threads = [t \in Threads |-> [pc |-> "unused", chunks |-> <<>>, num |-> 0]]
  /\ user = [ pc |-> "idle", call |-> "none", calls |-> 0, from |-> 0, want |-> 0,
              got |-> <<>>, req |-> NoMessage, wait |-> 0, held |-> NoMessage,
              nums |-> <<>>, failed |-> FALSE ]

-----------------------------------------------------------------------------
(* The server, SFTPServer *)

Status(code)   == [t |-> "status", v |-> <<code>>]
Says(m, codes) == m.t = "status" /\ m.v[1] \in codes

\* The response to request m, without its effects.  FSETSTAT with a handle that
\* is not valid sends the code of the error as the type of the packet.
Answer(m) ==
  CASE m.t = "open"    -> [t |-> "handle", v |-> <<nextHandle>>]
    [] m.t = "opendir" -> [t |-> "handle", v |-> <<nextHandle>>]
    [] m.t = "close"   -> Status(IF m.h \in files \cup DOMAIN folders THEN "ok" ELSE "bad")
    [] m.t = "read"    -> LET d == Slice(stored, m.off, m.arg) IN
                          IF m.h \notin files THEN Status("bad")
                          ELSE IF d = <<>> THEN Status("eof") ELSE [t |-> "data", v |-> d]
    [] m.t = "write"   -> Status(IF m.h \in files THEN "ok" ELSE "bad")
    [] m.t = "fstat"   -> IF m.h \in files THEN [t |-> "attrs", v |-> <<Len(stored)>>]
                          ELSE Status("bad")
    [] m.t = "fsetstat" -> IF m.h \in files THEN Status("ok") ELSE [t |-> "5", v |-> <<>>]
    [] m.t \in {"stat", "lstat"} -> [t |-> "attrs", v |-> <<Len(stored)>>]
    [] m.t \in {"readlink", "realpath"} -> [t |-> "name", v |-> <<1>>]
    [] m.t \in {"remove", "rename", "mkdir", "rmdir", "symlink", "setstat"} -> Status("ok")
    [] m.t = "readdir" -> IF m.h \notin DOMAIN folders THEN Status("bad")
                          ELSE IF folders[m.h] = <<>> THEN Status("eof")
                          ELSE [t |-> "name", v |-> Slice(folders[m.h], 0, Batch)]

\* write(offset, data) of SFTPHandle: a gap is filled with zeros.
Written(s, off, d) ==
  [ i \in 1 .. (IF off + Len(d) > Len(s) THEN off + Len(d) ELSE Len(s)) |->
      IF i \in off + 1 .. off + Len(d) THEN d[i - off]
      ELSE IF i <= Len(s) THEN s[i] ELSE 0 ]

\* One turn of start_subsystem: _process handles the packet up to its response.
Serve ==
  /\ srv.pc = "reading" /\ reqs # <<>>
  /\ LET m == Head(reqs)
         fails == use.fails /\ m.t \notin {"open", "close", "read", "opendir", "readdir"}
     IN
     \E a \in {Answer(m)} \cup (IF fails THEN {Status("failure")} ELSE {}) :
       /\ reqs' = Tail(reqs)
       /\ srv' = [pc |-> "replying", msg |-> [num |-> m.num, t |-> a.t, v |-> a.v]]
       /\ files' = CASE m.t = "open"  -> files \cup {nextHandle}
                     [] m.t = "close" -> files \ {m.h}
                     [] OTHER         -> files
       /\ folders' = CASE m.t = "opendir" -> Put(folders, nextHandle, Listing)
                       [] m.t = "close"   -> [h \in DOMAIN folders \ {m.h} |-> folders[h]]
                       [] m.t = "readdir" /\ a.t = "name" ->
                            [folders EXCEPT ![m.h] = SubSeq(@, Batch + 1, Len(@))]
                       [] OTHER           -> folders
       /\ nextHandle' = IF a.t = "handle" THEN nextHandle + 1 ELSE nextHandle
       /\ stored' = IF m.t = "write" /\ Says(a, {"ok"})
                    THEN Written(stored, m.off, m.arg) ELSE stored
  /\ UNCHANGED <<use, resps, up, cut, clientVars, file, threads, user>>

\* _send_packet of the response waits until the channel has room.
Reply ==
  /\ srv.pc = "replying" /\ up /\ Len(resps) < Window
  /\ resps' = Append(resps, srv.msg)
  /\ srv' = [pc |-> "reading", msg |-> NoMessage]
  /\ UNCHANGED <<use, reqs, up, cut, files, folders, nextHandle, stored, clientVars,
                 file, threads, user>>

\* EOF: start_subsystem returns and finish_subsystem empties the tables.
ServerEnds ==
  /\ ~up
  /\ srv.pc = "replying" \/ (srv.pc = "reading" /\ reqs = <<>>)
  /\ srv' = [pc |-> "gone", msg |-> NoMessage]
  /\ files' = {} /\ folders' = <<>>
  /\ UNCHANGED <<use, channelVars, nextHandle, stored, clientVars, file, threads, user>>

\* The connection is lost; the client may still have received some packets.
Drop ==
  /\ MayDrop /\ up
  /\ up' = FALSE
  /\ cut' = IF user.pc = "send" /\ Len(reqs) = Window THEN "waiting" ELSE cut
  /\ reqs' = <<>>
  /\ \E i \in 0 .. Len(resps) : resps' = SubSeq(resps, 1, i)
  /\ UNCHANGED <<use, serverVars, clientVars, file, threads, user>>

-----------------------------------------------------------------------------
(* The client, SFTPClient and SFTPFile *)

Request(t, h, off, arg) == [t |-> t, h |-> h, off |-> off, arg |-> arg]

\* _async_request inside its lock: send is put on the channel under the next
\* number.
Transmit(req, kind) ==
  /\ up /\ Len(reqs) < Window
  /\ reqs' = Append(reqs, [num |-> number, t |-> req.t, h |-> req.h,
                           off |-> req.off, arg |-> req.arg])
  /\ expecting' = Put(expecting, number, kind)
  /\ number' = number + 1
  /\ lock' = Nobody
  /\ UNCHANGED <<resps, up, cut>>

Return(u)   == [u EXCEPT !.pc = "idle", !.failed = FALSE]
Raise(u)    == [u EXCEPT !.pc = "idle", !.failed = TRUE]
Ask(u, req) == [u EXCEPT !.pc = "acquire", !.req = req]

\* SFTPFile._read of the rest of what read(size) wants: out of the prefetched
\* data when there may be some, else with a request of its own.
ReadRest(u, f) ==
  IF f.prefetching THEN [u EXCEPT !.pc = "prefetched"]
  ELSE Ask(u, Request("read", f.handle, f.realpos,
                      Least(u.want - Len(u.got), MaxRequest)))

\* BufferedFile.read after _read gave d.
Got(u, f, d) ==
  LET v == [u EXCEPT !.got = @ \o d]
      g == [f EXCEPT !.realpos = @ + Len(d)]
  IN  /\ file' = g
      /\ user' = IF d = <<>> \/ Len(v.got) >= v.want THEN Return(v) ELSE ReadRest(v, g)

\* The next chunk that SFTPFile._write sends.  The i-th byte written is byte i.
WriteRest(u, f) ==
  Ask(u, Request("write", f.handle, f.realpos,
                 [i \in 1 .. Least(u.want, MaxRequest) |-> f.realpos + i]))

Begin(c) == [user EXCEPT !.call = c, !.calls = @ + 1, !.from = file.realpos,
                         !.want = 0, !.got = <<>>, !.nums = <<>>, !.wait = 0]

MayCall(c) == user.pc = "idle" /\ user.calls < use.limit /\ c \in use.calls
IsOpen     == file.handle # 0 /\ ~file.closed

\* SFTPClient.open
CallOpen ==
  /\ MayCall("open") /\ file.handle = 0
  /\ user' = Ask(Begin("open"), Request("open", 0, 0, 0))
  /\ UNCHANGED <<use, channelVars, serverVars, clientVars, file, threads>>

\* read(size) of the file
CallRead(size) ==
  /\ MayCall("read") /\ IsOpen
  /\ user' = ReadRest([Begin("read") EXCEPT !.want = size], file)
  /\ UNCHANGED <<use, channelVars, serverVars, clientVars, file, threads>>

\* write(data) of the file, in as many chunks as MAX_REQUEST_SIZE asks for
CallWrite(size) ==
  /\ MayCall("write") /\ IsOpen /\ file.realpos + size <= Length
  /\ user' = WriteRest([Begin("write") EXCEPT !.want = size], file)
  /\ UNCHANGED <<use, channelVars, serverVars, clientVars, file, threads>>

\* seek(offset): nothing is buffered, so that only the position changes.
CallSeek(off) ==
  /\ MayCall("seek") /\ IsOpen
  /\ file' = [file EXCEPT !.realpos = off]
  /\ user' = Return(Begin("seek"))
  /\ UNCHANGED <<use, channelVars, serverVars, clientVars, threads>>

\* The calls of SFTPClient that are one request about a path: the server answers
\* with a status, with attributes or with a name.
ChangesPath == {"remove", "rename", "mkdir", "rmdir"}
ReadsPath   == {"stat", "lstat"}
SetsPath    == {"symlink", "setstat"}
NamesPath   == {"readlink", "realpath"}

CallPath(t) ==
  /\ MayCall(t)
  /\ user' = Ask(Begin(t), Request(t, 0, 0, 0))
  /\ UNCHANGED <<use, channelVars, serverVars, clientVars, file, threads>>

\* stat() of the file; chmod, chown, utime and truncate are one FSETSTAT.
CallFile(t) ==
  /\ MayCall(t) /\ IsOpen
  /\ user' = Ask(Begin(t), Request(t, file.handle, 0, 0))
  /\ UNCHANGED <<use, channelVars, serverVars, clientVars, file, threads>>

\* The chunks of MAX_REQUEST_SIZE that cover the bytes from off up to end.
Chunks(off, end) ==
  [ i \in 1 .. (IF end > off THEN (end - off + MaxRequest - 1) \div MaxRequest ELSE 0) |->
      [off |-> off + (i - 1) * MaxRequest,
       len |-> Least(MaxRequest, end - off - (i - 1) * MaxRequest)] ]

\* _start_prefetch: a thread is started even when it has nothing to ask for.
StartPrefetch(chunks) ==
  \E t \in 1 .. use.threads :
    /\ threads[t].pc = "unused" /\ \A s \in Threads : s < t => threads[s].pc # "unused"
    /\ threads' = [threads EXCEPT ![t] = [@ EXCEPT !.pc = "next", !.chunks = chunks]]

\* prefetch(file_size), with the size of an earlier stat: the file may have
\* lost up to use.slack bytes since.
CallPrefetch(extra) ==
  /\ MayCall("prefetch") /\ IsOpen
  /\ LET chunks == Chunks(file.realpos, Length + extra) IN
     IF chunks = <<>> THEN UNCHANGED <<threads, file>>
     ELSE /\ StartPrefetch(chunks)
          /\ file' = [file EXCEPT !.prefetching = TRUE, !.done = FALSE]
  /\ user' = Return(Begin("prefetch"))
  /\ UNCHANGED <<use, channelVars, serverVars, clientVars>>

\* _data_in_prefetch_buffers: the greatest offset at or before off, if its
\* data reach that far; -1 is None.
BufferAt(off) ==
  LET before == {i \in DOMAIN file.data : i <= off}
      index  == CHOOSE i \in before : \A j \in before : j <= i
  IN  IF before = {} THEN -1
      ELSE IF off - index >= Len(file.data[index]) THEN -1 ELSE index

\* _data_in_prefetch_requests: all bytes are being asked for.
Requested(off, size) ==
  \A b \in off .. off + size - 1 :
    \E n \in DOMAIN file.extents :
      b \in file.extents[n].off .. file.extents[n].off + file.extents[n].len - 1

\* readv of one block.  The offset 0 of a buffer is taken for None.
CallReadv(off, size) ==
  /\ MayCall("readv") /\ IsOpen /\ off + size <= Length
  /\ StartPrefetch(IF BufferAt(off) > 0 \/ Requested(off, size) THEN <<>>
                   ELSE Chunks(off, off + size))
  /\ LET f == [file EXCEPT !.prefetching = TRUE, !.done = FALSE, !.realpos = off] IN
     /\ file' = f
     /\ user' = ReadRest([Begin("read") EXCEPT !.want = size, !.from = off], f)
  /\ UNCHANGED <<use, channelVars, serverVars, clientVars>>

\* SFTPFile.close.  With pipelining, _finish_responses comes first.
CallClose ==
  /\ MayCall("close") /\ IsOpen
  /\ user' = [Begin("close") EXCEPT !.pc = "finish"]
  /\ UNCHANGED <<use, channelVars, serverVars, clientVars, file, threads>>

\* listdir_attr and listdir_iter
CallList(c) ==
  /\ MayCall(c)
  /\ user' = Ask(Begin(c), Request("opendir", 0, 0, 0))
  /\ UNCHANGED <<use, channelVars, serverVars, clientVars, file, threads>>

-----------------------------------------------------------------------------
(* A call that goes on *)

AcquireLock ==
  /\ user.pc = "acquire" /\ lock = Nobody
  /\ lock' = TheUser
  /\ user' = [user EXCEPT !.pc = "send"]
  /\ UNCHANGED <<use, channelVars, serverVars, number, expecting, file, threads>>

\* _request waits for its response, _write goes on without, and listdir_iter
\* sends a number of requests before it looks for the first response.
SendRequest ==
  /\ user.pc = "send" /\ lock = TheUser
  /\ Transmit(user.req, "sync")
  /\ CASE user.call = "write" ->
            /\ file' = [file EXCEPT !.reqs = Append(@, number)]
            /\ user' = [user EXCEPT !.pc = "written"]
       [] user.call = "listiter" /\ user.req.t = "readdir" ->
            /\ user' = [user EXCEPT !.nums = Append(@, number),
                          !.pc = IF Len(user.nums) + 1 < ReadAheads THEN "acquire" ELSE "raw"]
            /\ UNCHANGED file
       [] OTHER ->
            /\ user' = [user EXCEPT !.pc = "wait", !.wait = number]
            /\ UNCHANGED file
  /\ UNCHANGED <<use, serverVars, threads>>

\* EOFError of a request: BufferedFile.read takes it for the end of the file and
\* listdir for that of the folder, close keeps it to itself, the others raise.
EndOfFile(u) ==
  CASE u.call \in {"read", "close"} -> Return(u)
    [] u.req.t = "readdir"          -> Ask(u, Request("close", u.from, 0, 0))
    [] OTHER                        -> Raise(u)

\* After the number is expected, send raises socket.error on a closed channel, or
\* returns 0 when the channel was closed while it waited for the window, of which
\* _write_all makes an EOFError.  Only close keeps a socket.error to itself.
SendFails ==
  /\ user.pc = "send" /\ ~up
  /\ lock' = Nobody
  /\ expecting' = Put(expecting, number, "sync")
  /\ \/ /\ user' = IF user.call = "close" THEN Return(user) ELSE Raise(user)
        /\ cut' = "no"
     \/ /\ cut = "waiting"
        /\ user' = EndOfFile(user)
        /\ cut' = "eof"
  /\ UNCHANGED <<use, reqs, resps, up, serverVars, number, file, threads>>

\* The awaited response m of a call.
Response(m) ==
  IF Says(m, {"failure", "bad"})
  THEN /\ user' = IF user.call = "close" THEN Return(user) ELSE Raise(user)
       /\ UNCHANGED file
  ELSE CASE user.call = "open" ->
              /\ file' = NewFile(m.v[1], use.pipelined)
              /\ user' = Return(user)
         [] user.call = "read" ->
              Got(user, file, IF m.t = "data" THEN m.v ELSE <<>>)
         [] user.call = "write" ->
              /\ user' = [user EXCEPT !.pc = "collect"]
              /\ UNCHANGED file
         [] user.call \in ChangesPath \cup ReadsPath \cup SetsPath \cup NamesPath
                         \cup {"fstat", "fsetstat"} ->
              /\ user' = Return([user EXCEPT !.got = m.v])
              /\ UNCHANGED file
         [] user.call = "close" ->
              /\ user' = Return(user)
              /\ UNCHANGED file
         [] user.call \in {"list", "listiter"} ->
              /\ user' =
                   CASE m.t = "handle"  -> Ask([user EXCEPT !.from = m.v[1]],
                                               Request("readdir", m.v[1], 0, 0))
                     [] m.t = "name"    -> Ask([user EXCEPT !.got = @ \o m.v], user.req)
                     [] Says(m, {"eof"}) -> Ask(user, Request("close", user.from, 0, 0))
                     [] OTHER           -> Return(user)
              /\ UNCHANGED file

\* Where a single look for a response leads back to, with _check_exception.
AfterPoll(f) ==
  IF f.saved = "none"
  THEN /\ file' = f
       /\ user' = [user EXCEPT !.pc = IF user.call = "close" THEN "finish" ELSE "prefetched",
                               !.held = NoMessage]
  ELSE /\ file' = [f EXCEPT !.saved = "none"]
       /\ user' = [ IF f.saved = "eof" /\ user.call = "read" THEN Return(user) ELSE Raise(user)
                    EXCEPT !.held = NoMessage ]

\* _read_response(waitfor): wait = 0 is None.
Dispatched(f) ==
  IF user.wait = 0 THEN AfterPoll(f) ELSE file' = f /\ UNCHANGED user

ReadResponse ==
  /\ user.pc \in {"wait", "poll"} /\ resps # <<>>
  /\ LET m == Head(resps) IN
     /\ resps' = Tail(resps)
     /\ expecting' = [n \in DOMAIN expecting \ {m.num} |-> expecting[n]]
     /\ CASE m.num \notin DOMAIN expecting -> Dispatched(file)
          [] m.num \in DOMAIN expecting /\ m.num = user.wait -> Response(m)
          [] m.num \in DOMAIN expecting /\ m.num # user.wait /\ expecting[m.num] = "sync" ->
               Dispatched(file)
          [] m.num \in DOMAIN expecting /\ m.num # user.wait /\ expecting[m.num] = "file" ->
               IF m.t = "status"
               THEN Dispatched([file EXCEPT !.saved = IF Says(m, {"eof"}) THEN "eof" ELSE "failure",
                                       !.refused = TRUE])
               ELSE /\ user' = [user EXCEPT !.pc = "store", !.held = m]
                    /\ UNCHANGED file
  /\ UNCHANGED <<use, reqs, up, cut, serverVars, number, lock, threads>>

\* SFTPFile._async_response with data, once _prefetch_lock is free.  A number
\* without extent is a KeyError.
StorePrefetched ==
  /\ user.pc = "store" /\ file.plock = Nobody
  /\ LET n == user.held.num IN
     IF n \notin DOMAIN file.extents
     THEN /\ user' = [Raise(user) EXCEPT !.held = NoMessage]
          /\ UNCHANGED file
     ELSE LET left == [k \in DOMAIN file.extents \ {n} |-> file.extents[k]]
              f == [file EXCEPT !.data = Put(@, file.extents[n].off, user.held.v),
                                !.extents = left,
                                !.done = @ \/ left = <<>>]
          IN  IF user.wait = 0 THEN AfterPoll(f)
              ELSE /\ file' = f
                   /\ user' = [user EXCEPT !.pc = "wait", !.held = NoMessage]
  /\ UNCHANGED <<use, channelVars, serverVars, clientVars, threads>>

\* EOF while a response is awaited: SSHException, which close passes on.
ReadFails ==
  /\ user.pc \in {"wait", "poll"} /\ resps = <<>> /\ ~up
  /\ user' = Raise(user)
  /\ UNCHANGED <<use, channelVars, serverVars, clientVars, file, threads>>

\* _read_prefetch
ReadPrefetch ==
  /\ user.pc = "prefetched"
  /\ LET off  == BufferAt(file.realpos)
         size == Least(user.want - Len(user.got), MaxRequest)
         skip == file.realpos - off
         d    == file.data[off]
         rest == [o \in DOMAIN file.data \ {off} |-> file.data[o]]
         head == IF skip > 0 THEN Put(rest, off, SubSeq(d, 1, skip)) ELSE rest
         tail == IF skip + size < Len(d)
                 THEN Put(head, file.realpos + size, SubSeq(d, skip + size + 1, Len(d))) ELSE head
     IN
     IF off # -1
     THEN Got(user, [file EXCEPT !.data = tail], Slice(d, skip, size))
     ELSE IF file.done
     THEN LET f == [file EXCEPT !.prefetching = FALSE] IN
          file' = f /\ user' = ReadRest(user, f)
     ELSE /\ user' = [user EXCEPT !.pc = "poll", !.wait = 0]
          /\ UNCHANGED file
  /\ UNCHANGED <<use, channelVars, serverVars, clientVars, threads>>

\* _write returns, and _write_all goes on behind the chunk.
WroteChunk ==
  LET n == Len(user.req.arg)
      f == [file EXCEPT !.realpos = @ + n]
      u == [user EXCEPT !.want = @ - n]
  IN  file' = f /\ user' = IF u.want = 0 THEN Return(u) ELSE WriteRest(u, f)

\* A mutant: without pipelining, too, the replies are left for later.
AfterWritePipelined == user.pc = "written" /\ WroteChunk
                       /\ UNCHANGED <<use, channelVars, serverVars, clientVars, threads>>

\* _write after _async_request: are the replies collected now?
AfterWrite ==
  /\ user.pc = "written"
  /\ IF ~file.pipelined \/ (Len(file.reqs) > PipelineLimit /\ resps # <<>>)
     THEN user' = [user EXCEPT !.pc = "collect"] /\ UNCHANGED file
     ELSE WroteChunk
  /\ UNCHANGED <<use, channelVars, serverVars, clientVars, threads>>

Collect ==
  /\ user.pc = "collect"
  /\ IF file.reqs # <<>>
     THEN /\ user' = [user EXCEPT !.pc = "wait", !.wait = Head(file.reqs)]
          /\ file' = [file EXCEPT !.reqs = Tail(@)]
     ELSE WroteChunk
  /\ UNCHANGED <<use, channelVars, serverVars, clientVars, threads>>

\* _finish_responses, and then the file is closed and CLOSE is sent.
Finish ==
  /\ user.pc = "finish"
  /\ IF file.pipelined /\ \E n \in DOMAIN expecting : expecting[n] = "file"
     THEN user' = [user EXCEPT !.pc = "poll", !.wait = 0] /\ UNCHANGED file
     ELSE /\ file' = [file EXCEPT !.closed = TRUE]
          /\ user' = Ask(user, Request("close", file.handle, 0, 0))
  /\ UNCHANGED <<use, channelVars, serverVars, clientVars, threads>>

\* listdir_iter takes the packets off the channel itself, one for each of its
\* requests, and leaves their numbers in _expecting.
ReadRaw ==
  /\ user.pc = "raw" /\ resps # <<>>
  /\ LET m == Head(resps)
         u == [user EXCEPT !.nums = Tail(@)]
     IN
     /\ resps' = Tail(resps)
     /\ user' =
          IF m.t = "status"
          THEN Ask(u, Request("close", user.from, 0, 0))
          ELSE LET v == [u EXCEPT !.got = @ \o m.v] IN
               IF v.nums = <<>> THEN Ask(v, user.req) ELSE v
  /\ UNCHANGED <<use, reqs, up, cut, serverVars, clientVars, file, threads>>

\* EOF on the channel is taken for the end of the folder; the CLOSE fails.
RawFails ==
  /\ user.pc = "raw" /\ resps = <<>> /\ ~up
  /\ user' = Ask(user, Request("close", user.from, 0, 0))
  /\ UNCHANGED <<use, channelVars, serverVars, clientVars, file, threads>>

-----------------------------------------------------------------------------
(* _prefetch_thread *)

Thread(t, pc) == threads' = [threads EXCEPT ![t].pc = pc]

\* A mutant: the request is sent without the lock of the extents.
TakeNoPrefetchLock(t) ==
  /\ threads[t].pc = "next"
  /\ Thread(t, IF threads[t].chunks = <<>> THEN "over" ELSE "acquire")
  /\ UNCHANGED <<use, channelVars, serverVars, clientVars, file, user>>

TakePrefetchLock(t) ==
  /\ threads[t].pc = "next"
  /\ IF threads[t].chunks = <<>>
     THEN Thread(t, "over") /\ UNCHANGED file
     ELSE /\ file.plock = Nobody
          /\ file' = [file EXCEPT !.plock = t]
          /\ Thread(t, "acquire")
  /\ UNCHANGED <<use, channelVars, serverVars, clientVars, user>>

TakeLock(t) ==
  /\ threads[t].pc = "acquire" /\ lock = Nobody
  /\ lock' = t
  /\ Thread(t, "send")
  /\ UNCHANGED <<use, channelVars, serverVars, number, expecting, file, user>>

SendPrefetch(t) ==
  /\ threads[t].pc = "send" /\ lock = t
  /\ LET c == Head(threads[t].chunks) IN
     Transmit(Request("read", file.handle, c.off, c.len), "file")
  /\ threads' = [threads EXCEPT ![t].pc = "sent", ![t].num = number]
  /\ UNCHANGED <<use, serverVars, file, user>>

NoteExtent(t) ==
  /\ threads[t].pc = "sent"
  /\ file' = [file EXCEPT !.extents = Put(@, threads[t].num, Head(threads[t].chunks)),
                          !.plock = Nobody]
  /\ threads' = [threads EXCEPT ![t].pc = "next", ![t].chunks = Tail(@)]
  /\ UNCHANGED <<use, channelVars, serverVars, clientVars, user>>

\* A mutant: no finally around the send.
PrefetchDiesLocked(t) ==
  /\ threads[t].pc = "send" /\ ~up
  /\ expecting' = Put(expecting, number, "file")
  /\ Thread(t, "over")
  /\ UNCHANGED <<use, channelVars, serverVars, number, lock, file, user>>

\* send raises: both locks are released and the thread ends.
PrefetchDies(t) ==
  /\ threads[t].pc = "send" /\ ~up
  /\ lock' = Nobody
  /\ expecting' = Put(expecting, number, "file")
  /\ file' = [file EXCEPT !.plock = Nobody]
  /\ Thread(t, "over")
  /\ UNCHANGED <<use, channelVars, serverVars, number, user>>

-----------------------------------------------------------------------------
Call ==
  \/ CallOpen \/ CallClose
  \/ \E t \in ChangesPath \cup ReadsPath \cup SetsPath \cup NamesPath : CallPath(t)
  \/ \E t \in {"fstat", "fsetstat"} : CallFile(t)
  \/ \E n \in Sizes : CallRead(n) \/ CallWrite(n)
  \/ \E off \in 0 .. Length : CallSeek(off) \/ \E n \in Sizes : CallReadv(off, n)
  \/ \E extra \in 0 .. use.slack : CallPrefetch(extra)
  \/ \E c \in {"list", "listiter"} : CallList(c)

UserStep ==
  \/ AcquireLock \/ SendRequest \/ SendFails \/ ReadResponse \/ StorePrefetched
  \/ ReadFails \/ ReadPrefetch \/ AfterWrite \/ Collect \/ Finish \/ ReadRaw \/ RawFails

ThreadStep(t) ==
  \/ TakePrefetchLock(t) \/ TakeLock(t) \/ SendPrefetch(t) \/ NoteExtent(t)
  \/ PrefetchDies(t)

ServerStep == Serve \/ Reply \/ ServerEnds

Next == Call \/ UserStep \/ (\E t \in Threads : ThreadStep(t)) \/ ServerStep \/ Drop

Spec == Init /\ [][Next]_vars

\* The threads are scheduled and both ends go on.  No thread asks for a lock
\* for ever, so that weak fairness is enough for a lock too.  No program has to
\* make a call.
Fairness ==
  WF_vars(UserStep) /\ WF_vars(ServerStep) /\ \A t \in Threads : WF_vars(ThreadStep(t))

FairSpec == Spec /\ Fairness

-----------------------------------------------------------------------------
Over(c) == user.pc = "idle" /\ user.call = c /\ ~user.failed

\* A read gives the bytes of the file from where it began, short only at the
\* end, or when the server has refused a prefetch, wherever that was, or when the
\* connection was lost as its request waited for the window; a listing gives
\* every name once; and a call fails only for the loss of the connection or
\* because the server refused a request.  Prefetched data arrive on other
\* requests, sent by other threads, in any mixture with them.
\* (BufferedFile.read, SFTPFile._read_prefetch, _async_response,
\* SFTPClient._read_response)
TransfersFaithful ==
  /\ Over("read") =>
       LET due == Slice(Content, user.from, user.want) IN
       user.got = due \/ ((file.refused \/ cut = "eof") /\ IsPrefix(user.got, due))
  /\ Over("list") \/ Over("listiter") => user.got = Listing
  /\ user.pc = "idle" /\ user.failed => ~up \/ file.refused \/ use.fails

\* Docstring of BufferedFile.read (file.py:125), "Read at most size bytes from the
\* file (less if we hit the end of the file first)": where the server refuses
\* nothing, what is less ends where the file does.  (A request that waits for the
\* window as the connection is lost ends a read as well.)
ShortOnlyAtEnd ==
  Over("read") /\ ~file.refused =>
    Len(user.got) = user.want \/ user.from + Len(user.got) >= Length

\* Without pipelining, write returns when its bytes are in the file.  With
\* pipelining they are there once close has returned, if no write failed.
\* (SFTPFile._write, _close)
WritesKept ==
  LET Kept == Slice(stored, 0, file.realpos) = Slice(Content, 0, file.realpos) IN
  /\ use.writes /\ ~file.pipelined => Kept
  /\ use.writes /\ file.closed /\ user.pc = "idle" /\ up /\ ~use.fails => Kept

\* A response is owed that nobody will deliver: it has been read by another
\* call, it was an error, or it was never asked for.
Orphaned ==
  \/ \E i \in DOMAIN file.reqs : file.reqs[i] \notin DOMAIN expecting
  \/ user.pc = "wait" /\ user.wait \notin DOMAIN expecting
  \/ file.refused
  \/ /\ file.prefetching /\ ~file.done /\ file.extents = <<>>
     /\ \A t \in Threads : threads[t].chunks = <<>>

\* A call returns, also when the connection is lost, unless it waits for a
\* response that is owed to nobody.
CallsReturn == user.pc # "idle" ~> (user.pc = "idle" \/ Orphaned)
=============================================================================
