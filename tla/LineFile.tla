------------------------------ MODULE LineFile ------------------------------
(***************************************************************************)
(* BufferedFile of the vendored paramiko, over a stream that delivers its  *)
(* bytes in pieces of any size, and Script.expect of sshim, the line       *)
(* editor on top of it.                                                    *)
(*                                                                         *)
(* Each iteration of a loop that reads from the stream is a step.  A write *)
(* may raise when part of the data is out.                                 *)
(***************************************************************************)
EXTENDS Integers, SequencesExt

CONSTANTS
  FileModes,       (* arguments of _set_mode: [letters, bufsize]              *)
  Streams,         (* what there is to be read                                *)
  Texts,           (* what a program writes at once                           *)
  Sizes,           (* sizes that it asks for; -1 for none                     *)
  DefaultBufsize,  (* _DEFAULT_BUFSIZE: 8192                                  *)
  MaxGiven         (* bound: bytes to be written, and after an error those    *)
                   (* that are out before one writes again                        *)

ASSUME LineFileAssumption ==
  /\ DefaultBufsize \in Nat \ {0} /\ MaxGiven \in Nat /\ Sizes \subseteq Nat \cup {-1}
  /\ \A m \in FileModes : m.bufsize \in Int /\ m.letters \subseteq {"r", "w", "a", "+", "b", "U"}

VARIABLES
  flags,     (* _flags and _bufsize, as _set_mode sets them                   *)
  stream,    (* all that the stream has to deliver                            *)
  left,      (* what it has not delivered yet                                 *)
  rbuffer, trailingCr, newlines,     (* _rbuffer, _at_trailing_cr, newlines   *)
  wbuffer, position, realpos, closed,
  call,      (* the call in progress                                          *)
  got,       (* all that calls have returned                                  *)
  last,      (* the last thing returned, and by which call                    *)
  plain,     (* no call but readline without a size was made                  *)
  given, written,  (* what was to be written, and what was                        *)
  broken     (* a write has raised                                            *)

readVars  == <<stream, left, rbuffer, trailingCr, newlines, call, got, last, plain>>
writeVars == <<wbuffer, given, written, broken>>
fileVars  == <<flags, readVars, writeVars, position, realpos, closed>>

CR == "\r"
LF == "\n"

NoCall == [op |-> "none"]

SetMode(m) ==
  [ buffered |-> m.bufsize >= 1, lines |-> m.bufsize = 1,
    bufsize |-> IF m.bufsize > 1 THEN m.bufsize ELSE DefaultBufsize,
    reads |-> m.letters \cap {"r", "+"} # {}, writes |-> m.letters \cap {"w", "+", "a"} # {},
    universal |-> "U" \in m.letters ]

FileInit ==
  /\ \E m \in FileModes : flags = SetMode(m)
  /\ stream \in Streams /\ left = stream
  /\ rbuffer = <<>> /\ trailingCr = FALSE /\ newlines = {}
  /\ wbuffer = <<>> /\ position = 0 /\ realpos = 0 /\ closed = FALSE
  /\ call = NoCall /\ got = <<>> /\ last = NoCall /\ plain = TRUE
  /\ given = <<>> /\ written = <<>> /\ broken = FALSE

Least(a, b) == IF a < b THEN a ELSE b
First(s, n) == SubSeq(s, 1, Least(n, Len(s)))
After(s, n) == SubSeq(s, n + 1, Len(s))

MayRead == call = NoCall /\ ~closed /\ flags.reads

-----------------------------------------------------------------------------
(* Reading *)

\* A call returns data, and the rest stays in the buffer.
Return(data, rest) ==
  /\ rbuffer' = rest /\ position' = position + Len(data)
  /\ got' = got \o data /\ last' = [op |-> call.op, size |-> call.size, data |-> data]
  /\ call' = NoCall

\* self._read(n): any piece of what is left
Piece(n) == { First(left, k) : k \in 1 .. Least(n, Len(left)) }

CallRead(size) ==
  /\ MayRead /\ plain' = FALSE
  /\ IF size < 0
     THEN /\ call' = [op |-> "readall", size |-> size, line |-> rbuffer]
          /\ rbuffer' = <<>>
     ELSE /\ call' = [op |-> "read", size |-> size, line |-> <<>>]
          /\ UNCHANGED rbuffer
  /\ UNCHANGED <<flags, stream, left, trailingCr, newlines, got, last, position, realpos, closed,
                 writeVars>>

ReadLoop ==
  /\ call.op = "read"
  /\ \/ /\ Len(rbuffer) >= call.size \/ left = <<>>
        /\ Return(First(rbuffer, call.size), After(rbuffer, call.size))
        /\ UNCHANGED <<left, realpos>>
     \/ /\ Len(rbuffer) < call.size
        /\ LET lacks == call.size - Len(rbuffer) IN
           \E d \in Piece(IF flags.buffered /\ flags.bufsize > lacks THEN flags.bufsize ELSE lacks) :
             /\ rbuffer' = rbuffer \o d /\ left' = After(left, Len(d))
             /\ realpos' = realpos + Len(d)
        /\ UNCHANGED <<call, got, last, position>>
  /\ UNCHANGED <<flags, stream, trailingCr, newlines, plain, closed, writeVars>>

ReadAllLoop ==
  /\ call.op = "readall"
  /\ \/ /\ left = <<>> /\ Return(call.line, <<>>)
        /\ UNCHANGED <<left, realpos>>
     \/ /\ \E d \in Piece(DefaultBufsize) :
             /\ call' = [call EXCEPT !.line = @ \o d] /\ left' = After(left, Len(d))
             /\ realpos' = realpos + Len(d)
        /\ UNCHANGED <<rbuffer, got, last, position>>
  /\ UNCHANGED <<flags, stream, trailingCr, newlines, plain, closed, writeVars>>

CallReadline(size) ==
  /\ MayRead
  /\ call' = [op |-> "readline", size |-> size, line |-> rbuffer]
  /\ plain' = (plain /\ size = -1)
  /\ UNCHANGED <<flags, stream, left, rbuffer, trailingCr, newlines, got, last, position, realpos,
                 closed, writeVars>>

Record(seen, newline) == IF flags.universal THEN seen \cup {newline} ELSE seen

\* The first newline of the line: a linefeed or, in universal mode, also a
\* carriage return.  0 if there is none.
NewlineAt(line) ==
  LET at == {i \in DOMAIN line : line[i] = LF \/ (flags.universal /\ line[i] = CR)}
  IN  IF at = {} THEN 0 ELSE CHOOSE i \in at : \A j \in at : i <= j

\* Seeded bug: what the size has cut off is lost when the line ends before.
EndLineDropRest(line, rest, seen, eats) ==
  LET at == NewlineAt(line)
      next == at + IF line[at] = CR /\ First(After(line, at), 1) = <<LF>> THEN 1 ELSE 0
      newline == SubSeq(line, at, next)
      buffer == After(line, next)
  IN  IF at = 0 THEN Return(line, rest) /\ newlines' = seen /\ trailingCr' = (trailingCr /\ ~eats)
      ELSE /\ Return(First(line, at - 1) \o <<LF>>, buffer)
           /\ trailingCr' = (buffer = <<>> /\ newline = <<CR>>)
           /\ newlines' = IF buffer = <<>> /\ newline = <<CR>> THEN seen ELSE Record(seen, newline)

\* Cut the line after its newline, which becomes a linefeed; rest is what a
\* size has cut off before.
EndLine(line, rest, seen, eats) ==
  LET at == NewlineAt(line)
      next == at + IF line[at] = CR /\ First(After(line, at), 1) = <<LF>> THEN 1 ELSE 0
      newline == SubSeq(line, at, next)
      buffer == After(line, next) \o rest
  IN  IF at = 0 THEN Return(line, rest) /\ newlines' = seen /\ trailingCr' = (trailingCr /\ ~eats)
      ELSE /\ Return(First(line, at - 1) \o <<LF>>, buffer)
           /\ trailingCr' = (buffer = <<>> /\ newline = <<CR>>)
           /\ newlines' = IF buffer = <<>> /\ newline = <<CR>> THEN seen ELSE Record(seen, newline)

ReadlineLoop ==
  LET eats == trailingCr /\ flags.universal /\ call.line # <<>>
      crlf == eats /\ Head(call.line) = LF
      line == IF crlf THEN Tail(call.line) ELSE call.line
      seen == IF eats THEN Record(newlines, IF crlf THEN <<CR, LF>> ELSE <<CR>>) ELSE newlines
      full == call.size >= 0 /\ Len(line) >= call.size
      n    == IF call.size >= 0 THEN call.size - Len(line) ELSE flags.bufsize
  IN  /\ call.op = "readline"
      /\ \/ /\ full \/ NewlineAt(line) > 0
            /\ IF full THEN EndLine(First(line, call.size), After(line, call.size), seen, eats)
               ELSE EndLine(line, <<>>, seen, eats)
            /\ UNCHANGED <<left, realpos>>
         \/ /\ ~full /\ NewlineAt(line) = 0 /\ left = <<>>
            /\ Return(line, <<>>)
            /\ trailingCr' = (trailingCr /\ ~eats) /\ newlines' = seen
            /\ UNCHANGED <<left, realpos>>
         \/ /\ ~full /\ NewlineAt(line) = 0
            /\ \E d \in Piece(n) :
                 /\ call' = [call EXCEPT !.line = line \o d] /\ left' = After(left, Len(d))
                 /\ realpos' = realpos + Len(d)
            /\ trailingCr' = (trailingCr /\ ~eats) /\ newlines' = seen
            /\ UNCHANGED <<rbuffer, got, last, position>>
      /\ UNCHANGED <<flags, stream, plain, closed, writeVars>>

-----------------------------------------------------------------------------
(* Writing *)

\* _write_all(data), with the buffer afterwards; or it raises with only the
\* first part out, and the buffer is as it was.
WriteOut(ok, data, buffer, unchanged) ==
  \E k \in 0 .. Len(data) :
    /\ Len(written) <= MaxGiven
    /\ IF ok THEN k = Len(data) ELSE k < Len(data)
    /\ written' = written \o First(data, k)
    /\ position' = position + k /\ realpos' = realpos + k
    /\ wbuffer' = IF ok THEN buffer ELSE unchanged
    /\ broken' = (broken \/ ~ok)

LastLinefeed(data) ==
  LET at == {i \in DOMAIN data : data[i] = LF}
  IN  IF at = {} THEN 0 ELSE CHOOSE i \in at : \A j \in at : j <= i

\* A line buffered file writes up to the last linefeed of the new data; it
\* returns before the size of the buffer is looked at.
WriteText(data) ==
  LET all == wbuffer \o data
      out == IF flags.lines
               THEN IF LastLinefeed(data) > 0 THEN Len(wbuffer) + LastLinefeed(data) ELSE 0
             ELSE IF Len(all) >= flags.bufsize THEN Len(all) ELSE 0
  IN  /\ call = NoCall /\ ~closed /\ flags.writes
      /\ Len(given) + Len(data) <= MaxGiven
      /\ given' = given \o data
      /\ \E ok \in BOOLEAN :
           IF ~flags.buffered THEN WriteOut(ok, data, wbuffer, wbuffer)
           ELSE WriteOut(ok, First(all, out), After(all, out), all)
      /\ UNCHANGED <<flags, readVars, closed>>

Flush ==
  /\ call = NoCall /\ ~closed
  /\ \E ok \in BOOLEAN : WriteOut(ok, wbuffer, <<>>, wbuffer)
  /\ UNCHANGED <<flags, readVars, given, closed>>

\* close flushes first: if that raises, the file stays open.
CloseFile ==
  /\ call = NoCall /\ ~closed
  /\ \E ok \in BOOLEAN : WriteOut(ok, wbuffer, <<>>, wbuffer) /\ closed' = ok
  /\ UNCHANGED <<flags, readVars, given>>

FileNext ==
  \/ \E size \in Sizes : CallRead(size) \/ CallReadline(size)
  \/ ReadLoop \/ ReadAllLoop \/ ReadlineLoop
  \/ \E data \in Texts : WriteText(data)
  \/ Flush \/ CloseFile

FileSpec == FileInit /\ [][FileNext]_fileVars

-----------------------------------------------------------------------------
(* Script.expect: the keys of a line, one read(1) each                      *)

EOT == "^D"
Tab == "\t"
DEL == "del"
ESC == "esc"
BS == "bs"
Rubout == <<BS, " ", BS>>

\* What the line is in the end, what was sent back, and which keys are left.
RECURSIVE Expect(_, _, _)
Expect(keys, buffer, echo) ==
  LET key == Head(keys)
      rest == Tail(keys)
  IN  IF keys = <<>> \/ key = EOT
        THEN [end |-> "EOFError", line |-> buffer, echo |-> echo, rest |-> After(keys, 1)]
      ELSE IF key \in {CR, LF}
        THEN [end |-> "line", line |-> buffer, echo |-> echo \o <<CR, LF>>, rest |-> rest]
      ELSE IF key = Tab THEN Expect(rest, buffer, echo)
      ELSE IF key = DEL
        THEN IF buffer = <<>> THEN Expect(rest, buffer, echo)
             ELSE Expect(rest, First(buffer, Len(buffer) - 1), echo \o Rubout)
      \* The key after ESC is read before it is looked at, and lost if it is no [.
      ELSE IF key = ESC /\ First(rest, 1) = <<"[">> THEN Expect(After(rest, 2), buffer, echo)
      ELSE Expect(IF key = ESC THEN After(rest, 1) ELSE rest,
                  Append(buffer, key), Append(echo, key))

-----------------------------------------------------------------------------
(* What readers and writers may rely on *)

Newlines(s) ==
  LET Follows(i) == i > 1 /\ s[i - 1] = CR /\ s[i] = LF
      Kept == SelectSeq([i \in DOMAIN s |-> i], LAMBDA i : ~Follows(i))
  IN  [i \in DOMAIN Kept |-> IF s[Kept[i]] = CR THEN LF ELSE s[Kept[i]]]

\* Readers get the stream, whole and in order, wherever it is cut into pieces
\* and whichever calls they mix; readline alone turns every newline into a
\* linefeed.  A line ends with its linefeed, with the stream or at the size.
\* Writers find their data, whole and in order, in the file or in the buffer,
\* as long as no write has raised: flush then leaves in the buffer what is
\* already out.  The buffer of a line buffered file holds no whole line, but a
\* part of one of any length; that of another stays below its size
\* (file.py:66-82, 123-262, 325-361, 453-465).
LinesWhole ==
  /\ ~flags.universal /\ call = NoCall =>
       stream = got \o rbuffer \o left
  /\ ~flags.universal /\ call = NoCall /\ given = <<>> =>
       position = Len(got) /\ realpos = Len(got \o rbuffer)
  /\ flags.universal /\ plain =>
       /\ IsPrefix(got, Newlines(stream))
       /\ last.op = "readline" /\ last.data = <<>> => got = Newlines(stream)
  /\ last.op = "readline" =>
       LET at == {i \in DOMAIN last.data : last.data[i] = LF} IN
       /\ at \subseteq {Len(last.data)}
       /\ at # {} \/ last.size = Len(last.data) \/ left = <<>>
  /\ ~broken => given = written \o wbuffer
  /\ ~broken /\ flags.lines => LastLinefeed(wbuffer) = 0
  /\ ~broken /\ flags.buffered /\ ~flags.lines => Len(wbuffer) < flags.bufsize

\* What is on the screen after the prompt is the line that is being typed, and
\* it is what the keys say (Server.py:262-326), where no ESC came before
\* another key than [.
Screen(echo) ==
  FoldLeft(LAMBDA s, b : IF b = BS THEN First(s, Len(s) - 1) ELSE Append(s, b), <<>>, echo)

Typed(keys) ==
  FoldLeft(LAMBDA s, k : IF k = DEL THEN First(s, Len(s) - 1)
                         ELSE IF k = Tab THEN s ELSE Append(s, k), <<>>, keys)

LineTyped(keys) ==
  LET x == Expect(keys, <<>>, <<>>)
      used == First(keys, Len(keys) - Len(x.rest))
      NoEscape == \A i \in DOMAIN used : used[i] # ESC
  IN  /\ Screen(x.echo) = x.line \o (IF x.end = "line" THEN <<CR, LF>> ELSE <<>>)
      /\ NoEscape /\ x.end = "line" => x.line = Typed(First(used, Len(used) - 1))
=============================================================================
