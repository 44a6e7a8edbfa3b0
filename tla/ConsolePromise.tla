--------------------------- MODULE ConsolePromise ---------------------------
(***************************************************************************)
(* What the console promises to one user: a command says its own messages, *)
(* in their order, and is answered, before the next one is read, with all  *)
(* that is owed to the user by then; history shows the last commands that  *)
(* were recorded before it.  A command that fails owes its messages to the *)
(* next answer, and a warning of a sensor may be owed at any time.         *)
(*                                                                         *)
(* Compare Console, where the queue, the response and the history of at    *)
(* most Limit commands are behind this.                                    *)
(***************************************************************************)
EXTENDS Integers, Sequences

CONSTANTS Kinds, Limit, MaxCommands

VARIABLES
  issued,     (* how many commands were typed                                 *)
  asked,      (* the command in progress, or Nothing; how many messages it    *)
              (* has said, and whether it was recorded                        *)
  recorded,   (* the commands that the console has taken note of              *)
  owed,       (* what the user has not read yet                               *)
  delivered   (* what the user has read                                       *)

vars == <<issued, asked, recorded, owed, delivered>>

Nothing == [id |-> 0, kind |-> "quiet", said |-> 0, noted |-> FALSE]

Warning == [of |-> 0, shows |-> 0]

LastOf(s, n) == IF Len(s) <= n THEN s ELSE SubSeq(s, Len(s) - n + 1, Len(s))

\* What the command in progress has to say; history is not in its own list.
Reply ==
  LET text(n) == [of |-> asked.id, shows |-> n]
      listed  == LastOf(recorded, Limit)
  IN CASE asked.kind = "quiet"   -> <<>>
       [] asked.kind = "history" -> [i \in 1 .. Len(listed) |-> text(listed[i])]
       [] OTHER                  -> <<text(0)>>

AllSaid == asked.said = Len(Reply)

Init ==
  /\ issued = 0 /\ asked = Nothing
  /\ recorded = <<>> /\ owed = <<>> /\ delivered = <<>>

Ask ==
  /\ asked = Nothing
  /\ issued < MaxCommands
  /\ issued' = issued + 1
  /\ \E k \in Kinds : asked' = [Nothing EXCEPT !.id = issued', !.kind = k]
  /\ UNCHANGED <<recorded, owed, delivered>>

Say ==
  /\ asked # Nothing /\ asked.kind # "raising"
  /\ ~asked.noted /\ ~AllSaid
  /\ owed' = Append(owed, Reply[asked.said + 1])
  /\ asked' = [asked EXCEPT !.said = @ + 1]
  /\ UNCHANGED <<issued, recorded, delivered>>

Fail ==
  /\ asked.kind = "raising"
  /\ owed' = owed \o Reply
  /\ asked' = Nothing
  /\ UNCHANGED <<issued, recorded, delivered>>

Note ==
  /\ asked # Nothing /\ asked.kind \notin {"illegal", "raising"}
  /\ ~asked.noted /\ AllSaid
  /\ asked' = [asked EXCEPT !.noted = TRUE]
  /\ recorded' = Append(recorded, asked.id)
  /\ UNCHANGED <<issued, owed, delivered>>

\* The answer holds every message of every command; warnings may come too late.
Answer ==
  /\ asked.noted \/ (asked.kind = "illegal" /\ AllSaid)
  /\ \E n \in 0 .. Len(owed) :
       /\ \A i \in n + 1 .. Len(owed) : owed[i] = Warning
       /\ delivered' = delivered \o SubSeq(owed, 1, n)
       /\ owed' = SubSeq(owed, n + 1, Len(owed))
  /\ asked' = Nothing
  /\ UNCHANGED <<issued, recorded>>

Warn ==
  /\ owed' = Append(owed, Warning)
  /\ UNCHANGED <<issued, asked, recorded, delivered>>

Next == Ask \/ Say \/ Fail \/ Note \/ Answer \/ Warn

Spec == Init /\ [][Next]_vars
=============================================================================
