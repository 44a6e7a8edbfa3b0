----------------------------- MODULE KnownHosts -----------------------------
(***************************************************************************)
(* The host keys of SSHClient in the vendored paramiko: HostKeys, the      *)
(* check of connect, and the policies for a key that is missing.  Several  *)
(* clients share one known_hosts file, which each of them loads at its     *)
(* start; hosts may get new keys; a client may be killed while it writes.  *)
(*                                                                         *)
(* Left out: hashed names, lines that are no entries, the port in a name,  *)
(* the system file (a second table, looked up first and never written).    *)
(***************************************************************************)
EXTENDS Integers, FiniteSets, SequencesExt

CONSTANTS
  Clients,    (* SSHClient objects, in programs of their own                  *)
  PolicyPlans,(* which policies they may have                                 *)
  Hosts, Types, Keys,
  Presented,  (* the types and keys that the hosts may have                   *)
  Files,      (* what the file may hold at first: sequences of entries        *)
  MaxRekeys   (* bound on the new keys of hosts                               *)

Policies == {"AutoAddPolicy", "RejectPolicy", "WarningPolicy"}

\* HostKeyEntry: a line of the file, or an entry of the table
Entry(names, type, key) == [names |-> names, type |-> type, key |-> key]

ASSUME HostsAssumption ==
  /\ PolicyPlans \subseteq [Clients -> Policies] /\ MaxRekeys \in Nat
  /\ Presented \subseteq [type : Types, key : Keys]
  /\ \A f \in Files : \A i \in DOMAIN f :
       f[i].type \in Types /\ f[i].key \in Keys /\ Range(f[i].names) \subseteq Hosts

VARIABLES
  policy,     (* policy[c]: what c does with a missing key                    *)
  server,     (* server[h]: the type and the key that h presents              *)
  rekeys,     (* how many hosts got a new key                                 *)
  file,       (* the known_hosts file                                         *)
  entries,    (* entries[c]: _host_keys of c                                  *)
  at,         (* at[c]: what c is doing                                       *)
  trusted,    (* trusted[c]: the keys with which c has gone on to log in      *)
  added,      (* the keys that were written to the file and those of its      *)
              (* first contents                                               *)
  raced       (* a save was killed, or met another one                        *)

hostVars == <<policy, server, rekeys, file, entries, at, trusted, added, raced>>

-----------------------------------------------------------------------------
(* HostKeys *)

\* The first key of the type, as SubDict.__getitem__ finds it, or none.
Lookup(table, h, t) ==
  LET of == SelectSeq(table, LAMBDA e : h \in Range(e.names) /\ e.type = t)
  IN  {of[i].key : i \in DOMAIN of \cap {1}}

HostKeysAdd(table, h, t, k) ==
  LET S == {i \in DOMAIN table : h \in Range(table[i].names) /\ table[i].type = t}
      first == CHOOSE i \in S : \A j \in S : i <= j
  IN  IF S = {} THEN Append(table, Entry(<<h>>, t, k)) ELSE [table EXCEPT ![first].key = k]

\* The names of e that the table does not have with this key.  The loop removes
\* names from the list that it goes through, and so passes over the one behind
\* each name that it has removed.
NewNames(table, e) ==
  LET Known(h) == Lookup(table, h, e.type) = {e.key}
      Step(acc, h) == IF acc.skip THEN [kept |-> Append(acc.kept, h), skip |-> FALSE]
                      ELSE IF Known(h) THEN [acc EXCEPT !.skip = TRUE]
                      ELSE [acc EXCEPT !.kept = Append(@, h)]
  IN  FoldLeft(Step, [kept |-> <<>>, skip |-> FALSE], e.names).kept

\* Seeded bug: what the docstring says, "replacing any existing entries".
HostKeysLoadReplacing(table, f) ==
  FoldLeft(LAMBDA tab, e : FoldLeft(LAMBDA t, h : HostKeysAdd(t, h, e.type, e.key), tab, e.names),
           table, f)

HostKeysLoad(table, f) ==
  FoldLeft(LAMBDA tab, e : LET new == NewNames(tab, e) IN
                           IF new = <<>> THEN tab ELSE Append(tab, [e EXCEPT !.names = new]),
           table, f)

\* keys(): the names, each once
HostNames(table) ==
  FoldLeft(LAMBDA ret, e : FoldLeft(LAMBDA r, h : IF Contains(r, h) THEN r ELSE Append(r, h),
                                    ret, e.names), <<>>, table)

\* What save_host_keys writes: a line for each name and each type of its
\* entries, every time with the first key of that type.
Lines(table) ==
  LET Line(h, e) == Entry(<<h>>, e.type, CHOOSE k \in Lookup(table, h, e.type) : TRUE)
      Add(h, lines, e) == IF h \in Range(e.names) THEN Append(lines, Line(h, e)) ELSE lines
  IN  FoldLeft(LAMBDA lines, h : FoldLeft(LAMBDA l, e : Add(h, l, e), lines, table),
               <<>>, HostNames(table))

Known(table) ==
  {<<h, t>> \in Hosts \X Types : Lookup(table, h, t) # {}}

-----------------------------------------------------------------------------
Idle     == [pc |-> "idle"]
At(c, p) == at' = [at EXCEPT ![c] = p]

HostsInit ==
  /\ policy \in PolicyPlans
  /\ server \in [Hosts -> Presented]
  /\ file \in Files
  /\ rekeys = 0 /\ entries = [c \in Clients |-> <<>>] /\ at = [c \in Clients |-> [pc |-> "new"]]
  /\ trusted = [c \in Clients |-> {}] /\ added = Known(file) /\ raced = FALSE

\* load_host_keys, at the start of the program
LoadHostKeys(c) ==
  /\ at[c].pc = "new"
  /\ entries' = [entries EXCEPT ![c] = HostKeysLoad(@, file)]
  /\ At(c, Idle)
  /\ UNCHANGED <<policy, server, rekeys, file, trusted, added, raced>>

GoOn(c, h, t, k) == trusted' = [trusted EXCEPT ![c] = @ \cup {<<h, t, k>>}]

\* connect, after start_client: the key that the server has shown is compared
\* with the one of the table; BadHostKeyException if it differs.
CheckKnown(c, h) ==
  LET s == server[h] IN
  /\ at[c] = Idle
  /\ Lookup(entries[c], h, s.type) = {s.key}
  /\ GoOn(c, h, s.type, s.key)
  /\ UNCHANGED <<policy, server, rekeys, file, entries, at, added, raced>>

\* missing_host_key
Missing(c, h) ==
  at[c] = Idle /\ Lookup(entries[c], h, server[h].type) = {}

WarnMissing(c, h) ==
  /\ Missing(c, h) /\ policy[c] = "WarningPolicy"
  /\ GoOn(c, h, server[h].type, server[h].key)
  /\ UNCHANGED <<policy, server, rekeys, file, entries, at, added, raced>>

Saving(c) == at[c].pc \in {"merged", "truncated"}

\* AutoAddPolicy: the key is added, save_host_keys merges what the file holds ...
AutoAdd(c, h) ==
  LET s == server[h] IN
  /\ Missing(c, h) /\ policy[c] = "AutoAddPolicy"
  /\ entries' = [entries EXCEPT ![c] = HostKeysLoad(HostKeysAdd(@, h, s.type, s.key), file)]
  /\ At(c, [pc |-> "merged", host |-> h, type |-> s.type, key |-> s.key])
  /\ raced' = (raced \/ \E d \in Clients : Saving(d))
  /\ UNCHANGED <<policy, server, rekeys, file, trusted, added>>

\* ... opens it for writing, which empties it ...
OpenToWrite(c) ==
  /\ at[c].pc = "merged"
  /\ file' = <<>>
  /\ At(c, [at[c] EXCEPT !.pc = "truncated"])
  /\ UNCHANGED <<policy, server, rekeys, entries, trusted, added, raced>>

\* ... and writes it.
WriteLines(c) ==
  /\ at[c].pc = "truncated"
  /\ file' = Lines(entries[c])
  /\ added' = added \cup {<<at[c].host, at[c].type>>}
  /\ GoOn(c, at[c].host, at[c].type, at[c].key)
  /\ At(c, Idle)
  /\ UNCHANGED <<policy, server, rekeys, entries, raced>>

\* The program is killed, and started again with an empty table.
Kill(c) ==
  /\ at[c].pc # "new"
  /\ raced' = (raced \/ at[c].pc = "truncated")
  /\ entries' = [entries EXCEPT ![c] = <<>>]
  /\ trusted' = [trusted EXCEPT ![c] = {}]
  /\ At(c, [pc |-> "new"])
  /\ UNCHANGED <<policy, server, rekeys, file, added>>

\* A host is installed anew.
Rekey(h) ==
  /\ rekeys < MaxRekeys
  /\ \E s \in Presented : server' = [server EXCEPT ![h] = s]
  /\ rekeys' = rekeys + 1
  /\ UNCHANGED <<policy, file, entries, at, trusted, added, raced>>

HostsNext ==
  \/ \E c \in Clients : LoadHostKeys(c) \/ OpenToWrite(c) \/ WriteLines(c) \/ Kill(c)
  \/ \E c \in Clients, h \in Hosts : CheckKnown(c, h) \/ WarnMissing(c, h) \/ AutoAdd(c, h)
  \/ \E h \in Hosts : Rekey(h)

HostsSpec == HostsInit /\ [][HostsNext]_hostVars

-----------------------------------------------------------------------------
\* Once a client has logged in to a host by a key, which its policy may have
\* accepted, it goes on with no other key of that type, whatever the host or
\* the file come to say; and a host that a client has saved, or that the file
\* held before, stays in the file, where no save was killed or met another one.
HostKeysKept ==
  /\ \A c \in Clients : policy[c] # "WarningPolicy" =>
       \A x, y \in trusted[c] : x[1] = y[1] /\ x[2] = y[2] => x[3] = y[3]
  /\ ~raced /\ (\A c \in Clients : ~Saving(c)) => added \subseteq Known(file)
=============================================================================
