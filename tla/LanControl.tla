----------------------------- MODULE LanControl -----------------------------
(***************************************************************************)
(* /etc/network/interfaces, as a sequence of lines, and the edits that     *)
(* lancontrol and network.function make in it with sed.                    *)
(*                                                                         *)
(* lancontrol set, which lanserv executes as "/etc/ipmi/lancontrol br0 set *)
(* ...", splits the file into the stanza of Device and the rest, edits the *)
(* stanza in temporary files, and replaces the file with mv and cp.  The   *)
(* check and get of lancontrol change nothing.                             *)
(*                                                                         *)
(* lanserv executes its scripts one at a time, but startcmd may edit the   *)
(* file at the same time, see ChassisControl.                              *)
(***************************************************************************)
EXTENDS SequencesExt

\* A line: its first word, the interface it names, and its value.
Line(kind, dev, val) == [kind |-> kind, dev |-> dev, val |-> val]

AutoLine(d)   == Line("auto", d, "")
Iface(d, src) == Line("iface", d, src)
Option(k, v)  == Line(k, "", v)
TabLine       == Line("tab", "", "")      \* a tab and nothing else
OtherLine     == Line("other", "", "")    \* empty, or spaces

\* The options in the order in which do_modify_stanza writes them; the names of
\* the parameters of lancontrol are those of the lines here.
OptionOrder == <<"address", "netmask", "gateway", "hwaddress">>

NewOptions(args, allowed) ==
  LET given == SelectSeq(OptionOrder, LAMBDA k : k \in DOMAIN args \cap allowed)
  IN  [i \in DOMAIN given |-> Option(given[i], args[given[i]])]

AllOptions == {"address", "netmask", "gateway", "hwaddress"}

\* do_split_interfaces: the range of sed goes from the line "iface d" to the
\* next line that is a tab, or to the end of the file.
Split(f, d) ==
  LET Step(acc, l) ==
        IF acc.inside \/ (l.kind = "iface" /\ l.dev = d)
          THEN [acc EXCEPT !.stanza = Append(@, l),
                           !.inside = ~(acc.inside /\ l.kind = "tab")]
          ELSE [acc EXCEPT !.rest = Append(@, l)]
      all == FoldLeft(Step, [rest |-> <<>>, stanza |-> <<>>, inside |-> FALSE], f)
  IN  [rest |-> all.rest, stanza |-> all.stanza]

\* Seeded bug: the old lines of the parameters that are set are kept, behind
\* the new ones.
ModifiedKeepOld(stanza, d, args) ==
  (IF "src" \in DOMAIN args THEN <<Iface(d, args["src"])>> ELSE <<Head(stanza)>>)
  \o NewOptions(args, AllOptions)
  \o SelectSeq(stanza, LAMBDA l : l.kind # "iface")

\* do_modify_stanza with a stanza: the iface line, the new options, and what is
\* left of the old lines; every line "iface" in the range is deleted.
Modified(stanza, d, args) ==
  (IF "src" \in DOMAIN args THEN <<Iface(d, args["src"])>> ELSE <<Head(stanza)>>)
  \o NewOptions(args, AllOptions)
  \o SelectSeq(stanza, LAMBDA l : l.kind # "iface" /\ l.kind \notin DOMAIN args)

\* do_create_stanza exits with 1 without a source, or without the address and
\* the netmask of a static one.
Creatable(args) ==
  /\ "src" \in DOMAIN args
  /\ args["src"] = "static" => {"address", "netmask"} \subseteq DOMAIN args

\* do_create_stanza
Created(d, args) ==
  IF args["src"] = "dhcp"
    THEN <<Iface(d, "dhcp")>> \o NewOptions(args, {"hwaddress"}) \o <<TabLine>>
    ELSE <<Iface(d, "static")>> \o NewOptions(args, AllOptions) \o <<OtherLine>>

-----------------------------------------------------------------------------
\* What ifup reads from the file: the interfaces to bring up, and for each
\* stanza, which ends at the next "iface" or "auto", its source and options.
Meaning(f) ==
  LET Fact(d, k, v) == [dev |-> d, key |-> k, val |-> v]
      Step(acc, l) ==
        CASE l.kind = "auto"  -> [dev |-> "", facts |-> acc.facts \cup {Fact(l.dev, "auto", "")}]
          [] l.kind = "iface" -> [dev |-> l.dev, facts |-> acc.facts \cup {Fact(l.dev, "src", l.val)}]
          [] l.kind \in AllOptions ->
               [acc EXCEPT !.facts = @ \cup {Fact(acc.dev, l.kind, l.val)}]
          [] OTHER -> acc
  IN  FoldLeft(Step, [dev |-> "", facts |-> {}], f).facts

\* What the file should mean after the parameters args of d have been set.
Merged(facts, d, args) ==
  {x \in facts : ~(x.dev = d /\ x.key \in DOMAIN args)}
  \cup {[dev |-> d, key |-> k, val |-> args[k]] : k \in DOMAIN args}

\* The stanza of d ends with the file, or with a tab.
Separate(f, d) ==
  \A i \in DOMAIN Split(f, d).stanza :
    Split(f, d).stanza[i].kind \in {"iface", "auto"} => Split(f, d).stanza[i].dev = d

-----------------------------------------------------------------------------
(* lancontrol set *)

CONSTANTS
  Device,       (* the interface of the BMC: br0 in vbmc.conf                 *)
  LanArgs       (* the parameters of one set that passed do_check: functions  *)
                (* from names of options, or "src", to values                 *)

VARIABLES
  lanpc,        (* where lancontrol is                                        *)
  args,         (* its parameters                                             *)
  parts,        (* ipmi_old_stanza and ipmi_interfaces_unchanged              *)
  new,          (* impi_new_interfaces                                        *)
  old,          (* /etc/network/interfaces.old                                *)
  file          (* /etc/network/interfaces; <<>> if there is none             *)

lanVars == <<lanpc, args, parts, new, old>>

NoParts == [rest |-> <<>>, stanza |-> <<>>]

LanInit ==
  /\ lanpc = "idle" /\ args = <<>>
  /\ parts = NoParts /\ new = <<>> /\ old = <<>>

\* do_set has read its parameters.
SetParameters ==
  /\ lanpc = "idle"
  /\ args' \in LanArgs
  /\ lanpc' = "split"
  /\ UNCHANGED <<parts, new, old, file>>

Exit ==
  /\ lanpc' = "idle"
  /\ args' = <<>>
  /\ parts' = NoParts /\ new' = <<>> /\ old' = <<>>

\* do_interfaces, do_split_interfaces
SplitInterfaces ==
  /\ lanpc = "split" /\ file # <<>>
  /\ parts' = Split(file, Device)
  /\ lanpc' = "modify"
  /\ UNCHANGED <<args, new, old, file>>

\* do_interfaces without a file: do_create_stanza, and cp; or exit 1
CreateInterfaces ==
  /\ lanpc = "split" /\ file = <<>>
  /\ file' = IF Creatable(args) THEN Created(Device, args) ELSE file
  /\ Exit

\* do_modify_stanza, and the new file: the rest and the stanza
ModifyStanza ==
  /\ lanpc = "modify"
  /\ IF parts.stanza # <<>>
       THEN /\ new' = parts.rest \o Modified(parts.stanza, Device, args)
            /\ lanpc' = "move"
            /\ UNCHANGED <<args, parts, old>>
       ELSE IF Creatable(args)
              THEN /\ new' = parts.rest \o Created(Device, args)
                   /\ lanpc' = "move"
                   /\ UNCHANGED <<args, parts, old>>
              ELSE Exit
  /\ UNCHANGED file

\* mv interfaces interfaces.old: there is no file until it is copied
Move ==
  /\ lanpc = "move"
  /\ old' = file
  /\ file' = <<>>
  /\ lanpc' = "copy"
  /\ UNCHANGED <<args, parts, new>>

\* cp impi_new_interfaces interfaces, and ifdown and ifup of the interface
Copy ==
  /\ lanpc = "copy"
  /\ file' = new
  /\ Exit

LanProceeds == SplitInterfaces \/ CreateInterfaces \/ ModifyStanza \/ Move \/ Copy

-----------------------------------------------------------------------------
LanPCs == {"idle", "split", "modify", "move", "copy"}

\* What the file means to ifup after the copy is what the file that was there
\* before it meant, with the parameters of the command and nothing else changed.
KeepsTheRest ==
  lanpc = "copy" /\ lanpc' = "idle" =>
    Meaning(file') = Merged(Meaning(old), Device, args)
=============================================================================
