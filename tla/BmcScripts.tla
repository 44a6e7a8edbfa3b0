----------------------------- MODULE BmcScripts -----------------------------
(***************************************************************************)
(* The scripts of /etc/ipmi together, as lanserv runs them: startcmd once  *)
(* when it starts, and one command of chassiscontrol or lancontrol after   *)
(* the other.  They share /etc/network/interfaces.                         *)
(***************************************************************************)
EXTENDS ChassisControl

CONSTANT
  Files         (* the contents of the file at boot                           *)

vars == <<bootdev, qemu, dying, start, nic, order, retry, bridged, ident, commands,
          wanted, overlapped, gaveUp, misjudged, lanpc, file, args, parts, new, old>>

BmcInit == Init /\ LanInit /\ file \in Files

\* lanserv sets LAN parameters.
SetLan ==
  /\ FileCommand
  /\ SetParameters
  /\ UNCHANGED <<bootdev, qemu, dying, start, nic, order, retry, bridged, ident, wanted, gaveUp, misjudged>>

LanStep == LanProceeds /\ UNCHANGED chassisVars

ChassisStep == Next /\ UNCHANGED <<args, parts, new, old>>

BmcNext == ChassisStep \/ SetLan \/ LanStep

\* startcmd goes on, and a qemu comes up or fails some day: not in the half second
\* after which startcmd looks.
Fairness ==
  /\ \A p \in Starters : WF_vars(StartStep(p) /\ UNCHANGED <<args, parts, new, old>>)
  /\ WF_vars(HostStep /\ UNCHANGED <<args, parts, new, old>>)

Spec == BmcInit /\ [][BmcNext]_vars

FairSpec == Spec /\ Fairness

-----------------------------------------------------------------------------
\* Comments of lancontrol, "separate the stanza for our device from the other
\* stanzas" and "We keep any parameters that are not set on the command line":
\* a set changes those parameters of the device and nothing else, as ifup reads
\* the file; unless startcmd edited the file at the same time, or the stanza of
\* another interface follows that of the device (Separate).
LanKeepsPlan ==
  [][KeepsTheRest \/ overlapped \/ ~Separate(old, Device)]_vars

\* Every variable has a value of its type, and lancontrol is at work only when
\* no startcmd of chassiscontrol is.
ScriptsTypeOK ==
  /\ TypeOK
  /\ lanpc \in LanPCs /\ args \in LanArgs \cup {<<>>}
  /\ lanpc # "idle" => args \in LanArgs /\ start["cmd"] = "idle"
=============================================================================
