--------------------------- MODULE ChassisControl ---------------------------
(***************************************************************************)
(* The virtual host: the commands of chassiscontrol, the script startcmd   *)
(* that starts qemu, and chassisidentify.                                  *)
(*                                                                         *)
(* lanserv runs startcmd once when it starts ("boot") and executes one     *)
(* chassis command after the other ("cmd"), which may run startcmd as      *)
(* well; so two of them may be under way at the same time.  qemu and       *)
(* lanserv are outside of the repository.                                  *)
(*                                                                         *)
(* Startcmd edits the file of LanControl.                                  *)
(***************************************************************************)
EXTENDS Integers, LanControl

CONSTANTS
  Bridges,      (* br0, br1, ... for the network interfaces found, in order   *)
  BootValues,   (* the boot devices that are asked for                        *)
  MaxRetry,     (* how often startcmd tries again: 10 in the code             *)
  MaxCommands,  (* bound on the commands of lanserv                           *)
  MaxIdentify   (* bound on the copies of chassisidentify                     *)

VARIABLES
  bootdev,      (* /boot/bootdev                                              *)
  qemu,         (* qemu[p]: the process that startcmd p has launched last     *)
  dying,        (* how many killed qemu processes have not yet ended          *)
  start,        (* start[p]: where startcmd p is                              *)
  nic,          (* nic[p]: the bridge it works on                             *)
  order,        (* order[p]: its ORDER                                        *)
  retry,        (* retry[p]                                                   *)
  bridged,      (* the bridges that exist                                     *)
  ident,        (* copies of chassisidentify, until stopped or for a time     *)
  commands,     (* how many commands lanserv has executed                     *)
  wanted,       (* the boot device asked for and not yet used by a host that  *)
                (* came up or that its startcmd took for running              *)
  overlapped,   (* a command on files of startcmd overlapped with the one     *)
                (* that was started at boot                                   *)
  gaveUp,       (* a startcmd has given up                                    *)
  misjudged     (* a startcmd has taken for running a qemu that was dying or  *)
                (* ended before it came up                                    *)

Starters == {"boot", "cmd"}

BootDevices == {"none", "pxe", "default", "cdrom", "bios"}

hostVars    == <<qemu, dying>>
startVars   == <<start, nic, order, retry>>
ghostVars   == <<wanted, overlapped, gaveUp, misjudged>>
chassisVars == <<bootdev, hostVars, startVars, bridged, ident, commands, ghostVars>>

NoHost == [state |-> "none", order |-> ""]

\* pidof qemu-system-x86_64
Pids == {p \in Starters : qemu[p].state # "none"}
PidFound == Pids # {} \/ dying > 0

Up == \E p \in Starters : qemu[p].state = "up"

Goto(p, pc) == start' = [start EXCEPT ![p] = pc]

\* The boot order of qemu for a content of /boot/bootdev; bios is ncd with the
\* boot menu, and no file or an unknown device are as none.
OrderOf(dev) ==
  CASE dev = "pxe"     -> "n"
    [] dev = "default" -> "c"
    [] dev = "cdrom"   -> "d"
    [] dev = "bios"    -> "menu"
    [] OTHER           -> "ncd"

Init ==
  /\ bootdev \in {"missing", "none"}
  /\ qemu = [p \in Starters |-> NoHost] /\ dying = 0
  /\ start = [p \in Starters |-> IF p = "boot" THEN "bridge" ELSE "idle"]
  /\ nic = [p \in Starters |-> 1]
  /\ order = [p \in Starters |-> ""] /\ retry = [p \in Starters |-> 0]
  /\ bridged = {}
  /\ ident = [forced |-> 0, timed |-> 0]
  /\ commands = 0
  /\ wanted = bootdev
  /\ overlapped = FALSE /\ gaveUp = FALSE /\ misjudged = FALSE

-----------------------------------------------------------------------------
(* startcmd                                                                *)

\* add_intf_to_bridge: creates the bridge and adds the interface, if need be
AddBridge(p) ==
  /\ start[p] = "bridge"
  /\ IF nic[p] <= Len(Bridges)
       THEN /\ bridged' = bridged \cup {Bridges[nic[p]]}
            /\ Goto(p, "ifup")
            /\ UNCHANGED nic
       ELSE /\ nic' = [nic EXCEPT ![p] = 1]
            /\ Goto(p, "order")
            /\ UNCHANGED bridged
  /\ UNCHANGED <<bootdev, hostVars, order, retry, ident, commands, ghostVars, lanpc, file>>

\* On to the next interface of the loop.
NextNic(p) ==
  /\ nic' = [nic EXCEPT ![p] = @ + 1]
  /\ Goto(p, "bridge")

\* ifup_interface: nothing to do without the file, or if it has "auto br"
TestAuto(p) ==
  /\ start[p] = "ifup"
  /\ IF file = <<>> \/ Contains(file, AutoLine(Bridges[nic[p]]))
       THEN NextNic(p)
       ELSE Goto(p, "auto") /\ UNCHANGED nic
  /\ UNCHANGED <<bootdev, hostVars, order, retry, bridged, ident, commands, ghostVars, lanpc, file>>

\* sed -i '$ a\auto br'; on a file that is not there, or empty, it adds nothing
AppendAuto(p) ==
  /\ start[p] = "auto"
  /\ file' = IF file = <<>> THEN file ELSE Append(file, AutoLine(Bridges[nic[p]]))
  /\ Goto(p, "iface")
  /\ UNCHANGED <<bootdev, hostVars, nic, order, retry, bridged, ident, commands, ghostVars, lanpc>>

\* sed -i '$ a\iface br inet dhcp', and ifup
AppendIface(p) ==
  /\ start[p] = "iface"
  /\ file' = IF file = <<>> THEN file ELSE Append(file, Iface(Bridges[nic[p]], "dhcp"))
  /\ NextNic(p)
  /\ UNCHANGED <<bootdev, hostVars, order, retry, bridged, ident, commands, ghostVars, lanpc>>

\* ORDER, from /boot/bootdev if it exists
ReadBootdev(p) ==
  /\ start[p] = "order"
  /\ order' = [order EXCEPT ![p] = OrderOf(bootdev)]
  /\ Goto(p, "launch")
  /\ UNCHANGED <<bootdev, hostVars, nic, retry, bridged, ident, commands, ghostVars, lanpc, file>>

\* qemu-system-x86_64 &, unless it was tried more than MaxRetry times.  The
\* process that p launched before, if any, was not found or was killed.
Launch(p) ==
  /\ start[p] = "launch"
  /\ IF retry[p] > MaxRetry
       THEN /\ gaveUp' = TRUE
            /\ Goto(p, "reset")
            /\ UNCHANGED qemu
       ELSE /\ qemu' = [qemu EXCEPT ![p] = [state |-> "starting", order |-> order[p]]]
            /\ Goto(p, "check")
            /\ UNCHANGED gaveUp
  /\ UNCHANGED <<bootdev, dying, nic, order, retry, bridged, ident, commands>>
  /\ UNCHANGED <<wanted, overlapped, misjudged, lanpc, file>>

\* Seeded bug: one try only.
CheckOnce(p) ==
  /\ start[p] = "check"
  /\ Goto(p, "reset")
  /\ UNCHANGED <<bootdev, hostVars, nic, order, retry, bridged, ident, commands, ghostVars, lanpc, file>>

\* sleep 0.5 "to wait qemu up", and pidof, which looks neither at whose process
\* it is nor whether it has come up or is about to end.
Check(p) ==
  /\ start[p] = "check"
  /\ IF PidFound THEN Goto(p, "reset") /\ UNCHANGED retry
                 ELSE Goto(p, "launch") /\ retry' = [retry EXCEPT ![p] = @ + 1]
  /\ wanted' = IF qemu[p].state = "starting" THEN "none" ELSE wanted
  /\ misjudged' = (misjudged \/ (PidFound /\ Pids = {}))
  /\ UNCHANGED <<bootdev, hostVars, nic, order, bridged, ident, commands, overlapped, gaveUp, lanpc, file>>

\* "one-shot boot device, restore default boot order", also after giving up
ResetBootdev(p) ==
  /\ start[p] = "reset"
  /\ bootdev' = "none"
  /\ Goto(p, "idle")
  /\ order' = [order EXCEPT ![p] = ""]
  /\ retry' = [retry EXCEPT ![p] = 0]
  /\ UNCHANGED <<hostVars, nic, bridged, ident, commands, ghostVars, lanpc, file>>

StartStep(p) ==
  \/ AddBridge(p) \/ TestAuto(p) \/ AppendAuto(p) \/ AppendIface(p)
  \/ ReadBootdev(p) \/ Launch(p) \/ Check(p) \/ ResetBootdev(p)

-----------------------------------------------------------------------------
(* qemu                                                                    *)

\* The ports of the console, of VNC and of the BMC are those of one process.
ComesUp(p) ==
  /\ qemu[p].state = "starting"
  /\ dying = 0 /\ ~Up
  /\ qemu' = [qemu EXCEPT ![p].state = "up"]
  /\ wanted' = IF start[p] = "check" THEN "none" ELSE wanted
  /\ UNCHANGED <<bootdev, dying, startVars, bridged, ident, commands, overlapped, gaveUp,
                 misjudged, lanpc, file>>

\* The startcmd that has launched it has gone on.
Taken(p) == qemu[p].state = "starting" /\ start[p] # "check"

\* "qemu will fail to start up due to the port 9003 is not ready"
FailsToStart(p) ==
  /\ qemu[p].state = "starting"
  /\ qemu' = [qemu EXCEPT ![p] = NoHost]
  /\ misjudged' = (misjudged \/ Taken(p))
  /\ UNCHANGED <<bootdev, dying, startVars, bridged, ident, commands, wanted, overlapped, gaveUp,
                 lanpc, file>>

Dies ==
  /\ dying > 0
  /\ dying' = dying - 1
  /\ UNCHANGED <<bootdev, qemu, startVars, bridged, ident, commands, ghostVars, lanpc, file>>

HostStep == Dies \/ \E p \in Starters : ComesUp(p) \/ FailsToStart(p)

-----------------------------------------------------------------------------
(* chassiscontrol set, called by lanserv for one parameter at a time.      *)

\* lanserv waits for a command before it executes the next one.
Command ==
  /\ commands < MaxCommands
  /\ start["cmd"] = "idle" /\ lanpc = "idle"
  /\ commands' = commands + 1

\* A command that uses the files that startcmd uses.
FileCommand ==
  /\ Command
  /\ overlapped' = (overlapped \/ start["boot"] # "idle")

\* kill -9 of what pidof prints, which may be nothing
KillAll ==
  /\ qemu' = [p \in Starters |-> NoHost]
  /\ dying' = dying + (IF "boot" \in Pids THEN 1 ELSE 0) + (IF "cmd" \in Pids THEN 1 ELSE 0)
  /\ misjudged' = (misjudged \/ \E p \in Starters : Taken(p))
  /\ UNCHANGED <<wanted, overlapped, gaveUp>>

\* power 1: startcmd, if there is no qemu
PowerOn ==
  /\ Command
  /\ IF PidFound THEN UNCHANGED start ELSE Goto("cmd", "bridge")
  /\ UNCHANGED <<bootdev, hostVars, nic, order, retry, bridged, ident, ghostVars, lanpc, file>>

\* power 0
PowerOff ==
  /\ Command
  /\ KillAll
  /\ UNCHANGED <<bootdev, startVars, bridged, ident, lanpc, file>>

\* reset: startcmd at once, also for a host that was off
Reset ==
  /\ Command
  /\ KillAll
  /\ Goto("cmd", "bridge")
  /\ UNCHANGED <<bootdev, nic, order, retry, bridged, ident, lanpc, file>>

\* boot; an unknown device is rejected before anything changes
SetBoot ==
  /\ FileCommand
  /\ \E dev \in BootValues : bootdev' = dev /\ wanted' = dev
  /\ UNCHANGED <<hostVars, startVars, bridged, ident, gaveUp, misjudged, lanpc, file>>

\* Seeded bug: the file is written whether it exists or not.
GetBootAlways ==
  /\ FileCommand
  /\ bootdev' = "default"
  /\ wanted' = IF bootdev = "missing" THEN "default" ELSE wanted
  /\ UNCHANGED <<hostVars, startVars, bridged, ident, gaveUp, misjudged, lanpc, file>>

\* get boot: a file that does not exist is created with "default"
GetBoot ==
  /\ FileCommand
  /\ bootdev' = IF bootdev = "missing" THEN "default" ELSE bootdev
  /\ wanted' = IF bootdev = "missing" THEN "default" ELSE wanted
  /\ UNCHANGED <<hostVars, startVars, bridged, ident, gaveUp, misjudged, lanpc, file>>

\* identify: one more copy in the background, for ever with force = 1
Identify ==
  /\ Command
  /\ \E k \in {"forced", "timed"} :
       /\ ident[k] < MaxIdentify
       /\ ident' = [ident EXCEPT ![k] = @ + 1]
  /\ UNCHANGED <<bootdev, hostVars, startVars, bridged, ghostVars, lanpc, file>>

\* identify 0 0: pidof and kill -9 of all copies
IdentifyOff ==
  /\ Command
  /\ ident' = [forced |-> 0, timed |-> 0]
  /\ UNCHANGED <<bootdev, hostVars, startVars, bridged, ghostVars, lanpc, file>>

\* chassisidentify has logged its interval of seconds.
IdentifyEnds ==
  /\ ident.timed > 0
  /\ ident' = [ident EXCEPT !.timed = @ - 1]
  /\ UNCHANGED <<bootdev, hostVars, startVars, bridged, commands, ghostVars, lanpc, file>>

Next ==
  \/ \E p \in Starters : StartStep(p)
  \/ HostStep
  \/ PowerOn \/ PowerOff \/ Reset \/ SetBoot \/ GetBoot
  \/ Identify \/ IdentifyOff \/ IdentifyEnds

-----------------------------------------------------------------------------
StartPCs == {"idle", "bridge", "ifup", "auto", "iface", "order", "launch", "check", "reset"}

Orders == {"n", "c", "d", "menu", "ncd"}

\* Every variable has a value of its type.
TypeOK ==
  /\ bootdev \in BootDevices \cup {"missing"}
  /\ wanted \in BootDevices \cup {"missing"}
  /\ qemu \in [Starters -> [state : {"none", "starting", "up"}, order : Orders \cup {""}]]
  /\ dying \in 0 .. 2 * MaxCommands
  /\ start \in [Starters -> StartPCs]
  /\ nic \in [Starters -> 1 .. Len(Bridges) + 1]
  /\ order \in [Starters -> Orders \cup {""}]
  /\ retry \in [Starters -> 0 .. MaxRetry + 1]
  /\ bridged \subseteq {Bridges[i] : i \in 1 .. Len(Bridges)}
  /\ ident \in [forced : 0 .. MaxIdentify, timed : 0 .. MaxIdentify]
  /\ commands \in 0 .. MaxCommands
  /\ overlapped \in BOOLEAN /\ gaveUp \in BOOLEAN /\ misjudged \in BOOLEAN

\* Startcmd p waits for its host, which comes up or is taken for running.
Uses(p) ==
  /\ start[p] = "check" /\ qemu[p].state = "starting"
  /\ qemu'[p].state = "up" \/ start'[p] = "reset"

\* Comment of startcmd, "one-shot boot device": a host starts with the device
\* that was asked for last and that no host has used, whatever tries failed in
\* between and however late it comes up; unless the device was asked for while
\* the start at boot was under way, or a startcmd gave up or misjudged a qemu,
\* which uses the device up as well.
BootOrderHonoured ==
  [][\A p \in Starters :
       Uses(p) => qemu[p].order = OrderOf(wanted) \/ overlapped \/ gaveUp \/ misjudged]_chassisVars

\* Comment of startcmd, "qemu will fail to start up": after every start a host
\* comes up, by whichever startcmd, however the commands of lanserv and the
\* start at boot kill and launch in between and whenever a startcmd looks,
\* unless one gives up or misjudges a qemu.
HostComesUp ==
  \A p \in Starters : start[p] = "bridge" ~> Up \/ gaveUp \/ misjudged
=============================================================================
