---------------------------- MODULE MCBmcScripts ----------------------------
(* Instances of BmcScripts for TLC. *)
EXTENDS BmcScripts

MCBridges == <<"br0", "br1">>

MCBootValues == {"pxe", "bios"}

\* The file of the root file system, with one bridge, and that file without it.
\* The options of eth0 are cut down to one.
Template(br0) ==
  << AutoLine("lo"), Iface("lo", "loopback"), OtherLine,
     AutoLine("eth0"), Iface("eth0", "static"), Option("address", "a0"), OtherLine >> \o br0

MCFiles ==
  { Template(<<AutoLine("br0"), Iface("br0", "dhcp"),
               Option("address", "a0"), Option("gateway", "g0"), Option("netmask", "m0")>>),
    Template(<<>>), <<>> }

StaticArgs  == ("src" :> "static") @@ ("address" :> "a1") @@ ("netmask" :> "m1")
DhcpArgs    == ("src" :> "dhcp") @@ ("hwaddress" :> "h1")
AddressArgs == ("address" :> "a2")

MCLanArgs == {StaticArgs, DhcpArgs, AddressArgs}
=============================================================================
