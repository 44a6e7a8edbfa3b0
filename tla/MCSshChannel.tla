---------------------------- MODULE MCSshChannel ----------------------------
(* Instances of SshChannel for TLC. *)
EXTENDS SshChannel

MCPeers == {"client", "server"}
MCOther == [p \in MCPeers |-> IF p = "client" THEN "server" ELSE "client"]

\* The server sends more than a window.
MCMaxBytes == [p \in MCPeers |-> IF p = "client" THEN 0 ELSE 3]

MCMortal == {"client"}
=============================================================================
