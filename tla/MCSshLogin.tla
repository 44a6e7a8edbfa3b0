----------------------------- MODULE MCSshLogin -----------------------------
(* Instances of SshLogin for TLC. *)
EXTENDS SshLogin

\* Two algorithms in both orders, and a server that has one of them only.
MCOffers ==
  [ client |-> {<<"aes", "arcfour">>, <<"arcfour", "aes">>, <<"arcfour">>},
    server |-> {<<"aes", "arcfour">>, <<"aes">>} ]
=============================================================================
