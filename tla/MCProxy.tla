------------------------------- MODULE MCProxy -------------------------------
(* Model-checking instance of Proxy, with the messages of MCIngest. *)
EXTENDS MCIngest, Proxy
=============================================================================
