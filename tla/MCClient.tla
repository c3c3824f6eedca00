------------------------------- MODULE MCClient -------------------------------
(* An instance of Client for TLC. *)
EXTENDS Client

CONSTANTS tab1, tab2
=============================================================================
