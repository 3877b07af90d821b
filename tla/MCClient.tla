------------------------------ MODULE MCClient ------------------------------
(***************************************************************************)
(* An instance of Client for TLC: a listener and the standard input, so    *)
(* that one proxy can fail while another, of the other kind, serves; and   *)
(* two retries, so that the count is refilled when it is partly used.      *)
(***************************************************************************)
EXTENDS Client
=============================================================================
