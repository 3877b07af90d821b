------------------------------ MODULE MCTunnel ------------------------------
(* Finite instances of Tunnel for TLC: the calls of getSSH are model values *)
(* and interchangeable.                                                     *)
EXTENDS Tunnel, TLC

=============================================================================
