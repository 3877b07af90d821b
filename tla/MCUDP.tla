------------------------------- MODULE MCUDP -------------------------------
(***************************************************************************)
(* Instances of UDP for TLC: two sources, two connections and a limit of   *)
(* one reader, so that the second source is over the limit.                *)
(***************************************************************************)
EXTENDS UDP, TLC

\* No action and no property tells the sources apart.
SrcSymmetry == Permutations(Srcs)
=============================================================================
