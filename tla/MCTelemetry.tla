---------------------------- MODULE MCTelemetry -----------------------------
(* A finite instance of Telemetry for TLC.                                  *)
EXTENDS Telemetry, TLC

CONSTANTS s1, s2, e1, e2, x1, x2

McSessionOf == (e1 :> s1) @@ (e2 :> s1)
McEndpointOf == (x1 :> e1) @@ (x2 :> e1)
=============================================================================
