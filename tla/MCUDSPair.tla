----------------------------- MODULE MCUDSPair ------------------------------
(* A finite instance of UDSPair for TLC.                                    *)
EXTENDS UDSPair

CONSTANTS p1, p2, p3, s1, s2, x

\* Three arrivals on one path, two of them from one session: a session may
\* meet itself, and a third arrival finds a queue that was used before.
OnePathOf == [p \in {p1, p2, p3} |-> x]
OneSessionOf == [p \in {p1, p2, p3} |-> IF p = p1 THEN s1 ELSE s2]
=============================================================================
