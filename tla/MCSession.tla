----------------------------- MODULE MCSession ------------------------------
(* Finite instances of Session for TLC.                                     *)
EXTENDS Session, TLC

CONSTANTS s1, s2, ra, rb, rf

McLocalOf == (ra :> "A") @@ (rb :> "B") @@ (rf :> "F")
McReverse == {ra, rb}

\* Two records of one name, of which the table holds at most one: the operator
\* replaces the password and narrows the grant.
Wide == [name |-> "alice", pass |-> "old", addrs |-> {ra, rb, rf}]
Narrow == [name |-> "alice", pass |-> "new", addrs |-> {rb, rf}]
McUsers == {Wide, Narrow}
McLogin == (s1 :> [name |-> "alice", pass |-> "old"]) @@ (s2 :> [name |-> "alice", pass |-> "new"])

\* Two sessions that compete for two addresses, in opposite order.
CrossWanted == (s1 :> <<ra, rb>>) @@ (s2 :> <<rb, ra>>)

\* A session that asks for one remote twice, and one with a forward remote and
\* a reverse one that its record does not grant.
OddWanted == (s1 :> <<rb, rb>>) @@ (s2 :> <<rf, ra>>)
=============================================================================
