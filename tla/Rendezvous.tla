----------------------------- MODULE Rendezvous -----------------------------
(***************************************************************************)
(* What the uds-pair registry promises: each path is a meeting point with  *)
(* room for one.  A party that finds it empty waits there; one that finds  *)
(* somebody waiting meets that party and empties it.  Partners stay        *)
(* partners; a party leaves from a meeting, or gives up the place it holds *)
(* in the very step in which it goes away, so nobody meets the departed.   *)
(***************************************************************************)
CONSTANTS Parties, Places, PlaceOf, Nobody

VARIABLES
  slot,     \* who waits at each place
  partner,  \* whom each party met
  gone      \* the parties that left

Fresh(p) == p \notin gone /\ partner[p] = Nobody /\ slot[PlaceOf[p]] # p

Wait(p) ==
  /\ Fresh(p) /\ slot[PlaceOf[p]] = Nobody
  /\ slot' = [slot EXCEPT ![PlaceOf[p]] = p]
  /\ UNCHANGED <<partner, gone>>

Meet(p) ==
  /\ Fresh(p) /\ slot[PlaceOf[p]] \in Parties \ gone
  /\ partner' = [partner EXCEPT ![p] = slot[PlaceOf[p]], ![slot[PlaceOf[p]]] = p]
  /\ slot' = [slot EXCEPT ![PlaceOf[p]] = Nobody]
  /\ UNCHANGED gone

Withdraw(p) ==
  /\ slot[PlaceOf[p]] = p
  /\ slot' = [slot EXCEPT ![PlaceOf[p]] = Nobody]
  /\ gone' = gone \cup {p}
  /\ UNCHANGED partner

Part(p) ==
  /\ p \notin gone /\ partner[p] # Nobody
  /\ gone' = gone \cup {p}
  /\ UNCHANGED <<slot, partner>>

Init ==
  /\ slot = [path \in Places |-> Nobody]
  /\ partner = [p \in Parties |-> Nobody]
  /\ gone = {}

Next == \E p \in Parties : Wait(p) \/ Meet(p) \/ Withdraw(p) \/ Part(p)

Spec == Init /\ [][Next]_<<slot, partner, gone>>
=============================================================================
