----------------------------- MODULE UDSListen ------------------------------
(***************************************************************************)
(* The socket file of uds-listen remotes (share/tunnel/tunnel_in_proxy.go  *)
(* listen, runUnix and removeUnixSocketIfExists; share/settings/remote.go  *)
(* CanListen): proxies of several sessions, and of servers started one     *)
(* after the other, that use one path of the file system.                  *)
(*                                                                         *)
(* Every system call on the path is one step.  What is at the path is told *)
(* apart by who bound it: a name keeps to the socket of its proxy even     *)
(* when that is closed, which is what a stale socket is.  net.UnixListener *)
(* unlinks the path when it is closed, whoever's file is there by then.    *)
(***************************************************************************)
EXTENDS Naturals

CONSTANTS
  Proxies,   \* uds-listen proxies with the same path; each is created once
  NoFile,    \* nothing is at the path
  Foreign    \* a file that is not a socket is

ASSUME FileAssumption == NoFile # Foreign /\ {NoFile, Foreign} \cap Proxies = {}

VARIABLES
  pc,         \* control state of each proxy
  why,        \* the error NewProxy returned
  file,       \* what is at the path: a proxy stands for the socket it bound
  listening,  \* proxies whose listener is open
  cancelled,  \* proxies whose context is done
  met         \* history: the proxies whose life overlapped with this one's

vars == <<pc, why, file, listening, cancelled, met>>

\* Proxies that may still act on the path.
Live == {p \in Proxies : pc[p] \in {"stat", "remove", "bind", "chmod", "undo",
                                    "active", "run", "closing"}}

Goto(p, l) == pc' = [pc EXCEPT ![p] = l] /\ UNCHANGED why
Fails(p, err) == pc' = [pc EXCEPT ![p] = "failed"] /\ why' = [why EXCEPT ![p] = err]

Init ==
  /\ pc = [p \in Proxies |-> "new"] /\ why = [p \in Proxies |-> "none"]
  /\ file \in {NoFile, Foreign} /\ listening = {} /\ cancelled = {}
  /\ met = [p \in Proxies |-> {}]

-----------------------------------------------------------------------------
(* NewProxy and listen.                                                    *)

\* CanListen and listen make the directory ...
Begin(p) ==
  /\ pc[p] = "new" /\ Goto(p, "stat")
  /\ met' = [q \in Proxies |-> IF q = p THEN Live
                               ELSE IF q \in Live THEN met[q] \cup {p} ELSE met[q]]
  /\ UNCHANGED <<file, listening, cancelled>>

\* ... or cannot.
MkdirFails(p) ==
  /\ pc[p] = "new" /\ Fails(p, "mkdir")
  /\ UNCHANGED <<file, listening, cancelled, met>>

\* removeUnixSocketIfExists: look at the path ...
StatSkipsRemoval(p) ==
  /\ pc[p] = "stat"
  /\ IF file = Foreign THEN Fails(p, "notSocket") ELSE Goto(p, "bind")
  /\ UNCHANGED <<file, listening, cancelled, met>>

Stat(p) ==
  /\ pc[p] = "stat"
  /\ IF file = Foreign THEN Fails(p, "notSocket")
     ELSE Goto(p, IF file = NoFile THEN "bind" ELSE "remove")
  /\ UNCHANGED <<file, listening, cancelled, met>>

\* ... and remove the socket that was there; by now it may be gone.
Remove(p) ==
  /\ pc[p] = "remove"
  /\ IF file = NoFile THEN Fails(p, "gone") ELSE Goto(p, "bind")
  /\ file' = NoFile
  /\ UNCHANGED <<listening, cancelled, met>>

\* ListenUnix: the path must be free.
Bind(p) ==
  /\ pc[p] = "bind"
  /\ IF file = NoFile
       THEN Goto(p, "chmod") /\ file' = p /\ listening' = listening \cup {p}
       ELSE Fails(p, "inUse") /\ UNCHANGED <<file, listening>>
  /\ UNCHANGED <<cancelled, met>>

\* Chmod finds a file at the path, its own or another's: the endpoint is active.
Chmod(p) ==
  /\ pc[p] = "chmod"
  /\ Goto(p, IF file = NoFile THEN "undo" ELSE "active")
  /\ UNCHANGED <<file, listening, cancelled, met>>

\* It found none: the listener is closed again.
Undo(p) ==
  /\ pc[p] = "undo" /\ Fails(p, "chmod")
  /\ file' = NoFile /\ listening' = listening \ {p}
  /\ UNCHANGED <<cancelled, met>>

-----------------------------------------------------------------------------
(* runUnix                                                                 *)

\* The last remote of the session is created too: the proxies run.
RunUnix(p) ==
  /\ pc[p] = "active" /\ Goto(p, "run")
  /\ UNCHANGED <<file, listening, cancelled, met>>

\* Another one failed: BindRemotes drops the proxy without closing it, and its
\* descriptor, not its file, goes when it is collected.
Abandon(p) ==
  /\ pc[p] = "active" /\ Goto(p, "left")
  /\ UNCHANGED <<file, listening, cancelled, met>>

Collect(p) ==
  /\ pc[p] = "left" /\ p \in listening
  /\ listening' = listening \ {p}
  /\ UNCHANGED <<pc, why, file, cancelled, met>>

\* The session's context is cancelled.
Cancel(p) ==
  /\ p \in Live \ cancelled /\ cancelled' = cancelled \cup {p}
  /\ UNCHANGED <<pc, why, file, listening, met>>

\* Close unlinks the path and closes the listener.
CloseUnix(p) ==
  /\ Goto(p, "closing")
  /\ file' = NoFile /\ listening' = listening \ {p}
  /\ UNCHANGED <<cancelled, met>>

\* A goroutine does it when the context is done; then AcceptUnix fails.
CloseOnDone(p) == pc[p] = "run" /\ p \in cancelled /\ CloseUnix(p)

\* AcceptUnix fails by itself, and the deferred function does it.
AcceptFailsUnclean(p) ==
  /\ pc[p] = "run" /\ Goto(p, "over")
  /\ listening' = listening \ {p} /\ UNCHANGED <<file, cancelled, met>>

AcceptFails(p) == pc[p] = "run" /\ CloseUnix(p)

\* The deferred function also removes whatever is at the path now.
RemoveOnExit(p) ==
  /\ pc[p] = "closing" /\ Goto(p, "over")
  /\ file' = NoFile
  /\ UNCHANGED <<listening, cancelled, met>>

-----------------------------------------------------------------------------
\* The server process ends: killed, or returned from main, which waits for the
\* HTTP server and not for the sessions.  Files stay.
Crash ==
  /\ Live \cup listening # {}
  /\ pc' = [p \in Proxies |-> IF p \in Live \cup listening THEN "dead" ELSE pc[p]]
  /\ listening' = {}
  /\ UNCHANGED <<why, file, cancelled, met>>

Ended == {"failed", "left", "over", "dead"}
Terminated == (\A p \in Proxies : pc[p] \in Ended) /\ UNCHANGED vars

Listen(p) == Begin(p) \/ MkdirFails(p) \/ Stat(p) \/ Remove(p) \/ Bind(p) \/ Chmod(p) \/ Undo(p)
Run(p) == RunUnix(p) \/ CloseOnDone(p) \/ AcceptFails(p) \/ RemoveOnExit(p)

Next ==
  \/ \E p \in Proxies : Listen(p) \/ Run(p) \/ Abandon(p) \/ Collect(p) \/ Cancel(p)
  \/ Crash \/ Terminated

Spec == Init /\ [][Next]_vars

-----------------------------------------------------------------------------
(* Properties                                                              *)

TypeOK ==
  /\ pc \in [Proxies -> {"new", "stat", "remove", "bind", "chmod", "undo", "active",
                         "run", "closing"} \cup Ended]
  /\ why \in [Proxies -> {"none", "mkdir", "notSocket", "gone", "inUse", "chmod"}]
  /\ file \in Proxies \cup {NoFile, Foreign}
  /\ listening \subseteq Proxies /\ cancelled \subseteq Proxies
  /\ met \in [Proxies -> SUBSET Proxies]

\* A socket file without a listener is left behind only by a process that
\* ended or a session that could not bind its other remotes; one that ran takes
\* its file with it, also when AcceptUnix fails by itself
\* (tunnel_in_proxy.go:226-229, tunnel.go:191-201).
StaleHasCause == file \in Proxies \ listening => pc[file] \in {"dead", "left"}

\* "stale socket cleanup ... included for uds-listen" (README.md:20): a proxy
\* that shared its path with no other live one does not fail on the path,
\* whatever earlier servers and sessions left there, and while it is reported
\* active its socket is at the path.  (One that did meet another may lose the
\* path: a start takes it over, an end takes the file away, also when it is not
\* its own: tunnel_in_proxy.go:79-93, 226-229, 254-267.)
AloneIsServed ==
  \A p \in Proxies :
    met[p] = {} => /\ why[p] \notin {"gone", "inUse", "chmod"}
                   /\ pc[p] \in {"active", "run"} => file = p
=============================================================================
