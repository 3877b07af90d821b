------------------------------- MODULE UDSPair -------------------------------
(***************************************************************************)
(* The server's registry of uds-pair endpoints and the relay between two   *)
(* paired clients (share/tunnel/tunnel_in_proxy_uds_pair.go), run by the   *)
(* error groups of BindRemotes (tunnel.go) and of the session's handler    *)
(* (server/server_handler.go).                                             *)
(*                                                                         *)
(* A proxy is one uds-pair remote of one session.  It either queues on its *)
(* path or takes the proxy at the head of the queue and relays for both:   *)
(* the relaying proxy opens a stream on its peer's SSH connection, then    *)
(* one on its own, and copies both ways until both directions have ended.  *)
(* The critical sections of the registry, one channel operation and one    *)
(* call on an SSH connection are one step each.  The tunnel of a session   *)
(* is reduced to whether its SSH connection is up (module Tunnel has the   *)
(* rest): the connection goes down when the session's context is done and  *)
(* the context is cancelled when the connection goes down.                 *)
(***************************************************************************)
EXTENDS Naturals, Sequences

CONSTANTS
  Proxies, Paths, Sessions,
  PathOf,      \* the UDSSocketPath of each proxy's remote
  SessionOf,   \* the session each proxy belongs to
  None         \* no proxy

ASSUME PairAssumption ==
  /\ PathOf \in [Proxies -> Paths]
  /\ SessionOf \in [Proxies -> Sessions]
  /\ None \notin Proxies

VARIABLES
  waiters,   \* udsPairRegistry.waiters: the queue of each path
  matched,   \* the one-place matched channel of each waiter: a relaying proxy
  peer,      \* the waiter each relaying proxy took
  pc,        \* control state of Proxy.Run
  ret,       \* what Run returned
  streams,   \* ends of its relay ("a", "b") a relaying proxy has opened
  eof,       \* those that are closed or at end of file
  copying,   \* copy directions still running, named after their source
  bindDone,  \* sessions whose BindRemotes context was cancelled by an error
  bound,     \* sessions whose BindRemotes has not returned
  sessDone,  \* sessions whose context is done
  up         \* sessions whose SSH connection is up

regVars == <<waiters, matched, peer>>
relayVars == <<streams, eof, copying>>
sessVars == <<bindDone, bound, sessDone, up>>
vars == <<regVars, pc, ret, relayVars, sessVars>>

End == {"a", "b"}
Other(e) == IF e = "a" THEN "b" ELSE "a"

\* ctx.Done() of the context Run was given.
CtxDone(p) == SessionOf[p] \in bindDone \cup sessDone

\* The session whose connection carries end e of the relay p runs.
EndSession(p, e) == SessionOf[IF e = "a" THEN peer[p] ELSE p]

\* Run returns nil; a relaying proxy's deferred close(done) has run.
ReturnNil(p) == pc' = [pc EXCEPT ![p] = "done"] /\ ret' = [ret EXCEPT ![p] = "nil"]

\* relayUDSPair returns an error: its streams are closed, done is closed, and
\* the error group of BindRemotes cancels the context of the whole group.
ReturnErr(p) ==
  /\ pc' = [pc EXCEPT ![p] = "done"]
  /\ ret' = [ret EXCEPT ![p] = "err"]
  /\ eof' = [eof EXCEPT ![p] = streams[p]]
  /\ bindDone' = bindDone \cup {SessionOf[p]}
  /\ UNCHANGED <<regVars, streams, copying, bound, sessDone, up>>

-----------------------------------------------------------------------------
(* udsPairRegistry.run                                                     *)

\* The queue is not empty: take its head and become the relaying proxy.
Match(p) ==
  LET path == PathOf[p]
  IN  /\ pc[p] = "idle" /\ waiters[path] # << >>
      /\ waiters' = [waiters EXCEPT ![path] = Tail(@)]
      /\ matched' = [matched EXCEPT ![Head(waiters[path])] = p]
      /\ peer' = [peer EXCEPT ![p] = Head(waiters[path])]
      /\ pc' = [pc EXCEPT ![p] = "checkA"]
      /\ UNCHANGED <<ret, relayVars, sessVars>>

\* The queue is empty: join it.
Enqueue(p) ==
  /\ pc[p] = "idle" /\ waiters[PathOf[p]] = << >>
  /\ waiters' = [waiters EXCEPT ![PathOf[p]] = Append(@, p)]
  /\ pc' = [pc EXCEPT ![p] = "waiting"]
  /\ UNCHANGED <<matched, peer, ret, relayVars, sessVars>>

\* The outer select: a relaying proxy has come ...
TakeMatch(p) ==
  /\ pc[p] = "waiting" /\ matched[p] # None
  /\ pc' = [pc EXCEPT ![p] = "paired"]
  /\ UNCHANGED <<regVars, ret, relayVars, sessVars>>

\* ... or the context is done, whether one has come or not.
StopWaitingNever(p) == FALSE

StopWaiting(p) ==
  /\ pc[p] = "waiting" /\ CtxDone(p)
  /\ pc' = [pc EXCEPT ![p] = "removing"]
  /\ UNCHANGED <<regVars, ret, relayVars, sessVars>>

\* removeWaiter: a no-op when the waiter was matched meanwhile.
RemoveNothing(p) ==
  /\ pc[p] = "removing" /\ ReturnNil(p)
  /\ UNCHANGED <<regVars, relayVars, sessVars>>

RemoveWaiter(p) ==
  LET queue == waiters[PathOf[p]]
  IN  /\ pc[p] = "removing"
      /\ \/ \E i \in 1 .. Len(queue) :
              /\ queue[i] = p
              /\ waiters' = [waiters EXCEPT ![PathOf[p]] =
                               SubSeq(queue, 1, i - 1) \o SubSeq(queue, i + 1, Len(queue))]
         \/ (\A i \in 1 .. Len(queue) : queue[i] # p) /\ UNCHANGED waiters
      /\ ReturnNil(p)
      /\ UNCHANGED <<matched, peer, relayVars, sessVars>>

\* The inner select: the context, or done closed by the relaying proxy.
LeavePairWithError(p) == pc[p] = "paired" /\ CtxDone(p) /\ ReturnErr(p)

LeavePair(p) ==
  /\ pc[p] = "paired" /\ (CtxDone(p) \/ pc[matched[p]] = "done")
  /\ ReturnNil(p)
  /\ UNCHANGED <<regVars, relayVars, sessVars>>

-----------------------------------------------------------------------------
(* relayUDSPair                                                            *)

\* openRemoteStream for either end, with the relaying proxy's own context:
\* getSSH looks at the context first ...
CheckCtx(p, e) ==
  /\ pc[p] = (IF e = "a" THEN "checkA" ELSE "checkB")
  /\ IF CtxDone(p)
       THEN ReturnErr(p)
       ELSE /\ pc' = [pc EXCEPT ![p] = IF e = "a" THEN "openA" ELSE "openB"]
            /\ UNCHANGED <<regVars, ret, relayVars, sessVars>>

Opening(p, e) == pc[p] = (IF e = "a" THEN "openA" ELSE "openB")

\* ... then the channel is opened on the connection of the end's session ...
OpenStream(p, e) ==
  /\ Opening(p, e) /\ EndSession(p, e) \in up
  /\ streams' = [streams EXCEPT ![p] = @ \cup {e}]
  /\ IF e = "a"
       THEN pc' = [pc EXCEPT ![p] = "checkB"] /\ UNCHANGED copying
       ELSE pc' = [pc EXCEPT ![p] = "piping"] /\ copying' = [copying EXCEPT ![p] = End]
  /\ UNCHANGED <<regVars, ret, eof, sessVars>>

\* ... unless there is no connection or its client refuses the channel.
OpenFails(p, e) == Opening(p, e) /\ ReturnErr(p)

\* The client closes its end of a stream, or its connection is lost.
StreamEnds(p, e) ==
  /\ pc[p] \in {"checkB", "openB", "piping"} /\ e \in streams[p] \ eof[p]
  /\ eof' = [eof EXCEPT ![p] = @ \cup {e}]
  /\ UNCHANGED <<regVars, pc, ret, streams, copying, sessVars>>

\* pipeBidirectional: io.Copy from end e returns, at end of file or because
\* a write fails, and the goroutine closes the stream it was writing to.
CopyEndsLeavesOpen(p, e) ==
  /\ pc[p] = "piping" /\ e \in copying[p] /\ eof[p] # {}
  /\ copying' = [copying EXCEPT ![p] = @ \ {e}]
  /\ UNCHANGED <<regVars, pc, ret, streams, eof, sessVars>>

CopyEnds(p, e) ==
  /\ pc[p] = "piping" /\ e \in copying[p] /\ eof[p] # {}
  /\ copying' = [copying EXCEPT ![p] = @ \ {e}]
  /\ eof' = [eof EXCEPT ![p] = @ \cup {Other(e)}]
  /\ UNCHANGED <<regVars, pc, ret, streams, sessVars>>

\* wg.Wait returns; the deferred calls close both streams and then done.
RelayReturns(p) ==
  /\ pc[p] = "piping" /\ copying[p] = {}
  /\ ReturnNil(p)
  /\ eof' = [eof EXCEPT ![p] = streams[p]]
  /\ UNCHANGED <<regVars, streams, copying, sessVars>>

-----------------------------------------------------------------------------
(* The session around its proxies.                                         *)

\* The SSH connection is lost, or closed by the closer of its tunnel.
SSHDown(s) ==
  /\ s \in up
  /\ up' = up \ {s}
  /\ UNCHANGED <<regVars, pc, ret, relayVars, bindDone, bound, sessDone>>

\* The session's context is done: from outside, or by BindSSH's return.
SessionDone(s) ==
  /\ s \notin sessDone
  /\ sessDone' = sessDone \cup {s}
  /\ UNCHANGED <<regVars, pc, ret, relayVars, bindDone, bound, up>>

\* BindRemotes returns when every proxy has; its error, if any, ends the
\* session.
BindReturns(s) ==
  /\ s \in bound /\ \A p \in Proxies : SessionOf[p] = s => pc[p] = "done"
  /\ bound' = bound \ {s}
  /\ sessDone' = IF \E p \in Proxies : SessionOf[p] = s /\ ret[p] = "err"
                   THEN sessDone \cup {s} ELSE sessDone
  /\ UNCHANGED <<regVars, pc, ret, relayVars, bindDone, up>>

-----------------------------------------------------------------------------
\* Nothing is left to do once every session is over and unbound.
Terminated ==
  /\ bound = {} /\ up = {} /\ sessDone = Sessions
  /\ UNCHANGED vars

RunStep(p) ==
  \/ Match(p) \/ Enqueue(p) \/ TakeMatch(p) \/ StopWaiting(p) \/ RemoveWaiter(p)
  \/ LeavePair(p) \/ RelayReturns(p)
  \/ \E e \in End : CheckCtx(p, e) \/ OpenStream(p, e) \/ OpenFails(p, e)

Init ==
  /\ waiters = [path \in Paths |-> << >>]
  /\ matched = [p \in Proxies |-> None] /\ peer = [p \in Proxies |-> None]
  /\ pc = [p \in Proxies |-> "idle"] /\ ret = [p \in Proxies |-> "none"]
  /\ streams = [p \in Proxies |-> {}] /\ eof = [p \in Proxies |-> {}]
  /\ copying = [p \in Proxies |-> {}]
  /\ bindDone = {} /\ bound = Sessions /\ sessDone = {} /\ up = Sessions

Next ==
  \/ \E p \in Proxies : RunStep(p) \/ \E e \in End : StreamEnds(p, e) \/ CopyEnds(p, e)
  \/ \E s \in Sessions : SSHDown(s) \/ SessionDone(s) \/ BindReturns(s)
  \/ Terminated

\* What must happen: goroutines run; a client answers a channel request (its
\* SSH library does); a closed or lost stream is noticed by whoever reads it;
\* the context and the connection of a session take each other down.  No
\* client need ever close a stream, lose its connection or be cancelled.  No
\* step can be repeated for ever, so weak fairness of each union is as strong
\* as weak fairness of its parts.
ProxyProgress(p) ==
  \/ RunStep(p)
  \/ \E e \in End : \/ CopyEnds(p, e) /\ e \in eof[p]
                    \/ StreamEnds(p, e) /\ EndSession(p, e) \notin up

SessionProgress(s) ==
  \/ s \in sessDone /\ SSHDown(s)
  \/ s \notin up /\ SessionDone(s)
  \/ BindReturns(s)

Fairness ==
  /\ \A p \in Proxies : WF_vars(ProxyProgress(p))
  /\ \A s \in Sessions : WF_vars(SessionProgress(s))

Spec == Init /\ [][Next]_vars
FairSpec == Spec /\ Fairness

-----------------------------------------------------------------------------
(* Properties.                                                             *)

Relaying == {"checkA", "openA", "checkB", "openB", "piping"}

\* The type invariant.
TypeOK ==
  /\ waiters \in [Paths -> Seq(Proxies)]
  /\ matched \in [Proxies -> Proxies \cup {None}]
  /\ peer \in [Proxies -> Proxies \cup {None}]
  /\ pc \in [Proxies -> {"idle", "waiting", "removing", "paired", "done"} \cup Relaying]
  /\ ret \in [Proxies -> {"none", "nil", "err"}]
  /\ streams \in [Proxies -> SUBSET End] /\ eof \in [Proxies -> SUBSET End]
  /\ copying \in [Proxies -> SUBSET End]
  /\ bindDone \subseteq Sessions /\ bound \subseteq Sessions
  /\ sessDone \subseteq Sessions /\ up \subseteq Sessions

\* The queue holds exactly the waiters that can still be matched, each on its
\* own path, and never more than one per path: an arrival that finds the queue
\* non-empty always empties it (uds_pair.go:37-49, 65-78).
QueueExact ==
  \A path \in Paths :
    /\ Len(waiters[path]) <= 1
    /\ \A p \in Proxies :
         waiters[path] = <<p>> <=>
           PathOf[p] = path /\ pc[p] \in {"waiting", "removing"} /\ matched[p] = None

\* The pairing is one to one: a waiter is handed to one relaying proxy, which
\* has taken that waiter and no other, on the same path and never itself
\* (uds_pair.go:38-46).
PairingExact ==
  \A p, q \in Proxies :
    /\ matched[p] = q <=> peer[q] = p
    /\ matched[p] = q => PathOf[p] = PathOf[q] /\ p # q /\ matched[q] = None /\ peer[p] = None

\* Only the arriving proxy can fail, and only its own session is cancelled for
\* it: a proxy that waited always returns nil, whatever the relay met
\* (uds_pair.go:43-62, tunnel.go:203-213).
OnlyRelayFails ==
  /\ \A p \in Proxies : ret[p] = "err" => peer[p] # None
  /\ \A s \in bindDone : \E p \in Proxies : SessionOf[p] = s /\ ret[p] = "err"

\* When a session's context is done every one of its proxies returns, the one
\* that is relaying too (uds_pair.go:51-62, 96; tunnel.go:112-118).
SessionEndReturns ==
  \A s \in Sessions : (s \in sessDone) ~> (s \notin bound)

\* When one client closes its end of a running relay, the relay ends: closing
\* is passed on to the other client (uds_pair.go:106-118).
HalfCloseEndsRelay ==
  \A p \in Proxies : (pc[p] = "piping" /\ eof[p] # {}) ~> (pc[p] = "done")

\* The registry is a rendezvous: the slot of a path is the head of its queue,
\* and each of a pair has the other for partner (uds_pair.go:30-78).
RegistrySlot == [path \in Paths |-> IF waiters[path] = << >> THEN None ELSE Head(waiters[path])]
RegistryPartner == [p \in Proxies |-> IF peer[p] # None THEN peer[p] ELSE matched[p]]
Returned == {p \in Proxies : pc[p] = "done"}

R == INSTANCE Rendezvous WITH
       Parties <- Proxies, Places <- Paths, PlaceOf <- PathOf, Nobody <- None,
       slot <- RegistrySlot, partner <- RegistryPartner, gone <- Returned

IsRendezvous == R!Spec
=============================================================================
