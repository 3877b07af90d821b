------------------------------ MODULE Session -------------------------------
(***************************************************************************)
(* A server session from the upgrade to the disconnect: handleWebsocket    *)
(* (server/server_handler.go) with authUser and the user table it reads    *)
(* (server/server.go, share/settings/users.go, user.go), the binding of    *)
(* the session's reverse remotes (share/tunnel/tunnel.go BindRemotes,      *)
(* tunnel_in_proxy.go) and the status the monitor reports for the session  *)
(* and its endpoints (server/monitor_state.go).                            *)
(*                                                                         *)
(* Every session is one handler goroutine; two more run while it is bound. *)
(* Sessions meet in the user table, which an operator changes at any time, *)
(* and in the listening addresses of the host.  One read of the table, one *)
(* attempt to listen and one monitor update are one step each.  BindSSH is *)
(* reduced to whether the SSH connection is up (module Tunnel has the      *)
(* rest); a reverse remote here listens on a socket, udp as tcp does (for  *)
(* uds-pair remotes, which hold no address, see module UDSPair).           *)
(***************************************************************************)
EXTENDS Naturals, Sequences, FiniteSets

CONSTANTS
  Sessions, Addrs, Remotes,
  Users,        \* settings.User values: records with name, pass and addrs
  NoUser,       \* the nil *settings.User
  Nobody,       \* no session
  Reverse,      \* the remotes with the Reverse flag
  LocalOf,      \* the local address of each remote
  Wanted,       \* the remotes in each client's configuration, in order
  Login,        \* the name and password each client presents
  AllowReverse  \* Config.Reverse of the server, TRUE or FALSE

ASSUME SessionAssumption ==
  /\ LocalOf \in [Remotes -> Addrs] /\ Reverse \subseteq Remotes
  /\ Wanted \in [Sessions -> Seq(Remotes)]
  /\ NoUser \notin Users /\ Nobody \notin Sessions
  /\ \A u \in Users : u.addrs \subseteq Remotes

VARIABLES
  users,      \* Server.users: records with distinct names
  smap,       \* Server.sessions: the user stored for an SSH session id
  pc,         \* control state of each handler
  idx,        \* its position in the list of remotes
  user,       \* its local user
  up,         \* sessions whose SSH connection is up
  bpc,        \* control state of the goroutine in BindRemotes
  running,    \* remotes whose Proxy.Run has not returned
  runErr,     \* an Accept error: none, returned, or swallowed as the context was done
  ctxDone,    \* sessions whose shared context is done
  sshBound,   \* sessions in BindSSH
  holder,     \* the session whose listener has an address
  mon,        \* SessionSnapshot.Status
  ep,         \* EndpointSnapshot.Status of each session and remote
  seen        \* history: records in the table at some time before the lookup,
              \* and NoUser if it was empty at some time

handlerVars == <<pc, idx, user>>
authVars == <<users, smap, seen>>
bindVars == <<bpc, running, runErr, ctxDone, sshBound, holder>>
monVars == <<mon, ep>>
vars == <<handlerVars, authVars, bindVars, monVars, up>>

Inbound(s) == SelectSeq(Wanted[s], LAMBDA r : r \in Reverse)

\* True of every sequence; SelectSeq is recursive, so proofs take it from here.
ASSUME InboundAssumption == \A s \in Sessions : Inbound(s) \in Seq(Remotes)

RangeOf(seq) == {seq[i] : i \in 1 .. Len(seq)}

Ongoing == {"upgrade", "handshake", "authGet", "authed", "lookup", "lookupGet"}

\* History: session s is in its handshake while the table is t.
Sees(t) == IF t = {} THEN {NoUser} ELSE t

Init ==
  /\ users \in {{}} \cup {{u} : u \in Users}
  /\ smap = [s \in Sessions |-> NoUser] /\ user = [s \in Sessions |-> NoUser]
  /\ pc = [s \in Sessions |-> "new"] /\ idx = [s \in Sessions |-> 1]
  /\ bpc = [s \in Sessions |-> "none"] /\ running = [s \in Sessions |-> {}]
  /\ runErr = [s \in Sessions |-> "none"]
  /\ up = {} /\ ctxDone = {} /\ sshBound = {}
  /\ holder = [a \in Addrs |-> Nobody]
  /\ mon = [s \in Sessions |-> "none"]
  /\ ep = [s \in Sessions |-> [r \in Remotes |-> "none"]]
  /\ seen = [s \in Sessions |-> {}]

-----------------------------------------------------------------------------
(* Server.AddUser, DeleteUser and ResetUsers, called by the program that   *)
(* embeds the server or by the reload of the auth file.                    *)

SetUsers(t) ==
  /\ users' = t
  /\ seen' = [s \in Sessions |-> IF pc[s] \in Ongoing THEN seen[s] \cup Sees(t) ELSE seen[s]]
  /\ UNCHANGED <<smap, handlerVars, bindVars, monVars, up>>

Named(n) == {u \in users : u.name = n}

AddUser(u) == SetUsers((users \ Named(u.name)) \cup {u})
DeleteUser(u) == SetUsers(users \ Named(u.name))
ResetUsers(t) == (\A u, v \in t : u.name = v.name => u = v) /\ SetUsers(t)

-----------------------------------------------------------------------------
(* handleWebsocket: upgrade and SSH handshake, with authUser called from   *)
(* within the handshake.                                                   *)

Goto(s, l) == pc' = [pc EXCEPT ![s] = l]
Mark(s, status) == mon' = [mon EXCEPT ![s] = status] /\ UNCHANGED ep
Ends(s) == Goto(s, "ended") /\ UNCHANGED <<idx, user>>

Accept(s) ==
  /\ pc[s] = "new"
  /\ Goto(s, "upgrade") /\ Mark(s, "pending")
  /\ seen' = [seen EXCEPT ![s] = Sees(users)]
  /\ UNCHANGED <<idx, user, users, smap, bindVars, up>>

Upgrade(s) ==
  /\ pc[s] = "upgrade" /\ Goto(s, "handshake")
  /\ UNCHANGED <<idx, user, authVars, bindVars, monVars, up>>

\* Upgrade or ssh.NewServerConn returns an error.
HandshakeFails(s) ==
  /\ pc[s] \in {"upgrade", "handshake", "authed"}
  /\ Ends(s) /\ Mark(s, "failed")
  /\ UNCHANGED <<authVars, bindVars, up>>

\* authUser: no users, allow all ...
AuthLen(s) ==
  /\ pc[s] = "handshake"
  /\ Goto(s, IF users = {} THEN "authed" ELSE "authGet")
  /\ UNCHANGED <<idx, user, authVars, bindVars, monVars, up>>

\* ... otherwise the name must be found with the same password.  A client that
\* was refused may try again.
AuthenticatesByName(u, s) == u.name = Login[s].name
Authenticates(u, s) == u.name = Login[s].name /\ u.pass = Login[s].pass

AuthGet(s) ==
  /\ pc[s] = "authGet"
  /\ \/ \E u \in users :
          Authenticates(u, s) /\ smap' = [smap EXCEPT ![s] = u] /\ Goto(s, "authed")
     \/ /\ \A u \in users : ~Authenticates(u, s)
        /\ Goto(s, "handshake") /\ UNCHANGED smap
  /\ UNCHANGED <<idx, user, users, seen, bindVars, monVars, up>>

HandshakeDone(s) ==
  /\ pc[s] = "authed" /\ Goto(s, "lookup") /\ up' = up \cup {s}
  /\ UNCHANGED <<idx, user, authVars, bindVars, monVars>>

\* The handler pulls the user from the session map, if there are users now.
LookupLen(s) ==
  /\ pc[s] = "lookup"
  /\ Goto(s, IF users = {} THEN "config" ELSE "lookupGet")
  /\ UNCHANGED <<idx, user, authVars, bindVars, monVars, up>>

\* It panics, and net/http recovers the handler, when none was stored.
LookupGetKeeps(s) ==
  /\ pc[s] = "lookupGet"
  /\ Goto(s, IF smap[s] = NoUser THEN "authPanic" ELSE "config")
  /\ user' = [user EXCEPT ![s] = smap[s]]
  /\ UNCHANGED <<idx, users, smap, seen, bindVars, monVars, up>>

LookupGet(s) ==
  /\ pc[s] = "lookupGet"
  /\ Goto(s, IF smap[s] = NoUser THEN "authPanic" ELSE "config")
  /\ user' = [user EXCEPT ![s] = smap[s]]
  /\ smap' = [smap EXCEPT ![s] = NoUser]
  /\ UNCHANGED <<idx, users, seen, bindVars, monVars, up>>

-----------------------------------------------------------------------------
(* handleWebsocket: the configuration.                                     *)

\* The first request has come: a well-formed configuration ...
ConfigArrives(s) ==
  /\ pc[s] = "config" /\ s \in up
  /\ Goto(s, "validate") /\ UNCHANGED <<idx, user, authVars, bindVars, monVars, up>>

\* ... or another request, or one that does not decode.
ConfigInvalid(s) ==
  /\ pc[s] = "config" /\ s \in up
  /\ Ends(s) /\ Mark(s, "failed") /\ UNCHANGED <<authVars, bindVars, up>>

ConfigTimeoutNever(s) == FALSE

ConfigTimeout(s) ==
  /\ pc[s] = "config"
  /\ Ends(s) /\ Mark(s, "failed") /\ up' = up \ {s}
  /\ UNCHANGED <<authVars, bindVars>>

\* The channel of requests was closed: a nil request, dereferenced.
ConfigClosed(s) ==
  /\ pc[s] = "config" /\ s \notin up
  /\ Goto(s, "nilPanic") /\ UNCHANGED <<idx, user, authVars, bindVars, monVars, up>>

HasAccess(u, r) == r \in u.addrs
Allowed(s, r) ==
  /\ user[s] # NoUser => HasAccess(user[s], r)
  /\ r \in Reverse => AllowReverse

\* One remote of the configuration passes: allowed, and if it is a reverse one
\* a trial listener was opened on its address and closed again.
ValidateNext(s) ==
  /\ pc[s] = "validate" /\ idx[s] <= Len(Wanted[s])
  /\ LET r == Wanted[s][idx[s]]
     IN  Allowed(s, r) /\ (r \in Reverse => holder[LocalOf[r]] = Nobody)
  /\ idx' = [idx EXCEPT ![s] = @ + 1]
  /\ UNCHANGED <<pc, user, authVars, bindVars, monVars, up>>

\* It does not; other programs of the host may have the address too.  The SSH
\* connection is left open.
ValidateFails(s) ==
  /\ pc[s] = "validate" /\ idx[s] <= Len(Wanted[s])
  /\ LET r == Wanted[s][idx[s]] IN ~Allowed(s, r) \/ r \in Reverse
  /\ Ends(s) /\ Mark(s, "failed") /\ UNCHANGED <<authVars, bindVars, up>>

\* All of them pass: the two goroutines of the error group start.
Connected(s) ==
  /\ pc[s] = "validate" /\ idx[s] > Len(Wanted[s])
  /\ Goto(s, "bound") /\ Mark(s, "connected")
  /\ idx' = [idx EXCEPT ![s] = 1]
  /\ sshBound' = sshBound \cup {s}
  /\ bpc' = [bpc EXCEPT ![s] = IF Inbound(s) = << >> THEN "done" ELSE "create"]
  /\ UNCHANGED <<user, authVars, running, runErr, ctxDone, holder, up>>

-----------------------------------------------------------------------------
(* BindRemotes: NewProxy for each remote in turn, then Run for all.        *)

Current(s) == Inbound(s)[idx[s]]
Endpoint(s, r, status) == ep' = [ep EXCEPT ![s][r] = status] /\ UNCHANGED mon
BindCtxDone(s) == s \in ctxDone \/ runErr[s] = "returned"

\* NewProxy announces the endpoint ...
NewProxy(s) ==
  /\ bpc[s] = "create" /\ idx[s] <= Len(Inbound(s))
  /\ bpc' = [bpc EXCEPT ![s] = "listen"]
  /\ Endpoint(s, Current(s), "pending")
  /\ UNCHANGED <<handlerVars, authVars, running, runErr, ctxDone, sshBound, holder, up>>

\* ... and listens.
Listen(s) ==
  /\ bpc[s] = "listen" /\ holder[LocalOf[Current(s)]] = Nobody
  /\ holder' = [holder EXCEPT ![LocalOf[Current(s)]] = s]
  /\ bpc' = [bpc EXCEPT ![s] = "create"]
  /\ idx' = [idx EXCEPT ![s] = @ + 1]
  /\ Endpoint(s, Current(s), "active")
  /\ UNCHANGED <<pc, user, authVars, running, runErr, ctxDone, sshBound, up>>

\* The address is taken, by a session or by another program: BindRemotes
\* returns the error, the proxies created before keep their listeners, and the
\* error group cancels the shared context.
ListenFailsQuietly(s) ==
  /\ bpc[s] = "listen"
  /\ bpc' = [bpc EXCEPT ![s] = "failed"]
  /\ Endpoint(s, Current(s), "failed")
  /\ UNCHANGED <<handlerVars, authVars, running, runErr, ctxDone, sshBound, holder, up>>

ListenFailsGoesOn(s) ==
  /\ bpc[s] = "listen"
  /\ bpc' = [bpc EXCEPT ![s] = "create"]
  /\ idx' = [idx EXCEPT ![s] = @ + 1]
  /\ Endpoint(s, Current(s), "failed")
  /\ UNCHANGED <<pc, user, authVars, running, runErr, ctxDone, sshBound, holder, up>>

ListenFails(s) ==
  /\ bpc[s] = "listen"
  /\ bpc' = [bpc EXCEPT ![s] = "failed"]
  /\ Endpoint(s, Current(s), "failed")
  /\ ctxDone' = ctxDone \cup {s}
  /\ UNCHANGED <<handlerVars, authVars, running, runErr, sshBound, holder, up>>

RunAll(s) ==
  /\ bpc[s] = "create" /\ idx[s] > Len(Inbound(s))
  /\ bpc' = [bpc EXCEPT ![s] = "run"]
  /\ running' = [running EXCEPT ![s] = RangeOf(Inbound(s))]
  /\ UNCHANGED <<handlerVars, authVars, runErr, ctxDone, sshBound, holder, monVars, up>>

\* Proxy.Run: when the context is done a goroutine closes the listener ...
CloseListener(s, r) ==
  /\ r \in running[s] /\ BindCtxDone(s) /\ holder[LocalOf[r]] = s
  /\ holder' = [holder EXCEPT ![LocalOf[r]] = Nobody]
  /\ UNCHANGED <<handlerVars, authVars, bpc, running, runErr, ctxDone, sshBound, monVars, up>>

\* ... whereupon Accept fails and Run returns nil.
RunReturns(s, r) ==
  /\ r \in running[s] /\ BindCtxDone(s) /\ holder[LocalOf[r]] # s
  /\ running' = [running EXCEPT ![s] = @ \ {r}]
  /\ Endpoint(s, r, "closed")
  /\ UNCHANGED <<handlerVars, authVars, bpc, runErr, ctxDone, sshBound, holder, up>>

\* Accept fails by itself: Run returns and leaves the listener open.  With the
\* context done already the error is dropped.
AcceptFails(s, r) ==
  /\ r \in running[s] /\ holder[LocalOf[r]] = s
  /\ running' = [running EXCEPT ![s] = @ \ {r}]
  /\ runErr' = [runErr EXCEPT ![s] = IF BindCtxDone(s) /\ @ # "returned"
                                     THEN "swallowed" ELSE "returned"]
  /\ Endpoint(s, r, "closed")
  /\ UNCHANGED <<handlerVars, authVars, bpc, ctxDone, sshBound, holder, up>>

\* A listener that nobody runs is closed when its proxy is collected.
Collect(s, a) ==
  /\ holder[a] = s /\ bpc[s] \in {"run", "done", "failed"}
  /\ \A r \in running[s] : LocalOf[r] # a
  /\ holder' = [holder EXCEPT ![a] = Nobody]
  /\ UNCHANGED <<handlerVars, authVars, bpc, running, runErr, ctxDone, sshBound, monVars, up>>

BindRemotesReturns(s) ==
  /\ bpc[s] = "run" /\ running[s] = {}
  /\ bpc' = [bpc EXCEPT ![s] = IF runErr[s] = "returned" THEN "failed" ELSE "done"]
  /\ ctxDone' = IF runErr[s] = "returned" THEN ctxDone \cup {s} ELSE ctxDone
  /\ UNCHANGED <<handlerVars, authVars, running, runErr, sshBound, holder, monVars, up>>

-----------------------------------------------------------------------------
(* BindSSH, and the end of the handler.                                    *)

\* The client or the network closes the connection.
SSHDrops(s) ==
  /\ s \in up /\ up' = up \ {s}
  /\ UNCHANGED <<handlerVars, authVars, bindVars, monVars>>

\* BindSSH closes it when the context is done.
SSHClosed(s) == s \in ctxDone \cap sshBound /\ SSHDrops(s)

\* BindSSH returns the connection's error, so the context is cancelled.
BindSSHReturnsNil(s) ==
  /\ s \in sshBound \ up
  /\ sshBound' = sshBound \ {s}
  /\ UNCHANGED <<handlerVars, authVars, bpc, running, runErr, ctxDone, holder, monVars, up>>

BindSSHReturns(s) ==
  /\ s \in sshBound \ up
  /\ sshBound' = sshBound \ {s} /\ ctxDone' = ctxDone \cup {s}
  /\ UNCHANGED <<handlerVars, authVars, bpc, running, runErr, holder, monVars, up>>

\* markSessionDisconnected also closes what is pending or active.
KeepEndpoints(s) == ep[s]
CloseEndpoints(s) ==
  [r \in Remotes |-> IF ep[s][r] \in {"active", "pending"} THEN "closed" ELSE ep[s][r]]

Disconnected(s) ==
  /\ pc[s] = "bound" /\ s \notin sshBound /\ bpc[s] \in {"done", "failed"}
  /\ Ends(s)
  /\ mon' = [mon EXCEPT ![s] = "disconnected"]
  /\ ep' = [ep EXCEPT ![s] = CloseEndpoints(s)]
  /\ UNCHANGED <<authVars, bindVars, up>>

-----------------------------------------------------------------------------
ChangeUsers ==
  \/ \E u \in Users : AddUser(u) \/ DeleteUser(u)
  \/ \E t \in SUBSET Users : ResetUsers(t)

HandlerStep(s) ==
  \/ Upgrade(s) \/ AuthLen(s) \/ AuthGet(s) \/ LookupLen(s) \/ LookupGet(s)
  \/ ConfigTimeout(s) \/ ConfigClosed(s)
  \/ ValidateNext(s) \/ ValidateFails(s) \/ Connected(s) \/ Disconnected(s)

BindStep(s) ==
  \/ NewProxy(s) \/ Listen(s) \/ ListenFails(s) \/ RunAll(s)
  \/ BindRemotesReturns(s) \/ SSHClosed(s) \/ BindSSHReturns(s)
  \/ \E r \in Remotes : CloseListener(s, r) \/ RunReturns(s, r)

EnvStep(s) ==
  \/ Accept(s) \/ HandshakeFails(s) \/ HandshakeDone(s)
  \/ ConfigArrives(s) \/ ConfigInvalid(s) \/ SSHDrops(s)
  \/ \E r \in Remotes : AcceptFails(s, r)
  \/ \E a \in Addrs : Collect(s, a)

Next == ChangeUsers \/ \E s \in Sessions : HandlerStep(s) \/ BindStep(s) \/ EnvStep(s)

\* The goroutines run and the configuration timer fires; nothing is assumed of
\* clients, of the operator, of Accept or of the garbage collector.
Fairness == \A s \in Sessions : WF_vars(HandlerStep(s)) /\ WF_vars(BindStep(s))

Spec == Init /\ [][Next]_vars
FairSpec == Spec /\ Fairness

-----------------------------------------------------------------------------
(* Properties.                                                             *)

Panicked == {"authPanic", "nilPanic"}
Finished == {"failed", "disconnected"}

\* The type invariant; the table of users is a map by name.
TypeOK ==
  /\ users \subseteq Users /\ \A u, v \in users : u.name = v.name => u = v
  /\ smap \in [Sessions -> Users \cup {NoUser}] /\ user \in [Sessions -> Users \cup {NoUser}]
  /\ pc \in [Sessions -> {"new", "config", "validate", "bound", "ended"} \cup Ongoing \cup Panicked]
  /\ idx \in [Sessions -> Nat \ {0}]
  /\ bpc \in [Sessions -> {"none", "create", "listen", "run", "done", "failed"}]
  /\ running \in [Sessions -> SUBSET Remotes]
  /\ runErr \in [Sessions -> {"none", "returned", "swallowed"}]
  /\ up \subseteq Sessions /\ ctxDone \subseteq Sessions /\ sshBound \subseteq Sessions
  /\ holder \in [Addrs -> Sessions \cup {Nobody}]
  /\ mon \in [Sessions -> {"none", "pending", "connected"} \cup Finished]
  /\ ep \in [Sessions -> [Remotes -> {"none", "pending", "active", "failed", "closed"}]]
  /\ seen \in [Sessions -> SUBSET (Users \cup {NoUser})]

\* A session is served only if some table in force during its handshake admits
\* it: an empty one, or one with a record that matches the login and grants
\* every remote served - however the table changed between the reads that
\* authUser and the handler make of it (server.go:231-247,
\* server_handler.go:96-106, 146-155).
AdmittedByTable ==
  \A s \in Sessions : pc[s] = "bound" =>
    \/ NoUser \in seen[s]
    \/ \E u \in seen[s] \ {NoUser} :
         /\ u.name = Login[s].name /\ u.pass = Login[s].pass
         /\ RangeOf(Wanted[s]) \subseteq u.addrs

\* The map of authenticated SSH sessions does not grow with the sessions
\* served: the entry of one that is past the lookup is gone, unless the table
\* was emptied during its handshake and the lookup skipped
\* (server.go:245, server_handler.go:96-106).
EntryLeftHasCause ==
  \A s \in Sessions :
    pc[s] \in {"config", "validate", "bound"} /\ smap[s] # NoUser => NoUser \in seen[s]

\* What the monitor reports once a session is over: its final status unless
\* the handler panicked, and no endpoint of it pending or active, although a
\* failed bind leaves proxies behind that were never run
\* (server_handler.go:206-212, monitor_state.go:183-204, tunnel.go:191-201).
OverIsReported ==
  \A s \in Sessions :
    /\ pc[s] = "ended" => mon[s] \in Finished
    /\ mon[s] \in Finished =>
         running[s] = {} /\ \A r \in Remotes : ep[s][r] \notin {"pending", "active"}

\* While a session's context lives, every endpoint that runs without an error
\* is reported active and has its address, although the address was free only
\* when CanListen tried it and another session may have taken it before
\* NewProxy listens (server_handler.go:163, tunnel.go:191-213,
\* tunnel_in_proxy.go:60-66, 154-180).
ActiveListens ==
  \A s \in Sessions : \A r \in running[s] :
    ~BindCtxDone(s) => ep[s][r] = "active" /\ holder[LocalOf[r]] = s

\* A session whose BindRemotes returned nil has given its addresses back,
\* unless Accept failed (tunnel.go:203-213, tunnel_in_proxy.go:154-180).
CleanUnbind ==
  \A s \in Sessions : \A a \in Addrs :
    holder[a] = s /\ bpc[s] = "done" => runErr[s] = "swallowed"

\* A session's status only moves forward and a final one never changes; an
\* endpoint that was closed or failed is never active again
\* (monitor_state.go:126-222).
Rank(status) ==
  CASE status = "none" -> 0 [] status = "pending" -> 1 [] status = "connected" -> 2
    [] OTHER -> 3

StatusForward ==
  [][\A s \in Sessions :
       /\ Rank(mon'[s]) >= Rank(mon[s])
       /\ mon[s] \in Finished => mon'[s] = mon[s] /\ ep'[s] = ep[s]
       /\ \A r \in Remotes : ep[s][r] \in {"failed", "closed"} => ep'[s][r] # "active"]_vars

\* The wait for the configuration is bounded: the handler serves the session,
\* gives up or panics (server_handler.go:110-132).
ConfigBounded ==
  \A s \in Sessions : (pc[s] = "config") ~> (pc[s] \in {"bound", "ended"} \cup Panicked)

\* A served session whose connection is lost is reported disconnected, its
\* proxies stopped (server_handler.go:191-211).
DropDisconnects ==
  \A s \in Sessions : (pc[s] = "bound" /\ s \notin up) ~> (mon[s] = "disconnected")

\* A failed bind ends the session too: its connection is closed and the client
\* will reconnect (server_handler.go:191-211, tunnel.go:112-118).
BindFailureDisconnects ==
  \A s \in Sessions : (bpc[s] = "failed") ~> (pc[s] = "ended" /\ s \notin up)

=============================================================================
