---------------------------- MODULE SessionProofs ----------------------------
(***************************************************************************)
(* What the handler, the user table, the listening addresses and the       *)
(* monitor keep, for any sessions, remotes, users and changes of the table.*)
(***************************************************************************)
EXTENDS Session, TLAPS

USE DEF handlerVars, authVars, bindVars, monVars

-----------------------------------------------------------------------------
(* The inductive invariant.                                                *)

\* The monitor follows the handler, and nothing of a session is bound before
\* it is connected or runs after it is disconnected.
Phase(s) ==
  /\ pc[s] = "new" => mon[s] = "none"
  /\ pc[s] \in Ongoing \cup {"config", "validate"} \cup Panicked => mon[s] = "pending"
  /\ pc[s] = "bound" => mon[s] = "connected"
  /\ pc[s] = "ended" => mon[s] \in Finished
  /\ bpc[s] = "none" <=> (pc[s] # "bound" /\ mon[s] # "disconnected")
  /\ bpc[s] = "none" => \A r \in Remotes : ep[s][r] = "none"
  /\ s \in sshBound => pc[s] = "bound"
  /\ mon[s] = "disconnected" => bpc[s] \in {"done", "failed"}
  /\ mon[s] = "disconnected" => \A r \in Remotes : ep[s][r] \notin {"pending", "active"}
  /\ running[s] # {} => bpc[s] = "run"

\* While BindRemotes creates proxies it has the addresses of those before the
\* current one; they are active unless the current one is a repetition.
Creating(s) ==
  /\ bpc[s] = "listen" => idx[s] <= Len(Inbound(s)) /\ ep[s][Current(s)] = "pending"
  /\ bpc[s] \in {"create", "listen"} =>
       /\ idx[s] <= Len(Inbound(s)) + 1
       /\ \A i \in 1 .. Len(Inbound(s)) : i < idx[s] =>
            /\ holder[LocalOf[Inbound(s)[i]]] = s
            /\ bpc[s] = "create" \/ Inbound(s)[i] # Current(s) => ep[s][Inbound(s)[i]] = "active"

\* Every address a session has is accounted for.
Holds(s, a) ==
  holder[a] = s =>
    /\ bpc[s] # "none"
    /\ bpc[s] \in {"create", "listen"} =>
         \E i \in 1 .. Len(Inbound(s)) : i < idx[s] /\ LocalOf[Inbound(s)[i]] = a
    /\ bpc[s] = "run" => (\E r \in running[s] : LocalOf[r] = a) \/ runErr[s] # "none"
    /\ bpc[s] = "done" => runErr[s] = "swallowed"

\* An endpoint that runs with its context alive is active and has its address.
Serves(s) ==
  \A r \in running[s] : ~BindCtxDone(s) => ep[s][r] = "active" /\ holder[LocalOf[r]] = s

Matches(u, s) == u.name = Login[s].name /\ u.pass = Login[s].pass
Vouched(s) == user[s] \in seen[s] /\ user[s] # NoUser /\ Matches(user[s], s)

\* What is known of the user at each stage of the handshake.
Access(s) ==
  /\ pc[s] \in Ongoing => Sees(users) \subseteq seen[s]
  /\ pc[s] = "new" => smap[s] = NoUser
  /\ smap[s] # NoUser => smap[s] \in seen[s] /\ Matches(smap[s], s)
  /\ pc[s] \in {"authed", "lookup", "lookupGet"} => smap[s] # NoUser \/ NoUser \in seen[s]
  /\ pc[s] \in {"new", "config"} \cup Ongoing => idx[s] = 1
  /\ pc[s] \in {"config", "validate", "bound"} => NoUser \in seen[s] \/ Vouched(s)
  /\ pc[s] \in {"config", "validate", "bound"} => NoUser \in seen[s] \/ smap[s] = NoUser
  /\ pc[s] = "validate" =>
       \/ NoUser \in seen[s]
       \/ \A i \in 1 .. Len(Wanted[s]) : i < idx[s] => Wanted[s][i] \in user[s].addrs
  /\ pc[s] = "bound" =>
       \/ NoUser \in seen[s]
       \/ \A i \in 1 .. Len(Wanted[s]) : Wanted[s][i] \in user[s].addrs

IInv ==
  /\ TypeOK
  /\ \A s \in Sessions : Phase(s) /\ Creating(s) /\ Serves(s) /\ Access(s)
  /\ \A s \in Sessions, a \in Addrs : Holds(s, a)

-----------------------------------------------------------------------------
USE SessionAssumption, InboundAssumption

LEMMA InitIInv == Init => IInv
<1> SUFFICES ASSUME Init PROVE IInv
  OBVIOUS
<1>1. TypeOK
  BY DEF Init, TypeOK, Ongoing, Panicked, Finished
<1>2. ASSUME NEW s \in Sessions PROVE Phase(s) /\ Creating(s) /\ Serves(s) /\ Access(s)
  BY DEF Init, Phase, Creating, Serves, Access, Ongoing, Panicked, Finished
<1>3. ASSUME NEW s \in Sessions, NEW a \in Addrs PROVE Holds(s, a)
  BY DEF Init, Holds
<1> QED BY <1>1, <1>2, <1>3 DEF IInv

-----------------------------------------------------------------------------
(* The steps, by what they leave alone.                                    *)

\* A step of the handler of s before its session is connected.
EarlyStep(s) ==
  \/ Accept(s) \/ Upgrade(s) \/ HandshakeFails(s) \/ AuthLen(s) \/ AuthGet(s)
  \/ HandshakeDone(s) \/ LookupLen(s) \/ LookupGet(s) \/ ConfigArrives(s)
  \/ ConfigInvalid(s) \/ ConfigTimeout(s) \/ ConfigClosed(s)
  \/ ValidateNext(s) \/ ValidateFails(s)

\* A step of the goroutines of the bound session s.
BoundStep(s) ==
  \/ NewProxy(s) \/ Listen(s) \/ ListenFails(s) \/ RunAll(s)
  \/ BindRemotesReturns(s) \/ BindSSHReturns(s) \/ SSHDrops(s)
  \/ \E r \in Remotes : CloseListener(s, r) \/ RunReturns(s, r) \/ AcceptFails(s, r)
  \/ \E a \in Addrs : Collect(s, a)

LEMMA Steps ==
  ASSUME TypeOK, Next
  PROVE  \/ \E t \in SUBSET Users : SetUsers(t) /\ \A u, v \in t : u.name = v.name => u = v
         \/ \E s \in Sessions : EarlyStep(s) \/ Connected(s) \/ BoundStep(s) \/ Disconnected(s)
<1>1. ASSUME NEW u \in Users, AddUser(u) \/ DeleteUser(u)
      PROVE  \E t \in SUBSET Users : SetUsers(t) /\ \A v, w \in t : v.name = w.name => v = w
  <2>1. CASE AddUser(u)
    <3> DEFINE t == (users \ Named(u.name)) \cup {u}
    <3>1. t \in SUBSET Users /\ \A v, w \in t : v.name = w.name => v = w
      BY DEF TypeOK, Named
    <3> QED BY <2>1, <3>1 DEF AddUser
  <2>2. CASE DeleteUser(u)
    <3> DEFINE t == users \ Named(u.name)
    <3>1. t \in SUBSET Users /\ \A v, w \in t : v.name = w.name => v = w
      BY DEF TypeOK, Named
    <3> QED BY <2>2, <3>1 DEF DeleteUser
  <2> QED BY <1>1, <2>1, <2>2
<1>2. ASSUME NEW t \in SUBSET Users, ResetUsers(t)
      PROVE  SetUsers(t) /\ \A u, v \in t : u.name = v.name => u = v
  BY <1>2 DEF ResetUsers
<1>3. ASSUME NEW s \in Sessions, HandlerStep(s) \/ BindStep(s) \/ EnvStep(s)
      PROVE  EarlyStep(s) \/ Connected(s) \/ BoundStep(s) \/ Disconnected(s)
  BY <1>3 DEF HandlerStep, BindStep, EnvStep, EarlyStep, BoundStep, SSHClosed
<1> QED BY <1>1, <1>2, <1>3 DEF Next, ChangeUsers

-----------------------------------------------------------------------------
(* Types.                                                                  *)

LEMMA TypeEarly ==
  ASSUME TypeOK, NEW s \in Sessions, EarlyStep(s)
  PROVE  TypeOK'
<1> USE DEF TypeOK, Goto, Mark, Ends, Ongoing, Panicked, Finished
<1>1. CASE Accept(s)
  BY <1>1 DEF Accept, Sees
<1>2. CASE Upgrade(s)
  BY <1>2 DEF Upgrade
<1>3. CASE HandshakeFails(s)
  BY <1>3 DEF HandshakeFails
<1>4. CASE AuthLen(s)
  BY <1>4 DEF AuthLen
<1>5. CASE AuthGet(s)
  <2>1. smap' \in [Sessions -> Users \cup {NoUser}]
    <3>1. ASSUME NEW u \in users, smap' = [smap EXCEPT ![s] = u]
          PROVE  smap' \in [Sessions -> Users \cup {NoUser}]
      BY <3>1
    <3> QED BY <1>5, <3>1 DEF AuthGet
  <2>2. \E l \in {"authed", "handshake"} : pc' = [pc EXCEPT ![s] = l]
    BY <1>5 DEF AuthGet
  <2> QED BY <1>5, <2>1, <2>2 DEF AuthGet
<1>6. CASE HandshakeDone(s)
  BY <1>6 DEF HandshakeDone
<1>7. CASE LookupLen(s)
  BY <1>7 DEF LookupLen
<1>8. CASE LookupGet(s)
  BY <1>8 DEF LookupGet
<1>9. CASE ConfigArrives(s)
  BY <1>9 DEF ConfigArrives
<1>10. CASE ConfigInvalid(s)
  BY <1>10 DEF ConfigInvalid
<1>11. CASE ConfigTimeout(s)
  BY <1>11 DEF ConfigTimeout
<1>12. CASE ConfigClosed(s)
  BY <1>12 DEF ConfigClosed
<1>13. CASE ValidateNext(s)
  BY <1>13 DEF ValidateNext
<1>14. CASE ValidateFails(s)
  BY <1>14 DEF ValidateFails
<1> QED BY <1>1, <1>2, <1>3, <1>4, <1>5, <1>6, <1>7, <1>8, <1>9, <1>10, <1>11, <1>12, <1>13, <1>14 DEF EarlyStep

LEMMA CurrentRemote ==
  ASSUME TypeOK, NEW s \in Sessions, idx[s] <= Len(Inbound(s))
  PROVE  /\ Current(s) \in Remotes /\ Current(s) = Inbound(s)[idx[s]]
         /\ idx[s] \in 1 .. Len(Inbound(s)) /\ LocalOf[Current(s)] \in Addrs
BY DEF TypeOK, Current

LEMMA TypeBound ==
  ASSUME TypeOK, NEW s \in Sessions, Creating(s), BoundStep(s)
  PROVE  TypeOK'
<1>1. CASE NewProxy(s)
  BY <1>1, CurrentRemote DEF TypeOK, NewProxy, Endpoint, Finished
<1>2. CASE Listen(s)
  <2>1. idx[s] <= Len(Inbound(s))
    BY <1>2 DEF Creating, Listen
  <2> QED BY <1>2, <2>1, CurrentRemote DEF TypeOK, Listen, Endpoint, Finished
<1>3. CASE ListenFails(s)
  <2>1. idx[s] <= Len(Inbound(s))
    BY <1>3 DEF Creating, ListenFails
  <2> QED BY <1>3, <2>1, CurrentRemote DEF TypeOK, ListenFails, Endpoint, Finished
<1>4. CASE RunAll(s)
  BY <1>4 DEF TypeOK, RunAll, RangeOf
<1>5. CASE BindRemotesReturns(s) \/ BindSSHReturns(s) \/ SSHDrops(s)
  BY <1>5 DEF TypeOK, BindRemotesReturns, BindSSHReturns, SSHDrops
<1>6. ASSUME NEW r \in Remotes, CloseListener(s, r) \/ RunReturns(s, r) \/ AcceptFails(s, r)
      PROVE  TypeOK'
  <2>1. CASE CloseListener(s, r)
    BY <2>1 DEF TypeOK, CloseListener
  <2>2. CASE RunReturns(s, r)
    BY <2>2 DEF TypeOK, RunReturns, Endpoint
  <2>3. CASE AcceptFails(s, r)
    BY <2>3 DEF TypeOK, AcceptFails, Endpoint
  <2> QED BY <1>6, <2>1, <2>2, <2>3
<1>7. ASSUME NEW a \in Addrs, Collect(s, a) PROVE TypeOK'
  BY <1>7 DEF TypeOK, Collect
<1> QED BY <1>1, <1>2, <1>3, <1>4, <1>5, <1>6, <1>7 DEF BoundStep

LEMMA TypeTurn ==
  ASSUME TypeOK, NEW s \in Sessions, Connected(s) \/ Disconnected(s)
  PROVE  TypeOK'
<1>1. CASE Connected(s)
  BY <1>1 DEF TypeOK, Connected, Goto, Mark, Ongoing, Panicked, Finished
<1>2. CASE Disconnected(s)
  <2>1. CloseEndpoints(s) \in [Remotes -> {"none", "pending", "active", "failed", "closed"}]
    BY DEF TypeOK, CloseEndpoints
  <2>2. ep' \in [Sessions -> [Remotes -> {"none", "pending", "active", "failed", "closed"}]]
    BY <1>2, <2>1 DEF TypeOK, Disconnected
  <2> QED BY <1>2, <2>2 DEF TypeOK, Disconnected, Goto, Ends, Ongoing, Panicked, Finished
<1> QED BY <1>1, <1>2

LEMMA TypeUsers ==
  ASSUME TypeOK, NEW t \in SUBSET Users, SetUsers(t), \A u, v \in t : u.name = v.name => u = v
  PROVE  TypeOK'
BY DEF TypeOK, SetUsers, Sees

-----------------------------------------------------------------------------
(* A step of session s leaves every other session alone.                   *)

Untouched(t) ==
  /\ users' = users /\ smap'[t] = smap[t] /\ seen'[t] = seen[t]
  /\ pc'[t] = pc[t] /\ idx'[t] = idx[t] /\ user'[t] = user[t]
  /\ bpc'[t] = bpc[t] /\ running'[t] = running[t] /\ runErr'[t] = runErr[t]
  /\ t \in ctxDone' <=> t \in ctxDone
  /\ t \in sshBound' <=> t \in sshBound
  /\ \A a \in Addrs : holder'[a] = t <=> holder[a] = t
  /\ mon'[t] = mon[t] /\ ep'[t] = ep[t]

Local(s) == Phase(s) /\ Creating(s) /\ Serves(s) /\ Access(s) /\ \A a \in Addrs : Holds(s, a)

LEMMA OthersUntouched ==
  ASSUME TypeOK, NEW s \in Sessions, NEW t \in Sessions, t # s,
         EarlyStep(s) \/ Connected(s) \/ BoundStep(s) \/ Disconnected(s)
  PROVE  Untouched(t)
<1>1. CASE EarlyStep(s)
  BY <1>1 DEF TypeOK, Untouched, EarlyStep, Goto, Mark, Ends, Accept, Upgrade, HandshakeFails,
     AuthLen, AuthGet, HandshakeDone, LookupLen, LookupGet, ConfigArrives, ConfigInvalid,
     ConfigTimeout, ConfigClosed, ValidateNext, ValidateFails
<1>2. CASE Connected(s) \/ Disconnected(s)
  BY <1>2 DEF TypeOK, Untouched, Connected, Disconnected, Goto, Mark, Ends
<1>3. CASE BoundStep(s)
  <2>1. CASE NewProxy(s) \/ ListenFails(s) \/ RunAll(s)
    BY <2>1 DEF TypeOK, Untouched, NewProxy, ListenFails, RunAll, Endpoint
  <2>2. CASE Listen(s)
    BY <2>2 DEF TypeOK, Untouched, Listen, Endpoint
  <2>3. CASE BindRemotesReturns(s) \/ BindSSHReturns(s) \/ SSHDrops(s)
    BY <2>3 DEF TypeOK, Untouched, BindRemotesReturns, BindSSHReturns, SSHDrops
  <2>4. ASSUME NEW r \in Remotes, CloseListener(s, r) \/ RunReturns(s, r) \/ AcceptFails(s, r)
        PROVE  Untouched(t)
    BY <2>4 DEF TypeOK, Untouched, CloseListener, RunReturns, AcceptFails, Endpoint
  <2>5. ASSUME NEW a \in Addrs, Collect(s, a) PROVE Untouched(t)
    BY <2>5 DEF TypeOK, Untouched, Collect
  <2> QED BY <1>3, <2>1, <2>2, <2>3, <2>4, <2>5 DEF BoundStep
<1> QED BY <1>1, <1>2, <1>3

LEMMA UntouchedKeeps ==
  ASSUME TypeOK, NEW t \in Sessions, Local(t), Untouched(t)
  PROVE  Local(t)'
<1> USE DEF Untouched, Local
<1>1. Phase(t)'
  BY DEF Phase
<1>2. Creating(t)'
  BY DEF Creating, Current
<1>3. Serves(t)'
  BY DEF Serves, BindCtxDone, TypeOK
<1>4. Access(t)'
  BY DEF Access, Vouched, Sees
<1>5. ASSUME NEW a \in Addrs PROVE Holds(t, a)'
  BY DEF Holds
<1> QED BY <1>1, <1>2, <1>3, <1>4, <1>5
-----------------------------------------------------------------------------
(* What a step does to its own session.                                    *)

LEMMA UsersKeep ==
  ASSUME TypeOK, NEW s \in Sessions, Local(s), NEW t \in SUBSET Users, SetUsers(t)
  PROVE  Local(s)'
<1> USE DEF SetUsers, Local
<1>1. Phase(s)'
  BY DEF Phase
<1>2. Creating(s)'
  BY DEF Creating, Current
<1>3. Serves(s)'
  BY DEF Serves, BindCtxDone
<1>4. Access(s)'
  <2>1. seen[s] \subseteq seen'[s] /\ (pc[s] \in Ongoing => Sees(t) \subseteq seen'[s])
    BY DEF TypeOK
  <2>2. Vouched(s) => Vouched(s)'
    BY <2>1 DEF Vouched
  <2> QED BY <2>1, <2>2 DEF Access
<1>5. ASSUME NEW a \in Addrs PROVE Holds(s, a)'
  BY DEF Holds
<1> QED BY <1>1, <1>2, <1>3, <1>4, <1>5

LEMMA EarlyPhase ==
  ASSUME TypeOK, NEW s \in Sessions, Phase(s), EarlyStep(s)
  PROVE  Phase(s)' /\ bpc[s] = "none" /\ UNCHANGED <<bindVars, ep>>
<1> USE DEF TypeOK, Phase, Goto, Mark, Ends, Ongoing, Panicked, Finished
<1>1. CASE Accept(s) \/ Upgrade(s) \/ HandshakeFails(s) \/ AuthLen(s)
  BY <1>1 DEF Accept, Upgrade, HandshakeFails, AuthLen
<1>2. CASE AuthGet(s) \/ HandshakeDone(s) \/ LookupLen(s) \/ LookupGet(s)
  BY <1>2 DEF AuthGet, HandshakeDone, LookupLen, LookupGet
<1>3. CASE ConfigArrives(s) \/ ConfigInvalid(s) \/ ConfigTimeout(s) \/ ConfigClosed(s)
  BY <1>3 DEF ConfigArrives, ConfigInvalid, ConfigTimeout, ConfigClosed
<1>4. CASE ValidateNext(s) \/ ValidateFails(s)
  BY <1>4 DEF ValidateNext, ValidateFails
<1> QED BY <1>1, <1>2, <1>3, <1>4 DEF EarlyStep

LEMMA EarlyAccess ==
  ASSUME TypeOK, NEW s \in Sessions, Access(s), EarlyStep(s)
  PROVE  Access(s)'
<1> USE DEF Access, Goto, Ends, Ongoing
<1>1. CASE Accept(s)
  BY <1>1 DEF Accept, TypeOK
<1>2. CASE Upgrade(s) \/ HandshakeFails(s)
  BY <1>2 DEF Upgrade, HandshakeFails, TypeOK
<1>3. CASE AuthLen(s)
  BY <1>3 DEF AuthLen, Sees, TypeOK
<1>4. CASE AuthGet(s)
  BY <1>4 DEF AuthGet, Authenticates, Matches, Sees, TypeOK
<1>5. CASE HandshakeDone(s)
  BY <1>5 DEF HandshakeDone, TypeOK
<1>6. CASE LookupLen(s)
  BY <1>6 DEF LookupLen, Sees, TypeOK
<1>7. CASE LookupGet(s)
  BY <1>7 DEF LookupGet, Vouched, TypeOK
<1>8. CASE ConfigArrives(s)
  BY <1>8 DEF ConfigArrives, Vouched, TypeOK
<1>9. CASE ConfigInvalid(s) \/ ConfigTimeout(s) \/ ConfigClosed(s) \/ ValidateFails(s)
  BY <1>9 DEF ConfigInvalid, ConfigTimeout, ConfigClosed, ValidateFails, TypeOK
<1>10. CASE ValidateNext(s)
  BY <1>10 DEF ValidateNext, Allowed, HasAccess, Vouched, TypeOK
<1> QED BY <1>1, <1>2, <1>3, <1>4, <1>5, <1>6, <1>7, <1>8, <1>9, <1>10 DEF EarlyStep

LEMMA EarlyKeeps ==
  ASSUME TypeOK, NEW s \in Sessions, Local(s), EarlyStep(s)
  PROVE  Local(s)'
<1>1. Phase(s)' /\ bpc[s] = "none" /\ UNCHANGED <<bindVars, ep>>
  BY EarlyPhase DEF Local
<1>2. Access(s)'
  BY EarlyAccess DEF Local
<1>3. Creating(s)' /\ Serves(s)' /\ \A a \in Addrs : Holds(s, a)'
  BY <1>1 DEF Local, Phase, Creating, Serves, Holds
<1> QED BY <1>1, <1>2, <1>3 DEF Local

LEMMA ConnectedKeeps ==
  ASSUME TypeOK, NEW s \in Sessions, Local(s), Connected(s)
  PROVE  Local(s)'
<1> USE DEF Local, Connected, Goto, Mark, TypeOK
<1>1. Phase(s)'
  BY DEF Phase, Ongoing, Panicked, Finished
<1>2. bpc[s] = "none" /\ running[s] = {} /\ \A a \in Addrs : holder[a] # s
  BY DEF Phase, Holds
<1>3. Creating(s)'
  <2>1. idx'[s] = 1 /\ Len(Inbound(s)) \in Nat /\ bpc'[s] \in {"done", "create"}
    OBVIOUS
  <2> QED BY <2>1 DEF Creating
<1>4. Serves(s)' /\ \A a \in Addrs : Holds(s, a)'
  BY <1>2 DEF Serves, Holds
<1>5. Access(s)'
  <2>1. Len(Wanted[s]) \in Nat
    OBVIOUS
  <2>2. Vouched(s) => Vouched(s)'
    BY DEF Vouched
  <2> QED BY <2>1, <2>2 DEF Access, Ongoing
<1> QED BY <1>1, <1>3, <1>4, <1>5

LEMMA DisconnectedKeeps ==
  ASSUME TypeOK, NEW s \in Sessions, Local(s), Disconnected(s)
  PROVE  Local(s)'
<1> USE DEF Local, Disconnected, Goto, Ends, TypeOK
<1>1. \A r \in Remotes : ep'[s][r] \notin {"pending", "active"}
  BY DEF CloseEndpoints
<1>2. Phase(s)'
  BY <1>1 DEF Phase, Ongoing, Panicked, Finished
<1>3. Creating(s)' /\ Serves(s)' /\ \A a \in Addrs : Holds(s, a)'
  BY DEF Phase, Creating, Serves, Holds
<1>4. Access(s)'
  BY DEF Access, Ongoing
<1> QED BY <1>2, <1>3, <1>4
\* A step of the bound session's goroutines keeps what is known of its user.
LEMMA BoundAccess ==
  ASSUME TypeOK, NEW s \in Sessions, Local(s), BoundStep(s)
  PROVE  Access(s)' /\ UNCHANGED <<pc, user, authVars, mon>>
<1>1. UNCHANGED <<pc, user, authVars, mon>> /\ (UNCHANGED idx \/ bpc[s] = "listen")
  BY DEF BoundStep, NewProxy, Listen, ListenFails, RunAll, BindRemotesReturns, BindSSHReturns,
     SSHDrops, CloseListener, RunReturns, AcceptFails, Collect, Endpoint
<1>2. bpc[s] = "listen" => pc[s] \in {"bound", "ended"}
  BY DEF Local, Phase, Ongoing, Panicked, Finished, TypeOK
<1>3. Access(s)'
  BY <1>1, <1>2 DEF Local, Access, Vouched, Sees, Ongoing
<1> QED BY <1>1, <1>3

LEMMA NewProxyKeeps ==
  ASSUME TypeOK, NEW s \in Sessions, Local(s), NewProxy(s)
  PROVE  Phase(s)' /\ Creating(s)' /\ Serves(s)' /\ \A a \in Addrs : Holds(s, a)'
<1> USE DEF Local, NewProxy, Endpoint
<1>1. Current(s) \in Remotes /\ Current(s)' = Current(s)
  BY CurrentRemote DEF Current
<1>2. ep'[s][Current(s)] = "pending" /\ \A r \in Remotes : r # Current(s) => ep'[s][r] = ep[s][r]
  BY <1>1 DEF TypeOK
<1>3. Phase(s)'
  BY <1>1 DEF Phase, TypeOK, Finished
<1>4. Creating(s)'
  <2>1. \A i \in 1 .. Len(Inbound(s)) : Inbound(s)[i] \in Remotes
    OBVIOUS
  <2>2. bpc'[s] = "listen"
    BY DEF TypeOK
  <2> QED BY <1>1, <1>2, <2>1, <2>2 DEF Creating, TypeOK
<1>5. Serves(s)' /\ \A a \in Addrs : Holds(s, a)'
  BY DEF Phase, Serves, Holds, TypeOK
<1> QED BY <1>3, <1>4, <1>5

LEMMA ListenKeeps ==
  ASSUME TypeOK, NEW s \in Sessions, Local(s), Listen(s)
  PROVE  Phase(s)' /\ Creating(s)' /\ Serves(s)' /\ \A a \in Addrs : Holds(s, a)'
<1> USE DEF Local, Listen, Endpoint
<1> DEFINE k == idx[s]
<1>1. /\ k \in 1 .. Len(Inbound(s)) /\ Current(s) = Inbound(s)[k] /\ Current(s) \in Remotes
      /\ LocalOf[Current(s)] \in Addrs
  BY CurrentRemote DEF Creating
<1>2. /\ ep'[s][Current(s)] = "active" /\ \A r \in Remotes : r # Current(s) => ep'[s][r] = ep[s][r]
      /\ holder'[LocalOf[Current(s)]] = s
      /\ \A a \in Addrs : a # LocalOf[Current(s)] => holder'[a] = holder[a]
      /\ idx'[s] = k + 1 /\ bpc'[s] = "create"
  BY <1>1 DEF TypeOK
<1>3. Phase(s)'
  BY <1>1 DEF Phase, TypeOK, Finished
<1>4. ASSUME NEW i \in 1 .. Len(Inbound(s)), i < k
      PROVE  /\ Inbound(s)[i] \in Remotes /\ Inbound(s)[i] # Current(s)
             /\ LocalOf[Inbound(s)[i]] # LocalOf[Current(s)]
             /\ holder[LocalOf[Inbound(s)[i]]] = s /\ ep[s][Inbound(s)[i]] = "active"
  BY <1>1, <1>4 DEF Creating
<1>5. Creating(s)'
  <2>1. ASSUME NEW i \in 1 .. Len(Inbound(s)), i < k + 1
        PROVE  holder'[LocalOf[Inbound(s)[i]]] = s /\ ep'[s][Inbound(s)[i]] = "active"
    <3>1. CASE i = k
      BY <3>1, <1>1, <1>2
    <3>2. CASE i < k
      <4>1. LocalOf[Inbound(s)[i]] \in Addrs
        BY <1>4, <3>2
      <4> QED BY <1>2, <1>4, <3>2, <4>1
    <3> QED BY <2>1, <3>1, <3>2, <1>1
  <2>2. k + 1 <= Len(Inbound(s)) + 1
    BY <1>1
  <2> QED BY <1>2, <2>1, <2>2 DEF Creating
<1>6. Serves(s)'
  BY DEF Phase, Serves, TypeOK
<1>7. ASSUME NEW a \in Addrs PROVE Holds(s, a)'
  <2>1. CASE a = LocalOf[Current(s)]
    BY <2>1, <1>1, <1>2 DEF Holds
  <2>2. CASE a # LocalOf[Current(s)]
    <3>1. \A i \in 1 .. Len(Inbound(s)) : i < k => i < k + 1
      BY <1>1
    <3> QED BY <2>2, <3>1, <1>1, <1>2 DEF Holds
  <2> QED BY <2>1, <2>2
<1> QED BY <1>3, <1>5, <1>6, <1>7

LEMMA ListenFailsKeeps ==
  ASSUME TypeOK, NEW s \in Sessions, Local(s), ListenFails(s)
  PROVE  Phase(s)' /\ Creating(s)' /\ Serves(s)' /\ \A a \in Addrs : Holds(s, a)'
<1> USE DEF Local, ListenFails, Endpoint
<1>1. Current(s) \in Remotes
  BY CurrentRemote DEF Creating
<1>2. Phase(s)'
  BY <1>1 DEF Phase, TypeOK, Finished
<1>3. Creating(s)' /\ Serves(s)' /\ \A a \in Addrs : Holds(s, a)'
  BY DEF Phase, Creating, Serves, Holds, TypeOK
<1> QED BY <1>2, <1>3

LEMMA RunAllKeeps ==
  ASSUME TypeOK, NEW s \in Sessions, Local(s), RunAll(s)
  PROVE  Phase(s)' /\ Creating(s)' /\ Serves(s)' /\ \A a \in Addrs : Holds(s, a)'
<1> USE DEF Local, RunAll
<1>1. /\ bpc'[s] = "run" /\ running'[s] = RangeOf(Inbound(s))
      /\ Len(Inbound(s)) \in Nat /\ idx[s] \in Nat /\ idx[s] > Len(Inbound(s))
  BY DEF TypeOK
<1>2. Phase(s)' /\ Creating(s)'
  BY <1>1 DEF Phase, Creating, TypeOK
<1>3. \A i \in 1 .. Len(Inbound(s)) :
        holder[LocalOf[Inbound(s)[i]]] = s /\ ep[s][Inbound(s)[i]] = "active"
  <2>1. \A i \in 1 .. Len(Inbound(s)) : i < idx[s]
    BY <1>1
  <2>2. bpc[s] = "create" /\ Creating(s)
    OBVIOUS
  <2> QED BY <2>1, <2>2 DEF Creating
<1>4. Serves(s)'
  BY <1>1, <1>3 DEF Serves, RangeOf
<1>5. \A a \in Addrs : Holds(s, a)'
  BY <1>1 DEF Holds, RangeOf
<1> QED BY <1>2, <1>4, <1>5

LEMMA BindEndKeeps ==
  ASSUME TypeOK, NEW s \in Sessions, Local(s),
         BindRemotesReturns(s) \/ BindSSHReturns(s) \/ SSHDrops(s)
  PROVE  Phase(s)' /\ Creating(s)' /\ Serves(s)' /\ \A a \in Addrs : Holds(s, a)'
<1> USE DEF Local, TypeOK
<1>1. CASE BindRemotesReturns(s)
  BY <1>1 DEF BindRemotesReturns, Phase, Creating, Serves, Holds, Finished
<1>2. CASE BindSSHReturns(s)
  BY <1>2 DEF BindSSHReturns, Phase, Creating, Current, Serves, Holds, BindCtxDone
<1>3. CASE SSHDrops(s)
  BY <1>3 DEF SSHDrops, Phase, Creating, Current, Serves, Holds, BindCtxDone
<1> QED BY <1>1, <1>2, <1>3

LEMMA RunKeeps ==
  ASSUME TypeOK, NEW s \in Sessions, Local(s), NEW r \in Remotes,
         CloseListener(s, r) \/ RunReturns(s, r) \/ AcceptFails(s, r)
  PROVE  Phase(s)' /\ Creating(s)' /\ Serves(s)' /\ \A a \in Addrs : Holds(s, a)'
<1> USE DEF Local
<1>1. bpc[s] = "run" /\ bpc'[s] = "run"
  BY DEF CloseListener, RunReturns, AcceptFails, Phase, TypeOK
<1>2. Phase(s)'
  BY <1>1 DEF CloseListener, RunReturns, AcceptFails, Endpoint, Phase, TypeOK, Finished
<1>3. Creating(s)'
  BY <1>1 DEF Creating
<1>4. Serves(s)'
  <2>1. CASE CloseListener(s, r)
    BY <2>1 DEF CloseListener, Serves, BindCtxDone
  <2>2. CASE RunReturns(s, r)
    BY <2>2 DEF RunReturns, Serves, BindCtxDone
  <2>3. CASE AcceptFails(s, r)
    <3>1. BindCtxDone(s)'
      BY <2>3 DEF AcceptFails, BindCtxDone, TypeOK
    <3> QED BY <3>1 DEF Serves
  <2> QED BY <2>1, <2>2, <2>3
<1>5. ASSUME NEW a \in Addrs PROVE Holds(s, a)'
  <2>1. CASE CloseListener(s, r)
    BY <1>1, <2>1 DEF CloseListener, Holds, TypeOK
  <2>2. CASE RunReturns(s, r)
    BY <1>1, <2>2 DEF RunReturns, Holds, TypeOK
  <2>3. CASE AcceptFails(s, r)
    BY <1>1, <2>3 DEF AcceptFails, Holds, TypeOK
  <2> QED BY <2>1, <2>2, <2>3
<1> QED BY <1>2, <1>3, <1>4, <1>5

LEMMA CollectKeeps ==
  ASSUME TypeOK, NEW s \in Sessions, Local(s), NEW b \in Addrs, Collect(s, b)
  PROVE  Phase(s)' /\ Creating(s)' /\ Serves(s)' /\ \A a \in Addrs : Holds(s, a)'
<1> USE DEF Local, Collect
<1>1. Phase(s)' /\ Creating(s)'
  BY DEF Phase, Creating
<1>2. Serves(s)'
  BY DEF Serves, BindCtxDone, TypeOK
<1>3. \A a \in Addrs : Holds(s, a)'
  BY DEF Holds, TypeOK
<1> QED BY <1>1, <1>2, <1>3

LEMMA BoundKeeps ==
  ASSUME TypeOK, NEW s \in Sessions, Local(s), BoundStep(s)
  PROVE  Local(s)'
<1>1. Phase(s)' /\ Creating(s)' /\ Serves(s)' /\ \A a \in Addrs : Holds(s, a)'
  BY NewProxyKeeps, ListenKeeps, ListenFailsKeeps, RunAllKeeps, BindEndKeeps, RunKeeps,
     CollectKeeps DEF BoundStep
<1> QED BY <1>1, BoundAccess DEF Local

-----------------------------------------------------------------------------
LEMMA NextIInv == IInv /\ [Next]_vars => IInv'
<1> SUFFICES ASSUME IInv, [Next]_vars PROVE IInv'
  OBVIOUS
<1>1. TypeOK /\ \A s \in Sessions : Local(s)
  BY DEF IInv, Local
<1>2. SUFFICES TypeOK' /\ \A t \in Sessions : Local(t)'
  BY DEF IInv, Local
<1>3. ASSUME NEW t \in SUBSET Users, SetUsers(t), \A u, v \in t : u.name = v.name => u = v
      PROVE  TypeOK' /\ \A s \in Sessions : Local(s)'
  BY <1>1, <1>3, TypeUsers, UsersKeep
<1>4. ASSUME NEW s \in Sessions, EarlyStep(s) \/ Connected(s) \/ BoundStep(s) \/ Disconnected(s)
      PROVE  TypeOK' /\ \A t \in Sessions : Local(t)'
  <2>1. TypeOK'
    BY <1>1, <1>4, TypeEarly, TypeBound, TypeTurn DEF Local
  <2>2. Local(s)'
    BY <1>1, <1>4, EarlyKeeps, ConnectedKeeps, BoundKeeps, DisconnectedKeeps
  <2>3. ASSUME NEW t \in Sessions, t # s PROVE Local(t)'
    <3>1. Untouched(t)
      BY <1>1, <1>4, <2>3, OthersUntouched
    <3> QED BY <1>1, <3>1, UntouchedKeeps
  <2> QED BY <2>1, <2>2, <2>3
<1>5. CASE UNCHANGED vars
  <2>1. TypeOK'
    BY <1>1, <1>5 DEF TypeOK, vars
  <2>2. ASSUME NEW t \in Sessions PROVE Local(t)'
    <3>1. Untouched(t)
      BY <1>5 DEF Untouched, vars
    <3> QED BY <1>1, <3>1, UntouchedKeeps
  <2> QED BY <2>1, <2>2
<1> QED BY <1>1, <1>3, <1>4, <1>5, Steps

\* Every reachable state satisfies the inductive invariant of the handlers, the
\* user table, the listening addresses and the monitor.
THEOREM Invariance == Spec => []IInv
BY InitIInv, NextIInv, PTL DEF Spec

-----------------------------------------------------------------------------
(* The theorems.                                                           *)

\* The type invariant; the user table stays a map by name (users.go:43-69).
THEOREM TypeCorrect == Spec => []TypeOK
BY Invariance, PTL DEF IInv

\* No session is served that no table in force during its handshake admits,
\* however often the operator changes it (server.go:231-247,
\* server_handler.go:96-155).
THEOREM ServedIsAdmitted == Spec => []AdmittedByTable
<1>1. ASSUME IInv PROVE AdmittedByTable
  <2> SUFFICES ASSUME NEW s \in Sessions, pc[s] = "bound", NoUser \notin seen[s]
               PROVE  /\ user[s] \in seen[s] \ {NoUser} /\ Matches(user[s], s)
                      /\ RangeOf(Wanted[s]) \subseteq user[s].addrs
    BY DEF AdmittedByTable, Matches
  <2> QED BY <1>1 DEF IInv, Access, Vouched, RangeOf
<1> QED BY <1>1, Invariance, PTL

\* The session map keeps no entry of a session that is being served, unless
\* the user table was emptied during its handshake (server.go:245,
\* server_handler.go:96-106).
THEOREM EntriesAreTaken == Spec => []EntryLeftHasCause
<1>1. IInv => EntryLeftHasCause
  BY DEF IInv, Access, EntryLeftHasCause
<1> QED BY <1>1, Invariance, PTL

\* A session that is over is reported so, with no endpoint pending or active
\* and no proxy running (server_handler.go:206-212, monitor_state.go:183-204).
THEOREM EndIsReported == Spec => []OverIsReported
<1>1. ASSUME IInv PROVE OverIsReported
  <2> SUFFICES ASSUME NEW s \in Sessions
               PROVE  /\ pc[s] = "ended" => mon[s] \in Finished
                      /\ mon[s] \in Finished =>
                           running[s] = {} /\ \A r \in Remotes : ep[s][r] \notin {"pending", "active"}
    BY DEF OverIsReported
  <2> QED BY <1>1 DEF IInv, Phase, Finished
<1> QED BY <1>1, Invariance, PTL

\* An endpoint that runs under a live context is reported active and has its
\* address, whatever other sessions listen on (tunnel_in_proxy.go:60-66).
THEOREM ActiveEndpointsListen == Spec => []ActiveListens
<1>1. IInv => ActiveListens
  BY DEF IInv, Serves, ActiveListens
<1> QED BY <1>1, Invariance, PTL

\* BindRemotes that returns nil leaves no listener behind, unless Accept failed
\* (tunnel.go:203-213, tunnel_in_proxy.go:154-180).
THEOREM NilUnbindIsClean == Spec => []CleanUnbind
<1>1. IInv => CleanUnbind
  BY DEF IInv, Holds, CleanUnbind
<1> QED BY <1>1, Invariance, PTL

\* Statuses only move forward: no step of a session revives what the monitor
\* has closed, and a final status is final (monitor_state.go:126-222).
THEOREM StatusesMoveForward == Spec => StatusForward
<1> DEFINE Forward(s) ==
      /\ Rank(mon'[s]) >= Rank(mon[s])
      /\ mon[s] \in Finished => mon'[s] = mon[s] /\ ep'[s] = ep[s]
      /\ \A r \in Remotes : ep[s][r] \in {"failed", "closed"} => ep'[s][r] # "active"
<1>1. ASSUME IInv, NEW s \in Sessions, mon'[s] = mon[s], ep'[s] = ep[s] PROVE Forward(s)
  BY <1>1 DEF Rank
<1>2. ASSUME IInv, Next, NEW t \in Sessions PROVE Forward(t)
  <2>1. TypeOK /\ \A s \in Sessions : Local(s)
    BY <1>2 DEF IInv, Local
  <2>2. ASSUME NEW u \in SUBSET Users, SetUsers(u) PROVE Forward(t)
    BY <1>1, <1>2, <2>2 DEF SetUsers
  <2>3. ASSUME NEW s \in Sessions, s # t,
               EarlyStep(s) \/ Connected(s) \/ BoundStep(s) \/ Disconnected(s)
        PROVE  Forward(t)
    BY <1>1, <1>2, <2>1, <2>3, OthersUntouched DEF Untouched
  <2>4. CASE EarlyStep(t)
    <3>1. ep' = ep /\ mon[t] \notin Finished
      BY <2>1, <2>4, EarlyPhase DEF Local, Phase, EarlyStep, Accept, Upgrade, HandshakeFails,
         AuthLen, AuthGet, HandshakeDone, LookupLen, LookupGet, ConfigArrives, ConfigInvalid,
         ConfigTimeout, ConfigClosed, ValidateNext, ValidateFails, Ongoing, Panicked, Finished
    <3>2. mon'[t] = mon[t] \/ mon[t] = "none" \/ mon'[t] = "failed"
      BY <2>1, <2>4 DEF Local, Phase, EarlyStep, Accept, Upgrade, HandshakeFails, Mark,
         AuthLen, AuthGet, HandshakeDone, LookupLen, LookupGet, ConfigArrives, ConfigInvalid,
         ConfigTimeout, ConfigClosed, ValidateNext, ValidateFails, TypeOK
    <3>3. mon'[t] \in {"none", "pending", "connected"} \cup Finished
      BY <2>1, <2>4, TypeEarly DEF TypeOK
    <3> QED BY <2>1, <3>1, <3>2, <3>3 DEF Rank, Finished, TypeOK
  <2>5. CASE Connected(t)
    BY <2>1, <2>5 DEF Local, Phase, Connected, Mark, Rank, Finished, TypeOK
  <2>6. CASE Disconnected(t)
    BY <2>1, <2>6 DEF Local, Phase, Disconnected, CloseEndpoints, Rank, Finished, TypeOK
  <2>7. CASE BoundStep(t)
    <3>1. mon' = mon
      BY <2>1, <2>7, BoundAccess
    <3>2. mon[t] \in Finished => ep'[t] = ep[t]
      <4>1. mon[t] \in Finished => bpc[t] \in {"none", "done", "failed"} /\ running[t] = {}
        BY <2>1 DEF Local, Phase, Finished
      <4> QED BY <2>7, <4>1 DEF BoundStep, NewProxy, Listen, ListenFails, RunAll,
               BindRemotesReturns, BindSSHReturns, SSHDrops, CloseListener, RunReturns,
               AcceptFails, Collect
    <3>3. \A r \in Remotes : ep[t][r] \in {"failed", "closed"} => ep'[t][r] # "active"
      <4>1. bpc[t] = "listen" => Current(t) \in Remotes /\ ep[t][Current(t)] = "pending"
        BY <2>1, CurrentRemote DEF Local, Creating
      <4>2. CASE Listen(t)
        BY <2>1, <4>1, <4>2 DEF Listen, Endpoint, TypeOK
      <4>3. CASE ~Listen(t)
        <5>1. \/ ep' = ep
              \/ \E r \in Remotes, l \in {"pending", "failed", "closed"} :
                   ep' = [ep EXCEPT ![t][r] = l]
          BY <2>1, <2>7, <4>1, <4>3, CurrentRemote DEF BoundStep, NewProxy, ListenFails, RunAll,
             BindRemotesReturns, BindSSHReturns, SSHDrops, CloseListener, RunReturns,
             AcceptFails, Collect, Endpoint
        <5>2. ASSUME NEW q \in Remotes, NEW l \in {"pending", "failed", "closed"},
                     ep' = [ep EXCEPT ![t][q] = l], NEW r \in Remotes
              PROVE  ep'[t][r] \in {l, ep[t][r]}
          BY <2>1, <5>2 DEF TypeOK
        <5> QED BY <5>1, <5>2
      <4> QED BY <4>2, <4>3
    <3> QED BY <2>1, <3>1, <3>2, <3>3 DEF Rank
  <2> QED BY <1>2, <2>1, <2>2, <2>3, <2>4, <2>5, <2>6, <2>7, Steps
<1>3. IInv /\ [Next]_vars => [\A s \in Sessions : Forward(s)]_vars
  BY <1>2
<1> QED BY <1>3, Invariance, PTL DEF Spec, StatusForward
=============================================================================
