------------------------------- MODULE Tunnel -------------------------------
(***************************************************************************)
(* The connection half of a chisel Tunnel (share/tunnel/tunnel.go) and the *)
(* counting barrier it waits on (share/tunnel/wg.go).                      *)
(*                                                                         *)
(* One goroutine, the binder, runs BindSSH once per SSH connection.  Every *)
(* call of BindSSH leaves behind a closer goroutine, which waits for the   *)
(* call's context, closes the connection and then drains the barrier, and  *)
(* optionally a keep-alive goroutine.  Any number of goroutines call       *)
(* getSSH; a call that finds no connection starts a waiter goroutine that  *)
(* blocks in the barrier's inner sync.WaitGroup.                           *)
(*                                                                         *)
(* Atomicity: every lock-protected section, every atomic operation on the  *)
(* barrier's counter n and every call of the inner WaitGroup is one step.  *)
(* The client calls BindSSH again for each connection, with a context that *)
(* its caller cancels when BindSSH has returned (client_connect.go); the   *)
(* server calls it once and its error group cancels the shared context     *)
(* (server_handler.go).  reconnects, fixed at the start, tells them apart.  *)
(***************************************************************************)
EXTENDS Integers, FiniteSets

CONSTANTS
  MaxConns,    \* bound: SSH connections established in one behaviour
  Getters,     \* calls of getSSH
  KeepAlive    \* TRUE iff Config.KeepAlive > 0

ASSUME MaxConnsAssumption == MaxConns \in Nat \ {0}
ASSUME KeepAliveAssumption == KeepAlive \in BOOLEAN

Conns == 1 .. MaxConns
Nil == 0    \* the nil ssh.Conn
Root == 0   \* the proxies' context, parent of the one each BindSSH is given

VARIABLES
  reconnects, \* TRUE: the client's tunnel; FALSE: a server session's tunnel
  ctxDone,   \* contexts that were cancelled: Root, and one per BindSSH call
  live,      \* SSH connections that are open
  cur,       \* the connection the binder works on, 0 before the first
  bpc,       \* control state of the binder
  bld,       \* the binder's local copy of n in Done
  cpc,       \* control state of each closer goroutine
  cld,       \* each closer's local copy of n in DoneAll
  kpc,       \* control state of each keep-alive goroutine
  active,    \* Tunnel.activeConn
  n,         \* waitGroup.n
  inner,     \* the counter of waitGroup.inner
  gpc,       \* control state of each getSSH call
  res,       \* what it returned
  wt,        \* the waiter goroutine it started
  cleared,   \* history: the last connection activeConn was cleared of
  floor,     \* history: the value of cleared when the call began
  panic      \* the panic that ended the process, or "none"

connVars == <<reconnects, ctxDone, live, kpc>>
binderVars == <<cur, bpc, bld, active, cleared>>
closerVars == <<cpc, cld>>
barrierVars == <<n, inner>>
getVars == <<gpc, res, floor>>
vars == <<connVars, binderVars, closerVars, barrierVars, getVars, wt, panic>>

Running == panic = "none"
rootDone == Root \in ctxDone

\* The context passed to BindSSH for connection c is done.
Done(c) == rootDone \/ c \in ctxDone

-----------------------------------------------------------------------------
(* The inner sync.WaitGroup, as its callers see it: Add below zero panics;  *)
(* reaching zero releases every parked waiter at once; a released waiter    *)
(* that finds the counter raised again panics.                              *)

Parked == {g \in Getters : wt[g] = "parked"}

\* inner.Done()
InnerDone ==
  /\ inner' = inner - 1
  /\ panic' = IF inner - 1 < 0 THEN "negativeCounter" ELSE panic
  /\ wt' = [g \in Getters |->
              IF inner - 1 = 0 /\ wt[g] = "parked" THEN "woken" ELSE wt[g]]

\* inner.Wait(), first half: return at once or park.
WaiterCall(g) ==
  /\ Running /\ wt[g] = "calling"
  /\ wt' = [wt EXCEPT ![g] = IF inner = 0 THEN "closed" ELSE "parked"]
  /\ UNCHANGED <<connVars, binderVars, closerVars, barrierVars, getVars,
                 panic>>

\* inner.Wait(), second half, and close(ch) in activatingConnWait.
WaiterWake(g) ==
  /\ Running /\ wt[g] = "woken"
  /\ IF inner = 0
       THEN wt' = [wt EXCEPT ![g] = "closed"] /\ UNCHANGED panic
       ELSE panic' = "waitGroupReused" /\ UNCHANGED wt
  /\ UNCHANGED <<connVars, binderVars, closerVars, barrierVars, getVars>>

-----------------------------------------------------------------------------
(* waitGroup.Done and DoneAll, in steps: load n, and when it is positive    *)
(* try to swap it for one less; only the winner calls inner.Done().         *)

Positive(v) == v > 0

SwapsAnyway(old) == TRUE
Swaps(old) == n = old

-----------------------------------------------------------------------------
(* The binder: connectionOnce on the client, the error group's first       *)
(* goroutine on the server.                                                *)

\* The next SSH connection is established; the caller checked its context
\* before it dialled, not since.
Dial ==
  /\ Running /\ bpc = "offline" /\ ~rootDone /\ cur < MaxConns
  /\ cur' = cur + 1
  /\ live' = live \cup {cur + 1}
  /\ bpc' = "bind"
  /\ UNCHANGED <<closerVars, barrierVars, getVars, reconnects, ctxDone, bld,
                 kpc, active, wt, cleared, panic>>

\* BindSSH starts the goroutine that links the context to the connection.
SpawnCloser ==
  /\ Running /\ bpc = "bind"
  /\ cpc' = [cpc EXCEPT ![cur] = "waiting"]
  /\ bpc' = "lock"
  /\ UNCHANGED <<connVars, barrierVars, getVars, cur, bld, cld, active, wt,
                 cleared, panic>>

\* The critical section that makes the connection active.
MarkActiveOnly ==
  /\ Running /\ bpc = "lock"
  /\ IF active # Nil
       THEN panic' = "doubleBindSSH" /\ UNCHANGED <<active, bpc>>
       ELSE active' = cur /\ bpc' = "spawn" /\ UNCHANGED panic
  /\ UNCHANGED <<connVars, closerVars, barrierVars, getVars, cur, bld, wt,
                 cleared>>

MarkActive ==
  /\ Running /\ bpc = "lock"
  /\ IF active # Nil
       THEN panic' = "doubleBindSSH" /\ UNCHANGED <<active, bpc>>
       ELSE active' = cur /\ bpc' = "doneLoad" /\ UNCHANGED panic
  /\ UNCHANGED <<connVars, closerVars, barrierVars, getVars, cur, bld, wt,
                 cleared>>

\* activatingConn.Done(): load n ...
DoneLoad ==
  /\ Running /\ bpc = "doneLoad"
  /\ bld' = n
  /\ bpc' = IF Positive(n) THEN "doneCAS" ELSE "spawn"
  /\ UNCHANGED <<connVars, closerVars, barrierVars, getVars, cur, active, wt,
                 cleared, panic>>

\* ... the compare-and-swap; when it fails Done gives up ...
DoneCAS ==
  /\ Running /\ bpc = "doneCAS"
  /\ IF Swaps(bld)
       THEN n' = bld - 1 /\ bpc' = "doneInner"
       ELSE bpc' = "spawn" /\ UNCHANGED n
  /\ UNCHANGED <<connVars, closerVars, getVars, cur, bld, active, inner, wt,
                 cleared, panic>>

\* ... and inner.Done().
DoneInner ==
  /\ Running /\ bpc = "doneInner"
  /\ InnerDone
  /\ bpc' = "spawn"
  /\ UNCHANGED <<connVars, closerVars, getVars, cur, bld, active, n, cleared>>

\* The optional keep-alive goroutine; then BindSSH blocks in c.Wait().
SpawnKeepAlive ==
  /\ Running /\ bpc = "spawn"
  /\ kpc' = IF KeepAlive THEN [kpc EXCEPT ![cur] = "ping"] ELSE kpc
  /\ bpc' = "wait"
  /\ UNCHANGED <<closerVars, barrierVars, getVars, reconnects, ctxDone, live,
                 cur, bld, active, wt, cleared, panic>>

\* c.Wait() returns once the connection is closed, by either end.
WaitReturns ==
  /\ Running /\ bpc = "wait" /\ cur \notin live
  /\ bpc' = "addCount"
  /\ UNCHANGED <<connVars, closerVars, barrierVars, getVars, cur, bld, active,
                 wt, cleared, panic>>

\* activatingConn.Add(1): first the counter n ...
AddCount ==
  /\ Running /\ bpc = "addCount"
  /\ n' = n + 1
  /\ bpc' = "addInner"
  /\ UNCHANGED <<connVars, closerVars, getVars, cur, bld, active, inner, wt,
                 cleared, panic>>

\* ... then the inner WaitGroup.
AddInner ==
  /\ Running /\ bpc = "addInner"
  /\ inner' = inner + 1
  /\ bpc' = "clear"
  /\ UNCHANGED <<connVars, closerVars, getVars, cur, bld, active, n, wt,
                 cleared, panic>>

\* The critical section that clears activeConn.
ClearActiveKeepsConn ==
  /\ Running /\ bpc = "clear"
  /\ cleared' = cur
  /\ bpc' = "return"
  /\ UNCHANGED <<connVars, closerVars, barrierVars, getVars, cur, bld, active,
                 wt, panic>>

ClearActive ==
  /\ Running /\ bpc = "clear"
  /\ active' = Nil
  /\ cleared' = cur
  /\ bpc' = "return"
  /\ UNCHANGED <<connVars, closerVars, barrierVars, getVars, cur, bld, wt,
                 panic>>

\* BindSSH has returned its (never nil) error.  The client's connectionOnce
\* runs its deferred Close and cancel; the server's error group cancels the
\* context BindSSH shares with the proxies.
CancelledOnReturnSplit == {cur}
CancelledOnReturn == IF reconnects THEN {cur} ELSE {cur, Root}

BindReturn ==
  /\ Running /\ bpc = "return"
  /\ bpc' = "offline"
  /\ live' = live \ {cur}
  /\ ctxDone' = ctxDone \cup CancelledOnReturn
  /\ UNCHANGED <<closerVars, barrierVars, getVars, reconnects, cur, bld, kpc,
                 active, wt, cleared, panic>>

-----------------------------------------------------------------------------
(* The closer goroutine of each connection.                                *)

\* <-ctx.Done(), then c.Close().
CloserWake(c) ==
  /\ Running /\ cpc[c] = "waiting" /\ Done(c)
  /\ live' = live \ {c}
  /\ cpc' = [cpc EXCEPT ![c] = "load"]
  /\ UNCHANGED <<binderVars, barrierVars, getVars, reconnects, ctxDone, cld,
                 kpc, wt, panic>>

\* DoneAll: the loop's load of n and the load inside Done are one step, for
\* nothing happens between them when both see the same value, and when they
\* differ the loop comes round to its own load again.
CloserLoad(c) ==
  /\ Running /\ cpc[c] = "load"
  /\ cld' = [cld EXCEPT ![c] = n]
  /\ cpc' = [cpc EXCEPT ![c] = IF Positive(n) THEN "cas" ELSE "end"]
  /\ UNCHANGED <<connVars, binderVars, barrierVars, getVars, wt, panic>>

\* The compare-and-swap; either way DoneAll loops.
CloserCAS(c) ==
  /\ Running /\ cpc[c] = "cas"
  /\ IF Swaps(cld[c])
       THEN n' = cld[c] - 1 /\ cpc' = [cpc EXCEPT ![c] = "inner"]
       ELSE cpc' = [cpc EXCEPT ![c] = "load"] /\ UNCHANGED n
  /\ UNCHANGED <<connVars, binderVars, getVars, cld, inner, wt, panic>>

CloserInner(c) ==
  /\ Running /\ cpc[c] = "inner"
  /\ InnerDone
  /\ cpc' = [cpc EXCEPT ![c] = "load"]
  /\ UNCHANGED <<connVars, binderVars, getVars, cld, n>>

-----------------------------------------------------------------------------
(* The keep-alive goroutine and the environment.                           *)

\* A ping that fails or is answered strangely ends the loop, which closes
\* the connection.  A good answer leaves everything as it was.
PingStops(c) ==
  /\ Running /\ kpc[c] = "ping"
  /\ kpc' = [kpc EXCEPT ![c] = "end"]
  /\ live' = live \ {c}
  /\ UNCHANGED <<binderVars, closerVars, barrierVars, getVars, reconnects,
                 ctxDone, wt, panic>>

\* The transport fails or the peer closes the connection.
ConnDies(c) ==
  /\ Running /\ c \in live
  /\ live' = live \ {c}
  /\ UNCHANGED <<binderVars, closerVars, barrierVars, getVars, reconnects,
                 ctxDone, kpc, wt, panic>>

\* Client.Close, Server.Close or a failing proxy cancels the context tree.
Cancel ==
  /\ Running /\ ~rootDone
  /\ ctxDone' = ctxDone \cup {Root}
  /\ UNCHANGED <<binderVars, closerVars, barrierVars, getVars, reconnects,
                 live, kpc, wt, panic>>

-----------------------------------------------------------------------------
(* getSSH.                                                                 *)

Return(g, c) == gpc' = [gpc EXCEPT ![g] = "returned"] /\ res' = [res EXCEPT ![g] = c]

\* isDone(ctx)
GetCall(g) ==
  /\ Running /\ gpc[g] = "idle"
  /\ floor' = [floor EXCEPT ![g] = cleared]
  /\ IF rootDone
       THEN Return(g, Nil)
       ELSE gpc' = [gpc EXCEPT ![g] = "read"] /\ UNCHANGED res
  /\ UNCHANGED <<connVars, binderVars, closerVars, barrierVars, wt, panic>>

\* Read activeConn; when it is nil, enter the select, whose third case
\* starts the waiter goroutine.
GetRead(g) ==
  /\ Running /\ gpc[g] = "read"
  /\ IF active # Nil
       THEN Return(g, active) /\ UNCHANGED wt
       ELSE /\ gpc' = [gpc EXCEPT ![g] = "select"]
            /\ wt' = [wt EXCEPT ![g] = "calling"]
            /\ UNCHANGED res
  /\ UNCHANGED <<connVars, binderVars, closerVars, barrierVars, floor, panic>>

SelectCancelled(g) ==
  /\ Running /\ gpc[g] = "select" /\ rootDone
  /\ Return(g, Nil)
  /\ UNCHANGED <<connVars, binderVars, closerVars, barrierVars, wt, floor,
                 panic>>

\* SSH_WAIT elapses.
SelectTimeoutNever(g) == FALSE

SelectTimeout(g) ==
  /\ Running /\ gpc[g] = "select"
  /\ Return(g, Nil)
  /\ UNCHANGED <<connVars, binderVars, closerVars, barrierVars, wt, floor,
                 panic>>

SelectReady(g) ==
  /\ Running /\ gpc[g] = "select" /\ wt[g] = "closed"
  /\ gpc' = [gpc EXCEPT ![g] = "reread"]
  /\ UNCHANGED <<connVars, binderVars, closerVars, barrierVars, res, wt,
                 floor, panic>>

GetReread(g) ==
  /\ Running /\ gpc[g] = "reread"
  /\ Return(g, active)
  /\ UNCHANGED <<connVars, binderVars, closerVars, barrierVars, wt, floor,
                 panic>>

-----------------------------------------------------------------------------
\* Every goroutine that can end has ended, or the process has.  A waiter may
\* be left parked: nothing obliges anyone to lower the barrier at shutdown.
Ended ==
  \/ ~Running
  \/ /\ rootDone /\ bpc = "offline"
     /\ \A c \in Conns : cpc[c] \in {"none", "end"} /\ kpc[c] \in {"none", "end"}
     /\ \A g \in Getters : gpc[g] = "returned" /\ wt[g] \in {"none", "parked", "closed"}

Terminated == Ended /\ UNCHANGED vars

BinderStep ==
  \/ SpawnCloser \/ MarkActive \/ DoneLoad \/ DoneCAS \/ DoneInner
  \/ SpawnKeepAlive \/ WaitReturns \/ AddCount \/ AddInner \/ ClearActive
  \/ BindReturn

CloserStep(c) == CloserWake(c) \/ CloserLoad(c) \/ CloserCAS(c) \/ CloserInner(c)

GetterStep(g) ==
  GetRead(g) \/ SelectCancelled(g) \/ SelectTimeout(g) \/ SelectReady(g) \/ GetReread(g)

WaiterStep(g) == WaiterCall(g) \/ WaiterWake(g)

Init ==
  /\ reconnects \in BOOLEAN
  /\ ctxDone = {} /\ live = {} /\ cur = 0
  /\ bpc = "offline" /\ bld = 0
  /\ cpc = [c \in Conns |-> "none"] /\ cld = [c \in Conns |-> 0]
  /\ kpc = [c \in Conns |-> "none"]
  /\ active = Nil
  /\ n = 1 /\ inner = 1          \* New: t.activatingConn.Add(1)
  /\ gpc = [g \in Getters |-> "idle"] /\ res = [g \in Getters |-> Nil]
  /\ wt = [g \in Getters |-> "none"]
  /\ cleared = 0 /\ floor = [g \in Getters |-> 0]
  /\ panic = "none"

Next ==
  \/ Dial \/ BinderStep \/ Cancel \/ Terminated
  \/ \E c \in Conns : CloserStep(c) \/ PingStops(c) \/ ConnDies(c)
  \/ \E g \in Getters : GetCall(g) \/ GetterStep(g) \/ WaiterStep(g)

\* Goroutines that can run are scheduled, SSH_WAIT elapses, and a ping of a
\* closed connection fails.  Nothing makes a connection appear or break.
Fairness ==
  /\ WF_vars(BinderStep)
  /\ \A c \in Conns : WF_vars(CloserStep(c)) /\ WF_vars(c \notin live /\ PingStops(c))
  /\ \A g \in Getters : WF_vars(GetterStep(g)) /\ WF_vars(WaiterStep(g))

Spec == Init /\ [][Next]_vars
FairSpec == Spec /\ Fairness

-----------------------------------------------------------------------------
(* Properties.                                                             *)

BinderStates == {"offline", "bind", "lock", "doneLoad", "doneCAS", "doneInner",
                 "spawn", "wait", "addCount", "addInner", "clear", "return"}
Panics == {"none", "negativeCounter", "waitGroupReused", "doubleBindSSH"}

\* The type invariant; n, though a signed counter, never falls below zero.
TypeOK ==
  /\ reconnects \in BOOLEAN
  /\ ctxDone \subseteq {Root} \cup Conns /\ live \subseteq Conns
  /\ cur \in 0 .. MaxConns /\ active \in 0 .. MaxConns /\ cleared \in 0 .. MaxConns
  /\ bpc \in BinderStates /\ bld \in Nat
  /\ cpc \in [Conns -> {"none", "waiting", "load", "cas", "inner", "end"}]
  /\ cld \in [Conns -> Nat]
  /\ kpc \in [Conns -> {"none", "ping", "end"}]
  /\ n \in Nat /\ inner \in Int
  /\ gpc \in [Getters -> {"idle", "read", "select", "reread", "returned"}]
  /\ res \in [Getters -> 0 .. MaxConns]
  /\ wt \in [Getters -> {"none", "calling", "parked", "woken", "closed"}]
  /\ floor \in [Getters -> 0 .. MaxConns]
  /\ panic \in Panics

\* The two counters of waitGroup, updated in separate steps by the binder and
\* by any number of closers, never drift apart: inner is n plus the Done calls
\* between their compare-and-swap and inner.Done, less an Add between its two
\* halves (wg.go:13-28).
InFlight == Cardinality({c \in Conns : cpc[c] = "inner"})
CountersAgree ==
  inner = n + InFlight + (IF bpc = "doneInner" THEN 1 ELSE 0)
            - (IF bpc = "addInner" THEN 1 ELSE 0)

\* The "double bind ssh" panic (tunnel.go:121-123) is unreachable: whatever
\* closers of earlier connections still do, activeConn is nil when the next
\* connection is bound, and it is the binder's own connection until cleared.
NoDoubleBind == panic # "doubleBindSSH"

\* While a connection is bound the barrier is down: nobody who calls getSSH
\* can be left parked, once the Done calls in flight have finished
\* (tunnel.go:119-126, wg.go:18-28).
NoLostWakeup ==
  Running /\ bpc = "wait" /\ (\A c \in Conns : cpc[c] # "inner") => Parked = {}

\* getSSH never returns a connection that had been cleared before the call
\* began (tunnel.go:138-141, 146-170).
FreshConn == \A g \in Getters : res[g] # Nil => res[g] > floor[g]

\* Every call of getSSH returns, connection or no connection
\* (tunnel.go:159-169).
GetSSHReturns == \A g \in Getters : (gpc[g] = "read") ~> (gpc[g] = "returned" \/ ~Running)

\* On the server a lost connection ends the whole session: BindSSH's return
\* cancels the shared context, and every goroutine of the tunnel except a
\* parked waiter comes to its end (server_handler.go:191-205).
DisconnectEndsSession ==
  (~reconnects /\ cur > 0 /\ cur \notin live)
    ~> \/ ~Running
       \/ /\ rootDone /\ bpc = "offline" /\ active = Nil
          /\ \A c \in 1 .. cur : cpc[c] = "end" /\ kpc[c] \in {"none", "end"}
          /\ \A g \in Getters : gpc[g] \in {"idle", "returned"}

-----------------------------------------------------------------------------
(* What the comments say and the code does not keep; see the findings.     *)

\* "cancel context tree, and wait for both client and server to stop"
\* (test/e2e/setup_test.go:99): a cancellation, whenever it comes, ends the
\* tunnel without a panic of the barrier's WaitGroup.
NoBarrierPanic == panic \notin {"negativeCounter", "waitGroupReused"}

\* "getSSH blocks while connecting" (tunnel.go:144): a call whose context is
\* not done is let through the barrier without a connection only if it has
\* just missed one, bound and lost again since the call began.
BlocksWhileConnecting ==
  \A g \in Getters :
    gpc[g] = "reread" /\ active = Nil /\ ~rootDone => cleared > floor[g]
=============================================================================
