---------------------------- MODULE TunnelProofs ----------------------------
(***************************************************************************)
(* Safety of Tunnel for every number of connections and of getSSH calls.   *)
(* The inductive invariant IInv adds to the properties what relates the    *)
(* binder's control state to activeConn and to the barrier.                *)
(***************************************************************************)
EXTENDS Tunnel, FiniteSetTheorems, TLAPS

USE DEF connVars, binderVars, closerVars, barrierVars, getVars

\* The control states in which the binder's connection is the active one.
BoundStates == {"doneLoad", "doneCAS", "doneInner", "spawn", "wait",
                "addCount", "addInner", "clear"}

\* activeConn is the binder's connection from MarkActive to ClearActive and
\* nil otherwise; the binder holds some connection whenever it is at work.
ActiveInv ==
  /\ active = IF bpc \in BoundStates THEN cur ELSE Nil
  /\ bpc # "offline" => cur > 0
  /\ \A c \in Conns : c > cur \/ (c = cur /\ bpc = "bind") => cpc[c] = "none"
  /\ NoDoubleBind

\* n is 0 or 1, every loaded copy about to be swapped is 1, and from the
\* moment the binder is past Done until it calls Add n is 0.
BarrierInv ==
  /\ n \in {0, 1}
  /\ bpc = "doneCAS" => bld = 1
  /\ bpc \in {"doneInner", "spawn", "wait", "addCount"} => n = 0
  /\ \A c \in Conns : cpc[c] = "cas" => cld[c] = 1

\* A waiter is parked only while the inner counter is positive.
WaiterInv ==
  Running => inner >= 0 /\ \A g \in Getters : wt[g] = "parked" => inner > 0

\* Connections are cleared in the order they are bound, and a call's floor
\* never overtakes the last one cleared.
FreshInv ==
  /\ cleared <= cur
  /\ bpc \notin {"offline", "return"} => cleared < cur
  /\ \A g \in Getters : floor[g] <= cleared /\ (gpc[g] = "idle" => res[g] = Nil)
  /\ FreshConn

IInv == TypeOK /\ ActiveInv /\ BarrierInv /\ WaiterInv /\ FreshInv /\ CountersAgree

-----------------------------------------------------------------------------
\* The initial states satisfy every part; InFlight is zero there.
LEMMA InitIInv == Init => IInv
<1> SUFFICES ASSUME Init PROVE IInv
  OBVIOUS
<1> USE MaxConnsAssumption, KeepAliveAssumption DEF Conns, Nil, Root
<1>1. TypeOK
  BY DEF Init, TypeOK, BinderStates, Panics
<1>2. ActiveInv
  BY DEF Init, ActiveInv, BoundStates, NoDoubleBind
<1>3. BarrierInv
  BY DEF Init, BarrierInv
<1>4. WaiterInv
  BY DEF Init, WaiterInv, Running
<1>5. FreshInv
  BY DEF Init, FreshInv, FreshConn
<1>6. CountersAgree
  <2>1. {c \in Conns : cpc[c] = "inner"} = {}
    BY DEF Init
  <2>2. InFlight = 0
    BY <2>1, FS_EmptySet DEF InFlight
  <2> QED BY <2>2 DEF Init, CountersAgree
<1> QED BY <1>1, <1>2, <1>3, <1>4, <1>5, <1>6 DEF IInv

-----------------------------------------------------------------------------
\* Every step keeps the types: the swaps only ever take n from 1 to 0.
LEMMA TypeStep == IInv /\ [Next]_vars => TypeOK'
<1> SUFFICES ASSUME IInv, [Next]_vars PROVE TypeOK'
  OBVIOUS
<1> USE MaxConnsAssumption, KeepAliveAssumption DEF Positive, Swaps, CancelledOnReturn, IInv, TypeOK, Conns, Nil, Root, BinderStates, Panics
<1>1. CASE Dial
  BY <1>1 DEF Dial
<1>2. CASE SpawnCloser
  BY <1>2 DEF SpawnCloser
<1>3. CASE MarkActive
  BY <1>3 DEF MarkActive
<1>4. CASE DoneLoad
  BY <1>4 DEF DoneLoad
<1>5. CASE DoneCAS
  BY <1>5 DEF DoneCAS, BarrierInv
<1>6. CASE DoneInner
  BY <1>6 DEF DoneInner, InnerDone
<1>7. CASE SpawnKeepAlive
  BY <1>7 DEF SpawnKeepAlive
<1>8. CASE WaitReturns
  BY <1>8 DEF WaitReturns
<1>9. CASE AddCount
  BY <1>9 DEF AddCount
<1>10. CASE AddInner
  BY <1>10 DEF AddInner
<1>11. CASE ClearActive
  BY <1>11 DEF ClearActive
<1>12. CASE BindReturn
  BY <1>12 DEF BindReturn
<1>13. CASE Cancel
  BY <1>13 DEF Cancel
<1>14. CASE Terminated \/ UNCHANGED vars
  BY <1>14 DEF Terminated, vars
<1>15. ASSUME NEW c \in Conns, CloserStep(c) PROVE TypeOK'
  <2>1. CASE CloserWake(c)
    BY <2>1 DEF CloserWake
  <2>2. CASE CloserLoad(c)
    BY <2>2 DEF CloserLoad
  <2>3. CASE CloserCAS(c)
    BY <2>3 DEF CloserCAS, BarrierInv
  <2>4. CASE CloserInner(c)
    BY <2>4 DEF CloserInner, InnerDone
  <2> QED BY <1>15, <2>1, <2>2, <2>3, <2>4 DEF CloserStep
<1>16. ASSUME NEW c \in Conns, PingStops(c) \/ ConnDies(c) PROVE TypeOK'
  BY <1>16 DEF PingStops, ConnDies
<1>17. ASSUME NEW g \in Getters, NEW c \in 0 .. MaxConns, Return(g, c)
       PROVE  /\ gpc' \in [Getters -> {"idle", "read", "select", "reread", "returned"}]
              /\ res' \in [Getters -> 0 .. MaxConns]
  BY <1>17 DEF Return
<1>18. Nil \in 0 .. MaxConns /\ active \in 0 .. MaxConns
  OBVIOUS
<1>19. ASSUME NEW g \in Getters, GetCall(g) PROVE TypeOK'
  <2>1. CASE rootDone
    <3>1. Return(g, Nil) /\ floor' = [floor EXCEPT ![g] = cleared]
      BY <1>19, <2>1 DEF GetCall
    <3> QED BY <1>19, <1>17, <1>18, <3>1 DEF GetCall
  <2>2. CASE ~rootDone
    BY <1>19, <2>2 DEF GetCall
  <2> QED BY <2>1, <2>2
<1>20. ASSUME NEW g \in Getters, GetterStep(g) PROVE TypeOK'
  <2>1. CASE GetRead(g)
    BY <2>1 DEF GetRead, Return
  <2>2. CASE SelectCancelled(g) \/ SelectTimeout(g)
    <3>1. Return(g, Nil)
      BY <2>2 DEF SelectCancelled, SelectTimeout
    <3> QED BY <2>2, <1>17, <1>18, <3>1 DEF SelectCancelled, SelectTimeout
  <2>3. CASE SelectReady(g)
    BY <2>3 DEF SelectReady
  <2>4. CASE GetReread(g)
    BY <2>4 DEF GetReread, Return
  <2> QED BY <1>20, <2>1, <2>2, <2>3, <2>4 DEF GetterStep
<1>21. ASSUME NEW g \in Getters, WaiterStep(g) PROVE TypeOK'
  BY <1>21 DEF WaiterStep, WaiterCall, WaiterWake
<1> QED
  BY <1>1, <1>2, <1>3, <1>4, <1>5, <1>6, <1>7, <1>8, <1>9,
     <1>10, <1>11, <1>12, <1>13, <1>14, <1>15, <1>16, <1>17, <1>18,
     <1>19, <1>20, <1>21
  DEF Next, BinderStep

-----------------------------------------------------------------------------
(* What the goroutines other than the binder leave alone.                  *)

\* A closer touches only its own control state, its connection, the barrier
\* and, through the barrier, the waiters.
LEMMA CloserFrame ==
  ASSUME NEW c \in Conns, CloserStep(c)
  PROVE  UNCHANGED <<ctxDone, cur, bpc, bld, kpc, active, gpc, res, floor, cleared>>
BY DEF CloserStep, CloserWake, CloserLoad, CloserCAS, CloserInner

\* A call of getSSH and its waiter only read the tunnel.
LEMMA GetterFrame ==
  ASSUME NEW g \in Getters, GetCall(g) \/ GetterStep(g) \/ WaiterStep(g)
  PROVE  UNCHANGED <<ctxDone, live, cur, bpc, bld, cpc, cld, kpc, active, n, inner, cleared>>
<1>1. CASE GetCall(g)
  BY <1>1 DEF GetCall
<1>2. CASE GetterStep(g)
  BY <1>2 DEF GetterStep, GetRead, SelectCancelled, SelectTimeout, SelectReady,
       GetReread
<1>3. CASE WaiterStep(g)
  BY <1>3 DEF WaiterStep, WaiterCall, WaiterWake
<1> QED BY <1>1, <1>2, <1>3

\* Connection loss, pings, cancellation and termination.
EnvStep ==
  \/ Cancel \/ Terminated \/ UNCHANGED vars
  \/ \E c \in Conns : PingStops(c) \/ ConnDies(c)

LEMMA EnvFrame ==
  ASSUME EnvStep
  PROVE  UNCHANGED <<cur, bpc, bld, cpc, cld, active, n, inner, gpc, res, wt,
                     cleared, floor, panic>>
BY DEF EnvStep, Cancel, Terminated, PingStops, ConnDies, vars

\* The disjuncts of Next, by who takes the step.
LEMMA NextCases ==
  ASSUME [Next]_vars
  PROVE  \/ Dial \/ BinderStep \/ EnvStep
         \/ \E c \in Conns : CloserStep(c)
         \/ \E g \in Getters : GetCall(g) \/ GetterStep(g) \/ WaiterStep(g)
BY DEF Next, EnvStep

-----------------------------------------------------------------------------
\* Only the binder moves activeConn, and it finds it nil before it sets it.
LEMMA ActiveStep == IInv /\ [Next]_vars => ActiveInv'
<1> SUFFICES ASSUME IInv, [Next]_vars PROVE ActiveInv'
  OBVIOUS
<1> USE MaxConnsAssumption DEF Positive, Swaps, CancelledOnReturn, IInv, TypeOK, Nil, ActiveInv, NoDoubleBind, BoundStates
<1>1. CASE Dial
  BY <1>1 DEF Dial, Conns
<1>2. CASE BinderStep
  <2>1. CASE SpawnCloser \/ MarkActive
    BY <2>1 DEF SpawnCloser, MarkActive
  <2>2. CASE DoneLoad \/ DoneCAS
    BY <2>2 DEF DoneLoad, DoneCAS
  <2>3. CASE DoneInner
    BY <2>3 DEF DoneInner, InnerDone
  <2>4. CASE SpawnKeepAlive \/ WaitReturns \/ AddCount \/ AddInner
    BY <2>4 DEF SpawnKeepAlive, WaitReturns, AddCount, AddInner
  <2>5. CASE ClearActive \/ BindReturn
    BY <2>5 DEF ClearActive, BindReturn
  <2> QED BY <1>2, <2>1, <2>2, <2>3, <2>4, <2>5 DEF BinderStep
<1>3. CASE EnvStep
  BY <1>3, EnvFrame
<1>4. ASSUME NEW c \in Conns, CloserStep(c) PROVE ActiveInv'
  <2>1. panic' # "doubleBindSSH"
    BY <1>4 DEF CloserStep, CloserWake, CloserLoad, CloserCAS, CloserInner, InnerDone
  <2>2. \A d \in Conns : cpc[d] = "none" => cpc'[d] = "none"
    BY <1>4 DEF CloserStep, CloserWake, CloserLoad, CloserCAS, CloserInner
  <2> QED BY <1>4, <2>1, <2>2, CloserFrame
<1>5. ASSUME NEW g \in Getters, GetCall(g) \/ GetterStep(g) \/ WaiterStep(g)
      PROVE ActiveInv'
  <2>1. panic' # "doubleBindSSH"
    BY <1>5 DEF GetCall, GetterStep, GetRead, SelectCancelled, SelectTimeout,
         SelectReady, GetReread, WaiterStep, WaiterCall, WaiterWake
  <2> QED BY <1>5, <2>1, GetterFrame
<1> QED BY <1>1, <1>2, <1>3, <1>4, <1>5, NextCases

-----------------------------------------------------------------------------
\* The barrier's counter: the binder's swap takes the one unit it added, and
\* closers can only take it first.
LEMMA BarrierStep == IInv /\ [Next]_vars => BarrierInv'
<1> SUFFICES ASSUME IInv, [Next]_vars PROVE BarrierInv'
  OBVIOUS
<1> USE DEF Positive, Swaps, CancelledOnReturn, IInv, TypeOK, BarrierInv
<1>1. CASE Dial
  BY <1>1 DEF Dial
<1>2. CASE BinderStep
  <2>1. CASE SpawnCloser
    BY <2>1 DEF SpawnCloser
  <2>2. CASE MarkActive
    BY <2>2 DEF MarkActive
  <2>3. CASE DoneLoad
    BY <2>3 DEF DoneLoad
  <2>4. CASE DoneCAS
    BY <2>4 DEF DoneCAS
  <2>5. CASE DoneInner
    BY <2>5 DEF DoneInner
  <2>6. CASE SpawnKeepAlive \/ WaitReturns
    BY <2>6 DEF SpawnKeepAlive, WaitReturns
  <2>7. CASE AddCount
    BY <2>7 DEF AddCount
  <2>8. CASE AddInner \/ ClearActive \/ BindReturn
    BY <2>8 DEF AddInner, ClearActive, BindReturn
  <2> QED BY <1>2, <2>1, <2>2, <2>3, <2>4, <2>5, <2>6, <2>7, <2>8 DEF BinderStep
<1>3. CASE EnvStep
  BY <1>3, EnvFrame
<1>4. ASSUME NEW c \in Conns, CloserStep(c) PROVE BarrierInv'
  <2>1. CASE CloserWake(c)
    BY <2>1 DEF CloserWake
  <2>2. CASE CloserLoad(c)
    BY <2>2 DEF CloserLoad
  <2>3. CASE CloserCAS(c)
    BY <2>3 DEF CloserCAS
  <2>4. CASE CloserInner(c)
    BY <2>4 DEF CloserInner
  <2> QED BY <1>4, <2>1, <2>2, <2>3, <2>4 DEF CloserStep
<1>5. ASSUME NEW g \in Getters, GetCall(g) \/ GetterStep(g) \/ WaiterStep(g)
      PROVE BarrierInv'
  BY <1>5, GetterFrame
<1> QED BY <1>1, <1>2, <1>3, <1>4, <1>5, NextCases

-----------------------------------------------------------------------------
\* inner.Done() releases every parked waiter when it brings the counter to
\* zero and panics when it brings it below.
LEMMA InnerDoneWaiters ==
  ASSUME IInv, InnerDone
  PROVE  WaiterInv'
BY DEF Positive, Swaps, CancelledOnReturn, IInv, TypeOK, WaiterInv, InnerDone, Running

LEMMA WaiterStepInv == IInv /\ [Next]_vars => WaiterInv'
<1> SUFFICES ASSUME IInv, [Next]_vars PROVE WaiterInv'
  OBVIOUS
<1> USE DEF Positive, Swaps, CancelledOnReturn, IInv, TypeOK, WaiterInv, Running
<1>1. CASE Dial
  BY <1>1 DEF Dial
<1>2. CASE BinderStep
  <2>1. CASE SpawnCloser \/ MarkActive \/ DoneLoad \/ DoneCAS
    BY <2>1 DEF SpawnCloser, MarkActive, DoneLoad, DoneCAS
  <2>2. CASE DoneInner
    BY <2>2, InnerDoneWaiters DEF DoneInner
  <2>3. CASE SpawnKeepAlive \/ WaitReturns \/ AddCount
    BY <2>3 DEF SpawnKeepAlive, WaitReturns, AddCount
  <2>4. CASE AddInner
    BY <2>4 DEF AddInner
  <2>5. CASE ClearActive \/ BindReturn
    BY <2>5 DEF ClearActive, BindReturn
  <2> QED BY <1>2, <2>1, <2>2, <2>3, <2>4, <2>5 DEF BinderStep
<1>3. CASE EnvStep
  BY <1>3, EnvFrame
<1>4. ASSUME NEW c \in Conns, CloserStep(c) PROVE WaiterInv'
  <2>1. CASE CloserWake(c) \/ CloserLoad(c) \/ CloserCAS(c)
    BY <2>1 DEF CloserWake, CloserLoad, CloserCAS
  <2>2. CASE CloserInner(c)
    BY <2>2, InnerDoneWaiters DEF CloserInner
  <2> QED BY <1>4, <2>1, <2>2 DEF CloserStep
<1>5. ASSUME NEW g \in Getters, GetCall(g) \/ GetterStep(g) \/ WaiterStep(g)
      PROVE WaiterInv'
  <2>1. CASE GetCall(g)
    BY <2>1 DEF GetCall
  <2>2. CASE GetRead(g)
    BY <2>2 DEF GetRead
  <2>3. CASE SelectCancelled(g) \/ SelectTimeout(g) \/ SelectReady(g) \/ GetReread(g)
    BY <2>3 DEF SelectCancelled, SelectTimeout, SelectReady, GetReread
  <2>4. CASE WaiterCall(g)
    BY <2>4 DEF WaiterCall
  <2>5. CASE WaiterWake(g)
    BY <2>5 DEF WaiterWake
  <2> QED BY <1>5, <2>1, <2>2, <2>3, <2>4, <2>5 DEF GetterStep, WaiterStep
<1> QED BY <1>1, <1>2, <1>3, <1>4, <1>5, NextCases

-----------------------------------------------------------------------------
\* What getSSH returns is the active connection at some moment of the call,
\* and that is younger than every connection cleared before the call.
LEMMA FreshStep == IInv /\ [Next]_vars => FreshInv'
<1> SUFFICES ASSUME IInv, [Next]_vars PROVE FreshInv'
  OBVIOUS
<1> USE DEF Positive, Swaps, CancelledOnReturn, IInv, TypeOK, FreshInv, FreshConn, Nil
<1>1. CASE Dial
  BY <1>1 DEF Dial
<1>2. CASE BinderStep
  <2>1. CASE ClearActive
    BY <2>1, MaxConnsAssumption DEF ClearActive
  <2>2. CASE SpawnCloser \/ MarkActive \/ DoneLoad \/ DoneCAS \/ DoneInner
    BY <2>2 DEF SpawnCloser, MarkActive, DoneLoad, DoneCAS, DoneInner
  <2>3. CASE SpawnKeepAlive \/ WaitReturns \/ AddCount \/ AddInner \/ BindReturn
    BY <2>3 DEF SpawnKeepAlive, WaitReturns, AddCount, AddInner, BindReturn
  <2> QED BY <1>2, <2>1, <2>2, <2>3 DEF BinderStep
<1>3. CASE EnvStep
  BY <1>3, EnvFrame
<1>4. ASSUME NEW c \in Conns, CloserStep(c) PROVE FreshInv'
  BY <1>4, CloserFrame
<1>5. ASSUME NEW g \in Getters, GetCall(g) \/ GetterStep(g) \/ WaiterStep(g)
      PROVE FreshInv'
  <2>1. active # Nil => active > cleared
    BY MaxConnsAssumption DEF ActiveInv, BoundStates
  <2>2. CASE GetCall(g)
    <3>1. res'[g] = Nil /\ \A h \in Getters \ {g} : res'[h] = res[h]
      BY <2>2 DEF GetCall, Return
    <3>2. floor'[g] = cleared /\ \A h \in Getters \ {g} : floor'[h] = floor[h]
      BY <2>2 DEF GetCall
    <3>3. gpc'[g] # "idle" /\ \A h \in Getters \ {g} : gpc'[h] = gpc[h]
      BY <2>2 DEF GetCall, Return
    <3> QED BY <2>2, <3>1, <3>2, <3>3, GetterFrame
  <2>3. CASE GetRead(g)
    BY <2>1, <2>3 DEF GetRead, Return
  <2>4. CASE SelectCancelled(g) \/ SelectTimeout(g)
    BY <2>4 DEF SelectCancelled, SelectTimeout, Return
  <2>5. CASE SelectReady(g)
    BY <2>5 DEF SelectReady
  <2>6. CASE GetReread(g)
    BY <2>1, <2>6 DEF GetReread, Return
  <2>7. CASE WaiterStep(g)
    BY <2>7 DEF WaiterStep, WaiterCall, WaiterWake
  <2> QED BY <1>5, <2>2, <2>3, <2>4, <2>5, <2>6, <2>7 DEF GetterStep
<1> QED BY <1>1, <1>2, <1>3, <1>4, <1>5, NextCases

-----------------------------------------------------------------------------
(* The counters.                                                           *)

InnerSet == {c \in Conns : cpc[c] = "inner"}

LEMMA InnerSetFinite == IsFiniteSet(InnerSet) /\ InFlight = Cardinality(InnerSet) /\ InFlight \in Nat
<1>1. IsFiniteSet(Conns)
  BY MaxConnsAssumption, FS_Interval DEF Conns
<1>2. IsFiniteSet(InnerSet)
  BY <1>1, FS_Subset DEF InnerSet
<1> QED BY <1>2, FS_CardinalityType DEF InFlight, InnerSet

\* A closer that wins its swap enters the window, one that calls
\* inner.Done() leaves it, and no other step of a closer matters.
LEMMA CloserWindow ==
  ASSUME IInv, NEW c \in Conns, NEW pc \in {"load", "cas", "inner", "end"},
         cpc' = [cpc EXCEPT ![c] = pc]
  PROVE  /\ pc = "inner" /\ cpc[c] # "inner" => InFlight' = InFlight + 1
         /\ pc # "inner" /\ cpc[c] = "inner" => InFlight' = InFlight - 1
         /\ (pc = "inner" <=> cpc[c] = "inner") => InFlight' = InFlight
<1> USE DEF Positive, Swaps, CancelledOnReturn, IInv, TypeOK
<1>0. InFlight' = Cardinality(InnerSet')
  BY DEF InFlight, InnerSet
<1>1. CASE pc = "inner" /\ cpc[c] # "inner"
  <2>1. InnerSet' = InnerSet \cup {c} /\ c \notin InnerSet
    BY <1>1 DEF InnerSet
  <2>2. Cardinality(InnerSet') = Cardinality(InnerSet) + 1
    BY <2>1, InnerSetFinite, FS_AddElement
  <2> QED BY <1>0, <1>1, <2>2, InnerSetFinite
<1>2. CASE pc # "inner" /\ cpc[c] = "inner"
  <2>1. InnerSet' = InnerSet \ {c} /\ c \in InnerSet
    BY <1>2 DEF InnerSet
  <2>2. Cardinality(InnerSet') = Cardinality(InnerSet) - 1
    BY <2>1, InnerSetFinite, FS_RemoveElement
  <2> QED BY <1>0, <1>2, <2>2, InnerSetFinite
<1>3. CASE (pc = "inner") <=> (cpc[c] = "inner")
  <2>1. InnerSet' = InnerSet
    BY <1>3 DEF InnerSet
  <2> QED BY <1>0, <1>3, <2>1, InnerSetFinite
<1> QED BY <1>1, <1>2, <1>3

LEMMA CountersStep == IInv /\ [Next]_vars => CountersAgree'
<1> SUFFICES ASSUME IInv, [Next]_vars PROVE CountersAgree'
  OBVIOUS
<1> USE InnerSetFinite DEF Positive, Swaps, CancelledOnReturn, IInv, TypeOK, CountersAgree
<1>1. ASSUME cpc' = cpc PROVE InFlight' = InFlight
  BY <1>1 DEF InFlight
<1>2. CASE Dial
  BY <1>1, <1>2 DEF Dial
<1>3. CASE BinderStep
  <2>1. CASE SpawnCloser
    <3>1. cur \in Conns /\ cpc[cur] = "none"
      BY <2>1, MaxConnsAssumption DEF SpawnCloser, ActiveInv, Conns
    <3>2. InnerSet' = InnerSet
      BY <2>1, <3>1 DEF SpawnCloser, InnerSet
    <3> QED BY <2>1, <3>2 DEF SpawnCloser, InFlight, InnerSet
  <2>2. CASE MarkActive
    BY <1>1, <2>2 DEF MarkActive
  <2>3. CASE DoneLoad
    BY <1>1, <2>3 DEF DoneLoad
  <2>4. CASE DoneCAS
    BY <1>1, <2>4 DEF DoneCAS, BarrierInv
  <2>5. CASE DoneInner
    BY <1>1, <2>5 DEF DoneInner, InnerDone
  <2>6. CASE SpawnKeepAlive \/ WaitReturns
    BY <1>1, <2>6 DEF SpawnKeepAlive, WaitReturns
  <2>7. CASE AddCount
    BY <1>1, <2>7 DEF AddCount
  <2>8. CASE AddInner
    BY <1>1, <2>8 DEF AddInner
  <2>9. CASE ClearActive \/ BindReturn
    BY <1>1, <2>9 DEF ClearActive, BindReturn
  <2> QED BY <1>3, <2>1, <2>2, <2>3, <2>4, <2>5, <2>6, <2>7, <2>8, <2>9 DEF BinderStep
<1>4. CASE EnvStep
  BY <1>1, <1>4, EnvFrame
<1>5. ASSUME NEW c \in Conns, CloserStep(c) PROVE CountersAgree'
  <2>0. UNCHANGED bpc
    BY <1>5, CloserFrame
  <2>1. CASE CloserWake(c)
    <3>1. InFlight' = InFlight
      <4>1. cpc[c] = "waiting" /\ cpc' = [cpc EXCEPT ![c] = "load"]
        BY <2>1 DEF CloserWake
      <4> QED BY <4>1, CloserWindow
    <3> QED BY <2>0, <2>1, <3>1 DEF CloserWake
  <2>2. CASE CloserLoad(c)
    <3>1. PICK pc \in {"cas", "end"} : cpc[c] = "load" /\ cpc' = [cpc EXCEPT ![c] = pc]
      BY <2>2 DEF CloserLoad
    <3>2. InFlight' = InFlight
      BY <3>1, CloserWindow
    <3> QED BY <2>0, <2>2, <3>2 DEF CloserLoad
  <2>3. CASE CloserCAS(c)
    <3>1. CASE n = cld[c]
      <4>1. InFlight' = InFlight + 1
        BY <2>3, <3>1, CloserWindow DEF CloserCAS
      <4> QED BY <2>0, <2>3, <3>1, <4>1 DEF CloserCAS, BarrierInv
    <3>2. CASE n # cld[c]
      <4>1. InFlight' = InFlight
        BY <2>3, <3>2, CloserWindow DEF CloserCAS
      <4> QED BY <2>0, <2>3, <3>2, <4>1 DEF CloserCAS
    <3> QED BY <3>1, <3>2
  <2>4. CASE CloserInner(c)
    <3>1. InFlight' = InFlight - 1
      <4>1. cpc[c] = "inner" /\ cpc' = [cpc EXCEPT ![c] = "load"]
        BY <2>4 DEF CloserInner
      <4> QED BY <4>1, CloserWindow
    <3> QED BY <2>0, <2>4, <3>1 DEF CloserInner, InnerDone
  <2> QED BY <1>5, <2>1, <2>2, <2>3, <2>4 DEF CloserStep
<1>6. ASSUME NEW g \in Getters, GetCall(g) \/ GetterStep(g) \/ WaiterStep(g)
      PROVE CountersAgree'
  BY <1>1, <1>6, GetterFrame
<1> QED BY <1>2, <1>3, <1>4, <1>5, <1>6, NextCases

-----------------------------------------------------------------------------
\* IInv is an invariant of the tunnel, for every number of connections, any
\* set of callers and both modes.
THEOREM Invariance == Spec => []IInv
<1>1. Init => IInv
  BY InitIInv
<1>2. IInv /\ [Next]_vars => IInv'
  BY TypeStep, ActiveStep, BarrierStep, WaiterStepInv, FreshStep, CountersStep DEF IInv
<1> QED BY <1>1, <1>2, PTL DEF Spec

\* Types are kept; in particular waitGroup.n never goes below zero.
THEOREM TypeCorrect == Spec => []TypeOK
<1>1. IInv => TypeOK
  BY DEF IInv
<1> QED BY <1>1, Invariance, PTL

\* The two counters of the barrier never drift apart (wg.go:13-28).
THEOREM BarrierCounters == Spec => []CountersAgree
<1>1. IInv => CountersAgree
  BY DEF IInv
<1> QED BY <1>1, Invariance, PTL

\* The "double bind ssh" panic cannot happen (tunnel.go:121-123).
THEOREM NeverDoubleBind == Spec => []NoDoubleBind
<1>1. IInv => NoDoubleBind
  BY DEF IInv, ActiveInv
<1> QED BY <1>1, Invariance, PTL

\* getSSH never returns a connection cleared before the call (tunnel.go:146-170).
THEOREM ReturnsFreshConn == Spec => []FreshConn
<1>1. IInv => FreshConn
  BY DEF IInv, FreshInv
<1> QED BY <1>1, Invariance, PTL

\* While a connection is bound, and no Done is half way, no waiter is parked.
THEOREM BoundTunnelUnblocks == Spec => []NoLostWakeup
<1>1. IInv => NoLostWakeup
  <2> SUFFICES ASSUME IInv, Running, bpc = "wait", \A c \in Conns : cpc[c] # "inner"
               PROVE  Parked = {}
    BY DEF NoLostWakeup
  <2>1. InFlight = 0
    <3>1. {c \in Conns : cpc[c] = "inner"} = {}
      OBVIOUS
    <3> QED BY <3>1, FS_EmptySet DEF InFlight
  <2>2. n = 0
    BY DEF IInv, BarrierInv
  <2>3. inner = 0
    BY <2>1, <2>2 DEF IInv, CountersAgree
  <2> QED BY <2>3 DEF IInv, WaiterInv, Parked
<1> QED BY <1>1, Invariance, PTL
=============================================================================
