----------------------------- MODULE Telemetry ------------------------------
(***************************************************************************)
(* What the server tells its observers: the statuses in the monitor        *)
(* (server/monitor_state.go), the OpenTelemetry publisher with its         *)
(* snapshot and its tables of start times (server/otel.go), and the stream *)
(* events of a proxy with their numbers (share/tunnel/tunnel_in_proxy.go). *)
(*                                                                         *)
(* A report of a status is a call made by the goroutine it is about: a     *)
(* session's handler, or the goroutine of an endpoint.  It updates the     *)
(* monitor, tells the publisher, takes a snapshot and publishes it: four   *)
(* critical sections of two mutexes, between which other calls may run.    *)
(* The order in which a session's goroutines report is the one that        *)
(* Session.tla shows.  Times are left out: a table is the set of its keys. *)
(***************************************************************************)
EXTENDS Naturals, FiniteSets

CONSTANTS
  Sessions, Endpoints, Streams,
  SessionOf,   \* the session of each endpoint
  EndpointOf   \* the endpoint that accepts each stream

ASSUME TelemetryAssumption ==
  /\ SessionOf \in [Endpoints -> Sessions] /\ EndpointOf \in [Streams -> Endpoints]
  /\ Sessions \cap Endpoints = {}

VARIABLES
  status,      \* monitorState: SessionSnapshot.Status and EndpointSnapshot.Status
  call,        \* how far the report about each session or endpoint has come
  snap,        \* the snapshot a report has taken
  last,        \* otelPublisher.lastSnapshot
  startedAt,   \* keys of sessionStartedAt
  pendingAt,   \* keys of endpointPendingAt
  overlapped,  \* history: the reports since the last quiet moment overlapped
  spc,         \* control state of each stream
  count,       \* Proxy.count
  readCount,   \* the value of count that the accept loop read last
  announced,   \* ConnID of a stream's accepted event
  cid,         \* ConnID of its other events
  openAt       \* keys of streamOpenAt

monVars == <<status, call, snap, last, startedAt, pendingAt, overlapped>>
streamVars == <<spc, count, readCount, announced, cid, openAt>>
vars == <<monVars, streamVars>>

Reporters == Sessions \cup Endpoints
Siblings(e) == {f \in Endpoints : SessionOf[f] = SessionOf[e]}
EndpointsOf(s) == {e \in Endpoints : SessionOf[e] = s}
NoStatus == [t \in Reporters |-> "none"]

Init ==
  /\ status = NoStatus /\ last = NoStatus /\ snap = [t \in Reporters |-> NoStatus]
  /\ call = [t \in Reporters |-> "idle"]
  /\ startedAt = {} /\ pendingAt = {} /\ overlapped = FALSE
  /\ spc = [x \in Streams |-> "none"]
  /\ count = [e \in Endpoints |-> 0] /\ readCount = [e \in Endpoints |-> 0]
  /\ announced = [x \in Streams |-> 0] /\ cid = [x \in Streams |-> 0]
  /\ openAt = {}

-----------------------------------------------------------------------------
(* A report: the monitor first.                                            *)

Idle(t) == call[t] = "idle"

\* Of two steps that follow, first is the one that comes before the other.
Report(t, new, first) ==
  /\ Idle(t)
  /\ status' = new
  /\ call' = [call EXCEPT ![t] = first]
  /\ overlapped' = (\E u \in Reporters \ {t} : ~Idle(u))
  /\ UNCHANGED <<snap, last, startedAt, pendingAt, streamVars>>

To(t, st) == [status EXCEPT ![t] = st]

MarkPending(s) == status[s] = "none" /\ Report(s, To(s, "pending"), "tell")
MarkConnected(s) == status[s] = "pending" /\ Report(s, To(s, "connected"), "snapThenTell")
MarkFailed(s) == status[s] = "pending" /\ Report(s, To(s, "failed"), "snapThenTell")

\* The handler's error group has ended: every proxy was closed, or one could
\* not be created and the others were dropped.  What is still pending or
\* active is closed in the same critical section.
Unbound(s) ==
  /\ \A e \in EndpointsOf(s) : Idle(e)
  /\ \/ \A e \in EndpointsOf(s) : status[e] = "closed"
     \/ \E e \in EndpointsOf(s) : status[e] = "failed"

SweepNothing(s) == To(s, "disconnected")
Sweep(s) ==
  [t \in Reporters |->
     IF t = s THEN "disconnected"
     ELSE IF t \in EndpointsOf(s) /\ status[t] \in {"active", "pending"} THEN "closed"
     ELSE status[t]]

MarkDisconnected(s) ==
  status[s] = "connected" /\ Unbound(s) /\ Report(s, Sweep(s), "tell")

\* NewProxy for one remote after the other once the session is connected.
EndpointPending(e) ==
  /\ status[e] = "none"
  /\ status[SessionOf[e]] = "connected" /\ Idle(SessionOf[e])
  /\ \A f \in Siblings(e) : Idle(f) /\ status[f] \in {"none", "active"}
  /\ Report(e, To(e, "pending"), "tell")

EndpointActive(e) == status[e] = "pending" /\ Report(e, To(e, "active"), "tell")
EndpointFailed(e) == status[e] = "pending" /\ Report(e, To(e, "failed"), "tell")

\* Run, once all were created, and its deferred event.
Running(e) ==
  /\ status[e] = "active" /\ Idle(e)
  /\ \A f \in Siblings(e) : \/ status[f] = "active" /\ Idle(f)
                            \/ status[f] = "closed"

EndpointClosed(e) == Running(e) /\ Report(e, To(e, "closed"), "tell")

-----------------------------------------------------------------------------
(* Then the publisher.                                                     *)

\* onSessionStatus and onEndpointStatus.  Their call is about the status just
\* set, which nobody else changes before the call returns.
StartedNeverForgotten(t) ==
  IF t \in Sessions /\ status[t] = "pending" THEN startedAt \cup {t} ELSE startedAt
StartedAfter(t) ==
  IF t \in Sessions /\ status[t] = "pending" THEN startedAt \cup {t}
  ELSE IF status[t] = "disconnected" THEN startedAt \ {t} ELSE startedAt

PendingAfter(t) ==
  IF t \in Endpoints /\ status[t] = "pending" THEN pendingAt \cup {t}
  ELSE IF status[t] = "closed" THEN pendingAt \ {t} ELSE pendingAt

Tell(t) ==
  /\ call[t] \in {"tell", "tellThenPublish"}
  /\ startedAt' = StartedAfter(t) /\ pendingAt' = PendingAfter(t)
  /\ call' = [call EXCEPT ![t] = IF @ = "tell" THEN "snap" ELSE "publish"]
  /\ UNCHANGED <<status, snap, last, overlapped, streamVars>>

TakeSnapshot(t) ==
  /\ call[t] \in {"snap", "snapThenTell"}
  /\ snap' = [snap EXCEPT ![t] = status]
  /\ call' = [call EXCEPT ![t] = IF @ = "snap" THEN "publish" ELSE "tellThenPublish"]
  /\ UNCHANGED <<status, last, startedAt, pendingAt, overlapped, streamVars>>

\* updateSnapshot: the call returns.
UpdateSnapshot(t) ==
  /\ call[t] = "publish"
  /\ last' = snap[t]
  /\ call' = [call EXCEPT ![t] = "idle"] /\ snap' = [snap EXCEPT ![t] = NoStatus]
  /\ UNCHANGED <<status, startedAt, pendingAt, overlapped, streamVars>>

\* What the gauges show: the counters of a snapshot.
Counters(sn) ==
  [sessions |-> [st \in {"pending", "connected", "failed", "disconnected"} |->
                   Cardinality({s \in Sessions : sn[s] = st})],
   endpoints |-> [st \in {"pending", "active", "failed", "closed"} |->
                   Cardinality({e \in Endpoints : sn[e] = st})]]

-----------------------------------------------------------------------------
(* The streams of a proxy.                                                 *)

\* The accept loop reads count without the lock: it may see any value since
\* the one it read before.
Announce(e) == (readCount[e] + 1) .. (count[e] + 1)

Accept(x) ==
  LET e == EndpointOf[x] IN
  /\ spc[x] = "none" /\ Running(e)
  /\ \E n \in Announce(e) :
       /\ announced' = [announced EXCEPT ![x] = n]
       /\ readCount' = [readCount EXCEPT ![e] = n - 1]
  /\ spc' = [spc EXCEPT ![x] = "accepted"]
  /\ UNCHANGED <<monVars, count, cid, openAt>>

\* pipeRemote counts the stream under the lock ...
NumberUnlocked(x) ==
  LET e == EndpointOf[x] IN
  /\ spc[x] = "accepted"
  /\ \E n \in {readCount[e] + 1, count[e] + 1} :
       /\ count' = [count EXCEPT ![e] = n] /\ cid' = [cid EXCEPT ![x] = n]
  /\ spc' = [spc EXCEPT ![x] = "numbered"]
  /\ UNCHANGED <<monVars, readCount, announced, openAt>>

Number(x) ==
  LET e == EndpointOf[x] IN
  /\ spc[x] = "accepted"
  /\ count' = [count EXCEPT ![e] = @ + 1] /\ cid' = [cid EXCEPT ![x] = count[e] + 1]
  /\ spc' = [spc EXCEPT ![x] = "numbered"]
  /\ UNCHANGED <<monVars, readCount, announced, openAt>>

Key(x) == <<EndpointOf[x], cid[x]>>

\* ... and reports it open, then closed or failed.
StreamOpen(x) ==
  /\ spc[x] = "numbered" /\ spc' = [spc EXCEPT ![x] = "open"]
  /\ openAt' = openAt \cup {Key(x)}
  /\ UNCHANGED <<monVars, count, readCount, announced, cid>>

StreamClosed(x) ==
  /\ spc[x] = "open" /\ spc' = [spc EXCEPT ![x] = "closed"]
  /\ openAt' = openAt \ {Key(x)}
  /\ UNCHANGED <<monVars, count, readCount, announced, cid>>

StreamError(x) ==
  /\ spc[x] = "open" /\ spc' = [spc EXCEPT ![x] = "error"]
  /\ UNCHANGED <<monVars, count, readCount, announced, cid, openAt>>

-----------------------------------------------------------------------------
Next ==
  \/ \E s \in Sessions : \/ MarkPending(s) \/ MarkConnected(s) \/ MarkFailed(s)
                         \/ MarkDisconnected(s)
  \/ \E e \in Endpoints : \/ EndpointPending(e) \/ EndpointActive(e)
                          \/ EndpointFailed(e) \/ EndpointClosed(e)
  \/ \E t \in Reporters : Tell(t) \/ TakeSnapshot(t) \/ UpdateSnapshot(t)
  \/ \E x \in Streams : \/ Accept(x) \/ Number(x) \/ StreamOpen(x)
                        \/ StreamClosed(x) \/ StreamError(x)

Spec == Init /\ [][Next]_vars

-----------------------------------------------------------------------------
(* Properties                                                              *)

SessionStatuses == {"none", "pending", "connected", "failed", "disconnected"}
EndpointStatuses == {"none", "pending", "active", "failed", "closed"}
Statuses == SessionStatuses \cup EndpointStatuses
Snapshots == [Reporters -> Statuses]

MonType ==
  /\ status \in Snapshots /\ last \in Snapshots /\ snap \in [Reporters -> Snapshots]
  /\ call \in [Reporters -> {"idle", "tell", "snapThenTell", "snap", "tellThenPublish",
                             "publish"}]
  /\ startedAt \subseteq Sessions /\ pendingAt \subseteq Endpoints
  /\ overlapped \in BOOLEAN

StreamType ==
  /\ spc \in [Streams -> {"none", "accepted", "numbered", "open", "closed", "error"}]
  /\ count \in [Endpoints -> Nat] /\ readCount \in [Endpoints -> Nat]
  /\ announced \in [Streams -> Nat] /\ cid \in [Streams -> Nat]
  /\ openAt \subseteq Endpoints \X Nat

TypeOK == MonType /\ StreamType

\* A state the sessions were in together: no endpoint of a session that is
\* disconnected is pending or active, and none exists before its session is
\* connected.
ConsistentSnapshot(sn) ==
  \A e \in Endpoints :
    /\ sn[e] # "none" => sn[SessionOf[e]] \in {"connected", "disconnected"}
    /\ sn[SessionOf[e]] = "disconnected" => sn[e] \notin {"pending", "active"}

\* What the gauges show is such a state, in whichever order the reports come;
\* and it is the monitor's, whenever no report is under way and the last ones
\* did not overlap.  (When two overlap the older snapshot may be published
\* last, and stays: monitor_state.go:78-122, 183-289, otel.go:157-161.)
GaugesFollow ==
  /\ ConsistentSnapshot(last)
  /\ (\A t \in Reporters : Idle(t)) /\ ~overlapped => Counters(last) = Counters(status)

\* The publisher has the start times it will be asked for: of every session
\* that is not over and every endpoint that is pending or active, although
\* endpoints report from other goroutines than their session.  And it keeps
\* nothing for good but what failed: the time of a session that is over, or of
\* an endpoint whose session is, is left only when the session failed, or the
\* endpoint or another one of its session did (otel.go:187-207, 231-249).
StartTimesExact ==
  /\ \A s \in Sessions : status[s] \in {"pending", "connected"} /\ call[s] # "tell" =>
       s \in startedAt
  /\ \A e \in Endpoints : status[e] \in {"pending", "active"} /\ call[e] # "tell" =>
       e \in pendingAt
  /\ \A s \in startedAt : Idle(s) => status[s] # "disconnected"
  /\ \A e \in pendingAt : Idle(e) /\ status[SessionOf[e]] = "disconnected" =>
       \E f \in Siblings(e) : status[f] = "failed"

\* A stream's events have a number no other stream of the endpoint has, so the
\* table of open streams has an entry for exactly the streams that are open or
\* failed, however many goroutines count at once.  The number announced when it
\* was accepted, read without the lock, may be another stream's, but is never
\* above its own (tunnel_in_proxy.go:177-203, 248-249, otel.go:268-287).
StreamNumbers ==
  /\ openAt = {Key(x) : x \in {y \in Streams : spc[y] \in {"open", "error"}}}
  /\ \A x \in Streams : cid[x] # 0 => announced[x] \in 1 .. cid[x]
=============================================================================
