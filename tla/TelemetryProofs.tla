--------------------------- MODULE TelemetryProofs --------------------------
(***************************************************************************)
(* Proofs about Telemetry, for any sessions, endpoints and streams.        *)
(***************************************************************************)
EXTENDS Telemetry, TLAPS

\* The types that the arguments need.
MonFun ==
  /\ status \in [Reporters -> Statuses] /\ snap \in [Reporters -> [Reporters -> Statuses]]
  /\ last \in [Reporters -> Statuses]
  /\ call \in [Reporters -> {"idle", "tell", "snapThenTell", "snap", "tellThenPublish",
                             "publish"}]
  /\ startedAt \subseteq Sessions /\ pendingAt \subseteq Endpoints

\* The monitor's state is consistent, and so is every copy of it.
Consistent ==
  /\ ConsistentSnapshot(status) /\ ConsistentSnapshot(last)
  /\ \A t \in Reporters : ConsistentSnapshot(snap[t])

\* Without overlap one report is under way at most, and what it has taken is
\* what the monitor holds.
Quiet ==
  ~overlapped =>
    /\ \A t, u \in Reporters : ~Idle(t) /\ ~Idle(u) => t = u
    /\ \A t \in Reporters : call[t] \in {"publish", "tellThenPublish"} => snap[t] = status
    /\ (\A t \in Reporters : Idle(t)) => last = status

\* What is in the tables at each stage of a report.
Started ==
  \A s \in Sessions :
    /\ call[s] = "tell" => status[s] \in {"pending", "disconnected"}
    /\ status[s] \in {"pending", "connected"} /\ call[s] # "tell" => s \in startedAt
    /\ status[s] = "disconnected" /\ call[s] # "tell" => s \notin startedAt

Pending ==
  \A e \in Endpoints :
    /\ status[e] = "active" => e \in pendingAt
    /\ status[e] = "pending" /\ call[e] # "tell" => e \in pendingAt
    /\ status[e] = "closed" /\ call[e] # "tell" /\ status[SessionOf[e]] # "disconnected"
         => e \notin pendingAt
    /\ status[SessionOf[e]] = "disconnected" /\ e \in pendingAt =>
         \E f \in Siblings(e) : status[f] = "failed"

\* Streams of an endpoint that have been counted have numbers of their own.
Numbers ==
  /\ spc \in [Streams -> {"none", "accepted", "numbered", "open", "closed", "error"}]
  /\ count \in [Endpoints -> Nat] /\ readCount \in [Endpoints -> Nat]
  /\ announced \in [Streams -> Nat] /\ cid \in [Streams -> Nat]
  /\ \A e \in Endpoints : readCount[e] <= count[e]
  /\ \A x \in Streams :
       /\ cid[x] = 0 <=> spc[x] \in {"none", "accepted"}
       /\ cid[x] <= count[EndpointOf[x]]
       /\ spc[x] = "accepted" => announced[x] \in 1 .. (count[EndpointOf[x]] + 1)
       /\ cid[x] # 0 => announced[x] \in 1 .. cid[x]
  /\ \A x, y \in Streams : x # y /\ EndpointOf[x] = EndpointOf[y] /\ cid[x] # 0 => cid[x] # cid[y]
  /\ openAt = {Key(x) : x \in {y \in Streams : spc[y] \in {"open", "error"}}}

Overlap == overlapped \in BOOLEAN

IInv == MonFun /\ Overlap /\ Consistent /\ Quiet /\ Started /\ Pending /\ Numbers

-----------------------------------------------------------------------------
\* Every report keeps the types.
LEMMA MonFunStep ==
  ASSUME MonFun, [Next]_vars
  PROVE  MonFun'
<1> USE TelemetryAssumption DEF MonFun, Reporters, Statuses, SessionStatuses, EndpointStatuses
<1>1. ASSUME NEW s \in Sessions, MarkPending(s) PROVE MonFun'
  BY <1>1 DEF MarkPending, Report, To, Idle, streamVars
<1>2. ASSUME NEW s \in Sessions, MarkConnected(s) PROVE MonFun'
  BY <1>2 DEF MarkConnected, Report, To, Idle, streamVars
<1>3. ASSUME NEW s \in Sessions, MarkFailed(s) PROVE MonFun'
  BY <1>3 DEF MarkFailed, Report, To, Idle, streamVars
<1>4. ASSUME NEW s \in Sessions, MarkDisconnected(s) PROVE MonFun'
  BY <1>4 DEF MarkDisconnected, Report, Sweep, Unbound, EndpointsOf, Idle, streamVars
<1>5. ASSUME NEW e \in Endpoints, EndpointPending(e) PROVE MonFun'
  BY <1>5 DEF EndpointPending, Report, To, Siblings, Idle, streamVars
<1>6. ASSUME NEW e \in Endpoints, EndpointActive(e) PROVE MonFun'
  BY <1>6 DEF EndpointActive, Report, To, Idle, streamVars
<1>7. ASSUME NEW e \in Endpoints, EndpointFailed(e) PROVE MonFun'
  BY <1>7 DEF EndpointFailed, Report, To, Idle, streamVars
<1>8. ASSUME NEW e \in Endpoints, EndpointClosed(e) PROVE MonFun'
  BY <1>8 DEF EndpointClosed, Report, To, Running, Siblings, Idle, streamVars
<1>9. ASSUME NEW t \in Reporters, Tell(t) PROVE MonFun'
  BY <1>9 DEF Tell, StartedAfter, PendingAfter, streamVars
<1>10. ASSUME NEW t \in Reporters, TakeSnapshot(t) PROVE MonFun'
  BY <1>10 DEF TakeSnapshot, streamVars
<1>11. ASSUME NEW t \in Reporters, UpdateSnapshot(t) PROVE MonFun'
  BY <1>11 DEF UpdateSnapshot, NoStatus, streamVars
<1>12. CASE UNCHANGED monVars
  BY <1>12 DEF monVars
<1>13. CASE UNCHANGED vars
  BY <1>13 DEF vars, monVars, streamVars
<1>14. QED
  BY <1>1, <1>2, <1>3, <1>4, <1>5, <1>6, <1>7, <1>8, <1>9, <1>10, <1>11, <1>12, <1>13 DEF Next, Accept, Number, StreamOpen, StreamClosed, StreamError

\* Whether reports overlap is either so or not.
LEMMA OverlapStep ==
  ASSUME Overlap, [Next]_vars
  PROVE  Overlap'
<1> USE DEF Overlap
<1>1. ASSUME NEW s \in Sessions, MarkPending(s) PROVE Overlap'
  BY <1>1, Zenon DEF MarkPending, Report
<1>2. ASSUME NEW s \in Sessions, MarkConnected(s) PROVE Overlap'
  BY <1>2, Zenon DEF MarkConnected, Report
<1>3. ASSUME NEW s \in Sessions, MarkFailed(s) PROVE Overlap'
  BY <1>3, Zenon DEF MarkFailed, Report
<1>4. ASSUME NEW s \in Sessions, MarkDisconnected(s) PROVE Overlap'
  BY <1>4, Zenon DEF MarkDisconnected, Report
<1>5. ASSUME NEW e \in Endpoints, EndpointPending(e) PROVE Overlap'
  BY <1>5, Zenon DEF EndpointPending, Report
<1>6. ASSUME NEW e \in Endpoints, EndpointActive(e) PROVE Overlap'
  BY <1>6, Zenon DEF EndpointActive, Report
<1>7. ASSUME NEW e \in Endpoints, EndpointFailed(e) PROVE Overlap'
  BY <1>7, Zenon DEF EndpointFailed, Report
<1>8. ASSUME NEW e \in Endpoints, EndpointClosed(e) PROVE Overlap'
  BY <1>8, Zenon DEF EndpointClosed, Report
<1>9. ASSUME NEW t \in Reporters, Tell(t) PROVE Overlap'
  BY <1>9 DEF Tell, StartedAfter, PendingAfter, streamVars
<1>10. ASSUME NEW t \in Reporters, TakeSnapshot(t) PROVE Overlap'
  BY <1>10 DEF TakeSnapshot, streamVars
<1>11. ASSUME NEW t \in Reporters, UpdateSnapshot(t) PROVE Overlap'
  BY <1>11 DEF UpdateSnapshot, NoStatus, streamVars, Reporters
<1>12. CASE UNCHANGED monVars
  BY <1>12 DEF monVars
<1>13. CASE UNCHANGED vars
  BY <1>13 DEF vars, monVars, streamVars
<1>14. QED
  BY <1>1, <1>2, <1>3, <1>4, <1>5, <1>6, <1>7, <1>8, <1>9, <1>10, <1>11, <1>12, <1>13 DEF Next, Accept, Number, StreamOpen, StreamClosed, StreamError

\* An endpoint is reported while its session is connected, and swept with it.
LEMMA ConsistentStep ==
  ASSUME MonFun, Consistent, [Next]_vars
  PROVE  Consistent'
<1> USE TelemetryAssumption DEF MonFun, Reporters, Statuses, SessionStatuses, EndpointStatuses, Consistent, ConsistentSnapshot
<1>1. ASSUME NEW s \in Sessions, MarkPending(s) PROVE Consistent'
  BY <1>1 DEF MarkPending, Report, To, Idle, streamVars
<1>2. ASSUME NEW s \in Sessions, MarkConnected(s) PROVE Consistent'
  BY <1>2 DEF MarkConnected, Report, To, Idle, streamVars
<1>3. ASSUME NEW s \in Sessions, MarkFailed(s) PROVE Consistent'
  BY <1>3 DEF MarkFailed, Report, To, Idle, streamVars
<1>4. ASSUME NEW s \in Sessions, MarkDisconnected(s) PROVE Consistent'
  BY <1>4 DEF MarkDisconnected, Report, Sweep, Unbound, EndpointsOf, Idle, streamVars
<1>5. ASSUME NEW e \in Endpoints, EndpointPending(e) PROVE Consistent'
  BY <1>5 DEF EndpointPending, Report, To, Siblings, Idle, streamVars
<1>6. ASSUME NEW e \in Endpoints, EndpointActive(e) PROVE Consistent'
  BY <1>6 DEF EndpointActive, Report, To, Idle, streamVars
<1>7. ASSUME NEW e \in Endpoints, EndpointFailed(e) PROVE Consistent'
  BY <1>7 DEF EndpointFailed, Report, To, Idle, streamVars
<1>8. ASSUME NEW e \in Endpoints, EndpointClosed(e) PROVE Consistent'
  BY <1>8 DEF EndpointClosed, Report, To, Running, Siblings, Idle, streamVars
<1>9. ASSUME NEW t \in Reporters, Tell(t) PROVE Consistent'
  BY <1>9 DEF Tell, StartedAfter, PendingAfter, streamVars
<1>10. ASSUME NEW t \in Reporters, TakeSnapshot(t) PROVE Consistent'
  BY <1>10 DEF TakeSnapshot, streamVars
<1>11. ASSUME NEW t \in Reporters, UpdateSnapshot(t) PROVE Consistent'
  BY <1>11 DEF UpdateSnapshot, NoStatus, streamVars
<1>12. CASE UNCHANGED monVars
  BY <1>12 DEF monVars
<1>13. CASE UNCHANGED vars
  BY <1>13 DEF vars, monVars, streamVars
<1>14. QED
  BY <1>1, <1>2, <1>3, <1>4, <1>5, <1>6, <1>7, <1>8, <1>9, <1>10, <1>11, <1>12, <1>13 DEF Next, Accept, Number, StreamOpen, StreamClosed, StreamError

\* A report that meets no other publishes what it set.
LEMMA QuietStep ==
  ASSUME MonFun, Quiet, [Next]_vars
  PROVE  Quiet'
<1> USE TelemetryAssumption DEF MonFun, Reporters, Statuses, SessionStatuses, EndpointStatuses, Quiet, Idle
<1>1. ASSUME NEW s \in Sessions, MarkPending(s) PROVE Quiet'
  BY <1>1 DEF MarkPending, Report, To, streamVars
<1>2. ASSUME NEW s \in Sessions, MarkConnected(s) PROVE Quiet'
  BY <1>2 DEF MarkConnected, Report, To, streamVars
<1>3. ASSUME NEW s \in Sessions, MarkFailed(s) PROVE Quiet'
  BY <1>3 DEF MarkFailed, Report, To, streamVars
<1>4. ASSUME NEW s \in Sessions, MarkDisconnected(s) PROVE Quiet'
  BY <1>4 DEF MarkDisconnected, Report, Sweep, Unbound, EndpointsOf, streamVars
<1>5. ASSUME NEW e \in Endpoints, EndpointPending(e) PROVE Quiet'
  BY <1>5 DEF EndpointPending, Report, To, Siblings, streamVars
<1>6. ASSUME NEW e \in Endpoints, EndpointActive(e) PROVE Quiet'
  BY <1>6 DEF EndpointActive, Report, To, streamVars
<1>7. ASSUME NEW e \in Endpoints, EndpointFailed(e) PROVE Quiet'
  BY <1>7 DEF EndpointFailed, Report, To, streamVars
<1>8. ASSUME NEW e \in Endpoints, EndpointClosed(e) PROVE Quiet'
  BY <1>8 DEF EndpointClosed, Report, To, Running, Siblings, streamVars
<1>9. ASSUME NEW t \in Reporters, Tell(t) PROVE Quiet'
  BY <1>9 DEF Tell, StartedAfter, PendingAfter, streamVars
<1>10. ASSUME NEW t \in Reporters, TakeSnapshot(t) PROVE Quiet'
  BY <1>10 DEF TakeSnapshot, streamVars
<1>11. ASSUME NEW t \in Reporters, UpdateSnapshot(t) PROVE Quiet'
  BY <1>11 DEF UpdateSnapshot, NoStatus, streamVars
<1>12. CASE UNCHANGED monVars
  BY <1>12 DEF monVars
<1>13. CASE UNCHANGED vars
  BY <1>13 DEF vars, monVars, streamVars
<1>14. QED
  BY <1>1, <1>2, <1>3, <1>4, <1>5, <1>6, <1>7, <1>8, <1>9, <1>10, <1>11, <1>12, <1>13 DEF Next, Accept, Number, StreamOpen, StreamClosed, StreamError

\* A session is entered when it is pending and removed when it is disconnected.
LEMMA StartedStep ==
  ASSUME MonFun, Started, [Next]_vars
  PROVE  Started'
<1> USE TelemetryAssumption DEF MonFun, Reporters, Statuses, SessionStatuses, EndpointStatuses, Started
<1>1. ASSUME NEW s \in Sessions, MarkPending(s) PROVE Started'
  BY <1>1 DEF MarkPending, Report, To, Idle, streamVars
<1>2. ASSUME NEW s \in Sessions, MarkConnected(s) PROVE Started'
  BY <1>2 DEF MarkConnected, Report, To, Idle, streamVars
<1>3. ASSUME NEW s \in Sessions, MarkFailed(s) PROVE Started'
  BY <1>3 DEF MarkFailed, Report, To, Idle, streamVars
<1>4. ASSUME NEW s \in Sessions, MarkDisconnected(s) PROVE Started'
  BY <1>4 DEF MarkDisconnected, Report, Sweep, Unbound, EndpointsOf, Idle, streamVars
<1>5. ASSUME NEW e \in Endpoints, EndpointPending(e) PROVE Started'
  BY <1>5 DEF EndpointPending, Report, To, Siblings, Idle, streamVars
<1>6. ASSUME NEW e \in Endpoints, EndpointActive(e) PROVE Started'
  BY <1>6 DEF EndpointActive, Report, To, Idle, streamVars
<1>7. ASSUME NEW e \in Endpoints, EndpointFailed(e) PROVE Started'
  BY <1>7 DEF EndpointFailed, Report, To, Idle, streamVars
<1>8. ASSUME NEW e \in Endpoints, EndpointClosed(e) PROVE Started'
  BY <1>8 DEF EndpointClosed, Report, To, Running, Siblings, Idle, streamVars
<1>9. ASSUME NEW t \in Reporters, Tell(t) PROVE Started'
  BY <1>9 DEF Tell, StartedAfter, PendingAfter, streamVars
<1>10. ASSUME NEW t \in Reporters, TakeSnapshot(t) PROVE Started'
  BY <1>10 DEF TakeSnapshot, streamVars
<1>11. ASSUME NEW t \in Reporters, UpdateSnapshot(t) PROVE Started'
  BY <1>11 DEF UpdateSnapshot, NoStatus, streamVars
<1>12. CASE UNCHANGED monVars
  BY <1>12 DEF monVars
<1>13. CASE UNCHANGED vars
  BY <1>13 DEF vars, monVars, streamVars
<1>14. QED
  BY <1>1, <1>2, <1>3, <1>4, <1>5, <1>6, <1>7, <1>8, <1>9, <1>10, <1>11, <1>12, <1>13 DEF Next, Accept, Number, StreamOpen, StreamClosed, StreamError

\* An endpoint is entered when it is pending and removed when it is closed.
LEMMA PendingStep ==
  ASSUME MonFun, Consistent, Pending, [Next]_vars
  PROVE  Pending'
<1> USE TelemetryAssumption DEF MonFun, Reporters, Statuses, SessionStatuses, EndpointStatuses, Consistent, ConsistentSnapshot, Pending, Siblings
<1>1. ASSUME NEW s \in Sessions, MarkPending(s) PROVE Pending'
  BY <1>1 DEF MarkPending, Report, To, Idle, streamVars
<1>2. ASSUME NEW s \in Sessions, MarkConnected(s) PROVE Pending'
  BY <1>2 DEF MarkConnected, Report, To, Idle, streamVars
<1>3. ASSUME NEW s \in Sessions, MarkFailed(s) PROVE Pending'
  BY <1>3 DEF MarkFailed, Report, To, Idle, streamVars
<1>4. ASSUME NEW s \in Sessions, MarkDisconnected(s) PROVE Pending'
  BY <1>4 DEF MarkDisconnected, Report, Sweep, Unbound, EndpointsOf, Idle, streamVars
<1>5. ASSUME NEW e \in Endpoints, EndpointPending(e) PROVE Pending'
  BY <1>5 DEF EndpointPending, Report, To, Idle, streamVars
<1>6. ASSUME NEW e \in Endpoints, EndpointActive(e) PROVE Pending'
  BY <1>6 DEF EndpointActive, Report, To, Idle, streamVars
<1>7. ASSUME NEW e \in Endpoints, EndpointFailed(e) PROVE Pending'
  BY <1>7 DEF EndpointFailed, Report, To, Idle, streamVars
<1>8. ASSUME NEW e \in Endpoints, EndpointClosed(e) PROVE Pending'
  BY <1>8 DEF EndpointClosed, Report, To, Running, Idle, streamVars
<1>9. ASSUME NEW t \in Reporters, Tell(t) PROVE Pending'
  BY <1>9 DEF Tell, StartedAfter, PendingAfter, streamVars
<1>10. ASSUME NEW t \in Reporters, TakeSnapshot(t) PROVE Pending'
  BY <1>10 DEF TakeSnapshot, streamVars
<1>11. ASSUME NEW t \in Reporters, UpdateSnapshot(t) PROVE Pending'
  BY <1>11 DEF UpdateSnapshot, NoStatus, streamVars
<1>12. CASE UNCHANGED monVars
  BY <1>12 DEF monVars
<1>13. CASE UNCHANGED vars
  BY <1>13 DEF vars, monVars, streamVars
<1>14. QED
  BY <1>1, <1>2, <1>3, <1>4, <1>5, <1>6, <1>7, <1>8, <1>9, <1>10, <1>11, <1>12, <1>13 DEF Next, Accept, Number, StreamOpen, StreamClosed, StreamError

\* The count is raised under the lock.
LEMMA NumbersStep ==
  ASSUME Numbers, [Next]_vars
  PROVE  Numbers'
<1> USE TelemetryAssumption DEF Numbers, Key
<1>1. CASE UNCHANGED streamVars
  BY <1>1 DEF streamVars
<1>2. ASSUME NEW x \in Streams, Accept(x) PROVE Numbers'
  BY <1>2 DEF Accept, Running, Announce, monVars, Siblings, Idle
<1>3. ASSUME NEW x \in Streams, Number(x) PROVE Numbers'
  BY <1>3 DEF Number, monVars
<1>4. ASSUME NEW x \in Streams, StreamOpen(x) PROVE Numbers'
  BY <1>4 DEF StreamOpen, monVars
<1>5. ASSUME NEW x \in Streams, StreamClosed(x) PROVE Numbers'
  BY <1>5 DEF StreamClosed, monVars
<1>6. ASSUME NEW x \in Streams, StreamError(x) PROVE Numbers'
  BY <1>6 DEF StreamError, monVars
<1>7. CASE UNCHANGED vars
  BY <1>7 DEF vars, monVars, streamVars
<1>8. QED
  BY <1>1, <1>2, <1>3, <1>4, <1>5, <1>6, <1>7 DEF Next, MarkPending, MarkConnected, MarkFailed, MarkDisconnected, EndpointPending, EndpointActive, EndpointFailed, EndpointClosed, Tell, TakeSnapshot, UpdateSnapshot, Report

-----------------------------------------------------------------------------
\* The inductive invariant holds in every state.
LEMMA Invariance == Spec => []IInv
<1>1. Init => IInv
  <2> SUFFICES ASSUME Init PROVE IInv
    OBVIOUS
  <2> USE TelemetryAssumption DEF Init, Reporters, NoStatus
  <2>1. MonFun
    BY DEF MonFun, Statuses, SessionStatuses, EndpointStatuses
  <2>2. Consistent /\ Started /\ Pending
    BY DEF Consistent, ConsistentSnapshot, Started, Pending
  <2>3. Quiet
    BY DEF Quiet, Idle
  <2>4. Numbers
    BY DEF Numbers, Key
  <2>5. Overlap
    BY Zenon DEF Overlap
  <2>6. QED
    BY <2>1, <2>2, <2>3, <2>4, <2>5 DEF IInv
<1>2. IInv /\ [Next]_vars => IInv'
  BY MonFunStep, OverlapStep, ConsistentStep, QuietStep, StartedStep, PendingStep, NumbersStep DEF IInv
<1>3. QED
  BY <1>1, <1>2, PTL DEF Spec

\* Every state of the specification has the types of TypeOK.
THEOREM TypeCorrect == Spec => []TypeOK
<1>1. IInv => TypeOK
  <2> SUFFICES ASSUME IInv PROVE TypeOK
    OBVIOUS
  <2>1. overlapped \in BOOLEAN
    BY DEF IInv, Overlap
  <2>2. openAt \subseteq Endpoints \X Nat
    BY TelemetryAssumption DEF IInv, Numbers, Key
  <2>3. QED
    BY <2>1, <2>2 DEF IInv, MonFun, Numbers, TypeOK, MonType, StreamType, Snapshots
<1>2. QED
  BY <1>1, Invariance, PTL

\* What the gauges show is a consistent state, and the current one when no
\* report is under way and the last did not overlap (monitor_state.go:224-291).
THEOREM GaugesFollowMonitor == Spec => []GaugesFollow
<1>1. IInv => GaugesFollow
  BY DEF IInv, Consistent, Quiet, GaugesFollow
<1>2. QED
  BY <1>1, Invariance, PTL

\* The tables of start times have what is asked for and keep only what failed
\* (otel.go:187-207, 231-249).
THEOREM TablesAreExact == Spec => []StartTimesExact
<1>1. IInv => StartTimesExact
  BY TelemetryAssumption DEF IInv, MonFun, Started, Pending, StartTimesExact, Idle
<1>2. QED
  BY <1>1, Invariance, PTL

\* The table of open streams is exact, and no stream announces a number above
\* its own (tunnel_in_proxy.go:177-203).
THEOREM NumbersAreUnique == Spec => []StreamNumbers
<1>1. IInv => StreamNumbers
  BY DEF IInv, Numbers, StreamNumbers
<1>2. QED
  BY <1>1, Invariance, PTL
=============================================================================
