---------------------------- MODULE ClientProofs ----------------------------
(***************************************************************************)
(* Proofs about Client, for every number of retries, unlimited included,   *)
(* and every set of remotes.                                               *)
(***************************************************************************)
EXTENDS Client, TLAPS

-----------------------------------------------------------------------------
(* The inductive invariant.                                                *)

\* The back-off counts the retries: it is one ahead while the loop waits (and
\* when it was cancelled there), and it never passes the limit.
Count ==
  /\ lpc = "wait" => attempt = retries + 1
  /\ lpc = "ended" => attempt = retries \/ attempt = retries + 1
  /\ lpc \notin {"wait", "ended"} => attempt = retries
  /\ MaxRetryCount >= 0 => attempt <= MaxRetryCount

\* Outside a handshake and BindSSH the loop holds no connection.
Held == lpc \notin {"handshake", "config", "bound"} => conn \in {"none", "closed"}

\* A listener is open while its proxy runs; only a Run that ended by itself
\* leaves one behind.
Listeners ==
  /\ bpc = "start" => open = {} /\ failed = "none" /\ bres = "running"
  /\ bpc = "serving" => bres = "running"
  /\ bpc # "serving" => running = {}
  /\ failed = "none" /\ bpc # "ended" => open \subseteq running
  /\ bpc = "ended" /\ bres = "nil" => open = {} \/ failed = "swallowed"

\* Wait has returned only when both goroutines have.
Returned == result # "running" => lpc = "ended" /\ bpc = "ended" /\ result = bres

IInv == TypeOK /\ Count /\ Held /\ Listeners /\ Returned

-----------------------------------------------------------------------------
\* A stream's step leaves the client alone.
LEMMA StreamFrame ==
  ASSUME NEW s \in Flows, Stream(s) \/ Peer(s) \/ AcceptStream(s) \/ RunStdio(s)
  PROVE  UNCHANGED <<stopped, lpc, connected, attempt, conn, retries, bpc, bres,
                     open, running, failed, result>>
BY DEF Stream, Peer, GetSSH, GetSSHNil, PipeReturns, CopyEnds, CopyStops,
  AcceptStream, OpenChannel, ChannelFails, LocalEnds, RemoteEnds, WriteFails,
  RunStdio, loopVars, bindVars

\* A step is one of the loop, of the listeners, of the caller or of a stream.
LEMMA Steps ==
  ASSUME [Next]_vars
  PROVE  \/ Loop \/ Answer \/ ConnDies \/ Proxies \/ Close \/ Wait \/ Terminated
         \/ UNCHANGED vars
         \/ \E r \in Remotes : AcceptFails(r) \/ (r \in Stdio /\ StdioReturns(r))
         \/ \E s \in Flows : Stream(s) \/ Peer(s) \/ AcceptStream(s) \/ RunStdio(s)
BY StdioAssumption DEF Next, StdioLoop, Flows

\* So does a step of the listeners or of the caller leave the loop.
LEMMA LoopFrame ==
  ASSUME Proxies \/ Wait \/ Close \/ Terminated \/ UNCHANGED vars
           \/ \E r \in Remotes : AcceptFails(r) \/ StdioReturns(r)
  PROVE  UNCHANGED <<lpc, connected, attempt, conn, retries>>
BY DEF StdioReturns, Proxies, Bind, BindFails, BindRemotesReturns, CloseListener, RunReturns,
  Close, Wait, Terminated, AcceptFails, vars, loopVars

\* And a step of the loop or of the caller leaves the listeners.
LEMMA BindFrame ==
  ASSUME Loop \/ Answer \/ ConnDies \/ Close \/ Wait \/ Terminated
           \/ UNCHANGED vars
  PROVE  UNCHANGED <<bpc, bres, open, running, failed>>
BY DEF Loop, Once, Dial, BindSSHReturns, CloseSSH, GiveUp, Retry, AfterSignal,
  WaitCancelled, Answer, Handshake, SendConfig, ConnDies, ConnEnds, Close, Wait,
  Terminated, vars, bindVars

\* Every step keeps the types of the loop's variables ...
LEMMA LoopTypeStep == LoopType /\ BindType /\ [Next]_vars => LoopType'
<1> SUFFICES ASSUME LoopType, BindType, [Next]_vars PROVE LoopType'
  OBVIOUS
<1>1. CASE Once \/ Dial \/ BindSSHReturns \/ CloseSSH
  BY <1>1 DEF LoopType, Once, Dial, BindSSHReturns, CloseSSH, ConnEnds,
    OnceReturns
<1>2. CASE GiveUp
  <2>1. stopped' \in BOOLEAN
    BY <1>2, Zenon DEF GiveUp
  <2> QED
    BY <1>2, <2>1 DEF LoopType, GiveUp, Counted, CountedRetries
<1>3. CASE Retry \/ AfterSignal \/ WaitCancelled
  BY <1>3 DEF LoopType, Retry, AfterSignal, WaitCancelled, Counted,
    CountedRetries
<1>4. CASE Answer \/ ConnDies
  BY <1>4 DEF LoopType, Answer, Handshake, SendConfig, ConnDies, ConnEnds,
    OnceReturns
<1>5. CASE Wait
  BY <1>5 DEF LoopType, BindType, Wait, loopVars
<1>6. CASE Close
  <2>1. stopped' \in BOOLEAN
    BY <1>6, Zenon DEF Close
  <2> QED
    BY <1>6, <2>1 DEF LoopType, Close, loopVars
<1>7. CASE UNCHANGED <<stopped, lpc, connected, attempt, conn, retries, result>>
  BY <1>7 DEF LoopType
<1>8. Proxies \/ Terminated \/ UNCHANGED vars \/ (\E r \in Remotes : AcceptFails(r) \/ StdioReturns(r))
      => UNCHANGED <<stopped, lpc, connected, attempt, conn, retries, result>>
  BY DEF StdioReturns, Proxies, Bind, BindFails, BindRemotesReturns, CloseListener, RunReturns,
    Terminated, AcceptFails, vars, loopVars
<1> QED
  BY <1>1, <1>2, <1>3, <1>4, <1>5, <1>6, <1>7, <1>8, Steps, StreamFrame DEF Loop

\* ... of BindRemotes ...
LEMMA BindTypeStep == BindType /\ [Next]_vars => BindType'
<1> SUFFICES ASSUME BindType, [Next]_vars PROVE BindType'
  OBVIOUS
<1>1. CASE Proxies
  BY <1>1 DEF BindType, Proxies, Bind, BindFails, BindRemotesReturns,
    CloseListener, RunReturns
<1>2. ASSUME NEW r \in Remotes, AcceptFails(r) \/ StdioReturns(r) PROVE BindType'
  BY <1>2 DEF BindType, AcceptFails, StdioReturns
<1>3. CASE UNCHANGED <<bpc, bres, open, running, failed>>
  BY <1>3 DEF BindType
<1> QED
  BY <1>1, <1>2, <1>3, Steps, BindFrame, StreamFrame

\* ... and of the streams.
LEMMA StreamTypeStep == StreamType /\ [Next]_vars => StreamType'
<1> SUFFICES ASSUME StreamType, [Next]_vars PROVE StreamType'
  OBVIOUS
<1>1. ASSUME ConnEnds PROVE StreamType'
  BY <1>1 DEF StreamType, ConnEnds, Ends
<1>2. ASSUME NEW s \in Flows, AcceptStream(s) \/ GetSSH(s) \/ OpenChannel(s)
                              \/ RunStdio(s)
      PROVE StreamType'
  BY <1>2 DEF StreamType, AcceptStream, GetSSH, OpenChannel, RunStdio, Ends
<1>3. ASSUME NEW s \in Flows, LocalEnds(s) \/ RemoteEnds(s) PROVE StreamType'
  BY <1>3 DEF StreamType, LocalEnds, RemoteEnds, Ends
<1>4. ASSUME NEW s \in Flows, StreamReturns(s) PROVE StreamType'
  BY <1>4 DEF StreamType, StreamReturns, SrcClose, Ends
<1>5. ASSUME NEW s \in Flows, NEW d \in Directions, CopyStops(s, d)
      PROVE StreamType'
  <2>1. copies[s] \ {d} \in SUBSET Directions
    BY DEF StreamType
  <2> QED
    BY <1>5, <2>1 DEF StreamType, CopyStops, SrcClose, Ends
<1>6. ASSUME NEW s \in Flows, Stream(s) \/ Peer(s) \/ AcceptStream(s) \/ RunStdio(s)
      PROVE StreamType'
  <2>1. "up" \in Directions
    BY DEF Directions
  <2> QED
    BY <2>1, <1>2, <1>3, <1>4, <1>5, <1>6 DEF Stream, Peer, GetSSHNil, PipeReturns,
      ChannelFails, CopyEnds, WriteFails
<1>7. CASE UNCHANGED strVars
  BY <1>7 DEF StreamType, strVars
<1>8. Once \/ Dial \/ BindSSHReturns \/ GiveUp \/ Retry \/ AfterSignal
        \/ WaitCancelled \/ Answer \/ Proxies \/ Close \/ Wait \/ Terminated
        \/ UNCHANGED vars
        \/ (\E r \in Remotes : AcceptFails(r) \/ StdioReturns(r))
      => UNCHANGED strVars
  BY DEF StdioReturns, Once, Dial, BindSSHReturns, GiveUp, Retry, AfterSignal, WaitCancelled,
    Answer, Handshake, SendConfig, Proxies, Bind, BindFails, BindRemotesReturns,
    CloseListener, RunReturns, Close, Wait, Terminated, AcceptFails, vars
<1> QED
  BY <1>1, <1>6, <1>7, <1>8, Steps DEF Loop, CloseSSH, ConnDies

LEMMA TypeStep == TypeOK /\ [Next]_vars => TypeOK'
BY LoopTypeStep, BindTypeStep, StreamTypeStep DEF TypeOK

\* The counter of the back-off and the retries made stay in step.
LEMMA CountStep == TypeOK /\ Count /\ [Next]_vars => Count'
<1> SUFFICES ASSUME TypeOK, Count, [Next]_vars PROVE Count'
  OBVIOUS
<1>1. CASE GiveUp \/ Retry
  BY <1>1, RetryAssumption DEF TypeOK, LoopType, Count, GiveUp, Retry, LimitPassed, Counted,
    CountedRetries
<1>2. CASE AfterSignal \/ WaitCancelled
  <2>1. CASE AfterSignal
    BY <2>1 DEF TypeOK, LoopType, Count, AfterSignal
  <2>2. CASE WaitCancelled
    BY <2>2 DEF TypeOK, LoopType, Count, WaitCancelled
  <2> QED
    BY <1>2, <2>1, <2>2
<1>3. CASE Once \/ Dial \/ BindSSHReturns \/ CloseSSH
  BY <1>3 DEF Count, Once, Dial, BindSSHReturns, CloseSSH, ConnEnds, OnceReturns
<1>4. CASE Answer \/ ConnDies
  BY <1>4 DEF Count, Answer, Handshake, SendConfig, ConnDies, ConnEnds,
    OnceReturns
<1>5. CASE UNCHANGED <<lpc, attempt, retries>>
  BY <1>5 DEF Count
<1> QED
  BY <1>1, <1>2, <1>3, <1>4, <1>5, Steps, LoopFrame, StreamFrame DEF Loop

\* The loop lets go of its connection before it does anything else.
LEMMA HeldStep == TypeOK /\ Held /\ [Next]_vars => Held'
<1> SUFFICES ASSUME TypeOK, Held, [Next]_vars PROVE Held'
  OBVIOUS
<1>1. CASE Loop
  BY <1>1 DEF TypeOK, LoopType, Held, Loop, Once, Dial, BindSSHReturns, CloseSSH,
    ConnEnds, GiveUp, Retry, AfterSignal, WaitCancelled, OnceReturns
<1>2. CASE Answer \/ ConnDies
  BY <1>2 DEF TypeOK, LoopType, Held, Answer, Handshake, SendConfig, ConnDies,
    ConnEnds, OnceReturns
<1>3. CASE UNCHANGED <<lpc, conn>>
  BY <1>3 DEF Held
<1> QED
  BY <1>1, <1>2, <1>3, Steps, LoopFrame, StreamFrame

\* BindRemotes accounts for its listeners.
LEMMA ListenersStep == TypeOK /\ Listeners /\ [Next]_vars => Listeners'
<1> SUFFICES ASSUME TypeOK, Listeners, [Next]_vars PROVE Listeners'
  OBVIOUS
<1>1. CASE Bind
  BY <1>1 DEF TypeOK, BindType, Listeners, Bind, Listening
<1>2. CASE BindFails
  BY <1>2 DEF TypeOK, BindType, Listeners, BindFails
<1>3. CASE BindRemotesReturns
  BY <1>3 DEF TypeOK, BindType, Listeners, BindRemotesReturns
<1>4. ASSUME NEW r \in Remotes, CloseListener(r) PROVE Listeners'
  BY <1>4 DEF TypeOK, BindType, Listeners, CloseListener
<1>5. ASSUME NEW r \in Remotes, RunReturns(r) PROVE Listeners'
  BY <1>5 DEF TypeOK, BindType, Listeners, RunReturns
<1>6. ASSUME NEW r \in Remotes, AcceptFails(r) PROVE Listeners'
  BY <1>6 DEF TypeOK, BindType, Listeners, AcceptFails
<1>8. ASSUME NEW r \in Stdio, StdioReturns(r) PROVE Listeners'
  BY <1>8 DEF TypeOK, BindType, Listeners, StdioReturns, Listening
<1>7. CASE UNCHANGED <<bpc, bres, open, running, failed>>
  BY <1>7 DEF Listeners
<1> QED
  BY <1>1, <1>2, <1>3, <1>4, <1>5, <1>6, <1>7, <1>8, Steps, BindFrame,
    StreamFrame DEF Proxies

\* Nothing moves after Wait has returned.
LEMMA ReturnedStep == TypeOK /\ Returned /\ [Next]_vars => Returned'
<1> SUFFICES ASSUME TypeOK, Returned, [Next]_vars PROVE Returned'
  OBVIOUS
<1>1. CASE Wait
  BY <1>1 DEF Returned, Wait, loopVars, bindVars
<1>2. CASE Loop
  BY <1>2 DEF Returned, Loop, Once, Dial, BindSSHReturns, CloseSSH, ConnEnds,
    GiveUp, Retry, AfterSignal, WaitCancelled, bindVars
<1>3. CASE Answer \/ ConnDies
  BY <1>3 DEF Returned, Answer, Handshake, SendConfig, ConnDies, ConnEnds,
    bindVars
<1>4. CASE Proxies
  BY <1>4 DEF Returned, Proxies, Bind, BindFails, BindRemotesReturns,
    CloseListener, RunReturns, loopVars
<1>5. CASE UNCHANGED <<lpc, bpc, bres, result>>
  BY <1>5 DEF Returned
<1>6. Close \/ Terminated \/ UNCHANGED vars \/ (\E r \in Remotes : AcceptFails(r) \/ StdioReturns(r))
      => UNCHANGED <<lpc, bpc, bres, result>>
  BY DEF StdioReturns, Close, Terminated, AcceptFails, vars, loopVars, bindVars
<1> QED
  BY <1>1, <1>2, <1>3, <1>4, <1>5, <1>6, Steps, StreamFrame

-----------------------------------------------------------------------------
\* The invariant holds of every behaviour of the client.
THEOREM Invariance == Spec => []IInv
<1>1. Init => IInv
  <2> SUFFICES ASSUME Init PROVE IInv
    OBVIOUS
  <2>1. stopped \in BOOLEAN /\ connected \in BOOLEAN
    BY Zenon DEF Init
  <2>2. TypeOK
    BY <2>1 DEF Init, TypeOK, LoopType, BindType, StreamType, Ends
  <2>3. Count /\ Held /\ Listeners /\ Returned
    BY RetryAssumption DEF Init, Count, Held, Listeners, Returned
  <2> QED
    BY <2>2, <2>3 DEF IInv
<1>2. IInv /\ [Next]_vars => IInv'
  BY TypeStep, CountStep, HeldStep, ListenersStep, ReturnedStep DEF IInv
<1> QED
  BY <1>1, <1>2, PTL DEF Spec

\* Type correctness of the client.
THEOREM TypeCorrect == Spec => []TypeOK
<1>1. IInv => TypeOK
  BY DEF IInv
<1> QED
  BY <1>1, Invariance, PTL

\* The retry limit is kept (client_connect.go:46), for every limit.
THEOREM RetriesStayLimited == Spec => []RetriesLimited
<1>1. IInv => RetriesLimited
  BY RetryAssumption DEF IInv, TypeOK, LoopType, Count, RetriesLimited
<1> QED
  BY <1>1, Invariance, PTL

\* Whatever Wait returns, it leaves no connection, and no listener but those of
\* a failed bind or Accept (client.go:254-261, client_connect.go:76-109).
THEOREM WaitLeavesNothing == Spec => []NothingLeft
<1>1. IInv => NothingLeft
  BY DEF IInv, TypeOK, LoopType, Held, Listeners, Returned, NothingLeft
<1> QED
  BY <1>1, Invariance, PTL

\* The client gives up only when its retries are used up
\* (client_connect.go:26-54); with no limit it never does.
THEOREM GivesUpWhenUsedUp == Spec => EndsWhenUsedUp
<1>1. IInv /\ [Next]_vars
      => [stopped' /\ ~stopped /\ lpc' = "ended" /\ lpc # "ended"
            => retries' = MaxRetryCount]_vars
  <2> SUFFICES ASSUME IInv, Next, stopped', ~stopped, lpc' = "ended",
                      lpc # "ended"
               PROVE retries' = MaxRetryCount
    OBVIOUS
  <2>1. GiveUp
    BY Steps, StreamFrame DEF StdioReturns, Loop, Once, Dial, BindSSHReturns, CloseSSH, Retry, AfterSignal,
      WaitCancelled, OnceReturns, Answer, Handshake, SendConfig, ConnDies,
      ConnEnds, Proxies, Bind, BindFails, BindRemotesReturns, CloseListener, RunReturns,
      AcceptFails, Close, Wait, Terminated, vars, loopVars
  <2> QED
    BY <2>1, RetryAssumption DEF GiveUp, LimitPassed, Counted, CountedRetries, IInv,
      TypeOK, LoopType, Count
<1> QED
  BY <1>1, Invariance, PTL DEF Spec, EndsWhenUsedUp
=============================================================================
