------------------------------- MODULE Client -------------------------------
(***************************************************************************)
(* The client (client/client.go, client/client_connect.go): the loop that  *)
(* connects, waits and connects again, next to BindRemotes, which serves   *)
(* the local listeners, in one error group whose context takes both down.  *)
(* Every local connection that a listener accepts is a stream: a goroutine *)
(* of its own, which nobody waits for, pipes it through a channel of the   *)
(* SSH connection (share/tunnel/tunnel_in_proxy.go, share/cio/pipe.go).  A *)
(* stdio remote has no listener: its Run itself pipes the standard input   *)
(* and output, again and again, and cannot close them (share/cio/stdio.go).*)
(*                                                                         *)
(* One variable follows each goroutine.  Of the back-off only its counter  *)
(* is kept, since the delay is a function of it; whether a connection      *)
(* lasted longer than five seconds is a choice.  Streams carry no data: an *)
(* end is open, at end of file or closed.  BindSSH and getSSH are what     *)
(* Tunnel.tla shows of them: BindSSH returns when the connection has       *)
(* ended, a cancelled context ends the connection; getSSH returns the      *)
(* bound connection, or nil when there is none or the context is done.     *)
(***************************************************************************)
EXTENDS Integers, FiniteSets

CONSTANTS
  MaxRetryCount,  \* config.MaxRetryCount; below zero: no limit
  Remotes,        \* computed.Remotes.Reversed(false)
  Stdio,          \* the one among them that is stdio, if any
  Streams         \* the local connections that may be made

ASSUME RetryAssumption == MaxRetryCount \in Int
ASSUME StdioAssumption == Stdio \subseteq Remotes /\ Stdio \cap Streams = {}

\* The remotes with a listener, and all that pipeRemote may be called with.
Listening == Remotes \ Stdio
Flows == Streams \cup Stdio

VARIABLES
  stopped,    \* c.stop was called or the caller's context was cancelled
  lpc,        \* control state of connectionLoop and connectionOnce
  connected,  \* what connectionOnce returned
  attempt,    \* the counter of the back-off
  conn,       \* the loop's connection: "none", "open", "dead" or "closed"
  bpc,        \* control state of the BindRemotes goroutine
  bres,       \* what it returned
  open,       \* the listeners that are open
  running,    \* the proxies whose Run has not returned
  failed,     \* a Run ended by itself: its error was "returned" or "swallowed"
  spc,        \* control state of pipeRemote, one per stream
  src,        \* the local end of each stream, or the standard input
  dst,        \* its channel; "open" only while its connection is
  copies,     \* the copying goroutines of Pipe that run, one per direction
  result,     \* what Wait returned, "running" before
  retries     \* history: dials that follow a failure or a disconnect, since
              \* the start or the last connection that lasted

loopVars == <<lpc, connected, attempt, conn, retries>>
bindVars == <<bpc, bres, open, running, failed>>
strVars == <<spc, src, dst, copies>>
vars == <<stopped, loopVars, bindVars, strVars, result>>

Ends == {"none", "open", "eof", "closed"}
Directions == {"up", "down"}

\* The context of the client's error group, and that of BindRemotes' group.
egDone == stopped \/ bres = "err"
proxyDone == egDone \/ failed = "returned"

-----------------------------------------------------------------------------
(* connectionOnce                                                          *)

\* It returns to the loop; the deferred Close has closed the connection.
ReturnsUnclosed(c) ==
  /\ lpc' = "decide"
  /\ connected' = c
  /\ UNCHANGED <<attempt, retries, conn>>

OnceReturns(c) ==
  /\ lpc' = "decide"
  /\ connected' = c
  /\ conn' = IF conn = "none" THEN "none" ELSE "closed"
  /\ UNCHANGED <<attempt, retries>>

\* Already closed?
Once ==
  /\ lpc = "once"
  /\ IF egDone
       THEN OnceReturns(FALSE)
       ELSE lpc' = "dial" /\ UNCHANGED <<connected, attempt, conn, retries>>
  /\ UNCHANGED <<stopped, bindVars, result, strVars>>

\* DialContext: a WebSocket, or an error, also that of the context.
Dial ==
  /\ lpc = "dial"
  /\ \/ /\ lpc' = "handshake"
        /\ conn' = "open"
        /\ UNCHANGED <<connected, attempt, retries>>
     \/ OnceReturns(FALSE)
  /\ UNCHANGED <<stopped, bindVars, result, strVars>>

\* NewClientConn: the server answers, and is accepted or not; or the
\* connection ends.  Neither this nor the next step looks at the context.
Handshake ==
  /\ lpc = "handshake"
  /\ \/ /\ conn = "open"
        /\ lpc' = "config"
        /\ UNCHANGED <<connected, attempt, conn, retries>>
     \/ OnceReturns(FALSE)
  /\ UNCHANGED <<stopped, bindVars, result, strVars>>

\* The configuration is sent: the server's reply, or the connection's end.
SendConfig ==
  /\ lpc = "config"
  /\ \/ /\ conn = "open"
        /\ lpc' = "bound"
        /\ UNCHANGED <<connected, attempt, conn, retries>>
     \/ OnceReturns(FALSE)
  /\ UNCHANGED <<stopped, bindVars, result, strVars>>

\* BindSSH returns; the connection lasted, or it did not.
BindSSHReturnsOnCancel ==
  /\ lpc = "bound" /\ conn = "dead" /\ egDone
  /\ \E c \in BOOLEAN : OnceReturns(c)
  /\ UNCHANGED <<stopped, bindVars, result, strVars>>

BindSSHReturns ==
  /\ lpc = "bound" /\ conn = "dead"
  /\ \E c \in BOOLEAN : OnceReturns(c)
  /\ UNCHANGED <<stopped, bindVars, result, strVars>>

\* The connection ends, and with it the channels it carries.
ConnEnds ==
  /\ conn' = "dead"
  /\ dst' = [s \in Flows |-> IF dst[s] = "open" THEN "eof" ELSE dst[s]]
  /\ UNCHANGED <<stopped, lpc, connected, attempt, retries, bindVars, result,
                 spc, src, copies>>

\* The server or the network ends it.
ConnDies == conn = "open" /\ ConnEnds

\* BindSSH's closer does when the context is done.
CloseSSH == lpc = "bound" /\ conn = "open" /\ egDone /\ ConnEnds

-----------------------------------------------------------------------------
(* connectionLoop                                                          *)

\* The counter after the reset that follows a connection that lasted.
Counted == IF connected THEN 0 ELSE attempt

LimitPassedLate(n) == MaxRetryCount >= 0 /\ n > MaxRetryCount
LimitPassed(n) == MaxRetryCount >= 0 /\ n >= MaxRetryCount

CountedRetries == IF connected THEN 0 ELSE retries

\* Give up: leave the loop and close the client.
GiveUpLeaves ==
  /\ lpc = "decide" /\ LimitPassed(Counted)
  /\ lpc' = "ended"
  /\ attempt' = Counted /\ retries' = CountedRetries
  /\ UNCHANGED <<stopped, connected, conn, bindVars, result, strVars>>

GiveUp ==
  /\ lpc = "decide" /\ LimitPassed(Counted)
  /\ lpc' = "ended"
  /\ stopped' = TRUE
  /\ attempt' = Counted /\ retries' = CountedRetries
  /\ UNCHANGED <<connected, conn, bindVars, result, strVars>>

\* Or take the next delay, which counts the attempt, and wait.
Retry ==
  /\ lpc = "decide" /\ ~LimitPassed(Counted)
  /\ lpc' = "wait"
  /\ attempt' = Counted + 1 /\ retries' = CountedRetries
  /\ UNCHANGED <<stopped, connected, conn, bindVars, result, strVars>>

\* The delay is over, or a SIGHUP cuts it short.
AfterSignal ==
  /\ lpc = "wait"
  /\ lpc' = "once"
  /\ retries' = retries + 1
  /\ UNCHANGED <<stopped, connected, attempt, conn, bindVars, result, strVars>>

\* Cancelled while it waits.
WaitCancelled ==
  /\ lpc = "wait" /\ egDone
  /\ lpc' = "ended"
  /\ UNCHANGED <<stopped, connected, attempt, conn, retries, bindVars, result,
                 strVars>>

-----------------------------------------------------------------------------
(* The listeners: BindRemotes and the proxies it runs.                     *)

\* All proxies are created, and run.  (Without remotes the goroutine returns
\* nil at once: here it serves none.)
Bind ==
  /\ bpc = "start"
  /\ bpc' = "serving"
  /\ open' = Listening /\ running' = Remotes
  /\ UNCHANGED <<stopped, loopVars, bres, failed, result, strVars>>

\* One cannot listen; those created before it are left open.
BindFails ==
  /\ bpc = "start"
  /\ \E S \in (SUBSET Listening) \ {Listening} : open' = S
  /\ bpc' = "ended" /\ bres' = "err"
  /\ UNCHANGED <<stopped, loopVars, running, failed, result, strVars>>

\* The goroutine of runTCP closes the listener when the context is done ...
CloseListener(r) ==
  /\ r \in open \cap running /\ proxyDone
  /\ open' = open \ {r}
  /\ UNCHANGED <<stopped, loopVars, bpc, bres, running, failed, result,
                 strVars>>

\* ... which makes Accept return, and Run return nil.
RunReturns(r) ==
  /\ r \in (running \cap Listening) \ open
  /\ running' = running \ {r}
  /\ UNCHANGED <<stopped, loopVars, bpc, bres, open, failed, result, strVars>>

\* A Run ends by itself, an Accept that fails for example: the listener stays
\* open.  With the context done already the error is dropped.
AcceptFails(r) ==
  /\ r \in running \cap open
  /\ running' = running \ {r}
  /\ failed' = IF proxyDone /\ failed # "returned" THEN "swallowed"
                                                 ELSE "returned"
  /\ UNCHANGED <<stopped, loopVars, bpc, bres, open, result, strVars>>

\* runStdio calls pipeRemote for as long as the context is not done, which it
\* looks at between two calls only ...
RunStdio(r) ==
  /\ r \in running
  /\ spc[r] = "none" \/ (spc[r] = "ended" /\ ~proxyDone)
  /\ spc' = [spc EXCEPT ![r] = "getSSH"]
  /\ dst' = [dst EXCEPT ![r] = "none"]
  /\ UNCHANGED <<stopped, loopVars, bindVars, src, copies, result>>

\* ... and then returns nil.
StdioReturns(r) ==
  /\ r \in running /\ spc[r] = "ended" /\ proxyDone
  /\ running' = running \ {r}
  /\ UNCHANGED <<stopped, loopVars, bpc, bres, open, failed, result, strVars>>

BindRemotesReturns ==
  /\ bpc = "serving" /\ running = {}
  /\ bpc' = "ended"
  /\ bres' = IF failed = "returned" THEN "err" ELSE "nil"
  /\ UNCHANGED <<stopped, loopVars, open, running, failed, result, strVars>>

-----------------------------------------------------------------------------
(* The streams: pipeRemote, openRemoteStream and Pipe.                     *)

\* Close of the local end; that of the standard input does nothing.
SrcClose(s) == src' = IF s \in Stdio THEN src ELSE [src EXCEPT ![s] = "closed"]

\* pipeRemote returns, and its deferred closes run.
StreamReturns(s) ==
  /\ spc' = [spc EXCEPT ![s] = "ended"]
  /\ SrcClose(s)
  /\ dst' = [dst EXCEPT ![s] = "closed"]
  /\ UNCHANGED copies

\* A listener accepts.
AcceptStream(s) ==
  /\ spc[s] = "none" /\ running \cap open # {}
  /\ spc' = [spc EXCEPT ![s] = "getSSH"]
  /\ src' = [src EXCEPT ![s] = "open"]
  /\ UNCHANGED <<stopped, loopVars, bindVars, dst, copies, result>>

\* getSSH returns the connection, which may have ended ...
GetSSH(s) ==
  /\ spc[s] = "getSSH" /\ lpc = "bound"
  /\ spc' = [spc EXCEPT ![s] = "channel"]
  /\ dst' = [dst EXCEPT ![s] = IF conn = "open" THEN "open" ELSE "eof"]
  /\ UNCHANGED <<stopped, loopVars, bindVars, src, copies, result>>

\* ... or nil: no connection in time, or cancelled.
GetSSHNil(s) ==
  /\ spc[s] = "getSSH" /\ (proxyDone \/ lpc # "bound")
  /\ StreamReturns(s)
  /\ UNCHANGED <<stopped, loopVars, bindVars, result>>

\* OpenChannel succeeds, and Pipe starts a copy in each direction ...
OpenChannel(s) ==
  /\ spc[s] = "channel" /\ dst[s] = "open"
  /\ spc' = [spc EXCEPT ![s] = "pipe"]
  /\ copies' = [copies EXCEPT ![s] = Directions]
  /\ UNCHANGED <<stopped, loopVars, bindVars, src, dst, result>>

\* ... or fails: the connection ended or the server rejects the channel.
ChannelFails(s) ==
  /\ spc[s] = "channel"
  /\ StreamReturns(s)
  /\ UNCHANGED <<stopped, loopVars, bindVars, result>>

\* The local program, or the far end of the channel, ends its side.
LocalEnds(s) ==
  /\ src[s] = "open"
  /\ src' = [src EXCEPT ![s] = "eof"]
  /\ UNCHANGED <<stopped, loopVars, bindVars, spc, dst, copies, result>>

RemoteEnds(s) ==
  /\ spc[s] = "pipe" /\ dst[s] = "open"
  /\ dst' = [dst EXCEPT ![s] = "eof"]
  /\ UNCHANGED <<stopped, loopVars, bindVars, spc, src, copies, result>>

\* A copy ends when what it reads has ended; the first to end closes both ends.
Source(s, d) == IF d = "up" THEN src[s] ELSE dst[s]

CopyEndsOpen(s, d) ==
  /\ d \in copies[s] /\ Source(s, d) # "open"
  /\ copies' = [copies EXCEPT ![s] = @ \ {d}]
  /\ UNCHANGED <<stopped, loopVars, bindVars, spc, src, dst, result>>

CopyStops(s, d) ==
  /\ copies' = [copies EXCEPT ![s] = @ \ {d}]
  /\ SrcClose(s)
  /\ dst' = [dst EXCEPT ![s] = "closed"]
  /\ UNCHANGED <<stopped, loopVars, bindVars, spc, result>>

CopyEnds(s, d) ==
  /\ d \in copies[s] /\ Source(s, d) # "open"
  /\ CopyStops(s, d)

\* Or it has read something that it cannot write: the way up of a stdio remote
\* whose channel has ended ends no other way while the standard input is open.
WriteFails(s) ==
  /\ "up" \in copies[s] /\ src[s] = "open" /\ dst[s] # "open"
  /\ CopyStops(s, "up")

PipeReturns(s) ==
  /\ spc[s] = "pipe" /\ copies[s] = {}
  /\ StreamReturns(s)
  /\ UNCHANGED <<stopped, loopVars, bindVars, result>>

-----------------------------------------------------------------------------
(* The caller                                                              *)

\* Close, or an interrupt that cancels the context given to Start.
Close ==
  /\ ~stopped
  /\ stopped' = TRUE
  /\ UNCHANGED <<loopVars, bindVars, result, strVars>>

\* Wait returns the group's first error when both goroutines have returned.
Wait ==
  /\ lpc = "ended" /\ bpc = "ended" /\ result = "running"
  /\ result' = bres
  /\ UNCHANGED <<stopped, loopVars, bindVars, strVars>>

\* Nothing is left to do.
Terminated == result # "running" /\ stopped /\ UNCHANGED vars

-----------------------------------------------------------------------------
Init ==
  /\ stopped = FALSE /\ result = "running"
  /\ lpc = "once" /\ connected = FALSE /\ attempt = 0 /\ conn = "none"
  /\ retries = 0
  /\ bpc = "start" /\ bres = "running" /\ open = {} /\ running = {}
  /\ failed = "none"
  /\ spc = [s \in Flows |-> "none"] /\ dst = [s \in Flows |-> "none"]
  /\ src = [s \in Flows |-> IF s \in Stdio THEN "open" ELSE "none"]
  /\ copies = [s \in Flows |-> {}]

\* What the loop does by itself, and what it does when the server answers.
Loop == \/ Once \/ Dial \/ BindSSHReturns \/ CloseSSH \/ GiveUp \/ Retry
        \/ AfterSignal \/ WaitCancelled
Answer == Handshake \/ SendConfig

Proxies == \/ Bind \/ BindFails \/ BindRemotesReturns
           \/ \E r \in Remotes : CloseListener(r) \/ RunReturns(r)
StdioLoop(r) == RunStdio(r) \/ StdioReturns(r)

\* What a stream does by itself, and what depends on its two ends.
Stream(s) == \/ GetSSH(s) \/ GetSSHNil(s) \/ PipeReturns(s)
             \/ \E d \in Directions : CopyEnds(s, d)
Peer(s) == \/ OpenChannel(s) \/ ChannelFails(s) \/ WriteFails(s)
           \/ LocalEnds(s) \/ RemoteEnds(s)

Next == \/ Loop \/ Answer \/ ConnDies \/ Proxies \/ Close \/ Wait \/ Terminated
        \/ \E r \in Remotes : AcceptFails(r)
        \/ \E r \in Stdio : StdioLoop(r)
        \/ \E s \in Streams : AcceptStream(s)
        \/ \E s \in Flows : Stream(s) \/ Peer(s)

Spec == Init /\ [][Next]_vars

\* Goroutines are scheduled and timers fire; DialContext ends by its time-out;
\* a handshake ends when its connection has; a select does not for ever prefer
\* the delay to the context.  The server need not answer, the network need not
\* fail, the caller need not act and nothing need arrive at the standard input.
FairSpec ==
  /\ Spec
  /\ WF_vars(Loop) /\ WF_vars(Proxies) /\ WF_vars(Wait)
  /\ WF_vars(conn = "dead" /\ Answer)
  /\ SF_vars(WaitCancelled)
  /\ \A r \in Stdio : WF_vars(StdioLoop(r))
  /\ \A s \in Flows : /\ WF_vars(Stream(s))
                      /\ WF_vars(dst[s] = "eof" /\ ChannelFails(s))

-----------------------------------------------------------------------------
(* Properties                                                              *)

LoopType ==
  /\ stopped \in BOOLEAN /\ connected \in BOOLEAN
  /\ lpc \in {"once", "dial", "handshake", "config", "bound", "decide", "wait",
              "ended"}
  /\ attempt \in Nat /\ retries \in Nat
  /\ conn \in {"none", "open", "dead", "closed"}
  /\ result \in {"running", "nil", "err"}

BindType ==
  /\ failed \in {"none", "returned", "swallowed"}
  /\ bpc \in {"start", "serving", "ended"}
  /\ bres \in {"running", "nil", "err"}
  /\ open \subseteq Listening /\ running \subseteq Remotes

StreamType ==
  /\ spc \in [Flows -> {"none", "getSSH", "channel", "pipe", "ended"}]
  /\ src \in [Flows -> Ends] /\ dst \in [Flows -> Ends]
  /\ copies \in [Flows -> SUBSET Directions]

TypeOK == LoopType /\ BindType /\ StreamType

\* "Maximum number of times to retry before exiting" (main.go:383): between two
\* connections that lasted the client dials again MaxRetryCount times at most,
\* whatever the failures were and whoever cut the delays short; connections of
\* less than five seconds do not refill the count
\* (client_connect.go:23-54, 132).
RetriesLimited == MaxRetryCount >= 0 => retries <= MaxRetryCount

\* It does not exit earlier either: the client ends without an error and
\* without having been cancelled only when the retries are used up
\* (client_connect.go:26-54).
EndsWhenUsedUp ==
  [][stopped' /\ ~stopped /\ lpc' = "ended" /\ lpc # "ended"
       => retries' = MaxRetryCount]_vars

\* When Wait has returned, nil or an error, the client holds no connection, and
\* it has no listener left unless BindRemotes failed or an Accept failed by
\* itself after the cancellation, whichever of the two goroutines came down
\* first and from whichever step (client.go:254-261, client_connect.go:76-109).
\* (A bind or an Accept that fails leaves listeners open in the code.)
NothingLeft ==
  result # "running" =>
    /\ conn \in {"none", "closed"}
    /\ open = {} \/ failed = "swallowed" \/ bres = "err"

\* A stdio remote's copy waits for input.
StdinRead(r) == "up" \in copies[r] /\ src[r] = "open"

\* Close, giving up, and an error of the listeners each end the whole client,
\* from every state of the other goroutine, provided that neither a handshake
\* nor a read of the standard input hangs for ever: NewClientConn and
\* SendRequest do not look at the context, and a stdio remote's Pipe reads
\* os.Stdin, which nothing closes (client.go:240-263, client_connect.go:46-52,
\* 98-125, tunnel_in_proxy.go:141-152, stdio.go:9-15).  So "Close manually stops
\* the client" (client.go:301) and an interrupt stop a client with a stdio
\* remote only after one more input or the end of the standard input.
GroupEnds ==
  [](/\ egDone \/ lpc = "ended"
     /\ []<>(lpc \notin {"handshake", "config"})
     /\ \A r \in Stdio : []<>~StdinRead(r)
     => <>(result # "running"))

\* A connection that is lost leads to the next dial, unless the client ends
\* (client_connect.go:24-53).
LossRetried ==
  (lpc = "bound" /\ conn = "dead") ~> (lpc \in {"dial", "ended"})

\* An accepted connection is closed on both sides when its SSH connection or
\* its channel ends, when the local program ends it, and when the client has
\* ended, although Wait does not wait for the streams, each of which may be
\* anywhere between getSSH and Pipe, and a new connection may be up already
\* (tunnel_in_proxy.go:182-220, pipe.go:9-30).
StreamsClose ==
  \A s \in Streams :
    \/ dst[s] = "eof"
    \/ spc[s] = "pipe" /\ src[s] = "eof"
    \/ result # "running" /\ spc[s] # "none"
    ~> spc[s] = "ended" /\ src[s] = "closed"
=============================================================================
