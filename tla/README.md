# chisel-uds: a TLA+ verification project

chisel-uds tunnels TCP, UDP, SOCKS5 and Unix sockets through one SSH connection
carried by a WebSocket. This directory holds TLA+ models of the program,
the TLC runs that check them on small instances, and TLAPS proofs of the main
safety properties for every value of the constants. Source paths below are
relative to the repository.

## 1. The system

| Component | State | Operations | Model |
|---|---|---|---|
| Tunnel connection (`share/tunnel/tunnel.go`, `wg.go`) | `activeConn`, the barrier `activatingConn` (counter `n` and an inner `sync.WaitGroup`) | `BindSSH`, `getSSH`, `keepAliveLoop`, `waitGroup.Add/Done/DoneAll/Wait` | `Tunnel` |
| uds-pair (`tunnel_in_proxy_uds_pair.go`) | one queue of waiters per path, one `matched` channel per waiter | `run`, `removeWaiter`, `relayUDSPair`, `pipeBidirectional` | `UDSPair`, abstractly `Rendezvous` |
| Session handler (`server/server_handler.go`) | the handler's local `user`, its error group and context, the SSH connection | upgrade, handshake, lookup, configuration, validation, bind, disconnect | `Session` |
| User table (`share/settings/users.go`, `server/server.go`) | `Server.users`, `Server.sessions`, the auth file | `authUser`, `AddUser`, `DeleteUser`, `ResetUsers`; `LoadUsers`, `addWatchEvents`, `loadUserIndex` | `Session`; the file in `Server` |
| Inbound proxies (`tunnel.go` `BindRemotes`, `tunnel_in_proxy.go`) | listeners, `Proxy.active` | `NewProxy`, `listen`, `Run`, `runTCP`, `runStdio` | `Session`; `runStdio` in `Client` |
| Monitor (`server/monitor_state.go`) | status per session and per endpoint | `markSession*`, `updateEndpoint`, `snapshot` | `Session`; its calls in `Telemetry` |
| Telemetry publisher (`server/otel.go`) | the last snapshot, tables of start times | `updateSnapshot`, `onSessionStatus`, `onEndpointStatus`, `onStreamEvent`, the gauges | `Telemetry` |
| UDP at the entry (`tunnel_in_proxy_udp.go`) | the cached channel `outbound` under its mutex, two goroutines, one unset goroutine per channel | `run`, `runInbound`, `runOutbound`, `getUDPChan`, `unsetUDPChan` | `UDP` |
| UDP at the exit (`tunnel_out_ssh_udp.go`) | a table from source address to socket per channel, a reader per socket | `handleUDP`, `handleWrite`, `handleRead`, `dial`, `remove`, `closeAll` | `UDP` |
| Client (`client/client_connect.go`, `client.go`) | the back-off counter, the loop's connection, the error group | `connectionLoop`, `connectionOnce`, `Start`, `Wait`, `Close` | `Client` |
| Streams of a proxy (`tunnel_in_proxy.go`, `cio/pipe.go`) | two ends and two copies per stream | `pipeRemote`, `openRemoteStream`, `Pipe` | `Client` |
| uds-listen (`tunnel_in_proxy.go`) | the socket file at a path, the listener | `listen`, `removeUnixSocketIfExists`, `runUnix` | `UDSListen` |
| Remote descriptors (`share/settings/remote.go`, `client/client.go`) | the client's computed configuration | `DecodeRemote`, `decodeUDSRemote`, `Encode`, `String`, `UserAddr`, the argument loop of `NewClient`, the server's checks, `handleSSHChannel`'s reading of a channel | `Remotes` |
| Server process (`server/server.go`, `cnet/http_server.go`, `main.go`) | the listener, the waiter, `closeOnce` | `NewServer`, `Start`, `Wait`, `Close`, `GoServe` | `Server` |

How they meet. The client's `connectionLoop` dials and calls `BindSSH` once per
connection; the server calls it once per session, in an error group next to
`BindRemotes`. Proxies call `getSSH` for every stream. A connection's context is
linked to it by a closer goroutine, which closes the connection and drains the
barrier; the end of `BindSSH` cancels the context in turn. Two sessions meet in
four places: the uds-pair registry, which is global to the process; the
addresses of the host; the socket files of uds-listen; and the user table, which
an operator (or the reload of the auth file) changes while handshakes run. Every change of a session or an
endpoint is reported to the monitor by the goroutine that made it.

What is hard: goroutines of an old connection that act on the tunnel of the new
one; two counters that are updated in two steps; a waiter that leaves while it
is being matched; packets of many senders on one channel, answered by goroutines
that time out on their own; a cached channel that outlives its connection; a retry
count that is read, raised and reset in different steps; streams nobody waits for;
reads of the user table that see different tables; addresses
that are checked first and taken later; a file that is removed by whoever ends
last; snapshots that are taken and published in different critical sections; a
`Close` that races with `Start`; a file that is read while it is written; one remote
of several that fails; contexts and connections that must take each other down. `PROJECT.json` lists
these hazards line by line with the properties aimed at them.

## 2. The modules

**Tunnel.** One *binder* (the goroutine that calls `BindSSH`), one closer and at
most one keep-alive goroutine per connection, any number of `getSSH` calls, each
with the waiter goroutine it may leave behind. Every atomic operation is a step:
`Done` is load, compare-and-swap, inner `Done`; `Add` is the counter, then the
inner `WaitGroup`. The `WaitGroup` itself is modelled by its contract: it panics
below zero, it panics when a released waiter finds it raised again, and it
releases all waiters when it reaches zero. The initial
state chooses between a client's tunnel (`reconnects`: many connections, each with a
context of its own) and a server session's (one connection and one shared context). `cleared` and `floor` are history
variables for `FreshConn`.

**UDSPair.** A proxy is one uds-pair remote of one session. The critical sections
of the registry are one step each; so are the checks and openings of the two
streams, the end of each copy, and the steps by which a session's context and
connection take each other down. Streams carry no data: an end is open or at end
of file. **Rendezvous** is the promise: a path is a meeting place with room for
one, two parties become partners in one step, and one who gives up frees the
place as it leaves. `IsRendezvous` maps the head of the queue to the place and
the two halves of a pair, `matched` and `peer`, to one symmetric relation.

**Session.** One handler per session from `markSessionPending` to
`markSessionDisconnected`, and the goroutine in `BindRemotes`. `authUser` is two
steps (`AuthLen`, `AuthGet`) and so is the handler's lookup, because the table
can change between them. Users are records with a name, a password and the set
of remotes their expressions match; a remote is a model value with a local
address. A listener is the entry of its address in `holder`; the two leftovers
the code has (a bind that fails after some proxies were created, an `Accept`
that fails by itself) keep the entry until `Collect`, the finalizer of an
unreachable listener, closes it. Addresses may also be taken by other programs,
so `ListenFails` and `ValidateFails` need no reason. A panic of the handler is
recovered by net/http: the session stops where it is (`authPanic`, `nilPanic`).
`seen` is a history variable: the records, and whether the empty table, that
were in force during the handshake.

**UDP.** Entry, exit and the channel between them in one module, because the
interesting faults lie across: a packet keeps its source address through the
channel, the table and the reader that answers it. `getUDPChan` is several steps
under the mutex (`Lock`, `GetSSH`, `Open`), so that the other goroutine can be seen
waiting for it. The cache makes channel and SSH connection one to one, so both have
one number. The limit is checked after the entry was made and in a step of its own
(`Spawn`). The tunnel is reduced to what `Tunnel` shows of `getSSH`.

**Client.** `connectionLoop` and `connectionOnce` step by step, `BindRemotes` beside
them, `Wait` and `Close` around them, and the streams the listeners accept. Whether a
connection lasted more than five seconds is a choice, and the delay is left out since
it is a function of the counter. `BindRemotes` is coarser than in `Session`: all
proxies are created in one step, which nothing else observes. `retries` is a history
variable. `NewClientConn` and the configuration request do not look at the context,
and the model gives them no other way out than an answer or the connection's end.
A stdio remote (`Stdio`) has no listener: its `Run` pipes the standard input again and
again and looks at the context only between two pipes. `Close` of the standard streams
does nothing (`SrcClose`), so the way up ends only at the end of the input or when
something was read that cannot be written (`WriteFails`).

**UDSListen.** Proxies on one path, of sessions that live at the same time or one
after the other, and across crashes of the process. `listen` is one step per system
call (stat, remove, bind, chmod and, when that fails, the close that undoes it), and
so is the way out of `runUnix`: the listener's close, which unlinks the path, and
the deferred remove. A socket file stands for the proxy that bound it, so that a
stale file, one's own and another's can be told apart. `Abandon` is a session
whose other remotes fail: the listener stays open until it is collected. `met` is a
history variable: whose life on the path overlapped.

**Telemetry.** A report of a status is a call of the goroutine it is about; it
updates the monitor, tells the publisher, takes the snapshot and publishes it, and
other reports run between these. The order in which one session's goroutines report
is taken from `Session`. Times are left out: a table of times is the set of its
keys. The unlocked read of `Proxy.count` is a choice among the values since the one
read before. `overlapped` is a history variable.

**Remotes.** A descriptor is the list of parts that the regular expression finds, a
part a text with its protocol; `Unset`, the empty text, is a field that is not set.
`DecodeRemote` reads the parts from the back as the code does, written out for the
four parts there can be; `L4Proto` turns what stands before a protocol into lower case,
in a descriptor and again in the data of a channel. The actions are the client's argument
loop, the server's validation of the configuration, and a stream of an established
session with what the other side makes of its channel: one of the client's remotes
(`OpenStream`) or any data another program may send (`OpenOther`, from `Targets`).

**Server.** The main goroutine through `NewServer`, `Start` and `Wait`, the two
goroutines of `GoServe`, callers of `Close`, and beside them the auth file: an editor
that truncates and writes it, or renames another file onto it, and the goroutine
that reloads it. `http.Server` and `fsnotify` are external and modelled by how the
code uses them. `StartContext` may be given no context, which `GoServe` refuses after
the listener was opened. The TLS options are left out but for the failures they cause.
`seen` and `missed` are history variables.

`MCTunnel`, `MCUDSPair`, `MCSession`, `MCUDP`, `MCClient`, `MCUDSListen`,
`MCTelemetry`, `MCRemotes` and `MCServer` hold the instances,
`TunnelProofs`, `UDSPairProofs`, `SessionProofs`, `UDPProofs`, `ClientProofs`,
`EndpointProofs` (of `UDSListen` and `Remotes`), `TelemetryProofs` and `ServerProofs`
the proofs.

## 3. The runs

| Run | Instance | Shows |
|---|---|---|
| `tunnel` | 2 connections, 1 caller, keep-alive; client or server | `CountersAgree`, `NoDoubleBind`, `NoLostWakeup`, `FreshConn`; under fairness `GetSSHReturns`, `DisconnectEndsSession` |
| `tunnel_barrier_panic` | 2 connections | *violated:* `NoBarrierPanic`, a cancellation can make the `WaitGroup` panic |
| `tunnel_blocks` | 2 connections, 1 caller | *violated:* `BlocksWhileConnecting`, `getSSH` returns nil at once while the client reconnects |
| `uds_pair` | 3 proxies of 2 sessions, 1 path | `OnlyRelayFails`, `IsRendezvous`; under fairness `SessionEndReturns`, `HalfCloseEndsRelay` |
| `session_access` | 2 sessions, 2 records of one name | `AdmittedByTable`, `EntryLeftHasCause` while users are replaced, deleted and reset |
| `session_bind` | 2 sessions, 2 addresses in opposite order | `OverIsReported`, `ActiveListens`; under fairness `ConfigBounded`, `DropDisconnects`, `BindFailureDisconnects` |
| `udp` | 2 sources, 2 connections, limit 1, 2 packets, 2 sockets, 1 reply | `ReplyToSender`, `RemovesOwnEntry`, `WritesToOpenSocket`, `ReadersBounded`, `UnsetsOwnChannel`, `NotStuck` |
| `client` | 1 listener, the standard input, 2 retries, 1 stream | `RetriesLimited`, `NothingLeft`; under fairness `GroupEnds`, `LossRetried`, `StreamsClose` |
| `uds_listen` | 3 proxies, 1 path, crashes | `StaleHasCause`, `AloneIsServed` |
| `telemetry` | 2 sessions, 2 endpoints and 2 streams of one of them | `GaugesFollow`, `StartTimesExact`, `StreamNumbers` |
| `remotes` | all descriptors of up to 4 of 12 parts, UDS ones, pairs of 15; 4 other channels | `TextsKeepMeaning`, `FormsAsTested`, `StreamAsChecked` |
| `server` | with and without a context, 2 calls of `Close`, 1 interrupt, 2 changes of the file | `SilentCloseHasCause`, `ReturnsClosed`, `TableFollowsFile`; under fairness `InterruptEndsWait` |

Bounds. Two connections are the least with a closer that outlives its connection
and meets the next one; three proxies on a path are the least in which an arrival
meets a queue that has been used, and two of them belong to one session so that a
session may also meet itself; two sessions with two addresses in opposite order
are the least in which each may win one and lose the other. In `udp` two packets
with a limit of one are the least that put a source over the limit or a second
dial of one source after its reader timed out, and two connections the least that
let an unset goroutine meet a later channel; the sources are symmetric. In
`client` two retries let the count be refilled when partly used; a listener and the
standard input let one fail while the other serves, and differ in what ends them;
streams do not touch each other, so one is enough. In `uds_listen` three proxies let one take a path over from a second that
took it from, or found it left by, a first. In `telemetry` two endpoints of one
session report at once and beside it, another session overlaps with both, and two
streams of one endpoint are the least that can share a number. `remotes` has two
ports and two hosts, one of them with a capital, so that a swap and a change to lower
case show, the default port, a protocol on its own, and one text that is neither.
In `server` two edits are the least in which a second write meets the reload of
the first, and two closers the least in which `closeOnce` has been used up. The
theorems below carry every invariant to every instance.

Bounds in guards: `MaxConns` in `Tunnel`; in `UDP` `MaxSSH`, `MaxSent`, `MaxSocks` and
`MaxReplies` (its `MaxConns` is the code's limit); in `Server` `MaxEdits`. The
other models are finite because a session, a proxy, a call and a stream each happen once and the client's
retries are limited.

Deadlock is checked except in `udp` and `telemetry`: the models have explicit
terminal steps (`Terminated`) whose guards say what may be left when nothing more happens. In
`Session` the operator can always act. In `telemetry` every status is reported once
and then nothing is left to do. A UDP listener whose packets are used up,
with no one to cancel it, really waits for ever; that a cancelled one does not is
the property `NotStuck`.

## 4. Fairness

Weak fairness of what the runtime schedules: the steps of a goroutine that can
run, timers (`SSH_WAIT`, `CONFIG_TIMEOUT`), the failure of a ping on a closed
connection, the end of a copy whose source has ended, the reply to a channel
request by the peer's SSH library. No fairness is assumed of people and networks:
connections need neither appear nor break, clients need not close streams or send
a configuration, the operator need not act, listeners need not be collected.
Where a union of steps gets one fairness condition, its steps cannot repeat for
ever, except the handshake's retries, about which no liveness is claimed: the
code sets no deadline for the SSH handshake. For the same reason `GroupEnds` is
conditional: it says that a cancelled client ends unless a handshake hangs or a read of
the standard input blocks for ever, and no fairness is assumed of the server's answers
or of who types. Both conditions are needed: without either TLC finds a client that
`Close` does not end. The one strong fairness, of
`WaitCancelled`, stands for Go's select, which does not prefer the delay to the done
context for ever. In `Server` the main goroutine and those of `GoServe` are
scheduled and `Accept` fails once its listener is closed; nobody need interrupt,
call `Close` or change the file. The other modules state no fairness, their
properties being safety.

## 5. The proofs

All proofs are safety proofs, for any values of the constants that meet the
ASSUMEs. `Invariance` in each module proves an inductive invariant `IInv`; the
theorems follow from it.

- **TunnelProofs**: `TypeCorrect`, `BarrierCounters`, `NeverDoubleBind`,
  `ReturnsFreshConn`, `BoundTunnelUnblocks`. `CountersAgree` must be strengthened
  by what the local copies of `n` are worth: a compare-and-swap that succeeds saw
  a positive counter. `NoDoubleBind` needs the exact value of `activeConn` at each
  stage of `BindSSH`, `FreshConn` that connection numbers only grow, and
  `NoLostWakeup` that no one parks below a lowered barrier. The number of closers
  between their swap and the inner `Done` is a cardinality; the lemmas about it
  use the library's finite-set theorems.
- **UDSPairProofs**: `QueueIsExact`, `PairingIsExact`, `OnlyTheRelayFails`,
  `RegistryIsRendezvous`. The queue and the pairing depend on each other and on
  the role each control state implies (`RoleInv`): who waits has no peer, who
  relays has one. The refinement has one lemma per visible step.
- **SessionProofs**: `TypeCorrect`, `ServedIsAdmitted`, `EndIsReported`,
  `ActiveEndpointsListen`, `NilUnbindIsClean`, `StatusesMoveForward`, `EntriesAreTaken`. The invariant
  is local to a session apart from the table and the addresses, so there is one
  lemma that a step leaves other sessions alone (`OthersUntouched`) and one lemma
  per step for its own. `Phase` ties the monitor to the handler, `Creating` and
  `Holds` account for every address while proxies are created and run, `Access`
  says what is known of the user at each stage. `InboundAssumption` states the type
  of a filtered sequence, which is true of all sequences but defined by recursion.

- **UDPProofs**: `RepliesReachTheirSender`, `ReadersStayBounded`,
  `ReadersRemoveTheirOwn`, `WritesFindTheSocketOpen`, `HandlerClosesItsSockets`,
  `UnsetTouchesItsOwn`, `ListenerIsNotStuck`. `Cache` ties channel, connection, mutex and unset goroutine
  together: a connection that was never opened has no trace, a waiting unset
  goroutine is that of the cached channel. `Packets` follows the sender through
  every place a packet can be in. `Table` says whose socket an entry is, that a
  running reader's entry is its own, and that a socket in use is open. `ReadersBounded`
  is inductive with these: a reader starts only when the table holds at most
  `maxConns` entries, and every reader has an entry of its own. For `NotStuck`, `Cache`
  also says where the holder of the mutex is: in `getSSH` or opening a channel, both of
  which end when the connections have ended, so that whoever waits for the mutex waits
  for a goroutine that can move.
- **ClientProofs**: `RetriesStayLimited`, `GivesUpWhenUsedUp`, `WaitLeavesNothing`, for
  every limit, unlimited included. `Count` relates the back-off's counter to the
  retries made at each stage of the loop, `Held` says where the loop holds a
  connection, `Listeners` which listeners can be left, `Returned` that `Wait` is last.

- **EndpointProofs**, first part, `UDSListen`: `TypeCorrect`, `StaleFilesHaveACause`,
  `LoneProxyIsServed`.
  `StaleHasCause` is inductive as it stands. `AloneIsServed` needs `Meet`, that proxies
  that live together have met, and `Owns`, what a proxy that met nobody knows of the
  path at each stage: only a live proxy touches the path, and it is the only one.
- **EndpointProofs**, second part, `Remotes`: `RemotesInvariance`, `StreamsGoAsChecked`,
  `TextsOfRemotes`, `FormsMeanWhatTheySay`, for every command line and every choice of
  the texts that are ports, not hosts, or not in lower case, and any channel data. The assumptions are those of the code: `Atoi`
  takes none of the names and default hosts for a port, and the defaults parse.
  `RemotesInv` is the session's half: the remotes are the decoded arguments, the flags
  cover all of them, the server has accepted all of them. The other half is about
  `DecodeRemote`. `Partial` is kept by every part that is read (a SOCKS remote gets no
  remote address, any other its two ports together) and gives `Shape`, what every
  decoded remote satisfies. For the round trip, `EncodeParts` says which parts
  `Encode` writes for a remote of that shape, and `ReadLast`, `ReadPort` and
  `ReadHost`, applied from the last part to the first, say that they give the fields
  back; `NamesTellApart` shows that a name determines a reverse remote that can listen.
  For the documented forms, `FormsRead` does the same for each choice of the fields left out.
- **TelemetryProofs**: `TypeCorrect`, `GaugesFollowMonitor`, `TablesAreExact`,
  `NumbersAreUnique`. `Consistent` carries the property from the monitor to every
  snapshot under way; `Quiet` says that without overlap one report runs at most and
  holds what the monitor holds; `Started` and `Pending` say what the tables hold at
  each stage of a report; `Numbers` ties each stream's number to the count.
- **ServerProofs**: `TypeCorrect`, `SilentCloseIsExplained`, `ListenerEndsWithServer`,
  `ReloadFollowsFile`. `CloseInv` says what the first `Close` did, `ServeInv` where
  `Serve` is and who told it to stop. `FollowInv` is the reload's argument: a table that
  is not the file's has a write event waiting, a read to come or a read of the current
  file in hand, or the change went unseen.

Some theorems state properties that no run checks on its own: type correctness,
`QueueExact`, `PairingExact`, `CleanUnbind`, `StatusForward`, `ClosedWithHandler`,
`EndsWhenUsedUp` and `RemotesInv`. Every invariant that a run checks is stated by a theorem. Left to
TLC, because the prover does not reach it: liveness under fairness. Two definitions
are written so that the prover can reach them. `NotStuck` says with the guards of the
steps (`CanMove`) that a goroutine can move, rather than with `ENABLED`. `TakeParts`
is four steps rather than a recursion.

## 6. Findings

Two runs are violated; `PROJECT.json` quotes the lines.

- `tunnel_barrier_panic`: `waitGroup.Add` is not atomic, and a cancellation that comes
  while the connection is going down makes the inner `WaitGroup` panic.
- `tunnel_blocks`: "getSSH blocks while connecting" (`tunnel.go:144`), but the return of
  `connectionOnce` cancels the context of the lost connection, whose closer then takes
  back with `DoneAll` the `Add(1)` made for the reconnect (`tunnel.go:117, 138`); a
  `getSSH` that comes next returns nil at once.

Several hazards are faults the code has: a session that fails for its peer, an entry
of the sessions map nobody takes, a socket path two sessions share, an old snapshot
published last, start times of failures, a `Close` before `Start`, a change of the file
nobody watched. The properties about them do not forbid the fault, which would only be
violated: they say that it has no other cause and how far it goes. The notes under
"hazards" say so for each.

Observations that are not runs; the models have the states they describe.

Tunnel, sessions, UDP:

- A call of `getSSH` that timed out or was cancelled leaves its waiter goroutine parked
  until the next connection binds or a closer drains the barrier (`tunnel.go:172-178`).
- The first user added between `authUser` and the handler's lookup makes the handler
  panic, "bug in ssh auth handler" (`server_handler.go:102`).
- A client that disconnects before it sent its configuration makes the handler
  dereference a nil request, and the monitor shows the session pending for ever
  (`server_handler.go:113-132`).
- When the UDP handler at the exit ends while the SSH connection lives, the listener
  keeps the ended channel, drops every packet and loops on its end of file
  (`tunnel_in_proxy_udp.go:131-156`).
- `CanListen` is a check before use, so two sessions can both be told they are
  connected and one of them is dropped at once (the failing bind is part of
  `session_bind`).
- `handleSSHChannel` decides by the tunnel's flags alone: a channel to an address that
  was never checked is served, where `test/e2e/acl_channel_test.go:112-118`
  (`TestAuthChannelDenied`) wants it rejected. `StreamAsChecked` states what the code
  does, channels of no remote included.
- `BindRemotes` "blocks until the caller cancels the context or there is a proxy
  error" (`tunnel.go:181-182`), but a uds-pair proxy that relays does not look at its
  context, so after the error of another proxy it blocks while the relay is open.
- A UDP listener ends when `getSSH` returns nil or when a reply is cut off by the
  loss of the connection, and with it `BindRemotes` and the client, whatever
  `--max-retry-count` says; what `tunnel_blocks` shows makes the former likely after a
  disconnect.
- The `Timeout` of the client's `ssh.ClientConfig` does not apply to a connection
  that is handed in: a server that accepts the WebSocket and stays silent holds the
  loop, and `Close` does not end the client.
- A client with a stdio remote that pipes is not ended by `Close` ("manually stops the
  client", `client.go:301`), nor by giving up, until the standard input ends or something
  is read from it: `runStdio` waits in a read that nothing interrupts. After a lost
  connection what is read next is lost with it.
- The listeners of a bind that failed at a later remote, and that of an `Accept` that
  failed by itself, stay open when `Wait` has returned (`NothingLeft` excepts them).

uds-listen and telemetry:

- A session that binds a path another live session uses takes the path over, and the
  end of the earlier one removes the later one's file: an endpoint shown active cannot
  be reached. A client that reconnects before its old session ended is enough.
- Reports that overlap can leave an older snapshot published until the next report.
  The times of failed sessions and endpoints stay in the publisher's tables. Two
  identical uds-pair remotes of a session share one entry of the monitor.

Remote descriptors:

- `stdio` alone is accepted without a port; `80:81:82` is accepted and 81 dropped;
  `53/UDP` keeps its upper-case protocol and then cannot listen; the streams of a
  `stdio` remote are TCP whatever its protocol; `host:80:81` reads the host as the
  remote one.
- The help text gives 0.0.0.0 as the default of the remote host (`main.go:317`), the code
  takes 127.0.0.1; the comment at `remote.go:14-35` gives 127.0.0.1 for the local host,
  the code takes 0.0.0.0. The cases of `remote_test.go` agree with the code, and
  `FormsAsTested` states those.
- The host before a protocol is read in lower case: a UDP stream to `Host:53` goes to
  `host:53` although the user was checked for `Host:53`.
- The client accepts SOCKS channels when it has any reverse and any SOCKS remote, also
  when no remote is both.

Server:

- A `Close` before or during `Start` fails and uses up `closeOnce`: later ones return
  nil and do nothing (`SilentCloseHasCause` says that this is the only way).
- `main` does not call `Server.Close`, so the exporter's shutdown is not run. `Wait`
  does not wait for sessions, and closing the HTTP server does not end them.
- A reload drops the user given with `--auth`, and a reload of `{}` turns
  authentication off. A change between the first load and the watch, and one made by
  renaming a file onto the path, are not reloaded.
- `StartContext` with a nil context returns an error and leaves the listener open
  (`http_server.go:46-48`; `ReturnsClosed` excepts it). `main` never does that.

## 7. Plan

Done: every part of the program that keeps state of its own, and proofs of every
safety property that a run checks. Next: the client's loop shown to implement the
`Dial` and `Cancel` of `Tunnel`.

Not modelled: key generation and certificates (`ccrypto`), the fingerprint check and the
TLS options (`server_listen.go`), which are calls into cryptographic libraries without state; the SOCKS library; flag
parsing, logging, environment variables and compatibility aliases, which are I/O;
the connection counters, which are only logged; `GoListenAndServe` and the meter,
which the program does not use.
