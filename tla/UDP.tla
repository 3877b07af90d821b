-------------------------------- MODULE UDP --------------------------------
(***************************************************************************)
(* Forwarding of UDP packets: the listener at the entry                    *)
(* (share/tunnel/tunnel_in_proxy_udp.go), the handler at the exit          *)
(* (share/tunnel/tunnel_out_ssh_udp.go) and the SSH channel between them,  *)
(* which carries packets of many sources (share/tunnel/udp.go).            *)
(*                                                                         *)
(* The listener is two goroutines in one error group: "in" reads packets   *)
(* and encodes them, "out" decodes replies and writes them back.  Both get *)
(* the channel from getUDPChan, which caches it under a mutex; one unset   *)
(* goroutine per channel empties the cache when the SSH connection ends.   *)
(* At the exit one handler goroutine per channel keeps a table from source *)
(* address to socket and starts a reader goroutine for a new socket.       *)
(*                                                                         *)
(* The cache makes a channel and the SSH connection that carries it one to *)
(* one, so a channel is named by its connection.  Of a payload only the    *)
(* source that sent it is kept.  The tunnel is what Tunnel.tla shows of    *)
(* it: getSSH returns the active connection, which may be dead already,    *)
(* and may return nil whenever there is none (time-out, or a barrier that  *)
(* an earlier closer took down).                                           *)
(***************************************************************************)
EXTENDS Integers, Sequences, FiniteSets

CONSTANTS
  Srcs,        \* addresses of the UDP senders
  MaxSSH,      \* bound: SSH connections established in one behaviour
  MaxConns,    \* the limit maxConns of handleWrite
  MaxSent,     \* bound: packets the listener reads
  MaxSocks,    \* bound: sockets the handlers dial
  MaxReplies   \* bound: replies the readers take from their sockets

ASSUME SrcsAssumption == IsFiniteSet(Srcs)
ASSUME BoundsAssumption ==
  /\ MaxSSH \in Nat \ {0} /\ MaxConns \in Nat /\ MaxSent \in Nat
  /\ MaxSocks \in Nat /\ MaxReplies \in Nat

Conns == 1 .. MaxSSH
Socks == 1 .. MaxSocks
Nil == 0
Sides == {"in", "out"}
Packet == [src : Srcs \cup {Nil}, pay : Srcs \cup {Nil}]
ZeroPacket == [src |-> Nil, pay |-> Nil]
Socket == [conn : Conns, src : Srcs]

VARIABLES
  ctxDone,   \* the context of BindRemotes is cancelled
  dialled,   \* SSH connections established so far
  live,      \* those that are open
  active,    \* Tunnel.activeConn
  mu,        \* holder of outboundMut while it waits for SSH, or "free"
  outbound,  \* udpListener.outbound
  unset,     \* the unsetUDPChan goroutine of each channel
  pc,        \* control state of runInbound and runOutbound
  uc,        \* the channel (before that, the connection) each works with
  pkt,       \* the packet each holds
  res,       \* what each returned, and "running" before
  chan,      \* each SSH channel: "none", "open", or "closed" by the exit
  up,        \* packets on their way to the exit
  down,      \* replies on their way to the entry
  hpc,       \* control state of handleUDP, one per channel
  hpkt,      \* the packet it handles
  hsock,     \* the socket it writes to
  m,         \* udpConns.m, one per handler
  sock,      \* the sockets dialled, in order: who they belong to
  sopen,     \* sockets not closed
  wrote,     \* payloads written to each socket: what may be answered
  rpc,       \* control state of handleRead, one per socket
  sent,      \* packets read by the listener
  replies,   \* replies read by readers
  got        \* history: what the listener wrote back, and to whom

tunVars == <<ctxDone, dialled, live, active>>
cacheVars == <<mu, outbound, unset>>
listenVars == <<pc, uc, pkt, res>>
wireVars == <<chan, up, down>>
handlerVars == <<hpc, hpkt, hsock>>
sockVars == <<m, sock, sopen, wrote, rpc>>
countVars == <<sent, replies, got>>
vars == <<tunVars, cacheVars, listenVars, wireVars, handlerVars, sockVars,
          countVars>>

\* The context of the listener's error group: the first error cancels it.
egDone == ctxDone \/ \E g \in Sides : res[g] = "err"

-----------------------------------------------------------------------------
(* The tunnel, as the listener meets it.                                   *)

\* The next connection is established and BindSSH marks it, without a look at
\* the context: one set up before the cancel is bound after it all the same.
Connect ==
  /\ active = Nil /\ dialled < MaxSSH
  /\ dialled' = dialled + 1
  /\ live' = live \cup {dialled + 1}
  /\ active' = dialled + 1
  /\ UNCHANGED <<ctxDone, cacheVars, listenVars, wireVars, handlerVars,
                 sockVars, countVars>>

\* A connection ends: the network, the peer, or the cancelled context.
Drop(c) ==
  /\ c \in live
  /\ live' = live \ {c}
  /\ UNCHANGED <<ctxDone, dialled, active, cacheVars, listenVars, wireVars,
                 handlerVars, sockVars, countVars>>

\* BindSSH returns from Wait and clears activeConn.
ClearActive ==
  /\ active # Nil /\ active \notin live
  /\ active' = Nil
  /\ UNCHANGED <<ctxDone, dialled, live, cacheVars, listenVars, wireVars,
                 handlerVars, sockVars, countVars>>

Cancel ==
  /\ ~ctxDone
  /\ ctxDone' = TRUE
  /\ UNCHANGED <<dialled, live, active, cacheVars, listenVars, wireVars,
                 handlerVars, sockVars, countVars>>

-----------------------------------------------------------------------------
(* The listener: the loops and getUDPChan, which both goroutines call.     *)

\* Goroutine g returns.
Return(g, r) ==
  /\ pc' = [pc EXCEPT ![g] = "ended"]
  /\ res' = [res EXCEPT ![g] = r]
  /\ uc' = [uc EXCEPT ![g] = Nil]
  /\ pkt' = [pkt EXCEPT ![g] = ZeroPacket]

\* It goes on with its loop; what it held is out of scope.
Continue(g) ==
  /\ pc' = [pc EXCEPT ![g] = "top"]
  /\ uc' = [uc EXCEPT ![g] = Nil]
  /\ pkt' = [pkt EXCEPT ![g] = ZeroPacket]
  /\ UNCHANGED res

\* for !isDone(ctx)
Top(g) ==
  /\ pc[g] = "top"
  /\ IF egDone
       THEN Return(g, "nil")
       ELSE /\ pc' = [pc EXCEPT ![g] = IF g = "in" THEN "read" ELSE "chan"]
            /\ UNCHANGED <<uc, pkt, res>>
  /\ UNCHANGED <<tunVars, cacheVars, wireVars, handlerVars, sockVars,
                 countVars>>

\* getUDPChan takes the mutex: the cached channel, or bind a new one (getSSH
\* returns nil at once when the context is done).
LockIgnoresCache(g) ==
  /\ pc[g] = "chan" /\ mu = "free"
  /\ mu' = g
  /\ pc' = [pc EXCEPT ![g] = "getSSH"]
  /\ UNCHANGED <<tunVars, outbound, unset, uc, pkt, res, wireVars,
                 handlerVars, sockVars, countVars>>

Lock(g) ==
  /\ pc[g] = "chan" /\ mu = "free"
  /\ \/ /\ outbound # Nil
        /\ uc' = [uc EXCEPT ![g] = outbound]
        /\ pc' = [pc EXCEPT ![g] = "use"]
        /\ UNCHANGED <<mu, pkt, res>>
     \/ /\ outbound = Nil /\ ~egDone
        /\ mu' = g
        /\ pc' = [pc EXCEPT ![g] = "getSSH"]
        /\ UNCHANGED <<uc, pkt, res>>
     \/ /\ outbound = Nil /\ egDone
        /\ Return(g, "err")
        /\ UNCHANGED mu
  /\ UNCHANGED <<tunVars, outbound, unset, wireVars, handlerVars,
                 sockVars, countVars>>

\* getSSH finds a connection ...
GetSSH(g) ==
  /\ pc[g] = "getSSH" /\ active # Nil
  /\ uc' = [uc EXCEPT ![g] = active]
  /\ pc' = [pc EXCEPT ![g] = "open"]
  /\ UNCHANGED <<tunVars, cacheVars, pkt, res, wireVars, handlerVars,
                 sockVars, countVars>>

\* ... or returns nil, and "ssh-conn nil" ends the goroutine.
GetSSHNilKeepsMutex(g) ==
  /\ pc[g] = "getSSH" /\ (egDone \/ active = Nil)
  /\ Return(g, "err")
  /\ UNCHANGED <<tunVars, cacheVars, wireVars, handlerVars, sockVars,
                 countVars>>

GetSSHNil(g) ==
  /\ pc[g] = "getSSH" /\ (egDone \/ active = Nil)
  /\ mu' = "free"
  /\ Return(g, "err")
  /\ UNCHANGED <<tunVars, outbound, unset, wireVars, handlerVars,
                 sockVars, countVars>>

\* The peer's handleSSHChannel accepts the channel and enters handleUDP.
Accept(c) ==
  /\ chan' = [chan EXCEPT ![c] = "open"]
  /\ hpc' = [hpc EXCEPT ![c] = "decode"]
  /\ UNCHANGED <<up, down, hpkt, hsock>>

\* OpenChannel succeeds: the unset goroutine starts and the channel is cached.
Open(g) ==
  /\ pc[g] = "open" /\ uc[g] \in live
  /\ Accept(uc[g])
  /\ mu' = "free"
  /\ outbound' = uc[g]
  /\ unset' = [unset EXCEPT ![uc[g]] = "waiting"]
  /\ pc' = [pc EXCEPT ![g] = "use"]
  /\ UNCHANGED <<tunVars, uc, pkt, res, sockVars, countVars>>

\* OpenChannel fails on a dead connection: with an error that ends in EOF the
\* loop goes on, with any other the goroutine ends.
OpenFails(g) ==
  /\ pc[g] = "open" /\ uc[g] \notin live
  /\ mu' = "free"
  /\ Continue(g) \/ Return(g, "err")
  /\ UNCHANGED <<tunVars, outbound, unset, wireVars, handlerVars,
                 sockVars, countVars>>

\* unsetUDPChan: wait for the connection's end, then empty the cache.
Unset(c) ==
  /\ unset[c] = "waiting" /\ c \notin live /\ mu = "free"
  /\ unset' = [unset EXCEPT ![c] = "ended"]
  /\ outbound' = Nil
  /\ UNCHANGED <<tunVars, mu, listenVars, wireVars, handlerVars, sockVars,
                 countVars>>

-----------------------------------------------------------------------------
(* runInbound                                                              *)

\* ReadFromUDP returns a packet of source a ...
ReadPacket(a) ==
  /\ pc["in"] = "read" /\ sent < MaxSent
  /\ sent' = sent + 1
  /\ pkt' = [pkt EXCEPT !["in"] = [src |-> a, pay |-> a]]
  /\ pc' = [pc EXCEPT !["in"] = "chan"]
  /\ UNCHANGED <<tunVars, cacheVars, uc, res, wireVars, handlerVars, sockVars,
                 replies, got>>

\* ... or the deadline of one second passes, or the read fails.
ReadNothing ==
  /\ pc["in"] = "read"
  /\ Continue("in") \/ Return("in", "err")
  /\ UNCHANGED <<tunVars, cacheVars, wireVars, handlerVars, sockVars,
                 countVars>>

Carries(c) == c \in live /\ chan[c] = "open"

\* encode writes the packet to the channel; a channel that ended gives EOF and
\* drops the packet, a connection that ended may give another error.
Encode ==
  LET c == uc["in"] IN
  /\ pc["in"] = "use"
  /\ \/ /\ Carries(c)
        /\ up' = [up EXCEPT ![c] = Append(@, pkt["in"])]
        /\ Continue("in")
     \/ ~Carries(c) /\ Continue("in") /\ UNCHANGED up
     \/ c \notin live /\ Return("in", "err") /\ UNCHANGED up
  /\ UNCHANGED <<tunVars, cacheVars, chan, down, handlerVars,
                 sockVars, countVars>>

-----------------------------------------------------------------------------
(* runOutbound                                                             *)

\* decode returns the next reply ...
DecodeReply ==
  LET c == uc["out"] IN
  /\ pc["out"] = "use" /\ down[c] # << >>
  /\ pkt' = [pkt EXCEPT !["out"] = Head(down[c])]
  /\ down' = [down EXCEPT ![c] = Tail(@)]
  /\ pc' = [pc EXCEPT !["out"] = "write"]
  /\ UNCHANGED <<tunVars, cacheVars, uc, res, chan, up, handlerVars, sockVars,
                 countVars>>

\* ... EOF, when the exit closed the channel or the connection ended (what was
\* still on its way is lost with it) ...
AtEOF(c) == c \notin live \/ (chan[c] = "closed" /\ down[c] = << >>)

DecodeEOF ==
  LET c == uc["out"] IN
  /\ pc["out"] = "use" /\ AtEOF(c)
  /\ down' = [down EXCEPT ![c] = << >>]
  /\ Continue("out")
  /\ UNCHANGED <<tunVars, cacheVars, chan, up, handlerVars, sockVars,
                 countVars>>

\* ... or, when the connection ended inside a message, ErrUnexpectedEOF.
DecodeError ==
  /\ pc["out"] = "use" /\ uc["out"] \notin live
  /\ Return("out", "err")
  /\ UNCHANGED <<tunVars, cacheVars, wireVars, handlerVars, sockVars,
                 countVars>>

\* WriteToUDP sends the reply to its address, or fails.
WriteBack ==
  /\ pc["out"] = "write"
  /\ \/ /\ got' = got \cup {pkt["out"]}
        /\ Continue("out")
     \/ Return("out", "err") /\ UNCHANGED got
  /\ UNCHANGED <<tunVars, cacheVars, wireVars, handlerVars, sockVars,
                 sent, replies>>

-----------------------------------------------------------------------------
(* The exit: handleUDP and handleWrite, one goroutine per channel.         *)

Entries(c) == {a \in Srcs : m[c][a] # Nil}

BelowLimitBefore(c) == Cardinality(Entries(c)) - 1 <= MaxConns

BelowLimit(c) == Cardinality(Entries(c)) <= MaxConns

\* The table has no socket for source a.
MissingAlways(c, a) == TRUE

Missing(c, a) == m[c][a] = Nil

\* Decode a packet and find its source in the table.
DialKnown(c) ==
  LET p == Head(up[c]) IN
  /\ hpc[c] = "decode" /\ up[c] # << >> /\ ~Missing(c, p.src)
  /\ up' = [up EXCEPT ![c] = Tail(@)]
  /\ hpkt' = [hpkt EXCEPT ![c] = p]
  /\ hsock' = [hsock EXCEPT ![c] = m[c][p.src]]
  /\ hpc' = [hpc EXCEPT ![c] = "write"]
  /\ UNCHANGED <<tunVars, cacheVars, listenVars, chan, down, sockVars,
                 countVars>>

\* Decode a packet of a source that is not in the table: dial a socket.
DialNew(c) ==
  LET p == Head(up[c])
      s == Len(sock) + 1
  IN
  /\ hpc[c] = "decode" /\ up[c] # << >> /\ Missing(c, p.src)
  /\ s <= MaxSocks
  /\ up' = [up EXCEPT ![c] = Tail(@)]
  /\ hpkt' = [hpkt EXCEPT ![c] = p]
  /\ sock' = Append(sock, [conn |-> c, src |-> p.src])
  /\ sopen' = sopen \cup {s}
  /\ m' = [m EXCEPT ![c][p.src] = s]
  /\ hsock' = [hsock EXCEPT ![c] = s]
  /\ hpc' = [hpc EXCEPT ![c] = "spawn"]
  /\ UNCHANGED <<tunVars, cacheVars, listenVars, chan, down, wrote, rpc,
                 countVars>>

\* The new socket gets a reader unless the table is over its limit.
Spawn(c) ==
  /\ hpc[c] = "spawn"
  /\ rpc' = IF BelowLimit(c) THEN [rpc EXCEPT ![hsock[c]] = "reading"]
                             ELSE rpc
  /\ hpc' = [hpc EXCEPT ![c] = "write"]
  /\ UNCHANGED <<tunVars, cacheVars, listenVars, wireVars, hpkt, hsock, m,
                 sock, sopen, wrote, countVars>>

\* conn.Write of the payload.
WriteOut(c) ==
  /\ hpc[c] = "write" /\ hsock[c] \in sopen
  /\ wrote' = [wrote EXCEPT ![hsock[c]] = @ \cup {hpkt[c].pay}]
  /\ hpc' = [hpc EXCEPT ![c] = "decode"]
  /\ hpkt' = [hpkt EXCEPT ![c] = ZeroPacket]
  /\ hsock' = [hsock EXCEPT ![c] = Nil]
  /\ UNCHANGED <<tunVars, cacheVars, listenVars, wireVars, m, sock, sopen, rpc,
                 countVars>>

\* An error ends handleUDP: the channel's end, a name that does not resolve, a
\* write refused by the destination's host.  Packets still on their way are
\* lost with it.
HandlerFails(c) ==
  /\ \/ hpc[c] = "decode" /\ (c \notin live \/ up[c] # << >>)
     \/ hpc[c] = "write"
  /\ hpc' = [hpc EXCEPT ![c] = "closing"]
  /\ hpkt' = [hpkt EXCEPT ![c] = ZeroPacket]
  /\ hsock' = [hsock EXCEPT ![c] = Nil]
  /\ up' = [up EXCEPT ![c] = << >>]
  /\ UNCHANGED <<tunVars, cacheVars, listenVars, chan, down, sockVars,
                 countVars>>

\* The deferred closeAll, and handleSSHChannel's deferred close of the stream.
CloseAll(c) ==
  /\ hpc[c] = "closing"
  /\ sopen' = sopen \ {m[c][a] : a \in Entries(c)}
  /\ m' = [m EXCEPT ![c] = [a \in Srcs |-> Nil]]
  /\ chan' = [chan EXCEPT ![c] = "closed"]
  /\ hpc' = [hpc EXCEPT ![c] = "ended"]
  /\ UNCHANGED <<tunVars, cacheVars, listenVars, up, down, hpkt, hsock, sock,
                 wrote, rpc, countVars>>

-----------------------------------------------------------------------------
(* The exit: handleRead, one goroutine per socket with a reader.           *)

\* The address a reader puts on its replies: that of the packet it was
\* started with.
ReplySrcLatest(s) == hpkt[sock[s].conn].src

ReplySrc(s) == sock[s].src

\* An answer to something written to the socket arrives before the deadline
\* and is encoded back; when the channel has ended the reader stops.
ReadReply(s, b) ==
  LET c == sock[s].conn IN
  /\ rpc[s] = "reading" /\ s \in sopen /\ b \in wrote[s]
  /\ replies < MaxReplies
  /\ replies' = replies + 1
  /\ IF Carries(c)
       THEN /\ down' = [down EXCEPT ![c] =
                          Append(@, [src |-> ReplySrc(s), pay |-> b])]
            /\ UNCHANGED rpc
       ELSE rpc' = [rpc EXCEPT ![s] = "remove"] /\ UNCHANGED down
  /\ UNCHANGED <<tunVars, cacheVars, listenVars, chan, up, handlerVars, m,
                 sock, sopen, wrote, sent, got>>

\* The deadline passes, or the read fails because the socket is closed.
ReadEnds(s) ==
  /\ rpc[s] = "reading"
  /\ rpc' = [rpc EXCEPT ![s] = "remove"]
  /\ UNCHANGED <<tunVars, cacheVars, listenVars, wireVars, handlerVars, m,
                 sock, sopen, wrote, countVars>>

\* The deferred remove: the entry goes, the socket is not closed.
RemoveCloses(s) ==
  /\ rpc[s] = "remove"
  /\ m' = [m EXCEPT ![sock[s].conn][sock[s].src] = Nil]
  /\ sopen' = sopen \ {s}
  /\ rpc' = [rpc EXCEPT ![s] = "ended"]
  /\ UNCHANGED <<tunVars, cacheVars, listenVars, wireVars, handlerVars, sock,
                 wrote, countVars>>

Remove(s) ==
  /\ rpc[s] = "remove"
  /\ m' = [m EXCEPT ![sock[s].conn][sock[s].src] = Nil]
  /\ rpc' = [rpc EXCEPT ![s] = "ended"]
  /\ UNCHANGED <<tunVars, cacheVars, listenVars, wireVars, handlerVars, sock,
                 sopen, wrote, countVars>>

-----------------------------------------------------------------------------
Init ==
  /\ ctxDone = FALSE /\ dialled = 0 /\ live = {} /\ active = Nil
  /\ mu = "free" /\ outbound = Nil /\ unset = [c \in Conns |-> "none"]
  /\ pc = [g \in Sides |-> "top"] /\ uc = [g \in Sides |-> Nil]
  /\ pkt = [g \in Sides |-> ZeroPacket] /\ res = [g \in Sides |-> "running"]
  /\ chan = [c \in Conns |-> "none"]
  /\ up = [c \in Conns |-> << >>] /\ down = [c \in Conns |-> << >>]
  /\ hpc = [c \in Conns |-> "none"] /\ hpkt = [c \in Conns |-> ZeroPacket]
  /\ hsock = [c \in Conns |-> Nil]
  /\ m = [c \in Conns |-> [a \in Srcs |-> Nil]]
  /\ sock = << >> /\ sopen = {} /\ wrote = [s \in Socks |-> {}]
  /\ rpc = [s \in Socks |-> "none"]
  /\ sent = 0 /\ replies = 0 /\ got = {}

Side(g) == \/ Top(g) \/ Lock(g) \/ GetSSH(g) \/ GetSSHNil(g)
           \/ Open(g) \/ OpenFails(g)

Inbound == Side("in") \/ (\E a \in Srcs : ReadPacket(a)) \/ ReadNothing
           \/ Encode

Outbound == Side("out") \/ DecodeReply \/ DecodeEOF \/ DecodeError
            \/ WriteBack

Handler(c) == DialKnown(c) \/ DialNew(c) \/ Spawn(c) \/ WriteOut(c)
              \/ HandlerFails(c) \/ CloseAll(c)

Reader(s) == (\E b \in Srcs : ReadReply(s, b)) \/ ReadEnds(s) \/ Remove(s)

Next ==
  \/ Connect \/ ClearActive \/ Cancel
  \/ \E c \in Conns : Drop(c) \/ Unset(c) \/ Handler(c)
  \/ Inbound \/ Outbound
  \/ \E s \in Socks : Reader(s)

Spec == Init /\ [][Next]_vars

-----------------------------------------------------------------------------
(* Properties                                                              *)

TunType ==
  /\ ctxDone \in BOOLEAN /\ dialled \in 0 .. MaxSSH
  /\ live \subseteq Conns /\ active \in Conns \cup {Nil}

CacheType ==
  /\ mu \in Sides \cup {"free"} /\ outbound \in Conns \cup {Nil}
  /\ unset \in [Conns -> {"none", "waiting", "ended"}]

ListenType ==
  /\ pc \in [Sides -> {"top", "read", "chan", "getSSH", "open", "use", "write",
                       "ended"}]
  /\ uc \in [Sides -> Conns \cup {Nil}] /\ pkt \in [Sides -> Packet]
  /\ res \in [Sides -> {"running", "nil", "err"}]

WireType ==
  /\ chan \in [Conns -> {"none", "open", "closed"}]
  /\ up \in [Conns -> Seq(Packet)] /\ down \in [Conns -> Seq(Packet)]

HandlerType ==
  /\ hpc \in [Conns -> {"none", "decode", "spawn", "write", "closing", "ended"}]
  /\ hpkt \in [Conns -> Packet] /\ hsock \in [Conns -> Socks \cup {Nil}]

SockType ==
  /\ m \in [Conns -> [Srcs -> Socks \cup {Nil}]]
  /\ sock \in Seq(Socket) /\ Len(sock) <= MaxSocks
  /\ sopen \subseteq Socks /\ wrote \in [Socks -> SUBSET Srcs]
  /\ rpc \in [Socks -> {"none", "reading", "remove", "ended"}]

CountType ==
  /\ sent \in 0 .. MaxSent /\ replies \in 0 .. MaxReplies
  /\ got \subseteq Packet

TypeOK == /\ TunType /\ CacheType /\ ListenType /\ WireType /\ HandlerType
          /\ SockType /\ CountType

\* What the listener sends back to an address answers a packet that came from
\* that address, through one channel shared by all of them, across packets
\* handled while older readers still wait and across reconnects
\* (tunnel_in_proxy_udp.go:30-32, tunnel_out_ssh_udp.go:80-104).
ReplyToSender == \A p \in got : p.src = p.pay

Running(s) == rpc[s] \in {"reading", "remove"}
ReadersOf(c) == {s \in DOMAIN sock : Running(s) /\ sock[s].conn = c}

\* A channel never has more reader goroutines than maxConns, though the limit
\* is checked against the size of the table, after the entry was made and
\* outside its lock (tunnel_out_ssh_udp.go:65-72).
ReadersBounded == \A c \in Conns : Cardinality(ReadersOf(c)) <= MaxConns

\* While the handler runs, the entry a reader will remove is its own: remove
\* deletes by source address and would drop the socket of a later dial
\* (tunnel_out_ssh_udp.go:82, 137).
RemovesOwnEntry ==
  \A s \in DOMAIN sock :
    Running(s) /\ hpc[sock[s].conn] # "ended"
      => m[sock[s].conn][sock[s].src] = s

\* The socket handleWrite is about to write to is open, although its reader
\* may have timed out and removed the entry since dial returned it: a closed
\* one would fail the write and end the channel for every source
\* (tunnel_out_ssh_udp.go:54-76).
WritesToOpenSocket ==
  \A c \in Conns : hpc[c] = "write" => hsock[c] \in sopen

\* When the handler has ended, the only sockets left open are those whose
\* reader gave them up: the ones over the limit, which never had a reader, are
\* closed with the rest (tunnel_out_ssh_udp.go:20, 143).
ClosedWithHandler ==
  \A s \in sopen : hpc[sock[s].conn] = "ended" => rpc[s] = "ended"

\* A pending unsetUDPChan belongs to the channel that is cached, and a cached
\* channel has one: a goroutine of an old connection never throws away the
\* channel of a new one, and no channel stays cached for want of one
\* (tunnel_in_proxy_udp.go:152-191).
UnsetsOwnChannel ==
  \A c \in Conns : unset[c] = "waiting" <=> outbound = c

\* Goroutine g has a step: only the mutex and decode can hold one up, since
\* getSSH and the read of a packet have deadlines.
CanMove(g) ==
  \/ pc[g] \in {"top", "getSSH", "open"}
  \/ pc[g] = "chan" /\ mu = "free"
  \/ g = "in" /\ pc[g] \in {"read", "use"}
  \/ g = "out" /\ pc[g] = "use" /\ (down[uc[g]] # << >> \/ AtEOF(uc[g]))
  \/ g = "out" /\ pc[g] = "write"

\* Once the context is done and the connections have ended, no goroutine is
\* blocked for good, neither in decode, which does not look at the context, nor
\* on the mutex, which one holds while it waits for SSH
\* (tunnel_in_proxy_udp.go:119-183): each has returned, or can move, or waits
\* for the mutex of the other one, which can.
NotStuck ==
  ctxDone /\ live = {} =>
    \A g \in Sides :
      \/ pc[g] = "ended" \/ CanMove(g)
      \/ pc[g] = "chan" /\ mu \in Sides \ {g} /\ CanMove(mu)
=============================================================================
