------------------------------ MODULE UDPProofs ------------------------------
(***************************************************************************)
(* What UDP forwarding keeps, for any sources, limit, number of            *)
(* connections, packets, sockets and replies.                              *)
(***************************************************************************)
EXTENDS UDP, FunctionTheorems, FiniteSetTheorems, TLAPS

USE DEF tunVars, cacheVars, listenVars, wireVars, handlerVars, sockVars,
        countVars, Conns, Socks, Sides, Nil

-----------------------------------------------------------------------------
(* The inductive invariant.                                                *)

\* Who holds the mutex waits for SSH and finds the cache empty, so no unset
\* goroutine waits; a connection whose channel was given up is dead and will not
\* be used again.
Cache ==
  /\ UnsetsOwnChannel
  /\ mu \in Sides => pc[mu] \in {"getSSH", "open"}
  /\ pc["in"] # "write" /\ pc["out"] # "read"
  /\ \A g \in Sides : pc[g] \in {"getSSH", "open"} => mu = g /\ outbound = 0
  /\ \A g \in Sides : pc[g] \in {"open", "use"} => uc[g] # 0
  /\ live \subseteq 1 .. dialled
  /\ \A c \in Conns : unset[c] = "ended" => c \notin live
  /\ \A c \in Conns : unset[c] # "none" => c <= dialled
  /\ \A c \in Conns : unset[c] = "none" <=> hpc[c] = "none"

\* A packet that carries a payload of its own source.
Own == {p \in [src : Srcs, pay : Srcs] : p.src = p.pay}

\* Every packet on its way is of that kind, and what was written to a socket
\* came from the source the socket was dialled for.
Packets ==
  /\ pc["in"] \in {"chan", "getSSH", "open", "use"} => pkt["in"] \in Own
  /\ pc["out"] = "write" => pkt["out"] \in Own
  /\ up \in [Conns -> Seq(Own)] /\ down \in [Conns -> Seq(Own)]
  /\ \A c \in Conns : hpc[c] \in {"spawn", "write"} => hpkt[c] \in Own
  /\ \A s \in Socks : \A b \in wrote[s] : s <= Len(sock) /\ b = sock[s].src
  /\ got \subseteq Own

\* The table and the sockets.  A socket not dialled yet has no reader; an entry
\* is an open socket of its source; a socket stays in the table until its
\* reader or the handler ends; and the handler works with an open socket of
\* the packet it holds.
Fresh ==
  /\ sopen \subseteq 1 .. Len(sock)
  /\ \A s \in Socks : s > Len(sock) => rpc[s] = "none"

Entry ==
  \A c \in Conns, a \in Srcs : m[c][a] # 0 =>
    m[c][a] \in sopen /\ sock[m[c][a]].conn = c /\ sock[m[c][a]].src = a

Held ==
  \A s \in 1 .. Len(sock) :
    rpc[s] # "ended" /\ hpc[sock[s].conn] # "ended"
      => m[sock[s].conn][sock[s].src] = s

Busy ==
  \A c \in Conns :
    /\ hpc[c] \in {"spawn", "write"} =>
         hsock[c] \in sopen /\ sock[hsock[c]].conn = c
           /\ sock[hsock[c]].src = hpkt[c].src
    /\ hpc[c] = "spawn" => rpc[hsock[c]] = "none"

Table == Fresh /\ Entry /\ Held /\ Busy /\ ClosedWithHandler

IInv == TypeOK /\ Cache /\ Packets /\ Table /\ ReadersBounded

-----------------------------------------------------------------------------
USE BoundsAssumption

LEMMA InitIInv == Init => IInv
<1> SUFFICES ASSUME Init PROVE IInv
  OBVIOUS
<1>1. TypeOK
  <2>1. TunType
    <3>1. ctxDone \in BOOLEAN
      BY Zenon DEF Init
    <3>2. dialled \in 0 .. MaxSSH /\ live \subseteq Conns /\ active \in Conns \cup {0}
      BY DEF Init
    <3> QED
      BY <3>1, <3>2 DEF TunType
  <2>2. CacheType /\ CountType
    BY DEF Init, CacheType, CountType
  <2>3. ListenType
    BY DEF Init, ListenType, Packet, ZeroPacket
  <2>4. WireType
    BY DEF Init, WireType
  <2>5. HandlerType
    BY DEF Init, HandlerType, Packet, ZeroPacket
  <2>6. SockType
    BY DEF Init, SockType
  <2> QED
    BY <2>1, <2>2, <2>3, <2>4, <2>5, <2>6 DEF TypeOK
<1>2. Cache
  BY DEF Init, Cache, UnsetsOwnChannel
<1>3. Packets
  BY DEF Init, Packets
<1>4. Table
  BY DEF Init, Table, Fresh, Entry, Held, Busy, ClosedWithHandler
<1>5. ReadersBounded
  <2> SUFFICES ASSUME NEW c \in Conns PROVE Cardinality(ReadersOf(c)) <= MaxConns
    BY DEF ReadersBounded
  <2>1. ReadersOf(c) = {}
    BY DEF Init, ReadersOf
  <2> QED
    BY <2>1, FS_EmptySet
<1> QED
  BY <1>1, <1>2, <1>3, <1>4, <1>5 DEF IInv

-----------------------------------------------------------------------------
(* Types, one group of variables at a time.                                *)

\* The connections of the tunnel keep their types.
LEMMA TunTypeStep ==
  ASSUME TunType, [Next]_vars
  PROVE  TunType'
<1>1. \/ UNCHANGED <<tunVars>>
      \/ Connect \/ ClearActive \/ Cancel
      \/ \E c \in Conns : Drop(c)
  BY DEF Next, vars, Inbound, Outbound, Side, Handler, Reader, Unset, Top,
    Lock, GetSSH, GetSSHNil, Open, Accept, OpenFails, ReadPacket, ReadNothing, Encode,
    DecodeReply, DecodeEOF, DecodeError, WriteBack, DialKnown, DialNew, Spawn,
    WriteOut, HandlerFails, CloseAll, ReadReply, ReadEnds, Remove, Continue,
    Return
<1>2. CASE UNCHANGED <<tunVars>>
  BY <1>2 DEF TunType
<1>3. CASE Connect
  BY <1>3 DEF TunType, Connect
<1>4. CASE ClearActive
  BY <1>4 DEF TunType, ClearActive
<1>5. CASE Cancel
  BY <1>5 DEF TunType, Cancel
<1>6. ASSUME NEW c \in Conns, Drop(c) PROVE TunType'
  BY <1>6 DEF TunType, Drop
<1> QED
  BY <1>1, <1>2, <1>3, <1>4, <1>5, <1>6

\* So do the mutex and the cache ...
LEMMA CacheTypeStep ==
  ASSUME CacheType, ListenType, [Next]_vars
  PROVE  CacheType'
<1>1. \/ UNCHANGED <<cacheVars>>
      \/ \E c \in Conns : Unset(c)
      \/ \E g \in Sides : Lock(g) \/ GetSSHNil(g) \/ Open(g) \/ OpenFails(g)
  BY DEF Next, vars, Inbound, Outbound, Side, Handler, Reader, Connect,
    ClearActive, Cancel, Drop, Top, GetSSH, ReadPacket, ReadNothing, Encode,
    DecodeReply, DecodeEOF, DecodeError, WriteBack, DialKnown, DialNew, Spawn,
    WriteOut, HandlerFails, CloseAll, ReadReply, ReadEnds, Remove, Continue,
    Return
<1>2. CASE UNCHANGED <<cacheVars>>
  BY <1>2 DEF CacheType
<1>3. ASSUME NEW c \in Conns, Unset(c) PROVE CacheType'
  BY <1>3 DEF CacheType, ListenType, Unset
<1>4. ASSUME NEW g \in Sides, Lock(g) PROVE CacheType'
  BY <1>4 DEF CacheType, ListenType, Lock, Return
<1>5. ASSUME NEW g \in Sides, GetSSHNil(g) PROVE CacheType'
  BY <1>5 DEF CacheType, ListenType, GetSSHNil, Return
<1>6. ASSUME NEW g \in Sides, Open(g) PROVE CacheType'
  BY <1>6 DEF CacheType, ListenType, Open, Accept
<1>7. ASSUME NEW g \in Sides, OpenFails(g) PROVE CacheType'
  BY <1>7 DEF CacheType, ListenType, OpenFails, Return, Continue
<1> QED
  BY <1>1, <1>2, <1>3, <1>4, <1>5, <1>6, <1>7

\* ... the two goroutines of the listener ...
LEMMA ListenTypeStep ==
  ASSUME TunType, CacheType, ListenType, Cache, WireType, [Next]_vars
  PROVE  ListenType'
<1>1. \/ UNCHANGED <<listenVars>>
      \/ \E g \in Sides : Top(g) \/ Lock(g) \/ GetSSH(g) \/ GetSSHNil(g) \/
         Open(g) \/ OpenFails(g)
      \/ \E a \in Srcs : ReadPacket(a)
      \/ ReadNothing \/ Encode \/ DecodeReply \/ DecodeEOF \/ DecodeError \/
         WriteBack
  BY DEF Next, vars, Inbound, Outbound, Side, Handler, Reader, Connect,
    ClearActive, Cancel, Drop, Unset, DialKnown, DialNew, Spawn, WriteOut,
    HandlerFails, CloseAll, ReadReply, ReadEnds, Remove
<1>2. CASE UNCHANGED <<listenVars>>
  BY <1>2 DEF ListenType
<1>3. ASSUME NEW g \in Sides, Top(g) PROVE ListenType'
  BY <1>3 DEF TunType, CacheType, ListenType, Packet, ZeroPacket, Top, Return
<1>4. ASSUME NEW g \in Sides, Lock(g) PROVE ListenType'
  BY <1>4 DEF TunType, CacheType, ListenType, Packet, ZeroPacket, Lock, Return
<1>5. ASSUME NEW g \in Sides, GetSSH(g) PROVE ListenType'
  BY <1>5 DEF TunType, CacheType, ListenType, Packet, ZeroPacket, GetSSH
<1>6. ASSUME NEW g \in Sides, GetSSHNil(g) PROVE ListenType'
  BY <1>6 DEF TunType, CacheType, ListenType, Packet, ZeroPacket, GetSSHNil,
    Return
<1>7. ASSUME NEW g \in Sides, Open(g) PROVE ListenType'
  BY <1>7 DEF TunType, CacheType, ListenType, Packet, ZeroPacket, Open, Accept
<1>8. ASSUME NEW g \in Sides, OpenFails(g) PROVE ListenType'
  BY <1>8 DEF TunType, CacheType, ListenType, Packet, ZeroPacket, OpenFails,
    Return, Continue
<1>9. ASSUME NEW a \in Srcs, ReadPacket(a) PROVE ListenType'
  BY <1>9 DEF TunType, CacheType, ListenType, Packet, ZeroPacket, ReadPacket
<1>10. CASE ReadNothing
  BY <1>10 DEF TunType, CacheType, ListenType, Packet, ZeroPacket,
    ReadNothing, Return, Continue
<1>11. CASE Encode
  BY <1>11 DEF TunType, CacheType, ListenType, Packet, ZeroPacket, Encode,
    Return, Continue, Carries
<1>12. CASE DecodeReply
  <2>1. uc["out"] \in Conns /\ down[uc["out"]] \in Seq(Packet)
    BY <1>12 DEF DecodeReply, ListenType, Cache, WireType
  <2>2. Head(down[uc["out"]]) \in Packet
    BY <1>12, <2>1 DEF DecodeReply
  <2> QED
    BY <1>12, <2>2 DEF DecodeReply, ListenType
<1>13. CASE DecodeEOF
  BY <1>13 DEF TunType, CacheType, ListenType, Packet, ZeroPacket, DecodeEOF,
    Continue
<1>14. CASE DecodeError
  BY <1>14 DEF TunType, CacheType, ListenType, Packet, ZeroPacket,
    DecodeError, Return
<1>15. CASE WriteBack
  BY <1>15 DEF TunType, CacheType, ListenType, Packet, ZeroPacket, WriteBack,
    Return, Continue
<1> QED
  BY <1>1, <1>2, <1>3, <1>4, <1>5, <1>6, <1>7, <1>8, <1>9, <1>10, <1>11,
     <1>12, <1>13, <1>14, <1>15

\* ... the channels ...
LEMMA WireTypeStep ==
  ASSUME WireType, ListenType, SockType, Cache, Table, [Next]_vars
  PROVE  WireType'
<1>1. \/ UNCHANGED <<wireVars>>
      \/ \E g \in Sides : Open(g)
      \/ Encode \/ DecodeReply \/ DecodeEOF
      \/ \E c \in Conns : DialKnown(c) \/ DialNew(c) \/ HandlerFails(c) \/
         CloseAll(c)
      \/ \E s \in Socks, b \in Srcs : ReadReply(s, b)
  BY DEF Next, vars, Inbound, Outbound, Side, Handler, Reader, Connect,
    ClearActive, Cancel, Drop, Unset, Top, Lock, GetSSH, GetSSHNil, OpenFails,
    ReadPacket, ReadNothing, DecodeError, WriteBack, Spawn, WriteOut,
    ReadEnds, Remove, Continue, Return
<1>2. CASE UNCHANGED <<wireVars>>
  BY <1>2 DEF WireType
<1>3. ASSUME NEW g \in Sides, Open(g) PROVE WireType'
  BY <1>3 DEF WireType, ListenType, SockType, Open, Accept
<1>4. CASE Encode
  <2>1. uc["in"] \in Conns /\ pkt["in"] \in Packet
    BY <1>4 DEF Encode, ListenType, Cache
  <2>2. Append(up[uc["in"]], pkt["in"]) \in Seq(Packet)
    BY <2>1 DEF WireType
  <2>3. up' \in [Conns -> Seq(Packet)]
    BY <1>4, <2>2 DEF Encode, WireType
  <2> QED
    BY <1>4, <2>3 DEF Encode, WireType
<1>5. CASE DecodeReply
  <2>1. uc["out"] \in Conns /\ down[uc["out"]] \in Seq(Packet)
    BY <1>5 DEF DecodeReply, ListenType, Cache, WireType
  <2>2. Tail(down[uc["out"]]) \in Seq(Packet)
    BY <1>5, <2>1 DEF DecodeReply
  <2> QED
    BY <1>5, <2>2 DEF DecodeReply, WireType
<1>6. CASE DecodeEOF
  <2>1. << >> \in Seq(Packet)
    OBVIOUS
  <2> QED
    BY <1>6, <2>1 DEF DecodeEOF, WireType
<1>7. ASSUME NEW c \in Conns, DialKnown(c) PROVE WireType'
  BY <1>7 DEF WireType, ListenType, SockType, DialKnown, Missing
<1>8. ASSUME NEW c \in Conns, DialNew(c) PROVE WireType'
  BY <1>8 DEF WireType, ListenType, SockType, DialNew, Missing
<1>9. ASSUME NEW c \in Conns, HandlerFails(c) PROVE WireType'
  <2>1. << >> \in Seq(Packet)
    OBVIOUS
  <2> QED
    BY <1>9, <2>1 DEF HandlerFails, WireType
<1>10. ASSUME NEW c \in Conns, CloseAll(c) PROVE WireType'
  BY <1>10 DEF WireType, ListenType, SockType, CloseAll, Entries
<1>11. ASSUME NEW s \in Socks, NEW b \in Srcs, ReadReply(s, b) PROVE WireType'
  <2>1. s \in 1 .. Len(sock)
    BY <1>11 DEF ReadReply, SockType, Table, Fresh
  <2>2. sock[s] \in Socket
    BY <2>1 DEF SockType
  <2>3. [src |-> sock[s].src, pay |-> b] \in Packet
    BY <2>2 DEF Packet, Socket
  <2>4. Append(down[sock[s].conn], [src |-> sock[s].src, pay |-> b]) \in Seq(Packet)
    BY <2>2, <2>3 DEF WireType, Socket
  <2>5. down' \in [Conns -> Seq(Packet)]
    BY <1>11, <2>4 DEF ReadReply, ReplySrc, WireType
  <2> QED
    BY <1>11, <2>5 DEF ReadReply, WireType
<1> QED
  BY <1>1, <1>2, <1>3, <1>4, <1>5, <1>6, <1>7, <1>8, <1>9, <1>10, <1>11

\* ... the handlers at the exit ...
LEMMA HandlerTypeStep ==
  ASSUME HandlerType, SockType, ListenType, Packets, [Next]_vars
  PROVE  HandlerType'
<1>1. \/ UNCHANGED <<handlerVars>>
      \/ \E g \in Sides : Open(g)
      \/ \E c \in Conns : DialKnown(c) \/ DialNew(c) \/ Spawn(c) \/
         WriteOut(c) \/ HandlerFails(c) \/ CloseAll(c)
  BY DEF Next, vars, Inbound, Outbound, Side, Handler, Reader, Connect,
    ClearActive, Cancel, Drop, Unset, Top, Lock, GetSSH, GetSSHNil, OpenFails,
    ReadPacket, ReadNothing, Encode, DecodeReply, DecodeEOF, DecodeError,
    WriteBack, ReadReply, ReadEnds, Remove, Continue, Return
<1>2. CASE UNCHANGED <<handlerVars>>
  BY <1>2 DEF HandlerType
<1>3. ASSUME NEW g \in Sides, Open(g) PROVE HandlerType'
  BY <1>3 DEF HandlerType, SockType, ListenType, Packet, ZeroPacket, Open, Accept
<1>4. ASSUME NEW c \in Conns, DialKnown(c) PROVE HandlerType'
  <2>1. up[c] \in Seq(Own) /\ up[c] # << >>
    BY <1>4 DEF DialKnown, Packets
  <2>2. Head(up[c]) \in Own
    BY <2>1
  <2>3. Head(up[c]) \in Packet /\ Head(up[c]).src \in Srcs
    BY <2>2 DEF Own, Packet
  <2> QED
    BY <1>4, <2>3 DEF DialKnown, Missing, HandlerType, SockType
<1>5. ASSUME NEW c \in Conns, DialNew(c) PROVE HandlerType'
  <2>1. up[c] \in Seq(Own) /\ up[c] # << >>
    BY <1>5 DEF DialNew, Packets
  <2>2. Head(up[c]) \in Own
    BY <2>1
  <2>3. Head(up[c]) \in Packet /\ Head(up[c]).src \in Srcs
    BY <2>2 DEF Own, Packet
  <2> QED
    BY <1>5, <2>3 DEF DialNew, Missing, HandlerType, SockType
<1>6. ASSUME NEW c \in Conns, Spawn(c) PROVE HandlerType'
  BY <1>6 DEF HandlerType, SockType, ListenType, Packet, ZeroPacket, Spawn
<1>7. ASSUME NEW c \in Conns, WriteOut(c) PROVE HandlerType'
  BY <1>7 DEF HandlerType, SockType, ListenType, Packet, ZeroPacket, WriteOut
<1>8. ASSUME NEW c \in Conns, HandlerFails(c) PROVE HandlerType'
  BY <1>8 DEF HandlerType, SockType, ListenType, Packet, ZeroPacket,
    HandlerFails
<1>9. ASSUME NEW c \in Conns, CloseAll(c) PROVE HandlerType'
  BY <1>9 DEF HandlerType, SockType, ListenType, Packet, ZeroPacket, CloseAll,
    Entries
<1> QED
  BY <1>1, <1>2, <1>3, <1>4, <1>5, <1>6, <1>7, <1>8, <1>9

\* ... their sockets ...
LEMMA SockTypeStep ==
  ASSUME SockType, HandlerType, Packets, Table, [Next]_vars
  PROVE  SockType'
<1>1. \/ UNCHANGED <<sockVars>>
      \/ \E c \in Conns : DialNew(c) \/ Spawn(c) \/ WriteOut(c) \/ CloseAll(c)
      \/ \E s \in Socks, b \in Srcs : ReadReply(s, b)
      \/ \E s \in Socks : ReadEnds(s) \/ Remove(s)
  BY DEF Next, vars, Inbound, Outbound, Side, Handler, Reader, Connect,
    ClearActive, Cancel, Drop, Unset, Top, Lock, GetSSH, GetSSHNil, Open, Accept,
    OpenFails, ReadPacket, ReadNothing, Encode, DecodeReply, DecodeEOF,
    DecodeError, WriteBack, DialKnown, HandlerFails, Continue, Return
<1>2. CASE UNCHANGED <<sockVars>>
  BY <1>2 DEF SockType
<1>3. ASSUME NEW c \in Conns, DialNew(c) PROVE SockType'
  <2>1. up[c] \in Seq(Own) /\ up[c] # << >>
    BY <1>3 DEF DialNew, Packets
  <2>2. Head(up[c]) \in Own
    BY <2>1
  <2>3. [conn |-> c, src |-> Head(up[c]).src] \in Socket
    BY <2>2 DEF Own, Socket
  <2>4. /\ sock' \in Seq(Socket)
        /\ Len(sock') = Len(sock) + 1 /\ Len(sock) + 1 \in Socks
    BY <1>3, <2>3 DEF DialNew, SockType
  <2>5. m' \in [Conns -> [Srcs -> Socks \cup {0}]]
    BY <1>3, <2>4 DEF DialNew, SockType
  <2>6. sopen' \subseteq Socks
    BY <1>3, <2>4 DEF DialNew, SockType
  <2> QED
    BY <1>3, <2>4, <2>5, <2>6 DEF DialNew, SockType
<1>4. ASSUME NEW c \in Conns, Spawn(c) PROVE SockType'
  BY <1>4 DEF SockType, HandlerType, Spawn
<1>5. ASSUME NEW c \in Conns, WriteOut(c) PROVE SockType'
  <2>1. hpkt[c].pay \in Srcs
    BY <1>5 DEF WriteOut, Packets, Own
  <2> QED
    BY <1>5, <2>1 DEF WriteOut, SockType, HandlerType
<1>6. ASSUME NEW c \in Conns, CloseAll(c) PROVE SockType'
  BY <1>6 DEF SockType, HandlerType, CloseAll, Entries
<1>7. ASSUME NEW s \in Socks, NEW b \in Srcs, ReadReply(s, b) PROVE SockType'
  BY <1>7 DEF SockType, HandlerType, ReadReply, Carries, ReplySrc
<1>8. ASSUME NEW s \in Socks, ReadEnds(s) PROVE SockType'
  BY <1>8 DEF SockType, HandlerType, ReadEnds
<1>9. ASSUME NEW s \in Socks, Remove(s) PROVE SockType'
  BY <1>9 DEF SockType, HandlerType, Remove
<1> QED
  BY <1>1, <1>2, <1>3, <1>4, <1>5, <1>6, <1>7, <1>8, <1>9

\* ... and the counters.
LEMMA CountTypeStep ==
  ASSUME CountType, ListenType, [Next]_vars
  PROVE  CountType'
<1>1. \/ UNCHANGED <<countVars>>
      \/ \E a \in Srcs : ReadPacket(a)
      \/ WriteBack
      \/ \E s \in Socks, b \in Srcs : ReadReply(s, b)
  BY DEF Next, vars, Inbound, Outbound, Side, Handler, Reader, Connect,
    ClearActive, Cancel, Drop, Unset, Top, Lock, GetSSH, GetSSHNil, Open, Accept,
    OpenFails, ReadNothing, Encode, DecodeReply, DecodeEOF, DecodeError,
    DialKnown, DialNew, Spawn, WriteOut, HandlerFails, CloseAll, ReadEnds,
    Remove, Continue, Return
<1>2. CASE UNCHANGED <<countVars>>
  BY <1>2 DEF CountType
<1>3. ASSUME NEW a \in Srcs, ReadPacket(a) PROVE CountType'
  BY <1>3 DEF CountType, ListenType, ReadPacket
<1>4. CASE WriteBack
  BY <1>4 DEF CountType, ListenType, WriteBack, Return, Continue
<1>5. ASSUME NEW s \in Socks, NEW b \in Srcs, ReadReply(s, b) PROVE CountType'
  BY <1>5 DEF CountType, ListenType, ReadReply, Carries, ReplySrc
<1> QED
  BY <1>1, <1>2, <1>3, <1>4, <1>5

-----------------------------------------------------------------------------
(* The parts of the invariant.                                             *)

\* The cache, its mutex and the unset goroutines.
LEMMA CacheStep ==
  ASSUME TypeOK, Cache, [Next]_vars
  PROVE  Cache'
<1>1. \/ UNCHANGED <<dialled, live, mu, outbound, unset, pc, uc, hpc>>
      \/ Connect \/ ReadNothing \/ Encode \/ DecodeReply \/ DecodeEOF \/
         DecodeError \/ WriteBack
      \/ \E c \in Conns : Drop(c) \/ Unset(c) \/ DialKnown(c) \/ DialNew(c) \/
         Spawn(c) \/ WriteOut(c) \/ HandlerFails(c) \/ CloseAll(c)
      \/ \E g \in Sides : Top(g) \/ Lock(g) \/ GetSSH(g) \/ GetSSHNil(g) \/
         Open(g) \/ OpenFails(g)
      \/ \E a \in Srcs : ReadPacket(a)
  BY DEF Next, vars, Inbound, Outbound, Side, Handler, Reader, ClearActive,
    Cancel, ReadReply, ReadEnds, Remove
<1>2. CASE UNCHANGED <<dialled, live, mu, outbound, unset, pc, uc, hpc>>
  BY <1>2 DEF Cache, UnsetsOwnChannel
<1>3. CASE Connect
  BY <1>3 DEF TypeOK, TunType, CacheType, ListenType, HandlerType, Cache,
    UnsetsOwnChannel, Connect
<1>4. ASSUME NEW c \in Conns, Drop(c) PROVE Cache'
  BY <1>4 DEF TypeOK, TunType, CacheType, ListenType, HandlerType, Cache,
    UnsetsOwnChannel, Drop
<1>5. ASSUME NEW c \in Conns, Unset(c) PROVE Cache'
  BY <1>5 DEF TypeOK, TunType, CacheType, ListenType, HandlerType, Cache,
    UnsetsOwnChannel, Unset
<1>6. ASSUME NEW g \in Sides, Top(g) PROVE Cache'
  BY <1>6 DEF TypeOK, TunType, CacheType, ListenType, HandlerType, Cache,
    UnsetsOwnChannel, Top, Return
<1>7. ASSUME NEW g \in Sides, Lock(g) PROVE Cache'
  BY <1>7 DEF TypeOK, TunType, CacheType, ListenType, HandlerType, Cache,
    UnsetsOwnChannel, Lock, Return
<1>8. ASSUME NEW g \in Sides, GetSSH(g) PROVE Cache'
  BY <1>8 DEF TypeOK, TunType, CacheType, ListenType, HandlerType, Cache,
    UnsetsOwnChannel, GetSSH
<1>9. ASSUME NEW g \in Sides, GetSSHNil(g) PROVE Cache'
  BY <1>9 DEF TypeOK, TunType, CacheType, ListenType, HandlerType, Cache,
    UnsetsOwnChannel, GetSSHNil, Return
<1>10. ASSUME NEW g \in Sides, Open(g) PROVE Cache'
  BY <1>10 DEF TypeOK, TunType, CacheType, ListenType, HandlerType, Cache,
    UnsetsOwnChannel, Open, Accept
<1>11. ASSUME NEW g \in Sides, OpenFails(g) PROVE Cache'
  BY <1>11 DEF TypeOK, TunType, CacheType, ListenType, HandlerType, Cache,
    UnsetsOwnChannel, OpenFails, Return, Continue
<1>12. ASSUME NEW a \in Srcs, ReadPacket(a) PROVE Cache'
  BY <1>12 DEF TypeOK, TunType, CacheType, ListenType, HandlerType, Cache,
    UnsetsOwnChannel, ReadPacket
<1>13. CASE ReadNothing
  BY <1>13 DEF TypeOK, TunType, CacheType, ListenType, HandlerType, Cache,
    UnsetsOwnChannel, ReadNothing, Return, Continue
<1>14. CASE Encode
  BY <1>14 DEF TypeOK, TunType, CacheType, ListenType, HandlerType, Cache,
    UnsetsOwnChannel, Encode, Return, Continue, Carries
<1>15. CASE DecodeReply
  BY <1>15 DEF TypeOK, TunType, CacheType, ListenType, HandlerType, Cache,
    UnsetsOwnChannel, DecodeReply
<1>16. CASE DecodeEOF
  BY <1>16 DEF TypeOK, TunType, CacheType, ListenType, HandlerType, Cache,
    UnsetsOwnChannel, DecodeEOF, AtEOF, Continue
<1>17. CASE DecodeError
  BY <1>17 DEF TypeOK, TunType, CacheType, ListenType, HandlerType, Cache,
    UnsetsOwnChannel, DecodeError, Return
<1>18. CASE WriteBack
  BY <1>18 DEF TypeOK, TunType, CacheType, ListenType, HandlerType, Cache,
    UnsetsOwnChannel, WriteBack, Return, Continue
<1>19. ASSUME NEW c \in Conns, DialKnown(c) PROVE Cache'
  BY <1>19 DEF TypeOK, TunType, CacheType, ListenType, HandlerType, Cache,
    UnsetsOwnChannel, DialKnown, Missing
<1>20. ASSUME NEW c \in Conns, DialNew(c) PROVE Cache'
  BY <1>20 DEF TypeOK, TunType, CacheType, ListenType, HandlerType, Cache,
    UnsetsOwnChannel, DialNew, Missing
<1>21. ASSUME NEW c \in Conns, Spawn(c) PROVE Cache'
  BY <1>21 DEF TypeOK, TunType, CacheType, ListenType, HandlerType, Cache,
    UnsetsOwnChannel, Spawn
<1>22. ASSUME NEW c \in Conns, WriteOut(c) PROVE Cache'
  BY <1>22 DEF TypeOK, TunType, CacheType, ListenType, HandlerType, Cache,
    UnsetsOwnChannel, WriteOut
<1>23. ASSUME NEW c \in Conns, HandlerFails(c) PROVE Cache'
  BY <1>23 DEF TypeOK, TunType, CacheType, ListenType, HandlerType, Cache,
    UnsetsOwnChannel, HandlerFails
<1>24. ASSUME NEW c \in Conns, CloseAll(c) PROVE Cache'
  BY <1>24 DEF TypeOK, TunType, CacheType, ListenType, HandlerType, Cache,
    UnsetsOwnChannel, CloseAll, Entries
<1> QED
  BY <1>1, <1>2, <1>3, <1>4, <1>5, <1>6, <1>7, <1>8, <1>9, <1>10, <1>11,
     <1>12, <1>13, <1>14, <1>15, <1>16, <1>17, <1>18, <1>19, <1>20, <1>21,
     <1>22, <1>23, <1>24

\* A socket belongs to a connection and a source.
LEMMA SocketFacts ==
  ASSUME SockType
  PROVE  \A s \in 1 .. Len(sock) : sock[s].conn \in Conns /\ sock[s].src \in Srcs
<1> SUFFICES ASSUME NEW s \in 1 .. Len(sock)
             PROVE  sock[s].conn \in Conns /\ sock[s].src \in Srcs
  OBVIOUS
<1>1. sock[s] \in Socket
  BY DEF SockType
<1> QED
  BY <1>1 DEF Socket

\* Payloads stay with their source.
LEMMA PacketsStep ==
  ASSUME TypeOK, Cache, Packets, Table, [Next]_vars
  PROVE  Packets'
<1>1. \/ UNCHANGED <<pc, pkt, up, down, hpc, hpkt, wrote, sock, got>>
      \/ \E g \in Sides : Top(g) \/ Lock(g) \/ GetSSH(g) \/ GetSSHNil(g) \/
         Open(g) \/ OpenFails(g)
      \/ \E a \in Srcs : ReadPacket(a)
      \/ ReadNothing \/ Encode \/ DecodeReply \/ DecodeEOF \/ DecodeError \/
         WriteBack
      \/ \E c \in Conns : DialKnown(c) \/ DialNew(c) \/ Spawn(c) \/
         WriteOut(c) \/ HandlerFails(c) \/ CloseAll(c)
      \/ \E s \in Socks, b \in Srcs : ReadReply(s, b)
  BY DEF Next, vars, Inbound, Outbound, Side, Handler, Reader, Connect,
    ClearActive, Cancel, Drop, Unset, ReadEnds, Remove
<1>2. CASE UNCHANGED <<pc, pkt, up, down, hpc, hpkt, wrote, sock, got>>
  BY <1>2 DEF Packets
<1>3. ASSUME NEW g \in Sides, Top(g) PROVE Packets'
  BY <1>3 DEF TypeOK, ListenType, HandlerType, SockType, Cache, Packets, Top,
    Return
<1>4. ASSUME NEW g \in Sides, Lock(g) PROVE Packets'
  BY <1>4 DEF TypeOK, ListenType, HandlerType, SockType, Cache, Packets, Lock,
    Return
<1>5. ASSUME NEW g \in Sides, GetSSH(g) PROVE Packets'
  BY <1>5 DEF TypeOK, ListenType, HandlerType, SockType, Cache, Packets,
    GetSSH
<1>6. ASSUME NEW g \in Sides, GetSSHNil(g) PROVE Packets'
  BY <1>6 DEF TypeOK, ListenType, HandlerType, SockType, Cache, Packets,
    GetSSHNil, Return
<1>7. ASSUME NEW g \in Sides, Open(g) PROVE Packets'
  BY <1>7 DEF TypeOK, ListenType, HandlerType, SockType, Cache, Packets, Open, Accept
<1>8. ASSUME NEW g \in Sides, OpenFails(g) PROVE Packets'
  BY <1>8 DEF TypeOK, ListenType, HandlerType, SockType, Cache, Packets,
    OpenFails, Return, Continue
<1>9. ASSUME NEW a \in Srcs, ReadPacket(a) PROVE Packets'
  <2>1. [src |-> a, pay |-> a] \in Own
    BY DEF Own
  <2> QED
    BY <1>9, <2>1 DEF ReadPacket, TypeOK, ListenType, Packets
<1>10. CASE ReadNothing
  BY <1>10 DEF TypeOK, ListenType, HandlerType, SockType, Cache, Packets,
    ReadNothing, Return, Continue
<1>11. CASE Encode
  <2>1. uc["in"] \in Conns /\ pkt["in"] \in Own
    BY <1>11 DEF Encode, TypeOK, ListenType, Cache, Packets
  <2>2. Append(up[uc["in"]], pkt["in"]) \in Seq(Own)
    BY <2>1 DEF Packets
  <2>3. up' \in [Conns -> Seq(Own)]
    BY <1>11, <2>2 DEF Encode, Packets
  <2> QED
    BY <1>11, <2>3 DEF Encode, Return, Continue, TypeOK, ListenType, Packets
<1>12. CASE DecodeReply
  BY <1>12 DEF TypeOK, ListenType, HandlerType, SockType, Cache, Packets,
    DecodeReply
<1>13. CASE DecodeEOF
  BY <1>13 DEF TypeOK, ListenType, HandlerType, SockType, Cache, Packets,
    DecodeEOF, AtEOF, Continue
<1>14. CASE DecodeError
  BY <1>14 DEF TypeOK, ListenType, HandlerType, SockType, Cache, Packets,
    DecodeError, Return
<1>15. CASE WriteBack
  BY <1>15 DEF TypeOK, ListenType, HandlerType, SockType, Cache, Packets,
    WriteBack, Return, Continue
<1>16. ASSUME NEW c \in Conns, DialKnown(c) PROVE Packets'
  <2>1. up[c] \in Seq(Own) /\ up[c] # << >>
    BY <1>16 DEF DialKnown, Packets
  <2>2. Head(up[c]) \in Own /\ Tail(up[c]) \in Seq(Own)
    BY <2>1
  <2> QED
    BY <1>16, <2>2 DEF DialKnown, TypeOK, HandlerType, Packets
<1>17. ASSUME NEW c \in Conns, DialNew(c) PROVE Packets'
  <2>1. up[c] \in Seq(Own) /\ up[c] # << >>
    BY <1>17 DEF DialNew, Packets
  <2>2. Head(up[c]) \in Own /\ Tail(up[c]) \in Seq(Own)
    BY <2>1
  <2>3. \A d \in Conns : hpc'[d] \in {"spawn", "write"} => hpkt'[d] \in Own
    BY <1>17, <2>2 DEF DialNew, TypeOK, HandlerType, Packets
  <2>4. \A s \in Socks : \A b \in wrote'[s] : s <= Len(sock') /\ b = sock'[s].src
    BY <1>17 DEF DialNew, TypeOK, SockType, Packets
  <2>5. up' \in [Conns -> Seq(Own)]
    BY <1>17, <2>2 DEF DialNew, Packets
  <2> QED
    BY <1>17, <2>3, <2>4, <2>5 DEF DialNew, Packets
<1>18. ASSUME NEW c \in Conns, Spawn(c) PROVE Packets'
  BY <1>18 DEF TypeOK, ListenType, HandlerType, SockType, Cache, Packets,
    Spawn
<1>19. ASSUME NEW c \in Conns, WriteOut(c) PROVE Packets'
  <2>1. /\ hsock[c] \in 1 .. Len(sock) /\ hpkt[c].pay = sock[hsock[c]].src
    BY <1>19 DEF WriteOut, Packets, Own, Table, Fresh, Busy
  <2>2. \A s \in Socks : \A b \in wrote'[s] : s <= Len(sock) /\ b = sock[s].src
    BY <1>19, <2>1 DEF WriteOut, TypeOK, SockType, Packets
  <2> QED
    BY <1>19, <2>2 DEF WriteOut, TypeOK, HandlerType, Packets
<1>20. ASSUME NEW c \in Conns, HandlerFails(c) PROVE Packets'
  <2>1. << >> \in Seq(Own)
    OBVIOUS
  <2> QED
    BY <1>20, <2>1 DEF HandlerFails, TypeOK, HandlerType, Packets
<1>21. ASSUME NEW c \in Conns, CloseAll(c) PROVE Packets'
  BY <1>21 DEF TypeOK, ListenType, HandlerType, SockType, Cache, Packets,
    CloseAll, Entries
<1>22. ASSUME NEW s \in Socks, NEW b \in Srcs, ReadReply(s, b) PROVE Packets'
  <2>1. s \in 1 .. Len(sock) /\ b = sock[s].src
    BY <1>22 DEF ReadReply, Packets
  <2>2. sock[s].conn \in Conns /\ sock[s].src \in Srcs
    BY <2>1, SocketFacts DEF TypeOK
  <2>3. [src |-> sock[s].src, pay |-> b] \in Own
    BY <2>1, <2>2 DEF Own
  <2>4. Append(down[sock[s].conn], [src |-> sock[s].src, pay |-> b]) \in Seq(Own)
    BY <2>2, <2>3 DEF Packets
  <2>5. down' \in [Conns -> Seq(Own)]
    BY <1>22, <2>4 DEF ReadReply, ReplySrc, Packets
  <2> QED
    BY <1>22, <2>5 DEF ReadReply, Packets
<1> QED
  BY <1>1, <1>2, <1>3, <1>4, <1>5, <1>6, <1>7, <1>8, <1>9, <1>10, <1>11,
     <1>12, <1>13, <1>14, <1>15, <1>16, <1>17, <1>18, <1>19, <1>20, <1>21,
     <1>22

\* The table and the sockets.
LEMMA TableStep ==
  ASSUME TypeOK, Cache, Packets, Table, [Next]_vars
  PROVE  Table'
<1>1. \/ UNCHANGED <<hpc, hpkt, hsock, m, sock, sopen, rpc>>
      \/ \E g \in Sides : Open(g)
      \/ \E c \in Conns : DialKnown(c) \/ DialNew(c) \/ Spawn(c) \/
         WriteOut(c) \/ HandlerFails(c) \/ CloseAll(c)
      \/ \E s \in Socks, b \in Srcs : ReadReply(s, b)
      \/ \E s \in Socks : ReadEnds(s) \/ Remove(s)
  BY DEF Next, vars, Inbound, Outbound, Side, Handler, Reader, Connect,
    ClearActive, Cancel, Drop, Unset, Top, Lock, GetSSH, GetSSHNil, OpenFails,
    ReadPacket, ReadNothing, Encode, DecodeReply, DecodeEOF, DecodeError,
    WriteBack, Continue, Return
<1>2. CASE UNCHANGED <<hpc, hpkt, hsock, m, sock, sopen, rpc>>
  BY <1>2 DEF Table, Fresh, Entry, Held, Busy, ClosedWithHandler
<1>3. ASSUME NEW g \in Sides, Open(g) PROVE Table'
  <2>1. uc[g] \in Conns /\ hpc[uc[g]] = "none"
    BY <1>3 DEF Open, Accept, TypeOK, ListenType, CacheType, Cache, UnsetsOwnChannel
  <2>2. Fresh' /\ Entry'
    BY <1>3 DEF Open, Accept, Table, Fresh, Entry
  <2>3. Held'
    BY <1>3, <2>1, SocketFacts DEF Open, Accept, TypeOK, HandlerType, Table, Held
  <2>4. Busy'
    BY <1>3, <2>1 DEF Open, Accept, TypeOK, HandlerType, Table, Busy
  <2>5. ClosedWithHandler'
    BY <1>3, <2>1 DEF Open, Accept, TypeOK, HandlerType, Table, ClosedWithHandler
  <2> QED
    BY <2>2, <2>3, <2>4, <2>5 DEF Table
<1>4. ASSUME NEW c \in Conns, DialKnown(c) PROVE Table'
  <2>1. up[c] \in Seq(Own) /\ up[c] # << >>
    BY <1>4 DEF DialKnown, Packets
  <2>2. Head(up[c]).src \in Srcs
    BY <2>1 DEF Own
  <2>3. Fresh' /\ Entry'
    BY <1>4 DEF DialKnown, Table, Fresh, Entry
  <2>4. Held'
    BY <1>4, SocketFacts DEF DialKnown, TypeOK, HandlerType, Table, Held
  <2>5. Busy'
    BY <1>4, <2>2 DEF DialKnown, Missing, TypeOK, HandlerType, Table, Entry, Busy
  <2>6. ClosedWithHandler'
    BY <1>4 DEF DialKnown, TypeOK, HandlerType, Table, ClosedWithHandler
  <2> QED
    BY <2>3, <2>4, <2>5, <2>6 DEF Table
<1>5. ASSUME NEW c \in Conns, DialNew(c) PROVE Table'
  <2> DEFINE p == Head(up[c])
             n == Len(sock) + 1
  <2>1. p \in Own
    <3>1. up[c] \in Seq(Own) /\ up[c] # << >>
      BY <1>5 DEF DialNew, Packets
    <3> QED
      BY <3>1
  <2>2. p.src \in Srcs
    BY <2>1 DEF Own
  <2>3. Len(sock) \in Nat /\ n \in Socks /\ n = Len(sock) + 1
    BY <1>5 DEF DialNew, TypeOK, SockType
  <2>4. /\ Len(sock') = n
        /\ \A s \in 1 .. Len(sock) : sock'[s] = sock[s]
        /\ sock'[n].conn = c /\ sock'[n].src = p.src
    BY <1>5, <2>3 DEF DialNew, TypeOK, SockType
  <2>5. /\ hpc' = [hpc EXCEPT ![c] = "spawn"] /\ rpc' = rpc
        /\ hpkt' = [hpkt EXCEPT ![c] = p] /\ hsock' = [hsock EXCEPT ![c] = n]
        /\ m' = [m EXCEPT ![c][p.src] = n] /\ sopen' = sopen \cup {n}
        /\ hpc[c] = "decode" /\ m[c][p.src] = 0
    BY <1>5 DEF DialNew, Missing
  <2> HIDE DEF p, n
  <2>6. Fresh'
    <3>1. sopen' \subseteq 1 .. n
      BY <2>3, <2>5 DEF Table, Fresh
    <3>2. \A s \in Socks : s > n => rpc[s] = "none"
      BY <2>3 DEF Table, Fresh
    <3> QED
      BY <3>1, <3>2, <2>4, <2>5 DEF Fresh
  <2>7. Entry'
    <3> SUFFICES ASSUME NEW d \in Conns, NEW a \in Srcs, m'[d][a] # 0
                 PROVE  /\ m'[d][a] \in sopen'
                        /\ sock'[m'[d][a]].conn = d /\ sock'[m'[d][a]].src = a
      BY DEF Entry
    <3>1. CASE d = c /\ a = p.src
      BY <3>1, <2>2, <2>4, <2>5 DEF TypeOK, SockType
    <3>2. CASE ~(d = c /\ a = p.src)
      <4>1. m'[d][a] = m[d][a]
        BY <3>2, <2>2, <2>5 DEF TypeOK, SockType
      <4>2. m[d][a] \in sopen /\ m[d][a] \in 1 .. Len(sock)
        BY <4>1 DEF Table, Entry, Fresh
      <4> QED
        BY <4>1, <4>2, <2>4, <2>5 DEF Table, Entry
    <3> QED
      BY <3>1, <3>2
  <2>8. Held'
    <3> SUFFICES ASSUME NEW s \in 1 .. Len(sock'), rpc'[s] # "ended",
                        hpc'[sock'[s].conn] # "ended"
                 PROVE  m'[sock'[s].conn][sock'[s].src] = s
      BY DEF Held
    <3>1. CASE s = n
      BY <3>1, <2>2, <2>4, <2>5 DEF TypeOK, SockType
    <3>2. CASE s \in 1 .. Len(sock)
      <4>1. sock[s].conn \in Conns /\ sock[s].src \in Srcs /\ s # 0
        BY <3>2, SocketFacts DEF TypeOK
      <4>2. m[sock[s].conn][sock[s].src] = s
        BY <3>2, <4>1, <2>4, <2>5 DEF TypeOK, HandlerType, Table, Held
      <4> QED
        BY <3>2, <4>1, <4>2, <2>2, <2>4, <2>5 DEF TypeOK, SockType
    <3> QED
      BY <3>1, <3>2, <2>3, <2>4
  <2>9. Busy'
    <3>1. rpc[n] = "none"
      BY <2>3 DEF Table, Fresh
    <3> SUFFICES ASSUME NEW d \in Conns
                 PROVE  /\ hpc'[d] \in {"spawn", "write"} =>
                             hsock'[d] \in sopen' /\ sock'[hsock'[d]].conn = d
                               /\ sock'[hsock'[d]].src = hpkt'[d].src
                        /\ hpc'[d] = "spawn" => rpc'[hsock'[d]] = "none"
      BY DEF Busy
    <3>2. CASE d = c
      BY <3>1, <3>2, <2>4, <2>5 DEF TypeOK, HandlerType
    <3>3. CASE d # c
      <4>1. hpc'[d] = hpc[d] /\ hpkt'[d] = hpkt[d] /\ hsock'[d] = hsock[d]
        BY <3>3, <2>5 DEF TypeOK, HandlerType
      <4>2. hpc[d] \in {"spawn", "write"} =>
              hsock[d] \in sopen /\ sock'[hsock[d]] = sock[hsock[d]]
        BY <2>4 DEF Table, Fresh, Busy
      <4> QED
        BY <4>1, <4>2, <2>5 DEF Table, Busy
    <3> QED
      BY <3>2, <3>3
  <2>10. ClosedWithHandler'
    BY <2>3, <2>4, <2>5 DEF Table, Fresh, ClosedWithHandler, TypeOK, HandlerType
  <2> QED
    BY <2>6, <2>7, <2>8, <2>9, <2>10 DEF Table
<1>6. ASSUME NEW c \in Conns, Spawn(c) PROVE Table'
  <2>1. hsock[c] \in Socks /\ hsock[c] \in 1 .. Len(sock)
    BY <1>6 DEF Spawn, Table, Fresh, Busy, TypeOK, SockType
  <2>2. \A s \in Socks : rpc'[s] = rpc[s] \/ (s = hsock[c] /\ rpc'[s] = "reading"
                                          /\ rpc[s] = "none")
    BY <1>6, <2>1 DEF Spawn, Table, Busy, TypeOK, SockType
  <2>3. Fresh' /\ Entry'
    BY <1>6, <2>1, <2>2 DEF Spawn, Table, Fresh, Entry
  <2>4. Held'
    BY <1>6, <2>2, SocketFacts DEF Spawn, Table, Held, TypeOK, SockType, HandlerType
  <2>5. Busy'
    <3>1. hpc[c] = "spawn" /\ \A d \in Conns : hpc'[d] = "spawn" => d # c /\ hpc[d] = "spawn"
      BY <1>6 DEF Spawn, TypeOK, HandlerType
    <3>2. \A d \in Conns : hpc'[d] = "spawn" => hsock[d] # hsock[c]
      BY <3>1 DEF Table, Busy
    <3> QED
      BY <1>6, <3>2, <2>1, <2>2 DEF Spawn, Table, Busy, TypeOK, HandlerType, SockType
  <2>6. ClosedWithHandler'
    BY <1>6, <2>2 DEF Spawn, Table, ClosedWithHandler, TypeOK, HandlerType, SockType
  <2> QED
    BY <2>3, <2>4, <2>5, <2>6 DEF Table
<1>7. ASSUME NEW c \in Conns, WriteOut(c) PROVE Table'
  <2>1. Fresh' /\ Entry'
    BY <1>7 DEF WriteOut, Table, Fresh, Entry
  <2>2. Held'
    BY <1>7, SocketFacts DEF WriteOut, Table, Held, TypeOK, HandlerType
  <2>3. Busy'
    BY <1>7 DEF WriteOut, Table, Busy, TypeOK, HandlerType
  <2>4. ClosedWithHandler'
    BY <1>7 DEF WriteOut, Table, ClosedWithHandler, TypeOK, HandlerType
  <2> QED
    BY <2>1, <2>2, <2>3, <2>4 DEF Table
<1>8. ASSUME NEW c \in Conns, HandlerFails(c) PROVE Table'
  <2>1. Fresh' /\ Entry'
    BY <1>8 DEF HandlerFails, Table, Fresh, Entry
  <2>2. Held'
    BY <1>8, SocketFacts DEF HandlerFails, Table, Held, TypeOK, HandlerType
  <2>3. Busy'
    BY <1>8 DEF HandlerFails, Table, Busy, TypeOK, HandlerType
  <2>4. ClosedWithHandler'
    BY <1>8 DEF HandlerFails, Table, ClosedWithHandler, TypeOK, HandlerType
  <2> QED
    BY <2>1, <2>2, <2>3, <2>4 DEF Table
<1>9. ASSUME NEW c \in Conns, CloseAll(c) PROVE Table'
  <2>1. Fresh'
    BY <1>9 DEF CloseAll, Table, Fresh
  <2>2. Entry'
    BY <1>9 DEF CloseAll, Entries, TypeOK, SockType, Table, Entry
  <2>3. Held'
    BY <1>9, SocketFacts DEF CloseAll, TypeOK, HandlerType, SockType, Table, Held
  <2>4. Busy'
    <3>1. UNCHANGED <<hpkt, hsock, sock, rpc>>
      BY <1>9 DEF CloseAll
    <3>2. \A d \in Conns : hpc'[d] \in {"spawn", "write"} => d # c /\ hpc'[d] = hpc[d]
      BY <1>9 DEF CloseAll, TypeOK, HandlerType
    <3>3. \A d \in Conns : d # c /\ hpc[d] \in {"spawn", "write"} => hsock[d] \in sopen'
      BY <1>9 DEF CloseAll, Entries, Table, Entry, Busy
    <3> QED
      BY <3>1, <3>2, <3>3 DEF Table, Busy
  <2>5. ClosedWithHandler'
    <3> SUFFICES ASSUME NEW s \in sopen', hpc'[sock[s].conn] = "ended"
                 PROVE  rpc[s] = "ended"
      BY <1>9 DEF CloseAll, ClosedWithHandler
    <3>1. s \in 1 .. Len(sock) /\ s \in sopen
      BY <1>9 DEF CloseAll, Table, Fresh
    <3>2. sock[s].conn \in Conns /\ sock[s].src \in Srcs
      BY <3>1, SocketFacts DEF TypeOK
    <3>3. CASE sock[s].conn = c
      BY <3>1, <3>2, <3>3, <1>9 DEF CloseAll, Entries, Table, Held
    <3>4. CASE sock[s].conn # c
      BY <3>1, <3>2, <3>4, <1>9
      DEF CloseAll, Table, ClosedWithHandler, TypeOK, HandlerType
    <3> QED
      BY <3>3, <3>4
  <2> QED
    BY <2>1, <2>2, <2>3, <2>4, <2>5 DEF Table
<1>10. ASSUME NEW s \in Socks, NEW b \in Srcs, ReadReply(s, b) PROVE Table'
  <2>1. \A t \in Socks : rpc'[t] = rpc[t] \/ (t = s /\ rpc'[t] = "remove"
                                          /\ rpc[t] = "reading")
    BY <1>10 DEF ReadReply, TypeOK, SockType
  <2>2. Fresh' /\ Entry' /\ ClosedWithHandler'
    BY <1>10, <2>1 DEF ReadReply, TypeOK, SockType, Table, Fresh, Entry, ClosedWithHandler
  <2>3. Busy'
    <3>1. UNCHANGED <<hpc, hpkt, hsock, sock, sopen>>
      BY <1>10 DEF ReadReply
    <3>2. \A d \in Conns : hpc[d] = "spawn" => hsock[d] \in Socks /\ hsock[d] # s
      BY <1>10 DEF ReadReply, Table, Busy, TypeOK, SockType
    <3>3. \A t \in Socks : t # s => rpc'[t] = rpc[t]
      BY <1>10 DEF ReadReply, TypeOK, SockType
    <3> QED
      BY <3>1, <3>2, <3>3 DEF Table, Busy
  <2>4. Held'
    <3>1. UNCHANGED <<sock, hpc, m>>
      BY <1>10 DEF ReadReply
    <3>2. \A t \in 1 .. Len(sock) : t \in Socks
      BY DEF TypeOK, SockType
    <3> QED
      BY <3>1, <3>2, <2>1 DEF Table, Held
  <2> QED
    BY <2>2, <2>3, <2>4 DEF Table
<1>11. ASSUME NEW s \in Socks, ReadEnds(s) PROVE Table'
  <2>1. Fresh' /\ Entry' /\ ClosedWithHandler'
    BY <1>11 DEF ReadEnds, TypeOK, SockType, Table, Fresh, Entry, ClosedWithHandler
  <2>3. Busy'
    <3>1. UNCHANGED <<hpc, hpkt, hsock, sock, sopen>>
      BY <1>11 DEF ReadEnds
    <3>2. \A d \in Conns : hpc[d] = "spawn" => hsock[d] \in Socks /\ hsock[d] # s
      BY <1>11 DEF ReadEnds, Table, Busy, TypeOK, SockType
    <3>3. \A t \in Socks : t # s => rpc'[t] = rpc[t]
      BY <1>11 DEF ReadEnds, TypeOK, SockType
    <3> QED
      BY <3>1, <3>2, <3>3 DEF Table, Busy
  <2>2. Held'
    BY <1>11 DEF ReadEnds, TypeOK, SockType, Table, Held
  <2> QED
    BY <2>1, <2>2, <2>3 DEF Table
<1>12. ASSUME NEW s \in Socks, Remove(s) PROVE Table'
  <2>1. s \in 1 .. Len(sock)
    <3>1. Len(sock) \in Nat
      BY DEF TypeOK, SockType
    <3> QED
      BY <1>12, <3>1 DEF Remove, Table, Fresh
  <2>2. sock[s].conn \in Conns /\ sock[s].src \in Srcs
    BY <2>1, SocketFacts DEF TypeOK
  <2>3. Fresh' /\ ClosedWithHandler'
    BY <1>12, <2>1 DEF Remove, TypeOK, SockType, Table, Fresh, ClosedWithHandler
  <2>6. Busy'
    <3>1. UNCHANGED <<hpc, hpkt, hsock, sock, sopen>>
      BY <1>12 DEF Remove
    <3>2. \A d \in Conns : hpc[d] = "spawn" => hsock[d] \in Socks /\ hsock[d] # s
      BY <1>12 DEF Remove, Table, Busy, TypeOK, SockType
    <3>3. \A t \in Socks : t # s => rpc'[t] = rpc[t]
      BY <1>12 DEF Remove, TypeOK, SockType
    <3> QED
      BY <3>1, <3>2, <3>3 DEF Table, Busy
  <2>4. Entry'
    BY <1>12, <2>2 DEF Remove, TypeOK, SockType, Table, Entry
  <2>5. Held'
    <3> SUFFICES ASSUME NEW t \in 1 .. Len(sock), rpc'[t] # "ended",
                        hpc[sock[t].conn] # "ended"
                 PROVE  m'[sock[t].conn][sock[t].src] = t
      BY <1>12 DEF Remove, Held
    <3>1. sock[t].conn \in Conns /\ sock[t].src \in Srcs
      BY SocketFacts DEF TypeOK
    <3>2. t # s
      BY <1>12 DEF Remove, TypeOK, SockType
    <3>3. rpc[t] # "ended" /\ rpc[s] # "ended"
      BY <1>12, <3>2 DEF Remove, TypeOK, SockType
    <3>4. m[sock[t].conn][sock[t].src] = t
      BY <3>3 DEF Table, Held
    <3>5. sock[t].conn # sock[s].conn \/ sock[t].src # sock[s].src
      BY <3>2, <3>3, <3>4, <2>1 DEF Table, Held
    <3> QED
      BY <1>12, <2>2, <3>1, <3>4, <3>5 DEF Remove, TypeOK, SockType
  <2> QED
    BY <2>3, <2>4, <2>5, <2>6 DEF Table
<1> QED
  BY <1>1, <1>2, <1>3, <1>4, <1>5, <1>6, <1>7, <1>8, <1>9, <1>10, <1>11, <1>12

\* The readers of a channel are finitely many ...
LEMMA ReadersFinite ==
  ASSUME SockType PROVE \A c \in Conns : IsFiniteSet(ReadersOf(c))
<1> SUFFICES ASSUME NEW c \in Conns PROVE IsFiniteSet(ReadersOf(c))
  OBVIOUS
<1>1. Len(sock) \in Nat /\ ReadersOf(c) \in SUBSET (1 .. Len(sock))
  BY DEF SockType, ReadersOf
<1>2. IsFiniteSet(1 .. Len(sock))
  BY <1>1, FS_Interval
<1> QED
  BY <1>1, <1>2, FS_Subset

\* ... so a step that adds none keeps the limit.
LEMMA FewerReaders ==
  ASSUME TypeOK, ReadersBounded,
         \A c \in Conns : ReadersOf(c)' \subseteq ReadersOf(c)
  PROVE  ReadersBounded'
<1> SUFFICES ASSUME NEW c \in Conns
             PROVE  Cardinality(ReadersOf(c)') <= MaxConns
  BY DEF ReadersBounded
<1>1. IsFiniteSet(ReadersOf(c)) /\ ReadersOf(c)' \in SUBSET ReadersOf(c)
  BY ReadersFinite DEF TypeOK
<1>2. Cardinality(ReadersOf(c)') <= Cardinality(ReadersOf(c))
      /\ IsFiniteSet(ReadersOf(c)')
  BY <1>1, FS_Subset
<1>3. Cardinality(ReadersOf(c)) <= MaxConns
  BY DEF ReadersBounded
<1> QED
  BY <1>1, <1>2, <1>3, FS_CardinalityType

\* The readers.  Only Spawn adds one, and then the sources of the readers are
\* different entries of a table within the limit.
LEMMA ReadersStep ==
  ASSUME TypeOK, Packets, Table, Table', ReadersBounded, [Next]_vars
  PROVE  ReadersBounded'
<1>1. \/ UNCHANGED <<sock, rpc>>
      \/ \E c \in Conns : DialNew(c) \/ Spawn(c)
      \/ \E s \in Socks, b \in Srcs : ReadReply(s, b)
      \/ \E s \in Socks : ReadEnds(s) \/ Remove(s)
  BY DEF Next, vars, Inbound, Outbound, Side, Handler, Reader, Connect,
    ClearActive, Cancel, Drop, Unset, Top, Lock, GetSSH, GetSSHNil, Open, Accept,
    OpenFails, ReadPacket, ReadNothing, Encode, DecodeReply, DecodeEOF,
    DecodeError, WriteBack, DialKnown, WriteOut, HandlerFails, CloseAll,
    Continue, Return
<1>2. CASE UNCHANGED <<sock, rpc>>
  BY <1>2 DEF ReadersBounded, ReadersOf, Running
<1>3. ASSUME NEW c \in Conns, DialNew(c) PROVE ReadersBounded'
  <2>1. /\ Len(sock) \in Nat /\ Len(sock') = Len(sock) + 1
        /\ \A s \in 1 .. Len(sock) : sock'[s] = sock[s]
        /\ DOMAIN sock = 1 .. Len(sock) /\ DOMAIN sock' = 1 .. (Len(sock) + 1)
        /\ rpc' = rpc /\ Len(sock) + 1 \in Socks
    BY <1>3 DEF DialNew, TypeOK, SockType
  <2>2. rpc[Len(sock) + 1] = "none"
    BY <2>1 DEF Table, Fresh
  <2>3. \A d \in Conns : ReadersOf(d)' \subseteq ReadersOf(d)
    BY <2>1, <2>2 DEF ReadersOf, Running, TypeOK, SockType
  <2> QED
    BY <2>3, FewerReaders
<1>4. ASSUME NEW c \in Conns, Spawn(c) PROVE ReadersBounded'
  <2> SUFFICES ASSUME NEW d \in Conns
               PROVE  Cardinality(ReadersOf(d)') <= MaxConns
    BY DEF ReadersBounded
  <2>1. /\ hsock[c] \in 1 .. Len(sock) /\ sock[hsock[c]].conn = c
        /\ hpc[c] = "spawn" /\ sock' = sock /\ m' = m
    BY <1>4 DEF Spawn, Table, Fresh, Busy
  <2>2. CASE d # c \/ ~BelowLimit(c)
    <3>1. ReadersOf(d)' \subseteq ReadersOf(d)
      BY <1>4, <2>1, <2>2 DEF Spawn, ReadersOf, Running, TypeOK, SockType
    <3> QED
      BY <3>1, ReadersFinite, FS_Subset, FS_CardinalityType DEF ReadersBounded, TypeOK
  <2>3. CASE d = c /\ BelowLimit(c)
    <3> DEFINE R == ReadersOf(c)'
               f == [s \in R |-> sock[s].src]
    <3>1. \A s \in R : /\ s \in 1 .. Len(sock) /\ sock[s].conn = c
                      /\ rpc'[s] # "ended" /\ hpc'[c] # "ended"
      BY <1>4, <2>1 DEF Spawn, ReadersOf, Running, TypeOK, SockType, HandlerType
    <3>2. \A s \in R : sock[s].src \in Srcs /\ m[c][sock[s].src] = s /\ s # 0
      BY <3>1, <2>1, SocketFacts DEF Table, Held, TypeOK
    <3>3. f \in Injection(R, Entries(c))
      BY <3>2 DEF Injection, IsInjective, Entries
    <3>4. IsFiniteSet(Entries(c))
      BY SrcsAssumption, FS_Subset DEF Entries
    <3>5. Cardinality(R) <= Cardinality(Entries(c)) /\ IsFiniteSet(R)
      BY <3>3, <3>4, FS_Injection
    <3> QED
      BY <2>3, <3>4, <3>5, FS_CardinalityType DEF BelowLimit
  <2> QED
    BY <2>2, <2>3
<1>5. ASSUME NEW s \in Socks, NEW b \in Srcs, ReadReply(s, b) PROVE
      ReadersBounded'
  <2>1. \A d \in Conns : ReadersOf(d)' \subseteq ReadersOf(d)
    BY <1>5 DEF ReadReply, ReadersOf, Running, TypeOK, SockType
  <2> QED
    BY <2>1, FewerReaders
<1>6. ASSUME NEW s \in Socks, ReadEnds(s) PROVE ReadersBounded'
  <2>1. \A d \in Conns : ReadersOf(d)' \subseteq ReadersOf(d)
    BY <1>6 DEF ReadEnds, ReadersOf, Running, TypeOK, SockType
  <2> QED
    BY <2>1, FewerReaders
<1>7. ASSUME NEW s \in Socks, Remove(s) PROVE ReadersBounded'
  <2>1. \A d \in Conns : ReadersOf(d)' \subseteq ReadersOf(d)
    BY <1>7 DEF Remove, ReadersOf, Running, TypeOK, SockType
  <2> QED
    BY <2>1, FewerReaders
<1> QED
  BY <1>1, <1>2, <1>3, <1>4, <1>5, <1>6, <1>7

-----------------------------------------------------------------------------
(* The theorems.                                                           *)

LEMMA NextIInv == IInv /\ [Next]_vars => IInv'
<1> SUFFICES ASSUME IInv, [Next]_vars PROVE IInv'
  OBVIOUS
<1> USE DEF IInv
<1>1. TypeOK'
  BY TunTypeStep, CacheTypeStep, ListenTypeStep, WireTypeStep, HandlerTypeStep,
     SockTypeStep, CountTypeStep DEF TypeOK
<1>2. Cache' /\ Packets' /\ Table'
  BY CacheStep, PacketsStep, TableStep
<1>3. ReadersBounded'
  BY <1>2, ReadersStep
<1> QED
  BY <1>1, <1>2, <1>3

\* The inductive invariant holds in every state of UDP forwarding.
THEOREM Invariance == Spec => []IInv
BY InitIInv, NextIInv, PTL DEF Spec

\* Every variable of the listener, the channels, the handlers and their sockets
\* keeps its type.
THEOREM TypeCorrect == Spec => []TypeOK
<1>1. IInv => TypeOK
  BY DEF IInv
<1> QED
  BY <1>1, Invariance, PTL

\* A reply reaches the address whose packet it answers, however many sources
\* share the channel and however often the connection is replaced.
THEOREM RepliesReachTheirSender == Spec => []ReplyToSender
<1>1. IInv => ReplyToSender
  BY DEF IInv, Packets, Own, ReplyToSender
<1> QED
  BY <1>1, Invariance, PTL

\* A channel has at most maxConns reader goroutines.
THEOREM ReadersStayBounded == Spec => []ReadersBounded
<1>1. IInv => ReadersBounded
  BY DEF IInv
<1> QED
  BY <1>1, Invariance, PTL

\* A reader removes no entry but its own while the handler runs.
THEOREM ReadersRemoveTheirOwn == Spec => []RemovesOwnEntry
<1>1. IInv => RemovesOwnEntry
  BY DEF IInv, Table, Held, RemovesOwnEntry, Running, TypeOK, SockType
<1> QED
  BY <1>1, Invariance, PTL

\* handleWrite never writes to a closed socket, though a reader may remove the
\* entry between the lookup and the write.
THEOREM WritesFindTheSocketOpen == Spec => []WritesToOpenSocket
<1>1. IInv => WritesToOpenSocket
  BY DEF IInv, Table, Busy, WritesToOpenSocket
<1> QED
  BY <1>1, Invariance, PTL

\* The end of the handler closes every socket that still has an owner.
THEOREM HandlerClosesItsSockets == Spec => []ClosedWithHandler
<1>1. IInv => ClosedWithHandler
  BY DEF IInv, Table
<1> QED
  BY <1>1, Invariance, PTL

\* The unset goroutine of an old connection never empties the cache of the
\* channel of a new one.
THEOREM UnsetTouchesItsOwn == Spec => []UnsetsOwnChannel
<1>1. IInv => UnsetsOwnChannel
  BY DEF IInv, Cache
<1> QED
  BY <1>1, Invariance, PTL

\* After the context and the connections are over, each of the listener's two
\* goroutines has returned, can move, or waits for a mutex whose holder can.
THEOREM ListenerIsNotStuck == Spec => []NotStuck
<1>1. IInv => NotStuck
  BY DEF IInv, TypeOK, TunType, CacheType, ListenType, Cache, NotStuck, CanMove, AtEOF
<1> QED
  BY <1>1, Invariance, PTL
=============================================================================
