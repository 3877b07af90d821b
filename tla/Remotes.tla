------------------------------- MODULE Remotes ------------------------------
(***************************************************************************)
(* Remote descriptors from the command line to the dialled address:        *)
(* DecodeRemote, Encode, String and UserAddr (share/settings/remote.go),   *)
(* the loop over the arguments in NewClient (client/client.go), the checks *)
(* of the server (server/server_handler.go), and what a stream of a remote *)
(* asks the other side to dial (share/tunnel/tunnel_in_proxy.go,           *)
(* tunnel_in_proxy_udp.go, tunnel_out_ssh.go).                             *)
(*                                                                         *)
(* A descriptor is the list of parts the regular expression finds, a part  *)
(* is a text and the protocol that ends it: 53/udp.  Texts are opaque, but *)
(* for which are ports or hosts and what they are in lower case; the empty *)
(* string is a field that is not set.                                      *)
(***************************************************************************)
EXTENDS Naturals, Sequences, FiniteSets

CONSTANTS
  Ports,      \* texts that are port numbers
  BadHosts,   \* texts that are neither port nor host
  LowerCase,  \* of each text with capitals in it, the same in lower case
  Arguments,  \* the lists of descriptors the client is started with
  Targets     \* channel data of another program that speaks the protocol

VARIABLES
  args,       \* the remotes of the command line
  computed,   \* Client.computed.Remotes: args up to the one at work
  flags,      \* hasReverse, hasSocks and hasStdio
  result,     \* of NewClient, then of the session
  server,     \* the options --socks5 and --reverse of the server
  stream      \* the last stream: its remote and what the other side did

remotesVars == <<args, computed, flags, result, server, stream>>

Unset == ""
AnyHost == "0.0.0.0"
Loopback == "127.0.0.1"
Part(text, proto) == [text |-> text, proto |-> proto]
Texts(ts) == [i \in 1 .. Len(ts) |-> Part(ts[i], Unset)]

\* A part is not empty, though its text may be: /udp.  After a mode the parts are
\* those of the target, of which SplitHostPort makes no protocol.  In a reverse
\* descriptor anything that begins with uds- is a mode.
Descriptor ==
  {d \in [rev : BOOLEAN, mode : STRING, path : STRING,
          parts : Seq([text : STRING, proto : STRING])] :
     /\ \A i \in 1 .. Len(d.parts) :
          IF d.mode = Unset THEN d.parts[i] # Part(Unset, Unset) ELSE d.parts[i].proto = Unset
     /\ d.mode \in {Unset, "uds-listen", "uds-pair"} \/ d.rev}

ASSUME ArgumentsAssumption == Arguments \subseteq Seq(Descriptor)

\* Atoi takes digits only, and the default hosts parse as hosts.
ASSUME TextsAssumption ==
  /\ Ports \subseteq STRING /\ "1080" \in Ports
  /\ Ports \cap {Unset, "socks", "stdio", AnyHost, Loopback} = {}
  /\ BadHosts \cap {AnyHost, Loopback} = {}
  /\ DOMAIN LowerCase \cap (Ports \cup {Unset, AnyHost, Loopback, "socks", "stdio"}) = {}

isPort(t) == t \in Ports
isHost(t) == t \notin BadHosts

Lower(t) == IF t \in DOMAIN LowerCase THEN LowerCase[t] ELSE t

\* L4Proto: what comes before a protocol is read in lower case.
L4Proto(part) == IF part.proto = Unset THEN part ELSE Part(Lower(part.text), part.proto)
Heads(parts) == [i \in 1 .. Len(parts) |-> L4Proto(parts[i])]

Blank ==
  [LocalHost |-> Unset, LocalPort |-> Unset, LocalProto |-> Unset,
   RemoteHost |-> Unset, RemotePort |-> Unset, RemoteProto |-> Unset,
   Socks |-> FALSE, Reverse |-> FALSE, Stdio |-> FALSE,
   UDSMode |-> Unset, UDSSocketPath |-> Unset, err |-> "none"]

Error(r, e) == [r EXCEPT !.err = e]
IsUDS(r) == r.UDSMode # Unset

-----------------------------------------------------------------------------
(* DecodeRemote: one part after the other, the last one first.             *)

WithProto(r, proto) ==
  IF proto = Unset THEN r
  ELSE IF r.RemotePort = Unset THEN [r EXCEPT !.RemoteProto = proto]
  ELSE IF r.LocalProto = Unset THEN [r EXCEPT !.LocalProto = proto]
  ELSE r

TakePort(r, p) ==
  [r EXCEPT !.RemotePort = IF ~r.Socks /\ @ = Unset THEN p ELSE @, !.LocalPort = p]

TakeHostLocal(r, h) ==
  IF r.LocalHost = Unset THEN [r EXCEPT !.LocalHost = h] ELSE [r EXCEPT !.RemoteHost = h]

TakeHost(r, h) ==
  IF ~r.Socks /\ r.RemoteHost = Unset
    THEN [r EXCEPT !.RemoteHost = h] ELSE [r EXCEPT !.LocalHost = h]

TakePart(r, part, names) ==
  LET q == WithProto(r, part.proto) IN
  IF r.err # "none" THEN r
  ELSE IF "socks" \in names /\ part = Part("socks", Unset) THEN [r EXCEPT !.Socks = TRUE]
  ELSE IF "stdio" \in names /\ part = Part("stdio", Unset) THEN [r EXCEPT !.Stdio = TRUE]
  ELSE IF isPort(part.text) THEN TakePort(q, part.text)
  ELSE IF ~q.Socks /\ q.RemotePort = Unset /\ q.LocalPort = Unset THEN Error(q, "missingPorts")
  ELSE IF ~isHost(part.text) THEN Error(q, "invalidHost")
  ELSE TakeHost(q, part.text)

\* The last part may name socks and the first stdio.
NamesAt(i, n) == (IF i = n THEN {"socks"} ELSE {}) \cup (IF i = 1 THEN {"stdio"} ELSE {})

TakePartAt(r, parts, i) ==
  IF i > Len(parts) THEN r ELSE TakePart(r, parts[i], NamesAt(i, Len(parts)))

\* There are four parts at most.
TakeParts(r, parts) ==
  TakePartAt(TakePartAt(TakePartAt(TakePartAt(r, parts, 4), parts, 3), parts, 2), parts, 1)

Otherwise(field, default) == IF field = Unset THEN default ELSE field

Defaults(r) ==
  LET proto == Otherwise(r.RemoteProto, "tcp") IN
  [r EXCEPT !.LocalHost = Otherwise(@, IF r.Socks THEN Loopback ELSE AnyHost),
            !.LocalPort = IF r.Socks THEN Otherwise(@, "1080") ELSE @,
            !.RemoteHost = IF r.Socks THEN @ ELSE Otherwise(@, Loopback),
            !.RemoteProto = proto, !.LocalProto = Otherwise(@, proto)]

Validated(r) ==
  IF r.LocalProto # r.RemoteProto THEN Error(r, "crossProtocol")
  ELSE IF r.Socks /\ r.RemoteProto # "tcp" THEN Error(r, "socksNotTCP")
  ELSE IF r.Stdio /\ r.Reverse THEN Error(r, "stdioReversed")
  ELSE r

decodeUDSRemote(d) ==
  LET r == [Blank EXCEPT !.Reverse = TRUE, !.UDSMode = d.mode, !.UDSSocketPath = d.path,
                         !.LocalProto = "unix", !.RemoteProto = "tcp"]
  IN IF ~d.rev THEN Error(r, "needsReverse")
     ELSE IF Len(d.parts) # 2 THEN Error(r, "invalidTarget")
     ELSE IF d.path = Unset THEN Error(r, "missingPath")
     ELSE IF d.parts[1].text = Unset \/ ~isHost(d.parts[1].text) THEN Error(r, "invalidHost")
     ELSE IF ~isPort(d.parts[2].text) THEN Error(r, "missingPorts")
     ELSE [r EXCEPT !.RemoteHost = d.parts[1].text, !.RemotePort = d.parts[2].text]

DecodeRemote(d) ==
  LET r == TakeParts([Blank EXCEPT !.Reverse = d.rev], Heads(d.parts))
  IN IF d.mode \in {"uds-listen", "uds-pair"} THEN decodeUDSRemote(d)
     ELSE IF d.mode # Unset THEN Error(Blank, "invalidMode")
     ELSE IF Len(d.parts) \notin 1 .. 4 THEN Error(Blank, "invalidRemote")
     ELSE IF r.err # "none" THEN r
     ELSE Validated(Defaults(r))

-----------------------------------------------------------------------------
(* The texts made of a remote.                                             *)

Local(r) ==
  IF IsUDS(r) THEN <<r.UDSSocketPath>>
  ELSE IF r.Stdio THEN <<"stdio">>
  ELSE <<Otherwise(r.LocalHost, AnyHost), r.LocalPort>>

Remote(r) == IF r.Socks THEN <<"socks">> ELSE <<Otherwise(r.RemoteHost, Loopback), r.RemotePort>>

\* The descriptor again, from a host and a port or a single text.  An empty text
\* is no part of it.
AsParts(texts, proto) ==
  IF Len(texts) = 1 THEN <<Part(texts[1], proto)>>
  ELSE IF texts[2] = Unset /\ proto = Unset THEN Texts(<<texts[1]>>)
  ELSE <<Part(texts[1], Unset), Part(texts[2], proto)>>

EncodeNoProto(r) ==
  [rev |-> r.Reverse, mode |-> r.UDSMode, path |-> r.UDSSocketPath,
   parts |-> IF IsUDS(r) THEN AsParts(Remote(r), Unset)
             ELSE AsParts(Local(r), Unset) \o AsParts(Remote(r), Unset)]

Encode(r) ==
  LET q == [r EXCEPT !.LocalPort = Otherwise(@, r.RemotePort)]
      proto == IF r.RemoteProto = "udp" THEN "udp" ELSE Unset
  IN [rev |-> r.Reverse, mode |-> r.UDSMode, path |-> r.UDSSocketPath,
      parts |-> IF IsUDS(r) THEN AsParts(Remote(r), Unset)
                ELSE AsParts(Local(q), Unset) \o AsParts(Remote(r), proto)]

\* The name in logs, events and the monitor; default hosts are left out.
TrimHost(texts, host) == IF texts[1] = host THEN Tail(texts) ELSE texts

String(r) ==
  <<r.Reverse, r.UDSMode,
    IF IsUDS(r) THEN Local(r) ELSE TrimHost(Local(r), AnyHost),
    TrimHost(Remote(r), Loopback), r.RemoteProto = "udp">>

\* What the user's expressions are matched with.
UserAddr(r) ==
  IF IsUDS(r) THEN <<"R", r.UDSMode, r.UDSSocketPath>>
  ELSE IF r.Reverse THEN <<"R", r.LocalHost, r.LocalPort>>
  ELSE <<r.RemoteHost, r.RemotePort>>

\* CanListen, but for the address being free.
Listenable(r) == IsUDS(r) \/ r.LocalProto \in {"tcp", "udp"}

-----------------------------------------------------------------------------
(* NewClient                                                               *)

NoFlags == [reverse |-> FALSE, socks |-> FALSE, stdio |-> FALSE]
NoStream == [of |-> 0, kind |-> "none", addr |-> <<>>]

RemotesInit ==
  /\ args \in Arguments /\ computed = <<>> /\ flags = NoFlags
  /\ result = "decoding" /\ server \in [socks5 : BOOLEAN, reverse : BOOLEAN]
  /\ stream = NoStream

FlagsOfLast(r) == [reverse |-> r.Reverse, socks |-> r.Socks, stdio |-> flags.stdio \/ r.Stdio]
FlagsWith(r) == [reverse |-> flags.reverse \/ r.Reverse, socks |-> flags.socks \/ r.Socks,
                 stdio |-> flags.stdio \/ r.Stdio]

Current == DecodeRemote(args[Len(computed) + 1])
AtWork == result = "decoding" /\ Len(computed) < Len(args)

NewClientFails(why) == result' = why /\ UNCHANGED <<args, computed, flags, server, stream>>

DecodeFails == AtWork /\ Current.err # "none" /\ NewClientFails(Current.err)

SecondStdio ==
  AtWork /\ Current.err = "none" /\ Current.Stdio /\ flags.stdio /\ NewClientFails("twoStdio")

\* Another program may have the address, and an unknown protocol has none.
CannotListen ==
  /\ AtWork /\ Current.err = "none" /\ ~Current.Reverse /\ ~Current.Stdio
  /\ NewClientFails("cannotListen")

AppendRemote ==
  /\ AtWork /\ Current.err = "none" /\ ~(Current.Stdio /\ flags.stdio)
  /\ Current.Reverse \/ Current.Stdio \/ Listenable(Current)
  /\ computed' = Append(computed, Current) /\ flags' = FlagsWith(Current)
  /\ UNCHANGED <<args, result, server, stream>>

\* Every argument is decoded: the tunnel is created, and later a session.
Created ==
  /\ result = "decoding" /\ Len(computed) = Len(args)
  /\ result' = "created"
  /\ UNCHANGED <<args, computed, flags, server, stream>>

\* The server's answer to the configuration.  It may also refuse because the
\* user has no access to an address, or the address is taken.
Acceptable(r) == r.Reverse => server.reverse /\ Listenable(r)

Connect ==
  /\ result = "created"
  /\ \/ result' = "connected" /\ \A i \in 1 .. Len(computed) : Acceptable(computed[i])
     \/ result' = "refused"
  /\ UNCHANGED <<args, computed, flags, server, stream>>

-----------------------------------------------------------------------------
(* A stream.                                                               *)

\* The extra data of the channel: a UDP listener adds the protocol.
ChannelData(r) ==
  [target |-> Remote(r),
   proto |-> IF ~r.Stdio /\ ~IsUDS(r) /\ r.LocalProto = "udp" THEN "udp" ELSE Unset]

Lowered(texts) == [i \in 1 .. Len(texts) |-> Lower(texts[i])]
HostPort(data) == IF data.proto = Unset THEN data.target ELSE Lowered(data.target)

\* The other side dials whatever the data names, if it serves channels at all.
handleSSHChannel(data, outbound, socksServer) ==
  IF ~outbound THEN "denied"
  ELSE IF HostPort(data) = <<"socks">> THEN (IF socksServer THEN "socks" ELSE "denied")
  ELSE IF data.proto = "udp" THEN "udp" ELSE "tcp"

\* The other side of a reverse remote is the client.
Answer(r) ==
  LET outbound == IF r.Reverse THEN flags.reverse ELSE TRUE
      socksServer == IF r.Reverse THEN flags.reverse /\ flags.socks ELSE server.socks5
  IN handleSSHChannel(ChannelData(r), outbound, socksServer)

OpenStream(i) ==
  /\ result = "connected"
  /\ stream' = [of |-> i, kind |-> Answer(computed[i]), addr |-> HostPort(ChannelData(computed[i]))]
  /\ UNCHANGED <<args, computed, flags, result, server>>

\* A channel that belongs to no remote: the server serves it all the same.
OpenOther(data) ==
  /\ result = "connected"
  /\ stream' = [of |-> 0, kind |-> handleSSHChannel(data, TRUE, server.socks5),
                addr |-> HostPort(data)]
  /\ UNCHANGED <<args, computed, flags, result, server>>

Failed == result \notin {"decoding", "created", "connected"} /\ UNCHANGED remotesVars

RemotesNext ==
  \/ DecodeFails \/ SecondStdio \/ CannotListen \/ AppendRemote \/ Created
  \/ Connect \/ Failed
  \/ \E i \in 1 .. Len(computed) : OpenStream(i)
  \/ \E data \in Targets : OpenOther(data)

RemotesSpec == RemotesInit /\ [][RemotesNext]_remotesVars

-----------------------------------------------------------------------------
(* Properties                                                              *)

Decoded == 1 .. Len(computed)

\* The two texts that are made of a remote.  Encode gives a descriptor of the
\* same remote; not so for a protocol that is not written in lower case, which
\* it drops, for stdio alone, which has no port, for a local host named stdio,
\* which it moves to the front, and for the local address of stdio, which is not
\* used (remote.go:252-296).  String names an endpoint in the monitor and the
\* publisher: two endpoints of a session share an entry only if their remotes
\* are the same one given twice (remote.go:226-249, monitor_state.go:208,
\* otel.go:224).
TextsKeepMeaning ==
  /\ \A i \in Decoded :
       LET r == computed[i]
           q == DecodeRemote(Encode(r))
       IN /\ r.RemoteProto \in {"tcp", "udp"} /\ r.LocalHost # "stdio"
          /\ r.Socks \/ r.RemotePort # Unset
          =>
            q = IF r.Stdio THEN [r EXCEPT !.LocalHost = q.LocalHost, !.LocalPort = q.LocalPort]
                ELSE r
  /\ result = "connected" =>
       \A i, j \in Decoded :
         computed[i].Reverse /\ computed[j].Reverse /\ String(computed[i]) = String(computed[j])
           => computed[i] = computed[j]

\* The forms <local-host>:<local-port>:<remote-host>:<remote-port>/<protocol> and
\* lhost:lport:socks (main.go:309-320, remote.go:14-35): each descriptor of these
\* forms gives the addresses that the cases of remote_test.go:8-151 give, with
\* their defaults, 0.0.0.0 for the local and 127.0.0.1 for the remote host.  (The
\* texts differ: the help has 0.0.0.0 for the remote host, main.go:317, and the
\* comment at remote.go:14-35 has 127.0.0.1 for the local one.)  A host alone is
\* the remote one even where it comes first, before the local port; and a part
\* that carries a protocol is read in lower case.
Given(text) == IF text = Unset THEN <<>> ELSE <<text>>
FormTexts(f) == Given(f.lh) \o Given(f.lp) \o Given(f.rh) \o <<f.rp>>
TextsOf(parts) == [i \in 1 .. Len(parts) |-> parts[i].text]

HostFirst(f, parts) ==
  /\ TextsOf(parts) = <<f.rh, f.lp, f.rp>> /\ f.lh = Unset /\ f.lp # Unset
  /\ f.rh \notin {Unset, "stdio"} /\ f.rp # "socks"

Forms(parts) ==
  LET fields == {Unset} \cup {parts[i].text : i \in DOMAIN parts} IN
  {f \in [lh : fields, lp : fields, rh : fields, rp : fields] :
     /\ TextsOf(parts) = FormTexts(f) \/ HostFirst(f, parts)
     /\ f.rp \in Ports \cup {"socks"} /\ f.lp \in Ports \cup {Unset}
     /\ f.rh \notin Ports \cup {"socks"} /\ f.lh \notin Ports \cup {"stdio"}
     /\ f.rp = "socks" => f.rh = Unset
     /\ f.rp # "socks" /\ f.lh # Unset => f.rh # Unset
     /\ f.lp = Unset /\ f.rh = "stdio" => f.lh # Unset}

FormsAsTested ==
  \A i \in Decoded : args[i].mode = Unset =>
    LET r == computed[i]
        parts == Heads(args[i].parts)
    IN \A f \in Forms(parts) :
      /\ r.Socks = (f.rp = "socks") /\ ~r.Stdio /\ r.Reverse = args[i].rev
      /\ Local(r) = IF r.Socks THEN <<Otherwise(f.lh, Loopback), Otherwise(f.lp, "1080")>>
                    ELSE <<Otherwise(f.lh, AnyHost), Otherwise(f.lp, f.rp)>>
      /\ ~r.Socks => /\ Remote(r) = <<Otherwise(f.rh, Loopback), f.rp>>
                     /\ parts[Len(parts)].proto # Unset => r.RemoteProto = parts[Len(parts)].proto

\* A stream that the client's remotes open goes where its remote says, by its
\* protocol, and for a forward remote to the address the user was checked for,
\* which UDP turns into lower case; a reverse remote's is never denied, since
\* what the client is asked for it has enabled, whatever the order of the remotes
\* (client.go:148-187, server_handler.go:147-166, tunnel_out_ssh.go:33-68).  Stdio
\* is left out of the protocol: its streams are TCP even after /udp.  And nothing
\* but SOCKS that is not offered is ever denied, a channel of no remote included:
\* handleSSHChannel does not look at the user, where acl_channel_test.go:112-118
\* wants an address that was not checked to be rejected.
StreamAsChecked ==
  /\ stream.kind = "denied" => stream.addr = <<"socks">> /\ ~server.socks5
  /\ stream.of # 0 =>
       LET r == computed[stream.of] IN
       /\ (stream.kind \in {"socks", "denied"}) = r.Socks
       /\ stream.kind = "denied" => ~r.Reverse
       /\ stream.kind \in {"tcp", "udp"} /\ ~r.Stdio => stream.kind = r.RemoteProto
       /\ ~r.Socks /\ ~r.Reverse =>
            stream.addr = IF stream.kind = "udp" THEN Lowered(UserAddr(r)) ELSE UserAddr(r)
=============================================================================
