--------------------------- MODULE EndpointProofs ---------------------------
(***************************************************************************)
(* Proofs about the two parts of an endpoint that its remote alone decides:*)
(* the socket file of uds-listen, for any number of proxies on the path    *)
(* (UDSListen), and the remote itself, from any command line to the        *)
(* address that a stream of it dials (Remotes).                            *)
(***************************************************************************)
EXTENDS UDSListen, Remotes, SequenceTheorems, TLAPS

-----------------------------------------------------------------------------
(* UDSListen: the invariant.                                               *)

\* Proxies that live at the same time have met.
Meet == \A p, q \in Live : p # q => q \in met[p]

\* A proxy that met nobody knows what is at the path: nobody else has touched it
\* since it looked.
Owns ==
  \A p \in Proxies : met[p] = {} =>
    /\ pc[p] = "remove" => file \in Proxies
    /\ pc[p] = "bind" => file = NoFile
    /\ pc[p] \in {"chmod", "active", "run"} => file = p
    /\ pc[p] # "undo"
    /\ why[p] \notin {"gone", "inUse", "chmod"}

\* A proxy that has not begun has not failed.
Fresh == \A p \in Proxies : pc[p] = "new" => why[p] = "none"

IInv == TypeOK /\ Meet /\ Fresh /\ Owns /\ StaleHasCause

-----------------------------------------------------------------------------
\* Every step keeps the types.
LEMMA TypeStep ==
  ASSUME TypeOK, [Next]_vars
  PROVE  TypeOK'
<1> USE DEF TypeOK, Ended
<1>1. ASSUME NEW p \in Proxies, Begin(p) PROVE TypeOK'
  BY <1>1 DEF Begin, Goto, Live
<1>2. ASSUME NEW p \in Proxies, MkdirFails(p) PROVE TypeOK'
  BY <1>2 DEF MkdirFails, Fails
<1>3. ASSUME NEW p \in Proxies, Stat(p) PROVE TypeOK'
  BY <1>3 DEF Stat, Goto, Fails
<1>4. ASSUME NEW p \in Proxies, Remove(p) PROVE TypeOK'
  BY <1>4 DEF Remove, Goto, Fails
<1>5. ASSUME NEW p \in Proxies, Bind(p) PROVE TypeOK'
  BY <1>5 DEF Bind, Goto, Fails
<1>6. ASSUME NEW p \in Proxies, Chmod(p) PROVE TypeOK'
  BY <1>6 DEF Chmod, Goto
<1>7. ASSUME NEW p \in Proxies, Undo(p) PROVE TypeOK'
  BY <1>7 DEF Undo, Fails
<1>8. ASSUME NEW p \in Proxies, RunUnix(p) PROVE TypeOK'
  BY <1>8 DEF RunUnix, Goto
<1>9. ASSUME NEW p \in Proxies, CloseOnDone(p) PROVE TypeOK'
  BY <1>9 DEF CloseOnDone, CloseUnix, Goto
<1>10. ASSUME NEW p \in Proxies, AcceptFails(p) PROVE TypeOK'
  BY <1>10 DEF AcceptFails, CloseUnix, Goto
<1>11. ASSUME NEW p \in Proxies, RemoveOnExit(p) PROVE TypeOK'
  BY <1>11 DEF RemoveOnExit, Goto
<1>12. ASSUME NEW p \in Proxies, Abandon(p) PROVE TypeOK'
  BY <1>12 DEF Abandon, Goto
<1>13. ASSUME NEW p \in Proxies, Collect(p) PROVE TypeOK'
  BY <1>13 DEF Collect
<1>14. ASSUME NEW p \in Proxies, Cancel(p) PROVE TypeOK'
  BY <1>14 DEF Cancel, Live
<1>15. CASE Crash
  BY <1>15 DEF Crash, Live
<1>16. CASE UNCHANGED vars
  BY <1>16 DEF vars
<1>17. QED
  BY <1>1, <1>2, <1>3, <1>4, <1>5, <1>6, <1>7, <1>8, <1>9, <1>10, <1>11, <1>12, <1>13, <1>14, <1>15, <1>16 DEF Next, Listen, Run, Terminated

\* A proxy that starts meets every live one; nobody else becomes live.
LEMMA MeetStep ==
  ASSUME TypeOK, Meet, [Next]_vars
  PROVE  Meet'
<1> USE DEF TypeOK, Ended, Meet, Live
<1>1. ASSUME NEW p \in Proxies, Begin(p) PROVE Meet'
  BY <1>1 DEF Begin, Goto
<1>2. ASSUME NEW p \in Proxies, MkdirFails(p) PROVE Meet'
  BY <1>2 DEF MkdirFails, Fails
<1>3. ASSUME NEW p \in Proxies, Stat(p) PROVE Meet'
  BY <1>3 DEF Stat, Goto, Fails
<1>4. ASSUME NEW p \in Proxies, Remove(p) PROVE Meet'
  BY <1>4 DEF Remove, Goto, Fails
<1>5. ASSUME NEW p \in Proxies, Bind(p) PROVE Meet'
  BY <1>5 DEF Bind, Goto, Fails
<1>6. ASSUME NEW p \in Proxies, Chmod(p) PROVE Meet'
  BY <1>6 DEF Chmod, Goto
<1>7. ASSUME NEW p \in Proxies, Undo(p) PROVE Meet'
  BY <1>7 DEF Undo, Fails
<1>8. ASSUME NEW p \in Proxies, RunUnix(p) PROVE Meet'
  BY <1>8 DEF RunUnix, Goto
<1>9. ASSUME NEW p \in Proxies, CloseOnDone(p) PROVE Meet'
  BY <1>9 DEF CloseOnDone, CloseUnix, Goto
<1>10. ASSUME NEW p \in Proxies, AcceptFails(p) PROVE Meet'
  BY <1>10 DEF AcceptFails, CloseUnix, Goto
<1>11. ASSUME NEW p \in Proxies, RemoveOnExit(p) PROVE Meet'
  BY <1>11 DEF RemoveOnExit, Goto
<1>12. ASSUME NEW p \in Proxies, Abandon(p) PROVE Meet'
  BY <1>12 DEF Abandon, Goto
<1>13. ASSUME NEW p \in Proxies, Collect(p) PROVE Meet'
  BY <1>13 DEF Collect
<1>14. ASSUME NEW p \in Proxies, Cancel(p) PROVE Meet'
  BY <1>14 DEF Cancel
<1>15. CASE Crash
  BY <1>15 DEF Crash
<1>16. CASE UNCHANGED vars
  BY <1>16 DEF vars
<1>17. QED
  BY <1>1, <1>2, <1>3, <1>4, <1>5, <1>6, <1>7, <1>8, <1>9, <1>10, <1>11, <1>12, <1>13, <1>14, <1>15, <1>16 DEF Next, Listen, Run, Terminated

\* Nobody becomes new again, and who fails is not new.
LEMMA FreshStep ==
  ASSUME TypeOK, Fresh, [Next]_vars
  PROVE  Fresh'
<1> USE DEF TypeOK, Ended, Fresh
<1>1. ASSUME NEW p \in Proxies, Begin(p) PROVE Fresh'
  BY <1>1 DEF Begin, Goto, Live
<1>2. ASSUME NEW p \in Proxies, MkdirFails(p) PROVE Fresh'
  BY <1>2 DEF MkdirFails, Fails
<1>3. ASSUME NEW p \in Proxies, Stat(p) PROVE Fresh'
  BY <1>3 DEF Stat, Goto, Fails
<1>4. ASSUME NEW p \in Proxies, Remove(p) PROVE Fresh'
  BY <1>4 DEF Remove, Goto, Fails
<1>5. ASSUME NEW p \in Proxies, Bind(p) PROVE Fresh'
  BY <1>5 DEF Bind, Goto, Fails
<1>6. ASSUME NEW p \in Proxies, Chmod(p) PROVE Fresh'
  BY <1>6 DEF Chmod, Goto
<1>7. ASSUME NEW p \in Proxies, Undo(p) PROVE Fresh'
  BY <1>7 DEF Undo, Fails
<1>8. ASSUME NEW p \in Proxies, RunUnix(p) PROVE Fresh'
  BY <1>8 DEF RunUnix, Goto
<1>9. ASSUME NEW p \in Proxies, CloseOnDone(p) PROVE Fresh'
  BY <1>9 DEF CloseOnDone, CloseUnix, Goto
<1>10. ASSUME NEW p \in Proxies, AcceptFails(p) PROVE Fresh'
  BY <1>10 DEF AcceptFails, CloseUnix, Goto
<1>11. ASSUME NEW p \in Proxies, RemoveOnExit(p) PROVE Fresh'
  BY <1>11 DEF RemoveOnExit, Goto
<1>12. ASSUME NEW p \in Proxies, Abandon(p) PROVE Fresh'
  BY <1>12 DEF Abandon, Goto
<1>13. ASSUME NEW p \in Proxies, Collect(p) PROVE Fresh'
  BY <1>13 DEF Collect
<1>14. ASSUME NEW p \in Proxies, Cancel(p) PROVE Fresh'
  BY <1>14 DEF Cancel, Live
<1>15. CASE Crash
  BY <1>15 DEF Crash, Live
<1>16. CASE UNCHANGED vars
  BY <1>16 DEF vars
<1>17. QED
  BY <1>1, <1>2, <1>3, <1>4, <1>5, <1>6, <1>7, <1>8, <1>9, <1>10, <1>11, <1>12, <1>13, <1>14, <1>15, <1>16 DEF Next, Listen, Run, Terminated

\* Who closes its listener takes the file away, or is one that leaves it.
LEMMA StaleStep ==
  ASSUME TypeOK, StaleHasCause, [Next]_vars
  PROVE  StaleHasCause'
<1> USE FileAssumption DEF TypeOK, Ended, StaleHasCause
<1>1. ASSUME NEW p \in Proxies, Begin(p) PROVE StaleHasCause'
  BY <1>1 DEF Begin, Goto, Live
<1>2. ASSUME NEW p \in Proxies, MkdirFails(p) PROVE StaleHasCause'
  BY <1>2 DEF MkdirFails, Fails
<1>3. ASSUME NEW p \in Proxies, Stat(p) PROVE StaleHasCause'
  BY <1>3 DEF Stat, Goto, Fails
<1>4. ASSUME NEW p \in Proxies, Remove(p) PROVE StaleHasCause'
  BY <1>4 DEF Remove, Goto, Fails
<1>5. ASSUME NEW p \in Proxies, Bind(p) PROVE StaleHasCause'
  BY <1>5 DEF Bind, Goto, Fails
<1>6. ASSUME NEW p \in Proxies, Chmod(p) PROVE StaleHasCause'
  BY <1>6 DEF Chmod, Goto
<1>7. ASSUME NEW p \in Proxies, Undo(p) PROVE StaleHasCause'
  BY <1>7 DEF Undo, Fails
<1>8. ASSUME NEW p \in Proxies, RunUnix(p) PROVE StaleHasCause'
  BY <1>8 DEF RunUnix, Goto
<1>9. ASSUME NEW p \in Proxies, CloseOnDone(p) PROVE StaleHasCause'
  BY <1>9 DEF CloseOnDone, CloseUnix, Goto
<1>10. ASSUME NEW p \in Proxies, AcceptFails(p) PROVE StaleHasCause'
  BY <1>10 DEF AcceptFails, CloseUnix, Goto
<1>11. ASSUME NEW p \in Proxies, RemoveOnExit(p) PROVE StaleHasCause'
  BY <1>11 DEF RemoveOnExit, Goto
<1>12. ASSUME NEW p \in Proxies, Abandon(p) PROVE StaleHasCause'
  BY <1>12 DEF Abandon, Goto
<1>13. ASSUME NEW p \in Proxies, Collect(p) PROVE StaleHasCause'
  BY <1>13 DEF Collect
<1>14. ASSUME NEW p \in Proxies, Cancel(p) PROVE StaleHasCause'
  BY <1>14 DEF Cancel, Live
<1>15. CASE Crash
  BY <1>15 DEF Crash, Live
<1>16. CASE UNCHANGED vars
  BY <1>16 DEF vars
<1>17. QED
  BY <1>1, <1>2, <1>3, <1>4, <1>5, <1>6, <1>7, <1>8, <1>9, <1>10, <1>11, <1>12, <1>13, <1>14, <1>15, <1>16 DEF Next, Listen, Run, Terminated

\* Only a live proxy touches the path, and a proxy that met nobody is the only
\* live one.
LEMMA OwnsStep ==
  ASSUME TypeOK, Meet, Fresh, Owns, [Next]_vars
  PROVE  Owns'
<1> USE FileAssumption DEF TypeOK, Ended, Meet, Fresh, Owns, Live
<1>1. ASSUME NEW p \in Proxies, Begin(p) PROVE Owns'
  BY <1>1 DEF Begin, Goto
<1>2. ASSUME NEW p \in Proxies, MkdirFails(p) PROVE Owns'
  BY <1>2 DEF MkdirFails, Fails
<1>3. ASSUME NEW p \in Proxies, Stat(p) PROVE Owns'
  BY <1>3 DEF Stat, Goto, Fails
<1>4. ASSUME NEW p \in Proxies, Remove(p) PROVE Owns'
  BY <1>4 DEF Remove, Goto, Fails
<1>5. ASSUME NEW p \in Proxies, Bind(p) PROVE Owns'
  BY <1>5 DEF Bind, Goto, Fails
<1>6. ASSUME NEW p \in Proxies, Chmod(p) PROVE Owns'
  BY <1>6 DEF Chmod, Goto
<1>7. ASSUME NEW p \in Proxies, Undo(p) PROVE Owns'
  BY <1>7 DEF Undo, Fails
<1>8. ASSUME NEW p \in Proxies, RunUnix(p) PROVE Owns'
  BY <1>8 DEF RunUnix, Goto
<1>9. ASSUME NEW p \in Proxies, CloseOnDone(p) PROVE Owns'
  BY <1>9 DEF CloseOnDone, CloseUnix, Goto
<1>10. ASSUME NEW p \in Proxies, AcceptFails(p) PROVE Owns'
  BY <1>10 DEF AcceptFails, CloseUnix, Goto
<1>11. ASSUME NEW p \in Proxies, RemoveOnExit(p) PROVE Owns'
  BY <1>11 DEF RemoveOnExit, Goto
<1>12. ASSUME NEW p \in Proxies, Abandon(p) PROVE Owns'
  BY <1>12 DEF Abandon, Goto
<1>13. ASSUME NEW p \in Proxies, Collect(p) PROVE Owns'
  BY <1>13 DEF Collect
<1>14. ASSUME NEW p \in Proxies, Cancel(p) PROVE Owns'
  BY <1>14 DEF Cancel
<1>15. CASE Crash
  BY <1>15 DEF Crash
<1>16. CASE UNCHANGED vars
  BY <1>16 DEF vars
<1>17. QED
  BY <1>1, <1>2, <1>3, <1>4, <1>5, <1>6, <1>7, <1>8, <1>9, <1>10, <1>11, <1>12, <1>13, <1>14, <1>15, <1>16 DEF Next, Listen, Run, Terminated

-----------------------------------------------------------------------------
\* The inductive invariant holds in every state.
LEMMA Invariance == Spec => []IInv
<1>1. Init => IInv
  BY FileAssumption DEF Init, IInv, TypeOK, Ended, Meet, Live, Fresh, Owns, StaleHasCause
<1>2. IInv /\ [Next]_vars => IInv'
  BY TypeStep, MeetStep, FreshStep, StaleStep, OwnsStep DEF IInv
<1>3. QED
  BY <1>1, <1>2, PTL DEF Spec

\* Every state of the specification has the types of TypeOK.
THEOREM TypeCorrect == Spec => []TypeOK
<1>1. IInv => TypeOK
  BY DEF IInv
<1>2. QED
  BY <1>1, Invariance, PTL

\* A socket file without a listener was left by a process that ended or by a
\* session that could not bind its other remotes (tunnel_in_proxy.go:226-229).
THEOREM StaleFilesHaveACause == Spec => []StaleHasCause
<1>1. IInv => StaleHasCause
  BY DEF IInv
<1>2. QED
  BY <1>1, Invariance, PTL

\* A proxy that shares its path with no other live one does not fail on the path
\* and is reachable while it is active (tunnel_in_proxy.go:79-93, 254-267).
THEOREM LoneProxyIsServed == Spec => []AloneIsServed
<1>1. IInv => AloneIsServed
  BY DEF IInv, Owns, AloneIsServed
<1>2. QED
  BY <1>1, Invariance, PTL

-----------------------------------------------------------------------------
(* Remotes: vocabulary.                                                    *)

\* The fields of a remote.  A remote is known by them: SameRemote.
Fields ==
  {"LocalHost", "LocalPort", "LocalProto", "RemoteHost", "RemotePort", "RemoteProto",
   "Socks", "Reverse", "Stdio", "UDSMode", "UDSSocketPath", "err"}

\* A record with these fields and these Boolean ones.
IsRemote(r) ==
  /\ r = [f \in Fields |-> r[f]]
  /\ r.Socks \in BOOLEAN /\ r.Reverse \in BOOLEAN /\ r.Stdio \in BOOLEAN

\* A part that is read as a host.
Host(h) == isHost(h) /\ ~isPort(h)

\* The errors of DecodeRemote; none of them is a result NewClient or a session has
\* otherwise.
Errors ==
  {"none", "missingPorts", "invalidHost", "crossProtocol", "socksNotTCP", "stdioReversed",
   "needsReverse", "invalidTarget", "missingPath", "invalidMode", "invalidRemote"}

\* What holds of a remote while its parts are read, from the last to the first: a
\* SOCKS remote gets no remote address, and any other its two ports together.
Partial(r) ==
  /\ IsRemote(r) /\ r.err \in Errors /\ r.UDSMode = Unset /\ r.UDSSocketPath = Unset
  /\ r.err = "none" =>
       /\ r.LocalHost = Unset \/ Host(r.LocalHost)
       /\ r.RemoteHost = Unset \/ Host(r.RemoteHost)
       /\ r.LocalPort \in Ports \cup {Unset} /\ r.RemotePort \in Ports \cup {Unset}
       /\ r.Socks => r.RemoteHost = Unset /\ r.RemotePort = Unset
       /\ ~r.Socks => (r.RemotePort = Unset <=> r.LocalPort = Unset)

\* A part has been read.
Begun(r) == r.err # "none" \/ r.Socks \/ r.Stdio \/ r.RemotePort # Unset

\* The remote before any part is read.
Start(rev) == [Blank EXCEPT !.Reverse = rev]

\* Two remotes have the same values of the fields fs.
Agree(q, r, fs) == \A f \in fs : q[f] = r[f]

-----------------------------------------------------------------------------
(* Remotes: DecodeRemote, part by part.                                     *)

\* After an error no part is read.
LEMMA ErrorsStay ==
  ASSUME NEW r, NEW part, NEW names, r.err # "none"
  PROVE  TakePart(r, part, names) = r
BY DEF TakePart

\* The first protocol met is the remote one, as long as no remote port is known.
LEMMA WithProtoFields ==
  ASSUME NEW r, IsRemote(r), NEW proto
  PROVE  LET q == WithProto(r, proto)
         IN  /\ IsRemote(q) /\ Agree(q, r, Fields \ {"LocalProto", "RemoteProto"})
             /\ proto = Unset => q = r
             /\ r.RemotePort # Unset => q.RemoteProto = r.RemoteProto
             /\ r.RemotePort = Unset => q.LocalProto = r.LocalProto
             /\ r.RemotePort = Unset /\ proto # Unset => q.RemoteProto = proto
BY DEF WithProto, IsRemote, Fields, Agree

\* A port is the local one, and the remote one too if that is not known yet.
LEMMA TakePortFields ==
  ASSUME NEW r, IsRemote(r), NEW p
  PROVE  LET q == TakePort(r, p)
         IN  /\ IsRemote(q) /\ Agree(q, r, Fields \ {"LocalPort", "RemotePort"})
             /\ q.LocalPort = p
             /\ ~r.Socks /\ r.RemotePort = Unset => q.RemotePort = p
             /\ r.Socks \/ r.RemotePort # Unset => q.RemotePort = r.RemotePort
<1>1. CASE ~r.Socks /\ r.RemotePort = Unset
  BY <1>1 DEF TakePort, IsRemote, Fields, Agree
<1>2. CASE ~(~r.Socks /\ r.RemotePort = Unset)
  BY <1>2 DEF TakePort, IsRemote, Fields, Agree
<1> QED BY <1>1, <1>2

\* What reading a port does to the fields.
LEMMA PortPart ==
  ASSUME NEW r, IsRemote(r), r.err = "none",
         NEW part, NEW names, part.text \in Ports
  PROVE  LET q == TakePart(r, part, names)
         IN  /\ IsRemote(q)
             /\ Agree(q, r, Fields \ {"LocalProto", "RemoteProto", "LocalPort", "RemotePort"})
             /\ q.LocalPort = part.text
             /\ ~r.Socks /\ r.RemotePort = Unset => q.RemotePort = part.text
             /\ r.Socks \/ r.RemotePort # Unset => q.RemotePort = r.RemotePort
             /\ part.proto = Unset => Agree(q, r, {"LocalProto", "RemoteProto"})
             /\ r.RemotePort # Unset => q.RemoteProto = r.RemoteProto
             /\ r.RemotePort = Unset => q.LocalProto = r.LocalProto
             /\ r.RemotePort = Unset /\ part.proto # Unset => q.RemoteProto = part.proto
<1> DEFINE w == WithProto(r, part.proto)
<1>1. /\ IsRemote(w) /\ Agree(w, r, Fields \ {"LocalProto", "RemoteProto"})
      /\ part.proto = Unset => w = r
      /\ r.RemotePort # Unset => w.RemoteProto = r.RemoteProto
      /\ r.RemotePort = Unset => w.LocalProto = r.LocalProto
      /\ r.RemotePort = Unset /\ part.proto # Unset => w.RemoteProto = part.proto
  BY WithProtoFields
<1>2. TakePart(r, part, names) = TakePort(w, part.text)
  <2>1. part.text \notin {"socks", "stdio"}
    BY TextsAssumption
  <2>2. Part("socks", Unset).text = "socks" /\ Part("stdio", Unset).text = "stdio"
    BY DEF Part
  <2>3. part # Part("socks", Unset) /\ part # Part("stdio", Unset)
    BY <2>1, <2>2
  <2> QED BY <2>3 DEF TakePart, isPort
<1> DEFINE q == TakePort(w, part.text)
<1>3. /\ IsRemote(q) /\ Agree(q, w, Fields \ {"LocalPort", "RemotePort"})
      /\ q.LocalPort = part.text
      /\ ~w.Socks /\ w.RemotePort = Unset => q.RemotePort = part.text
      /\ w.Socks \/ w.RemotePort # Unset => q.RemotePort = w.RemotePort
  BY <1>1, TakePortFields
<1> HIDE DEF w, q
<1> QED
  BY <1>1, <1>2, <1>3 DEF Fields, Agree, q

\* What reading a host does to the fields, and when it is an error: a host needs a
\* port on its right, or SOCKS.
LEMMA HostPart ==
  ASSUME NEW r, IsRemote(r), r.err = "none",
         NEW part, NEW names, part.text \notin Ports,
         ~("socks" \in names /\ part = Part("socks", Unset)),
         ~("stdio" \in names /\ part = Part("stdio", Unset))
  PROVE  LET q == TakePart(r, part, names)
         IN  /\ IsRemote(q) /\ q.err \in Errors
             /\ q.err = "none" <=>
                  isHost(part.text) /\ (r.Socks \/ r.RemotePort # Unset \/ r.LocalPort # Unset)
             /\ Agree(q, r, Fields \ {"LocalProto", "RemoteProto", "LocalHost", "RemoteHost", "err"})
             /\ q.err = "none" /\ ~r.Socks /\ r.RemoteHost = Unset =>
                  q.RemoteHost = part.text /\ q.LocalHost = r.LocalHost
             /\ q.err = "none" /\ (r.Socks \/ r.RemoteHost # Unset) =>
                  q.RemoteHost = r.RemoteHost /\ q.LocalHost = part.text
             /\ part.proto = Unset => Agree(q, r, {"LocalProto", "RemoteProto"})
             /\ r.RemotePort # Unset => q.RemoteProto = r.RemoteProto
             /\ r.RemotePort = Unset => q.LocalProto = r.LocalProto
<1> DEFINE w == WithProto(r, part.proto)
           q == TakePart(r, part, names)
<1>1. /\ IsRemote(w) /\ Agree(w, r, Fields \ {"LocalProto", "RemoteProto"})
      /\ part.proto = Unset => w = r
      /\ r.RemotePort # Unset => w.RemoteProto = r.RemoteProto
      /\ r.RemotePort = Unset => w.LocalProto = r.LocalProto
  BY WithProtoFields
<1>2. q = IF ~w.Socks /\ w.RemotePort = Unset /\ w.LocalPort = Unset THEN Error(w, "missingPorts")
          ELSE IF ~isHost(part.text) THEN Error(w, "invalidHost")
          ELSE TakeHost(w, part.text)
  BY DEF TakePart, isPort
<1> HIDE DEF w, q
<1>3. w.Socks = r.Socks /\ w.RemotePort = r.RemotePort /\ w.LocalPort = r.LocalPort
      /\ w.RemoteHost = r.RemoteHost /\ w.LocalHost = r.LocalHost /\ w.err = "none"
  BY <1>1 DEF Agree, Fields
<1>4. IsRemote(q) /\ Agree(q, w, Fields \ {"LocalHost", "RemoteHost", "err"})
  BY <1>1, <1>2 DEF Agree, Fields, IsRemote, Error, TakeHost
<1>5. /\ q.err \in Errors
      /\ q.err = "none" <=>
            isHost(part.text) /\ (w.Socks \/ w.RemotePort # Unset \/ w.LocalPort # Unset)
      /\ q.err = "none" /\ ~w.Socks /\ w.RemoteHost = Unset =>
           q.RemoteHost = part.text /\ q.LocalHost = w.LocalHost
      /\ q.err = "none" /\ (w.Socks \/ w.RemoteHost # Unset) =>
           q.RemoteHost = w.RemoteHost /\ q.LocalHost = part.text
  BY <1>1, <1>2, <1>3 DEF Fields, IsRemote, Error, TakeHost, Errors
<1> QED
  BY <1>1, <1>3, <1>4, <1>5 DEF Agree, Fields, q

\* What reading socks at the end, or stdio at the front, does to the fields.
LEMMA NamedPart ==
  ASSUME NEW r, IsRemote(r), r.err = "none", NEW part, NEW names
  PROVE  LET q == TakePart(r, part, names)
         IN  /\ "socks" \in names /\ part = Part("socks", Unset) =>
                  IsRemote(q) /\ q.Socks /\ Agree(q, r, Fields \ {"Socks"})
             /\ "stdio" \in names /\ part = Part("stdio", Unset) =>
                  IsRemote(q) /\ q.Stdio /\ Agree(q, r, Fields \ {"Stdio"})
<1>1. Part("stdio", Unset) # Part("socks", Unset)
  BY DEF Part
<1>2. CASE "socks" \in names /\ part = Part("socks", Unset)
  BY <1>1, <1>2 DEF TakePart, IsRemote, Fields, Agree
<1>3. CASE "stdio" \in names /\ part = Part("stdio", Unset)
  BY <1>1, <1>3 DEF TakePart, IsRemote, Fields, Agree
<1> QED
  BY <1>2, <1>3

\* Reading a part keeps Partial.
LEMMA TakePartPartial ==
  ASSUME NEW r, Partial(r), NEW part, NEW names,
         "socks" \in names => r.RemoteHost = Unset /\ r.RemotePort = Unset
  PROVE  LET q == TakePart(r, part, names)
         IN  Partial(q) /\ Begun(q) /\ q.Reverse = r.Reverse
<1> DEFINE q == TakePart(r, part, names)
<1>0. IsRemote(r)
  BY DEF Partial
<1>1. CASE r.err # "none"
  BY <1>1, ErrorsStay DEF Begun
<1>2. CASE r.err = "none" /\ "socks" \in names /\ part = Part("socks", Unset)
  <2>2. IsRemote(q) /\ q.Socks /\ Agree(q, r, Fields \ {"Socks"})
    BY <1>0, <1>2, NamedPart
  <2> HIDE DEF q
  <2>3. Partial(q) /\ Begun(q) /\ q.Reverse = r.Reverse
    BY <1>2, <2>2 DEF Begun, Partial, Agree, Fields
  <2> QED BY <2>3 DEF q
<1>3. CASE r.err = "none" /\ "stdio" \in names /\ part = Part("stdio", Unset)
  <2>2. IsRemote(q) /\ q.Stdio /\ Agree(q, r, Fields \ {"Stdio"})
    BY <1>0, <1>3, NamedPart
  <2> HIDE DEF q
  <2>3. Partial(q) /\ Begun(q) /\ q.Reverse = r.Reverse
    BY <2>2 DEF Begun, Partial, Agree, Fields
  <2> QED BY <2>3 DEF q
<1>4. CASE r.err = "none" /\ part.text \in Ports
  <2>1. /\ IsRemote(q)
        /\ Agree(q, r, Fields \ {"LocalProto", "RemoteProto", "LocalPort", "RemotePort"})
        /\ q.LocalPort = part.text
        /\ ~r.Socks /\ r.RemotePort = Unset => q.RemotePort = part.text
        /\ r.Socks \/ r.RemotePort # Unset => q.RemotePort = r.RemotePort
    BY <1>0, <1>4, PortPart
  <2> HIDE DEF q
  <2>2. Partial(q) /\ Begun(q) /\ q.Reverse = r.Reverse
    <3>1. part.text # Unset
      BY <1>4, TextsAssumption
    <3> QED BY <1>4, <2>1, <3>1 DEF Begun, Partial, Agree, Fields
  <2> QED BY <2>2 DEF q
<1>5. CASE /\ r.err = "none" /\ part.text \notin Ports
           /\ ~("socks" \in names /\ part = Part("socks", Unset))
           /\ ~("stdio" \in names /\ part = Part("stdio", Unset))
  <2>1. /\ IsRemote(q) /\ q.err \in Errors
        /\ q.err = "none" <=>
             isHost(part.text) /\ (r.Socks \/ r.RemotePort # Unset \/ r.LocalPort # Unset)
        /\ Agree(q, r, Fields \ {"LocalProto", "RemoteProto", "LocalHost", "RemoteHost", "err"})
        /\ q.err = "none" /\ ~r.Socks /\ r.RemoteHost = Unset =>
             q.RemoteHost = part.text /\ q.LocalHost = r.LocalHost
        /\ q.err = "none" /\ (r.Socks \/ r.RemoteHost # Unset) =>
             q.RemoteHost = r.RemoteHost /\ q.LocalHost = part.text
    BY <1>0, <1>5, HostPart
  <2> HIDE DEF q
  <2>2. Partial(q) /\ Begun(q) /\ q.Reverse = r.Reverse
    <3>1. /\ q.Socks = r.Socks /\ q.Stdio = r.Stdio /\ q.Reverse = r.Reverse
          /\ q.LocalPort = r.LocalPort /\ q.RemotePort = r.RemotePort
          /\ q.UDSMode = r.UDSMode /\ q.UDSSocketPath = r.UDSSocketPath
      BY <2>1 DEF Agree, Fields
    <3> QED BY <1>5, <2>1, <3>1 DEF Begun, Partial, Host, isPort
  <2> QED BY <2>2 DEF q
<1> QED
  BY <1>1, <1>2, <1>3, <1>4, <1>5

\* TakeParts reads one part after the other, the last one first.
LEMMA PartsInTurn ==
  ASSUME NEW r, NEW parts
  PROVE  /\ Len(parts) = 1 => TakeParts(r, parts) = TakePart(r, parts[1], {"socks", "stdio"})
         /\ Len(parts) = 2 => TakeParts(r, parts) =
              TakePart(TakePart(r, parts[2], {"socks"}), parts[1], {"stdio"})
         /\ Len(parts) = 3 => TakeParts(r, parts) =
              TakePart(TakePart(TakePart(r, parts[3], {"socks"}), parts[2], {}), parts[1], {"stdio"})
         /\ Len(parts) = 4 => TakeParts(r, parts) =
              TakePart(TakePart(TakePart(TakePart(r, parts[4], {"socks"}), parts[3], {}),
                parts[2], {}), parts[1], {"stdio"})
<1>1. /\ NamesAt(1, 1) = {"socks", "stdio"}
      /\ NamesAt(2, 2) = {"socks"} /\ NamesAt(3, 3) = {"socks"} /\ NamesAt(4, 4) = {"socks"}
      /\ NamesAt(1, 2) = {"stdio"} /\ NamesAt(1, 3) = {"stdio"} /\ NamesAt(1, 4) = {"stdio"}
      /\ NamesAt(2, 3) = {} /\ NamesAt(2, 4) = {} /\ NamesAt(3, 4) = {}
  BY DEF NamesAt
<1>2. CASE Len(parts) = 1
  <2>1. ASSUME NEW q PROVE
          /\ TakePartAt(q, parts, 1) = TakePart(q, parts[1], {"socks", "stdio"})
          /\ TakePartAt(q, parts, 2) = q
          /\ TakePartAt(q, parts, 3) = q
          /\ TakePartAt(q, parts, 4) = q
    BY <1>1, <1>2 DEF TakePartAt
  <2> QED BY <1>2, <2>1 DEF TakeParts
<1>3. CASE Len(parts) = 2
  <2>1. ASSUME NEW q PROVE
          /\ TakePartAt(q, parts, 1) = TakePart(q, parts[1], {"stdio"})
          /\ TakePartAt(q, parts, 2) = TakePart(q, parts[2], {"socks"})
          /\ TakePartAt(q, parts, 3) = q
          /\ TakePartAt(q, parts, 4) = q
    BY <1>1, <1>3 DEF TakePartAt
  <2> QED BY <1>3, <2>1 DEF TakeParts
<1>4. CASE Len(parts) = 3
  <2>1. ASSUME NEW q PROVE
          /\ TakePartAt(q, parts, 1) = TakePart(q, parts[1], {"stdio"})
          /\ TakePartAt(q, parts, 2) = TakePart(q, parts[2], {})
          /\ TakePartAt(q, parts, 3) = TakePart(q, parts[3], {"socks"})
          /\ TakePartAt(q, parts, 4) = q
    BY <1>1, <1>4 DEF TakePartAt
  <2> QED BY <1>4, <2>1 DEF TakeParts
<1>5. CASE Len(parts) = 4
  <2>1. ASSUME NEW q PROVE
          /\ TakePartAt(q, parts, 1) = TakePart(q, parts[1], {"stdio"})
          /\ TakePartAt(q, parts, 2) = TakePart(q, parts[2], {})
          /\ TakePartAt(q, parts, 3) = TakePart(q, parts[3], {})
          /\ TakePartAt(q, parts, 4) = TakePart(q, parts[4], {"socks"})
    BY <1>1, <1>5 DEF TakePartAt
  <2> QED BY <1>5, <2>1 DEF TakeParts
<1> QED BY <1>2, <1>3, <1>4, <1>5

\* The remote before any part is read is one.
LEMMA StartPartial ==
  ASSUME NEW rev \in BOOLEAN
  PROVE  /\ Partial(Start(rev)) /\ Start(rev).Reverse = rev
         /\ Agree(Start(rev), Blank, Fields \ {"Reverse"})
BY DEF Start, Blank, Partial, IsRemote, Fields, Agree, Errors

\* The default of each field.
LEMMA DefaultsFields ==
  ASSUME NEW r, IsRemote(r)
  PROVE  LET q == Defaults(r)
         IN  /\ IsRemote(q)
             /\ Agree(q, r, Fields \ {"LocalHost", "LocalPort", "RemoteHost", "LocalProto", "RemoteProto"})
             /\ q.LocalHost = Otherwise(r.LocalHost, IF r.Socks THEN Loopback ELSE AnyHost)
             /\ q.LocalPort = IF r.Socks THEN Otherwise(r.LocalPort, "1080") ELSE r.LocalPort
             /\ q.RemoteHost = IF r.Socks THEN r.RemoteHost ELSE Otherwise(r.RemoteHost, Loopback)
             /\ q.RemoteProto = Otherwise(r.RemoteProto, "tcp")
             /\ q.LocalProto = Otherwise(r.LocalProto, q.RemoteProto)
<1> HIDE DEF Otherwise
<1> QED
  BY DEF Defaults, IsRemote, Fields, Agree

\* What a remote that passes the last checks satisfies.
LEMMA ValidatedFields ==
  ASSUME NEW r, IsRemote(r), Validated(r).err = "none"
  PROVE  /\ Validated(r) = r /\ r.LocalProto = r.RemoteProto
         /\ r.Socks => r.RemoteProto = "tcp"
         /\ ~(r.Stdio /\ r.Reverse)
BY DEF Validated, Error, IsRemote, Fields

\* L4Proto is applied to each part, and changes no part without a protocol and
\* none that is a port.
LEMMA HeadsOf ==
  ASSUME NEW parts, Len(parts) \in Nat
  PROVE  /\ Len(Heads(parts)) = Len(parts)
         /\ \A i \in 1 .. Len(parts) : Heads(parts)[i] = L4Proto(parts[i])
BY DEF Heads

LEMMA HeadKept ==
  ASSUME NEW text, NEW proto, proto = Unset \/ text \in Ports
  PROVE  L4Proto(Part(text, proto)) = Part(text, proto)
BY TextsAssumption DEF L4Proto, Lower, Part

\* Partial holds when all parts are read.
LEMMA TakePartsPartial ==
  ASSUME NEW rev \in BOOLEAN, NEW parts, Len(parts) \in 1 .. 4
  PROVE  LET p == TakeParts(Start(rev), parts)
         IN  Partial(p) /\ Begun(p) /\ p.Reverse = rev
<1> DEFINE s == Start(rev)
<1>1. Partial(s) /\ s.Reverse = rev /\ s.RemoteHost = Unset /\ s.RemotePort = Unset
  BY StartPartial DEF Agree, Fields, Blank
<1> HIDE DEF s
<1>2. \A part, names : Partial(TakePart(s, part, names)) /\ Begun(TakePart(s, part, names))
                         /\ TakePart(s, part, names).Reverse = rev
  BY <1>1, TakePartPartial
<1>3. \A q, part, names : Partial(q) /\ q.Reverse = rev /\ "socks" \notin names =>
         Partial(TakePart(q, part, names)) /\ Begun(TakePart(q, part, names))
           /\ TakePart(q, part, names).Reverse = rev
  BY TakePartPartial
<1>4. CASE Len(parts) = 1
  BY <1>2, <1>4, PartsInTurn DEF s
<1>5. CASE Len(parts) = 2
  BY <1>2, <1>3, <1>5, PartsInTurn DEF s
<1>6. CASE Len(parts) = 3
  BY <1>2, <1>3, <1>6, PartsInTurn DEF s
<1>7. CASE Len(parts) = 4
  BY <1>2, <1>3, <1>7, PartsInTurn DEF s
<1> QED BY <1>4, <1>5, <1>6, <1>7

\* The texts with a meaning of their own are different.
LEMMA Distinct ==
  /\ Unset \notin {"socks", "stdio", "tcp", "udp", "unix", "1080", "uds-listen", "uds-pair"}
  /\ Unset # AnyHost /\ Unset # Loopback /\ AnyHost # Loopback
  /\ AnyHost # "stdio" /\ Loopback # "socks" /\ AnyHost # "socks"
BY Zenon DEF Unset, AnyHost, Loopback

-----------------------------------------------------------------------------
(* Remotes: what is decoded, and the session.                              *)

\* A decoded remote with a mode: it is a reverse one with a path and a TCP target.
UDSShape(r) ==
  /\ r.UDSMode \in {"uds-listen", "uds-pair"} /\ r.UDSSocketPath # Unset
  /\ r.Reverse /\ ~r.Socks /\ ~r.Stdio /\ r.LocalHost = Unset /\ r.LocalPort = Unset
  /\ r.LocalProto = "unix" /\ r.RemoteProto = "tcp"
  /\ r.RemoteHost # Unset /\ isHost(r.RemoteHost) /\ r.RemotePort \in Ports

\* A decoded remote without a mode: it has a local host, one protocol, and unless
\* it is for SOCKS a remote host; only stdio alone has no port.
PlainShape(r) ==
  /\ r.UDSSocketPath = Unset /\ ~(r.Stdio /\ r.Reverse)
  /\ r.LocalProto = r.RemoteProto /\ r.RemoteProto # Unset
  /\ r.LocalHost # Unset /\ Host(r.LocalHost)
  /\ r.Socks => /\ r.RemoteHost = Unset /\ r.RemotePort = Unset
                /\ r.LocalPort \in Ports /\ r.RemoteProto = "tcp"
  /\ ~r.Socks => /\ r.RemoteHost # Unset /\ Host(r.RemoteHost)
                 /\ r.RemotePort \in Ports \cup {Unset}
                 /\ r.RemotePort = Unset => r.Stdio
                 /\ r.RemotePort # Unset => r.LocalPort \in Ports

\* What a remote that is decoded without an error satisfies.
Shape(r) ==
  /\ IsRemote(r) /\ r.err = "none"
  /\ IsUDS(r) => UDSShape(r)
  /\ ~IsUDS(r) => PlainShape(r)

\* decodeUDSRemote gives such a remote.
LEMMA UDSDecoded ==
  ASSUME NEW d, decodeUDSRemote(d).err = "none", d.mode \in {"uds-listen", "uds-pair"}
  PROVE  Shape(decodeUDSRemote(d)) /\ IsUDS(decodeUDSRemote(d))
<1> DEFINE q == decodeUDSRemote(d)
<1>1. /\ q = [[Blank EXCEPT !.Reverse = TRUE, !.UDSMode = d.mode, !.UDSSocketPath = d.path,
                            !.LocalProto = "unix", !.RemoteProto = "tcp"] EXCEPT
                !.RemoteHost = d.parts[1].text, !.RemotePort = d.parts[2].text]
      /\ d.path # Unset /\ d.parts[1].text # Unset /\ isHost(d.parts[1].text)
      /\ d.parts[2].text \in Ports
  BY DEF decodeUDSRemote, Error, Blank, isPort
<1> HIDE DEF q
<1> QED
  BY <1>1, Distinct DEF Blank, Shape, UDSShape, IsUDS, IsRemote, Fields, q

\* So does DecodeRemote without a mode, and it fills in the defaults of what the
\* parts gave.
LEMMA PlainDecoded ==
  ASSUME NEW d, d.rev \in BOOLEAN, d.mode = Unset, DecodeRemote(d).err = "none"
  PROVE  LET p == TakeParts(Start(d.rev), Heads(d.parts))
             q == DecodeRemote(d)
         IN  /\ Len(d.parts) \in 1 .. 4 /\ p.err = "none" /\ q = Defaults(p)
             /\ Shape(q) /\ ~IsUDS(q) /\ q.Reverse = d.rev
<1> DEFINE p == TakeParts(Start(d.rev), Heads(d.parts))
           q == DecodeRemote(d)
<1>1. Len(d.parts) \in 1 .. 4 /\ p.err = "none" /\ q = Validated(Defaults(p))
  BY Distinct DEF DecodeRemote, Start, Error, Blank
<1> HIDE DEF q
<1>2. Partial(p) /\ Begun(p) /\ p.Reverse = d.rev
  <2>1. Len(Heads(d.parts)) \in 1 .. 4
    BY <1>1, HeadsOf
  <2> QED BY <2>1, TakePartsPartial
<1> HIDE DEF p
<1>3. IsRemote(Defaults(p))
  BY <1>2, DefaultsFields DEF Partial
<1>4. /\ q = Defaults(p) /\ q.LocalProto = q.RemoteProto
      /\ q.Socks => q.RemoteProto = "tcp"
      /\ ~(q.Stdio /\ q.Reverse)
  BY <1>1, <1>3, ValidatedFields DEF q
<1>5. /\ IsRemote(q)
      /\ Agree(q, p, Fields \ {"LocalHost", "LocalPort", "RemoteHost", "LocalProto", "RemoteProto"})
      /\ q.LocalHost = Otherwise(p.LocalHost, IF p.Socks THEN Loopback ELSE AnyHost)
      /\ q.LocalPort = IF p.Socks THEN Otherwise(p.LocalPort, "1080") ELSE p.LocalPort
      /\ q.RemoteHost = IF p.Socks THEN p.RemoteHost ELSE Otherwise(p.RemoteHost, Loopback)
      /\ q.RemoteProto = Otherwise(p.RemoteProto, "tcp")
  BY <1>2, <1>4, DefaultsFields DEF Partial
<1>6. /\ q.Socks = p.Socks /\ q.Stdio = p.Stdio /\ q.Reverse = p.Reverse /\ q.err = p.err
      /\ q.RemotePort = p.RemotePort /\ q.UDSMode = Unset /\ q.UDSSocketPath = Unset
  BY <1>2, <1>5 DEF Agree, Fields, Partial
<1>7. Host(AnyHost) /\ Host(Loopback) /\ "1080" \in Ports
  BY TextsAssumption DEF Host, isHost, isPort
<1>8. Shape(q) /\ ~IsUDS(q)
  BY <1>1, <1>2, <1>4, <1>5, <1>6, <1>7, Distinct
     DEF Shape, PlainShape, IsUDS, Otherwise, Partial, Begun, IsRemote
<1> QED
  BY <1>1, <1>2, <1>4, <1>6, <1>8 DEF q, p

\* DecodeRemote has no other errors.
LEMMA DecodedErrors ==
  ASSUME NEW d, d.rev \in BOOLEAN
  PROVE  DecodeRemote(d).err \in Errors
<1>1. CASE d.mode \in {"uds-listen", "uds-pair"}
  BY <1>1 DEF DecodeRemote, decodeUDSRemote, Error, Blank, Errors
<1>2. CASE d.mode \notin {Unset, "uds-listen", "uds-pair"} \/ Len(d.parts) \notin 1 .. 4
  BY <1>2 DEF DecodeRemote, decodeUDSRemote, Error, Blank, Errors
<1>3. CASE d.mode = Unset /\ Len(d.parts) \in 1 .. 4
  <2> DEFINE p == TakeParts(Start(d.rev), Heads(d.parts))
  <2>1. DecodeRemote(d) = IF p.err # "none" THEN p ELSE Validated(Defaults(p))
    BY <1>3, Distinct DEF DecodeRemote, Start
  <2>2. Partial(p)
    <3>1. Len(Heads(d.parts)) \in 1 .. 4
      BY <1>3, HeadsOf
    <3> QED BY <3>1, TakePartsPartial
  <2> HIDE DEF p
  <2>3. IsRemote(Defaults(p)) /\ Defaults(p).err = p.err
    BY <2>2, DefaultsFields DEF Partial, Agree, Fields
  <2> QED
    BY <2>1, <2>2, <2>3 DEF Partial, Validated, Error, IsRemote, Fields, Errors
<1> QED BY <1>1, <1>2, <1>3

\* The remotes that descriptors give.
Decodings == {DecodeRemote(d) : d \in Descriptor}

\* Client.computed holds the decoded arguments, as far as the loop came.
ArgumentsDecoded ==
  /\ args \in Seq(Descriptor) /\ computed \in Seq(Decodings)
  /\ Len(computed) <= Len(args)
  /\ \A i \in Decoded : computed[i] = DecodeRemote(args[i]) /\ computed[i].err = "none"

\* The flags cover every remote so far, not only the last.
FlagsCover ==
  /\ flags \in [reverse : BOOLEAN, socks : BOOLEAN, stdio : BOOLEAN]
  /\ \A i \in Decoded :
       /\ computed[i].Reverse => flags.reverse
       /\ computed[i].Socks => flags.socks
       /\ computed[i].Reverse \/ computed[i].Stdio \/ Listenable(computed[i])

\* The server has checked every remote of an established session.
SessionAccepted ==
  result = "connected" => \A i \in Decoded : Acceptable(computed[i])

\* The last stream was answered by its remote's data, or is one of no remote, which
\* is denied for nothing but SOCKS.
StreamKept ==
  IF stream.of = 0
    THEN stream.kind = "denied" => stream.addr = <<"socks">> /\ ~server.socks5
    ELSE /\ result = "connected" /\ stream.of \in Decoded
         /\ stream.kind = Answer(computed[stream.of])
         /\ stream.addr = HostPort(ChannelData(computed[stream.of]))

\* The invariant behind all three properties.
RemotesInv == ArgumentsDecoded /\ FlagsCover /\ SessionAccepted /\ StreamKept

\* A descriptor that is decoded gives a remote of that shape.
LEMMA DecodedShape ==
  ASSUME NEW d \in Descriptor, DecodeRemote(d).err = "none"
  PROVE  /\ Shape(DecodeRemote(d))
         /\ IsUDS(DecodeRemote(d)) <=> d.mode # Unset
<1>1. d.rev \in BOOLEAN
  BY DEF Descriptor
<1>2. CASE d.mode = Unset
  BY <1>1, <1>2, PlainDecoded
<1>3. CASE d.mode \in {"uds-listen", "uds-pair"}
  BY <1>3, UDSDecoded, Distinct DEF DecodeRemote
<1>4. CASE d.mode \notin {Unset, "uds-listen", "uds-pair"}
  BY <1>4 DEF DecodeRemote, Error, Blank
<1> QED BY <1>2, <1>3, <1>4

\* The invariant holds at first.
LEMMA RemotesInitInv == RemotesInit => RemotesInv
BY ArgumentsAssumption DEF RemotesInit, RemotesInv, ArgumentsDecoded, FlagsCover, SessionAccepted,
     StreamKept, Decoded, NoFlags, NoStream

\* The invariant is kept by each step of NewClient and of the session.
LEMMA RemotesNextInv == RemotesInv /\ [RemotesNext]_remotesVars => RemotesInv'
<1> SUFFICES ASSUME RemotesInv, [RemotesNext]_remotesVars PROVE RemotesInv'
  OBVIOUS
<1> USE DEF RemotesInv
<1>1. CASE UNCHANGED remotesVars
  BY <1>1 DEF remotesVars, ArgumentsDecoded, FlagsCover, SessionAccepted, StreamKept, Decoded,
     Acceptable, Answer
<1>2. ASSUME NEW cause, NewClientFails(cause), AtWork, cause # "connected"
      PROVE  RemotesInv'
  BY <1>2 DEF NewClientFails, AtWork, ArgumentsDecoded, FlagsCover, SessionAccepted, StreamKept,
     Decoded, Acceptable, Answer
<1>3. AtWork => Current.err \in Errors
  BY DecodedErrors DEF AtWork, Current, ArgumentsDecoded, Descriptor
<1>4. CASE DecodeFails \/ SecondStdio \/ CannotListen
  BY <1>2, <1>3, <1>4 DEF DecodeFails, SecondStdio, CannotListen, Errors
<1>5. CASE AppendRemote
  <2>1. /\ AtWork /\ args[Len(computed) + 1] \in Descriptor /\ Current \in Decodings
        /\ Current = DecodeRemote(args[Len(computed) + 1])
        /\ Len(computed) \in Nat /\ Len(args) \in Nat
    BY <1>5 DEF AppendRemote, AtWork, ArgumentsDecoded, Decodings, Current
  <2>2. /\ Current.err = "none" /\ Shape(Current)
        /\ Current.Reverse \/ Current.Stdio \/ Listenable(Current)
    BY <1>5, <2>1, DecodedShape DEF AppendRemote
  <2>3. computed' = Append(computed, Current) /\ Len(computed') = Len(computed) + 1
        /\ \A i \in Decoded : computed'[i] = computed[i]
        /\ computed'[Len(computed) + 1] = Current /\ computed' \in Seq(Decodings)
    BY <1>5, <2>1 DEF AppendRemote, ArgumentsDecoded, Decoded
  <2>4. ArgumentsDecoded'
    BY <1>5, <2>1, <2>2, <2>3 DEF AppendRemote, ArgumentsDecoded, Decoded, AtWork
  <2>5. FlagsCover'
    BY <1>5, <2>1, <2>2, <2>3 DEF AppendRemote, FlagsCover, FlagsWith, Decoded, Shape, IsRemote
  <2>6. SessionAccepted' /\ StreamKept'
    BY <1>5, <2>1 DEF AppendRemote, AtWork, SessionAccepted, StreamKept
  <2> QED BY <2>4, <2>5, <2>6
<1>6. CASE Created
  BY <1>6 DEF Created, ArgumentsDecoded, FlagsCover, SessionAccepted, StreamKept, Decoded
<1>7. CASE Connect
  BY <1>7 DEF Connect, ArgumentsDecoded, FlagsCover, SessionAccepted, StreamKept, Decoded, Acceptable
<1>8. CASE Failed
  BY <1>1, <1>8 DEF Failed
<1>9. ASSUME NEW i \in 1 .. Len(computed), OpenStream(i) PROVE RemotesInv'
  <2>1. UNCHANGED <<args, computed, flags, result, server>> /\ result = "connected"
    BY <1>9 DEF OpenStream
  <2>2. ArgumentsDecoded' /\ FlagsCover' /\ SessionAccepted'
    BY <2>1 DEF ArgumentsDecoded, FlagsCover, SessionAccepted, Decoded, Acceptable
  <2>3. /\ stream'.of = i /\ stream'.kind = Answer(computed[i])
        /\ stream'.addr = HostPort(ChannelData(computed[i]))
    BY <1>9 DEF OpenStream
  <2>4. Answer(computed[i])' = Answer(computed[i]) /\ Decoded' = Decoded
    BY <2>1 DEF Answer, Decoded
  <2>5. i # 0 /\ i \in Decoded
    BY DEF ArgumentsDecoded, Decoded
  <2>6. StreamKept'
    BY <2>1, <2>3, <2>4, <2>5 DEF StreamKept
  <2> QED BY <2>2, <2>6
<1>10. ASSUME NEW data \in Targets, OpenOther(data) PROVE RemotesInv'
  BY <1>10 DEF OpenOther, handleSSHChannel, ArgumentsDecoded, FlagsCover, SessionAccepted, StreamKept,
     Decoded, Acceptable
<1> QED
  BY <1>1, <1>4, <1>5, <1>6, <1>7, <1>8, <1>9, <1>10 DEF RemotesNext

\* The arguments are decoded in order, the flags cover all of them, and a stream is
\* answered only in a session whose remotes were all accepted (client.go:148-187,
\* server_handler.go:147-166).
THEOREM RemotesInvariance == RemotesSpec => []RemotesInv
BY RemotesInitInv, RemotesNextInv, PTL DEF RemotesSpec

\* A stream of a forward remote goes to the address its user was checked for, in
\* lower case for UDP, by the protocol of its remote; and whatever the data of a
\* channel names is served, but for SOCKS that the server does not offer
\* (client.go:148-187, tunnel_out_ssh.go:33-68).
THEOREM StreamsGoAsChecked == RemotesSpec => []StreamAsChecked
<1>1. RemotesInv => StreamAsChecked
  <2> SUFFICES ASSUME RemotesInv PROVE StreamAsChecked
    OBVIOUS
  <2>1. CASE stream.of = 0
    BY <2>1 DEF RemotesInv, StreamKept, StreamAsChecked
  <2>2. CASE stream.of # 0
    <3> DEFINE r == computed[stream.of]
               data == ChannelData(r)
    <3>1. /\ stream.of \in Decoded /\ args[stream.of] \in Descriptor
          /\ r = DecodeRemote(args[stream.of]) /\ r.err = "none"
          /\ stream.kind = Answer(r) /\ stream.addr = HostPort(data) /\ Acceptable(r)
          /\ r.Reverse => flags.reverse
          /\ r.Socks => flags.socks
          /\ r.Reverse \/ r.Stdio \/ Listenable(r)
      BY <2>2 DEF RemotesInv, ArgumentsDecoded, FlagsCover, SessionAccepted, StreamKept, Decoded
    <3>2. Shape(r)
      BY <3>1, DecodedShape
    <3> HIDE DEF r
    <3>3. data.target = Remote(r) /\ data.proto \in {"udp", Unset}
      BY DEF ChannelData
    <3>4. ~r.Stdio => data.proto = IF r.RemoteProto = "udp" THEN "udp" ELSE Unset
      BY <3>2 DEF ChannelData, Shape, UDSShape, PlainShape
    <3>5. ~r.Stdio => r.RemoteProto \in {"tcp", "udp"}
      BY <3>1, <3>2 DEF Listenable, Acceptable, Shape, UDSShape, PlainShape
    <3>6. r.Stdio => data.proto = Unset
      BY DEF ChannelData
    <3> HIDE DEF data
    <3>7. CASE r.Socks
      <4>1. data.proto = Unset
        BY <3>2, <3>4, <3>6, <3>7 DEF Shape, UDSShape, PlainShape, IsRemote
      <4>2. HostPort(data) = <<"socks">>
        BY <3>3, <3>7, <4>1 DEF HostPort, Remote
      <4>3. Answer(r) = IF r.Reverse \/ server.socks5 THEN "socks" ELSE "denied"
        BY <3>1, <3>7, <4>2 DEF Answer, handleSSHChannel, data
      <4> QED BY <2>2, <3>1, <3>2, <3>7, <4>2, <4>3 DEF Shape, IsRemote, StreamAsChecked, r
    <3>8. CASE ~r.Socks
      <4>1. Remote(r) = <<Otherwise(r.RemoteHost, Loopback), r.RemotePort>>
        BY <3>8 DEF Remote
      <4>2. HostPort(data) # <<"socks">>
        <5>1. Len(HostPort(data)) = 2
          BY <3>3, <4>1 DEF HostPort, Lowered
        <5>2. Len(<<"socks">>) = 1
          OBVIOUS
        <5> QED BY <5>1, <5>2
      <4>3. Answer(r) = IF data.proto = "udp" THEN "udp" ELSE "tcp"
        BY <3>1, <4>2 DEF Answer, handleSSHChannel, data
      <4>4. Answer(r) \in {"tcp", "udp"} /\ (~r.Stdio => Answer(r) = r.RemoteProto)
        BY <3>4, <3>5, <4>3, Distinct
      <4>5. ~r.Reverse => Remote(r) = UserAddr(r)
        BY <3>2, <3>8 DEF Remote, UserAddr, Otherwise, Shape, UDSShape, PlainShape
      <4>6. ~r.Reverse => HostPort(data) = IF Answer(r) = "udp" THEN Lowered(UserAddr(r))
                                           ELSE UserAddr(r)
        BY <3>3, <4>3, <4>5, Distinct DEF HostPort
      <4> QED BY <2>2, <3>1, <3>2, <3>8, <4>2, <4>4, <4>6 DEF Shape, IsRemote, StreamAsChecked, r
    <3> QED BY <3>7, <3>8
  <2> QED BY <2>1, <2>2
<1> QED
  BY <1>1, RemotesInvariance, PTL

-----------------------------------------------------------------------------
(* Remotes: the texts made of a remote.                                    *)

\* A remote is its fields.
LEMMA SameRemote ==
  ASSUME NEW r, IsRemote(r), NEW q, IsRemote(q), Agree(q, r, Fields)
  PROVE  q = r
BY DEF IsRemote, Agree

\* Two reverse remotes that can listen and have the same name are the same.
LEMMA NamesTellApart ==
  ASSUME NEW r, Shape(r), r.Reverse, Listenable(r), NEW q, Shape(q), q.Reverse, Listenable(q),
         String(q) = String(r)
  PROVE  q = r
<1>1. q.Reverse = r.Reverse /\ q.UDSMode = r.UDSMode /\ (IsUDS(q) <=> IsUDS(r))
  BY DEF String, IsUDS, Shape, IsRemote
<1>2. TrimHost(Remote(q), Loopback) = TrimHost(Remote(r), Loopback)
  BY DEF String
<1>3. CASE IsUDS(r)
  <2>1. Local(q) = Local(r) /\ UDSShape(q) /\ UDSShape(r)
    BY <1>1, <1>3 DEF String, Shape
  <2>2. q.UDSSocketPath = r.UDSSocketPath
    BY <1>1, <1>3, <2>1 DEF Local
  <2>3. Remote(q) = <<q.RemoteHost, q.RemotePort>> /\ Remote(r) = <<r.RemoteHost, r.RemotePort>>
    BY <2>1 DEF UDSShape, Remote, Otherwise
  <2>4. q.RemoteHost = r.RemoteHost /\ q.RemotePort = r.RemotePort
    BY <1>2, <2>3 DEF TrimHost
  <2> QED
    BY <1>1, <2>1, <2>2, <2>4, SameRemote DEF UDSShape, Shape, Agree, Fields, IsRemote
<1>4. CASE ~IsUDS(r)
  <2>1. /\ PlainShape(q) /\ PlainShape(r) /\ TrimHost(Local(q), AnyHost) = TrimHost(Local(r), AnyHost)
        /\ (q.RemoteProto = "udp") <=> (r.RemoteProto = "udp")
    BY <1>1, <1>4 DEF String, Shape
  <2>2. /\ ~q.Stdio /\ ~r.Stdio
        /\ Local(q) = <<q.LocalHost, q.LocalPort>> /\ Local(r) = <<r.LocalHost, r.LocalPort>>
    BY <1>1, <1>4, <2>1 DEF PlainShape, Local, Otherwise
  <2>3. q.LocalHost = r.LocalHost /\ q.LocalPort = r.LocalPort
    BY <2>1, <2>2 DEF TrimHost
  <2>4. q.RemoteProto = r.RemoteProto /\ q.LocalProto = r.LocalProto
    BY <1>1, <1>4, <2>1 DEF Listenable, PlainShape
  <2>5. q.Socks = r.Socks /\ q.RemoteHost = r.RemoteHost /\ q.RemotePort = r.RemotePort
    <3>1. ASSUME NEW x, Shape(x), PlainShape(x)
          PROVE  /\ x.Socks => TrimHost(Remote(x), Loopback) = <<"socks">>
                 /\ ~x.Socks /\ x.RemoteHost = Loopback => TrimHost(Remote(x), Loopback) = <<x.RemotePort>>
                 /\ ~x.Socks /\ x.RemoteHost # Loopback =>
                      TrimHost(Remote(x), Loopback) = <<x.RemoteHost, x.RemotePort>>
                 /\ ~x.Socks => x.RemotePort # "socks"
      <4>1. x.Socks => Remote(x) = <<"socks">>
        BY DEF Remote
      <4>2. ~x.Socks => Remote(x) = <<x.RemoteHost, x.RemotePort>>
        BY <3>1 DEF Remote, Otherwise, PlainShape
      <4>3. "socks" \notin Ports
        BY TextsAssumption
      <4>4. ~x.Socks => x.RemotePort # "socks"
        BY <3>1, <4>3, Distinct DEF PlainShape
      <4>5. TrimHost(<<"socks">>, Loopback) = <<"socks">>
        BY Distinct DEF TrimHost
      <4>6. x.RemoteHost = Loopback =>
              TrimHost(<<x.RemoteHost, x.RemotePort>>, Loopback) = <<x.RemotePort>>
        BY DEF TrimHost
      <4>7. x.RemoteHost # Loopback => TrimHost(<<x.RemoteHost, x.RemotePort>>, Loopback) =
              <<x.RemoteHost, x.RemotePort>>
        BY DEF TrimHost
      <4> QED BY <4>1, <4>2, <4>4, <4>5, <4>6, <4>7, Zenon
    <3>2. /\ TrimHost(Remote(q), Loopback) = TrimHost(Remote(r), Loopback)
          /\ q.Socks \in BOOLEAN /\ r.Socks \in BOOLEAN
      BY <1>2 DEF Shape, IsRemote
    <3>3. (q.Socks <=> r.Socks) /\ q.Socks \in BOOLEAN /\ r.Socks \in BOOLEAN
      BY <2>1, <3>1, <3>2
    <3>4. CASE r.Socks
      BY <2>1, <3>3, <3>4 DEF PlainShape
    <3>5. CASE ~r.Socks
      BY <2>1, <3>1, <3>2, <3>3, <3>5
    <3> QED BY <3>4, <3>5
  <2>6. q.UDSSocketPath = r.UDSSocketPath /\ q.Stdio = r.Stdio /\ q.err = r.err
    BY <2>1, <2>2 DEF PlainShape, Shape, IsRemote
  <2>7. Agree(q, r, Fields)
    BY <1>1, <2>3, <2>4, <2>5, <2>6 DEF Agree, Fields
  <2> QED
    BY <2>7, SameRemote DEF Shape
<1> QED BY <1>3, <1>4

\* Without stdio, the fields are these; without a remote port it is for SOCKS.
Read(p, lh, lp, rh, rp) ==
  /\ IsRemote(p) /\ p.err = "none" /\ ~p.Stdio /\ p.UDSMode = Unset /\ p.UDSSocketPath = Unset
  /\ p.LocalHost = lh /\ p.LocalPort = lp /\ p.RemoteHost = rh /\ p.RemotePort = rp
  /\ p.Socks <=> rp = Unset

\* Reading the last part: a port, or socks.
LEMMA ReadLast ==
  ASSUME NEW rev \in BOOLEAN, NEW part, NEW names, "socks" \in names
  PROVE  LET q == TakePart(Start(rev), part, names)
         IN  /\ part.text \in Ports =>
                  /\ Read(q, Unset, part.text, Unset, part.text)
                  /\ q.RemoteProto = part.proto /\ q.LocalProto = Unset
             /\ part = Part("socks", Unset) =>
                  /\ Read(q, Unset, Unset, Unset, Unset)
                  /\ q.RemoteProto = Unset /\ q.LocalProto = Unset
<1> DEFINE s == Start(rev)
           q == TakePart(s, part, names)
<1>1. Partial(s) /\ Agree(s, Blank, Fields \ {"Reverse"})
  BY StartPartial
<1> HIDE DEF s
<1>2. /\ IsRemote(s) /\ s.err = "none" /\ ~s.Socks /\ ~s.Stdio
      /\ s.LocalHost = Unset /\ s.LocalPort = Unset /\ s.LocalProto = Unset
      /\ s.RemoteHost = Unset /\ s.RemotePort = Unset /\ s.RemoteProto = Unset
      /\ s.UDSMode = Unset /\ s.UDSSocketPath = Unset
  BY <1>1 DEF Agree, Fields, Blank, Partial
<1>3. ASSUME part.text \in Ports
      PROVE  /\ Read(q, Unset, part.text, Unset, part.text)
             /\ q.RemoteProto = part.proto /\ q.LocalProto = Unset
  <2>1. /\ IsRemote(q)
        /\ Agree(q, s, Fields \ {"LocalProto", "RemoteProto", "LocalPort", "RemotePort"})
        /\ q.LocalPort = part.text /\ q.RemotePort = part.text
        /\ part.proto = Unset => Agree(q, s, {"LocalProto", "RemoteProto"})
        /\ q.LocalProto = s.LocalProto
        /\ part.proto # Unset => q.RemoteProto = part.proto
    BY <1>2, <1>3, PortPart
  <2> HIDE DEF q
  <2>2. part.text # Unset
    BY <1>3, TextsAssumption
  <2> QED BY <1>2, <2>1, <2>2 DEF Read, Agree, Fields
<1>4. ASSUME part = Part("socks", Unset)
      PROVE  /\ Read(q, Unset, Unset, Unset, Unset)
             /\ q.RemoteProto = Unset /\ q.LocalProto = Unset
  <2>1. IsRemote(q) /\ q.Socks /\ Agree(q, s, Fields \ {"Socks"})
    BY <1>2, <1>4, NamedPart
  <2> HIDE DEF q
  <2> QED BY <1>2, <2>1 DEF Read, Agree, Fields
<1> QED BY <1>3, <1>4 DEF q, s

\* Reading a port after it.
LEMMA ReadPort ==
  ASSUME NEW r, NEW lh, NEW lp, NEW rh, NEW rp, Read(r, lh, lp, rh, rp),
         NEW part, NEW names, part.text \in Ports
  PROVE  LET q == TakePart(r, part, names)
         IN  /\ Read(q, lh, part.text, rh, rp)
             /\ r.RemotePort # Unset \/ part.proto = Unset => q.RemoteProto = r.RemoteProto
             /\ part.proto = Unset => q.LocalProto = r.LocalProto
<1> DEFINE q == TakePart(r, part, names)
<1>1. IsRemote(r) /\ r.err = "none" /\ (r.Socks \/ r.RemotePort # Unset)
  BY DEF Read
<1>2. /\ IsRemote(q)
      /\ Agree(q, r, Fields \ {"LocalProto", "RemoteProto", "LocalPort", "RemotePort"})
      /\ q.LocalPort = part.text /\ q.RemotePort = r.RemotePort
      /\ part.proto = Unset => Agree(q, r, {"LocalProto", "RemoteProto"})
      /\ r.RemotePort # Unset => q.RemoteProto = r.RemoteProto
  BY <1>1, PortPart
<1> HIDE DEF q
<1>3. /\ Read(q, lh, part.text, rh, rp)
      /\ r.RemotePort # Unset \/ part.proto = Unset => q.RemoteProto = r.RemoteProto
      /\ part.proto = Unset => q.LocalProto = r.LocalProto
  BY <1>2 DEF Read, Agree, Fields
<1> QED BY <1>3 DEF q

\* Reading a host after it: the remote host first, then the local one, and for
\* SOCKS the local one at once.
LEMMA ReadHost ==
  ASSUME NEW r, NEW lp, NEW rh, NEW rp, Read(r, Unset, lp, rh, rp),
         NEW part, NEW names, part.text \notin Ports, "socks" \notin names,
         part.text = "stdio" => "stdio" \notin names
  PROVE  LET q == TakePart(r, part, names)
         IN  /\ q.err = "none" <=> isHost(part.text)
             /\ q.err = "none" /\ rp # Unset /\ rh = Unset => Read(q, Unset, lp, part.text, rp)
             /\ q.err = "none" /\ (rp = Unset \/ rh # Unset) => Read(q, part.text, lp, rh, rp)
             /\ r.RemotePort # Unset \/ part.proto = Unset => q.RemoteProto = r.RemoteProto
             /\ part.proto = Unset => q.LocalProto = r.LocalProto
<1> DEFINE q == TakePart(r, part, names)
<1>0. Part("stdio", Unset).text = "stdio"
  BY DEF Part
<1>1. /\ IsRemote(r) /\ r.err = "none" /\ (r.Socks \/ r.RemotePort # Unset)
      /\ ~("socks" \in names /\ part = Part("socks", Unset))
      /\ ~("stdio" \in names /\ part = Part("stdio", Unset))
  BY <1>0 DEF Read
<1>2. /\ IsRemote(q)
      /\ q.err = "none" <=> isHost(part.text)
      /\ Agree(q, r, Fields \ {"LocalProto", "RemoteProto", "LocalHost", "RemoteHost", "err"})
      /\ q.err = "none" /\ ~r.Socks /\ r.RemoteHost = Unset =>
           q.RemoteHost = part.text /\ q.LocalHost = r.LocalHost
      /\ q.err = "none" /\ (r.Socks \/ r.RemoteHost # Unset) =>
           q.RemoteHost = r.RemoteHost /\ q.LocalHost = part.text
      /\ part.proto = Unset => Agree(q, r, {"LocalProto", "RemoteProto"})
      /\ r.RemotePort # Unset => q.RemoteProto = r.RemoteProto
  BY <1>1, HostPart
<1> HIDE DEF q
<1>3. /\ q.err = "none" <=> isHost(part.text)
      /\ q.err = "none" /\ rp # Unset /\ rh = Unset => Read(q, Unset, lp, part.text, rp)
      /\ q.err = "none" /\ (rp = Unset \/ rh # Unset) => Read(q, part.text, lp, rh, rp)
      /\ r.RemotePort # Unset \/ part.proto = Unset => q.RemoteProto = r.RemoteProto
      /\ part.proto = Unset => q.LocalProto = r.LocalProto
  BY <1>2 DEF Read, Agree, Fields
<1> QED BY <1>3 DEF q

\* A descriptor whose parts are read without an error, with one protocol at most,
\* is decoded to them and the defaults.
LEMMA DecodedForward ==
  ASSUME NEW rev \in BOOLEAN, NEW parts, Len(parts) \in 1 .. 4,
         NEW p, p = TakeParts(Start(rev), Heads(parts)),
         p.err = "none", p.LocalProto = Unset, p.Socks => p.RemoteProto = Unset,
         ~(p.Stdio /\ rev),
         NEW d, d.rev = rev, d.mode = Unset, d.parts = parts
  PROVE  /\ IsRemote(p) /\ p.Reverse = rev
         /\ DecodeRemote(d) = Defaults(p)
<1>1. Partial(p) /\ p.Reverse = rev
  <2>1. Len(Heads(parts)) \in 1 .. 4
    BY HeadsOf
  <2> QED BY <2>1, TakePartsPartial
<1>2. DecodeRemote(d) = Validated(Defaults(p))
  BY Distinct DEF DecodeRemote, Start
<1> DEFINE q == Defaults(p)
<1>3. /\ IsRemote(q) /\ q.Socks = p.Socks /\ q.Stdio = p.Stdio /\ q.Reverse = rev
      /\ q.RemoteProto = Otherwise(p.RemoteProto, "tcp")
      /\ q.LocalProto = Otherwise(p.LocalProto, q.RemoteProto)
  BY <1>1, DefaultsFields DEF Partial, Agree, Fields
<1> HIDE DEF q
<1>4. Validated(q) = q
  BY <1>3, Distinct DEF Validated, Otherwise
<1> QED BY <1>1, <1>2, <1>4 DEF q, Partial

\* A concatenation is known by its elements.
LEMMA Joins ==
  ASSUME NEW S, NEW s \in Seq(S), NEW t \in Seq(S), NEW u \in Seq(S), Len(u) = Len(s) + Len(t),
         \A i \in 1 .. Len(s) : u[i] = s[i],
         \A i \in 1 .. Len(t) : u[i + Len(s)] = t[i]
  PROVE  s \o t = u
<1>1. s \o t \in Seq(S) /\ Len(s \o t) = Len(u)
  OBVIOUS
<1>2. \A i \in 1 .. Len(u) : (s \o t)[i] = u[i]
  <2> TAKE i \in 1 .. Len(u)
  <2>1. CASE i <= Len(s)
    BY <2>1
  <2>2. CASE i > Len(s)
    <3>1. i - Len(s) \in 1 .. Len(t) /\ (i - Len(s)) + Len(s) = i
      BY <2>2
    <3>2. u[i] = t[i - Len(s)]
      BY <3>1
    <3> QED BY <2>2, <3>1, <3>2
  <2> QED BY <2>1, <2>2
<1> QED BY <1>1, <1>2, SeqEqual

\* Two pairs, one after the other.
LEMMA Pairs ==
  ASSUME NEW a, NEW b, NEW c, NEW d
  PROVE  <<a, b>> \o <<c, d>> = <<a, b, c, d>>
<1> DEFINE S == {a, b, c, d}
<1>1. <<a, b>> \o <<c, d>> = <<a, b, c, d>>
  <2> DEFINE s == <<a, b>>
             t == <<c, d>>
             u == <<a, b, c, d>>
  <2>1. s \in Seq(S) /\ t \in Seq(S) /\ u \in Seq(S) /\ Len(u) = Len(s) + Len(t)
    OBVIOUS
  <2>2. /\ \A i \in 1 .. Len(s) : u[i] = s[i]
        /\ \A i \in 1 .. Len(t) : u[i + Len(s)] = t[i]
    OBVIOUS
  <2> HIDE DEF s, t, u, S
  <2>3. s \o t = u
    BY <2>1, <2>2, Joins
  <2> QED BY <2>3 DEF s, t, u
<1> QED BY <1>1

\* Tuples of up to three elements.
LEMMA Tuples ==
  ASSUME NEW a, NEW b, NEW c
  PROVE  /\ <<a>> \o <<b>> = <<a, b>>
         /\ <<a>> \o <<b, c>> = <<a, b, c>>
         /\ <<a, b>> \o <<c>> = <<a, b, c>>
<1> DEFINE S == {a, b, c}
<1>1. <<a>> \o <<b>> = <<a, b>>
  <2> DEFINE s == <<a>>
             t == <<b>>
             u == <<a, b>>
  <2>1. s \in Seq(S) /\ t \in Seq(S) /\ u \in Seq(S) /\ Len(u) = Len(s) + Len(t)
    OBVIOUS
  <2>2. /\ \A i \in 1 .. Len(s) : u[i] = s[i]
        /\ \A i \in 1 .. Len(t) : u[i + Len(s)] = t[i]
    <3>1. Len(s) = 1 /\ Len(t) = 1 /\ u[1] = s[1] /\ u[2] = t[1]
      OBVIOUS
    <3> HIDE DEF s, t, u
    <3> QED BY <3>1
  <2> HIDE DEF s, t, u, S
  <2>3. s \o t = u
    BY <2>1, <2>2, Joins
  <2> QED BY <2>3 DEF s, t, u
<1>2. <<a>> \o <<b, c>> = <<a, b, c>>
  <2> DEFINE s == <<a>>
             t == <<b, c>>
             u == <<a, b, c>>
  <2>1. s \in Seq(S) /\ t \in Seq(S) /\ u \in Seq(S) /\ Len(u) = Len(s) + Len(t)
    OBVIOUS
  <2>2. /\ \A i \in 1 .. Len(s) : u[i] = s[i]
        /\ \A i \in 1 .. Len(t) : u[i + Len(s)] = t[i]
    OBVIOUS
  <2> HIDE DEF s, t, u, S
  <2>3. s \o t = u
    BY <2>1, <2>2, Joins
  <2> QED BY <2>3 DEF s, t, u
<1>3. <<a, b>> \o <<c>> = <<a, b, c>>
  <2> DEFINE s == <<a, b>>
             t == <<c>>
             u == <<a, b, c>>
  <2>1. s \in Seq(S) /\ t \in Seq(S) /\ u \in Seq(S) /\ Len(u) = Len(s) + Len(t)
    OBVIOUS
  <2>2. /\ \A i \in 1 .. Len(s) : u[i] = s[i]
        /\ \A i \in 1 .. Len(t) : u[i + Len(s)] = t[i]
    OBVIOUS
  <2> HIDE DEF s, t, u, S
  <2>3. s \o t = u
    BY <2>1, <2>2, Joins
  <2> QED BY <2>3 DEF s, t, u
<1> QED BY <1>1, <1>2, <1>3

\* A triple and a fourth element.
LEMMA Fourth ==
  ASSUME NEW a, NEW b, NEW c, NEW d
  PROVE  <<a, b, c>> \o <<d>> = <<a, b, c, d>>
<1> DEFINE S == {a, b, c, d}
<1>1. <<a, b, c>> \o <<d>> = <<a, b, c, d>>
  <2> DEFINE s == <<a, b, c>>
             t == <<d>>
             u == <<a, b, c, d>>
  <2>1. s \in Seq(S) /\ t \in Seq(S) /\ u \in Seq(S) /\ Len(u) = Len(s) + Len(t)
    OBVIOUS
  <2>2. /\ \A i \in 1 .. Len(s) : u[i] = s[i]
        /\ \A i \in 1 .. Len(t) : u[i + Len(s)] = t[i]
    OBVIOUS
  <2> HIDE DEF s, t, u, S
  <2>3. s \o t = u
    BY <2>1, <2>2, Joins
  <2> QED BY <2>3 DEF s, t, u
<1> QED BY <1>1

\* The descriptor of a remote with a mode gives it back.
LEMMA UDSAgain ==
  ASSUME NEW r, Shape(r), IsUDS(r)
  PROVE  DecodeRemote(Encode(r)) = r
<1> DEFINE d == Encode(r)
           q == DecodeRemote(d)
<1>1. UDSShape(r) /\ IsRemote(r) /\ r.err = "none"
  BY DEF Shape
<1>2. r.RemotePort # Unset
  BY <1>1, TextsAssumption DEF UDSShape
<1>3. Remote(r) = <<r.RemoteHost, r.RemotePort>>
  BY <1>1 DEF UDSShape, Remote, Otherwise
<1>4. AsParts(<<r.RemoteHost, r.RemotePort>>, Unset) =
        <<Part(r.RemoteHost, Unset), Part(r.RemotePort, Unset)>>
  BY <1>2 DEF AsParts
<1>5. /\ d.rev = r.Reverse /\ d.mode = r.UDSMode /\ d.path = r.UDSSocketPath
      /\ d.parts = <<Part(r.RemoteHost, Unset), Part(r.RemotePort, Unset)>>
  BY <1>3, <1>4 DEF Encode
<1> HIDE DEF d
<1>6. /\ Len(d.parts) = 2
      /\ d.parts[1].text = r.RemoteHost /\ d.parts[2].text = r.RemotePort
  BY <1>5 DEF Part
<1>7. q = [[Blank EXCEPT !.Reverse = TRUE, !.UDSMode = d.mode, !.UDSSocketPath = d.path,
                         !.LocalProto = "unix", !.RemoteProto = "tcp"] EXCEPT
             !.RemoteHost = d.parts[1].text, !.RemotePort = d.parts[2].text]
  <2>1. q = decodeUDSRemote(d)
    BY <1>1, <1>5 DEF DecodeRemote, UDSShape
  <2>2. /\ d.rev /\ Len(d.parts) = 2 /\ d.path # Unset /\ d.parts[1].text # Unset
        /\ isHost(d.parts[1].text) /\ isPort(d.parts[2].text)
    BY <1>1, <1>5, <1>6 DEF UDSShape, isPort
  <2> QED BY <2>1, <2>2 DEF decodeUDSRemote
<1>8. IsRemote(q) /\ Agree(q, r, Fields)
  <2> HIDE DEF q
  <2>1. /\ IsRemote(q) /\ q.Reverse /\ ~q.Socks /\ ~q.Stdio /\ q.err = "none"
        /\ q.UDSMode = d.mode /\ q.UDSSocketPath = d.path
        /\ q.LocalProto = "unix" /\ q.RemoteProto = "tcp"
        /\ q.LocalHost = Unset /\ q.LocalPort = Unset
        /\ q.RemoteHost = d.parts[1].text /\ q.RemotePort = d.parts[2].text
    BY <1>7 DEF IsRemote, Fields, Blank
  <2>2. q.Reverse = r.Reverse /\ q.Socks = r.Socks /\ q.Stdio = r.Stdio
    BY <1>1, <2>1 DEF IsRemote, UDSShape
  <2> QED BY <1>1, <1>5, <1>6, <2>1, <2>2 DEF Agree, Fields, UDSShape
<1> QED BY <1>1, <1>8, SameRemote DEF d, q

\* The parts that Encode writes: one descriptor for each combination of stdio and
\* socks.
LEMMA EncodeParts ==
  ASSUME NEW r, Shape(r), ~IsUDS(r), r.Socks \/ r.RemotePort # Unset
  PROVE  LET d == Encode(r)
             proto == IF r.RemoteProto = "udp" THEN "udp" ELSE Unset
             local == Part(r.LocalHost, Unset)
             port == Part(r.LocalPort, Unset)
             stdio == Part("stdio", Unset)
             socks == Part("socks", Unset)
             host == Part(r.RemoteHost, Unset)
             last == Part(r.RemotePort, proto)
         IN  /\ d.rev = r.Reverse /\ d.mode = Unset
             /\ ~r.Stdio /\ ~r.Socks => d.parts = <<local, port, host, last>>
             /\ ~r.Stdio /\ r.Socks => d.parts = <<local, port, socks>>
             /\ r.Stdio /\ ~r.Socks => d.parts = <<stdio, host, last>>
             /\ r.Stdio /\ r.Socks => d.parts = <<stdio, socks>>
<1> DEFINE q == [r EXCEPT !.LocalPort = Otherwise(@, r.RemotePort)]
           proto == IF r.RemoteProto = "udp" THEN "udp" ELSE Unset
<1>1. PlainShape(r) /\ IsRemote(r)
  BY DEF Shape
<1>2. r.LocalPort \in Ports /\ r.LocalPort # Unset
  BY <1>1, TextsAssumption DEF PlainShape
<1>3. ~IsUDS(q) /\ q.Stdio = r.Stdio /\ q.LocalHost = r.LocalHost /\ q.LocalPort = r.LocalPort
  BY <1>1, <1>2 DEF IsUDS, Otherwise, IsRemote, Fields
<1>4. /\ Encode(r).rev = r.Reverse /\ Encode(r).mode = Unset
      /\ Encode(r).parts = AsParts(Local(q), Unset) \o AsParts(Remote(r), proto)
  BY DEF Encode, IsUDS
<1> HIDE DEF q
<1>5. /\ r.Stdio => Local(q) = <<"stdio">>
      /\ ~r.Stdio => Local(q) = <<r.LocalHost, r.LocalPort>>
  BY <1>1, <1>3 DEF Local, Otherwise, PlainShape
<1>6. /\ r.Socks => Remote(r) = <<"socks">> /\ proto = Unset
      /\ ~r.Socks => Remote(r) = <<r.RemoteHost, r.RemotePort>>
  BY <1>1 DEF Remote, Otherwise, PlainShape
<1> HIDE DEF proto
<1>7. /\ AsParts(<<"stdio">>, Unset) = <<Part("stdio", Unset)>>
      /\ AsParts(<<"socks">>, Unset) = <<Part("socks", Unset)>>
      /\ AsParts(<<r.LocalHost, r.LocalPort>>, Unset) =
           <<Part(r.LocalHost, Unset), Part(r.LocalPort, Unset)>>
      /\ ~r.Socks => AsParts(<<r.RemoteHost, r.RemotePort>>, proto) =
           <<Part(r.RemoteHost, Unset), Part(r.RemotePort, proto)>>
  BY <1>2 DEF AsParts
<1>8. ASSUME ~r.Stdio, ~r.Socks
      PROVE  Encode(r).parts =
               <<Part(r.LocalHost, Unset), Part(r.LocalPort, Unset), Part(r.RemoteHost, Unset),
                 Part(r.RemotePort, proto)>>
  <2>1. AsParts(Local(q), Unset) = <<Part(r.LocalHost, Unset), Part(r.LocalPort, Unset)>>
    BY <1>5, <1>7, <1>8
  <2>2. AsParts(Remote(r), proto) = <<Part(r.RemoteHost, Unset), Part(r.RemotePort, proto)>>
    BY <1>6, <1>7, <1>8
  <2>3. <<Part(r.LocalHost, Unset), Part(r.LocalPort, Unset)>> \o
          <<Part(r.RemoteHost, Unset), Part(r.RemotePort, proto)>> =
        <<Part(r.LocalHost, Unset), Part(r.LocalPort, Unset), Part(r.RemoteHost, Unset),
          Part(r.RemotePort, proto)>>
    BY Pairs, Zenon
  <2> QED BY <1>4, <2>1, <2>2, <2>3, Zenon
<1>9. ASSUME ~r.Stdio, r.Socks
      PROVE  Encode(r).parts =
               <<Part(r.LocalHost, Unset), Part(r.LocalPort, Unset), Part("socks", Unset)>>
  <2>1. AsParts(Local(q), Unset) = <<Part(r.LocalHost, Unset), Part(r.LocalPort, Unset)>>
    BY <1>5, <1>7, <1>9
  <2>2. AsParts(Remote(r), proto) = <<Part("socks", Unset)>>
    BY <1>6, <1>7, <1>9
  <2>3. <<Part(r.LocalHost, Unset), Part(r.LocalPort, Unset)>> \o
          <<Part("socks", Unset)>> =
        <<Part(r.LocalHost, Unset), Part(r.LocalPort, Unset), Part("socks", Unset)>>
    BY Tuples, Zenon
  <2> QED BY <1>4, <2>1, <2>2, <2>3, Zenon
<1>10. ASSUME r.Stdio, ~r.Socks
      PROVE  Encode(r).parts =
               <<Part("stdio", Unset), Part(r.RemoteHost, Unset), Part(r.RemotePort, proto)>>
  <2>1. AsParts(Local(q), Unset) = <<Part("stdio", Unset)>>
    BY <1>5, <1>7, <1>10
  <2>2. AsParts(Remote(r), proto) = <<Part(r.RemoteHost, Unset), Part(r.RemotePort, proto)>>
    BY <1>6, <1>7, <1>10
  <2>3. <<Part("stdio", Unset)>> \o
          <<Part(r.RemoteHost, Unset), Part(r.RemotePort, proto)>> =
        <<Part("stdio", Unset), Part(r.RemoteHost, Unset), Part(r.RemotePort, proto)>>
    BY Tuples, Zenon
  <2> QED BY <1>4, <2>1, <2>2, <2>3, Zenon
<1>11. ASSUME r.Stdio, r.Socks
      PROVE  Encode(r).parts =
               <<Part("stdio", Unset), Part("socks", Unset)>>
  <2>1. AsParts(Local(q), Unset) = <<Part("stdio", Unset)>>
    BY <1>5, <1>7, <1>11
  <2>2. AsParts(Remote(r), proto) = <<Part("socks", Unset)>>
    BY <1>6, <1>7, <1>11
  <2>3. <<Part("stdio", Unset)>> \o
          <<Part("socks", Unset)>> =
        <<Part("stdio", Unset), Part("socks", Unset)>>
    BY Tuples, Zenon
  <2> QED BY <1>4, <2>1, <2>2, <2>3, Zenon
<1> QED BY <1>4, <1>8, <1>9, <1>10, <1>11, Zenon DEF proto

\* The same remote, but for the local address of stdio.
Again(r, q) ==
  /\ IsRemote(q) /\ Agree(q, r, Fields \ {"LocalHost", "LocalPort"})
  /\ ~r.Stdio => Agree(q, r, {"LocalHost", "LocalPort"})

\* If the parts that Encode writes give the fields back, so does DecodeRemote.
LEMMA PartsAgain ==
  ASSUME NEW r, Shape(r), ~IsUDS(r), r.RemoteProto \in {"tcp", "udp"},
         r.Socks \/ r.RemotePort # Unset, Len(Encode(r).parts) \in 1 .. 4,
         NEW p, p = TakeParts(Start(r.Reverse), Heads(Encode(r).parts)), IsRemote(p), p.err = "none",
         p.LocalProto = Unset, r.RemoteProto = "udp" => p.RemoteProto = "udp",
         r.RemoteProto # "udp" => p.RemoteProto = Unset,
         p.Socks <=> r.Socks, p.Stdio <=> r.Stdio,
         p.UDSMode = Unset, p.UDSSocketPath = Unset,
         p.RemoteHost = r.RemoteHost, p.RemotePort = r.RemotePort,
         ~r.Stdio => p.LocalHost = r.LocalHost /\ p.LocalPort = r.LocalPort
  PROVE  Again(r, DecodeRemote(Encode(r)))
<1>1. PlainShape(r) /\ IsRemote(r) /\ r.err = "none" /\ r.UDSMode = Unset
  BY DEF Shape, IsUDS
<1>2. p.Socks = r.Socks /\ p.Stdio = r.Stdio /\ r.Reverse \in BOOLEAN
  BY <1>1 DEF IsRemote
<1>3. Encode(r).rev = r.Reverse /\ Encode(r).mode = Unset
  BY <1>1 DEF Encode
<1> DEFINE d == Encode(r)
           q == DecodeRemote(d)
<1>4. p.Reverse = r.Reverse /\ q = Defaults(p)
  <2>1. p.Socks => p.RemoteProto = Unset
    BY <1>1, <1>2 DEF PlainShape
  <2>2. ~(p.Stdio /\ r.Reverse)
    BY <1>1, <1>2 DEF PlainShape
  <2> HIDE DEF d
  <2>3. Len(d.parts) \in 1 .. 4 /\ p = TakeParts(Start(r.Reverse), Heads(d.parts))
        /\ d.rev = r.Reverse /\ d.mode = Unset
    BY <1>3 DEF d
  <2> QED BY <1>2, <2>1, <2>2, <2>3, DecodedForward
<1> HIDE DEF q
<1>5. /\ IsRemote(q)
      /\ Agree(q, p, Fields \ {"LocalHost", "LocalPort", "RemoteHost", "LocalProto", "RemoteProto"})
      /\ q.LocalHost = Otherwise(p.LocalHost, IF p.Socks THEN Loopback ELSE AnyHost)
      /\ q.LocalPort = IF p.Socks THEN Otherwise(p.LocalPort, "1080") ELSE p.LocalPort
      /\ q.RemoteHost = IF p.Socks THEN p.RemoteHost ELSE Otherwise(p.RemoteHost, Loopback)
      /\ q.RemoteProto = Otherwise(p.RemoteProto, "tcp")
      /\ q.LocalProto = Otherwise(p.LocalProto, q.RemoteProto)
  BY <1>4, DefaultsFields
<1>6. /\ q.Socks = r.Socks /\ q.Stdio = r.Stdio /\ q.Reverse = r.Reverse /\ q.err = r.err
      /\ q.RemotePort = r.RemotePort /\ q.UDSMode = r.UDSMode /\ q.UDSSocketPath = r.UDSSocketPath
  BY <1>1, <1>2, <1>4, <1>5 DEF Agree, Fields, PlainShape
<1>7. q.RemoteProto = r.RemoteProto /\ q.LocalProto = r.LocalProto
  BY <1>1, <1>5, Distinct DEF PlainShape, Otherwise
<1>8. q.RemoteHost = r.RemoteHost
  BY <1>1, <1>2, <1>5 DEF PlainShape, Otherwise
<1>9. ~r.Stdio => q.LocalHost = r.LocalHost /\ q.LocalPort = r.LocalPort
  <2>1. r.LocalPort # Unset
    BY <1>1, TextsAssumption DEF PlainShape
  <2> QED BY <1>1, <1>2, <1>5, <2>1 DEF PlainShape, Otherwise
<1>10. Again(r, q)
  BY <1>5, <1>6, <1>7, <1>8, <1>9 DEF Again, Agree, Fields
<1> QED BY <1>10 DEF q, d

\* The descriptor of a remote without a mode gives it back: its parts are read one
\* by one.
LEMMA PlainAgain ==
  ASSUME NEW r, Shape(r), ~IsUDS(r), r.RemoteProto \in {"tcp", "udp"}, r.LocalHost # "stdio",
         r.Socks \/ r.RemotePort # Unset
  PROVE  Again(r, DecodeRemote(Encode(r)))
<1> DEFINE proto == IF r.RemoteProto = "udp" THEN "udp" ELSE Unset
           raw == Encode(r).parts
           parts == Heads(raw)
           s == Start(r.Reverse)
           p == TakeParts(s, parts)
           local == Part(r.LocalHost, Unset)
           port == Part(r.LocalPort, Unset)
           stdio == Part("stdio", Unset)
           socks == Part("socks", Unset)
           host == Part(r.RemoteHost, Unset)
           last == Part(r.RemotePort, proto)
<1>1. PlainShape(r) /\ IsRemote(r) /\ r.Reverse \in BOOLEAN
  BY DEF Shape, IsRemote
<1>2. /\ local.text = r.LocalHost /\ local.proto = Unset
      /\ port.text = r.LocalPort /\ port.proto = Unset
      /\ host.text = r.RemoteHost /\ host.proto = Unset
      /\ last.text = r.RemotePort /\ last.proto = proto
  BY DEF Part
<1>3. /\ ~r.Stdio /\ ~r.Socks => raw = <<local, port, host, last>>
      /\ ~r.Stdio /\ r.Socks => raw = <<local, port, socks>>
      /\ r.Stdio /\ ~r.Socks => raw = <<stdio, host, last>>
      /\ r.Stdio /\ r.Socks => raw = <<stdio, socks>>
  BY EncodeParts
<1>4. /\ r.LocalPort \in Ports /\ r.LocalPort # Unset
      /\ r.LocalHost \notin Ports /\ isHost(r.LocalHost)
      /\ ~r.Socks => /\ r.RemotePort \in Ports /\ r.RemoteHost # Unset
                     /\ r.RemoteHost \notin Ports /\ isHost(r.RemoteHost)
  <2>1. Unset \notin Ports
    BY TextsAssumption
  <2> QED BY <1>1, <2>1 DEF PlainShape, Host, isPort
<1>5. r.Socks => /\ r.RemoteHost = Unset /\ r.RemotePort = Unset /\ r.RemoteProto = "tcp"
  BY <1>1 DEF PlainShape
<1>6. (r.RemoteProto = "udp" => proto = "udp") /\ (r.RemoteProto # "udp" => proto = Unset)
  OBVIOUS
<1>11. /\ L4Proto(local) = local /\ L4Proto(port) = port /\ L4Proto(host) = host
       /\ L4Proto(stdio) = stdio /\ L4Proto(socks) = socks
       /\ ~r.Socks => L4Proto(last) = last
  BY <1>4, HeadKept
<1>12. Len(raw) \in 1 .. 4
  <2> HIDE DEF raw, local, port, host, last, stdio, socks
  <2> QED BY <1>1, <1>3 DEF IsRemote
<1>13. Len(parts) = Len(raw) /\ \A i \in 1 .. Len(raw) : parts[i] = L4Proto(raw[i])
  BY <1>12, HeadsOf
<1> HIDE DEF proto, local, port, host, last, p, parts, raw
<1>7. CASE ~r.Stdio /\ ~r.Socks
  <2> DEFINE p4 == TakePart(s, last, {"socks"})
             p3 == TakePart(p4, host, {})
             p2 == TakePart(p3, port, {})
             p1 == TakePart(p2, local, {"stdio"})
  <2>1. Len(parts) = 4 /\ p = p1
    <3>1. /\ Len(parts) = 4 /\ parts[1] = local /\ parts[2] = port /\ parts[3] = host
          /\ parts[4] = last
      BY <1>3, <1>7, <1>11, <1>13
    <3> QED BY <3>1, PartsInTurn DEF p
  <2>2. Read(p4, Unset, r.RemotePort, Unset, r.RemotePort) /\ p4.RemoteProto = proto
        /\ p4.LocalProto = Unset
    BY <1>1, <1>2, <1>4, <1>7, ReadLast
  <2> HIDE DEF p4
  <2>3. Read(p3, Unset, r.RemotePort, r.RemoteHost, r.RemotePort) /\ p3.RemoteProto = proto
        /\ p3.LocalProto = Unset
    BY <1>2, <1>4, <1>7, <2>2, ReadHost
  <2> HIDE DEF p3
  <2>4. Read(p2, Unset, r.LocalPort, r.RemoteHost, r.RemotePort) /\ p2.RemoteProto = proto
        /\ p2.LocalProto = Unset
    BY <1>2, <1>4, <1>7, <2>3, ReadPort
  <2> HIDE DEF p2
  <2>5. Read(p1, r.LocalHost, r.LocalPort, r.RemoteHost, r.RemotePort) /\ p1.RemoteProto = proto
        /\ p1.LocalProto = Unset
    BY <1>2, <1>4, <1>7, <2>4, ReadHost
  <2> HIDE DEF p1
  <2> QED BY <1>6, <1>7, <2>1, <2>5, <1>12, PartsAgain DEF Read, p, parts, raw
<1>8. CASE ~r.Stdio /\ r.Socks
  <2> DEFINE p3 == TakePart(s, socks, {"socks"})
             p2 == TakePart(p3, port, {})
             p1 == TakePart(p2, local, {"stdio"})
  <2>1. Len(parts) = 3 /\ p = p1
    <3>1. Len(parts) = 3 /\ parts[1] = local /\ parts[2] = port /\ parts[3] = socks
      BY <1>3, <1>8, <1>11, <1>13
    <3> QED BY <3>1, PartsInTurn DEF p
  <2>2. Read(p3, Unset, Unset, Unset, Unset) /\ p3.RemoteProto = Unset /\ p3.LocalProto = Unset
    BY <1>1, ReadLast
  <2> HIDE DEF p3
  <2>3. Read(p2, Unset, r.LocalPort, Unset, Unset) /\ p2.RemoteProto = Unset /\ p2.LocalProto = Unset
    BY <1>2, <1>4, <2>2, ReadPort
  <2> HIDE DEF p2
  <2>4. Read(p1, r.LocalHost, r.LocalPort, Unset, Unset) /\ p1.RemoteProto = Unset
        /\ p1.LocalProto = Unset
    BY <1>2, <1>4, <2>3, ReadHost
  <2> HIDE DEF p1
  <2> QED BY <1>5, <1>8, <2>1, <2>4, <1>12, PartsAgain DEF Read, p, parts, raw
<1>9. CASE r.Stdio /\ ~r.Socks
  <2> DEFINE p3 == TakePart(s, last, {"socks"})
             p2 == TakePart(p3, host, {})
             p1 == TakePart(p2, stdio, {"stdio"})
  <2>1. Len(parts) = 3 /\ p = p1
    <3>1. Len(parts) = 3 /\ parts[1] = stdio /\ parts[2] = host /\ parts[3] = last
      BY <1>3, <1>9, <1>11, <1>13
    <3> QED BY <3>1, PartsInTurn DEF p
  <2>2. Read(p3, Unset, r.RemotePort, Unset, r.RemotePort) /\ p3.RemoteProto = proto
        /\ p3.LocalProto = Unset
    BY <1>1, <1>2, <1>4, <1>9, ReadLast
  <2> HIDE DEF p3
  <2>3. Read(p2, Unset, r.RemotePort, r.RemoteHost, r.RemotePort) /\ p2.RemoteProto = proto
        /\ p2.LocalProto = Unset
    BY <1>2, <1>4, <1>9, <2>2, ReadHost
  <2> HIDE DEF p2
  <2>4. IsRemote(p1) /\ p1.Stdio /\ Agree(p1, p2, Fields \ {"Stdio"})
    BY <2>3, NamedPart DEF Read
  <2> HIDE DEF p1
  <2>5. /\ p1.err = "none" /\ ~p1.Socks /\ p1.LocalProto = Unset /\ p1.RemoteProto = proto
        /\ p1.RemoteHost = r.RemoteHost /\ p1.RemotePort = r.RemotePort
        /\ p1.UDSMode = Unset /\ p1.UDSSocketPath = Unset
    BY <1>9, <2>3, <2>4 DEF Read, Agree, Fields
  <2> QED BY <1>6, <1>9, <2>1, <2>4, <2>5, <1>12, PartsAgain DEF p, parts, raw
<1>10. CASE r.Stdio /\ r.Socks
  <2> DEFINE p2 == TakePart(s, socks, {"socks"})
             p1 == TakePart(p2, stdio, {"stdio"})
  <2>1. Len(parts) = 2 /\ p = p1
    <3>1. Len(parts) = 2 /\ parts[1] = stdio /\ parts[2] = socks
      BY <1>3, <1>10, <1>11, <1>13
    <3> QED BY <3>1, PartsInTurn DEF p
  <2>2. Read(p2, Unset, Unset, Unset, Unset) /\ p2.RemoteProto = Unset /\ p2.LocalProto = Unset
    BY <1>1, ReadLast
  <2> HIDE DEF p2
  <2>3. IsRemote(p1) /\ p1.Stdio /\ Agree(p1, p2, Fields \ {"Stdio"})
    BY <2>2, NamedPart DEF Read
  <2> HIDE DEF p1
  <2>4. /\ p1.err = "none" /\ p1.Socks /\ p1.LocalProto = Unset /\ p1.RemoteProto = Unset
        /\ p1.RemoteHost = Unset /\ p1.RemotePort = Unset
        /\ p1.UDSMode = Unset /\ p1.UDSSocketPath = Unset
    BY <2>2, <2>3 DEF Read, Agree, Fields
  <2> QED BY <1>5, <1>10, <2>1, <2>3, <2>4, <1>12, PartsAgain DEF p, parts, raw
<1> QED BY <1>7, <1>8, <1>9, <1>10

\* Encode and then DecodeRemote give the same remote.
LEMMA RoundTrip ==
  ASSUME NEW r, Shape(r), r.RemoteProto \in {"tcp", "udp"}, r.LocalHost # "stdio",
         r.Socks \/ r.RemotePort # Unset
  PROVE  LET q == DecodeRemote(Encode(r))
         IN  q = IF r.Stdio THEN [r EXCEPT !.LocalHost = q.LocalHost, !.LocalPort = q.LocalPort]
                 ELSE r
<1> DEFINE q == DecodeRemote(Encode(r))
<1>1. IsRemote(r)
  BY DEF Shape
<1>2. CASE IsUDS(r)
  <2>1. q = r /\ ~r.Stdio
    BY <1>2, UDSAgain DEF Shape, UDSShape
  <2> QED BY <2>1
<1>3. CASE ~IsUDS(r)
  <2>1. Again(r, q)
    BY <1>3, PlainAgain
  <2> HIDE DEF q
  <2>2. CASE r.Stdio
    <3> DEFINE w == [r EXCEPT !.LocalHost = q.LocalHost, !.LocalPort = q.LocalPort]
    <3>1. IsRemote(w) /\ Agree(w, r, Fields \ {"LocalHost", "LocalPort"})
          /\ w.LocalHost = q.LocalHost /\ w.LocalPort = q.LocalPort
      BY <1>1 DEF IsRemote, Fields, Agree
    <3> HIDE DEF w
    <3>2. Agree(q, w, Fields)
      BY <2>1, <3>1 DEF Again, Agree, Fields
    <3>3. q = w
      BY <2>1, <3>1, <3>2, SameRemote DEF Again
    <3> QED BY <2>2, <3>3 DEF q, w
  <2>3. CASE ~r.Stdio
    <3>1. Agree(q, r, Fields)
      BY <2>1, <2>3 DEF Again, Agree, Fields
    <3>2. q = r
      BY <1>1, <2>1, <3>1, SameRemote DEF Again
    <3> QED BY <2>3, <3>2 DEF q
  <2> QED BY <2>2, <2>3
<1> QED BY <1>2, <1>3

\* Every remote of the client has the shape of a decoded one.
LEMMA ComputedShape ==
  ASSUME RemotesInv, NEW i \in Decoded
  PROVE  Shape(computed[i]) /\ args[i] \in Descriptor
<1>1. args[i] \in Descriptor /\ computed[i] = DecodeRemote(args[i]) /\ computed[i].err = "none"
  BY DEF RemotesInv, ArgumentsDecoded, Decoded
<1> QED BY <1>1, DecodedShape

\* The descriptor that Encode writes means the same remote, and no two different
\* endpoints of a session have the same name in the monitor (remote.go:226-296,
\* monitor_state.go:208).
THEOREM TextsOfRemotes == RemotesSpec => []TextsKeepMeaning
<1>1. RemotesInv => TextsKeepMeaning
  <2> SUFFICES ASSUME RemotesInv PROVE TextsKeepMeaning
    OBVIOUS
  <2>1. \A i \in Decoded :
          LET r == computed[i]
              q == DecodeRemote(Encode(r))
          IN /\ r.RemoteProto \in {"tcp", "udp"} /\ r.LocalHost # "stdio"
             /\ r.Socks \/ r.RemotePort # Unset
             =>
               q = IF r.Stdio THEN [r EXCEPT !.LocalHost = q.LocalHost, !.LocalPort = q.LocalPort]
                   ELSE r
    <3> TAKE i \in Decoded
    <3>1. Shape(computed[i])
      BY ComputedShape
    <3> QED BY <3>1, RoundTrip
  <2>2. ASSUME result = "connected", NEW i \in Decoded, NEW j \in Decoded,
               computed[i].Reverse, computed[j].Reverse,
               String(computed[i]) = String(computed[j])
        PROVE  computed[i] = computed[j]
    <3>1. Shape(computed[i]) /\ Shape(computed[j])
      BY ComputedShape
    <3>2. Listenable(computed[i]) /\ Listenable(computed[j])
      BY <2>2 DEF RemotesInv, SessionAccepted, Acceptable
    <3> QED BY <2>2, <3>1, <3>2, NamesTellApart
  <2> QED BY <2>1, <2>2 DEF TextsKeepMeaning
<1> QED BY <1>1, RemotesInvariance, PTL

-----------------------------------------------------------------------------
(* Remotes: the forms of the command line.                                 *)

\* Concatenation with nothing.
LEMMA Empties ==
  ASSUME NEW a, NEW b
  PROVE  /\ <<>> \o <<>> = <<>>
         /\ <<>> \o <<a>> = <<a>>
         /\ <<a>> \o <<>> = <<a>>
         /\ <<a, b>> \o <<>> = <<a, b>>
<1> DEFINE S == {a, b}
<1>1. <<>> \in Seq(S) /\ <<a>> \in Seq(S) /\ <<a, b>> \in Seq(S)
  OBVIOUS
<1> HIDE DEF S
<1> QED BY <1>1, ConcatEmptySeq

\* The texts of a documented form, for each choice of the fields left out.
LEMMA TextsInOrder ==
  ASSUME NEW f
  PROVE
    /\ f.lh = Unset /\ f.lp = Unset /\ f.rh = Unset => FormTexts(f) = <<f.rp>>
    /\ f.lh = Unset /\ f.lp = Unset /\ f.rh # Unset => FormTexts(f) = <<f.rh, f.rp>>
    /\ f.lh = Unset /\ f.lp # Unset /\ f.rh = Unset => FormTexts(f) = <<f.lp, f.rp>>
    /\ f.lh = Unset /\ f.lp # Unset /\ f.rh # Unset => FormTexts(f) = <<f.lp, f.rh, f.rp>>
    /\ f.lh # Unset /\ f.lp = Unset /\ f.rh = Unset => FormTexts(f) = <<f.lh, f.rp>>
    /\ f.lh # Unset /\ f.lp = Unset /\ f.rh # Unset => FormTexts(f) = <<f.lh, f.rh, f.rp>>
    /\ f.lh # Unset /\ f.lp # Unset /\ f.rh = Unset => FormTexts(f) = <<f.lh, f.lp, f.rp>>
    /\ f.lh # Unset /\ f.lp # Unset /\ f.rh # Unset => FormTexts(f) = <<f.lh, f.lp, f.rh, f.rp>>
<1>1. CASE f.lh = Unset /\ f.lp = Unset /\ f.rh = Unset
  <2>1. Given(f.lh) = <<>> /\ Given(f.lp) = <<>> /\ Given(f.rh) = <<>>
    BY <1>1 DEF Given
  <2>2. <<>> \o <<>> = <<>>
    BY Tuples, Empties, Zenon
  <2>3. <<>> \o <<>> = <<>>
    BY Tuples, Empties, Zenon
  <2>4. <<>> \o <<f.rp>> = <<f.rp>>
    BY Tuples, Empties, Zenon
  <2>5. FormTexts(f) = <<f.rp>>
    BY <2>1, <2>2, <2>3, <2>4, Zenon DEF FormTexts
  <2> QED BY <1>1, <2>5, Zenon
<1>2. CASE f.lh = Unset /\ f.lp = Unset /\ f.rh # Unset
  <2>1. Given(f.lh) = <<>> /\ Given(f.lp) = <<>> /\ Given(f.rh) = <<f.rh>>
    BY <1>2 DEF Given
  <2>2. <<>> \o <<>> = <<>>
    BY Tuples, Empties, Zenon
  <2>3. <<>> \o <<f.rh>> = <<f.rh>>
    BY Tuples, Empties, Zenon
  <2>4. <<f.rh>> \o <<f.rp>> = <<f.rh, f.rp>>
    BY Tuples, Empties, Zenon
  <2>5. FormTexts(f) = <<f.rh, f.rp>>
    BY <2>1, <2>2, <2>3, <2>4, Zenon DEF FormTexts
  <2> QED BY <1>2, <2>5, Zenon
<1>3. CASE f.lh = Unset /\ f.lp # Unset /\ f.rh = Unset
  <2>1. Given(f.lh) = <<>> /\ Given(f.lp) = <<f.lp>> /\ Given(f.rh) = <<>>
    BY <1>3 DEF Given
  <2>2. <<>> \o <<f.lp>> = <<f.lp>>
    BY Tuples, Empties, Zenon
  <2>3. <<f.lp>> \o <<>> = <<f.lp>>
    BY Tuples, Empties, Zenon
  <2>4. <<f.lp>> \o <<f.rp>> = <<f.lp, f.rp>>
    BY Tuples, Empties, Zenon
  <2>5. FormTexts(f) = <<f.lp, f.rp>>
    BY <2>1, <2>2, <2>3, <2>4, Zenon DEF FormTexts
  <2> QED BY <1>3, <2>5, Zenon
<1>4. CASE f.lh = Unset /\ f.lp # Unset /\ f.rh # Unset
  <2>1. Given(f.lh) = <<>> /\ Given(f.lp) = <<f.lp>> /\ Given(f.rh) = <<f.rh>>
    BY <1>4 DEF Given
  <2>2. <<>> \o <<f.lp>> = <<f.lp>>
    BY Tuples, Empties, Zenon
  <2>3. <<f.lp>> \o <<f.rh>> = <<f.lp, f.rh>>
    BY Tuples, Empties, Zenon
  <2>4. <<f.lp, f.rh>> \o <<f.rp>> = <<f.lp, f.rh, f.rp>>
    BY Tuples, Empties, Zenon
  <2>5. FormTexts(f) = <<f.lp, f.rh, f.rp>>
    BY <2>1, <2>2, <2>3, <2>4, Zenon DEF FormTexts
  <2> QED BY <1>4, <2>5, Zenon
<1>5. CASE f.lh # Unset /\ f.lp = Unset /\ f.rh = Unset
  <2>1. Given(f.lh) = <<f.lh>> /\ Given(f.lp) = <<>> /\ Given(f.rh) = <<>>
    BY <1>5 DEF Given
  <2>2. <<f.lh>> \o <<>> = <<f.lh>>
    BY Tuples, Empties, Zenon
  <2>3. <<f.lh>> \o <<>> = <<f.lh>>
    BY Tuples, Empties, Zenon
  <2>4. <<f.lh>> \o <<f.rp>> = <<f.lh, f.rp>>
    BY Tuples, Empties, Zenon
  <2>5. FormTexts(f) = <<f.lh, f.rp>>
    BY <2>1, <2>2, <2>3, <2>4, Zenon DEF FormTexts
  <2> QED BY <1>5, <2>5, Zenon
<1>6. CASE f.lh # Unset /\ f.lp = Unset /\ f.rh # Unset
  <2>1. Given(f.lh) = <<f.lh>> /\ Given(f.lp) = <<>> /\ Given(f.rh) = <<f.rh>>
    BY <1>6 DEF Given
  <2>2. <<f.lh>> \o <<>> = <<f.lh>>
    BY Tuples, Empties, Zenon
  <2>3. <<f.lh>> \o <<f.rh>> = <<f.lh, f.rh>>
    BY Tuples, Empties, Zenon
  <2>4. <<f.lh, f.rh>> \o <<f.rp>> = <<f.lh, f.rh, f.rp>>
    BY Tuples, Empties, Zenon
  <2>5. FormTexts(f) = <<f.lh, f.rh, f.rp>>
    BY <2>1, <2>2, <2>3, <2>4, Zenon DEF FormTexts
  <2> QED BY <1>6, <2>5, Zenon
<1>7. CASE f.lh # Unset /\ f.lp # Unset /\ f.rh = Unset
  <2>1. Given(f.lh) = <<f.lh>> /\ Given(f.lp) = <<f.lp>> /\ Given(f.rh) = <<>>
    BY <1>7 DEF Given
  <2>2. <<f.lh>> \o <<f.lp>> = <<f.lh, f.lp>>
    BY Tuples, Empties, Zenon
  <2>3. <<f.lh, f.lp>> \o <<>> = <<f.lh, f.lp>>
    BY Tuples, Empties, Zenon
  <2>4. <<f.lh, f.lp>> \o <<f.rp>> = <<f.lh, f.lp, f.rp>>
    BY Tuples, Empties, Zenon
  <2>5. FormTexts(f) = <<f.lh, f.lp, f.rp>>
    BY <2>1, <2>2, <2>3, <2>4, Zenon DEF FormTexts
  <2> QED BY <1>7, <2>5, Zenon
<1>8. CASE f.lh # Unset /\ f.lp # Unset /\ f.rh # Unset
  <2>1. Given(f.lh) = <<f.lh>> /\ Given(f.lp) = <<f.lp>> /\ Given(f.rh) = <<f.rh>>
    BY <1>8 DEF Given
  <2>2. <<f.lh>> \o <<f.lp>> = <<f.lh, f.lp>>
    BY Tuples, Empties, Zenon
  <2>3. <<f.lh, f.lp>> \o <<f.rh>> = <<f.lh, f.lp, f.rh>>
    BY Tuples, Empties, Zenon
  <2>4. <<f.lh, f.lp, f.rh>> \o <<f.rp>> = <<f.lh, f.lp, f.rh, f.rp>>
    BY Fourth, Zenon
  <2>5. FormTexts(f) = <<f.lh, f.lp, f.rh, f.rp>>
    BY <2>1, <2>2, <2>3, <2>4, Zenon DEF FormTexts
  <2> QED BY <1>8, <2>5, Zenon
<1> QED BY <1>1, <1>2, <1>3, <1>4, <1>5, <1>6, <1>7, <1>8, Zenon

\* A last part socks is read without an error only if it has no protocol.
LEMMA SocksLast ==
  ASSUME NEW rev \in BOOLEAN, NEW part, part = Part(part.text, part.proto), part.text = "socks",
         NEW names, TakePart(Start(rev), part, names).err = "none"
  PROVE  part = Part("socks", Unset)
<1> DEFINE s == Start(rev)
<1>1. Partial(s) /\ Agree(s, Blank, Fields \ {"Reverse"})
  BY StartPartial
<1> HIDE DEF s
<1>2. /\ IsRemote(s) /\ s.err = "none" /\ ~s.Socks /\ s.LocalPort = Unset /\ s.RemotePort = Unset
  BY <1>1 DEF Agree, Fields, Blank, Partial
<1>3. part.text \notin Ports
  BY TextsAssumption
<1>4. part # Part("stdio", Unset)
  BY DEF Part
<1>5. ASSUME part # Part("socks", Unset) PROVE FALSE
  BY <1>2, <1>3, <1>4, <1>5, HostPart DEF s
<1> QED BY <1>5

\* The fields of a documented form, read.
FormRead(p, f, last) ==
  /\ f.rp = "socks" => Read(p, f.lh, f.lp, Unset, Unset)
  /\ f.rp # "socks" => Read(p, f.lh, Otherwise(f.lp, f.rp), f.rh, f.rp) /\ p.RemoteProto = last.proto

\* A documented form that is read without an error gives the fields it names.  One
\* case for each choice of the fields left out; each reads the parts from the last.
LEMMA FormsRead ==
  ASSUME NEW rev \in BOOLEAN, NEW S, NEW parts \in Seq(S), NEW f \in Forms(parts),
         \A i \in 1 .. Len(parts) : parts[i] = Part(parts[i].text, parts[i].proto),
         TextsOf(parts) = FormTexts(f), TakeParts(Start(rev), parts).err = "none"
  PROVE  FormRead(TakeParts(Start(rev), parts), f, parts[Len(parts)])
<1> DEFINE s == Start(rev)
           p == TakeParts(s, parts)
           t == TextsOf(parts)
           n == Len(parts)
           last == parts[n]
           names == IF n = 1 THEN {"socks", "stdio"} ELSE {"socks"}
           p1 == TakePart(s, last, names)
<1>1. /\ t = FormTexts(f)
      /\ f.rp \in Ports \cup {"socks"} /\ f.lp \in Ports \cup {Unset}
      /\ f.rh \notin Ports \cup {"socks"} /\ f.lh \notin Ports \cup {"stdio"}
      /\ f.rp = "socks" => f.rh = Unset
      /\ f.rp # "socks" /\ f.lh # Unset => f.rh # Unset
      /\ f.lp = Unset /\ f.rh = "stdio" => f.lh # Unset
  BY DEF Forms
<1>2. n \in Nat /\ Len(t) = n /\ \A i \in 1 .. n : t[i] = parts[i].text
  BY DEF TextsOf
<1>3. "socks" \notin Ports /\ Unset \notin Ports /\ Unset # "socks"
  BY TextsAssumption, Distinct
<1>4. \A r, part, nm : TakePart(r, part, nm).err = "none" => r.err = "none"
  BY ErrorsStay
<1> HIDE DEF t
<1>5. ASSUME last.text = f.rp, n \in 1 .. 4, p1.err = "none"
      PROVE  /\ f.rp = "socks" => Read(p1, Unset, Unset, Unset, Unset)
             /\ f.rp # "socks" =>
                  Read(p1, Unset, f.rp, Unset, f.rp) /\ p1.RemoteProto = last.proto
  <2>1. last = Part(last.text, last.proto)
    <3>1. n \in 1 .. 4
      BY <1>5
    <3> HIDE DEF n
    <3>2. n \in 1 .. n
      BY <3>1
    <3> QED BY <3>2, Zenon DEF n
  <2>2. "socks" \in names
    OBVIOUS
  <2> HIDE DEF last, names, n
  <2>3. CASE f.rp = "socks"
    BY <1>5, <2>1, <2>2, <2>3, ReadLast, SocksLast
  <2>4. CASE f.rp # "socks"
    BY <1>1, <1>5, <2>2, <2>4, ReadLast
  <2> QED BY <2>3, <2>4
<1>6. CASE f.lh = Unset /\ f.lp = Unset /\ f.rh = Unset
  <2>1. n = 1 /\ parts[1].text = f.rp
    <3>1. t = <<f.rp>>
      BY <1>1, <1>6, TextsInOrder, Zenon
    <3>2. Len(t) = 1 /\ t[1] = f.rp
      BY <3>1
    <3> QED BY <1>2, <3>2
  <2>2. p = p1
    BY <2>1, PartsInTurn
  <2>3. p1.err = "none"
    BY <1>4, <2>2
  <2>4. /\ f.rp = "socks" => Read(p1, Unset, Unset, Unset, Unset)
        /\ f.rp # "socks" => Read(p1, Unset, f.rp, Unset, f.rp) /\ p1.RemoteProto = last.proto
    BY <1>5, <2>1, <2>3
  <2> HIDE DEF p, p1, last, n
  <2> QED BY <1>1, <1>6, <2>2, <2>4 DEF FormRead, Otherwise, p, last, n
<1>7. CASE f.lh = Unset /\ f.lp = Unset /\ f.rh # Unset
  <2>1. n = 2 /\ parts[1].text = f.rh /\ parts[2].text = f.rp
    <3>1. t = <<f.rh, f.rp>>
      BY <1>1, <1>7, TextsInOrder, Zenon
    <3>2. Len(t) = 2 /\ t[1] = f.rh /\ t[2] = f.rp
      BY <3>1
    <3> QED BY <1>2, <3>2
  <2> DEFINE p2 == TakePart(p1, parts[1], {"stdio"})
  <2>2. p = p2
    BY <2>1, PartsInTurn
  <2>3. p1.err = "none" /\ p2.err = "none"
    BY <1>4, <2>2
  <2>4. /\ f.rp = "socks" => Read(p1, Unset, Unset, Unset, Unset)
        /\ f.rp # "socks" => Read(p1, Unset, f.rp, Unset, f.rp) /\ p1.RemoteProto = last.proto
    BY <1>5, <2>1, <2>3
  <2> HIDE DEF p, p1, last, n
  <2>5. /\ f.rp # "socks" => Read(p2, Unset, f.rp, f.rh, f.rp)
                             /\ p2.RemoteProto = last.proto
    BY <1>1, <1>3, <1>7, <2>1, <2>3, <2>4, ReadHost DEF Read
  <2> HIDE DEF p2
  <2> QED BY <1>1, <1>7, <2>2, <2>5 DEF FormRead, Otherwise, p, last, n
<1>8. CASE f.lh = Unset /\ f.lp # Unset /\ f.rh = Unset
  <2>1. n = 2 /\ parts[1].text = f.lp /\ parts[2].text = f.rp
    <3>1. t = <<f.lp, f.rp>>
      BY <1>1, <1>8, TextsInOrder, Zenon
    <3>2. Len(t) = 2 /\ t[1] = f.lp /\ t[2] = f.rp
      BY <3>1
    <3> QED BY <1>2, <3>2
  <2> DEFINE p2 == TakePart(p1, parts[1], {"stdio"})
  <2>2. p = p2
    BY <2>1, PartsInTurn
  <2>3. p1.err = "none" /\ p2.err = "none"
    BY <1>4, <2>2
  <2>4. /\ f.rp = "socks" => Read(p1, Unset, Unset, Unset, Unset)
        /\ f.rp # "socks" => Read(p1, Unset, f.rp, Unset, f.rp) /\ p1.RemoteProto = last.proto
    BY <1>5, <2>1, <2>3
  <2> HIDE DEF p, p1, last, n
  <2>5. /\ f.rp = "socks" => Read(p2, Unset, f.lp, Unset, Unset)
        /\ f.rp # "socks" => Read(p2, Unset, f.lp, Unset, f.rp)
                             /\ p2.RemoteProto = last.proto
    <3>1. CASE f.rp = "socks"
      BY <1>1, <1>3, <1>8, <2>1, <2>3, <2>4, <3>1, ReadPort
    <3>2. CASE f.rp # "socks"
      BY <1>1, <1>3, <1>8, <2>1, <2>3, <2>4, <3>2, ReadPort DEF Read
    <3> QED BY <3>1, <3>2
  <2> HIDE DEF p2
  <2> QED BY <1>1, <1>8, <2>2, <2>5 DEF FormRead, Otherwise, p, last, n
<1>9. CASE f.lh = Unset /\ f.lp # Unset /\ f.rh # Unset
  <2>1. n = 3 /\ parts[1].text = f.lp /\ parts[2].text = f.rh /\ parts[3].text = f.rp
    <3>1. t = <<f.lp, f.rh, f.rp>>
      BY <1>1, <1>9, TextsInOrder, Zenon
    <3>2. Len(t) = 3 /\ t[1] = f.lp /\ t[2] = f.rh /\ t[3] = f.rp
      BY <3>1
    <3> QED BY <1>2, <3>2
  <2> DEFINE p2 == TakePart(p1, parts[2], {})
             p3 == TakePart(p2, parts[1], {"stdio"})
  <2>2. p = p3
    BY <2>1, PartsInTurn
  <2>3. p1.err = "none" /\ p2.err = "none" /\ p3.err = "none"
    BY <1>4, <2>2
  <2>4. /\ f.rp = "socks" => Read(p1, Unset, Unset, Unset, Unset)
        /\ f.rp # "socks" => Read(p1, Unset, f.rp, Unset, f.rp) /\ p1.RemoteProto = last.proto
    BY <1>5, <2>1, <2>3
  <2> HIDE DEF p, p1, last, n
  <2>5. /\ f.rp # "socks" => Read(p2, Unset, f.rp, f.rh, f.rp)
                             /\ p2.RemoteProto = last.proto
    BY <1>1, <1>3, <1>9, <2>1, <2>3, <2>4, ReadHost DEF Read
  <2> HIDE DEF p2
  <2>6. /\ f.rp # "socks" => Read(p3, Unset, f.lp, f.rh, f.rp)
                             /\ p3.RemoteProto = last.proto
    BY <1>1, <1>3, <1>9, <2>1, <2>3, <2>5, ReadPort DEF Read
  <2> HIDE DEF p3
  <2> QED BY <1>1, <1>9, <2>2, <2>6 DEF FormRead, Otherwise, p, last, n
<1>10. CASE f.lh # Unset /\ f.lp = Unset /\ f.rh = Unset
  <2>1. n = 2 /\ parts[1].text = f.lh /\ parts[2].text = f.rp
    <3>1. t = <<f.lh, f.rp>>
      BY <1>1, <1>10, TextsInOrder, Zenon
    <3>2. Len(t) = 2 /\ t[1] = f.lh /\ t[2] = f.rp
      BY <3>1
    <3> QED BY <1>2, <3>2
  <2> DEFINE p2 == TakePart(p1, parts[1], {"stdio"})
  <2>2. p = p2
    BY <2>1, PartsInTurn
  <2>3. p1.err = "none" /\ p2.err = "none"
    BY <1>4, <2>2
  <2>4. /\ f.rp = "socks" => Read(p1, Unset, Unset, Unset, Unset)
        /\ f.rp # "socks" => Read(p1, Unset, f.rp, Unset, f.rp) /\ p1.RemoteProto = last.proto
    BY <1>5, <2>1, <2>3
  <2> HIDE DEF p, p1, last, n
  <2>5. /\ f.rp = "socks" => Read(p2, f.lh, Unset, Unset, Unset)
    BY <1>1, <1>3, <1>10, <2>1, <2>3, <2>4, ReadHost DEF Read
  <2> HIDE DEF p2
  <2> QED BY <1>1, <1>10, <2>2, <2>5 DEF FormRead, Otherwise, p, last, n
<1>11. CASE f.lh # Unset /\ f.lp = Unset /\ f.rh # Unset
  <2>1. n = 3 /\ parts[1].text = f.lh /\ parts[2].text = f.rh /\ parts[3].text = f.rp
    <3>1. t = <<f.lh, f.rh, f.rp>>
      BY <1>1, <1>11, TextsInOrder, Zenon
    <3>2. Len(t) = 3 /\ t[1] = f.lh /\ t[2] = f.rh /\ t[3] = f.rp
      BY <3>1
    <3> QED BY <1>2, <3>2
  <2> DEFINE p2 == TakePart(p1, parts[2], {})
             p3 == TakePart(p2, parts[1], {"stdio"})
  <2>2. p = p3
    BY <2>1, PartsInTurn
  <2>3. p1.err = "none" /\ p2.err = "none" /\ p3.err = "none"
    BY <1>4, <2>2
  <2>4. /\ f.rp = "socks" => Read(p1, Unset, Unset, Unset, Unset)
        /\ f.rp # "socks" => Read(p1, Unset, f.rp, Unset, f.rp) /\ p1.RemoteProto = last.proto
    BY <1>5, <2>1, <2>3
  <2> HIDE DEF p, p1, last, n
  <2>5. /\ f.rp # "socks" => Read(p2, Unset, f.rp, f.rh, f.rp)
                             /\ p2.RemoteProto = last.proto
    BY <1>1, <1>3, <1>11, <2>1, <2>3, <2>4, ReadHost DEF Read
  <2> HIDE DEF p2
  <2>6. /\ f.rp # "socks" => Read(p3, f.lh, f.rp, f.rh, f.rp)
                             /\ p3.RemoteProto = last.proto
    BY <1>1, <1>3, <1>11, <2>1, <2>3, <2>5, ReadHost DEF Read
  <2> HIDE DEF p3
  <2> QED BY <1>1, <1>11, <2>2, <2>6 DEF FormRead, Otherwise, p, last, n
<1>12. CASE f.lh # Unset /\ f.lp # Unset /\ f.rh = Unset
  <2>1. n = 3 /\ parts[1].text = f.lh /\ parts[2].text = f.lp /\ parts[3].text = f.rp
    <3>1. t = <<f.lh, f.lp, f.rp>>
      BY <1>1, <1>12, TextsInOrder, Zenon
    <3>2. Len(t) = 3 /\ t[1] = f.lh /\ t[2] = f.lp /\ t[3] = f.rp
      BY <3>1
    <3> QED BY <1>2, <3>2
  <2> DEFINE p2 == TakePart(p1, parts[2], {})
             p3 == TakePart(p2, parts[1], {"stdio"})
  <2>2. p = p3
    BY <2>1, PartsInTurn
  <2>3. p1.err = "none" /\ p2.err = "none" /\ p3.err = "none"
    BY <1>4, <2>2
  <2>4. /\ f.rp = "socks" => Read(p1, Unset, Unset, Unset, Unset)
        /\ f.rp # "socks" => Read(p1, Unset, f.rp, Unset, f.rp) /\ p1.RemoteProto = last.proto
    BY <1>5, <2>1, <2>3
  <2> HIDE DEF p, p1, last, n
  <2>5. /\ f.rp = "socks" => Read(p2, Unset, f.lp, Unset, Unset)
    BY <1>1, <1>3, <1>12, <2>1, <2>3, <2>4, ReadPort DEF Read
  <2> HIDE DEF p2
  <2>6. /\ f.rp = "socks" => Read(p3, f.lh, f.lp, Unset, Unset)
    BY <1>1, <1>3, <1>12, <2>1, <2>3, <2>5, ReadHost DEF Read
  <2> HIDE DEF p3
  <2> QED BY <1>1, <1>12, <2>2, <2>6 DEF FormRead, Otherwise, p, last, n
<1>13. CASE f.lh # Unset /\ f.lp # Unset /\ f.rh # Unset
  <2>1. /\ n = 4 /\ parts[1].text = f.lh /\ parts[2].text = f.lp
        /\ parts[3].text = f.rh /\ parts[4].text = f.rp
    <3>1. t = <<f.lh, f.lp, f.rh, f.rp>>
      BY <1>1, <1>13, TextsInOrder, Zenon
    <3>2. Len(t) = 4 /\ t[1] = f.lh /\ t[2] = f.lp /\ t[3] = f.rh /\ t[4] = f.rp
      BY <3>1
    <3> QED BY <1>2, <3>2
  <2> DEFINE p2 == TakePart(p1, parts[3], {})
             p3 == TakePart(p2, parts[2], {})
             p4 == TakePart(p3, parts[1], {"stdio"})
  <2>2. p = p4
    BY <2>1, PartsInTurn
  <2>3. p1.err = "none" /\ p2.err = "none" /\ p3.err = "none" /\ p4.err = "none"
    BY <1>4, <2>2
  <2>4. /\ f.rp = "socks" => Read(p1, Unset, Unset, Unset, Unset)
        /\ f.rp # "socks" => Read(p1, Unset, f.rp, Unset, f.rp) /\ p1.RemoteProto = last.proto
    BY <1>5, <2>1, <2>3
  <2> HIDE DEF p, p1, last, n
  <2>5. /\ f.rp # "socks" => Read(p2, Unset, f.rp, f.rh, f.rp)
                             /\ p2.RemoteProto = last.proto
    BY <1>1, <1>3, <1>13, <2>1, <2>3, <2>4, ReadHost DEF Read
  <2> HIDE DEF p2
  <2>6. /\ f.rp # "socks" => Read(p3, Unset, f.lp, f.rh, f.rp)
                             /\ p3.RemoteProto = last.proto
    BY <1>1, <1>3, <1>13, <2>1, <2>3, <2>5, ReadPort DEF Read
  <2> HIDE DEF p3
  <2>7. /\ f.rp # "socks" => Read(p4, f.lh, f.lp, f.rh, f.rp)
                             /\ p4.RemoteProto = last.proto
    BY <1>1, <1>3, <1>13, <2>1, <2>3, <2>6, ReadHost DEF Read
  <2> HIDE DEF p4
  <2> QED BY <1>1, <1>13, <2>2, <2>7 DEF FormRead, Otherwise, p, last, n
<1> QED BY <1>6, <1>7, <1>8, <1>9, <1>10, <1>11, <1>12, <1>13

\* So does one whose remote host comes first.
LEMMA HostFirstRead ==
  ASSUME NEW rev \in BOOLEAN, NEW S, NEW parts \in Seq(S), NEW f \in Forms(parts),
         HostFirst(f, parts), TakeParts(Start(rev), parts).err = "none"
  PROVE  FormRead(TakeParts(Start(rev), parts), f, parts[Len(parts)])
<1> DEFINE s == Start(rev)
           p3 == TakePart(s, parts[3], {"socks"})
           p2 == TakePart(p3, parts[2], {})
           p1 == TakePart(p2, parts[1], {"stdio"})
<1>1. /\ f.rp \in Ports /\ f.lp \in Ports /\ f.rh \notin Ports /\ f.rh \notin {Unset, "stdio"}
      /\ f.lh = Unset /\ f.lp # Unset /\ f.rp # "socks" /\ f.rp # Unset
  BY TextsAssumption DEF Forms, HostFirst
<1>2. Len(parts) = 3 /\ parts[1].text = f.rh /\ parts[2].text = f.lp /\ parts[3].text = f.rp
  <2> DEFINE t == TextsOf(parts)
  <2>1. Len(parts) \in Nat /\ Len(t) = Len(parts) /\ \A i \in 1 .. Len(parts) : t[i] = parts[i].text
    BY DEF TextsOf
  <2>2. t = <<f.rh, f.lp, f.rp>>
    BY DEF HostFirst
  <2> HIDE DEF t
  <2>3. Len(parts) = 3
    BY <2>1, <2>2
  <2>4. t[1] = parts[1].text /\ t[2] = parts[2].text /\ t[3] = parts[3].text
    BY <2>1, <2>3
  <2> QED BY <2>2, <2>3, <2>4
<1>3. TakeParts(s, parts) = p1 /\ p1.err = "none"
  BY <1>2, PartsInTurn
<1>4. Read(p3, Unset, f.rp, Unset, f.rp) /\ p3.RemoteProto = parts[3].proto
  BY <1>1, <1>2, ReadLast
<1> HIDE DEF p3
<1>5. Read(p2, Unset, f.lp, Unset, f.rp) /\ p2.RemoteProto = parts[3].proto
  BY <1>1, <1>2, <1>4, ReadPort DEF Read
<1> HIDE DEF p2
<1>6. Read(p1, Unset, f.lp, f.rh, f.rp) /\ p1.RemoteProto = parts[3].proto
  BY <1>1, <1>2, <1>3, <1>5, ReadHost DEF Read
<1> HIDE DEF p1
<1> QED BY <1>1, <1>2, <1>3, <1>6 DEF FormRead, Otherwise

\* A form that is decoded means what it says.
LEMMA Meaning ==
  ASSUME NEW d \in Descriptor, d.mode = Unset, DecodeRemote(d).err = "none",
         NEW f \in Forms(Heads(d.parts))
  PROVE  LET r == DecodeRemote(d)
             parts == Heads(d.parts)
             last == parts[Len(parts)]
         IN  /\ r.Socks = (f.rp = "socks") /\ ~r.Stdio /\ r.Reverse = d.rev
             /\ Local(r) = IF r.Socks THEN <<Otherwise(f.lh, Loopback), Otherwise(f.lp, "1080")>>
                           ELSE <<Otherwise(f.lh, AnyHost), Otherwise(f.lp, f.rp)>>
             /\ ~r.Socks => /\ Remote(r) = <<Otherwise(f.rh, Loopback), f.rp>>
                            /\ last.proto # Unset => r.RemoteProto = last.proto
<1> DEFINE parts == Heads(d.parts)
           p == TakeParts(Start(d.rev), parts)
           r == DecodeRemote(d)
           last == parts[Len(parts)]
<1>1. d.rev \in BOOLEAN /\ d.parts \in Seq([text : STRING, proto : STRING])
  BY DEF Descriptor
<1>2. /\ p.err = "none" /\ r = Defaults(p) /\ ~IsUDS(r) /\ r.Reverse = d.rev /\ IsRemote(r)
      /\ PlainShape(r)
  BY <1>1, PlainDecoded DEF Shape
<1>3. \A i \in 1 .. Len(d.parts) : d.parts[i] = Part(d.parts[i].text, d.parts[i].proto)
  <2> DEFINE Any == [text : STRING, proto : STRING]
  <2>1. d.parts \in Seq(Any) /\ \A x \in Any : x = Part(x.text, x.proto)
    BY <1>1 DEF Part
  <2> HIDE DEF Any
  <2>2. \A i \in 1 .. Len(d.parts) : d.parts[i] \in Any
    BY <2>1
  <2> QED BY <2>1, <2>2, Zenon
<1>14. Len(d.parts) \in Nat
  <2> DEFINE Any == [text : STRING, proto : STRING]
  <2>1. d.parts \in Seq(Any)
    BY <1>1
  <2> HIDE DEF Any
  <2> QED BY <2>1
<1>15. Len(parts) = Len(d.parts) /\ \A i \in 1 .. Len(parts) : parts[i] = L4Proto(d.parts[i])
  BY <1>14, HeadsOf
<1>16. \A i \in 1 .. Len(parts) : parts[i] = Part(parts[i].text, parts[i].proto)
  <2> SUFFICES ASSUME NEW i \in 1 .. Len(parts) PROVE parts[i] = Part(parts[i].text, parts[i].proto)
    BY Zenon
  <2>1. parts[i] = L4Proto(d.parts[i]) /\ d.parts[i] = Part(d.parts[i].text, d.parts[i].proto)
    BY <1>3, <1>15
  <2> HIDE DEF parts
  <2> QED BY <2>1 DEF L4Proto, Part
<1>17. parts \in Seq({parts[i] : i \in 1 .. Len(parts)})
  <2>1. parts = [i \in 1 .. Len(d.parts) |-> L4Proto(d.parts[i])]
    BY DEF Heads
  <2>2. parts = [i \in 1 .. Len(parts) |-> parts[i]] /\ Len(parts) \in Nat
    <3>1. DOMAIN parts = 1 .. Len(parts)
      BY <1>15, <2>1
    <3> HIDE DEF parts
    <3> QED BY <1>14, <1>15, <2>1, <3>1
  <2> HIDE DEF parts
  <2> DEFINE S == {parts[i] : i \in 1 .. Len(parts)}
  <2>3. parts \in [1 .. Len(parts) -> S]
    BY <2>2
  <2> QED BY <2>2, <2>3
<1> HIDE DEF parts
<1>18. TextsOf(parts) = FormTexts(f) \/ HostFirst(f, parts)
  BY DEF Forms, parts
<1>4. FormRead(p, f, last)
  <2> DEFINE S == {parts[i] : i \in 1 .. Len(parts)}
  <2>1. parts \in Seq(S) /\ f \in Forms(parts)
    BY <1>17 DEF parts
  <2> HIDE DEF S
  <2> QED BY <1>1, <1>2, <1>16, <1>18, <2>1, FormsRead, HostFirstRead
<1>5. f.rp \in Ports \cup {"socks"}
  BY DEF Forms
<1>6. f.rp # Unset
  <2>1. Unset \notin Ports
    BY TextsAssumption
  <2> QED BY <1>5, <2>1, Distinct
<1> HIDE DEF p, last, r
<1>7. IsRemote(p) /\ ~p.Stdio /\ (p.Socks <=> f.rp = "socks")
  BY <1>4, <1>6 DEF FormRead, Read
<1>8. /\ Agree(r, p, Fields \ {"LocalHost", "LocalPort", "RemoteHost", "LocalProto", "RemoteProto"})
      /\ r.LocalHost = Otherwise(p.LocalHost, IF p.Socks THEN Loopback ELSE AnyHost)
      /\ r.LocalPort = IF p.Socks THEN Otherwise(p.LocalPort, "1080") ELSE p.LocalPort
      /\ r.RemoteHost = IF p.Socks THEN p.RemoteHost ELSE Otherwise(p.RemoteHost, Loopback)
      /\ r.RemoteProto = Otherwise(p.RemoteProto, "tcp")
  BY <1>2, <1>7, DefaultsFields
<1>9. r.Socks = p.Socks /\ r.Stdio = p.Stdio /\ r.RemotePort = p.RemotePort
  BY <1>8 DEF Agree, Fields
<1>10. r.Socks = (f.rp = "socks") /\ ~r.Stdio
  BY <1>2, <1>7, <1>9 DEF IsRemote
<1>11. /\ Local(r) = <<r.LocalHost, r.LocalPort>>
       /\ ~r.Socks => Remote(r) = <<r.RemoteHost, r.RemotePort>>
  BY <1>2, <1>10 DEF Local, Remote, Otherwise, PlainShape
<1>12. CASE r.Socks
  <2>1. p.LocalHost = f.lh /\ p.LocalPort = f.lp
    BY <1>4, <1>10, <1>12 DEF FormRead, Read
  <2>2. r.LocalHost = Otherwise(f.lh, Loopback) /\ r.LocalPort = Otherwise(f.lp, "1080")
    BY <1>8, <1>9, <1>12, <2>1
  <2> QED BY <1>2, <1>10, <1>11, <1>12, <2>2 DEF r
<1>13. CASE ~r.Socks
  <2>1. /\ p.LocalHost = f.lh /\ p.LocalPort = Otherwise(f.lp, f.rp) /\ p.RemoteHost = f.rh
        /\ p.RemotePort = f.rp /\ p.RemoteProto = last.proto
    BY <1>4, <1>10, <1>13 DEF FormRead, Read
  <2>2. /\ r.LocalHost = Otherwise(f.lh, AnyHost) /\ r.LocalPort = Otherwise(f.lp, f.rp)
        /\ r.RemoteHost = Otherwise(f.rh, Loopback) /\ r.RemotePort = f.rp
        /\ last.proto # Unset => r.RemoteProto = last.proto
    <3>1. last.proto # Unset => Otherwise(last.proto, "tcp") = last.proto
      BY DEF Otherwise
    <3> QED BY <1>8, <1>9, <1>13, <2>1, <3>1
  <2> QED BY <1>2, <1>10, <1>11, <1>13, <2>2 DEF r, last, parts
<1> QED BY <1>12, <1>13

\* Each descriptor of the command line's forms that is decoded gives the addresses
\* it names, and for those it leaves out the defaults that remote_test.go:8-151
\* expects (remote.go:50-143).
THEOREM FormsMeanWhatTheySay == RemotesSpec => []FormsAsTested
<1>1. RemotesInv => FormsAsTested
  <2> SUFFICES ASSUME RemotesInv, NEW i \in Decoded, args[i].mode = Unset,
                      NEW f \in Forms(Heads(args[i].parts))
               PROVE  LET r == computed[i]
                          parts == Heads(args[i].parts)
                      IN
      /\ r.Socks = (f.rp = "socks") /\ ~r.Stdio /\ r.Reverse = args[i].rev
      /\ Local(r) = IF r.Socks THEN <<Otherwise(f.lh, Loopback), Otherwise(f.lp, "1080")>>
                    ELSE <<Otherwise(f.lh, AnyHost), Otherwise(f.lp, f.rp)>>
      /\ ~r.Socks => /\ Remote(r) = <<Otherwise(f.rh, Loopback), f.rp>>
                     /\ parts[Len(parts)].proto # Unset => r.RemoteProto = parts[Len(parts)].proto
    BY Zenon DEF FormsAsTested
  <2>1. /\ args[i] \in Descriptor /\ computed[i] = DecodeRemote(args[i])
        /\ DecodeRemote(args[i]).err = "none"
    BY DEF RemotesInv, ArgumentsDecoded, Decoded
  <2> DEFINE d == args[i]
  <2> HIDE DEF d
  <2> QED BY <2>1, Meaning, Zenon
<1> QED BY <1>1, RemotesInvariance, PTL
=============================================================================
