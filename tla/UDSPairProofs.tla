---------------------------- MODULE UDSPairProofs ----------------------------
(***************************************************************************)
(* The registry's invariants and its refinement of Rendezvous, for any     *)
(* proxies, paths and sessions.                                            *)
(***************************************************************************)
EXTENDS UDSPair, SequenceTheorems, TLAPS

USE DEF regVars, relayVars, sessVars

\* What a proxy has done so far decides whether it has a match or a peer.
RoleInv ==
  \A p \in Proxies :
    /\ pc[p] = "idle" => matched[p] = None /\ peer[p] = None
    /\ pc[p] \in {"waiting", "removing", "paired"} => peer[p] = None
    /\ pc[p] = "paired" => matched[p] # None
    /\ pc[p] \in Relaying => peer[p] # None

\* Run has a result only when it is done, and an error only when it relayed.
FailInv ==
  /\ \A p \in Proxies : ret[p] # "none" => pc[p] = "done"
  /\ OnlyRelayFails

IInv == TypeOK /\ RoleInv /\ QueueExact /\ PairingExact /\ FailInv

-----------------------------------------------------------------------------
(* Queues of at most one element.                                          *)

LEMMA Singleton ==
  ASSUME NEW S, NEW q \in Seq(S), Len(q) <= 1, q # << >>
  PROVE  /\ Len(q) = 1 /\ Head(q) \in S
         /\ q = <<Head(q)>> /\ Tail(q) = << >>
<1>1. Len(q) = 1
  <2>1. Len(q) \in Nat /\ Len(q) # 0
    BY EmptySeq, LenProperties
  <2> QED BY <2>1
<1>2. Head(q) = q[1] /\ Head(q) \in S
  BY <1>1
<1>3. q = <<Head(q)>>
  BY <1>1, <1>2
<1>4. Tail(q) = << >>
  <2>1. Tail(q) \in Seq(S) /\ Len(Tail(q)) = 0
    BY <1>1, HeadTailProperties
  <2> QED BY <2>1, EmptySeq
<1> QED BY <1>1, <1>2, <1>3, <1>4

LEMMA AppendToEmpty ==
  ASSUME NEW S, NEW p \in S
  PROVE  Append(<< >>, p) = <<p>> /\ <<p>> \in Seq(S) /\ Len(<<p>>) = 1 /\ <<p>> # << >>
         /\ Head(<<p>>) = p
OBVIOUS

LEMMA RemoveOnly ==
  ASSUME NEW S, NEW q \in Seq(S), Len(q) <= 1, NEW i \in 1 .. Len(q)
  PROVE  SubSeq(q, 1, i - 1) \o SubSeq(q, i + 1, Len(q)) = << >>
<1>1. i = 1 /\ Len(q) = 1
  <2> DEFINE n == Len(q)
  <2>1. n \in Nat /\ n <= 1 /\ i \in 1 .. n
    BY LenProperties
  <2> HIDE DEF n
  <2>2. i = 1 /\ n = 1
    BY <2>1
  <2> QED BY <2>2 DEF n
<1>2. SubSeq(q, 1, 0) = << >> /\ SubSeq(q, 2, 1) = << >>
  BY <1>1, SubSeqEmpty
<1> QED BY <1>1, <1>2

-----------------------------------------------------------------------------
(* The two steps that touch the queue of a path, without sequences.        *)

\* A proxy that can still be matched, at its own path.
CanMatch(w, path) ==
  PathOf[w] = path /\ pc[w] \in {"waiting", "removing"} /\ matched[w] = None

\* The proxy Match takes is a waiter of the same path that nobody took.
LEMMA MatchTakesWaiter ==
  ASSUME IInv, NEW p \in Proxies, Match(p)
  PROVE  \E h \in Proxies :
           /\ h # p /\ CanMatch(h, PathOf[p]) /\ waiters[PathOf[p]] = <<h>>
           /\ waiters' = [waiters EXCEPT ![PathOf[p]] = << >>]
           /\ matched' = [matched EXCEPT ![h] = p]
           /\ peer' = [peer EXCEPT ![p] = h]
<1> USE PairAssumption
<1> DEFINE path == PathOf[p]
           h == Head(waiters[path])
<1>1. path \in Paths /\ waiters[path] \in Seq(Proxies) /\ Len(waiters[path]) <= 1
  BY DEF IInv, TypeOK, QueueExact
<1>2. waiters[path] # << >>
  BY DEF Match
<1>3. h \in Proxies /\ waiters[path] = <<h>> /\ Tail(waiters[path]) = << >>
  BY <1>1, <1>2, Singleton
<1>4. CanMatch(h, path)
  BY <1>1, <1>3 DEF IInv, QueueExact, CanMatch
<1>5. h # p
  BY <1>4 DEF Match, CanMatch
<1>6. waiters' = [waiters EXCEPT ![path] = << >>]
  BY <1>3 DEF Match
<1>7. matched' = [matched EXCEPT ![h] = p] /\ peer' = [peer EXCEPT ![p] = h]
  BY DEF Match
<1> QED BY <1>3, <1>4, <1>5, <1>6, <1>7

\* removeWaiter empties the queue when the waiter is still in it.
LEMMA RemoveEmpties ==
  ASSUME IInv, NEW p \in Proxies, RemoveWaiter(p)
  PROVE  \/ waiters[PathOf[p]] = <<p>> /\ waiters' = [waiters EXCEPT ![PathOf[p]] = << >>]
         \/ waiters[PathOf[p]] # <<p>> /\ waiters' = waiters
<1> USE PairAssumption
<1> DEFINE path == PathOf[p]
           queue == waiters[path]
<1>1. path \in Paths /\ queue \in Seq(Proxies) /\ Len(queue) <= 1
  BY DEF IInv, TypeOK, QueueExact
<1>2. ASSUME NEW i \in 1 .. Len(queue), queue[i] = p,
             waiters' = [waiters EXCEPT ![path] =
                           SubSeq(queue, 1, i - 1) \o SubSeq(queue, i + 1, Len(queue))]
      PROVE  queue = <<p>> /\ waiters' = [waiters EXCEPT ![path] = << >>]
  <2>1. queue # << >>
    BY <1>2, EmptySeq
  <2>2. Len(queue) = 1 /\ queue = <<Head(queue)>>
    BY <1>1, <2>1, Singleton
  <2>3. i = 1
    BY <1>2, <2>2
  <2>4. queue = <<p>>
    BY <1>2, <2>2, <2>3
  <2> QED BY <1>1, <1>2, <2>4, RemoveOnly
<1>3. ASSUME \A i \in 1 .. Len(queue) : queue[i] # p, waiters' = waiters
      PROVE  queue # <<p>>
  <2> SUFFICES ASSUME queue = <<p>> PROVE FALSE
    OBVIOUS
  <2>1. Len(queue) = 1 /\ queue[1] = p
    OBVIOUS
  <2> QED BY <1>3, <2>1
<1> QED BY <1>2, <1>3 DEF RemoveWaiter

-----------------------------------------------------------------------------
(* Invariance.                                                             *)

LEMMA InitIInv == Init => IInv
<1> SUFFICES ASSUME Init PROVE IInv
  OBVIOUS
<1> USE PairAssumption DEF Init
<1>1. TypeOK
  BY EmptySeq DEF TypeOK, Relaying
<1>2. RoleInv
  BY DEF RoleInv, Relaying
<1>3. QueueExact
  <2>1. \A p \in Proxies : << >> # <<p>>
    OBVIOUS
  <2> QED BY <2>1 DEF QueueExact
<1>4. PairingExact
  BY DEF PairingExact
<1>5. FailInv
  BY DEF FailInv, OnlyRelayFails
<1> QED BY <1>1, <1>2, <1>3, <1>4, <1>5 DEF IInv

\* Steps that leave the registry alone and keep every proxy's role.
LEMMA QuietStep ==
  ASSUME IInv, UNCHANGED regVars,
         \A p \in Proxies : pc'[p] # pc[p] =>
            \/ pc[p] = "waiting" /\ pc'[p] = "removing"
            \/ pc[p] = "waiting" /\ pc'[p] = "paired" /\ matched[p] # None
            \/ pc[p] = "paired" /\ pc'[p] = "done"
            \/ pc[p] \in Relaying /\ pc'[p] \in Relaying \cup {"done"}
  PROVE  RoleInv' /\ QueueExact' /\ PairingExact'
<1>1. RoleInv'
  BY DEF IInv, RoleInv, Relaying
<1>2. \A p \in Proxies, path \in Paths : CanMatch(p, path)' <=> CanMatch(p, path)
  BY DEF IInv, RoleInv, CanMatch, Relaying
<1>3. QueueExact'
  BY <1>2 DEF IInv, QueueExact, CanMatch
<1>4. PairingExact'
  BY DEF IInv, PairingExact
<1> QED BY <1>1, <1>3, <1>4

LEMMA ErrStep ==
  ASSUME IInv, NEW p \in Proxies, pc[p] \in Relaying, ReturnErr(p)
  PROVE  IInv'
<1> USE PairAssumption
<1>1. TypeOK'
  BY DEF IInv, TypeOK, ReturnErr, Relaying
<1>2. RoleInv' /\ QueueExact' /\ PairingExact'
  <2>1. \A q \in Proxies : pc'[q] # pc[q] => pc[q] \in Relaying /\ pc'[q] = "done"
    BY DEF ReturnErr, IInv, TypeOK
  <2> QED BY <2>1, QuietStep DEF ReturnErr
<1>3. FailInv'
  BY DEF IInv, FailInv, OnlyRelayFails, RoleInv, ReturnErr, TypeOK
<1> QED BY <1>1, <1>2, <1>3 DEF IInv

LEMMA MatchStep == ASSUME IInv, NEW p \in Proxies, Match(p) PROVE IInv'
<1> USE PairAssumption
<1>1. PICK h \in Proxies :
           /\ h # p /\ CanMatch(h, PathOf[p]) /\ waiters[PathOf[p]] = <<h>>
           /\ waiters' = [waiters EXCEPT ![PathOf[p]] = << >>]
           /\ matched' = [matched EXCEPT ![h] = p]
           /\ peer' = [peer EXCEPT ![p] = h]
  BY MatchTakesWaiter
<1>2. pc[p] = "idle" /\ pc' = [pc EXCEPT ![p] = "checkA"]
  BY DEF Match
<1>3. UNCHANGED <<ret, relayVars, sessVars>>
  BY DEF Match
<1>4. TypeOK'
  BY <1>1, <1>2, <1>3, EmptySeq DEF IInv, TypeOK, Relaying
<1>5. RoleInv'
  BY <1>1, <1>2 DEF IInv, TypeOK, RoleInv, Relaying, CanMatch
<1>6. QueueExact'
  <2> SUFFICES ASSUME NEW path \in Paths
               PROVE  /\ Len(waiters'[path]) <= 1
                      /\ \A w \in Proxies : waiters'[path] = <<w>> <=> CanMatch(w, path)'
    BY DEF QueueExact, CanMatch
  <2>1. \A w \in Proxies : waiters[path] = <<w>> <=> CanMatch(w, path)
    BY DEF IInv, QueueExact, CanMatch
  <2>2. CASE path = PathOf[p]
    <3>1. waiters'[path] = << >>
      BY <1>1, <2>2 DEF IInv, TypeOK
    <3>2. \A w \in Proxies : CanMatch(w, path) => w = h
      BY <1>1, <2>1, <2>2
    <3>3. \A w \in Proxies : ~CanMatch(w, path)'
      BY <1>1, <1>2, <3>2 DEF IInv, TypeOK, CanMatch
    <3>4. \A w \in Proxies : << >> # <<w>>
      OBVIOUS
    <3> QED BY <3>1, <3>3, <3>4, EmptySeq
  <2>3. CASE path # PathOf[p]
    <3>1. waiters'[path] = waiters[path]
      BY <1>1, <2>3 DEF IInv, TypeOK
    <3>2. \A w \in Proxies : CanMatch(w, path)' <=> CanMatch(w, path)
      BY <1>1, <1>2, <2>3 DEF IInv, TypeOK, CanMatch
    <3> QED BY <2>1, <3>1, <3>2 DEF IInv, QueueExact
  <2> QED BY <2>2, <2>3
<1>7. PairingExact'
  <2>1. matched[h] = None /\ peer[h] = None /\ PathOf[h] = PathOf[p]
    BY <1>1 DEF IInv, RoleInv, CanMatch
  <2>2. matched[p] = None /\ peer[p] = None
    BY <1>2 DEF IInv, RoleInv
  <2>3. \A q \in Proxies : peer[q] # h /\ matched[q] # p /\ peer[q] # p
    BY <2>1, <2>2 DEF IInv, PairingExact
  <2>4. matched' \in [Proxies -> Proxies \cup {None}] /\ peer' \in [Proxies -> Proxies \cup {None}]
    BY <1>4 DEF TypeOK
  <2> QED BY <1>1, <2>1, <2>2, <2>3, <2>4 DEF IInv, TypeOK, PairingExact
<1>8. FailInv'
  BY <1>1, <1>2, <1>3 DEF IInv, TypeOK, FailInv, OnlyRelayFails
<1> QED BY <1>4, <1>5, <1>6, <1>7, <1>8 DEF IInv

LEMMA EnqueueStep == ASSUME IInv, NEW p \in Proxies, Enqueue(p) PROVE IInv'
<1> USE PairAssumption
<1>1. waiters[PathOf[p]] = << >> /\ waiters' = [waiters EXCEPT ![PathOf[p]] = <<p>>]
  BY AppendToEmpty DEF Enqueue, IInv, TypeOK
<1>2. pc[p] = "idle" /\ pc' = [pc EXCEPT ![p] = "waiting"]
  BY DEF Enqueue
<1>3. UNCHANGED <<matched, peer, ret, relayVars, sessVars>>
  BY DEF Enqueue
<1>4. TypeOK'
  <2>1. <<p>> \in Seq(Proxies)
    BY AppendToEmpty
  <2> QED BY <1>1, <1>2, <1>3, <2>1 DEF IInv, TypeOK, Relaying
<1>5. RoleInv'
  BY <1>2, <1>3 DEF IInv, TypeOK, RoleInv, Relaying
<1>6. QueueExact'
  <2> SUFFICES ASSUME NEW path \in Paths
               PROVE  /\ Len(waiters'[path]) <= 1
                      /\ \A w \in Proxies : waiters'[path] = <<w>> <=> CanMatch(w, path)'
    BY DEF QueueExact, CanMatch
  <2>1. \A w \in Proxies : waiters[path] = <<w>> <=> CanMatch(w, path)
    BY DEF IInv, QueueExact, CanMatch
  <2>2. CASE path = PathOf[p]
    <3>1. waiters'[path] = <<p>>
      BY <1>1, <2>2 DEF IInv, TypeOK
    <3>2. \A w \in Proxies : ~CanMatch(w, path)
      <4>1. \A w \in Proxies : << >> # <<w>>
        OBVIOUS
      <4> QED BY <1>1, <2>1, <2>2, <4>1
    <3>3. \A w \in Proxies : CanMatch(w, path)' <=> w = p
      BY <1>2, <1>3, <2>2, <3>2 DEF IInv, TypeOK, CanMatch, RoleInv
    <3>4. \A w \in Proxies : <<p>> = <<w>> <=> w = p
      OBVIOUS
    <3> QED BY <3>1, <3>3, <3>4, AppendToEmpty
  <2>3. CASE path # PathOf[p]
    <3>1. waiters'[path] = waiters[path]
      BY <1>1, <2>3 DEF IInv, TypeOK
    <3>2. \A w \in Proxies : CanMatch(w, path)' <=> CanMatch(w, path)
      BY <1>2, <1>3, <2>3 DEF IInv, TypeOK, CanMatch
    <3> QED BY <2>1, <3>1, <3>2 DEF IInv, QueueExact
  <2> QED BY <2>2, <2>3
<1>7. PairingExact' /\ FailInv'
  BY <1>2, <1>3 DEF IInv, TypeOK, PairingExact, FailInv, OnlyRelayFails
<1> QED BY <1>4, <1>5, <1>6, <1>7 DEF IInv

LEMMA RemoveStep == ASSUME IInv, NEW p \in Proxies, RemoveWaiter(p) PROVE IInv'
<1> USE PairAssumption
<1>1. \/ waiters[PathOf[p]] = <<p>> /\ waiters' = [waiters EXCEPT ![PathOf[p]] = << >>]
      \/ waiters[PathOf[p]] # <<p>> /\ waiters' = waiters
  BY RemoveEmpties
<1>2. pc[p] = "removing" /\ pc' = [pc EXCEPT ![p] = "done"] /\ ret' = [ret EXCEPT ![p] = "nil"]
  BY DEF RemoveWaiter, ReturnNil
<1>3. UNCHANGED <<matched, peer, relayVars, sessVars>>
  BY DEF RemoveWaiter
<1>4. TypeOK'
  <2>1. waiters' \in [Paths -> Seq(Proxies)]
    <3>1. << >> \in Seq(Proxies) /\ waiters \in [Paths -> Seq(Proxies)]
      BY EmptySeq DEF IInv, TypeOK
    <3> QED BY <1>1, <3>1
  <2> QED BY <1>2, <1>3, <2>1 DEF IInv, TypeOK, Relaying
<1>5. RoleInv'
  BY <1>2, <1>3 DEF IInv, TypeOK, RoleInv, Relaying
<1>6. QueueExact'
  <2> SUFFICES ASSUME NEW path \in Paths
               PROVE  /\ Len(waiters'[path]) <= 1
                      /\ \A w \in Proxies : waiters'[path] = <<w>> <=> CanMatch(w, path)'
    BY DEF QueueExact, CanMatch
  <2>1. Len(waiters[path]) <= 1 /\ \A w \in Proxies : waiters[path] = <<w>> <=> CanMatch(w, path)
    BY DEF IInv, QueueExact, CanMatch
  <2>2. \A w \in Proxies : w # p => (CanMatch(w, path)' <=> CanMatch(w, path))
    BY <1>2, <1>3 DEF IInv, TypeOK, CanMatch
  <2>3. ~CanMatch(p, path)'
    BY <1>2 DEF IInv, TypeOK, CanMatch
  <2>4. CASE waiters[path] = <<p>>
    <3>1. path = PathOf[p]
      BY <2>1, <2>4 DEF CanMatch
    <3>2. waiters'[path] = << >>
      BY <1>1, <2>4, <3>1 DEF IInv, TypeOK
    <3>3. \A w \in Proxies : w # p => ~CanMatch(w, path)
      <4>1. \A w \in Proxies : w # p => <<p>> # <<w>>
        OBVIOUS
      <4> QED BY <2>1, <2>4, <4>1
    <3>4. \A w \in Proxies : << >> # <<w>>
      OBVIOUS
    <3> QED BY <2>2, <2>3, <3>2, <3>3, <3>4, EmptySeq
  <2>5. CASE waiters[path] # <<p>>
    <3>1. waiters'[path] = waiters[path]
      BY <1>1, <2>5 DEF IInv, TypeOK
    <3> QED BY <2>1, <2>2, <2>3, <2>5, <3>1
  <2> QED BY <2>4, <2>5
<1>7. PairingExact'
  BY <1>3 DEF IInv, PairingExact
<1>8. FailInv'
  <2>1. ret[p] # "err"
    BY <1>2 DEF IInv, FailInv, OnlyRelayFails, RoleInv
  <2> QED BY <1>2, <1>3, <2>1 DEF IInv, TypeOK, FailInv, OnlyRelayFails
<1> QED BY <1>4, <1>5, <1>6, <1>7, <1>8 DEF IInv

\* The steps in which only one proxy's control state and the streams move.
LEMMA OtherRunStep ==
  ASSUME IInv, NEW p \in Proxies, NEW e \in End,
         \/ TakeMatch(p) \/ StopWaiting(p) \/ LeavePair(p) \/ RelayReturns(p)
         \/ CheckCtx(p, e) \/ OpenStream(p, e) \/ OpenFails(p, e)
         \/ StreamEnds(p, e) \/ CopyEnds(p, e)
  PROVE  IInv'
<1> USE PairAssumption DEF End
<1>1. CASE TakeMatch(p) \/ StopWaiting(p)
  <2>1. TypeOK'
    BY <1>1 DEF IInv, TypeOK, TakeMatch, StopWaiting, Relaying
  <2>2. RoleInv' /\ QueueExact' /\ PairingExact'
    <3>1. \A q \in Proxies : pc'[q] # pc[q] =>
            \/ pc[q] = "waiting" /\ pc'[q] = "removing"
            \/ pc[q] = "waiting" /\ pc'[q] = "paired" /\ matched[q] # None
      BY <1>1 DEF IInv, TypeOK, TakeMatch, StopWaiting
    <3> QED BY <1>1, <3>1, QuietStep DEF TakeMatch, StopWaiting
  <2>3. FailInv'
    BY <1>1 DEF IInv, TypeOK, FailInv, OnlyRelayFails, TakeMatch, StopWaiting
  <2> QED BY <2>1, <2>2, <2>3 DEF IInv
<1>2. CASE LeavePair(p) \/ RelayReturns(p)
  <2>1. /\ pc[p] \in {"paired", "piping"} /\ ReturnNil(p)
        /\ UNCHANGED <<regVars, streams, copying, sessVars>>
        /\ eof' = eof \/ eof' = [eof EXCEPT ![p] = streams[p]]
    BY <1>2 DEF LeavePair, RelayReturns
  <2>2. TypeOK'
    BY <2>1 DEF IInv, TypeOK, ReturnNil, Relaying
  <2>3. RoleInv' /\ QueueExact' /\ PairingExact'
    <3>1. \A q \in Proxies : pc'[q] # pc[q] =>
            pc[q] \in {"paired", "piping"} /\ pc'[q] = "done"
      BY <2>1 DEF IInv, TypeOK, ReturnNil
    <3> QED BY <2>1, <3>1, QuietStep DEF Relaying
  <2>4. FailInv'
    <3>1. ret[p] # "err"
      BY <2>1 DEF IInv, FailInv
    <3> QED BY <2>1, <3>1 DEF IInv, TypeOK, FailInv, OnlyRelayFails, ReturnNil
  <2> QED BY <2>2, <2>3, <2>4 DEF IInv
<1>3. CASE CheckCtx(p, e) \/ OpenFails(p, e)
  <2>1. CASE pc[p] \in Relaying /\ ReturnErr(p)
    BY <2>1, ErrStep
  <2>2. CASE ~ReturnErr(p)
    <3>1. /\ pc[p] \in {"checkA", "checkB"}
          /\ \E new \in {"openA", "openB"} : pc' = [pc EXCEPT ![p] = new]
          /\ UNCHANGED <<regVars, ret, relayVars, sessVars>>
      BY <1>3, <2>2 DEF CheckCtx, OpenFails
    <3>2. TypeOK'
      BY <3>1 DEF IInv, TypeOK, Relaying
    <3>3. RoleInv' /\ QueueExact' /\ PairingExact'
      <4>1. \A q \in Proxies : pc'[q] # pc[q] => pc[q] \in Relaying /\ pc'[q] \in Relaying
        BY <3>1 DEF IInv, TypeOK, Relaying
      <4> QED BY <3>1, <4>1, QuietStep
    <3>4. FailInv'
      BY <3>1 DEF IInv, FailInv, OnlyRelayFails
    <3> QED BY <3>2, <3>3, <3>4 DEF IInv
  <2>3. pc[p] \in Relaying
    BY <1>3 DEF CheckCtx, OpenFails, Opening, Relaying
  <2> QED BY <2>1, <2>2, <2>3
<1>4. CASE OpenStream(p, e)
  <2>1. /\ pc[p] \in {"openA", "openB"}
        /\ \E new \in {"checkB", "piping"} : pc' = [pc EXCEPT ![p] = new]
        /\ streams' = [streams EXCEPT ![p] = @ \cup {e}]
        /\ copying' = copying \/ copying' = [copying EXCEPT ![p] = End]
        /\ UNCHANGED <<regVars, ret, eof, sessVars>>
    BY <1>4 DEF OpenStream, Opening
  <2>2. TypeOK'
    <3>1. pc' \in [Proxies -> {"idle", "waiting", "removing", "paired", "done"} \cup Relaying]
      BY <2>1 DEF IInv, TypeOK, Relaying
    <3>2. streams' \in [Proxies -> SUBSET End] /\ copying' \in [Proxies -> SUBSET End]
      BY <2>1 DEF IInv, TypeOK
    <3> QED BY <2>1, <3>1, <3>2 DEF IInv, TypeOK
  <2>3. RoleInv' /\ QueueExact' /\ PairingExact'
    <3>1. \A q \in Proxies : pc'[q] # pc[q] => pc[q] \in Relaying /\ pc'[q] \in Relaying
      BY <2>1 DEF IInv, TypeOK, Relaying
    <3> QED BY <2>1, <3>1, QuietStep
  <2>4. FailInv'
    BY <2>1 DEF IInv, FailInv, OnlyRelayFails
  <2> QED BY <2>2, <2>3, <2>4 DEF IInv
<1>5. CASE StreamEnds(p, e) \/ CopyEnds(p, e)
  <2>1. TypeOK'
    <3>1. CASE StreamEnds(p, e)
      BY <3>1 DEF IInv, TypeOK, StreamEnds
    <3>2. CASE CopyEnds(p, e)
      <4>1. Other(e) \in End
        BY DEF Other
      <4> QED BY <3>2, <4>1 DEF IInv, TypeOK, CopyEnds
    <3> QED BY <1>5, <3>1, <3>2
  <2>2. RoleInv' /\ QueueExact' /\ PairingExact'
    BY <1>5, QuietStep DEF StreamEnds, CopyEnds
  <2>3. FailInv'
    BY <1>5 DEF IInv, FailInv, OnlyRelayFails, StreamEnds, CopyEnds
  <2> QED BY <2>1, <2>2, <2>3 DEF IInv
<1> QED BY <1>1, <1>2, <1>3, <1>4, <1>5

\* Steps of the sessions and stuttering leave the proxies alone.
LEMMA SessionStep ==
  ASSUME IInv, \/ \E s \in Sessions : SSHDown(s) \/ SessionDone(s) \/ BindReturns(s)
               \/ UNCHANGED vars
  PROVE  IInv'
<1>1. UNCHANGED <<regVars, pc, ret, relayVars, bindDone>>
  BY DEF SSHDown, SessionDone, BindReturns, vars
<1>2. TypeOK'
  <2>1. bound' \subseteq Sessions /\ sessDone' \subseteq Sessions /\ up' \subseteq Sessions
    BY DEF IInv, TypeOK, SSHDown, SessionDone, BindReturns, vars
  <2> QED BY <1>1, <2>1 DEF IInv, TypeOK
<1>3. RoleInv' /\ QueueExact' /\ PairingExact'
  BY <1>1, QuietStep
<1>4. FailInv'
  BY <1>1 DEF IInv, FailInv, OnlyRelayFails
<1> QED BY <1>2, <1>3, <1>4 DEF IInv

LEMMA NextIInv == IInv /\ [Next]_vars => IInv'
<1> SUFFICES ASSUME IInv, [Next]_vars PROVE IInv'
  OBVIOUS
<1>1. ASSUME NEW p \in Proxies, RunStep(p) PROVE IInv'
  <2>1. End # {}
    BY DEF End
  <2> QED BY <1>1, <2>1, MatchStep, EnqueueStep, RemoveStep, OtherRunStep DEF RunStep
<1>2. ASSUME NEW p \in Proxies, NEW e \in End, StreamEnds(p, e) \/ CopyEnds(p, e)
      PROVE  IInv'
  BY <1>2, OtherRunStep
<1>3. CASE \/ \E s \in Sessions : SSHDown(s) \/ SessionDone(s) \/ BindReturns(s)
           \/ Terminated \/ UNCHANGED vars
  BY <1>3, SessionStep DEF Terminated
<1> QED BY <1>1, <1>2, <1>3 DEF Next

\* The invariants of the registry, for any proxies, paths and sessions.
THEOREM Invariance == Spec => []IInv
<1>1. Init => IInv
  BY InitIInv
<1> QED BY <1>1, NextIInv, PTL DEF Spec

\* The queue of a path is exactly its one unmatched waiter (uds_pair.go:37-49, 65-78).
THEOREM QueueIsExact == Spec => []QueueExact
<1>1. IInv => QueueExact
  BY DEF IInv
<1> QED BY <1>1, Invariance, PTL

\* Waiters and relaying proxies are matched one to one (uds_pair.go:38-46).
THEOREM PairingIsExact == Spec => []PairingExact
<1>1. IInv => PairingExact
  BY DEF IInv
<1> QED BY <1>1, Invariance, PTL

\* An error is always the relaying proxy's and cancels its session only.
THEOREM OnlyTheRelayFails == Spec => []OnlyRelayFails
<1>1. IInv => OnlyRelayFails
  BY DEF IInv, FailInv
<1> QED BY <1>1, Invariance, PTL

-----------------------------------------------------------------------------
(* Refinement of Rendezvous.                                               *)

USE DEF R!Fresh, R!Wait, R!Meet, R!Withdraw, R!Part

LEMMA RefineInit == Init => R!Init
BY DEF Init, R!Init, RegistrySlot, RegistryPartner, Returned

LEMMA SlotFacts ==
  ASSUME IInv
  PROVE  /\ \A path \in Paths : RegistrySlot[path] = None <=> waiters[path] = << >>
         /\ \A path \in Paths, p \in Proxies : RegistrySlot[path] = p <=> waiters[path] = <<p>>
<1> USE PairAssumption
<1> SUFFICES ASSUME NEW path \in Paths
             PROVE  /\ RegistrySlot[path] = None <=> waiters[path] = << >>
                    /\ \A p \in Proxies : RegistrySlot[path] = p <=> waiters[path] = <<p>>
  OBVIOUS
<1>1. waiters[path] \in Seq(Proxies) /\ Len(waiters[path]) <= 1
  BY DEF IInv, TypeOK, QueueExact
<1>2. CASE waiters[path] = << >>
  <2>1. RegistrySlot[path] = None
    BY <1>2 DEF RegistrySlot
  <2>2. \A p \in Proxies : << >> # <<p>>
    OBVIOUS
  <2> QED BY <1>2, <2>1, <2>2
<1>3. CASE waiters[path] # << >>
  <2>1. Head(waiters[path]) \in Proxies /\ waiters[path] = <<Head(waiters[path])>>
    BY <1>1, <1>3, Singleton
  <2>2. RegistrySlot[path] = Head(waiters[path])
    BY <1>3 DEF RegistrySlot
  <2>3. \A p \in Proxies : <<Head(waiters[path])>> = <<p>> <=> Head(waiters[path]) = p
    OBVIOUS
  <2> QED BY <1>3, <2>1, <2>2, <2>3
<1> QED BY <1>2, <1>3

\* The abstract variables are functions on the paths and on the proxies.
LEMMA MapTypes ==
  /\ RegistrySlot = [path \in Paths |-> RegistrySlot[path]]
  /\ RegistryPartner = [p \in Proxies |-> RegistryPartner[p]]
BY DEF RegistrySlot, RegistryPartner

LEMMA RefineMatch == ASSUME IInv, NEW p \in Proxies, Match(p) PROVE R!Meet(p)
<1> USE PairAssumption
<1> DEFINE path == PathOf[p]
<1>1. PICK h \in Proxies :
           /\ h # p /\ CanMatch(h, path) /\ waiters[path] = <<h>>
           /\ waiters' = [waiters EXCEPT ![path] = << >>]
           /\ matched' = [matched EXCEPT ![h] = p]
           /\ peer' = [peer EXCEPT ![p] = h]
  BY MatchTakesWaiter
<1>2. pc[p] = "idle" /\ pc' = [pc EXCEPT ![p] = "checkA"]
  BY DEF Match
<1>3. path \in Paths /\ RegistrySlot[path] = h
  BY <1>1, SlotFacts
<1>4. matched[p] = None /\ peer[p] = None /\ matched[h] = None /\ peer[h] = None
  BY <1>1, <1>2 DEF IInv, RoleInv, CanMatch
<1>5. R!Fresh(p) /\ RegistrySlot[path] \in Proxies \ Returned
  BY <1>1, <1>2, <1>3, <1>4 DEF RegistryPartner, Returned, CanMatch
<1>6. RegistryPartner' = [RegistryPartner EXCEPT ![p] = h, ![h] = p]
  BY <1>1, <1>4 DEF RegistryPartner, IInv, TypeOK
<1>7. RegistrySlot' = [RegistrySlot EXCEPT ![path] = None]
  BY <1>1 DEF RegistrySlot, IInv, TypeOK
<1>8. Returned' = Returned
  BY <1>2 DEF Returned, IInv, TypeOK
<1> QED BY <1>3, <1>5, <1>6, <1>7, <1>8

LEMMA RefineEnqueue == ASSUME IInv, NEW p \in Proxies, Enqueue(p) PROVE R!Wait(p)
<1> USE PairAssumption
<1> DEFINE path == PathOf[p]
<1>1. waiters[path] = << >> /\ waiters' = [waiters EXCEPT ![path] = <<p>>]
  BY AppendToEmpty DEF Enqueue, IInv, TypeOK
<1>2. pc[p] = "idle" /\ pc' = [pc EXCEPT ![p] = "waiting"] /\ UNCHANGED <<matched, peer>>
  BY DEF Enqueue
<1>3. path \in Paths /\ RegistrySlot[path] = None
  BY <1>1 DEF RegistrySlot
<1>4. R!Fresh(p)
  BY <1>2, <1>3 DEF RegistryPartner, Returned, IInv, RoleInv
<1>5. RegistrySlot' = [RegistrySlot EXCEPT ![path] = p]
  <2>1. waiters' \in [Paths -> Seq(Proxies)]
    BY EnqueueStep DEF IInv, TypeOK
  <2>2. RegistrySlot'[path] = p
    BY <1>1, <1>3, AppendToEmpty DEF RegistrySlot, IInv, TypeOK
  <2>3. \A x \in Paths \ {path} : RegistrySlot'[x] = RegistrySlot[x]
    BY <1>1 DEF RegistrySlot, IInv, TypeOK
  <2>4. RegistrySlot' = [x \in Paths |-> RegistrySlot'[x]]
    BY DEF RegistrySlot
  <2> QED BY <2>2, <2>3, <2>4, MapTypes
<1>6. RegistryPartner' = RegistryPartner /\ Returned' = Returned
  BY <1>2 DEF RegistryPartner, Returned, IInv, TypeOK
<1> QED BY <1>3, <1>4, <1>5, <1>6

LEMMA RefineRemove ==
  ASSUME IInv, NEW p \in Proxies, RemoveWaiter(p) PROVE R!Withdraw(p) \/ R!Part(p)
<1> USE PairAssumption
<1> DEFINE path == PathOf[p]
<1>1. \/ waiters[path] = <<p>> /\ waiters' = [waiters EXCEPT ![path] = << >>]
      \/ waiters[path] # <<p>> /\ waiters' = waiters
  BY RemoveEmpties
<1>2. pc[p] = "removing" /\ pc' = [pc EXCEPT ![p] = "done"] /\ UNCHANGED <<matched, peer>>
  BY DEF RemoveWaiter, ReturnNil
<1>3. p \notin Returned /\ Returned' = Returned \cup {p} /\ RegistryPartner' = RegistryPartner
  BY <1>2 DEF RegistryPartner, Returned, IInv, TypeOK
<1>4. CASE waiters[path] = <<p>>
  <2>1. RegistrySlot[path] = p
    BY <1>4, SlotFacts
  <2>2. RegistrySlot' = [RegistrySlot EXCEPT ![path] = None]
    BY <1>1, <1>4 DEF RegistrySlot, IInv, TypeOK
  <2> QED BY <1>3, <2>1, <2>2
<1>5. CASE waiters[path] # <<p>>
  <2>1. RegistrySlot' = RegistrySlot
    BY <1>1, <1>5 DEF RegistrySlot
  <2>2. matched[p] # None
    BY <1>2, <1>5 DEF IInv, QueueExact
  <2>3. RegistryPartner[p] # None
    BY <2>2 DEF RegistryPartner
  <2> QED BY <1>3, <2>1, <2>3
<1> QED BY <1>4, <1>5

\* Run's other returns leave a meeting.
LEMMA RefineReturn ==
  ASSUME IInv, NEW p \in Proxies, pc[p] \in Relaying \cup {"paired"},
         pc' = [pc EXCEPT ![p] = "done"], UNCHANGED regVars
  PROVE  R!Part(p)
<1> USE PairAssumption
<1>1. RegistryPartner[p] # None
  BY DEF RegistryPartner, IInv, RoleInv
<1>2. p \notin Returned /\ Returned' = Returned \cup {p}
  BY DEF Returned, IInv, TypeOK, Relaying
<1>3. RegistrySlot' = RegistrySlot /\ RegistryPartner' = RegistryPartner
  BY DEF RegistrySlot, RegistryPartner
<1> QED BY <1>1, <1>2, <1>3

\* Everything else is invisible.
LEMMA RefineQuiet ==
  ASSUME IInv, UNCHANGED regVars, \A p \in Proxies : pc'[p] = "done" <=> pc[p] = "done"
  PROVE  UNCHANGED <<RegistrySlot, RegistryPartner, Returned>>
BY DEF RegistrySlot, RegistryPartner, Returned

LEMMA RefineNext ==
  IInv /\ [Next]_vars => [R!Next]_<<RegistrySlot, RegistryPartner, Returned>>
<1> SUFFICES ASSUME IInv, [Next]_vars
             PROVE  R!Next \/ UNCHANGED <<RegistrySlot, RegistryPartner, Returned>>
  OBVIOUS
<1>1. ASSUME NEW p \in Proxies, Match(p) \/ Enqueue(p) \/ RemoveWaiter(p) PROVE R!Next
  BY <1>1, RefineMatch, RefineEnqueue, RefineRemove DEF R!Next
<1>2. ASSUME NEW p \in Proxies, NEW e \in End,
             LeavePair(p) \/ RelayReturns(p) \/ OpenFails(p, e) \/ (CheckCtx(p, e) /\ CtxDone(p))
      PROVE  R!Next
  <2>1. /\ pc[p] \in Relaying \cup {"paired"}
        /\ pc' = [pc EXCEPT ![p] = "done"] /\ UNCHANGED regVars
    BY <1>2 DEF LeavePair, RelayReturns, OpenFails, Opening, CheckCtx, ReturnNil,
         ReturnErr, Relaying
  <2> QED BY <2>1, RefineReturn DEF R!Next
<1>3. ASSUME NEW p \in Proxies, NEW e \in End,
             \/ TakeMatch(p) \/ StopWaiting(p) \/ (CheckCtx(p, e) /\ ~CtxDone(p))
             \/ OpenStream(p, e) \/ StreamEnds(p, e) \/ CopyEnds(p, e)
      PROVE  UNCHANGED <<RegistrySlot, RegistryPartner, Returned>>
  <2>1. UNCHANGED regVars
    BY <1>3 DEF TakeMatch, StopWaiting, CheckCtx, OpenStream, StreamEnds, CopyEnds
  <2>2. \A q \in Proxies : pc'[q] = "done" <=> pc[q] = "done"
    BY <1>3 DEF TakeMatch, StopWaiting, CheckCtx, OpenStream, Opening, StreamEnds,
         CopyEnds, IInv, TypeOK
  <2> QED BY <2>1, <2>2, RefineQuiet
<1>4. CASE \/ \E s \in Sessions : SSHDown(s) \/ SessionDone(s) \/ BindReturns(s)
           \/ Terminated \/ UNCHANGED vars
  <2>1. UNCHANGED <<regVars, pc>>
    BY <1>4 DEF SSHDown, SessionDone, BindReturns, Terminated, vars
  <2> QED BY <2>1, RefineQuiet
<1>5. End # {}
  BY DEF End
<1> QED BY <1>1, <1>2, <1>3, <1>4, <1>5 DEF Next, RunStep

\* The registry implements Rendezvous: two proxies are paired in one step, a
\* waiter that leaves gives up its place in the step in which Run returns,
\* and nobody is paired twice (uds_pair.go:30-78).
THEOREM RegistryIsRendezvous == Spec => IsRendezvous
<1>1. Init => R!Init
  BY RefineInit
<1> QED BY <1>1, RefineNext, Invariance, PTL DEF Spec, IsRendezvous, R!Spec
=============================================================================
