---------------------------- MODULE ServerProofs ----------------------------
(***************************************************************************)
(* Proofs about Server, for any contents of the user file, any number of   *)
(* changes of it and any number of calls of Close.                         *)
(***************************************************************************)
EXTENDS Server, TLAPS

\* Whoever has called Close has used closeOnce, and the first call closed the
\* server or found that it had not been started.
NotStarted == \E d \in Closers : closeRet[d] = "notStarted"
CloseInv ==
  /\ closer \in [Closers -> {"none", "otel", "over"}]
  /\ closeRet \in [Closers -> {"none", "nil", "notStarted"}]
  /\ \A c \in Closers : closer[c] = "none" => closeRet[c] = "none"
  /\ \A c \in Closers : closer[c] # "none" => once # "free"
  /\ once # "free" => inShutdown \/ NotStarted

\* Where Serve is while the main goroutine starts and waits, and what its
\* return says.
Told == stopped \/ \E c \in Closers : closeRet[c] = "nil"
ServeInv ==
  /\ pc \in {"load", "watch", "auth", "listen", "fatal"} =>
       serve = "none" /\ onDone = "none" /\ waitRet # "nil"
  /\ pc \in {"load", "watch", "auth", "listen"} => listener = "none"
  /\ pc = "fatal" => listener = "none" \/ waitRet = "noContext"
  /\ pc = "serve" => serve = "none" /\ onDone = "none" /\ waitRet # "nil"
  /\ pc = "wait" => waitRet # "nil"
  /\ pc = "done" => serve = "returned"
  /\ serve = "returned" => listener = "closed"
  /\ serve # "returned" => serveErr = "none"
  /\ serve # "returned" /\ inShutdown => Told
  /\ serveErr = "closed" => inShutdown /\ Told
  /\ waitRet = "nil" => serveErr = "closed"
  /\ serveErr \in {"none", "closed", "accept"}
  /\ pc \in {"load", "watch", "auth", "listen", "serve", "wait", "done", "fatal"}

\* The table and what the reload has read were in the file.
FileType ==
  /\ Broken \notin Contents
  /\ file \in seen \cup {Broken} /\ buf \in seen \cup {Broken}
  /\ seen \subseteq Contents /\ half \in Contents \cup {Broken}
  /\ events \in Seq({"write", "remove", "chmod"})
  /\ pc \in {"load", "watch"} => reload = "none"
InFile(tb) == \E t \in seen : tb \in {t, t \cup {AuthUser}}
TableInv == pc = "load" \/ (pc = "fatal" /\ reload = "none") \/ InFile(users)

\* A table that is not the file's is about to be replaced, unless the change
\* went unseen: a write waits or was taken, or the file has been read since.
WriteWaits == \E i \in 1 .. Len(events) : events[i] = "write"
Synced == users \in {file, file \cup {AuthUser}}
FollowInv ==
  \/ pc = "load" \/ (pc = "fatal" /\ reload = "none")
  \/ file = Broken \/ missed
  \/ WriteWaits \/ reload = "read"
  \/ reload = "swap" /\ buf = file
  \/ reload \in {"none", "idle"} /\ Synced

\* The first call of Close settles it for the others.
LEMMA CloseStep ==
  ASSUME CloseInv, [Next]_vars
  PROVE  CloseInv'
<1> USE DEF CloseInv, NotStarted
<1>1. CASE LoadUsers
  BY <1>1 DEF LoadUsers, Life, Fatal, pathVars, fileVars, Goto, httpVars, closeVars
<1>2. CASE AddWatchEvents
  BY <1>2 DEF AddWatchEvents, Life, pathVars, Goto, httpVars, closeVars
<1>3. CASE AddAuthUser
  BY <1>3 DEF AddAuthUser, Life, pathVars, Goto, httpVars, closeVars
<1>4. CASE Listen
  BY <1>4 DEF Listen, Goto, closeVars, fileVars
<1>5. CASE ListenFails
  BY <1>5 DEF ListenFails, Fatal, fileVars, Goto, httpVars, closeVars
<1>6. CASE GoServe
  BY <1>6 DEF GoServe, Goto, closeVars, fileVars
<1>24. CASE GoServeFails
  BY <1>24 DEF GoServeFails, Fatal, fileVars, Goto, httpVars, closeVars
<1>7. CASE WaitReturns
  BY <1>7 DEF WaitReturns, Goto, httpVars, closeVars, fileVars
<1>8. CASE ServeBegins
  BY <1>8 DEF ServeBegins, closeVars, fileVars
<1>9. CASE ServeReturns
  BY <1>9 DEF ServeReturns, closeVars, fileVars
<1>10. CASE CloseOnDone
  BY <1>10 DEF CloseOnDone, HttpClose, closeVars, fileVars
<1>11. CASE Interrupt
  BY <1>11 DEF Interrupt, httpVars, closeVars, fileVars
<1>12. CASE Written
  BY <1>12 DEF Written, Unseen, Event, lifeVars
<1>13. CASE Touch
  BY <1>13 DEF Touch, Event, lifeVars
<1>14. CASE TakeEvent
  BY <1>14 DEF TakeEvent, lifeVars, pathVars
<1>15. CASE ReadFile
  BY <1>15 DEF ReadFile, lifeVars, pathVars
<1>16. CASE SwapUsers
  BY <1>16 DEF SwapUsers, lifeVars, pathVars
<1>17. ASSUME NEW c \in Closers, CloseFirst(c) PROVE CloseInv'
  BY <1>17 DEF CloseFirst, HttpClose, fileVars
<1>18. ASSUME NEW c \in Closers, OtelShutdown(c) PROVE CloseInv'
  BY <1>18 DEF OtelShutdown, httpVars, fileVars
<1>19. ASSUME NEW c \in Closers, CloseAgain(c) PROVE CloseInv'
  BY <1>19 DEF CloseAgain, httpVars, fileVars
<1>20. ASSUME NEW t \in Contents, Truncate(t) PROVE CloseInv'
  BY <1>20 DEF Truncate, Event, lifeVars
<1>21. ASSUME NEW t \in Contents, Replace(t) PROVE CloseInv'
  BY <1>21 DEF Replace, Event, lifeVars
<1>22. CASE UNCHANGED vars
  BY <1>22 DEF vars, lifeVars, fileVars
<1>23. QED
  BY <1>1, <1>2, <1>3, <1>4, <1>5, <1>6, <1>7, <1>8, <1>9, <1>10, <1>11, <1>12, <1>13, <1>14, <1>15, <1>16, <1>17, <1>18, <1>19, <1>20, <1>21, <1>22, <1>24 DEF Next, Main, Edit, Reload, Returned

\* Serve returns once, with its listener closed.
LEMMA ServeStep ==
  ASSUME CloseInv, ServeInv, [Next]_vars
  PROVE  ServeInv'
<1> USE DEF ServeInv, Told, CloseInv, NotStarted
<1>1. CASE LoadUsers
  BY <1>1 DEF LoadUsers, Life, Fatal, pathVars, fileVars, Goto, httpVars, closeVars
<1>2. CASE AddWatchEvents
  BY <1>2 DEF AddWatchEvents, Life, pathVars, Goto, httpVars, closeVars
<1>3. CASE AddAuthUser
  BY <1>3 DEF AddAuthUser, Life, pathVars, Goto, httpVars, closeVars
<1>4. CASE Listen
  BY <1>4 DEF Listen, Goto, closeVars, fileVars
<1>5. CASE ListenFails
  BY <1>5 DEF ListenFails, Fatal, fileVars, Goto, httpVars, closeVars
<1>6. CASE GoServe
  BY <1>6 DEF GoServe, Goto, closeVars, fileVars
<1>24. CASE GoServeFails
  BY <1>24 DEF GoServeFails, Fatal, fileVars, Goto, httpVars, closeVars
<1>7. CASE WaitReturns
  BY <1>7 DEF WaitReturns, Goto, httpVars, closeVars, fileVars
<1>8. CASE ServeBegins
  BY <1>8 DEF ServeBegins, closeVars, fileVars
<1>9. CASE ServeReturns
  BY <1>9 DEF ServeReturns, closeVars, fileVars
<1>10. CASE CloseOnDone
  BY <1>10 DEF CloseOnDone, HttpClose, closeVars, fileVars
<1>11. CASE Interrupt
  BY <1>11 DEF Interrupt, httpVars, closeVars, fileVars
<1>12. CASE Written
  BY <1>12 DEF Written, Unseen, Event, lifeVars
<1>13. CASE Touch
  BY <1>13 DEF Touch, Event, lifeVars
<1>14. CASE TakeEvent
  BY <1>14 DEF TakeEvent, lifeVars, pathVars
<1>15. CASE ReadFile
  BY <1>15 DEF ReadFile, lifeVars, pathVars
<1>16. CASE SwapUsers
  BY <1>16 DEF SwapUsers, lifeVars, pathVars
<1>17. ASSUME NEW c \in Closers, CloseFirst(c) PROVE ServeInv'
  BY <1>17 DEF CloseFirst, HttpClose, fileVars
<1>18. ASSUME NEW c \in Closers, OtelShutdown(c) PROVE ServeInv'
  BY <1>18 DEF OtelShutdown, httpVars, fileVars
<1>19. ASSUME NEW c \in Closers, CloseAgain(c) PROVE ServeInv'
  BY <1>19 DEF CloseAgain, httpVars, fileVars
<1>20. ASSUME NEW t \in Contents, Truncate(t) PROVE ServeInv'
  BY <1>20 DEF Truncate, Event, lifeVars
<1>21. ASSUME NEW t \in Contents, Replace(t) PROVE ServeInv'
  BY <1>21 DEF Replace, Event, lifeVars
<1>22. CASE UNCHANGED vars
  BY <1>22 DEF vars, lifeVars, fileVars
<1>23. QED
  BY <1>1, <1>2, <1>3, <1>4, <1>5, <1>6, <1>7, <1>8, <1>9, <1>10, <1>11, <1>12, <1>13, <1>14, <1>15, <1>16, <1>17, <1>18, <1>19, <1>20, <1>21, <1>22, <1>24 DEF Next, Main, Edit, Reload, Returned

\* What is read and what is at the path was in the file.
LEMMA FileStep ==
  ASSUME FileType, [Next]_vars
  PROVE  FileType'
<1> USE DEF FileType
<1>1. CASE LoadUsers
  BY <1>1 DEF LoadUsers, Life, Fatal, pathVars, fileVars, Goto, httpVars, closeVars
<1>2. CASE AddWatchEvents
  BY <1>2 DEF AddWatchEvents, Life, pathVars, Goto, httpVars, closeVars
<1>3. CASE AddAuthUser
  BY <1>3 DEF AddAuthUser, Life, pathVars, Goto, httpVars, closeVars
<1>4. CASE Listen
  BY <1>4 DEF Listen, Goto, closeVars, fileVars
<1>5. CASE ListenFails
  BY <1>5 DEF ListenFails, Fatal, fileVars, Goto, httpVars, closeVars
<1>6. CASE GoServe
  BY <1>6 DEF GoServe, Goto, closeVars, fileVars
<1>24. CASE GoServeFails
  BY <1>24 DEF GoServeFails, Fatal, fileVars, Goto, httpVars, closeVars
<1>7. CASE WaitReturns
  BY <1>7 DEF WaitReturns, Goto, httpVars, closeVars, fileVars
<1>8. CASE ServeBegins
  BY <1>8 DEF ServeBegins, closeVars, fileVars
<1>9. CASE ServeReturns
  BY <1>9 DEF ServeReturns, closeVars, fileVars
<1>10. CASE CloseOnDone
  BY <1>10 DEF CloseOnDone, HttpClose, closeVars, fileVars
<1>11. CASE Interrupt
  BY <1>11 DEF Interrupt, httpVars, closeVars, fileVars
<1>12. CASE Written
  BY <1>12 DEF Written, Unseen, Event, lifeVars
<1>13. CASE Touch
  BY <1>13 DEF Touch, Event, lifeVars
<1>14. CASE TakeEvent
  BY <1>14 DEF TakeEvent, lifeVars, pathVars
<1>15. CASE ReadFile
  BY <1>15 DEF ReadFile, lifeVars, pathVars
<1>16. CASE SwapUsers
  BY <1>16 DEF SwapUsers, lifeVars, pathVars
<1>17. ASSUME NEW c \in Closers, CloseFirst(c) PROVE FileType'
  BY <1>17 DEF CloseFirst, HttpClose, fileVars
<1>18. ASSUME NEW c \in Closers, OtelShutdown(c) PROVE FileType'
  BY <1>18 DEF OtelShutdown, httpVars, fileVars
<1>19. ASSUME NEW c \in Closers, CloseAgain(c) PROVE FileType'
  BY <1>19 DEF CloseAgain, httpVars, fileVars
<1>20. ASSUME NEW t \in Contents, Truncate(t) PROVE FileType'
  BY <1>20 DEF Truncate, Event, lifeVars
<1>21. ASSUME NEW t \in Contents, Replace(t) PROVE FileType'
  BY <1>21 DEF Replace, Event, lifeVars
<1>22. CASE UNCHANGED vars
  BY <1>22 DEF vars, lifeVars, fileVars
<1>23. QED
  BY <1>1, <1>2, <1>3, <1>4, <1>5, <1>6, <1>7, <1>8, <1>9, <1>10, <1>11, <1>12, <1>13, <1>14, <1>15, <1>16, <1>17, <1>18, <1>19, <1>20, <1>21, <1>22, <1>24 DEF Next, Main, Edit, Reload, Returned

\* Only what was read is put into the table.
LEMMA TableStep ==
  ASSUME FileType, TableInv, [Next]_vars
  PROVE  TableInv'
<1> USE DEF FileType, TableInv, InFile
<1>1. CASE LoadUsers
  BY <1>1 DEF LoadUsers, Life, Fatal, pathVars, fileVars, Goto, httpVars, closeVars
<1>2. CASE AddWatchEvents
  BY <1>2 DEF AddWatchEvents, Life, pathVars, Goto, httpVars, closeVars
<1>3. CASE AddAuthUser
  BY <1>3 DEF AddAuthUser, Life, pathVars, Goto, httpVars, closeVars
<1>4. CASE Listen
  BY <1>4 DEF Listen, Goto, closeVars, fileVars
<1>5. CASE ListenFails
  BY <1>5 DEF ListenFails, Fatal, fileVars, Goto, httpVars, closeVars
<1>6. CASE GoServe
  BY <1>6 DEF GoServe, Goto, closeVars, fileVars
<1>24. CASE GoServeFails
  BY <1>24 DEF GoServeFails, Fatal, fileVars, Goto, httpVars, closeVars
<1>7. CASE WaitReturns
  BY <1>7 DEF WaitReturns, Goto, httpVars, closeVars, fileVars
<1>8. CASE ServeBegins
  BY <1>8 DEF ServeBegins, closeVars, fileVars
<1>9. CASE ServeReturns
  BY <1>9 DEF ServeReturns, closeVars, fileVars
<1>10. CASE CloseOnDone
  BY <1>10 DEF CloseOnDone, HttpClose, closeVars, fileVars
<1>11. CASE Interrupt
  BY <1>11 DEF Interrupt, httpVars, closeVars, fileVars
<1>12. CASE Written
  BY <1>12 DEF Written, Unseen, Event, lifeVars
<1>13. CASE Touch
  BY <1>13 DEF Touch, Event, lifeVars
<1>14. CASE TakeEvent
  BY <1>14 DEF TakeEvent, lifeVars, pathVars
<1>15. CASE ReadFile
  BY <1>15 DEF ReadFile, lifeVars, pathVars
<1>16. CASE SwapUsers
  BY <1>16 DEF SwapUsers, lifeVars, pathVars
<1>17. ASSUME NEW c \in Closers, CloseFirst(c) PROVE TableInv'
  BY <1>17 DEF CloseFirst, HttpClose, fileVars
<1>18. ASSUME NEW c \in Closers, OtelShutdown(c) PROVE TableInv'
  BY <1>18 DEF OtelShutdown, httpVars, fileVars
<1>19. ASSUME NEW c \in Closers, CloseAgain(c) PROVE TableInv'
  BY <1>19 DEF CloseAgain, httpVars, fileVars
<1>20. ASSUME NEW t \in Contents, Truncate(t) PROVE TableInv'
  BY <1>20 DEF Truncate, Event, lifeVars
<1>21. ASSUME NEW t \in Contents, Replace(t) PROVE TableInv'
  BY <1>21 DEF Replace, Event, lifeVars
<1>22. CASE UNCHANGED vars
  BY <1>22 DEF vars, lifeVars, fileVars
<1>23. QED
  BY <1>1, <1>2, <1>3, <1>4, <1>5, <1>6, <1>7, <1>8, <1>9, <1>10, <1>11, <1>12, <1>13, <1>14, <1>15, <1>16, <1>17, <1>18, <1>19, <1>20, <1>21, <1>22, <1>24 DEF Next, Main, Edit, Reload, Returned

\* A change leaves an event behind or is missed.
LEMMA FollowStep ==
  ASSUME FileType, FollowInv, [Next]_vars
  PROVE  FollowInv'
<1> USE DEF FileType, FollowInv, WriteWaits, Synced
<1>1. CASE LoadUsers
  BY <1>1 DEF LoadUsers, Life, Fatal, pathVars, fileVars, Goto, httpVars, closeVars
<1>2. CASE AddWatchEvents
  BY <1>2 DEF AddWatchEvents, Life, pathVars, Goto, httpVars, closeVars
<1>3. CASE AddAuthUser
  BY <1>3 DEF AddAuthUser, Life, pathVars, Goto, httpVars, closeVars
<1>4. CASE Listen
  BY <1>4 DEF Listen, Goto, closeVars, fileVars
<1>5. CASE ListenFails
  BY <1>5 DEF ListenFails, Fatal, fileVars, Goto, httpVars, closeVars
<1>6. CASE GoServe
  BY <1>6 DEF GoServe, Goto, closeVars, fileVars
<1>24. CASE GoServeFails
  BY <1>24 DEF GoServeFails, Fatal, fileVars, Goto, httpVars, closeVars
<1>7. CASE WaitReturns
  BY <1>7 DEF WaitReturns, Goto, httpVars, closeVars, fileVars
<1>8. CASE ServeBegins
  BY <1>8 DEF ServeBegins, closeVars, fileVars
<1>9. CASE ServeReturns
  BY <1>9 DEF ServeReturns, closeVars, fileVars
<1>10. CASE CloseOnDone
  BY <1>10 DEF CloseOnDone, HttpClose, closeVars, fileVars
<1>11. CASE Interrupt
  BY <1>11 DEF Interrupt, httpVars, closeVars, fileVars
<1>12. CASE Written
  <2>1. CASE pc = "load"
    BY <1>12, <2>1 DEF Written, lifeVars
  <2>2. CASE pc # "load" /\ ~watched
    <3>1. missed'
      BY <1>12, <2>2, Zenon DEF Written, Unseen
    <3>2. QED
      BY <3>1
  <2>3. CASE watched
    <3>1. events' = Append(events, "write")
      BY <1>12, <2>3 DEF Written, Event
    <3>2. Len(events') = Len(events) + 1 /\ events'[Len(events) + 1] = "write"
      BY <3>1
    <3>3. QED
      BY <3>2
  <2>4. QED
    BY <2>1, <2>2, <2>3
<1>13. CASE Touch
  BY <1>13 DEF Touch, Event, lifeVars
<1>14. CASE TakeEvent
  <2>1. CASE Head(events) = "write"
    BY <1>14, <2>1 DEF TakeEvent, lifeVars, pathVars
  <2>2. CASE Head(events) # "write"
    <3>1. ASSUME NEW i \in 1 .. Len(events), events[i] = "write" PROVE WriteWaits'
      <4>1. i - 1 \in 1 .. Len(events')
        BY <1>14, <2>2, <3>1 DEF TakeEvent
      <4>2. events'[i - 1] = "write"
        BY <1>14, <2>2, <3>1 DEF TakeEvent
      <4>3. QED
        BY <4>1, <4>2
    <3>2. CASE ~WriteWaits
      BY <1>14, <2>2, <3>2 DEF TakeEvent, lifeVars, pathVars
    <3>3. QED
      BY <3>1, <3>2
  <2>3. QED
    BY <2>1, <2>2
<1>15. CASE ReadFile
  BY <1>15 DEF ReadFile, lifeVars, pathVars
<1>16. CASE SwapUsers
  BY <1>16 DEF SwapUsers, lifeVars, pathVars
<1>17. ASSUME NEW c \in Closers, CloseFirst(c) PROVE FollowInv'
  BY <1>17 DEF CloseFirst, HttpClose, fileVars
<1>18. ASSUME NEW c \in Closers, OtelShutdown(c) PROVE FollowInv'
  BY <1>18 DEF OtelShutdown, httpVars, fileVars
<1>19. ASSUME NEW c \in Closers, CloseAgain(c) PROVE FollowInv'
  BY <1>19 DEF CloseAgain, httpVars, fileVars
<1>20. ASSUME NEW t \in Contents, Truncate(t) PROVE FollowInv'
  BY <1>20 DEF Truncate, Event, lifeVars
<1>21. ASSUME NEW t \in Contents, Replace(t) PROVE FollowInv'
  BY <1>21 DEF Replace, Event, lifeVars
<1>22. CASE UNCHANGED vars
  BY <1>22 DEF vars, lifeVars, fileVars
<1>23. QED
  BY <1>1, <1>2, <1>3, <1>4, <1>5, <1>6, <1>7, <1>8, <1>9, <1>10, <1>11, <1>12, <1>13, <1>14, <1>15, <1>16, <1>17, <1>18, <1>19, <1>20, <1>21, <1>22, <1>24 DEF Next, Main, Edit, Reload, Returned

\* Every step keeps the types.
LEMMA TypeStep ==
  ASSUME TypeOK, [Next]_vars
  PROVE  TypeOK'
<1> USE ServerAssumption DEF TypeOK
<1>1. CASE LoadUsers
  BY <1>1 DEF LoadUsers, Life, Fatal, pathVars, fileVars, Goto, httpVars, closeVars
<1>2. CASE AddWatchEvents
  BY <1>2 DEF AddWatchEvents, Life, pathVars, Goto, httpVars, closeVars
<1>3. CASE AddAuthUser
  BY <1>3 DEF AddAuthUser, Life, pathVars, Goto, httpVars, closeVars
<1>4. CASE Listen
  BY <1>4 DEF Listen, Goto, closeVars, fileVars
<1>5. CASE ListenFails
  BY <1>5 DEF ListenFails, Fatal, fileVars, Goto, httpVars, closeVars
<1>6. CASE GoServe
  BY <1>6 DEF GoServe, Goto, closeVars, fileVars
<1>24. CASE GoServeFails
  BY <1>24 DEF GoServeFails, Fatal, fileVars, Goto, httpVars, closeVars
<1>7. CASE WaitReturns
  BY <1>7 DEF WaitReturns, Goto, httpVars, closeVars, fileVars
<1>8. CASE ServeBegins
  BY <1>8 DEF ServeBegins, closeVars, fileVars
<1>9. CASE ServeReturns
  BY <1>9 DEF ServeReturns, closeVars, fileVars
<1>10. CASE CloseOnDone
  BY <1>10 DEF CloseOnDone, HttpClose, closeVars, fileVars
<1>11. CASE Interrupt
  BY <1>11 DEF Interrupt, httpVars, closeVars, fileVars
<1>12. CASE Written
  BY <1>12 DEF Written, Unseen, Event, lifeVars
<1>13. CASE Touch
  BY <1>13 DEF Touch, Event, lifeVars
<1>14. CASE TakeEvent
  BY <1>14 DEF TakeEvent, lifeVars, pathVars
<1>15. CASE ReadFile
  <2>1. missed' \in BOOLEAN
    BY <1>15, Zenon DEF ReadFile
  <2>2. QED
    BY <1>15, <2>1 DEF ReadFile, lifeVars, pathVars
<1>16. CASE SwapUsers
  BY <1>16 DEF SwapUsers, lifeVars, pathVars
<1>17. ASSUME NEW c \in Closers, CloseFirst(c) PROVE TypeOK'
  <2>1. inShutdown' \in BOOLEAN
    BY <1>17, Zenon DEF CloseFirst, HttpClose
  <2>2. QED
    BY <1>17, <2>1 DEF CloseFirst, HttpClose, fileVars
<1>18. ASSUME NEW c \in Closers, OtelShutdown(c) PROVE TypeOK'
  <2>1. otel' \in BOOLEAN
    BY <1>18, Zenon DEF OtelShutdown
  <2>2. QED
    BY <1>18, <2>1 DEF OtelShutdown, httpVars, fileVars
<1>19. ASSUME NEW c \in Closers, CloseAgain(c) PROVE TypeOK'
  BY <1>19 DEF CloseAgain, httpVars, fileVars
<1>20. ASSUME NEW t \in Contents, Truncate(t) PROVE TypeOK'
  BY <1>20 DEF Truncate, Event, lifeVars
<1>21. ASSUME NEW t \in Contents, Replace(t) PROVE TypeOK'
  <2>1. missed' \in BOOLEAN
    BY <1>21, Zenon DEF Replace
  <2>2. watched' \in BOOLEAN
    BY <1>21, Zenon DEF Replace
  <2>3. QED
    BY <1>21, <2>1, <2>2 DEF Replace, Event, lifeVars
<1>22. CASE UNCHANGED vars
  BY <1>22 DEF vars, lifeVars, fileVars
<1>23. QED
  BY <1>1, <1>2, <1>3, <1>4, <1>5, <1>6, <1>7, <1>8, <1>9, <1>10, <1>11, <1>12, <1>13, <1>14, <1>15, <1>16, <1>17, <1>18, <1>19, <1>20, <1>21, <1>22, <1>24 DEF Next, Main, Edit, Reload, Returned

-----------------------------------------------------------------------------
IInv == CloseInv /\ ServeInv /\ FileType /\ TableInv /\ FollowInv

\* The inductive invariant holds in every state.
LEMMA Invariance == Spec => []IInv
<1>1. Init => IInv
  BY ServerAssumption DEF Init, IInv, CloseInv, NotStarted, ServeInv, Told, FileType, TableInv,
     FollowInv
<1>2. IInv /\ [Next]_vars => IInv'
  BY CloseStep, ServeStep, FileStep, TableStep, FollowStep DEF IInv
<1>3. QED
  BY <1>1, <1>2, PTL DEF Spec

\* Every state of the specification has the types of TypeOK.
THEOREM TypeCorrect == Spec => []TypeOK
<1>1. Init => TypeOK
  <2> SUFFICES ASSUME Init PROVE TypeOK
    OBVIOUS
  <2>1. {ctx, waiter, inShutdown, stopped, otel, watched, missed} \subseteq BOOLEAN
    BY Zenon DEF Init
  <2>2. seen \subseteq Contents
    BY DEF Init
  <2>3. QED
    BY <2>1, <2>2, ServerAssumption DEF Init, TypeOK
<1>2. TypeOK /\ [Next]_vars => TypeOK'
  BY TypeStep
<1>3. QED
  BY <1>1, <1>2, PTL DEF Spec

\* A Close that returned nil while the server runs came after one that found it
\* not started (server.go:205-218).
THEOREM SilentCloseIsExplained == Spec => []SilentCloseHasCause
<1>1. IInv => SilentCloseHasCause
  BY DEF IInv, CloseInv, NotStarted, SilentCloseHasCause
<1>2. QED
  BY <1>1, Invariance, PTL

\* No listener outlives Wait or a Start that fails, but for a Start without a
\* context; and Wait returns nil only when the server was told to stop
\* (http_server.go:45-87).
THEOREM ListenerEndsWithServer == Spec => []ReturnsClosed
<1>1. IInv => ReturnsClosed
  BY DEF IInv, ServeInv, Told, ReturnsClosed
<1>2. QED
  BY <1>1, Invariance, PTL

\* The user table is one the file held, and the current one when the reload is
\* quiet and no change went unseen (users.go:87-158).
THEOREM ReloadFollowsFile == Spec => []TableFollowsFile
<1>1. IInv => TableFollowsFile
  BY DEF IInv, FileType, TableInv, InFile, FollowInv, WriteWaits, Synced, TableFollowsFile
<1>2. QED
  BY <1>1, Invariance, PTL
=============================================================================
