------------------------------- MODULE Server -------------------------------
(***************************************************************************)
(* The server process: NewServer with the user file and --auth, Start,     *)
(* Wait and Close (server/server.go, main.go), the HTTP server that is     *)
(* waited for and closed (share/cnet/http_server.go), and the goroutine    *)
(* that reloads the user file (share/settings/users.go).                   *)
(*                                                                         *)
(* Sessions are in Session.tla.  Whether the listener speaks TLS makes no  *)
(* difference here (server/server_listen.go).  net/http and fsnotify are   *)
(* external: http.Server.Close marks the server as shut down and closes    *)
(* the listener if Serve has registered it; a file is watched, not a path, *)
(* so a file that is renamed onto the path is another one that is not      *)
(* watched.                                                                *)
(***************************************************************************)
EXTENDS Naturals, Sequences, FiniteSets

CONSTANTS
  Contents,   \* the tables the user file may hold: sets of users
  AuthUser,   \* the user given with --auth
  Closers,    \* goroutines that call Server.Close
  MaxEdits,   \* bound: times the file is changed
  Broken      \* a content that is not valid: half written, say

ASSUME ServerAssumption == Broken \notin Contents /\ MaxEdits \in Nat

VARIABLES
  pc,         \* the goroutine that makes, starts and waits for the server
  ctx,        \* StartContext is given a context, not nil
  listener,   \* "none", "open" or "closed"
  waiter,     \* HTTPServer.waiter is set
  inShutdown, \* http.Server.Close was called
  serve,      \* the goroutine in Serve
  serveErr,   \* its error: "none", "closed" or "accept"
  stopped,    \* the context given to Start is done
  onDone,     \* the goroutine that closes when the group's context is done
  once,       \* closeOnce
  closer,     \* goroutines in Close
  closeRet,   \* what each returned
  otel,       \* the exporter runs
  waitRet     \* what Wait, or Start, returned

VARIABLES
  file,       \* what is at the path
  half,       \* the content being written, or Broken
  watched,    \* fsnotify watches the file that is at the path
  events,     \* Watcher.Events
  reload,     \* the reloading goroutine: "none", "idle", "read" or "swap"
  buf,        \* what it has read
  users,      \* UserIndex: the users in the table
  edits,
  seen,       \* history: the valid contents the file has had
  missed      \* history: since the file was last read it changed unwatched

lifeVars == <<pc, ctx, listener, waiter, inShutdown, serve, serveErr, stopped, onDone,
              once, closer, closeRet, otel, waitRet>>
httpVars == <<listener, waiter, inShutdown, serve, serveErr, onDone>>
closeVars == <<once, closer, closeRet, otel>>
pathVars == <<file, half, edits, seen>>
fileVars == <<file, half, watched, events, reload, buf, users, edits, seen, missed>>
vars == <<lifeVars, fileVars>>

Init ==
  /\ pc = "load" /\ ctx \in BOOLEAN /\ listener = "none"
  /\ waiter = FALSE /\ inShutdown = FALSE /\ serve = "none" /\ serveErr = "none"
  /\ stopped = FALSE /\ onDone = "none" /\ once = "free" /\ otel = TRUE
  /\ closer = [c \in Closers |-> "none"] /\ closeRet = [c \in Closers |-> "none"]
  /\ waitRet = "none"
  /\ file \in Contents \cup {Broken} /\ half = Broken /\ watched = FALSE /\ events = <<>>
  /\ reload = "none" /\ buf = Broken /\ users = {} /\ edits = 0
  /\ seen = {file} \ {Broken} /\ missed = FALSE

-----------------------------------------------------------------------------
(* NewServer                                                               *)

Goto(l) == pc' = l
Life(l) ==
  /\ Goto(l)
  /\ UNCHANGED <<ctx, stopped, waitRet, httpVars, closeVars>>

Fatal(why) ==
  /\ Goto("fatal") /\ waitRet' = why
  /\ UNCHANGED <<ctx, stopped, httpVars, closeVars>>

\* LoadUsers reads the file ...
LoadUsers ==
  /\ pc = "load"
  /\ \/ file = Broken /\ Fatal("badFile") /\ UNCHANGED fileVars
     \/ /\ file # Broken /\ Life("watch") /\ users' = file
        /\ UNCHANGED <<watched, events, reload, buf, missed, pathVars>>

\* ... and then watches it: what was written in between is not seen.
AddWatchEvents ==
  /\ pc = "watch" /\ Life("auth")
  /\ watched' = TRUE /\ reload' = "idle"
  /\ UNCHANGED <<events, buf, users, missed, pathVars>>

\* The user of --auth, if there is one, and the rest of NewServer.
AddAuthUser ==
  /\ pc = "auth" /\ Life("listen")
  /\ users' \in {users, users \cup {AuthUser}}
  /\ UNCHANGED <<watched, events, reload, buf, missed, pathVars>>

-----------------------------------------------------------------------------
(* StartContext, GoServe and Wait                                          *)

\* listener: net.Listen, whose listener may be wrapped for TLS ...
Listen ==
  /\ pc = "listen"
  /\ listener' = "open" /\ Goto("serve")
  /\ UNCHANGED <<ctx, waiter, inShutdown, serve, serveErr, stopped, onDone, waitRet,
                  fileVars, closeVars>>

\* ... or a conflict of the TLS options, a certificate that cannot be loaded,
\* or a port that is taken.
ListenFails == pc = "listen" /\ Fatal("listen") /\ UNCHANGED fileVars

GoServe ==
  /\ pc = "serve" /\ ctx
  /\ waiter' = TRUE /\ serve' = "starting" /\ onDone' = "waiting" /\ Goto("wait")
  /\ UNCHANGED <<ctx, listener, inShutdown, serveErr, stopped, waitRet, fileVars,
                  closeVars>>

\* Without a context it returns an error, and StartContext with it: the listener
\* that StartContext has opened stays open.
GoServeFails == pc = "serve" /\ ~ctx /\ Fatal("noContext") /\ UNCHANGED fileVars

\* Serve registers the listener unless the server is shut down already.
ServeBegins ==
  /\ serve = "starting"
  /\ IF inShutdown THEN serve' = "returned" /\ serveErr' = "closed" /\ listener' = "closed"
                   ELSE serve' = "accepting" /\ UNCHANGED <<serveErr, listener>>
  /\ UNCHANGED <<pc, ctx, waiter, inShutdown, stopped, onDone, waitRet, fileVars,
                  closeVars>>

\* Accept fails: of itself, or because the listener was closed.
ServeAlwaysClosed ==
  /\ serve = "accepting"
  /\ serveErr' = "closed"
  /\ serve' = "returned" /\ listener' = "closed"
  /\ UNCHANGED <<pc, ctx, waiter, inShutdown, stopped, onDone, waitRet, fileVars,
                  closeVars>>

ServeReturns ==
  /\ serve = "accepting"
  /\ serveErr' = IF inShutdown THEN "closed" ELSE "accept"
  /\ serve' = "returned" /\ listener' = "closed"
  /\ UNCHANGED <<pc, ctx, waiter, inShutdown, stopped, onDone, waitRet, fileVars,
                  closeVars>>

WaitReturns ==
  /\ pc = "wait" /\ serve = "returned"
  /\ waitRet' = IF serveErr = "closed" THEN "nil" ELSE serveErr
  /\ Goto("done")
  /\ UNCHANGED <<ctx, stopped, fileVars, httpVars, closeVars>>

-----------------------------------------------------------------------------
(* Close                                                                   *)

\* InterruptContext: a signal.
Interrupt ==
  /\ ctx /\ ~stopped /\ stopped' = TRUE
  /\ UNCHANGED <<pc, ctx, waitRet, fileVars, httpVars, closeVars>>

HttpClose ==
  /\ inShutdown' = TRUE
  /\ listener' = IF serve = "accepting" THEN "closed" ELSE listener

\* The group's context is done when the one given is, or Serve has returned.
CloseOnDoneLost ==
  /\ onDone = "waiting" /\ (stopped \/ serve = "returned")
  /\ onDone' = "over"
  /\ IF serve = "starting" THEN UNCHANGED <<inShutdown, listener>> ELSE HttpClose
  /\ UNCHANGED <<pc, ctx, waiter, serve, serveErr, stopped, waitRet, fileVars,
                  closeVars>>

CloseOnDone ==
  /\ onDone = "waiting" /\ (stopped \/ serve = "returned")
  /\ onDone' = "over" /\ HttpClose
  /\ UNCHANGED <<pc, ctx, waiter, serve, serveErr, stopped, waitRet, fileVars,
                  closeVars>>

\* Server.Close: the first call closes, if there is something to close ...
CloseFirstUnchecked(c) ==
  /\ closer[c] = "none" /\ once = "free"
  /\ once' = "busy" /\ closer' = [closer EXCEPT ![c] = "otel"]
  /\ closeRet' = [closeRet EXCEPT ![c] = "nil"]
  /\ IF waiter THEN HttpClose ELSE UNCHANGED <<inShutdown, listener>>
  /\ UNCHANGED <<pc, ctx, waiter, serve, serveErr, stopped, onDone, otel, waitRet,
                  fileVars>>

CloseFirst(c) ==
  /\ closer[c] = "none" /\ once = "free"
  /\ once' = "busy" /\ closer' = [closer EXCEPT ![c] = "otel"]
  /\ closeRet' = [closeRet EXCEPT ![c] = IF waiter THEN "nil" ELSE "notStarted"]
  /\ IF waiter THEN HttpClose ELSE UNCHANGED <<inShutdown, listener>>
  /\ UNCHANGED <<pc, ctx, waiter, serve, serveErr, stopped, onDone, otel, waitRet,
                  fileVars>>

\* ... shuts the exporter down, whether that works or not ...
OtelShutdown(c) ==
  /\ closer[c] = "otel" /\ closer' = [closer EXCEPT ![c] = "over"]
  /\ otel' = FALSE /\ once' = "done"
  /\ UNCHANGED <<pc, ctx, stopped, closeRet, waitRet, fileVars, httpVars>>

\* ... and every other call returns nil once the first has returned.
CloseAgain(c) ==
  /\ closer[c] = "none" /\ once = "done"
  /\ closer' = [closer EXCEPT ![c] = "over"]
  /\ closeRet' = [closeRet EXCEPT ![c] = "nil"]
  /\ UNCHANGED <<pc, ctx, stopped, once, otel, waitRet, fileVars, httpVars>>

-----------------------------------------------------------------------------
(* The user file                                                           *)

\* The file was loaded and what happens to it now is not reported.
Unseen == ~watched /\ pc # "load"
Event(e) == events' = IF watched THEN Append(events, e) ELSE events

\* Somebody truncates the file ...
Truncate(t) ==
  /\ edits < MaxEdits /\ edits' = edits + 1 /\ half = Broken
  /\ half' = t /\ file' = Broken /\ Event("write")
  /\ UNCHANGED <<watched, reload, buf, users, seen, missed, lifeVars>>

\* ... and writes it;
Written ==
  /\ half # Broken
  /\ file' = half /\ half' = Broken /\ Event("write") /\ seen' = seen \cup {half}
  /\ missed' = (missed \/ Unseen)
  /\ UNCHANGED <<watched, reload, buf, users, edits, lifeVars>>

\* or puts a new file in its place: its watch ends with the old one;
Replace(t) ==
  /\ edits < MaxEdits /\ edits' = edits + 1 /\ half = Broken
  /\ file' = t /\ seen' = seen \cup {t}
  /\ Event("remove") /\ watched' = FALSE
  /\ missed' = (missed \/ pc # "load")
  /\ UNCHANGED <<half, reload, buf, users, lifeVars>>

\* or changes its mode.
Touch ==
  /\ edits < MaxEdits /\ edits' = edits + 1 /\ watched /\ Event("chmod")
  /\ UNCHANGED <<file, half, watched, reload, buf, users, seen, missed, lifeVars>>

\* The watching goroutine takes an event and reacts to a write only.
TakeEvent ==
  /\ reload = "idle" /\ events # <<>>
  /\ events' = Tail(events)
  /\ reload' = IF Head(events) = "write" THEN "read" ELSE "idle"
  /\ UNCHANGED <<watched, buf, users, missed, lifeVars, pathVars>>

\* loadUserIndex: read the whole file ...
ReadFile ==
  /\ reload = "read" /\ reload' = "swap" /\ buf' = file /\ missed' = FALSE
  /\ UNCHANGED <<watched, events, users, lifeVars, pathVars>>

\* ... and swap the table, the user of --auth included, if it is valid.
SwapAnything ==
  /\ reload = "swap" /\ reload' = "idle" /\ buf' = Broken
  /\ users' = IF buf = Broken THEN {} ELSE buf
  /\ UNCHANGED <<watched, events, missed, lifeVars, pathVars>>

SwapUsers ==
  /\ reload = "swap" /\ reload' = "idle" /\ buf' = Broken
  /\ users' = IF buf = Broken THEN users ELSE buf
  /\ UNCHANGED <<watched, events, missed, lifeVars, pathVars>>

-----------------------------------------------------------------------------
\* Nothing more need happen once Wait, or the start, has returned.
Returned == pc \in {"done", "fatal"} /\ UNCHANGED vars

Edit == \E t \in Contents : Truncate(t) \/ Replace(t)
Reload == TakeEvent \/ ReadFile \/ SwapUsers
Main == LoadUsers \/ AddWatchEvents \/ AddAuthUser \/ Listen \/ ListenFails
        \/ GoServe \/ GoServeFails \/ WaitReturns

Next ==
  \/ Main \/ ServeBegins \/ ServeReturns \/ CloseOnDone \/ Interrupt
  \/ \E c \in Closers : CloseFirst(c) \/ OtelShutdown(c) \/ CloseAgain(c)
  \/ Edit \/ Written \/ Touch \/ Reload \/ Returned

Spec == Init /\ [][Next]_vars

\* Goroutines are scheduled, and Accept fails once the listener is closed.
\* Nobody need interrupt, call Close or change the file.
FairSpec ==
  /\ Spec
  /\ WF_vars(Main) /\ WF_vars(ServeBegins) /\ WF_vars(inShutdown /\ ServeReturns)
  /\ WF_vars(CloseOnDone)

-----------------------------------------------------------------------------
(* Properties                                                              *)

TypeOK ==
  /\ pc \in {"load", "watch", "auth", "listen", "serve", "wait", "done", "fatal"}
  /\ ctx \in BOOLEAN /\ listener \in {"none", "open", "closed"} /\ waiter \in BOOLEAN /\ inShutdown \in BOOLEAN
  /\ serve \in {"none", "starting", "accepting", "returned"}
  /\ serveErr \in {"none", "closed", "accept"} /\ stopped \in BOOLEAN
  /\ onDone \in {"none", "waiting", "over"} /\ once \in {"free", "busy", "done"}
  /\ closer \in [Closers -> {"none", "otel", "over"}]
  /\ closeRet \in [Closers -> {"none", "nil", "notStarted"}] /\ otel \in BOOLEAN
  /\ waitRet \in {"none", "nil", "accept", "badFile", "listen", "noContext"}
  /\ file \in Contents \cup {Broken} /\ half \in Contents \cup {Broken}
  /\ buf \in Contents \cup {Broken} /\ watched \in BOOLEAN /\ missed \in BOOLEAN
  /\ events \in Seq({"write", "remove", "chmod"})
  /\ reload \in {"none", "idle", "read", "swap"} /\ edits \in 0 .. MaxEdits
  /\ seen \subseteq Contents

\* "Close forcibly closes the http server" (server.go:204): a call of Close that
\* returned nil while the server runs is possible only after one that came
\* before GoServe and reported it, in particular one that raced with Start:
\* it has used up closeOnce (server.go:205-218).
SilentCloseHasCause ==
  (\E c \in Closers : closer[c] = "over" /\ closeRet[c] = "nil") /\ ~inShutdown =>
    \E d \in Closers : closeRet[d] = "notStarted"

\* When Start has failed or Wait has returned no listener is left open, with one
\* exception in the code: StartContext without a context listens and then fails
\* (http_server.go:46-48).  And Wait returns nil only if the server was told to
\* stop, never for an error of Accept (http_server.go:45-87, server.go:178-202).
ReturnsClosed ==
  /\ pc \in {"done", "fatal"} => listener # "open" \/ waitRet = "noContext"
  /\ waitRet = "nil" => inShutdown /\ (stopped \/ \E c \in Closers : closeRet[c] = "nil")

\* "This file will be automatically reloaded on change" (main.go:134).  The
\* table is always one the file held as a whole, up to the user of --auth: a
\* half written or broken file, read at any moment, changes nothing.  And when no
\* event waits and no reload is under way it is the file's, unless the change
\* came between the first load and the watch, or as a new file renamed onto the
\* path (users.go:87-158).
TableFollowsFile ==
  /\ pc \notin {"load", "fatal"} => \E t \in seen : users \in {t, t \cup {AuthUser}}
  /\ reload = "idle" /\ events = <<>> /\ file # Broken /\ ~missed =>
       users \in {file, file \cup {AuthUser}}

\* An interrupt ends Wait, in whichever step of Start it comes and whatever
\* calls of Close it meets, and then no listener is left open
\* (http_server.go:45-87, server.go:178-218, common.go:12-21).
InterruptEndsWait == stopped ~> (pc \in {"done", "fatal"} /\ listener # "open")
=============================================================================
