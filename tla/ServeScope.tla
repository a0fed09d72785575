------------------------------- MODULE ServeScope -------------------------------
(***************************************************************************)
(* One call of Server.Serve or Server.HandleConn and everything that runs  *)
(* inside it: the calling goroutine (accept loop, shutdown, force), the    *)
(* context.AfterFunc watch that stops accepting, one handleConn goroutine  *)
(* per admitted connection, and its handshake and maximum-lifetime timers. *)
(*                                                                         *)
(* Sources: lifecycle.go (serveContext, activeConn) and server.go          *)
(* (prepare, Serve, HandleConn, handleConn around its channel loop).  A    *)
(* critical section of serveContext.mu is one atomic action; so is one Add *)
(* on the atomic counter authenticatedConnections.  What happens between   *)
(* two sections happens in an action of its own.                           *)
(***************************************************************************)
EXTENDS StartupPolicy, FiniteSets

CONSTANTS
  Conns,             \* the network connections that may arrive
  Entries,           \* which of the APIs may be called: "Serve" and "HandleConn"
  MaxStartups,       \* Server.MaxStartups, a pointer
  MaxConnections,    \* Server.MaxConnections, a pointer
  Wrappers,          \* which of "proxy" (ProxyProtocol) and "callback" (ConnCallback) are set
  HandshakeTimeout,  \* TRUE iff the effective handshake timeout is positive
  MaxTimeout,        \* TRUE iff the effective maximum connection lifetime is positive
  DisconnectCallback, \* TRUE iff Server.DisconnectCallback is set
  Settings, Counts   \* the settings of MaxStartups and the numbers of unauthenticated
                     \* connections for which DropRateRises is evaluated

ASSUME ConnsFinite == IsFiniteSet(Conns)
ASSUME EntriesAssumption == Entries \subseteq {"Serve", "HandleConn"}
ASSUME LimitAssumption == MaxConnections = Nil \/ MaxConnections[1] \in Int
ASSUME StartupsAssumption ==
  MaxStartups = Nil \/ MaxStartups[1] \in [Start : Int, Rate : Int, Full : Int]
ASSUME SettingsAssumption ==
  /\ \A config \in Settings : config = Nil \/ config[1] \in [Start : Int, Rate : Int, Full : Int]
  /\ Counts \subseteq Nat
ASSUME OptionsAssumption ==
  /\ Wrappers \subseteq {"proxy", "callback"}
  /\ HandshakeTimeout \in BOOLEAN /\ MaxTimeout \in BOOLEAN
  /\ DisconnectCallback \in BOOLEAN

VARIABLES
  \* the API that was called, the caller's context, its listener, and
  \* Server.prepareDone / prepareErr
  entry, ctxDone, listenerOpen, prepared,
  \* serveContext
  stopping, forced, drained,
  connections,     \* the keys of serveContext.connections
  startups,        \* serveContext.startups
  authenticated,   \* serveContext.authenticatedConnections
  watch,           \* the context.AfterFunc that newServeContext registers
  \* activeConn, one field each (the set of connections whose flag is set)
  handshaking, startupReserved, closed, cancelSet,
  transport,       \* the layer that active.transports holds
  \* handleConn's goroutine, its context, its timers and the transport under it
  pc, layer, reserved, cause, handshakeTimer, maxTimer, open, broken, resClosed,
  \* the goroutine that called Serve or HandleConn
  main, cur, acceptErr, cleanups

outerVars  == <<entry, ctxDone, listenerOpen, prepared>>
scopeVars  == <<stopping, forced, drained, connections, startups>>
activeVars == <<handshaking, startupReserved, closed, cancelSet, transport>>
timerVars  == <<handshakeTimer, maxTimer>>
connVars   == <<pc, layer, reserved, cause, timerVars, open, broken, resClosed>>
mainVars   == <<main, cur, acceptErr, cleanups>>
vars == <<outerVars, scopeVars, authenticated, watch, activeVars, connVars, mainVars>>

--------------------------------------------------------------------------------
Startups == effectiveMaxStartups(MaxStartups)
ConnectionLimit == configuredLimit(MaxConnections, DefaultMaxConnections)

\* Layer 0 is the accepted net.Conn, 1 the PROXY protocol wrapper, 2 the
\* connection ConnCallback returned.  Closing a wrapper closes what it wraps.
Layers == 0..2

Causes == {"none", "canceled", "handshakeTimeout", "maxTimeout", "forced"}
TimerStates == {"off", "armed", "expired", "over"}

HandlerPCs == {"idle", "start", "proxy", "proxyUpdate", "callback", "callbackUpdate",
               "handshake", "reserve", "undo", "rejected", "established", "stopTimer",
               "serving", "ending", "closeAll", "untrack", "delete", "workers",
               "disconnect", "release", "userCallback", "exit", "done"}

MainPCs == {"prepare", "accept", "track", "dispatch", "retry", "await", "stopAccepting",
            "closeListener", "graceHandler", "draining", "forceStop", "forceClose",
            "forceLock", "cleanup", "cleanupClose", "cleanupResources", "returned"}

\* The stages in which the transport still carries the handshake deadline.
HandshakeStages == {"start", "proxy", "proxyUpdate", "callback", "callbackUpdate",
                    "handshake", "reserve", "undo", "rejected", "established", "stopTimer"}

\* Where handleConn goes when it has finished the stage `after`.
NextStage(after) ==
  IF after = "start" /\ "proxy" \in Wrappers THEN "proxy"
  ELSE IF after # "callback" /\ "callback" \in Wrappers THEN "callback"
  ELSE "handshake"

\* The value of cause after a context.CancelCauseFunc call: the first cause wins.
CancelCause(c, why) == [cause EXCEPT ![c] = IF @ = "none" THEN why ELSE @]

CloseLayer(c, k) == [open EXCEPT ![c] = @ \ (0..k)]

\* time.Timer.Stop: without effect once the timer's function has started.
StopTimer(timer, c) == [timer EXCEPT ![c] = IF @ = "armed" THEN "over" ELSE @]

\* Reads on the transport of c fail.
Dead(c) == ~ (0..layer[c] \subseteq open[c]) \/ c \in broken

\* maybeCloseDrainedLocked: the value of drained at the end of a section that
\* leaves `stop` in stopping and `conns` in connections.
maybeCloseDrained(stop, conns) == drained \/ (stop /\ conns = {})

Init ==
  /\ entry \in Entries
  /\ ctxDone \in BOOLEAN /\ listenerOpen = (entry = "Serve") /\ prepared = "running"
  /\ stopping = FALSE /\ forced = FALSE /\ drained = FALSE
  /\ connections = {} /\ startups = 0 /\ authenticated = 0 /\ watch = "off"
  /\ handshaking = {} /\ startupReserved = {} /\ closed = {} /\ cancelSet = {}
  /\ transport = [c \in Conns |-> 0]
  /\ pc = [c \in Conns |-> "idle"] /\ layer = [c \in Conns |-> 0] /\ reserved = {}
  /\ cause = [c \in Conns |-> "none"]
  /\ handshakeTimer = [c \in Conns |-> "off"] /\ maxTimer = [c \in Conns |-> "off"]
  /\ broken = {} /\ resClosed = {}
  /\ main = "prepare" /\ acceptErr = "none" /\ cleanups = {}
  \* HandleConn is called with a connection, Serve has accepted none yet.
  /\ IF entry = "Serve" THEN cur = {} ELSE \E c \in Conns : cur = {c}
  /\ open = [c \in Conns |-> IF c \in cur THEN {0} ELSE {}]

--------------------------------------------------------------------------------
(* The world outside the scope. *)

ContextCanceled ==
  /\ ~ctxDone
  /\ ctxDone' = TRUE
  /\ UNCHANGED <<entry, listenerOpen, prepared, scopeVars, authenticated, watch, activeVars,
                 connVars, mainVars>>

\* The application may close the listener it handed to Serve.
ListenerClosed ==
  /\ listenerOpen
  /\ listenerOpen' = FALSE
  /\ UNCHANGED <<entry, ctxDone, prepared, scopeVars, authenticated, watch, activeVars,
                 connVars, mainVars>>

\* The goroutine prepareOnce starts: it loads or generates the host key.
PrepareFinishes ==
  /\ prepared = "running"
  /\ prepared' \in {"ready", "failed"}
  /\ UNCHANGED <<entry, ctxDone, listenerOpen, scopeVars, authenticated, watch, activeVars,
                 connVars, mainVars>>

\* The peer goes away, or the transport's read deadline passes.
TransportFails(c) ==
  /\ open[c] # {} /\ c \notin broken
  /\ broken' = broken \cup {c}
  /\ UNCHANGED <<outerVars, scopeVars, authenticated, watch, activeVars, pc, layer, reserved,
                 cause, timerVars, open, resClosed, mainVars>>

--------------------------------------------------------------------------------
(* The AfterFunc watch: stopAccepting, a section and then closeListener. *)

StopAcceptingSection ==
  /\ stopping' = TRUE
  /\ drained' = maybeCloseDrained(TRUE, connections)
  /\ UNCHANGED <<forced, connections, startups>>

WatchStops ==
  /\ watch = "armed" /\ ctxDone
  /\ watch' = "closing"
  /\ StopAcceptingSection
  /\ UNCHANGED <<outerVars, authenticated, activeVars, connVars, mainVars>>

\* Fault: the watch marks the scope but leaves the listener open.
WatchCloses_NoClose ==
  /\ watch = "closing"
  /\ watch' = "over"
  /\ UNCHANGED <<outerVars, scopeVars, authenticated, activeVars, connVars, mainVars>>

WatchCloses ==
  /\ watch = "closing"
  /\ watch' = "over"
  /\ listenerOpen' = FALSE
  /\ UNCHANGED <<entry, ctxDone, prepared, scopeVars, authenticated, activeVars, connVars, mainVars>>

--------------------------------------------------------------------------------
(* The goroutine that called Serve or HandleConn. *)

\* Serve and HandleConn return; the deferred finish() stops an AfterFunc that
\* has not started.
Return == main' = "returned" /\ watch' = IF watch = "armed" THEN "over" ELSE watch

\* newServeContext after a successful prepare.
PrepareReady ==
  /\ main = "prepare" /\ prepared = "ready"
  /\ main' = IF entry = "Serve" THEN "accept" ELSE "track"
  /\ watch' = "armed"
  /\ UNCHANGED <<outerVars, scopeVars, authenticated, activeVars, connVars, cur,
                 acceptErr, cleanups>>

\* prepare failed, or ctx was done first: the listener and the connection passed
\* to HandleConn are closed and nothing else ever starts.
PrepareFails ==
  /\ main = "prepare" /\ (prepared = "failed" \/ ctxDone)
  /\ Return
  /\ listenerOpen' = FALSE
  /\ open' = [c \in Conns |-> IF c \in cur THEN {} ELSE open[c]]
  /\ cur' = {}
  /\ UNCHANGED <<entry, ctxDone, prepared, scopeVars, authenticated, activeVars, pc, layer, reserved,
                 cause, timerVars, broken, resClosed, acceptErr, cleanups>>

Accept(c) ==
  /\ main = "accept" /\ listenerOpen
  /\ pc[c] = "idle"
  /\ main' = "track" /\ cur' = {c}
  /\ open' = [open EXCEPT ![c] = {0}]
  /\ UNCHANGED <<outerVars, scopeVars, authenticated, watch, activeVars, pc, layer, reserved,
                 cause, timerVars, broken, resClosed, acceptErr, cleanups>>

\* Accept returned an error; with ctx done Serve shuts down, otherwise it asks
\* the error handler.
AcceptFails ==
  /\ main = "accept"
  /\ main' = IF ctxDone THEN "stopAccepting" ELSE "dispatch"
  /\ acceptErr' = IF listenerOpen THEN "transient" ELSE "closed"
  /\ UNCHANGED <<outerVars, scopeVars, authenticated, watch, activeVars, connVars, cur,
                 cleanups>>

\* dispatchError returns what the ErrorHandler or the default action decided, if it
\* ever does; Serve then looks at ctx again.
DispatchReturns(canContinue, filteredErr) ==
  /\ main = "dispatch"
  /\ main' = CASE ctxDone -> "stopAccepting"
               [] ~ctxDone /\ ~filteredErr /\ canContinue /\ acceptErr # "closed" -> "retry"
               [] OTHER -> "forceStop"
  /\ UNCHANGED <<outerVars, scopeVars, authenticated, watch, activeVars, connVars, cur,
                 acceptErr, cleanups>>

\* Fault: the ErrorHandler is called by the accept loop itself.
DispatchAbandoned_Calls == FALSE

\* dispatchError, which runs the ErrorHandler on a goroutine of its own, leaves it
\* behind when ctx is done.
DispatchAbandoned ==
  /\ main = "dispatch" /\ ctxDone
  /\ main' = "stopAccepting"
  /\ UNCHANGED <<outerVars, scopeVars, authenticated, watch, activeVars, connVars, cur,
                 acceptErr, cleanups>>

\* waitForRetry: the delay passes, or ctx is done.
Retry ==
  /\ main = "retry"
  /\ \/ main' = "accept"
     \/ ctxDone /\ main' = "stopAccepting"
  /\ UNCHANGED <<outerVars, scopeVars, authenticated, watch, activeVars, connVars, cur,
                 acceptErr, cleanups>>

\* trackConnection turns the connection away: the scope is stopping, or the
\* startup policy drops it.
TrackRefuses(c) ==
  /\ main = "track" /\ c \in cur
  /\ stopping \/ MayDrop(maxStartupsDropRate(startups, Startups))
  /\ open' = CloseLayer(c, 0)
  /\ pc' = [pc EXCEPT ![c] = "done"]
  /\ cur' = {}
  /\ IF entry = "Serve" THEN main' = "accept" /\ UNCHANGED watch
     ELSE IF ctxDone THEN main' = "stopAccepting" /\ UNCHANGED watch
     ELSE Return
  /\ UNCHANGED <<outerVars, scopeVars, authenticated, activeVars, layer, reserved, cause,
                 timerVars, broken, resClosed, acceptErr, cleanups>>

\* trackConnection admits it and handleConn's goroutine starts.
TrackAdmits(c) ==
  /\ main = "track" /\ c \in cur
  /\ ~stopping /\ MayAdmit(maxStartupsDropRate(startups, Startups))
  /\ connections' = connections \cup {c}
  /\ handshaking' = handshaking \cup {c}
  /\ startupReserved' = IF Startups.Full > 0 THEN startupReserved \cup {c} ELSE startupReserved
  /\ startups' = IF Startups.Full > 0 THEN startups + 1 ELSE startups
  /\ pc' = [pc EXCEPT ![c] = "start"]
  /\ main' = IF entry = "Serve" THEN "accept" ELSE "await"
  /\ cur' = IF entry = "Serve" THEN {} ELSE cur
  /\ UNCHANGED <<outerVars, stopping, forced, drained, authenticated, watch, closed, cancelSet,
                 transport, layer, reserved, cause, timerVars, open, broken, resClosed,
                 acceptErr, cleanups>>

\* HandleConn's select: the goroutine's result wins over a canceled ctx.
AwaitReturns ==
  /\ main = "await"
  /\ \E c \in cur : pc[c] = "done"
  /\ Return
  /\ UNCHANGED <<outerVars, scopeVars, authenticated, activeVars, connVars, cur, acceptErr,
                 cleanups>>

\* Fault: the select has no case for ctx, only the result is awaited.
AwaitCanceled_Never == AwaitReturns

AwaitCanceled ==
  /\ main = "await" /\ ctxDone
  /\ \E c \in cur : pc[c] # "done"
  /\ main' = "stopAccepting"
  /\ UNCHANGED <<outerVars, scopeVars, authenticated, watch, activeVars, connVars, cur,
                 acceptErr, cleanups>>

--------------------------------------------------------------------------------
(* shutdown and force. *)

\* A step of the main goroutine that changes nothing but its place.
MainGoes(from, to) ==
  /\ main = from /\ main' = to
  /\ UNCHANGED <<outerVars, scopeVars, authenticated, watch, activeVars, connVars, cur,
                 acceptErr, cleanups>>

\* stopAccepting, called by shutdown and again by force.
MainStops(from, to) ==
  /\ main = from /\ main' = to
  /\ StopAcceptingSection
  /\ UNCHANGED <<outerVars, authenticated, watch, activeVars, connVars, cur, acceptErr,
                 cleanups>>

MainCloses(from, to) ==
  /\ main = from /\ main' = to
  /\ listenerOpen' = FALSE
  /\ UNCHANGED <<entry, ctxDone, prepared, scopeVars, authenticated, watch, activeVars, connVars, cur,
                 acceptErr, cleanups>>

ShutdownStops  == MainStops("stopAccepting", "closeListener")
ShutdownCloses == MainCloses("closeListener", "graceHandler")
ForceStops     == MainStops("forceStop", "forceClose")
ForceCloses    == MainCloses("forceClose", "forceLock")

\* GracefulShutdownHandler grants a positive period; or it is nil, fails, or
\* grants none.
GraceGranted == MainGoes("graceHandler", "draining")
GraceDenied  == MainGoes("graceHandler", "forceStop")

\* The select in shutdown: the scope drained, or the period is over and the
\* connections are counted under the lock.
Drained ==
  /\ main = "draining" /\ drained
  /\ Return
  /\ UNCHANGED <<outerVars, scopeVars, authenticated, activeVars, connVars, cur, acceptErr,
                 cleanups>>

\* Fault: after the grace period shutdown returns without counting.
GraceExpires_Unchecked ==
  /\ main = "draining"
  /\ Return
  /\ UNCHANGED <<outerVars, scopeVars, authenticated, activeVars, connVars, cur, acceptErr,
                 cleanups>>

GraceExpires ==
  /\ main = "draining"
  /\ IF connections = {} THEN Return ELSE main' = "forceStop" /\ UNCHANGED watch
  /\ UNCHANGED <<outerVars, scopeVars, authenticated, activeVars, connVars, cur, acceptErr,
                 cleanups>>

\* Fault: the slots are subtracted but startupReserved stays set.
ForceLocks_KeepsFlag ==
  /\ main = "forceLock" /\ main' = "cleanup"
  /\ forced' = TRUE
  /\ closed' = closed \cup connections
  /\ startups' = startups - Cardinality(connections \cap startupReserved)
  /\ cleanups' = connections
  /\ connections' = {}
  /\ drained' = maybeCloseDrained(stopping, {})
  /\ UNCHANGED <<outerVars, stopping, authenticated, watch, handshaking, startupReserved,
                 cancelSet, transport, connVars, cur, acceptErr>>

\* force's section: every tracked connection is marked closed, gives back its
\* startup slot and is forgotten; what must still be closed is remembered in
\* cleanups.  updateCancel and updateConnection refuse a forgotten connection, so
\* cancelSet and transport keep the values the section saw.
\* Only the goroutine that called Serve or HandleConn forces, and only once.
ForceLocks ==
  /\ main = "forceLock" /\ main' = "cleanup"
  /\ forced' = TRUE
  /\ closed' = closed \cup connections
  /\ startups' = startups - Cardinality(connections \cap startupReserved)
  /\ startupReserved' = startupReserved \ connections
  /\ cleanups' = connections
  /\ connections' = {}
  /\ drained' = maybeCloseDrained(stopping, {})
  /\ UNCHANGED <<outerVars, stopping, authenticated, watch, handshaking, cancelSet, transport,
                 connVars, cur, acceptErr>>

CleanupCancels(c) ==
  /\ main = "cleanup" /\ c \in cleanups
  /\ main' = "cleanupClose" /\ cur' = {c}
  /\ cause' = IF c \in cancelSet THEN CancelCause(c, "forced") ELSE cause
  /\ UNCHANGED <<outerVars, scopeVars, authenticated, watch, activeVars, pc, layer, reserved,
                 timerVars, open, broken, resClosed, acceptErr, cleanups>>

\* Fault: force cancels a connection's context and leaves its transport open.
CleanupCloses_Skips(c) ==
  /\ main = "cleanupClose" /\ c \in cur
  /\ main' = "cleanupResources"
  /\ UNCHANGED <<outerVars, scopeVars, authenticated, watch, activeVars, connVars, cur,
                 acceptErr, cleanups>>

CleanupCloses(c) ==
  /\ main = "cleanupClose" /\ c \in cur
  /\ main' = "cleanupResources"
  /\ open' = CloseLayer(c, transport[c])
  /\ UNCHANGED <<outerVars, scopeVars, authenticated, watch, activeVars, pc, layer, reserved,
                 cause, timerVars, broken, resClosed, cur, acceptErr, cleanups>>

CleanupResources(c) ==
  /\ main = "cleanupResources" /\ c \in cur
  /\ main' = "cleanup"
  /\ resClosed' = resClosed \cup {c}
  /\ cleanups' = cleanups \ {c}
  /\ UNCHANGED <<outerVars, scopeVars, authenticated, watch, activeVars, pc, layer, reserved,
                 cause, timerVars, open, broken, cur, acceptErr>>

CleanupDone ==
  /\ main = "cleanup" /\ cleanups = {}
  /\ Return
  /\ UNCHANGED <<outerVars, scopeVars, authenticated, activeVars, connVars, cur, acceptErr,
                 cleanups>>

--------------------------------------------------------------------------------
(* The timers handleConn starts. *)

\* The handshake timer's function asks isHandshaking under the lock ...
HandshakeTimerChecks(c) ==
  /\ handshakeTimer[c] = "armed"
  /\ handshakeTimer' = [handshakeTimer EXCEPT ![c] = IF c \in handshaking THEN "expired" ELSE "over"]
  /\ UNCHANGED <<outerVars, scopeVars, authenticated, watch, activeVars, pc, layer, reserved,
                 cause, maxTimer, open, broken, resClosed, mainVars>>

\* ... and cancels the connection's context after it has let go of the lock.
HandshakeTimerCancels(c) ==
  /\ handshakeTimer[c] = "expired"
  /\ handshakeTimer' = [handshakeTimer EXCEPT ![c] = "over"]
  /\ cause' = CancelCause(c, "handshakeTimeout")
  /\ UNCHANGED <<outerVars, scopeVars, authenticated, watch, activeVars, pc, layer, reserved,
                 maxTimer, open, broken, resClosed, mainVars>>

MaxTimerCancels(c) ==
  /\ maxTimer[c] = "armed"
  /\ maxTimer' = [maxTimer EXCEPT ![c] = "over"]
  /\ cause' = CancelCause(c, "maxTimeout")
  /\ UNCHANGED <<outerVars, scopeVars, authenticated, watch, activeVars, pc, layer, reserved,
                 handshakeTimer, open, broken, resClosed, mainVars>>

--------------------------------------------------------------------------------
(* handleConn, one goroutine per admitted connection. *)

\* What no step of a handleConn goroutine touches.
HandlerFrame == UNCHANGED <<outerVars, watch, mainVars>>

Goes(c, from, to) == pc[c] = from /\ pc' = [pc EXCEPT ![c] = to]

\* updateCancel and updateConnection succeed only for a tracked connection.
StillTracked(c) == c \in connections /\ c \notin closed

\* updateCancel succeeds: the cancel function is published, the timers start.
UpdateCancel(c) ==
  /\ Goes(c, "start", NextStage("start"))
  /\ StillTracked(c)
  /\ cancelSet' = cancelSet \cup {c}
  /\ handshakeTimer' = IF HandshakeTimeout THEN [handshakeTimer EXCEPT ![c] = "armed"] ELSE handshakeTimer
  /\ maxTimer' = IF MaxTimeout THEN [maxTimer EXCEPT ![c] = "armed"] ELSE maxTimer
  /\ HandlerFrame
  /\ UNCHANGED <<scopeVars, authenticated, handshaking, startupReserved, closed, transport,
                 layer, reserved, cause, open, broken, resClosed>>

\* updateCancel finds the connection forced out already.
UpdateCancelFails(c) ==
  /\ Goes(c, "start", "exit")
  /\ ~StillTracked(c)
  /\ open' = CloseLayer(c, layer[c])
  /\ HandlerFrame
  /\ UNCHANGED <<scopeVars, authenticated, activeVars, layer, reserved, cause, timerVars,
                 broken, resClosed>>

\* The PROXY protocol wrapper, or ConnCallback, returns a connection around the
\* current one, or the current one itself.
Wrap(c, from, to, k) ==
  /\ Goes(c, from, to)
  /\ layer' = [layer EXCEPT ![c] = k]
  /\ open' = [open EXCEPT ![c] = @ \cup ({k} \ {layer[c]})]
  /\ HandlerFrame
  /\ UNCHANGED <<scopeVars, authenticated, activeVars, reserved, cause, timerVars, broken,
                 resClosed>>

ProxyWraps(c)     == \E k \in {layer[c], 1} : Wrap(c, "proxy", "proxyUpdate", k)
CallbackReturns(c) == \E k \in {layer[c], 2} : Wrap(c, "callback", "callbackUpdate", k)

\* The wrapper or the callback fails and the connection is closed; only the
\* callback may also decline it without an error.
WrapFails(c) ==
  /\ pc[c] \in {"proxy", "callback"}
  /\ pc' \in {[pc EXCEPT ![c] = to] : to \in {"userCallback"} \cup (IF pc[c] = "callback" THEN {"exit"} ELSE {})}
  /\ open' = CloseLayer(c, layer[c])
  /\ HandlerFrame
  /\ UNCHANGED <<scopeVars, authenticated, activeVars, layer, reserved, cause, timerVars,
                 broken, resClosed>>

UpdateConnection(c, from, to) ==
  /\ Goes(c, from, to)
  /\ StillTracked(c)
  /\ transport' = [transport EXCEPT ![c] = layer[c]]
  /\ HandlerFrame
  /\ UNCHANGED <<scopeVars, authenticated, handshaking, startupReserved, closed, cancelSet,
                 layer, reserved, cause, timerVars, open, broken, resClosed>>

\* Fault: the goroutine leaves the connection it holds to force, which has only
\* closed the one it knew.
UpdateConnectionFails_NoClose(c) ==
  /\ pc[c] \in {"proxyUpdate", "callbackUpdate"}
  /\ ~StillTracked(c)
  /\ pc' = [pc EXCEPT ![c] = "exit"]
  /\ HandlerFrame
  /\ UNCHANGED <<scopeVars, authenticated, activeVars, layer, reserved, cause, timerVars,
                 open, broken, resClosed>>

\* force came first: it has closed the connection it knew, the goroutine closes
\* the one it holds.
UpdateConnectionFails(c) ==
  /\ pc[c] \in {"proxyUpdate", "callbackUpdate"}
  /\ ~StillTracked(c)
  /\ pc' = [pc EXCEPT ![c] = "exit"]
  /\ open' = CloseLayer(c, layer[c])
  /\ HandlerFrame
  /\ UNCHANGED <<scopeVars, authenticated, activeVars, layer, reserved, cause, timerVars,
                 broken, resClosed>>

ProxyUpdated(c)    == UpdateConnection(c, "proxyUpdate", NextStage("proxy"))
CallbackUpdated(c) == UpdateConnection(c, "callbackUpdate", NextStage("callback"))

\* NewServerConn returns an authenticated connection.
HandshakeSucceeds(c) ==
  /\ Goes(c, "handshake", "reserve")
  /\ ~Dead(c)
  /\ HandlerFrame
  /\ UNCHANGED <<scopeVars, authenticated, activeVars, layer, reserved, cause, timerVars,
                 open, broken, resClosed>>

\* The configuration, the authentication or the transport fails: the connection
\* is closed, which cancels its context, before the failure is reported.
HandshakeFails(c) ==
  /\ Goes(c, "handshake", "userCallback")
  /\ open' = CloseLayer(c, layer[c])
  /\ cause' = CancelCause(c, "canceled")
  /\ HandlerFrame
  /\ UNCHANGED <<scopeVars, authenticated, activeVars, layer, reserved, timerVars, broken,
                 resClosed>>

\* Fault: the old value of the counter is compared with the limit.
Reserve_OffByOne(c) ==
  /\ pc[c] = "reserve"
  /\ authenticated' = authenticated + 1
  /\ IF authenticated <= ConnectionLimit
       THEN reserved' = reserved \cup {c} /\ pc' = [pc EXCEPT ![c] = "established"]
       ELSE UNCHANGED reserved /\ pc' = [pc EXCEPT ![c] = "undo"]
  /\ HandlerFrame
  /\ UNCHANGED <<scopeVars, activeVars, layer, cause, timerVars, open, broken, resClosed>>

\* connectionLimiter.reserve: Add(1), compared with the limit.
Reserve(c) ==
  LET next == authenticated + 1 IN
  /\ pc[c] = "reserve"
  /\ IF ConnectionLimit <= 0
       THEN reserved' = reserved \cup {c} /\ pc' = [pc EXCEPT ![c] = "established"] /\ UNCHANGED authenticated
     ELSE IF next <= ConnectionLimit
       THEN reserved' = reserved \cup {c} /\ pc' = [pc EXCEPT ![c] = "established"] /\ authenticated' = next
     ELSE UNCHANGED reserved /\ pc' = [pc EXCEPT ![c] = "undo"] /\ authenticated' = next
  /\ HandlerFrame
  /\ UNCHANGED <<scopeVars, activeVars, layer, cause, timerVars, open, broken, resClosed>>

\* The limit was passed: the Add(-1) that takes the attempt back.
ReserveUndo(c) ==
  /\ Goes(c, "undo", "rejected")
  /\ authenticated' = authenticated - 1
  /\ HandlerFrame
  /\ UNCHANGED <<scopeVars, activeVars, layer, reserved, cause, timerVars, open, broken,
                 resClosed>>

\* The deferred functions of a connection over the limit close it.
Rejected(c) ==
  /\ Goes(c, "rejected", IF DisconnectCallback THEN "userCallback" ELSE "exit")
  /\ open' = CloseLayer(c, layer[c])
  /\ cause' = CancelCause(c, "canceled")
  /\ HandlerFrame
  /\ UNCHANGED <<scopeVars, authenticated, activeVars, layer, reserved, timerVars, broken,
                 resClosed>>

\* Fault: startupReserved is not consulted, so a slot can be given back twice.
ReleaseStartup_Twice(c, from, to) ==
  /\ Goes(c, from, to)
  /\ handshaking' = handshaking \ {c}
  /\ startups' = startups - 1
  /\ startupReserved' = startupReserved \ {c}
  /\ HandlerFrame
  /\ UNCHANGED <<stopping, forced, drained, connections, authenticated, closed, cancelSet,
                 transport, layer, reserved, cause, timerVars, open, broken, resClosed>>

\* releaseStartup's section, from handleConn and from untrackConnection.
ReleaseStartup(c, from, to) ==
  /\ Goes(c, from, to)
  /\ handshaking' = handshaking \ {c}
  /\ startups' = IF c \in startupReserved THEN startups - 1 ELSE startups
  /\ startupReserved' = startupReserved \ {c}
  /\ HandlerFrame
  /\ UNCHANGED <<stopping, forced, drained, connections, authenticated, closed, cancelSet,
                 transport, layer, reserved, cause, timerVars, open, broken, resClosed>>

Established(c) == ReleaseStartup(c, "established", "stopTimer")
Untrack(c)     == ReleaseStartup(c, "untrack", "delete")

StopHandshakeTimer(c) ==
  /\ Goes(c, "stopTimer", "serving")
  /\ handshakeTimer' = StopTimer(handshakeTimer, c)
  /\ HandlerFrame
  /\ UNCHANGED <<scopeVars, authenticated, activeVars, layer, reserved, cause, maxTimer, open,
                 broken, resClosed>>

\* A channel or request worker closes the connection after an error.
WorkerCloses(c) ==
  /\ pc[c] = "serving" /\ open[c] # {}
  /\ open' = CloseLayer(c, layer[c])
  /\ cause' = CancelCause(c, "canceled")
  /\ HandlerFrame
  /\ UNCHANGED <<scopeVars, authenticated, activeVars, pc, layer, reserved, timerVars, broken,
                 resClosed>>

\* The channel of incoming SSH channels is closed: the loop ends.
LoopEnds(c) ==
  /\ Goes(c, "serving", "ending")
  /\ Dead(c)
  /\ HandlerFrame
  /\ UNCHANGED <<scopeVars, authenticated, activeVars, layer, reserved, cause, timerVars, open,
                 broken, resClosed>>

\* cancel(), closeQuietly(sshConn).
EndConnection(c) ==
  /\ Goes(c, "ending", "closeAll")
  /\ open' = CloseLayer(c, layer[c])
  /\ cause' = CancelCause(c, "canceled")
  /\ HandlerFrame
  /\ UNCHANGED <<scopeVars, authenticated, activeVars, layer, reserved, timerVars, broken,
                 resClosed>>

\* active.resources.closeAll().
CloseResources(c) ==
  /\ Goes(c, "closeAll", "untrack")
  /\ resClosed' = resClosed \cup {c}
  /\ HandlerFrame
  /\ UNCHANGED <<scopeVars, authenticated, activeVars, layer, reserved, cause, timerVars, open,
                 broken>>

\* untrackConnection's second section.
Delete(c) ==
  /\ Goes(c, "delete", IF c \in reserved THEN "workers" ELSE "done")
  /\ connections' = connections \ {c}
  /\ drained' = maybeCloseDrained(stopping, connections \ {c})
  /\ HandlerFrame
  /\ UNCHANGED <<stopping, forced, startups, authenticated, activeVars, layer, reserved, cause,
                 timerVars, open, broken, resClosed>>

\* workers.closeAndWait() returned: the application's handlers are done.
WorkersDone(c) ==
  /\ Goes(c, "workers", IF DisconnectCallback THEN "disconnect" ELSE "release")
  /\ HandlerFrame
  /\ UNCHANGED <<scopeVars, authenticated, activeVars, layer, reserved, cause, timerVars, open,
                 broken, resClosed>>

DisconnectReturns(c) ==
  /\ Goes(c, "disconnect", "release")
  /\ HandlerFrame
  /\ UNCHANGED <<scopeVars, authenticated, activeVars, layer, reserved, cause, timerVars, open,
                 broken, resClosed>>

\* The deferred connectionLimiter.release() and the timers' deferred Stop.
ReleaseSlot(c) ==
  /\ Goes(c, "release", "done")
  /\ authenticated' = IF ConnectionLimit > 0 THEN authenticated - 1 ELSE authenticated
  /\ reserved' = reserved \ {c}
  /\ handshakeTimer' = StopTimer(handshakeTimer, c)
  /\ maxTimer' = StopTimer(maxTimer, c)
  /\ HandlerFrame
  /\ UNCHANGED <<scopeVars, activeVars, layer, cause, open, broken, resClosed>>

\* ConnectionFailedCallback and the error handler, or the DisconnectCallback of
\* a rejected connection, return.
UserCallbackReturns(c) ==
  /\ Goes(c, "userCallback", "exit")
  /\ HandlerFrame
  /\ UNCHANGED <<scopeVars, authenticated, activeVars, layer, reserved, cause, timerVars, open,
                 broken, resClosed>>

\* The deferred functions of a connection that never served: stop the timers,
\* cancel the context, then untrackConnection.  (A rejected connection with a
\* DisconnectCallback is untracked first; its context is canceled already and
\* releaseStartup ends the handshake, so its timers change nothing any more.)
Exit(c) ==
  /\ Goes(c, "exit", "untrack")
  /\ handshakeTimer' = StopTimer(handshakeTimer, c)
  /\ maxTimer' = StopTimer(maxTimer, c)
  /\ cause' = CancelCause(c, "canceled")
  /\ HandlerFrame
  /\ UNCHANGED <<scopeVars, authenticated, activeVars, layer, reserved, open, broken,
                 resClosed>>

--------------------------------------------------------------------------------
\* What the calling goroutine does by itself, once Accept has returned or is bound to.
MainStep ==
  \/ PrepareReady \/ PrepareFails
  \/ ~listenerOpen /\ AcceptFails
  \/ DispatchAbandoned \/ Retry
  \/ \E c \in Conns : TrackRefuses(c) \/ TrackAdmits(c)
  \/ AwaitReturns \/ AwaitCanceled
  \/ ShutdownStops \/ ShutdownCloses
  \/ GraceGranted \/ GraceDenied \/ Drained \/ GraceExpires
  \/ ForceStops \/ ForceCloses \/ ForceLocks
  \/ \E c \in Conns : CleanupCancels(c) \/ CleanupCloses(c) \/ CleanupResources(c)
  \/ CleanupDone

WatchStep == WatchStops \/ WatchCloses

\* Steps of a handleConn goroutine that wait for nothing.
HandlerStep(c) ==
  \/ UpdateCancel(c) \/ UpdateCancelFails(c)
  \/ ProxyUpdated(c) \/ CallbackUpdated(c) \/ UpdateConnectionFails(c)
  \/ Reserve(c) \/ ReserveUndo(c) \/ Rejected(c)
  \/ Established(c) \/ StopHandshakeTimer(c)
  \/ LoopEnds(c) \/ EndConnection(c) \/ CloseResources(c)
  \/ Untrack(c) \/ Delete(c) \/ ReleaseSlot(c) \/ Exit(c)

\* Steps in which the goroutine waits for the peer or for application code.
OutsideStep(c) ==
  \/ ProxyWraps(c) \/ CallbackReturns(c) \/ WrapFails(c)
  \/ HandshakeSucceeds(c) \/ HandshakeFails(c)
  \/ UserCallbackReturns(c) \/ WorkersDone(c) \/ DisconnectReturns(c)

TimerStep(c) == HandshakeTimerChecks(c) \/ HandshakeTimerCancels(c) \/ MaxTimerCancels(c)

\* Nothing is left to do; the behaviour may stop here.
Terminated ==
  /\ main = "returned" /\ watch \in {"off", "over"}
  /\ \A c \in Conns : pc[c] \in {"idle", "done"}
  /\ UNCHANGED vars

Next ==
  \/ ContextCanceled \/ ListenerClosed \/ PrepareFinishes
  \/ \E c \in Conns : TransportFails(c)
  \/ WatchStep
  \/ MainStep
  \/ AcceptFails
  \/ \E c \in Conns : Accept(c)
  \/ \E canContinue, filteredErr \in BOOLEAN : DispatchReturns(canContinue, filteredErr)
  \/ \E c \in Conns : HandlerStep(c) \/ OutsideStep(c) \/ TimerStep(c) \/ WorkerCloses(c)
  \/ Terminated

Spec == Init /\ [][Next]_vars

(***************************************************************************)
(* Fairness.  Goroutines that wait for nothing, or in a select one branch  *)
(* of which is ready, run (Go's scheduler); an Accept on a closed listener *)
(* returns, and the grace period ends.  Application callbacks are assumed  *)
(* to return only once the transport they work on is dead; a handler that  *)
(* blocks on a live connection may block for ever.  Nothing is assumed of  *)
(* arrivals, of the peer, of cancellation, or of the timers and deadlines  *)
(* of a connection; and the ErrorHandler the accept loop asks need never   *)
(* return.                                                                 *)
(***************************************************************************)
Fairness ==
  /\ WF_vars(MainStep) /\ WF_vars(WatchStep)
  /\ \A c \in Conns :
       WF_vars(HandlerStep(c)) /\ WF_vars(Dead(c) /\ OutsideStep(c))

FairSpec == Spec /\ Fairness

--------------------------------------------------------------------------------
\* The sets the variables range over.
StateTypes ==
  /\ entry \in {"Serve", "HandleConn"} /\ ctxDone \in BOOLEAN /\ listenerOpen \in BOOLEAN
  /\ stopping \in BOOLEAN /\ forced \in BOOLEAN /\ drained \in BOOLEAN
  /\ prepared \in {"running", "ready", "failed"}
  /\ watch \in {"off", "armed", "closing", "over"}
  /\ connections \subseteq Conns /\ handshaking \subseteq Conns
  /\ startupReserved \subseteq Conns /\ closed \subseteq Conns /\ cancelSet \subseteq Conns
  /\ reserved \subseteq Conns /\ broken \subseteq Conns /\ resClosed \subseteq Conns
  /\ cur \subseteq Conns /\ cleanups \subseteq Conns
  /\ startups \in Int /\ authenticated \in Int
  /\ transport \in [Conns -> Layers] /\ layer \in [Conns -> Layers]
  /\ open \in [Conns -> SUBSET Layers]
  /\ pc \in [Conns -> HandlerPCs]
  /\ cause \in [Conns -> Causes]
  /\ handshakeTimer \in [Conns -> TimerStates] /\ maxTimer \in [Conns -> TimerStates]
  /\ main \in MainPCs /\ acceptErr \in {"none", "transient", "closed"}

\* The type invariant: the sets above, and neither counter is ever negative, so
\* nothing a connection reserves is given back twice.
TypeOK == StateTypes /\ startups \in Nat /\ authenticated \in Nat

\* startups counts exactly the tracked connections that hold a startup slot, and
\* never exceeds MaxStartups.Full, although force, a failing handshake, a
\* successful one and untrackConnection all give slots back.
StartupAccounting ==
  /\ startupReserved \subseteq connections
  /\ startups = Cardinality(startupReserved)
  /\ startups <= Startups.Full

\* The drained channel is closed only when accepting has stopped for good and no
\* connection is tracked, so shutdown never reports a drained scope that is not.
DrainedMeansEmpty == drained => stopping /\ connections = {}

\* The goroutines whose Add(1) passed the limit and is not taken back yet.
Undoing == {c \in Conns : pc[c] = "undo"}

\* The counter authenticatedConnections is the number of slot holders plus the
\* attempts not yet taken back, and no more than MaxConnections connections hold
\* a slot, although Add and its undo are separate steps.
AuthenticatedWithinLimit ==
  ConnectionLimit > 0 =>
    /\ Cardinality(reserved) <= ConnectionLimit
    /\ authenticated = Cardinality(reserved) + Cardinality(Undoing)

\* When Serve or HandleConn has returned, its listener and the network connection
\* of everything it admitted are closed, and so are the resources of every
\* connection that serves.
ReturnedClean ==
  main = "returned" =>
    /\ ~listenerOpen
    /\ \A c \in Conns : 0 \notin open[c]
    /\ reserved \subseteq resClosed

\* A handleConn goroutine that has ended has closed every layer of its transport,
\* the one ConnCallback returned while force was running included, and has
\* canceled the connection's context.
NothingLeftOpen ==
  \A c \in Conns : pc[c] = "done" =>
    /\ open[c] = {}
    /\ c \in cancelSet => cause[c] # "none"

\* The call as its documentation describes it: a connection is live from its
\* admission until its network connection is closed.
AbsPhase == IF main = "returned" THEN "returned" ELSE IF stopping THEN "stopped" ELSE "open"
AbsStatus == [c \in Conns |-> IF pc[c] = "idle" THEN "new"
                              ELSE IF 0 \in open[c] THEN "live" ELSE "over"]

Abstract == INSTANCE ServeAbstract WITH phase <- AbsPhase, status <- AbsStatus

\* Serve and HandleConn implement that description: every step of a goroutine,
\* a timer or the watch admits, refuses or ends one connection, stops the call,
\* returns from it, or is invisible.
ImplementsAbstract == Abstract!Spec

\* Once accepting has stopped no connection is added, stopping and drained stay
\* set, and a forgotten connection is never tracked again.
StoppedScopeOnlyShrinks ==
  [][ stopping => /\ stopping' /\ connections' \subseteq connections
                  /\ (drained => drained') ]_vars

\* Cancelling the caller's context makes Serve and HandleConn return, also when the
\* ErrorHandler that was asked about a failed Accept never does.
CancelReturns == ctxDone ~> main = "returned"

\* Whatever the setting of MaxStartups, the drop rate of trackConnection is a
\* percentage, is zero below Start, 100 from Full on, and rises in between along the
\* line that the setting describes.  It speaks of all settings and counts and is
\* evaluated once, before the call begins.
DropRateRises ==
  main = "prepare" /\ prepared = "running" => \A config \in Settings, n \in Counts : DropRateLine(config, n)
================================================================================
