----------------------------- MODULE SessionRequests -----------------------------
(***************************************************************************)
(* The requests of one session channel (session.go): handleRequests with   *)
(* its request timer, callbacks and their errors, the PTY and its window,  *)
(* the goroutine of startHandler and the end of DefaultSessionHandler,     *)
(* composed with the signals and breaks of SignalDelivery.                 *)
(*                                                                         *)
(* "start" stands for shell, exec and a subsystem that is answered at      *)
(* once; DeferredSubsystem has the other ones, and what startHandler does  *)
(* with a handler's error.  The requests of one of the Plays,              *)
(* or the first of them, come in.                                          *)
(***************************************************************************)
EXTENDS SignalDelivery

CONSTANTS
  Plays,       \* what a client requests, and which channels its handler registers
  Windows,     \* the sizes a client sends for its window, 0 for a side it leaves out
  MaxEnv,      \* maxSessionEnvVariables
  MaxEnvBytes, \* maxSessionEnvBytes
  EnvSizes     \* the bytes of an environment variable

ASSUME SessionAssumption ==
  /\ Callers = {"main", "helper"}   \* the handler, and a goroutine that calls Exit
  /\ \A p \in Plays : p.regs \in Seq([kind : Kinds, arg : Chans \cup {None}]) /\ Len(p.regs) <= MaxRegs
  /\ Windows \subseteq Nat \X Nat /\ EnvSizes \subseteq Nat /\ MaxEnv \in Nat /\ MaxEnvBytes \in Nat

VARIABLES
  script,      \* the requests of the client
  taken,       \* how many of them the loop has taken
  reqsClosed,  \* the client has closed the channel, or the connection is gone
  loop,        \* where handleRequests stands
  timer,       \* the function of requestTimer
  resolved,    \* requestResolved
  handled,
  env, envBytes, agent,
  pty,         \* a PTY was granted
  window,      \* its Window: width and height
  winch,       \* the channel winch, <<>> or <<a window>>
  seen,        \* the window the application received last
  handler,     \* where the goroutine of startHandler stands
  session,     \* DefaultSessionHandler
  connClosed   \* closeSSHConnection was called

requestVars == <<script, taken, reqsClosed>>
setupVars == <<handled, env, envBytes, agent>>
windowVars == <<pty, window, winch, seen>>
endVars == <<handler, session, connClosed>>
sessionVars == <<requestVars, loop, timer, resolved, setupVars, windowVars, endVars>>
vars == <<deliveryVars, sessionVars>>

NoWindow == <<0, 0>>

Init ==
  /\ DeliveryInit
  /\ \E p \in Plays : script = p.requests /\ regs = p.regs
  /\ taken = 0 /\ reqsClosed = FALSE
  /\ loop = "next" /\ timer \in {"armed", "stopped"} /\ resolved = FALSE
  /\ handled = FALSE /\ env = 0 /\ envBytes = 0 /\ agent = FALSE
  /\ pty = FALSE /\ window = NoWindow /\ winch = <<>> /\ seen = NoWindow
  /\ handler = "off" /\ session = "running" /\ connClosed = FALSE

--------------------------------------------------------------------------------
(* requestTimer. *)

\* Its function, if it was not stopped before: one CompareAndSwap against the loop.
TimerFires ==
  /\ timer = "armed"
  /\ timer' = IF resolved THEN "late" ELSE "closing"
  /\ resolved' = TRUE
  /\ UNCHANGED <<requestVars, loop, setupVars, windowVars, endVars, deliveryVars>>

TimerCloses ==
  /\ timer = "closing"
  /\ timer' = "closed" /\ chanClosed' = TRUE
  /\ UNCHANGED <<requestVars, loop, resolved, setupVars, windowVars, endVars,
                 ch, sigBuf, drain, send, configVars, exiting, exited, appVars, historyVars>>

Stopped == IF timer = "armed" THEN "stopped" ELSE timer

--------------------------------------------------------------------------------
(* handleRequests. *)
Takes(t) == loop = "next" /\ taken < Len(script) /\ script[taken + 1] = t /\ taken' = taken + 1

\* The loop goes on, or returns: then the timer is stopped and winch closed.
Goes(to) == loop' = to /\ timer' = IF to = "ended" THEN Stopped ELSE timer

\* A request that is malformed, beyond a limit, denied by its callback, or sent when
\* it is too late for it, is answered with failure and changes nothing.
RequestRefused ==
  /\ \E t \in {"start", "env", "pty-req", "window-change", "agent", "unknown"} : Takes(t)
  /\ UNCHANGED <<script, reqsClosed, loop, timer, resolved, setupVars, windowVars, endVars, deliveryVars>>

EnvSet ==
  /\ Takes("env") /\ ~handled
  /\ \E size \in EnvSizes :
       env < MaxEnv /\ envBytes + size <= MaxEnvBytes /\ env' = env + 1 /\ envBytes' = envBytes + size
  /\ UNCHANGED <<script, reqsClosed, loop, timer, resolved, handled, agent, windowVars, endVars, deliveryVars>>

\* The session request is well-formed, has a handler and is allowed.
StartAllowed ==
  /\ Takes("start") /\ ~handled
  /\ Goes("resolve")
  /\ UNCHANGED <<script, reqsClosed, resolved, setupVars, windowVars, endVars, deliveryVars>>

\* Fault: the timer's function is only stopped, not raced for requestResolved.
StartResolves_Stopped ==
  /\ loop = "resolve"
  /\ resolved' = TRUE /\ handled' = TRUE /\ loop' = "reply" /\ timer' = Stopped
  /\ UNCHANGED <<requestVars, env, envBytes, agent, windowVars, endVars, deliveryVars>>

\* The loop's CompareAndSwap: it returns when the timer was faster.
StartResolves ==
  /\ loop = "resolve"
  /\ resolved' = TRUE /\ handled' = (handled \/ ~resolved)
  /\ loop' = IF resolved THEN "ended" ELSE "reply"
  /\ timer' = Stopped
  /\ UNCHANGED <<requestVars, env, envBytes, agent, windowVars, endVars, deliveryVars>>

StartReplied ==
  /\ loop = "reply" /\ ~connClosed
  /\ Goes("next") /\ handler' = "running"
  /\ UNCHANGED <<requestVars, resolved, setupVars, windowVars, session, connClosed, deliveryVars>>

\* session.reply failed: the connection is closed and nothing is started.
StartReplyFails ==
  /\ loop = "reply"
  /\ Goes("ended") /\ connClosed' = TRUE
  /\ UNCHANGED <<requestVars, resolved, setupVars, windowVars, handler, session, deliveryVars>>

PtyGranted ==
  /\ Takes("pty-req") /\ ~handled /\ ~pty
  /\ pty' = TRUE /\ window' \in Windows /\ winch' = <<window'>>
  /\ UNCHANGED <<script, reqsClosed, loop, timer, resolved, setupVars, seen, endVars, deliveryVars>>

\* A side that is 0 keeps its size.
mergeWindow(current, update) == [side \in 1..2 |-> IF update[side] # 0 THEN update[side] ELSE current[side]]

\* Fault: the new size is dropped while an older one waits.
WindowChanged_Skips ==
  /\ Takes("window-change") /\ pty
  /\ \E update \in Windows : window' = mergeWindow(window, update)
  /\ winch' = IF winch = <<>> THEN <<window'>> ELSE winch
  /\ UNCHANGED <<script, reqsClosed, loop, timer, resolved, setupVars, pty, seen, endVars, deliveryVars>>

\* window-change: the new size goes into winch, or an older one has to be taken out
\* first, if nobody else does.
WindowChanged ==
  /\ Takes("window-change") /\ pty
  /\ \E update \in Windows : window' = mergeWindow(window, update)
  /\ IF winch = <<>> THEN winch' = <<window'>> /\ loop' = loop ELSE loop' = "winchFull" /\ winch' = winch
  /\ UNCHANGED <<script, reqsClosed, timer, resolved, setupVars, pty, seen, endVars, deliveryVars>>

WindowTakenOut ==
  /\ loop = "winchFull"
  /\ winch' = <<>> /\ loop' = "winchSend"
  /\ UNCHANGED <<requestVars, timer, resolved, setupVars, pty, window, seen, endVars, deliveryVars>>

WindowSent ==
  /\ loop = "winchSend"
  /\ winch' = <<window>> /\ loop' = "next"
  /\ UNCHANGED <<requestVars, timer, resolved, setupVars, pty, window, seen, endVars, deliveryVars>>

\* SetAgentRequested, and session.reply.
AgentAllowed(fails) ==
  /\ Takes("agent")
  /\ agent' = TRUE
  /\ Goes(IF fails \/ connClosed THEN "ended" ELSE "next") /\ connClosed' = (connClosed \/ fails)
  /\ UNCHANGED <<script, reqsClosed, resolved, handled, env, envBytes, windowVars, handler, session, deliveryVars>>

\* Fault: the loop returns without closing what it leaves.
CallbackErrorCloses_Keeps(filtered, responseFailed, closeRequested, canContinue, replyFails) ==
  CASE closeRequested -> "connection" [] ~canContinue \/ replyFails -> "nothing" [] OTHER -> "continue"

\* What handleCallbackError comes to.  filtered is the error the ErrorHandler
\* returned: none, only the failed response, or another one.
CallbackErrorCloses(filtered, responseFailed, closeRequested, canContinue, replyFails) ==
  CASE closeRequested \/ filtered = "other" -> "connection"
    [] replyFails \/ responseFailed \/ ~canContinue -> "session"
    [] OTHER -> "continue"

\* The callback of a session request, a PTY or the agent returned an error.  A
\* response that times out has closed the connection.
CallbackFails ==
  /\ \/ Takes("start") /\ ~handled
     \/ Takes("pty-req") /\ ~handled /\ ~pty
     \/ Takes("agent")
  /\ \E filtered \in {"nil", "response", "other"}, responseFailed, closeRequested, canContinue, replyFails, timeout \in BOOLEAN :
       LET closes == CallbackErrorCloses(filtered, responseFailed, closeRequested, canContinue, replyFails)
       IN /\ filtered = "response" \/ timeout => responseFailed
          /\ Goes(IF closes = "continue" THEN "next" ELSE "ended")
          /\ connClosed' = (connClosed \/ timeout \/ closes = "connection")
          /\ chanClosed' = (chanClosed \/ closes = "session")
  /\ UNCHANGED <<script, reqsClosed, resolved, setupVars, windowVars, handler, session,
                 ch, sigBuf, drain, send, configVars, exiting, exited, appVars, historyVars>>

\* signal and break, by SignalDelivery.
SignalMalformed ==
  /\ Takes("signal") /\ ReplyFree("signal")
  /\ UNCHANGED <<script, reqsClosed, loop, timer, resolved, setupVars, windowVars, endVars, deliveryVars>>

SignalWhileExiting ==
  /\ Takes("signal") /\ ReplyFree("signal") /\ exiting
  /\ Goes("ended")
  /\ UNCHANGED <<script, reqsClosed, resolved, setupVars, windowVars, endVars, deliveryVars>>

SignalBuffered ==
  /\ Takes("signal") /\ BufferSignal(taken')
  /\ UNCHANGED <<script, reqsClosed, loop, timer, resolved, setupVars, windowVars, endVars>>

BreakRefused ==
  /\ Takes("break") /\ ReplyFree("break") /\ ch["break"] = None
  /\ UNCHANGED <<script, reqsClosed, loop, timer, resolved, setupVars, windowVars, endVars, deliveryVars>>

SendBegins ==
  /\ \E k \in Kinds : Takes(k) /\ BeginSend(k, taken')
  /\ Goes("sending")
  /\ UNCHANGED <<script, reqsClosed, resolved, setupVars, windowVars, endVars>>

SendProceeds(Step) ==
  /\ loop = "sending" /\ Step
  /\ UNCHANGED sessionVars

\* The loop returns when the connection's context ended the delivery of a signal.
SendEnds ==
  /\ loop = "sending" /\ SendReplied
  /\ Goes(IF send.kind = "signal" /\ send.result = "context" THEN "ended" ELSE "next")
  /\ UNCHANGED <<requestVars, resolved, setupVars, windowVars, endVars>>

LoopEnds ==
  /\ loop = "next" /\ reqsClosed
  /\ Goes("ended")
  /\ UNCHANGED <<requestVars, resolved, setupVars, windowVars, endVars, deliveryVars>>

--------------------------------------------------------------------------------
(* The handler and the end of the session. *)

\* It returns, and its goroutine calls Exit unless the handler did, ...
HandlerReturns ==
  /\ handler = "running" /\ caller["main"] = NoCall
  /\ IF exited THEN handler' = "done" /\ UNCHANGED deliveryVars
     ELSE handler' = "exiting" /\ ExitBegins("main")
  /\ UNCHANGED <<requestVars, loop, timer, resolved, setupVars, windowVars, session, connClosed>>

\* ... which changes nothing when the handler's SessionExitError has a code that is out
\* of range: the refused code is all the ErrorHandler gets, and it may end the
\* connection; ...
HandlerRefused ==
  /\ handler = "running" /\ caller["main"] = NoCall /\ ~exited
  /\ handler' = "done"
  /\ \E escalates \in BOOLEAN : connClosed' = (connClosed \/ escalates)
  /\ UNCHANGED <<requestVars, loop, timer, resolved, setupVars, windowVars, session, deliveryVars>>

\* ... or only closes the session, when its ErrorHandler has had the connection closed.
HandlerCloses ==
  /\ handler = "running" /\ caller["main"] = NoCall
  /\ handler' = "done" /\ chanClosed' = TRUE /\ connClosed' = TRUE
  /\ UNCHANGED <<requestVars, loop, timer, resolved, setupVars, windowVars, session,
                 ch, sigBuf, drain, send, configVars, exiting, exited, appVars, historyVars>>

HandlerDone ==
  /\ handler = "exiting" /\ caller["main"] = NoCall
  /\ handler' = "done"
  /\ UNCHANGED <<requestVars, loop, timer, resolved, setupVars, windowVars, session, connClosed, deliveryVars>>

\* The handler calls Signals or Break, its helper Exit, also when the handler has
\* returned.
HandlerCalls ==
  /\ \/ handler = "running" /\ Register("main")
     \/ handler # "off" /\ ExitBegins("helper")
  /\ UNCHANGED sessionVars

WindowReceived ==
  /\ handler # "off" /\ winch # <<>>
  /\ seen' = Head(winch) /\ winch' = <<>>
  /\ UNCHANGED <<requestVars, loop, timer, resolved, setupVars, pty, window, endVars, deliveryVars>>

SessionReturns ==
  /\ session = "running" /\ loop = "ended" /\ handler \in {"off", "done"}
  /\ session' = "returned"
  /\ UNCHANGED <<requestVars, loop, timer, resolved, setupVars, windowVars, handler, connClosed, deliveryVars>>

ClientCloses ==
  /\ ~reqsClosed /\ reqsClosed' = TRUE
  /\ UNCHANGED <<script, taken, loop, timer, resolved, setupVars, windowVars, endVars, deliveryVars>>

--------------------------------------------------------------------------------
RequestStep ==
  \/ RequestRefused \/ EnvSet \/ StartAllowed \/ PtyGranted \/ WindowChanged \/ CallbackFails
  \/ \E fails \in BOOLEAN : AgentAllowed(fails)
  \/ SignalMalformed \/ SignalWhileExiting \/ SignalBuffered \/ BreakRefused \/ SendBegins

\* Steps of the loop that do not wait for the client or the application.
LoopStep ==
  \/ StartResolves \/ StartReplied \/ StartReplyFails \/ WindowTakenOut \/ WindowSent
  \/ SendProceeds(SendPanics \/ SendCanceled \/ SendContextDone \/ SendSettles) \/ SendEnds \/ LoopEnds

OwnDrainStep(d) == DrainTakes(d) \/ DrainHandsOver(d) \/ DrainGivesUp(d) \/ DrainContextDone(d) \/ DrainEnds(d)

Terminated == session = "returned" /\ UNCHANGED vars

Next ==
  \/ RequestStep \/ LoopStep \/ TimerFires \/ TimerCloses \/ SendProceeds(SendReceived)
  \/ \E d \in Drains : (OwnDrainStep(d) \/ DrainSends(d)) /\ UNCHANGED sessionVars
  \/ \E c \in Callers : ConfigStep(c) /\ UNCHANGED sessionVars
  \/ HandlerCalls
  \/ \E c \in Chans : AppCloses(c) /\ UNCHANGED sessionVars
  \/ ContextCanceled /\ UNCHANGED sessionVars
  \/ HandlerReturns \/ HandlerRefused \/ HandlerCloses \/ HandlerDone \/ WindowReceived \/ SessionReturns \/ ClientCloses
  \/ Terminated

Spec == Init /\ [][Next]_vars

\* Goroutines of the server that can run do.  The client need not send or close, the
\* application need not receive, call or return; a closed connection ends its context.
Fairness ==
  /\ WF_vars(LoopStep) /\ WF_vars(TimerCloses) /\ WF_vars(HandlerDone) /\ WF_vars(SessionReturns)
  /\ \A d \in Drains : WF_vars(OwnDrainStep(d) /\ UNCHANGED sessionVars)
  /\ \A c \in Callers : WF_vars(ConfigStep(c) /\ UNCHANGED sessionVars)
  /\ WF_vars(connClosed /\ ContextCanceled /\ UNCHANGED sessionVars)

FairSpec == Spec /\ Fairness

--------------------------------------------------------------------------------
(* Properties. *)
\* The request timer never closes a session whose request is accepted, before or
\* after that, although its function may run while the loop is between the callback
\* and the reply.
TimerSparesAccepted == handled => timer \notin {"closing", "closed"}

\* winch is never left without the current size: the application has received it, or
\* it is what the channel holds, although the loop and a reader empty it at once.
LatestWindow ==
  pty /\ loop \notin {"winchFull", "winchSend"} => window = (IF winch = <<>> THEN seen ELSE Head(winch))

\* A loop that stops to read requests before the client has closed the channel does
\* not leave the client with an open channel: it or its connection is closed, or the
\* timer or a call of Exit is about to.
EarlyEndCloses ==
  loop = "ended" =>
    \/ reqsClosed \/ chanClosed \/ connClosed \/ ctxDone
    \/ timer = "closing" \/ \E c \in Callers : caller[c].exit

\* When the client has closed the channel and the handler has returned, the worker of
\* the session ends, and with it the goroutines that drain signals: neither Exit nor
\* the loop waits for an application that does not read from what it has registered.
\* A handler whose exit code was refused stops nothing (HandlerRefused): the session
\* may then last until somebody calls Exit or the connection ends.
SessionEnds ==
  (reqsClosed /\ handler \in {"exiting", "done"} /\ (exiting \/ connClosed \/ ctxDone)) ~>
    (session = "returned" /\ \A d \in Drains : drain[d].at \in {"off", "done"})
================================================================================
