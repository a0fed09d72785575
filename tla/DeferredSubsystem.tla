---------------------------- MODULE DeferredSubsystem ----------------------------
(***************************************************************************)
(* A subsystem request whose answer a handler gives later (session.go):    *)
(* deferredSubsystemResponse, waitDeferredSubsystem, the part of           *)
(* startHandler, Exit and Close it interacts with, and the end of          *)
(* DefaultSessionHandler.                                                  *)
(*                                                                         *)
(* Goroutines: the request loop of the session, which waits for the        *)
(* decision and then serves the requests that follow; the handler of the   *)
(* subsystem, which decides; and, after acceptance, the goroutine of       *)
(* startHandler, which waits for the handler's result.  The client sends   *)
(* requests and closes the channel; the connection may break.  All         *)
(* requests want a reply; the later ones are numbered 1, 2, ...            *)
(***************************************************************************)
EXTENDS Integers, Sequences

CONSTANT MaxLater   \* bound: requests the client sends after the subsystem request
ASSUME MaxLaterAssumption == MaxLater \in Nat

VARIABLES
  sent,        \* later requests sent so far
  reqs,        \* those the loop has not received yet
  reqsClosed,  \* the client has closed the channel, or the connection is gone
  connClosed,  \* closeSSHConnection was called
  ctxDone,     \* the connection's context
  answered, accepted, failed, done,   \* deferredSubsystemResponse; failed: err is set
  writer,      \* who holds its lock inside req.Reply: "none", "loop" or "handler"
  write,       \* how far that Reply is: "none", "pending", "ok" or "failed"
  state,       \* deferredState: 0 normal or accepted, 1 pending, 2 rejected
  loop,        \* where the request loop stands
  next,        \* waitDeferredSubsystem's `next`, then handleRequests' `pending`: <<>> or <<request>>
  toReport,    \* waitDeferredSubsystem has deferred an error report
  canceled,    \* the session's context was canceled by the rejection
  handler,     \* where the handler stands
  returned,    \* the channel `returned`: <<>> or <<the handler's result>>
  result,      \* where startHandler's goroutine stands; "off" before acceptance
  exited,
  chanClosed,  \* the server has closed the channel
  wire         \* what the client has been sent on the channel

clientVars == <<sent, reqs, reqsClosed>>
connVars == <<connClosed, ctxDone>>
responseVars == <<answered, accepted, failed, done, writer, write, state>>
loopVars == <<loop, next, toReport, canceled>>
handlerVars == <<handler, returned>>
endVars == <<result, exited, chanClosed, wire>>
vars == <<clientVars, connVars, responseVars, loopVars, handlerVars, endVars>>

\* The results a handler returns: success, an error, or a SessionExitError, whose
\* Code is one that Exit sends or one that it refuses (negative, or beyond 32 bits).
Results == {"nil", "error", "exit", "invalidExit"}

\* The messages: the answer to the subsystem request, the answers to later
\* requests, exit-status and the close of the channel.
Success == [kind |-> "success", id |-> 0]
Failure == [kind |-> "failure", id |-> 0]
Answer(id) == [kind |-> "answer", id |-> id]
ExitStatus == [kind |-> "exit-status", id |-> 0]
ChannelClose == [kind |-> "close", id |-> 0]

Init ==
  /\ sent = 0 /\ reqs = <<>> /\ reqsClosed = FALSE
  /\ connClosed = FALSE /\ ctxDone = FALSE
  /\ answered = FALSE /\ accepted = FALSE /\ failed = FALSE /\ done = FALSE
  /\ writer = "none" /\ write = "none" /\ state = 1
  /\ loop = "select" /\ next = <<>> /\ toReport = FALSE /\ canceled = FALSE
  /\ handler = "running" /\ returned = <<>>
  /\ result = "off" /\ exited = FALSE /\ chanClosed = FALSE /\ wire = <<>>

--------------------------------------------------------------------------------
(* The client and the connection. *)

ClientSends ==
  /\ sent < MaxLater /\ ~reqsClosed
  /\ sent' = sent + 1
  /\ reqs' = Append(reqs, sent + 1)
  /\ UNCHANGED <<reqsClosed, connVars, responseVars, loopVars, handlerVars, endVars>>

\* The client closes the channel, or the connection ends; gossh closes reqs.
ClientCloses ==
  /\ ~reqsClosed
  /\ reqsClosed' = TRUE
  /\ UNCHANGED <<sent, reqs, connVars, responseVars, loopVars, handlerVars, endVars>>

ContextCanceled ==
  /\ ~ctxDone
  /\ ctxDone' = TRUE
  /\ UNCHANGED <<clientVars, connClosed, responseVars, loopVars, handlerVars, endVars>>

\* A message reaches the client unless the channel or the connection is closed.
Sends(messages) == wire' = IF chanClosed \/ connClosed THEN wire ELSE wire \o messages

--------------------------------------------------------------------------------
(* deferredSubsystemResponse. *)

\* The answer is taken away: nothing is written.
Abandon ==
  /\ answered' = TRUE /\ state' = 2 /\ done' = TRUE
  /\ UNCHANGED <<accepted, failed, writer, write>>

\* The answer is decided and its write begins, with the lock held.
Decide(who, ok) ==
  /\ answered' = TRUE
  /\ accepted' = ok
  /\ state' = IF ok THEN state ELSE 2
  /\ writer' = who /\ write' = "pending"
  /\ UNCHANGED <<failed, done>>

\* reply(ok) called by who, from its lock on: it returns at once and the caller
\* continues as Back, or it writes and the caller waits as Waits.
Reply(who, ok, Back, Waits) ==
  /\ writer = "none"
  /\ \/ answered /\ Back /\ UNCHANGED responseVars
     \/ ~answered /\ ctxDone /\ Back /\ Abandon
     \/ ~answered /\ ~ctxDone /\ Waits /\ Decide(who, ok)

\* req.Reply sends the answer ...
ReplyWritten ==
  /\ write = "pending" /\ ~chanClosed /\ ~connClosed
  /\ write' = "ok"
  /\ Sends(<<IF accepted THEN Success ELSE Failure>>)
  /\ UNCHANGED <<clientVars, connVars, answered, accepted, failed, done, writer, state, loopVars, handlerVars,
                 result, exited, chanClosed>>

\* ... or fails: the channel or the connection is closed, or writeTimeout has
\* closed the connection because the write blocks.
ReplyFails ==
  /\ write = "pending"
  /\ write' = "failed"
  /\ UNCHANGED <<clientVars, connVars, answered, accepted, failed, done, writer, state, loopVars, handlerVars, endVars>>

\* The rest of reply: a failed write rejects and closes the connection.
ReplySettles ==
  /\ write \in {"ok", "failed"}
  /\ failed' = (write = "failed")
  /\ state' = IF write = "failed" THEN 2 ELSE IF accepted THEN 0 ELSE state
  /\ connClosed' = (connClosed \/ write = "failed")
  /\ done' = TRUE
  /\ writer' = "none" /\ write' = "none"
  /\ loop' = IF writer = "loop" THEN "check" ELSE loop
  /\ handler' = IF writer = "handler" THEN "running" ELSE handler
  /\ UNCHANGED <<clientVars, ctxDone, answered, accepted, next, toReport, canceled, returned, endVars>>

--------------------------------------------------------------------------------
(* The handler, which may call reply, Exit and Close at any time. *)

HandlerReplies(ok) ==
  /\ handler = "running"
  /\ Reply("handler", ok, UNCHANGED handler, handler' = "replying")
  /\ UNCHANGED <<clientVars, connVars, loopVars, returned, endVars>>

\* Exit is refused before acceptance and after a rejection.
MayExit == state = 0

\* Exit: the exit status, then the close of the channel; only once.
Exit ==
  /\ exited' = TRUE
  /\ chanClosed' = (chanClosed \/ ~exited)
  /\ IF exited THEN UNCHANGED wire ELSE Sends(<<ExitStatus, ChannelClose>>)

HandlerExits ==
  /\ handler = "running" /\ MayExit
  /\ Exit
  /\ UNCHANGED <<clientVars, connVars, responseVars, loopVars, handlerVars, result>>

\* Close is refused while the answer is pending.
HandlerCloses ==
  /\ handler = "running" /\ state # 1
  /\ chanClosed' = TRUE
  /\ Sends(<<ChannelClose>>)
  /\ UNCHANGED <<clientVars, connVars, responseVars, loopVars, handlerVars, result, exited>>

HandlerReturns(r) ==
  /\ handler = "running"
  /\ handler' = "returned"
  /\ returned' = <<r>>
  /\ UNCHANGED <<clientVars, connVars, responseVars, loopVars, endVars>>

--------------------------------------------------------------------------------
(* waitDeferredSubsystem: one select, what its case does, and the check. *)
LoopFrame == UNCHANGED <<clientVars, connVars, responseVars, handlerVars, endVars>>
LoopGoes(from, to) == loop = from /\ loop' = to

SelectDone ==
  /\ done
  /\ LoopGoes("select", "check")
  /\ UNCHANGED <<next, toReport, canceled>> /\ LoopFrame

\* The result is put back right after reply; nobody else looks at it meanwhile.
SelectReturned ==
  /\ returned # <<>>
  /\ LoopGoes("select", "reply")
  /\ toReport' = (Head(returned) # "nil")
  /\ UNCHANGED <<next, canceled>> /\ LoopFrame

\* Fault: the timeout wakes the loop and does not answer.
SelectTimer_Ignored ==
  /\ LoopGoes("select", "check")
  /\ UNCHANGED <<next, toReport, canceled>> /\ LoopFrame

SelectTimer ==
  /\ LoopGoes("select", "reply")
  /\ UNCHANGED <<next, toReport, canceled>> /\ LoopFrame

SelectGone ==
  /\ ctxDone \/ (reqsClosed /\ reqs = <<>>)
  /\ LoopGoes("select", "abandon")
  /\ UNCHANGED <<next, toReport, canceled>> /\ LoopFrame

\* A later request is kept in `next`, in the place of one read before.
SelectRequest ==
  /\ reqs # <<>>
  /\ LoopGoes("select", "check")
  /\ next' = <<Head(reqs)>> /\ reqs' = Tail(reqs)
  /\ UNCHANGED <<toReport, canceled, sent, reqsClosed, connVars, responseVars, handlerVars, endVars>>

LoopReplies ==
  /\ loop = "reply"
  /\ Reply("loop", FALSE, loop' = "check", loop' = "replying")
  /\ UNCHANGED <<next, toReport, canceled, clientVars, connVars, handlerVars, endVars>>

LoopAbandons ==
  /\ writer = "none"
  /\ LoopGoes("abandon", "check")
  /\ IF answered THEN UNCHANGED responseVars ELSE Abandon
  /\ UNCHANGED <<next, toReport, canceled, clientVars, connVars, handlerVars, endVars>>

Undecided ==
  /\ writer = "none" /\ ~answered
  /\ LoopGoes("check", "select")
  /\ UNCHANGED <<next, toReport, canceled>> /\ LoopFrame

Rejected ==
  /\ writer = "none" /\ answered /\ (~accepted \/ failed)
  /\ LoopGoes("check", "report")
  /\ canceled' = TRUE
  /\ chanClosed' = TRUE /\ Sends(<<ChannelClose>>)
  /\ UNCHANGED <<next, toReport, clientVars, connVars, responseVars, handlerVars, result, exited>>

\* startHandler is to wait for the result; a deferred report is dropped.
Accepted ==
  /\ writer = "none" /\ answered /\ accepted /\ ~failed
  /\ LoopGoes("check", "serve")
  /\ result' = "waiting"
  /\ UNCHANGED <<next, toReport, canceled, clientVars, connVars, responseVars, handlerVars, exited,
                 chanClosed, wire>>

\* The deferred report of a rejected handler's error; dispatchErrorOrEscalate closes
\* the connection when the ErrorHandler fails.
Report(escalates) ==
  /\ LoopGoes("report", "ended")
  /\ escalates => toReport /\ ~accepted
  /\ connClosed' = (connClosed \/ escalates)
  /\ UNCHANGED <<next, toReport, canceled, clientVars, ctxDone, responseVars, handlerVars, result, exited,
                 chanClosed, wire>>

--------------------------------------------------------------------------------
(* handleRequests goes on: first with the request read while waiting. *)

ServePending ==
  /\ loop = "serve" /\ next # <<>>
  /\ next' = <<>>
  /\ Sends(<<Answer(Head(next))>>)
  /\ UNCHANGED <<loop, toReport, canceled, clientVars, connVars, responseVars, handlerVars, result, exited,
                 chanClosed>>

\* Fault: a queued request is served although one read before it is kept.
ServeNext_Overtakes ==
  /\ loop = "serve" /\ reqs # <<>>
  /\ reqs' = Tail(reqs)
  /\ Sends(<<Answer(Head(reqs))>>)
  /\ UNCHANGED <<loopVars, sent, reqsClosed, connVars, responseVars, handlerVars, result, exited,
                 chanClosed>>

ServeNext ==
  /\ loop = "serve" /\ next = <<>> /\ reqs # <<>>
  /\ reqs' = Tail(reqs)
  /\ Sends(<<Answer(Head(reqs))>>)
  /\ UNCHANGED <<loopVars, sent, reqsClosed, connVars, responseVars, handlerVars, result, exited,
                 chanClosed>>

ServeEnds ==
  /\ next = <<>> /\ reqs = <<>> /\ reqsClosed
  /\ LoopGoes("serve", "ended")
  /\ UNCHANGED <<next, toReport, canceled>> /\ LoopFrame

\* DefaultSessionHandler waits for the handler; after a rejection only as long as
\* the connection lives.
SessionReturns ==
  /\ IF result # "off" THEN result \in {"done", "refused"} ELSE handler = "returned" \/ ctxDone
  /\ LoopGoes("ended", "returned")
  /\ canceled' = TRUE
  /\ UNCHANGED <<next, toReport>> /\ LoopFrame

--------------------------------------------------------------------------------
(* startHandler's goroutine. *)
ResultFrame == UNCHANGED <<clientVars, responseVars, loopVars, handler>>

\* A SessionExitError goes past the ErrorHandler; the connection is closed if its
\* message cannot be written in time.
ResultTaken(messageFails) ==
  /\ result = "waiting" /\ returned # <<>>
  /\ messageFails => Head(returned) \in {"exit", "invalidExit"} /\ ~exited
  /\ returned' = <<>>
  /\ result' = CASE Head(returned) = "error" -> "dispatching"
                 [] Head(returned) = "invalidExit" /\ ~exited -> "refusing"
                 [] OTHER -> "exiting"
  /\ connClosed' = (connClosed \/ messageFails)
  /\ UNCHANGED <<ctxDone, exited, chanClosed, wire>> /\ ResultFrame

\* The ErrorHandler may ask to close after its response, may fail, which closes the
\* connection, and its response may fail, which closes the channel, or after a
\* timeout the connection.
ResultDispatched(closeRequested, filteredErr, responseErr) ==
  /\ result = "dispatching"
  /\ connClosed' \in {connClosed \/ filteredErr \/ closeRequested} \cup (IF responseErr THEN {TRUE} ELSE {})
  /\ result' = IF closeRequested THEN "closing" ELSE "exiting"
  /\ chanClosed' = (chanClosed \/ responseErr)
  /\ IF responseErr /\ ~connClosed' THEN Sends(<<ChannelClose>>) ELSE UNCHANGED wire
  /\ UNCHANGED <<ctxDone, returned, exited>> /\ ResultFrame

\* Exit fails on what is closed already; that error may be escalated.
ResultExits(escalates) ==
  /\ result = "exiting"
  /\ escalates => chanClosed /\ ~exited
  /\ result' = "done"
  /\ IF MayExit THEN Exit ELSE UNCHANGED <<exited, chanClosed, wire>>
  /\ connClosed' = (connClosed \/ escalates)
  /\ UNCHANGED <<ctxDone, returned>> /\ ResultFrame

\* Exit refuses the code before it does anything else; its error is reported.
ResultRefused(escalates) ==
  /\ result = "refusing"
  /\ result' = "refused"
  /\ connClosed' = (connClosed \/ escalates)
  /\ UNCHANGED <<ctxDone, returned, exited, chanClosed, wire>> /\ ResultFrame

ResultCloses ==
  /\ result = "closing"
  /\ result' = "done"
  /\ chanClosed' = TRUE /\ Sends(<<ChannelClose>>)
  /\ UNCHANGED <<connVars, returned, exited>> /\ ResultFrame

\* The session is over and so are its goroutines.
Terminated == loop = "returned" /\ UNCHANGED vars

--------------------------------------------------------------------------------
SelectStep == SelectDone \/ SelectReturned \/ SelectTimer \/ SelectGone \/ SelectRequest
LoopStep ==
  \/ SelectStep \/ LoopReplies \/ LoopAbandons \/ Undecided \/ Rejected \/ Accepted
  \/ \E escalates \in BOOLEAN : Report(escalates)
  \/ ServePending \/ ServeNext \/ ServeEnds \/ SessionReturns
ReplyStep == ReplyWritten \/ ReplyFails \/ ReplySettles
ResultStep ==
  \/ ResultCloses
  \/ \E fails \in BOOLEAN : ResultTaken(fails) \/ ResultExits(fails) \/ ResultRefused(fails)
  \/ \E closeRequested, filteredErr, responseErr \in BOOLEAN :
       ResultDispatched(closeRequested, filteredErr, responseErr)
HandlerStep ==
  \/ \E ok \in BOOLEAN : HandlerReplies(ok)
  \/ HandlerExits \/ HandlerCloses
  \/ \E r \in Results : HandlerReturns(r)

Next ==
  \/ ClientSends \/ ClientCloses \/ ContextCanceled
  \/ LoopStep \/ ReplyStep \/ ResultStep \/ HandlerStep \/ Terminated

Spec == Init /\ [][Next]_vars

\* Goroutines that can run do, and a write ends: writeTimeout breaks it if need be.
\* Nothing is assumed of the handler, the client or the connection, except that a
\* closed connection ends its context.
Fairness ==
  /\ WF_vars(LoopStep) /\ WF_vars(ReplyStep) /\ WF_vars(ResultStep)
  /\ WF_vars(connClosed /\ ContextCanceled)

FairSpec == Spec /\ Fairness

--------------------------------------------------------------------------------
Kinds(w) == {w[i].kind : i \in 1..Len(w)}

\* The type invariant.
TypeOK ==
  /\ sent \in 0..MaxLater /\ reqs \in Seq(1..MaxLater) /\ next \in Seq(1..MaxLater) /\ Len(next) <= 1
  /\ \A flag \in {reqsClosed, connClosed, ctxDone, answered, accepted, failed, done, toReport, canceled,
                  exited, chanClosed} : flag \in BOOLEAN
  /\ writer \in {"none", "loop", "handler"} /\ write \in {"none", "pending", "ok", "failed"}
  /\ state \in {0, 1, 2}
  /\ loop \in {"select", "reply", "replying", "abandon", "check", "report", "serve", "ended", "returned"}
  /\ handler \in {"running", "replying", "returned"}
  /\ returned \in Seq(Results) /\ Len(returned) <= 1
  /\ result \in {"off", "waiting", "dispatching", "exiting", "refusing", "closing", "done", "refused"}

\* The client sees the requests of the channel answered in the order it sent them,
\* the subsystem request first and none of them twice; a refused subsystem is
\* followed by the close of the channel and by nothing else; an exit status comes only
\* after the success reply, whoever calls Exit and whatever the timer, the handler and
\* the write of the reply do meanwhile.
AnsweredInOrder ==
  /\ \A i, j \in 1..Len(wire) :
       i < j /\ wire[i].kind \in {"success", "answer"} /\ wire[j].kind \in {"success", "failure", "answer"} =>
         wire[i].id < wire[j].id
  /\ {"answer", "exit-status"} \cap Kinds(wire) # {} => Head(wire) = Success
  /\ \A i \in 1..Len(wire) : wire[i] = Failure => i = 1 /\ SubSeq(wire, 2, Len(wire)) \in {<<>>, <<ChannelClose>>}

\* The subsystem request is decided: SubsystemReplyTimeout sees to it.
WaitEnds == (loop \in {"select", "reply", "replying", "abandon", "check"}) ~> (loop \in {"serve", "ended", "returned"})

\* "Requests on the same channel are answered in order while a decision is
\* pending": when a request is answered, all earlier ones have been.
NoneSkipped ==
  \A i \in 1..Len(wire) : wire[i].kind = "answer" =>
    \A id \in 1..wire[i].id - 1 : \E j \in 1..i : wire[j] = Answer(id)
================================================================================
