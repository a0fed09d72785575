------------------------------ MODULE ChannelWorker ------------------------------
(***************************************************************************)
(* The worker of one channel open (server.go, handleConn): the channel     *)
(* handler, the answer the client is owed, the report of an error and what *)
(* is closed and released at the end.  The handler is DirectTCPIPHandler,  *)
(* DirectStreamLocalHandler or one of the application, which may leave a   *)
(* goroutine behind with the channel; an ErrorHandler may do the same with *)
(* its responder.                                                          *)
(*                                                                         *)
(* Every answer goes through trackedNewChannel in three steps: it is       *)
(* begun under the mutex, written, and completed under the mutex.          *)
(*                                                                         *)
(* A component without a specification of its own, see Connection.         *)
(***************************************************************************)
EXTENDS DuplexCopy

Writers == {"worker", "helper", "responder"}

VARIABLES
  kind,        \* the handler: "tcp", "unix" or "custom"
  worker,      \* where the worker stands
  tracked,     \* trackedNewChannel
  writer,      \* the answer each goroutine is at
  handlerErr,  \* the handler returned an error
  response,    \* errorResponse of the report
  next,        \* nextErrorHandler: "unused", "called" or "complete"
  verdict,     \* canContinue, or an error of the dispatch or the response
  slot,        \* the channel limiter's slot is held
  wire,        \* what the client was told: "none", "accept" or "reject"
  chanClosed,  \* the server has closed the accepted channel
  clientGone,  \* the client has closed it
  connClosed

answerVars == <<tracked, writer, wire>>
reportVars == <<response, next, verdict>>
peerVars == <<clientGone, connClosed>>
ownVars == <<kind, worker, answerVars, handlerErr, reportVars, slot, chanClosed, peerVars>>
workerVars == <<copyVars, ownVars>>

NoAnswer == [at |-> "idle", what |-> "none", failed |-> FALSE]
NoResponse == [active |-> FALSE, attempted |-> FALSE, complete |-> FALSE, close |-> FALSE, failed |-> FALSE]

WorkerInit ==
  /\ CopyInit
  /\ kind = "none" /\ worker = "off" /\ handlerErr = FALSE /\ verdict = "none"
  /\ tracked = [attempted |-> FALSE, complete |-> FALSE, failed |-> FALSE, accepted |-> FALSE]
  /\ writer = [w \in Writers |-> NoAnswer]
  /\ response = NoResponse /\ next = "unused"
  /\ slot = FALSE /\ wire = "none" /\ chanClosed = FALSE /\ clientGone = FALSE /\ connClosed = FALSE

\* The loop of handleConn has reserved the slot and starts the worker.
ChannelOpened ==
  /\ worker = "off" /\ worker' = "handler" /\ slot' = TRUE
  /\ kind' \in {"tcp", "unix", "custom"}
  /\ UNCHANGED <<copyVars, answerVars, handlerErr, reportVars, chanClosed, peerVars>>

--------------------------------------------------------------------------------
(* Accept, Reject, respondToError and rejectUnhandledError. *)

beginAnswer(w, what) ==
  /\ ~tracked.attempted
  /\ tracked' = [tracked EXCEPT !.attempted = TRUE]
  /\ writer' = [writer EXCEPT ![w] = [NoAnswer EXCEPT !.at = "write", !.what = what]]
  /\ UNCHANGED wire

\* gossh: the answer is written, or the connection fails.
AnswerWritten(w) ==
  /\ writer[w].at = "write"
  /\ \E failed \in BOOLEAN :
       /\ connClosed => failed
       /\ writer' = [writer EXCEPT ![w].at = "written", ![w].failed = failed]
       /\ wire' = IF failed THEN wire ELSE writer[w].what
  /\ UNCHANGED <<copyVars, kind, worker, tracked, handlerErr, reportVars, slot, chanClosed, peerVars>>

\* completeAnswer and completeAccept
AnswerCompleted(w) ==
  /\ writer[w].at = "written"
  /\ tracked' = [tracked EXCEPT !.complete = TRUE, !.failed = writer[w].failed,
                                !.accepted = writer[w].what = "accept" /\ ~writer[w].failed]
  /\ writer' = [writer EXCEPT ![w].at = "done"]
  /\ UNCHANGED <<copyVars, kind, worker, wire, handlerErr, reportVars, slot, chanClosed, peerVars>>

\* answerResult: what has begun and is not complete is an error too.
answerErr == tracked.failed \/ (tracked.attempted /\ ~tracked.complete)

\* A goroutine that the application's handler left behind answers.
HelperAnswers ==
  /\ kind = "custom" /\ writer["helper"].at = "idle"
  /\ \E what \in {"accept", "reject"} : beginAnswer("helper", what)
  /\ UNCHANGED <<copyVars, kind, worker, handlerErr, reportVars, slot, chanClosed, peerVars>>

--------------------------------------------------------------------------------
(* The channel handler. *)

Returns(failed) == worker' = "judge" /\ handlerErr' = failed

\* The request cannot be parsed, its authorization fails, or nothing can be dialed;
\* an application's handler gives up without an answer.
HandlerFails ==
  /\ worker = "handler" /\ \E failed \in BOOLEAN : (kind # "custom" => failed) /\ Returns(failed)
  /\ UNCHANGED <<copyVars, kind, answerVars, reportVars, slot, chanClosed, peerVars>>

\* Forwarding is disabled or denied, or the connection is closing; no handler of the
\* package tells its caller that Reject failed.
HandlerRejects ==
  /\ worker = "handler" /\ worker' = "rejecting" /\ beginAnswer("worker", "reject")
  /\ UNCHANGED <<copyVars, kind, handlerErr, reportVars, slot, chanClosed, peerVars>>

\* The destination is connected, registered with the connection, and the channel is
\* accepted.
HandlerAccepts ==
  /\ worker = "handler" /\ worker' = "accepting" /\ beginAnswer("worker", "accept")
  /\ UNCHANGED <<copyVars, kind, handlerErr, reportVars, slot, chanClosed, peerVars>>

\* ErrChannelResponseAlreadySent
HandlerTooLate ==
  /\ worker = "handler" /\ tracked.attempted /\ Returns(TRUE)
  /\ UNCHANGED <<copyVars, kind, answerVars, reportVars, slot, chanClosed, peerVars>>

HandlerRejected ==
  /\ worker = "rejecting" /\ writer["worker"].at = "done"
  /\ \E failed \in BOOLEAN : (failed => kind = "custom") /\ Returns(failed)
  /\ UNCHANGED <<copyVars, kind, answerVars, reportVars, slot, chanClosed, peerVars>>

HandlerNotAccepted ==
  /\ worker = "accepting" /\ writer["worker"].at = "done" /\ writer["worker"].failed
  /\ Returns(TRUE)
  /\ UNCHANGED <<copyVars, kind, answerVars, reportVars, slot, chanClosed, peerVars>>

\* FullDuplexCopy between the channel and the destination.  Sockets and channels have
\* CloseWrite, and the package's handlers set no callbacks.
HandlerCopies ==
  /\ worker = "accepting" /\ worker' = "copy"
  /\ writer["worker"].at = "done" /\ ~writer["worker"].failed
  /\ \E halves \in SUBSET Dirs, callbacks \in BOOLEAN :
       /\ kind # "custom" => halves = Dirs /\ ~callbacks
       /\ CopyBegins(halves, callbacks)
  /\ UNCHANGED <<kind, answerVars, handlerErr, reportVars, slot, chanClosed, peerVars>>

\* The context of the copy ends with the connection, and for TCP with the requests of
\* the channel (contextForChannelRequests).
CopyCtxDone == connClosed \/ (kind = "tcp" /\ clientGone)

CopySteps ==
  /\ \/ CopyCtxDone /\ CopyCanceled
     \/ CopyReturns \/ ObserverTakes
     \/ \E d \in Dirs : StreamSteps(d)
  /\ UNCHANGED ownVars

\* The package's handlers close the channel with the destination.
HandlerCopied ==
  /\ worker = "copy" /\ copyAt = "returned"
  /\ Returns(copyErr)
  /\ chanClosed' = (chanClosed \/ kind # "custom")
  /\ UNCHANGED <<copyVars, kind, answerVars, reportVars, slot, peerVars>>

HandlerSteps ==
  \/ HandlerFails \/ HandlerRejects \/ HandlerAccepts \/ HandlerTooLate
  \/ HandlerRejected \/ HandlerNotAccepted \/ HandlerCopies \/ HandlerCopied

--------------------------------------------------------------------------------
(* The worker after the handler. *)

\* Without an error the open must have been answered, by now and for certain.
AnswerJudged ==
  /\ worker = "judge"
  /\ handlerErr' = (handlerErr \/ ~tracked.attempted)
  /\ worker' = CASE handlerErr' -> "dispatch"
                 [] ~handlerErr' /\ answerErr -> "report"
                 [] OTHER -> "leave"
  /\ response' = [NoResponse EXCEPT !.active = handlerErr']
  /\ UNCHANGED <<copyVars, kind, answerVars, next, verdict, slot, chanClosed, peerVars>>

\* The failed answer is reported and the connection closed.
AnswerReported ==
  /\ worker = "report" /\ worker' = "leave" /\ connClosed' = TRUE
  /\ UNCHANGED <<copyVars, kind, answerVars, handlerErr, reportVars, slot, chanClosed, clientGone>>

\* dispatchError: the ErrorHandler, or a goroutine of its own, responds or calls next,
\* whose default action responds.  After its return both have expired.
ErrorResponds ==
  /\ response.active /\ ~response.attempted
  /\ \E close \in BOOLEAN, byNext \in BOOLEAN :
       /\ byNext => ~close
       /\ response' = [response EXCEPT !.attempted = TRUE, !.close = close]
       /\ next' = IF byNext THEN "called" ELSE next
  /\ UNCHANGED <<copyVars, kind, worker, answerVars, handlerErr, verdict, slot, chanClosed, peerVars>>

\* respondToError
ResponseBegins ==
  /\ response.attempted /\ ~response.complete /\ writer["responder"].at = "idle"
  /\ beginAnswer("responder", "reject")
  /\ UNCHANGED <<copyVars, kind, worker, handlerErr, reportVars, slot, chanClosed, peerVars>>

\* The response is complete, or there was an answer already (ErrErrorResponseUnsupported).
ResponseSettles ==
  /\ response.attempted /\ ~response.complete
  /\ \/ writer["responder"].at = "done"
     \/ writer["responder"].at = "idle" /\ tracked.attempted
  /\ response' = [response EXCEPT !.complete = TRUE, !.failed = writer["responder"].failed]
  /\ next' = IF next = "called" THEN "complete" ELSE next
  /\ connClosed' = (connClosed \/ response.close)
  /\ UNCHANGED <<copyVars, kind, worker, answerVars, handlerErr, verdict, slot, chanClosed, clientGone>>

\* The ErrorHandler returns and the result of the response is read: a next or a
\* response that is not complete is an error, and so is a response that failed.
ErrorHandlerReturns ==
  /\ worker = "dispatch"
  /\ \E v \in {"continue", "stop", "error"} :
       verdict' = IF next = "called" \/ response.failed \/ (response.attempted /\ ~response.complete)
                    THEN "error" ELSE v
  /\ response' = [response EXCEPT !.active = FALSE]
  /\ worker' = IF response.attempted THEN "final" ELSE "unhandled"
  /\ UNCHANGED <<copyVars, kind, answerVars, handlerErr, next, slot, chanClosed, peerVars>>

\* Fault: nobody answers for an ErrorHandler that did not.
RejectsUnhandled_Not ==
  /\ worker = "unhandled" /\ worker' = "final"
  /\ UNCHANGED <<copyVars, kind, answerVars, handlerErr, reportVars, slot, chanClosed, peerVars>>

\* rejectUnhandledError
RejectsUnhandled ==
  /\ worker = "unhandled"
  /\ \/ beginAnswer("worker", "reject") /\ worker' = "unhandledRejecting"
     \/ tracked.attempted /\ worker' = "final" /\ UNCHANGED answerVars
  /\ UNCHANGED <<copyVars, kind, handlerErr, reportVars, slot, chanClosed, peerVars>>

UnhandledRejected ==
  /\ worker = "unhandledRejecting" /\ writer["worker"].at = "done" /\ worker' = "final"
  /\ UNCHANGED <<copyVars, kind, answerVars, handlerErr, reportVars, slot, chanClosed, peerVars>>

\* An answer that failed or hangs, an escalated error, a response that failed or
\* hangs, and an ErrorHandler that does not continue cost the connection.
ErrorJudged ==
  /\ worker = "final"
  /\ worker' = IF answerErr THEN "report" ELSE "leave"
  /\ connClosed' = (connClosed \/ (~answerErr /\ verdict # "continue"))
  /\ UNCHANGED <<copyVars, kind, answerVars, handlerErr, reportVars, slot, chanClosed, clientGone>>

\* Fault: the channel of a handler that failed is forgotten.
AcceptedClosed_NotOnError ==
  /\ worker = "leave" /\ worker' = "release"
  /\ chanClosed' = (chanClosed \/ (tracked.accepted /\ ~handlerErr))
  /\ tracked' = [tracked EXCEPT !.accepted = FALSE]
  /\ UNCHANGED <<copyVars, kind, writer, wire, handlerErr, reportVars, slot, peerVars>>

\* closeAccepted
AcceptedClosed ==
  /\ worker = "leave" /\ worker' = "release"
  /\ chanClosed' = (chanClosed \/ tracked.accepted)
  /\ tracked' = [tracked EXCEPT !.accepted = FALSE]
  /\ UNCHANGED <<copyVars, kind, writer, wire, handlerErr, reportVars, slot, peerVars>>

SlotReleased ==
  /\ worker = "release" /\ worker' = "over" /\ slot' = FALSE
  /\ UNCHANGED <<copyVars, kind, answerVars, handlerErr, reportVars, chanClosed, peerVars>>

ReportSteps ==
  \/ AnswerJudged \/ AnswerReported \/ ErrorHandlerReturns \/ RejectsUnhandled
  \/ UnhandledRejected \/ ErrorJudged \/ AcceptedClosed \/ SlotReleased

ResponderSteps == ErrorResponds \/ ResponseBegins \/ ResponseSettles

--------------------------------------------------------------------------------
\* The client closes the channel.
ClientCloses ==
  /\ wire = "accept" /\ ~clientGone /\ clientGone' = TRUE
  /\ UNCHANGED <<copyVars, kind, worker, answerVars, handlerErr, reportVars, slot, chanClosed, connClosed>>

\* The connection ends for another reason.
ConnectionLost ==
  /\ ~connClosed /\ connClosed' = TRUE
  /\ UNCHANGED <<copyVars, kind, worker, answerVars, handlerErr, reportVars, slot, chanClosed, clientGone>>

WorkerNext ==
  \/ ChannelOpened \/ HandlerSteps \/ CopySteps \/ ReportSteps \/ ResponderSteps
  \/ HelperAnswers \/ ClientCloses \/ ConnectionLost
  \/ \E w \in Writers : AnswerWritten(w) \/ AnswerCompleted(w)

\* The worker's own steps and those of a copy; an ErrorHandler returns promptly, as it
\* is told to.  Authorization, dialing and a write end when the connection does.  The
\* observer's callbacks, the client and what an application leaves behind owe nothing.
WorkerFairness ==
  /\ WF_workerVars((worker # "handler" \/ connClosed) /\ HandlerSteps) /\ WF_workerVars(ReportSteps)
  /\ WF_workerVars(connClosed /\ AnswerWritten("worker")) /\ WF_workerVars(AnswerCompleted("worker"))
  /\ WF_workerVars(CopyCtxDone /\ CopyCanceled /\ UNCHANGED ownVars)
  /\ WF_workerVars(CopyReturns /\ UNCHANGED ownVars)
  /\ \A d \in Dirs : WF_workerVars(StreamMoves(d) /\ UNCHANGED ownVars)

--------------------------------------------------------------------------------
(* Properties. *)

\* When the worker is over, the client has its answer or the connection is closed,
\* whoever answered, failed to or began too late (trackedNewChannel).
OpenAnswered == worker = "over" => wire # "none" \/ connClosed

\* A channel whose slot is given back is not open any more, not even one accepted by a
\* goroutine after the worker has judged its answer: it was closed, or the connection.
ReleasedIsClosed == worker = "over" /\ wire = "accept" => chanClosed \/ connClosed

\* A copy cuts a direction short only for its context, an error, or an end that cannot
\* be passed on alone; the end of one stream leaves the other one running.
OtherDirectionKept ==
  streamsClosed =>
    \/ CopyCtxDone \/ copyErr
    \/ \E d \in Dirs \ halfCloses : dir[d] \in {"end", "done", "counted"}

\* A forward whose connection, or for TCP whose channel, is gone, and any copy that has
\* failed, gives its slot back, even if no callback of the observer ever returns.
ForwardEnds ==
  (slot /\ (kind # "custom" \/ worker = "copy") /\ (CopyCtxDone \/ copyErr)) ~> ~slot
================================================================================
