------------------------------- MODULE RequestLoop -------------------------------
(***************************************************************************)
(* The global requests of one connection: Server.handleRequests with the   *)
(* response writer of request.go (requestResponse), and the ErrorHandler   *)
(* with the responder and the next handler it is given (errorResponse and  *)
(* nextErrorHandler in error-handling.go).                                 *)
(*                                                                         *)
(* The loop calls the application's RequestHandler and ErrorHandler.  Each *)
(* of them may leave a goroutine behind that uses what it was given while  *)
(* the handler runs, after it has returned, or when the loop is requests   *)
(* ahead.  SSH matches replies to requests by their order alone.           *)
(***************************************************************************)
EXTENDS Integers, Sequences, SequencesExt

CONSTANT N  \* requests that come in

ASSUME NAssumption == N \in Nat \ {0}

Requests == 1..N

\* Who uses a response: the loop, the goroutine of request r's RequestHandler and
\* the one of its ErrorHandler.
Loop == <<"loop", 0>>
Helper(r) == <<"handler", r>>
ErrorHelper(r) == <<"errorHandler", r>>
Actors == {Loop} \cup {Helper(r) : r \in Requests} \cup {ErrorHelper(r) : r \in Requests}

VARIABLES
  want,        \* WantReply of each request
  errorHandler, \* the server has an ErrorHandler
  cur,         \* the request the loop is at
  pc,          \* where the loop stands
  handlerErr,  \* what the RequestHandler returned: "nil", "error" or its failed reply
  verdict,     \* what dispatchError returned: "continue", "stop" or its "error"
  resp,        \* requestResponse of each request
  eresp,       \* errorResponse of each request
  next,        \* nextErrorHandler of each request
  at,          \* where each actor stands in the call it makes
  mode,        \* which call that is
  outcome,     \* what the last reply the loop made itself came to
  closed,      \* the connection is closed
  wire,        \* the requests whose replies were sent, in order
  doneClosed   \* how often the channel done of each request was closed

config == <<want, errorHandler>>
loopVars == <<cur, pc, handlerErr, verdict>>
actorVars == <<at, mode, outcome>>
vars == <<config, loopVars, resp, eresp, next, actorVars, closed, wire, doneClosed>>

PCs == {"next", "unhandled", "handling", "default", "errorHandler", "expireResponse", "expireNext",
        "escalate", "settle", "answer", "finish", "replyError", "over"}
Places == {"off", "idle", "enter", "write", "written", "failed", "sent", "default", "defaultDone"}
Modes == {"none", "writer", "own", "send", "sendAndClose", "default"}

Init ==
  /\ want \in [Requests -> BOOLEAN] /\ errorHandler \in BOOLEAN
  /\ cur = 0 /\ pc = "next" /\ handlerErr = "nil" /\ verdict = "continue"
  /\ resp = [r \in Requests |-> [active |-> TRUE, attempted |-> FALSE, complete |-> FALSE,
                                 err |-> FALSE, released |-> FALSE]]
  /\ eresp = [r \in Requests |-> [active |-> FALSE, attempted |-> FALSE]]
  /\ next = [r \in Requests |-> [active |-> FALSE, called |-> FALSE, complete |-> FALSE]]
  /\ at = [a \in Actors |-> IF a = Loop THEN "idle" ELSE "off"]
  /\ mode = [a \in Actors |-> "none"] /\ outcome = "nil"
  /\ closed = FALSE /\ wire = <<>> /\ doneClosed = [r \in Requests |-> 0]

--------------------------------------------------------------------------------
(* Calls.  A call that is refused by its checks returns without any effect. *)
Of(a) == IF a = Loop THEN cur ELSE a[2]
Goes(a, from, to) ==
  /\ at[a] \in from /\ at' = [at EXCEPT ![a] = to]
  /\ mode' = IF to = "idle" THEN [mode EXCEPT ![a] = "none"] ELSE mode

\* An actor begins a call; a goroutine makes one.
Calls(a, m, place) ==
  /\ at[a] = (IF a = Loop THEN "idle" ELSE "off")
  /\ at' = [at EXCEPT ![a] = place] /\ mode' = [mode EXCEPT ![a] = m]
  /\ outcome' = IF a = Loop THEN "nil" ELSE outcome

\* Where a call goes on once its reply is decided, and what it came to, for a reply
\* of the loop itself.
Replied(a) == IF mode[a] \in {"send", "sendAndClose", "default"} THEN "sent" ELSE "idle"
EndsWith(a, o) == outcome' = IF a = Loop /\ mode[a] \in {"own", "default"} THEN o ELSE outcome

Expired(a) == mode[a] = "writer" /\ ~resp[Of(a)].active

\* The response was attempted or is complete.
Taken(r) == resp[r].attempted \/ resp[r].complete

\* respond, first section: one call wins, the others are refused.
RespondWins(a) ==
  /\ at[a] = "enter" /\ ~Expired(a) /\ ~Taken(Of(a))
  /\ Goes(a, {"enter"}, IF want[Of(a)] /\ ~resp[Of(a)].released THEN "write" ELSE "written")
  /\ resp' = [resp EXCEPT ![Of(a)].attempted = TRUE]
  /\ UNCHANGED <<config, loopVars, eresp, next, outcome, closed, wire, doneClosed>>

\* For the ErrorHandler a request that was answered already is an unsupported
\* response.
RespondRefused(a) ==
  /\ at[a] = "enter" /\ (Expired(a) \/ Taken(Of(a)))
  /\ Goes(a, {"enter"}, Replied(a)) /\ EndsWith(a, "refused")
  /\ UNCHANGED <<config, loopVars, resp, eresp, next, closed, wire, doneClosed>>

\* Request.Reply, outside of the lock.
ReplyWritten(a) ==
  /\ ~closed
  /\ Goes(a, {"write"}, "written")
  /\ wire' = Append(wire, Of(a))
  /\ UNCHANGED <<config, loopVars, resp, eresp, next, outcome, closed, doneClosed>>

ReplyFails(a) ==
  /\ Goes(a, {"write"}, "failed")
  /\ UNCHANGED <<config, loopVars, resp, eresp, next, outcome, closed, wire, doneClosed>>

\* Its second section.
RespondCompletes(a) ==
  /\ Goes(a, {"written", "failed"}, Replied(a))
  /\ EndsWith(a, IF at[a] = "failed" THEN "failed" ELSE "nil")
  /\ resp' = [resp EXCEPT ![Of(a)].complete = TRUE, ![Of(a)].err = at[a] = "failed"]
  /\ doneClosed' = [doneClosed EXCEPT ![Of(a)] = @ + 1]
  /\ UNCHANGED <<config, loopVars, eresp, next, closed, wire>>

\* errorResponse.send, its first section passed.  A request that wants no reply
\* has none.
Sends(a) ==
  /\ eresp[Of(a)].active /\ ~eresp[Of(a)].attempted
  /\ eresp' = [eresp EXCEPT ![Of(a)].attempted = TRUE]

\* Fault: the responder replies to the request itself, past requestResponse.
SendsTo_Direct(a) == IF want[Of(a)] THEN "write" ELSE "sent"

SendsTo(a) == IF want[Of(a)] THEN "enter" ELSE "sent"

\* It closes the connection if that was asked for.  What its second section stores
\* is for the default action, which hands it to the ErrorHandler or, without one,
\* has it from its own send.
SendCompletes(a) ==
  /\ Goes(a, {"sent"}, IF mode[a] = "default" THEN "defaultDone" ELSE "idle")
  /\ closed' = (closed \/ mode[a] = "sendAndClose")
  /\ UNCHANGED <<config, loopVars, resp, eresp, next, outcome, wire, doneClosed>>

\* The default action of handleRequests: a response, unless there was one.
DefaultSends(a) ==
  /\ Goes(a, {"default"}, SendsTo(a)) /\ Sends(a)
  /\ UNCHANGED <<config, loopVars, resp, next, outcome, closed, wire, doneClosed>>

DefaultLeaves(a) ==
  /\ at[a] = "default" /\ (~eresp[Of(a)].active \/ eresp[Of(a)].attempted)
  /\ Goes(a, {"default"}, "defaultDone")
  /\ UNCHANGED <<config, loopVars, resp, eresp, next, outcome, closed, wire, doneClosed>>

\* nextErrorHandler.call, its second section.
NextCompletes(a) ==
  /\ a = Loop => pc = "errorHandler"
  /\ Goes(a, {"defaultDone"}, "idle")
  /\ next' = [next EXCEPT ![Of(a)].complete = TRUE]
  /\ UNCHANGED <<config, loopVars, resp, eresp, outcome, closed, wire, doneClosed>>

CallSteps(a) ==
  \/ RespondWins(a) \/ RespondRefused(a) \/ ReplyWritten(a) \/ ReplyFails(a) \/ RespondCompletes(a)
  \/ SendCompletes(a) \/ DefaultSends(a) \/ DefaultLeaves(a) \/ NextCompletes(a)

--------------------------------------------------------------------------------
(* The loop. *)
Resting == at[Loop] = "idle"
Release(r) == resp' = [resp EXCEPT ![r].active = FALSE, ![r].released = TRUE]

\* The next request, with a handler or without one.  Requests that came in before
\* the connection was closed are still handed over.
TakeRequest ==
  /\ pc = "next" /\ cur < N
  /\ cur' = cur + 1 /\ pc' = "handling" /\ handlerErr' = "nil" /\ verdict' = "continue"
  /\ UNCHANGED <<config, resp, eresp, next, actorVars, closed, wire, doneClosed>>

TakeUnhandled ==
  /\ pc = "next" /\ cur < N
  /\ cur' = cur + 1 /\ pc' = "unhandled" /\ handlerErr' = "nil" /\ verdict' = "continue"
  /\ Calls(Loop, "own", "enter")
  /\ UNCHANGED <<config, resp, eresp, next, closed, wire, doneClosed>>

UnhandledReplied ==
  /\ pc = "unhandled" /\ Resting
  /\ pc' = IF outcome = "nil" THEN "next" ELSE "replyError"
  /\ Release(cur)
  /\ UNCHANGED <<config, cur, handlerErr, verdict, eresp, next, actorVars, closed, wire, doneClosed>>

\* The connection goes; the channel of requests ends with it.
ConnectionCloses ==
  /\ ~closed /\ closed' = TRUE
  /\ UNCHANGED <<config, loopVars, resp, eresp, next, actorVars, wire, doneClosed>>

LoopEnds ==
  /\ pc = "next" /\ closed
  /\ pc' = "over"
  /\ UNCHANGED <<config, cur, handlerErr, verdict, resp, eresp, next, actorVars, closed, wire, doneClosed>>

\* The RequestHandler, or its goroutine, calls Accept or Reject.
HandlerResponds(a) ==
  /\ pc = "handling" /\ Of(a) = cur /\ a \in {Loop, Helper(cur)}
  /\ Calls(a, "writer", "enter")
  /\ UNCHANGED <<config, loopVars, resp, eresp, next, closed, wire, doneClosed>>

\* What a handler that returned e leads to: a response that is missing is an error
\* too, and an error goes to the ErrorHandler or to the default action.
HandlerReturnsWith(e) ==
  LET failed == e # "nil" \/ (~resp[cur].attempted /\ want[cur])
  IN  /\ handlerErr' = IF failed /\ e = "nil" THEN "error" ELSE e
      /\ resp' = [resp EXCEPT ![cur].active = FALSE]
      /\ pc' = IF ~failed THEN "settle" ELSE IF errorHandler THEN "errorHandler" ELSE "default"
      /\ eresp' = [eresp EXCEPT ![cur].active = failed]
      /\ next' = [next EXCEPT ![cur].active = failed /\ errorHandler]

\* The RequestHandler returns nil, an error of its own, or the failed reply.
HandlerReturns ==
  /\ pc = "handling" /\ Resting
  /\ \E e \in {"nil", "error"} \cup {x \in {"reply"} : resp[cur].err} : HandlerReturnsWith(e)
  /\ UNCHANGED <<config, cur, verdict, actorVars, closed, wire, doneClosed>>

--------------------------------------------------------------------------------
(* dispatchError. *)

\* Without an ErrorHandler the default action runs, and a reply that failed
\* escalates.
DefaultRuns ==
  /\ pc = "default" /\ Resting
  /\ Calls(Loop, "default", "default")
  /\ UNCHANGED <<config, loopVars, resp, eresp, next, closed, wire, doneClosed>>

DefaultRan ==
  /\ pc = "default" /\ Goes(Loop, {"defaultDone"}, "idle")
  /\ pc' = IF outcome = "failed" THEN "escalate" ELSE "settle"
  /\ eresp' = [eresp EXCEPT ![cur].active = FALSE]
  /\ UNCHANGED <<config, cur, handlerErr, verdict, resp, next, outcome, closed, wire, doneClosed>>

\* The ErrorHandler, or its goroutine, sends a response, which may close the
\* connection.
ErrorHandlerSends(a) ==
  /\ pc \in (IF a = Loop THEN {"errorHandler"} ELSE {"errorHandler", "expireResponse"})
  /\ a \in {Loop, ErrorHelper(cur)}
  /\ Sends(a) /\ \E m \in {"send", "sendAndClose"} : Calls(a, m, SendsTo(a))
  /\ UNCHANGED <<config, loopVars, resp, next, closed, wire, doneClosed>>

\* It calls the next handler, the default action.
ErrorHandlerCallsNext(a) ==
  /\ pc \in (IF a = Loop THEN {"errorHandler"} ELSE {"errorHandler", "expireResponse", "expireNext"})
  /\ a \in {Loop, ErrorHelper(cur)}
  /\ next[cur].active /\ ~next[cur].called
  /\ next' = [next EXCEPT ![cur].called = TRUE]
  /\ Calls(a, "default", "default")
  /\ UNCHANGED <<config, loopVars, resp, eresp, closed, wire, doneClosed>>

\* The ErrorHandler returns its verdict, or an error, which escalates, as a next
\* handler that still runs does.
ErrorHandlerReturns ==
  /\ pc = "errorHandler" /\ Resting
  /\ \E v \in {"continue", "stop", "error"} :
       verdict' = IF v = "error" \/ (next[cur].called /\ ~next[cur].complete) THEN "error" ELSE v
  /\ pc' = "expireResponse"
  /\ UNCHANGED <<config, cur, handlerErr, resp, eresp, next, actorVars, closed, wire, doneClosed>>

ErrorResponseExpires ==
  /\ pc = "expireResponse"
  /\ eresp' = [eresp EXCEPT ![cur].active = FALSE] /\ pc' = "expireNext"
  /\ UNCHANGED <<config, cur, handlerErr, verdict, resp, next, actorVars, closed, wire, doneClosed>>

NextExpires ==
  /\ pc = "expireNext"
  /\ next' = [next EXCEPT ![cur].active = FALSE]
  /\ pc' = IF verdict = "error" THEN "escalate" ELSE "settle"
  /\ UNCHANGED <<config, cur, handlerErr, verdict, resp, eresp, actorVars, closed, wire, doneClosed>>

--------------------------------------------------------------------------------
(* After the handlers. *)

\* completeWithoutResponse closes done only while nobody answers.
CompletesWithoutResponse(r) == ~Taken(r)

\* completeWithoutResponse, and release.
EndResponse(r) ==
  /\ resp' = [resp EXCEPT ![r].complete = @ \/ CompletesWithoutResponse(r), ![r].active = FALSE, ![r].released = TRUE]
  /\ doneClosed' = [doneClosed EXCEPT ![r] = IF CompletesWithoutResponse(r) THEN @ + 1 ELSE @]

\* Fault: the response is left for its waiters to wait on.
Escalate_Waiting ==
  /\ pc = "escalate"
  /\ closed' = TRUE /\ pc' = "over"
  /\ Release(cur)
  /\ UNCHANGED <<config, cur, handlerErr, verdict, eresp, next, actorVars, wire, doneClosed>>

Escalate ==
  /\ pc = "escalate"
  /\ closed' = TRUE /\ pc' = "over"
  /\ EndResponse(cur)
  /\ UNCHANGED <<config, cur, handlerErr, verdict, eresp, next, actorVars, wire>>

\* Fault: a reply that is being written passes.
ReplyUnusable_Written(r) == resp[r].attempted /\ resp[r].complete /\ resp[r].err

\* A reply that failed, or that is still being written.
ReplyUnusable(r) == resp[r].attempted /\ (~resp[r].complete \/ resp[r].err)

\* The failure the handler returned itself is not reported again.
SettleFails ==
  /\ pc = "settle" /\ ReplyUnusable(cur)
  /\ Release(cur)
  /\ IF handlerErr = "reply" THEN pc' = "over" /\ closed' = TRUE
     ELSE pc' = "replyError" /\ UNCHANGED closed
  /\ UNCHANGED <<config, cur, handlerErr, verdict, eresp, next, actorVars, wire, doneClosed>>

\* Nobody answered: the loop rejects the request.
SettleRejects ==
  /\ pc = "settle" /\ ~resp[cur].attempted /\ want[cur]
  /\ pc' = "answer" /\ Calls(Loop, "own", "enter")
  /\ UNCHANGED <<config, cur, handlerErr, verdict, resp, eresp, next, closed, wire, doneClosed>>

\* The reply may have failed, or a goroutine of the ErrorHandler was faster.
RejectDone ==
  /\ pc = "answer" /\ Resting
  /\ IF outcome = "nil" THEN pc' = "finish" /\ UNCHANGED resp
     ELSE pc' = "replyError" /\ Release(cur)
  /\ UNCHANGED <<config, cur, handlerErr, verdict, eresp, next, actorVars, closed, wire, doneClosed>>

SettleWithout ==
  /\ pc = "settle" /\ ~resp[cur].attempted /\ ~want[cur]
  /\ EndResponse(cur) /\ pc' = "finish"
  /\ UNCHANGED <<config, cur, handlerErr, verdict, eresp, next, actorVars, closed, wire>>

SettleAnswered ==
  /\ pc = "settle" /\ resp[cur].attempted /\ ~ReplyUnusable(cur)
  /\ pc' = "finish"
  /\ UNCHANGED <<config, cur, handlerErr, verdict, resp, eresp, next, actorVars, closed, wire, doneClosed>>

Finish ==
  /\ pc = "finish"
  /\ Release(cur)
  /\ IF verdict = "continue" THEN pc' = "next" /\ UNCHANGED closed
     ELSE pc' = "over" /\ closed' = TRUE
  /\ UNCHANGED <<config, cur, handlerErr, verdict, eresp, next, actorVars, wire, doneClosed>>

\* handleRequestReplyError: the ErrorHandler hears of the failure and whatever it
\* says, the connection is closed.
HandleRequestReplyError ==
  /\ pc = "replyError"
  /\ closed' = TRUE /\ pc' = "over"
  /\ UNCHANGED <<config, cur, handlerErr, verdict, resp, eresp, next, actorVars, wire, doneClosed>>

LoopSteps ==
  \/ TakeRequest \/ TakeUnhandled \/ UnhandledReplied \/ LoopEnds \/ HandlerReturns
  \/ DefaultRuns \/ DefaultRan \/ ErrorHandlerReturns \/ ErrorResponseExpires \/ NextExpires
  \/ Escalate \/ SettleFails \/ SettleRejects \/ RejectDone \/ SettleWithout \/ SettleAnswered
  \/ Finish \/ HandleRequestReplyError

Next ==
  \/ LoopSteps \/ ConnectionCloses
  \/ \E a \in Actors : CallSteps(a) \/ HandlerResponds(a) \/ ErrorHandlerSends(a) \/ ErrorHandlerCallsNext(a)

Spec == Init /\ [][Next]_vars

--------------------------------------------------------------------------------
(* Properties. *)
\* The values the variables take; the loop handles only requests that came in.
TypeOK ==
  /\ want \in [Requests -> BOOLEAN] /\ errorHandler \in BOOLEAN
  /\ cur \in 0..N /\ pc \in PCs /\ handlerErr \in {"nil", "error", "reply"}
  /\ verdict \in {"continue", "stop", "error"}
  /\ resp \in [Requests -> [active : BOOLEAN, attempted : BOOLEAN, complete : BOOLEAN, err : BOOLEAN, released : BOOLEAN]]
  /\ eresp \in [Requests -> [active : BOOLEAN, attempted : BOOLEAN]]
  /\ next \in [Requests -> [active : BOOLEAN, called : BOOLEAN, complete : BOOLEAN]]
  /\ at \in [Actors -> Places] /\ mode \in [Actors -> Modes] /\ outcome \in {"nil", "refused", "failed"}
  /\ closed \in BOOLEAN
  /\ wire \in Seq(Requests)
  /\ doneClosed \in [Requests -> Nat]

\* SSH matches replies by order alone: the replies sent are those of requests that
\* want one, one for each, in the order of the requests, whatever goroutines of the
\* handlers are still at work.
RepliesInOrder ==
  \A i, j \in 1..Len(wire) : want[wire[i]] /\ (i < j => wire[i] < wire[j])

\* The loop goes on to the next request only when every earlier one that wants a
\* reply has it ("A failed reply leaves the global request stream in an unusable state
\* even when the ErrorHandler otherwise permits continuation"), and it stops only with
\* the connection.
AnsweredOrClosed ==
  /\ pc = "next" => \A r \in 1..cur : want[r] => r \in Range(wire)
  /\ pc = "over" => closed

\* Whoever waits for the response of a request (requestResponse.wait, which the
\* workers of reverse forwards sit in) is woken: once the loop is done with a
\* request, its done is closed, or a call that won the response is about to.  And done is
\* closed at most once (a second close would panic), whoever answers while the loop
\* gives the request up.
WaitersWoken ==
  \A r \in Requests :
    /\ doneClosed[r] <= 1
    /\ r < cur \/ (r = cur /\ pc \in {"next", "over"}) =>
         doneClosed[r] > 0 \/ \E a \in Actors \ {Loop} : a[2] = r /\ at[a] \in {"write", "written", "failed"}
================================================================================
