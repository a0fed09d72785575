----------------------------- MODULE ReverseForward -----------------------------
(***************************************************************************)
(* Reverse forwarding on one SSH connection: ForwardedTCPHandler (tcpip.go)*)
(* or ForwardedUnixHandler (streamlocal.go), which share the type forward  *)
(* and openForwardedChannel.                                               *)
(*                                                                         *)
(* The request loop of the connection serves forward and cancel requests   *)
(* one at a time.  Each forward has a worker that accepts connections from *)
(* its listener, each accepted connection a worker that opens a channel to *)
(* the client, and each attempt to open one a goroutine (the opener) that  *)
(* calls OpenChannel.  All of them race with the end of the connection.    *)
(***************************************************************************)
EXTENDS Integers, FiniteSets

CONSTANTS
  Forwards,     \* the forward requests the client makes
  Keys,         \* bound address and port, or socket path
  KeyOf,        \* the key of each forward
  Conns,        \* the connections that come in at the listeners
  ForwardLimit, \* reverse forwards; 0 disables a limit
  ChannelLimit,
  None

ASSUME ForwardsFinite == IsFiniteSet(Forwards) /\ IsFiniteSet(Conns)
ASSUME KeyOfAssumption == KeyOf \in [Forwards -> Keys]
ASSUME NamesDiffer == None \notin Forwards /\ Forwards \cap Conns = {}
ASSUME ForwardLimitsAssumption == ForwardLimit \in Nat /\ ChannelLimit \in Nat

VARIABLES
  unix,         \* the handler: ForwardedUnixHandler rather than ForwardedTCPHandler
  end,          \* how far handleConn has ended the connection
  registered,   \* what connectionResources would close: forwards and connections
  toClose,      \* what closeAll still has to close
  table,        \* the handler's forwards map
  current,      \* the forward that the client was last told it has, of each key
  forwardSlots, \* the counter of the forward limiter
  channelSlots, \* what the counter of the channel limiter holds for these connections
  req,          \* where the request loop stands
  subject,      \* the forward its request is about
  reply,        \* the response to each forward request
  stage,        \* the forward: "new", "refused", or how far its close has come
  pending,      \* forward.pending
  worker,       \* the worker of each forward
  conn,         \* the connection: "new", in its forward's hand, or its worker
  of,           \* the forward it came in at
  sock,         \* it is open
  opener,       \* the goroutine that opens its channel
  gaveUp,       \* the worker stopped waiting for it because the timeout fired
  channel       \* the channel is open

ending == <<end, toClose>>
request == <<req, subject, reply>>
opening == <<opener, gaveUp, channel>>
vars == <<unix, ending, registered, table, current, forwardSlots, channelSlots, request,
          stage, pending, worker, conn, of, sock, opening>>

Ends == {"serving", "canceled", "closing", "closed", "waiting", "done"}
Stages == {"new", "refused", "open", "closing", "signaled", "shut", "closed"}
Requests == {"idle", "listen", "register", "reject", "start", "reply",
             "cancelClose", "cancelWait", "cancelReply", "over"}
WorkerPlaces == {"off", "response", "begin", "accept", "reserve", "open", "start",
                 "close", "wait", "delete", "unregister", "ended"}
ConnPlaces == {"new", "hand", "attempt", "select", "drain", "retry", "failed", "copy",
               "escalating", "cleanup", "half", "gone"}
Answers == {"ok", "race", "error"}
Openers == {"none", "spawned", "calling", "sent"} \cup Answers

Init ==
  /\ unix \in BOOLEAN
  /\ end = "serving" /\ registered = {} /\ toClose = {}
  /\ table = [k \in Keys |-> None] /\ current = [k \in Keys |-> None]
  /\ forwardSlots = 0 /\ channelSlots = 0
  /\ req = "idle" /\ subject = None /\ reply = [f \in Forwards |-> "none"]
  /\ stage = [f \in Forwards |-> "new"] /\ pending = [f \in Forwards |-> 0]
  /\ worker = [f \in Forwards |-> "off"]
  /\ conn = [c \in Conns |-> "new"] /\ of = [c \in Conns |-> None]
  /\ sock = [c \in Conns |-> FALSE]
  /\ opener = [c \in Conns |-> "none"] /\ gaveUp = [c \in Conns |-> FALSE]
  /\ channel = [c \in Conns |-> FALSE]

--------------------------------------------------------------------------------
(* The connection's context, resources and workers, as far as they bear here. *)
Canceled == end # "serving"
ResourcesClosed == end \in {"closing", "closed", "waiting", "done"}
WorkersClosed == end \in {"waiting", "done"}

\* limiter.reserve grants a slot.
Free(n, limit) == limit = 0 \/ n < limit

(* forward.close: the first caller closes, and every caller returns when that *)
(* is done.  f.done is closed, then the listener, then the slot is released.  *)
Done(f) == stage[f] \in {"signaled", "shut", "closed"}
Listening(f) == stage[f] \in {"open", "closing", "signaled"}
CallClose(f) == stage' = IF stage[f] = "open" THEN [stage EXCEPT ![f] = "closing"] ELSE stage

CloseStep(f) ==
  /\ stage[f] \in {"closing", "signaled", "shut"}
  /\ stage' = [stage EXCEPT ![f] = CASE @ = "closing" -> "signaled"
                                     [] @ = "signaled" -> "shut"
                                     [] @ = "shut" -> "closed"]
  /\ forwardSlots' = IF stage[f] = "shut" THEN forwardSlots - 1 ELSE forwardSlots
  /\ UNCHANGED <<unix, ending, registered, table, current, channelSlots, request, pending, worker, conn, of, sock, opening>>

\* The watcher that the worker starts closes the forward when the context ends.
WatcherCloses(f) ==
  /\ worker[f] \notin {"off", "ended"} /\ Canceled /\ stage[f] = "open"
  /\ CallClose(f)
  /\ UNCHANGED <<unix, ending, registered, table, current, forwardSlots, channelSlots, request, pending, worker, conn, of, sock, opening>>

--------------------------------------------------------------------------------
(* Forward requests. *)
RequestGoes(from, to) == req = from /\ req' = to
Over(f) == subject' = None /\ stage' = [stage EXCEPT ![f] = "refused"]
DeleteFrom(f) == IF table[KeyOf[f]] = f THEN [table EXCEPT ![KeyOf[f]] = None] ELSE table
RequestFrame == UNCHANGED <<unix, ending, channelSlots, pending, conn, of, sock, opening>>
TablesSame == UNCHANGED <<table, current>>
ForwardSame == UNCHANGED <<registered, forwardSlots, stage, worker>>

\* A payload that does not parse, no permission, no free slot, a connection that
\* is closing: rejected, or an error, and nothing is held.
RequestRefused(f) ==
  /\ req = "idle" /\ stage[f] = "new"
  /\ Over(f)
  /\ UNCHANGED <<req, reply, registered, forwardSlots, worker>> /\ TablesSame /\ RequestFrame

\* The limiter grants a slot and the acquisition begins.  The Unix handler has
\* looked for a duplicate before.
ReserveForward(f) ==
  /\ stage[f] = "new" /\ (unix => table[KeyOf[f]] = None)
  /\ Free(forwardSlots, ForwardLimit) /\ ~ResourcesClosed
  /\ RequestGoes("idle", "listen")
  /\ subject' = f /\ forwardSlots' = forwardSlots + 1
  /\ UNCHANGED <<registered, reply, stage, worker>> /\ TablesSame /\ RequestFrame

\* There is no listener, or it has no address or another port and is closed
\* again; the slot is given back.
ListenFails ==
  /\ RequestGoes("listen", "idle")
  /\ forwardSlots' = forwardSlots - 1 /\ Over(subject)
  /\ UNCHANGED <<registered, reply, worker>> /\ TablesSame /\ RequestFrame

\* newForward and finishAcquisition(f.close), which closes at once what comes too
\* late; the request goes on all the same.
Listen ==
  /\ RequestGoes("listen", "register")
  /\ stage' = [stage EXCEPT ![subject] = IF ResourcesClosed THEN "closing" ELSE "open"]
  /\ registered' = IF ResourcesClosed THEN registered ELSE registered \cup {subject}
  /\ UNCHANGED <<forwardSlots, subject, reply, worker>> /\ TablesSame /\ RequestFrame

\* finishAcquisition has returned.
Finished(f) == f \in registered \cup toClose \/ stage[f] = "closed"

\* The table is consulted under its lock.
RegisterForward ==
  /\ RequestGoes("register", "start") /\ Finished(subject)
  /\ table[KeyOf[subject]] = None
  /\ table' = [table EXCEPT ![KeyOf[subject]] = subject]
  /\ UNCHANGED <<current, subject, reply>> /\ ForwardSame /\ RequestFrame

\* f is given up: unregistered and closed, then the request is rejected.
GivesUp(from) ==
  /\ RequestGoes(from, "reject")
  /\ registered' = registered \ {subject} /\ CallClose(subject)
  /\ UNCHANGED <<current, forwardSlots, subject, reply, worker>> /\ RequestFrame

RegisterDuplicate ==
  /\ GivesUp("register") /\ UNCHANGED table
  /\ Finished(subject) /\ table[KeyOf[subject]] # None

StartForward ==
  /\ ~WorkersClosed
  /\ RequestGoes("start", "reply")
  /\ worker' = [worker EXCEPT ![subject] = "response"]
  /\ UNCHANGED <<registered, forwardSlots, subject, reply, stage>> /\ TablesSame /\ RequestFrame

\* The connection waits for its workers already and starts none.
StartRefused_KeepsEntry == WorkersClosed /\ GivesUp("start") /\ UNCHANGED table  \* fault
StartRefused == WorkersClosed /\ GivesUp("start") /\ table' = DeleteFrom(subject)

\* The rejection is sent once f.close has returned.
RejectClosed ==
  /\ RequestGoes("reject", "idle") /\ subject' = None
  /\ stage[subject] = "closed"
  /\ UNCHANGED reply /\ TablesSame /\ ForwardSame /\ RequestFrame

\* response.Accept: the client knows the forward, and then the worker does.
AcceptForward ==
  /\ RequestGoes("reply", "idle") /\ subject' = None
  /\ current' = [current EXCEPT ![KeyOf[subject]] = subject]
  /\ reply' = [reply EXCEPT ![subject] = "accepted"]
  /\ UNCHANGED table /\ ForwardSame /\ RequestFrame

\* The reply cannot be written, and the request loop ends the connection; or a
\* handler around this one has rejected the request.
ReplyFails ==
  /\ req = "reply" /\ req' \in {"idle", "over"} /\ subject' = None
  /\ reply' = [reply EXCEPT ![subject] = "failed"]
  /\ TablesSame /\ ForwardSame /\ RequestFrame

--------------------------------------------------------------------------------
(* Cancel requests; one for a key that is not in the table changes nothing. *)
CancelForward(k) ==
  /\ table[k] # None
  /\ RequestGoes("idle", "cancelClose")
  /\ subject' = table[k] /\ CallClose(table[k])
  /\ UNCHANGED <<registered, forwardSlots, reply, worker>> /\ TablesSame /\ RequestFrame

\* The TCP handler goes on to wait for the pending opens, the Unix handler does
\* not and leaves the entry to the worker.
CancelClosed ==
  /\ RequestGoes("cancelClose", IF unix THEN "cancelReply" ELSE "cancelWait")
  /\ stage[subject] = "closed"
  /\ UNCHANGED <<subject, reply>> /\ TablesSame /\ ForwardSame /\ RequestFrame

CancelDeletesWhen(waited) ==
  /\ RequestGoes("cancelWait", "cancelReply") /\ waited
  /\ table' = DeleteFrom(subject)
  /\ UNCHANGED <<current, subject, reply>> /\ ForwardSame /\ RequestFrame
CancelDeletes_NoWait == CancelDeletesWhen(TRUE)  \* fault: opens are pending
CancelDeletes == CancelDeletesWhen(pending[subject] = 0)

CancelReplied ==
  /\ req = "cancelReply" /\ req' \in {"idle", "over"} /\ subject' = None
  /\ current' = IF req' = "idle" THEN [current EXCEPT ![KeyOf[subject]] = None] ELSE current
  /\ UNCHANGED <<table, reply>> /\ ForwardSame /\ RequestFrame

\* The channel of requests is closed with the connection.
RequestLoopEnds ==
  /\ Canceled
  /\ RequestGoes("idle", "over")
  /\ UNCHANGED <<subject, reply>> /\ TablesSame /\ ForwardSame /\ RequestFrame

--------------------------------------------------------------------------------
(* The worker of a forward. *)
WorkerGoes(f, from, to) == worker[f] = from /\ worker' = [worker EXCEPT ![f] = to]
WorkerFrame == UNCHANGED <<unix, ending, current, forwardSlots, request, opening>>

\* A step that changes nothing but the worker's place.
WorkerMoves(f, from, to) ==
  /\ WorkerGoes(f, from, to)
  /\ UNCHANGED <<registered, table, channelSlots, stage, pending, conn, of, sock>> /\ WorkerFrame

\* The connection that the worker has accepted and not yet passed on.
Hand(f) == CHOOSE c \in Conns : of[c] = f /\ conn[c] = "hand"

\* It is dropped: unregistered and closed.
Drop(c) ==
  /\ registered' = registered \ {c}
  /\ sock' = [sock EXCEPT ![c] = FALSE] /\ conn' = [conn EXCEPT ![c] = "gone"]
  /\ UNCHANGED <<table, stage, of>>

\* requestResponse.wait returns with the response, or with the context.
ResponseKnown(f) ==
  /\ reply[f] # "none"
  /\ WorkerMoves(f, "response", IF reply[f] = "accepted" THEN "begin" ELSE "close")
ResponseCanceled(f) == Canceled /\ WorkerMoves(f, "response", "close")

BeginAccept(f) == WorkerMoves(f, "begin", IF ResourcesClosed THEN "close" ELSE "accept")

\* A connection comes; finishAcquisition closes at once what comes too late.
Accept(f, c) ==
  /\ Listening(f) /\ conn[c] = "new"
  /\ WorkerGoes(f, "accept", "reserve")
  /\ of' = [of EXCEPT ![c] = f] /\ conn' = [conn EXCEPT ![c] = "hand"]
  /\ sock' = [sock EXCEPT ![c] = ~ResourcesClosed]
  /\ registered' = IF ResourcesClosed THEN registered ELSE registered \cup {c}
  /\ UNCHANGED <<table, channelSlots, stage, pending>> /\ WorkerFrame

\* Accept fails, not for a closed listener, and the ErrorHandler lets the worker
\* go on; the wait before the next attempt is over.
AcceptRetried(f) == ~Canceled /\ Listening(f) /\ WorkerMoves(f, "accept", "begin")

\* The listener is closed, the context has ended, or the ErrorHandler says stop.
AcceptStops(f) == WorkerMoves(f, "accept", "close")

ReserveChannel(f) ==
  /\ Free(channelSlots, ChannelLimit)
  /\ WorkerGoes(f, "reserve", "open")
  /\ channelSlots' = channelSlots + 1
  /\ UNCHANGED <<registered, table, stage, pending, conn, of, sock>> /\ WorkerFrame

\* There is none left; the connection's sessions and other channels have taken the
\* rest.
NoChannel(f) ==
  /\ ChannelLimit > 0
  /\ WorkerGoes(f, "reserve", "begin")
  /\ Drop(Hand(f))
  /\ UNCHANGED <<channelSlots, pending>> /\ WorkerFrame

\* forward.beginOpen.
BeginOpen(f) ==
  /\ stage[f] = "open"
  /\ WorkerGoes(f, "open", "start")
  /\ pending' = [pending EXCEPT ![f] = @ + 1]
  /\ UNCHANGED <<registered, table, channelSlots, stage, conn, of, sock>> /\ WorkerFrame

NoOpen(f) ==
  /\ stage[f] # "open"
  /\ WorkerGoes(f, "open", "close")
  /\ channelSlots' = channelSlots - 1 /\ Drop(Hand(f))
  /\ UNCHANGED pending /\ WorkerFrame

StartConn(f) ==
  /\ ~WorkersClosed
  /\ WorkerGoes(f, "start", "begin")
  /\ conn' = [conn EXCEPT ![Hand(f)] = "attempt"]
  /\ UNCHANGED <<registered, table, channelSlots, stage, pending, of, sock>> /\ WorkerFrame

\* No worker starts any more; the TCP handler goes back to its loop.
StartConnRefused(f) ==
  /\ WorkersClosed
  /\ WorkerGoes(f, "start", IF unix THEN "close" ELSE "begin")
  /\ channelSlots' = channelSlots - 1 /\ Drop(Hand(f))
  /\ pending' = [pending EXCEPT ![f] = @ - 1]
  /\ WorkerFrame

\* The deferred calls: close, wait for the opens, remove the entry, unregister.
WorkerCloses(f) ==
  /\ WorkerGoes(f, "close", "wait")
  /\ CallClose(f)
  /\ UNCHANGED <<registered, table, channelSlots, pending, conn, of, sock>> /\ WorkerFrame

WorkerWaited(f) == stage[f] = "closed" /\ pending[f] = 0 /\ WorkerMoves(f, "wait", "delete")

WorkerDeletesFrom(f, rest) ==
  /\ WorkerGoes(f, "delete", "unregister")
  /\ table' = rest
  /\ UNCHANGED <<registered, channelSlots, stage, pending, conn, of, sock>> /\ WorkerFrame
WorkerDeletes_Any(f) == WorkerDeletesFrom(f, [table EXCEPT ![KeyOf[f]] = None])  \* fault
WorkerDeletes(f) == WorkerDeletesFrom(f, DeleteFrom(f))

WorkerEnds(f) ==
  /\ WorkerGoes(f, "unregister", "ended")
  /\ registered' = registered \ {f}
  /\ UNCHANGED <<table, channelSlots, stage, pending, conn, of, sock>> /\ WorkerFrame

--------------------------------------------------------------------------------
(* The worker of an accepted connection: openForwardedChannel, then the copy. *)
ConnGoes(c, from, to) == conn[c] \in from /\ conn' = [conn EXCEPT ![c] = to]
ConnFrame == UNCHANGED <<unix, ending, table, current, forwardSlots, request, worker, of>>
StillHeld == UNCHANGED <<registered, channelSlots, sock, channel>>

\* A step that changes nothing but the worker's place.
ConnMoves(c, from, to) ==
  ConnGoes(c, from, to) /\ UNCHANGED <<stage, pending, opener, gaveUp>> /\ StillHeld /\ ConnFrame

\* Fault: endOpen is forgotten.
OpenReturns_NoEnd(c, from, to) ==
  ConnGoes(c, from, to) /\ UNCHANGED <<stage, pending>> /\ StillHeld /\ ConnFrame

\* openForwardedChannel returns, and endOpen is called.
OpenReturns(c, from, to) ==
  /\ ConnGoes(c, from, to)
  /\ pending' = [pending EXCEPT ![of[c]] = @ - 1]
  /\ UNCHANGED stage /\ StillHeld /\ ConnFrame

\* The worker waits for the opener (otherwise `abandoned` is closed), and takes
\* its result.
Selects == {"select", "drain"}
Selecting(c) == conn[c] \in Selects
Takes(c, result) ==
  opener[c] = result /\ opener' = [opener EXCEPT ![c] = "none"] /\ UNCHANGED gaveUp

\* The head of the loop: the context and f.done are looked at first.
AttemptIf(c, goesOn) ==
  /\ ConnGoes(c, {"attempt"}, "select") /\ goesOn
  /\ opener' = [opener EXCEPT ![c] = "spawned"]
  /\ UNCHANGED <<stage, pending, gaveUp>> /\ StillHeld /\ ConnFrame
Attempt_Unchecked(c) == AttemptIf(c, TRUE)  \* fault
Attempt(c) == AttemptIf(c, ~Canceled /\ ~Done(of[c]))

Opened(c) == Takes(c, "ok") /\ OpenReturns(c, Selects, "copy")

\* The client does not know the forward yet: the open is tried again later.
OpenRaced(c) ==
  /\ Takes(c, "race")
  /\ ConnGoes(c, {"select"}, "retry")
  /\ UNCHANGED <<stage, pending>> /\ StillHeld /\ ConnFrame
Retry(c) == ConnMoves(c, {"retry"}, "attempt")

\* The forward is done while the open is under way: its answer is waited for,
\* and the open is not tried again.
Drains(c) == ConnMoves(c, {"select"}, "drain") /\ Done(of[c])

OpenFailed(c) ==
  \/ Takes(c, "error") /\ OpenReturns(c, Selects, "failed")
  \/ Takes(c, "race") /\ OpenReturns(c, {"drain"}, "failed")

\* The forward is done and no open is under way, or the context has ended.
OpenStopped(c) ==
  /\ OpenReturns(c, {"attempt", "retry"} \cup Selects, "failed")
  /\ Canceled \/ (Done(of[c]) /\ ~Selecting(c))
  /\ UNCHANGED <<opener, gaveUp>>

\* forwardedChannelRegistrationTimeout is over.
OpenTimesOutIn(c, places) ==
  /\ OpenReturns(c, places, "failed")
  /\ gaveUp' = [gaveUp EXCEPT ![c] = TRUE] /\ UNCHANGED opener
OpenTimesOut_Once(c) == OpenTimesOutIn(c, {"select", "retry"})  \* fault: not while draining
OpenTimesOut(c) == OpenTimesOutIn(c, Selects \cup {"retry"})

\* The failed open of a forward that is done is nobody's business; any other, and
\* a failed copy, are dispatched, and the ErrorHandler may let the forward live ...
FailureTolerated(c) == ConnMoves(c, {"failed"}, "cleanup")
CopyEnds(c) == ConnMoves(c, {"copy"}, "cleanup")

\* ... or not: f.close.
FailureCloses(c) ==
  /\ ConnGoes(c, {"copy", "failed"}, "escalating")
  /\ conn[c] = "failed" => ~Done(of[c])
  /\ CallClose(of[c])
  /\ UNCHANGED <<pending, opener, gaveUp>> /\ StillHeld /\ ConnFrame
Escalated(c) == ConnMoves(c, {"escalating"}, "cleanup") /\ stage[of[c]] = "closed"

\* The deferred calls.  The channel, if this worker took it, is closed; then the TCP
\* handler releases the slot and closes the connection, the Unix handler does it
\* the other way round.
CleansUp(c) ==
  /\ ConnGoes(c, {"cleanup"}, "half")
  /\ channel' = [channel EXCEPT ![c] = @ /\ opener[c] # "none"]
  /\ channelSlots' = IF unix THEN channelSlots ELSE channelSlots - 1
  /\ sock' = [sock EXCEPT ![c] = @ /\ ~unix]
  /\ UNCHANGED <<registered, stage, pending, opener, gaveUp>> /\ ConnFrame

ConnEnds(c) ==
  /\ ConnGoes(c, {"half"}, "gone")
  /\ channelSlots' = IF unix THEN channelSlots - 1 ELSE channelSlots
  /\ sock' = [sock EXCEPT ![c] = FALSE] /\ registered' = registered \ {c}
  /\ UNCHANGED <<stage, pending, opening>> /\ ConnFrame

--------------------------------------------------------------------------------
(* The opener. *)
OpenerGoes(c, from, to) == opener[c] \in from /\ opener' = [opener EXCEPT ![c] = to]
OpenerFrame == UNCHANGED <<registered, channelSlots, stage, sock, pending, conn, gaveUp>> /\ ConnFrame

OpenerStarts(c) ==
  /\ OpenerGoes(c, {"spawned"}, IF Selecting(c) THEN "calling" ELSE "none")
  /\ UNCHANGED channel /\ OpenerFrame

\* OpenChannel sends its message; the client looks the key up when it comes.
OpenSent(c) == OpenerGoes(c, {"calling"}, "sent") /\ UNCHANGED channel /\ OpenerFrame

\* OpenChannel returns: the client agrees, or does not know the forward, or
\* refuses, or the connection is gone.
OpenAnswered(c, answer) ==
  /\ OpenerGoes(c, {"sent"}, answer)
  /\ channel' = [channel EXCEPT ![c] = answer = "ok"]
  /\ OpenerFrame

\* Nobody takes the result: a channel that comes too late is closed.
OpenerAbandonsLeaving(c, left) ==
  /\ ~Selecting(c) /\ OpenerGoes(c, Answers, "none")
  /\ channel' = [channel EXCEPT ![c] = left]
  /\ OpenerFrame
OpenerAbandons_Leaks(c) == OpenerAbandonsLeaving(c, channel[c])  \* fault
OpenerAbandons(c) == OpenerAbandonsLeaving(c, FALSE)

--------------------------------------------------------------------------------
(* handleConn at the end of the connection. *)
EndFrame == UNCHANGED <<unix, table, current, forwardSlots, channelSlots, request, pending, worker, conn, of, opening>>
EndMoves(from, to) ==
  end = from /\ end' = to /\ UNCHANGED <<toClose, registered, stage, sock>> /\ EndFrame

\* The client leaves, a deadline passes, a shutdown forces the connection, or an
\* error has it closed.
ConnectionEnds == EndMoves("serving", "canceled")

CloseAll ==
  /\ end = "canceled" /\ end' = "closing"
  /\ toClose' = registered /\ registered' = {}
  /\ UNCHANGED <<stage, sock>> /\ EndFrame

\* closeAll calls f.close, which returns at once when it is done, ...
CloseAllCalls(f) ==
  /\ f \in toClose /\ stage[f] \in {"open", "closed"}
  /\ CallClose(f)
  /\ toClose' = IF stage[f] = "closed" THEN toClose \ {f} ELSE toClose
  /\ UNCHANGED <<end, registered, sock>> /\ EndFrame

\* ... or closes a connection.
CloseAllConn(c) ==
  /\ c \in toClose
  /\ toClose' = toClose \ {c} /\ sock' = [sock EXCEPT ![c] = FALSE]
  /\ UNCHANGED <<end, registered, stage>> /\ EndFrame

\* The acquisitions under way when closeAll came.
Acquiring ==
  \/ req = "listen" \/ (req = "register" /\ ~Finished(subject))
  \/ \E f \in Forwards : worker[f] = "accept"

CloseAllReturns == toClose = {} /\ ~Acquiring /\ EndMoves("closing", "closed")
CloseWorkers == EndMoves("closed", "waiting")

\* Every worker has returned: the request loop, the forwards, the connections.
WorkersDone ==
  /\ req = "over" /\ \A f \in Forwards : worker[f] \in {"off", "ended"}
  /\ \A c \in Conns : conn[c] \in {"new", "gone"}
  /\ EndMoves("waiting", "done")

Terminated == end = "done" /\ UNCHANGED vars

--------------------------------------------------------------------------------
\* What each goroutine does once it runs, but for what takes somebody outside.
RequestRuns ==
  \/ RegisterForward \/ RegisterDuplicate \/ StartForward \/ StartRefused \/ RejectClosed
  \/ AcceptForward \/ ReplyFails \/ CancelClosed \/ CancelDeletes \/ CancelReplied \/ RequestLoopEnds

WorkerRuns(f) ==
  \/ ResponseKnown(f) \/ ResponseCanceled(f) \/ BeginAccept(f)
  \/ ReserveChannel(f) \/ NoChannel(f) \/ BeginOpen(f) \/ NoOpen(f)
  \/ StartConn(f) \/ StartConnRefused(f)
  \/ WorkerCloses(f) \/ WorkerWaited(f) \/ WorkerDeletes(f) \/ WorkerEnds(f)

ConnRuns(c) ==
  \/ Attempt(c) \/ Opened(c) \/ OpenRaced(c) \/ Retry(c) \/ Drains(c) \/ OpenFailed(c)
  \/ OpenStopped(c) \/ OpenTimesOut(c)
  \/ FailureTolerated(c) \/ Escalated(c) \/ CleansUp(c) \/ ConnEnds(c)

EndRuns ==
  \/ CloseAll \/ CloseAllReturns \/ CloseWorkers \/ WorkersDone
  \/ \E f \in Forwards : CloseAllCalls(f)
  \/ \E c \in Conns : CloseAllConn(c)

Next ==
  \/ \E f \in Forwards : RequestRefused(f) \/ ReserveForward(f)
  \/ Listen \/ ListenFails \/ RequestRuns
  \/ \E k \in Keys : CancelForward(k)
  \/ \E f \in Forwards :
       \/ CloseStep(f) \/ WatcherCloses(f) \/ WorkerRuns(f)
       \/ AcceptRetried(f) \/ AcceptStops(f) \/ \E c \in Conns : Accept(f, c)
  \/ \E c \in Conns :
       \/ ConnRuns(c) \/ FailureCloses(c) \/ CopyEnds(c)
       \/ OpenerStarts(c) \/ OpenSent(c) \/ OpenerAbandons(c)
       \/ \E answer \in Answers : OpenAnswered(c, answer)
  \/ ConnectionEnds \/ EndRuns \/ Terminated

Spec == Init /\ [][Next]_vars

\* Fairness: goroutines that can run do; ListenCallback returns once the context
\* has ended, Accept when its listener is closed, a copy when the context ends; the
\* registration timer fires.  Nothing makes the client ask, answer an open or
\* leave, and nobody has to connect.
ListenUnblocked == Canceled /\ (Listen \/ ListenFails)
AcceptUnblocked(f) == ~Listening(f) /\ AcceptStops(f)
CopyUnblocked(c) == Canceled /\ CopyEnds(c)

FairSpec ==
  /\ Spec
  /\ WF_vars(RequestRuns) /\ WF_vars(ListenUnblocked) /\ WF_vars(EndRuns)
  /\ \A f \in Forwards :
       /\ WF_vars(CloseStep(f)) /\ WF_vars(WatcherCloses(f))
       /\ WF_vars(WorkerRuns(f)) /\ WF_vars(AcceptUnblocked(f))
  /\ \A c \in Conns : WF_vars(ConnRuns(c)) /\ WF_vars(CopyUnblocked(c))

--------------------------------------------------------------------------------
\* The type invariant; no counter is ever negative, which for forward.pending
\* would be a panic.
TypeOK ==
  /\ unix \in BOOLEAN /\ end \in Ends
  /\ registered \subseteq Forwards \cup Conns /\ toClose \subseteq Forwards \cup Conns
  /\ table \in [Keys -> Forwards \cup {None}] /\ current \in [Keys -> Forwards \cup {None}]
  /\ forwardSlots \in Nat /\ channelSlots \in Nat
  /\ req \in Requests /\ subject \in Forwards \cup {None}
  /\ reply \in [Forwards -> {"none", "accepted", "failed"}]
  /\ stage \in [Forwards -> Stages] /\ pending \in [Forwards -> Nat]
  /\ worker \in [Forwards -> WorkerPlaces]
  /\ conn \in [Conns -> ConnPlaces] /\ of \in [Conns -> Forwards \cup {None}]
  /\ sock \in [Conns -> BOOLEAN] /\ channel \in [Conns -> BOOLEAN]
  /\ opener \in [Conns -> Openers] /\ gaveUp \in [Conns -> BOOLEAN]

\* Who holds a slot of each limiter, and whose open of f is pending.
ForwardHolders ==
  {f \in Forwards : \/ stage[f] \in {"open", "closing", "signaled", "shut"}
                    \/ subject = f /\ req = "listen"}
ChannelHolders ==
  {c \in Conns : \/ conn[c] \in ConnPlaces \ {"new", "hand", "half", "gone"}
                 \/ conn[c] = "half" /\ unix
                 \/ conn[c] = "hand" /\ worker[of[c]] \in {"open", "start"}}
PendingOpens(f) ==
  {c \in Conns : of[c] = f /\ \/ conn[c] \in {"attempt", "select", "drain", "retry"}
                              \/ conn[c] = "hand" /\ worker[f] = "start"}

\* Whatever fails or is refused on the way, both limiters count exactly the
\* listeners and connections there are and stay within their limits; and
\* forward.pending counts the opens under way, so that what waits for it waits for
\* each of them, and none is under way or begins after the worker has waited.
CountsExact ==
  /\ forwardSlots = Cardinality(ForwardHolders) /\ (ForwardLimit > 0 => forwardSlots <= ForwardLimit)
  /\ channelSlots = Cardinality(ChannelHolders) /\ (ChannelLimit > 0 => channelSlots <= ChannelLimit)
  /\ \A f \in Forwards :
       /\ pending[f] = Cardinality(PendingOpens(f))
       /\ worker[f] \in {"delete", "unregister", "ended"} => pending[f] = 0

\* A forward the client was granted can be canceled as long as it listens: its
\* entry is in the table, whoever removes entries of the same key; and connections
\* are forwarded only under a forward that the client was granted.
GrantedForwards ==
  /\ \A f \in Forwards : reply[f] = "accepted" /\ stage[f] = "open" => table[KeyOf[f]] = f
  /\ \A c \in Conns : of[c] # None => reply[of[c]] = "accepted"

\* The open of c is sent now, on a connection that goes on, and the client has
\* another forward of that key.
Misdirected(c) ==
  /\ ~Canceled /\ opener[c] = "calling" /\ opener'[c] = "sent"
  /\ current[KeyOf[of[c]]] \notin {None, of[c]}

\* "Keep old channel opens from reaching a new forward with this key": whoever
\* cancels or ends a forward keeps its key from being reused while an open of it is
\* under way, but for an open whose timeout has fired.
OldOpenOnlyAfterTimeout == [][\A c \in Conns : Misdirected(c) => gaveUp[c]]_vars

\* Every open channel has somebody who will close it: the worker that copies, or
\* the opener whose result came too late.
ChannelsOwned ==
  \A c \in Conns : channel[c] => opener[c] = "ok" \/ conn[c] \in {"copy", "escalating", "cleanup"}

\* When the connection has waited for its workers, nothing of its forwards is
\* left: no listener, no connection, no slot, and no entry in the handler's table,
\* which outlives the connection.
NothingLeft ==
  end = "done" =>
    /\ \A f \in Forwards : stage[f] \in {"new", "refused", "closed"}
    /\ \A c \in Conns : ~sock[c]
    /\ forwardSlots = 0 /\ channelSlots = 0
    /\ \A k \in Keys : table[k] = None

\* A cancel request is answered, and a forward that was closed, by whomever, frees
\* its key, although the client may never answer the opens that both wait for.
CancelCompletes ==
  /\ (req \in {"cancelClose", "cancelWait"}) ~> (req \in {"idle", "over"})
  /\ \A f \in Forwards : (stage[f] = "closed" /\ table[KeyOf[f]] = f) ~> (table[KeyOf[f]] # f)

\* The connection that ends gets rid of all workers of its forwards.
ConnectionGoes == (end = "canceled") ~> (end = "done")
================================================================================
