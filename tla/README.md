# TLA+ verification of ssh-server-go

`ssh-server-go` is a Go library for SSH servers on top of `golang.org/x/crypto/ssh` (`gossh`
below). This directory holds TLA+ modules that model its concurrent core, TLC configurations
that check them on small instances, and TLAPS proofs for every value of the constants.
`PROJECT.json` lists, for each definition, the source lines it models, and for each property a
fault of the code that violates it.

## The system

| Part | Source | State | Operations | Hard behaviour |
|---|---|---|---|---|
| Serve / HandleConn scope | `lifecycle.go`, `server.go` 307-333, 781-1164 | `serveContext`: tracked connections, startup count, authenticated count, `stopping`, `forced`, `drained`; `activeConn` per connection | `newServeContext`, `trackConnection`, `updateCancel`, `updateConnection`, `releaseStartup`, `untrackConnection`, `stopAccepting`, `shutdown`, `force`, `handleConn` | accept loop, context watch, one goroutine and two timers per connection; forced shutdown in the middle of a handshake or a callback; grace period against drain |
| Startup policy | `server.go` 1286-1294, 1448-1488 | none | `effectiveMaxStartups`, `maxStartupsDropRate` | boundaries of integer arithmetic |
| Limiters | `server.go` 1068-1086, 1172-1238 | atomic counters per connection, per scope, per session | `reserve`, `release` | Add, compare, undo are separate steps on several levels |
| Connection resources, workers | `context.go` 69-221 | registered resources, pending acquisitions, worker group | `beginConnectionResourceAcquisition`, `closeAll`, `goRun`, `closeAndWait` | an acquisition that completes while everything is being closed; a closer that waits for an accept it must unblock |
| Sessions | `session.go` | request loop, handler, pty, env, signal and break queues, deferred subsystem answer | `handleRequests`, `startHandler`, `Exit`, `Close`, `Signals`, `Break`, `waitDeferredSubsystem` | request loop, handler and timers race for one answer |
| Global requests | `request.go`, `server.go` 1296-1404 | one `requestResponse` per request | `Accept`, `Reject`, `expire`, `release`, `wait` | late and concurrent answers |
| Channel answers | `server.go` 77-168, 1080-1155 | `trackedNewChannel` | `Accept`, `Reject`, `respondToError` | answers after the handler returned |
| Error dispatch | `error-handling.go`, `lifecycle.go` 283-296 | `errorResponse`, `nextErrorHandler`, 64 slots | `dispatchError`, `send`, `call`, `expire` | blocking handlers, late calls |
| TCP, Unix and agent forwarding | `tcpip.go`, `streamlocal.go`, `agent.go` | table of forwards, pending channel opens | `HandleSSHRequest`, `openForwardedChannel`, cancel | cancel against open, retry against registration |
| Copy | `copy.go` | two copying goroutines | `FullDuplexCopy` | half-close, cancellation, observers |
| Transport | `conn.go`, `proxyproto.go` | deadlines | `updateDeadline`, `clearHandshakeDeadline` | three deadlines on one connection |
| Authentication | `server.go` 376-765 | permissions and keys of an attempt | callback wrappers | state of a failed attempt must not survive |
| Tables, codecs, options | `cipher.go`, `key-exchange.go`, `message-authentication.go`, `codec-util.go`, `options.go`, `ssh.go` | none | conversions, setters | none |

How they meet. `Serve` accepts a connection, `trackConnection` admits it to the scope and
`handleConn` runs in a goroutine of its own. After the handshake handleConn starts *workers*:
one for the global requests and one for each channel. Channel handlers and forwarding handlers
reserve slots in the limiters, acquire network resources through `connectionResources` and start
further workers. The scope's `shutdown` and `force` reach into every connection: they cancel its
context, close its transport and call `closeAll` on its resources, while the connection's own
goroutine may be at any point of its life. Errors of all parts go through `dispatchError` to the
application's `ErrorHandler`. The hazards this leads to are listed, each at its line, in
`PROJECT.json` under `hazards`.

## Modules

| Module | Models | Role |
|---|---|---|
| `StartupPolicy` | pure functions of `server.go` | operators used by `ServeScope`, and `DropRateLine`, what they promise |
| `ServeAbstract` | the promise of `Serve` and `HandleConn` | abstract specification |
| `ServeScope` | one call of `Serve` or `HandleConn` | composes policy, scope, connections and timers; implements `ServeAbstract` |
| `Limiter` | `resourceLimiter`, `connectionChannelLimiter`, session counter | |
| `ConnResources` | `connectionResources`, `connectionWorkers` and their users | |
| `DeferredSubsystem` | `waitDeferredSubsystem` and what it meets | |
| `ReverseForward` | `ForwardedTCPHandler`, `ForwardedUnixHandler`, `forward`, `openForwardedChannel` | composes the forwards with the end of their connection |
| `RequestLoop` | `requestResponse`, `Server.handleRequests`, `errorResponse`, `nextErrorHandler`, `dispatchError` | |
| `SignalDelivery` | `Signals`, `Break`, `drainSignals`, the sends of signal and break requests, `Exit` | component of `SessionRequests` |
| `SessionRequests` | `session.handleRequests`, the request timer, `handleCallbackError`, `startHandler`, the end of `DefaultSessionHandler` | composes the request loop, the handler and `SignalDelivery` |
| `AuthAttempts` | the callbacks of `configForConnection`, `publicKeyAuthState`, `handshakeCallbackFailure`, permissions | component of `Connection` |
| `DuplexCopy` | `FullDuplexCopy` | component of `ChannelWorker` |
| `ChannelWorker` | `trackedNewChannel`, the channel worker of `handleConn`, `DirectTCPIPHandler`, `DirectStreamLocalHandler` | component of `Connection`; composes the worker and `DuplexCopy` |
| `Connection` | one connection from its handshake to the end of a channel | composes `AuthAttempts` and `ChannelWorker` |
| `MC...` | instances for TLC | |
| `ServeScopeProofs`, `LimiterProofs`, `ConnResourcesProofs`, `DeferredProofs`, `ReverseForwardProofs`, `RequestLoopProofs`, `SessionProofs`, `ConnectionProofs` | | theorems about the module of that name (`SessionProofs`: `SessionRequests` and `SignalDelivery`; `ConnectionProofs`: `AuthAttempts`, `ChannelWorker` and `DuplexCopy`; `ServeScopeProofs`: also `StartupPolicy`) |

Conventions: a critical section of a mutex and a single atomic operation are one action; whatever
happens between two of them is a separate action. A Go pointer that may be nil is a sequence of
length at most one, or a constant of its own (`None`, `NoKey`). A module that is called a component
has variables and actions and no specification; the module that composes it runs its actions. An operator `X_Fault` directly before `X` is a faulty version of X that one of
the properties must notice; it is not part of any specification.

### ServeScope

`entry` is the API that was called. The calling goroutine (`main`) goes through `prepare`, the accept loop or the select of
`HandleConn`, and then `shutdown` and `force`; the `context.AfterFunc` that stops accepting is
`watch`. Each connection has a place `pc` in `handleConn`, the fields of its `activeConn`, its two
timers, the cause of its context's cancellation and the set `open` of transport layers not yet
closed: 0 the accepted `net.Conn`, 1 the PROXY protocol wrapper, 2 what `ConnCallback` returned.
`updateConnection` is a section of the lock of its own, after the wrapper exists: the window in
which force can pass is part of the model. Cleanup after force is one action per call: cancel,
close, `closeAll`, for each connection in any order. The random number of `trackConnection` is a
choice between dropping and admitting, limited by the drop rate.

Left out: time (a timer or a deadline may fire whenever it is armed), what channels and requests
do while a connection serves (they can end it: `WorkerCloses`, `TransportFails`), the wording of
errors, and `listenerCloseOnce` (closing twice changes nothing). An application callback is one
step that may be taken late or never. When the accept loop has asked the ErrorHandler about a failed
`Accept`, `DispatchReturns` is the handler's answer, which may never come, and `DispatchAbandoned`
the branch of the select in `dispatchError` that does not wait for it.

### Limiter

A task is one use of a limiter by a goroutine. Its places are the points between the atomic adds
of `reserve` at the connection's level, then the scope's level, then the session count, and of the
releases in reverse. A limit of zero switches a level off as in the code. `resourceLimiter` with a
parent (reverse forwards) and `connectionChannelLimiter` with its global limiter (channels) have
the same steps in the same order.

### ConnResources

An owner is a worker goroutine with one resource at a time: a dialed connection, a listener, or a
connection accepted from the listener of another owner, whose loop does the accepting. Closers are
the callers of `closeAll`: `handleConn`, which afterwards waits for the workers, and `force`.
The acquisition function that `beginConnectionResourceAcquisition` returns has two sections with
the close of a late resource between them. `register`, which only a test calls, is left out.

### DeferredSubsystem

The request loop, the handler and the goroutine of `startHandler` share the answer
(`deferredSubsystemResponse`), whose lock is held while `req.Reply` writes. The client may send
`MaxLater` further requests, all of which want a reply. `wire` is what the client receives. `Exit`
is one action here; what it stops on the way is in `SignalDelivery`.

### ReverseForward

One SSH connection, with either handler (`unix` chooses; they share `forward` and
`openForwardedChannel` and differ in where they look for duplicates, in what a cancel request
waits for and in the order of their deferred calls). `req` and `subject` are the request loop,
which serves one request at a time. `stage` follows a forward through `forward.close`, whose three
effects (the `done` channel, the listener, the slot) are separate steps that others may see
between. `worker` is the goroutine that accepts, `conn` the goroutine of an accepted connection
and `opener` the goroutine that calls `OpenChannel`, which goes on after its caller has given up.
`end` is `handleConn` at the end of the connection: cancel, `closeAll`, `closeAndWait`. `current`
is not state of the code; it is what the client was last told about a key, and with `gaveUp` it
says when an open is sent under the wrong forward. The limiters are those of `Limiter`, each
reservation in one step here, and `channelSlots` counts this connection's forwarded channels only.

Left out: addresses and ports (a key is a value; with port 0 the key is known only after the
listener), the retry delays, and what a copy transfers.

### RequestLoop

The loop takes N global requests. A RequestHandler may call Accept or Reject any number of times,
and a goroutine it leaves behind may do so once; the ErrorHandler may send a response and call the
next handler, and so may its goroutine. Every call is split at the locks of `requestResponse`,
`errorResponse` and `nextErrorHandler`, and the write of a reply is a step between. What the
application decides (its errors, its verdict, its use of the responder) is a choice. `wire` is the
sequence of requests whose replies were sent. A call that its first check refuses changes nothing
and is not an action. What `errorResponse.result` and the next handler return to the application
is left out, since the application may return any verdict.

### SignalDelivery and SessionRequests

A session has one request loop, a handler with its goroutine of `startHandler`, a helper of the
application that calls `Exit` on its own, and a drain for each registration that found signals in
the buffer. `ch` is `sigCh` and `breakCh`, `sigDrain` the drain the fields `sigDrainCancel` and
`sigDrainDone` belong to, `send` the send the request loop is blocked in. The two configuration
mutexes and the two reply mutexes are held across several steps; they are not variables, since who
holds one follows from where the callers and the loop stand (`ConfigFree`, `ReplyFree`). A send on
a channel of the application succeeds, panics because the application has closed the channel, or
ends with its cancel channel or the connection's context: one action each. Signals are numbered by
their requests. `delivered`, `acked` and `dropped` are history: what the application was given, what
the client was told success for, and what met a full buffer.

`SessionRequests` has one action for every way a request type ends. `start` stands for shell, exec
and a subsystem that is answered at once. `RequestRefused` is every refusal without an effect
(malformed, too late, over a limit, denied). `CallbackErrorCloses` is the decision table at the end
of `handleCallbackError`, over what its error handler, the response and the reply came to. The timer's
function is two actions, its compare-and-swap and its close. A handler ends in one of three ways:
through `Exit` (`HandlerReturns`), with a `SessionExitError` whose code `Exit` refuses before it has
stopped or closed anything (`HandlerRefused`), or with the session closed (`HandlerCloses`).

Left out: payload parsing (a request is good or is refused), what the handler's error leads to (that is in
`DeferredSubsystem`), a second `Exit` (refused when everything is stopped), and `winch` being closed
at the end.

### AuthAttempts

The handshake runs on one goroutine, and its requests come from the client: queries for a key,
signed requests, passwords. `callbacks` says what answers each method: a handler of the server, a
callback of the configuration (`custom`), both (`conflict`), nobody, or everybody without
authentication. gossh is external: it caches the answer for the last key, calls
`VerifiedPublicKeyCallback` after a good signature if `PublicKeyCallback` said yes, takes new
callbacks from a partial success and calls `AuthLogCallback` after each attempt that is no
accepted query. Permissions are the set of grants that were written into them, each with the
method and key it was for. `proved` and `unverified` are history: the key of the last request with a
good signature that was not refused, and whether that was a partial success of `PublicKeyCallback`
itself, for which gossh calls no `VerifiedPublicKeyCallback`. `password`
stands for keyboard-interactive and GSSAPI as well, whose wrappers are the same.

### DuplexCopy, ChannelWorker, Connection

`dir` follows the two goroutines of `FullDuplexCopy` and `copyAt` its caller; `observer` is the length of
the queue of callbacks, whose goroutine may never come back from one. `ChannelWorker` has the
worker goroutine, a goroutine an application's handler left behind with the channel, and one its
ErrorHandler left behind with the responder. Each answer is three steps (begun, written,
completed), as in `trackedNewChannel`; `wire` is what the client was told. `Connection` begins with
the handshake; a channel is opened once the connection serves.

Left out: the bytes copied, what a destination is, the authorization callback's reasons, and the
other channels of the connection (they share only slots and the end of the connection, which may
come at any time).

## Runs

| Run | Instance | Shows |
|---|---|---|
| `serve` | 2 connections, 1 startup slot, 1 authenticated slot, handshake timeout, DisconnectCallback; settings of `MaxStartups` in, at the ends of and out of range, up to 110 connections | types, `StartupAccounting`, `AuthenticatedWithinLimit`, `ReturnedClean`, `ImplementsAbstract`, `DropRateRises` |
| `live` | Serve and HandleConn, 1 connection, both wrappers, handshake timeout, maximum lifetime, DisconnectCallback | `NothingLeftOpen`, `CancelReturns` |
| `limiter` | 2 connections, 3 sessions, 1 forwarded channel; limits 2, 2 and 1 | `CountersExact`, `LimitsHold` |
| `resources` | a listener, a connection accepted from it, a dialed one; two closers | no leak (`NothingLeftAfterCloseAll`, `NothingLeftAfterWait`), no lost wake-up and no closer that waits for what it has to unblock (`ConnectionEnds`) |
| `deferred` | 2 later requests | order of answers and of the exit status (`AnsweredInOrder`), `WaitEnds` |
| `deferred_order` | 2 later requests | `NoneSkipped` is violated |
| `reverse` | either handler, 2 forwards of one key, 1 incoming connection, room for 2 forwards and 1 channel | `GrantedForwards`, `NothingLeft`, `CountsExact`, `ChannelsOwned`, `OldOpenOnlyAfterTimeout` |
| `reverse_live` | either handler, 1 forward, 1 incoming connection | `CancelCompletes`, `ConnectionGoes` |
| `requests` | 2 requests, with and without ErrorHandler | `RepliesInOrder`, `AnsweredOrClosed`, `WaitersWoken` |
| `session` | 5 plays of up to 5 requests and 2 registrations, a buffer for 2 signals, 2 environment variables | signals: `SignalsInOrder`, `AckedKept`, `OnlyRegistered`, `AnsweredBeforeExit`; requests: `TimerSparesAccepted`, `LatestWindow`, `EarlyEndCloses`; `SessionEnds` |
| `connection` | every mix of handlers and callbacks, 2 keys, 4 requests; 1 channel of any kind | `KeyIsProved`, `OnlyWinnersGrants`, `OpenAnswered`, `ReleasedIsClosed`, `OtherDirectionKept`, `ForwardEnds` |
| `connection_key` | the same | `PublicKeyUsed` is violated |

Why the bounds are enough. Two connections are what it takes for one to hold the only slot while
the other is refused, for force to find connections at different places, and for a scope to be
drained by the last of several; connections interact only through the sets and counters of the
scope, and the theorems cover any number. With limits of two, two and one, four tasks run into
every limit, alone and together. One listener, one accepted and one dialed connection give every
kind of acquisition and the dependency of an accept on its listener. Two later requests are what
it takes for one to overtake or replace the other; more only repeat that.
Two forwards of one key are what it takes to confuse an old one with a new one; forwards of
different keys share only the limiter, and a channel may be refused at any time since sessions
and other forwards take slots too. Two requests let a goroutine of the first act while the second
is being served. The plays of `session` put each kind of request where its code has a race: signals
before, between and after two registrations (with room in the buffer for fewer than come in),
a break and a registration that takes its channel away, window changes before and after the
handler reads, environment variables beyond both limits, a second start. A client that stops early
is part of every play. Two keys and four requests are what it takes to ask about one key, be
refused with another, succeed partly and then authenticate. Where a configuration names a symmetry set, its elements are interchangeable
model values and no liveness is checked.

The violations are disagreements between the code and its documentation, described with the lines
under `findings` in `PROJECT.json`. A second request received while a deferred subsystem is
undecided replaces the first, which is never answered (`session.go` 329). And a `PublicKeyCallback`
that itself returns a partial success never gets to `VerifiedPublicKeyCallback`, so the key, although
its signature was good, is not recorded, the key of an earlier factor is forgotten, and
`Session.PublicKey` is nil after the next factor succeeds (`server.go` 651-654); `session.go` 64 says
that it "returns the PublicKey used to authenticate". `PublicKeyUsed` is that sentence; `KeyIsProved`,
which holds, says that the key is lost in this case only and never a wrong one.

More windows are visible in the models and have no run of their own:

- The handshake timer asks under the lock whether the connection is still handshaking and cancels
  after it is released (`server.go` 911-915); a connection that has authenticated in between is
  canceled, and `Stop` at 1030 does not help. `server.go` 258 calls `HandshakeTimeout` a "timeout until
  successful authentication".
- `Exit` returns an error for a code that is negative or beyond 32 bits before it closes anything,
  and `startHandler` only reports it (`session.go` 400-402, 724-733): a handler that returns such a
  `SessionExitError` leaves its channel open and its deliveries running (`HandlerRefused`). `ssh.go` 45
  says that returned errors "end the session by default". A request loop or a drain that is blocked
  in a send then stays so, although the client has closed the channel, until somebody calls `Exit` or
  the connection ends; `SessionEnds` makes that exception and no other.
- `Close` is accepted between the decision to reject a subsystem and the writing of the failure
  reply; the reply is lost and the connection is closed (`session.go` 254-267, 425), although
  `server.go` 52 says that Close is refused while a reply is pending.
- The wait of `cancel-tcpip-forward` for pending opens ends with the one second timeout of
  `openForwardedChannel`, whose opener goroutine may have passed its check of `abandoned` and not
  yet have sent the open; it can be sent when the key belongs to a new forward (`tcpip.go`
  404-405, 447-453). `OldOpenOnlyAfterTimeout` shows that this is the only way.
- When gossh answers a signed request from its cache, `VerifiedPublicKeyCallback` runs with the
  context's permissions of whatever attempt came last (`server.go` 523-536); those it returns are
  the right ones, as `OnlyWinnersGrants` shows.
- A signal that finds the buffer full is answered with success and dropped (`session.go` 690-701).
  `AckedKept` makes that exception and no other.

## Fairness

`ServeScope`: goroutines that wait for nothing run, and so does one in a select with a branch that is
ready; `Accept` on a closed listener returns; the grace period ends. Application callbacks and handlers
are assumed to return once the transport of their connection is dead, and nothing is assumed of them
before, of the peer, of new connections, of a cancellation, or of the timers and deadlines of a
connection: `CancelReturns` needs none of them. The ErrorHandler that the accept loop asks need not
return at all; `CancelReturns` rests on `DispatchAbandoned` (`error-handling.go` 401-415).

`ConnResources`: a blocked dial or listen returns when its context is canceled (both get the
connection's context), an accept when its listener is closed, and an owner lets go of its resource
once the context is canceled. A worker does not begin new acquisitions for ever after `closeAll`;
it cannot, since each is refused. `ConnectionEnds` begins when `closeAll` is called: that the accept
it waits for ends is not assumed, but follows from the close of the listener.

`DeferredSubsystem`: the loop, a write (bounded by `subsystemReplyWriteTimeout`) and the result's
goroutine make progress, and a closed connection ends its context. Nothing is assumed of the
handler or of the client.

`ReverseForward`: goroutines that can run do, the registration timer fires, `ListenCallback`
returns once its context has ended (its documentation requires that), `Accept` when its listener
is closed, a copy when its context ends. Nothing makes the client answer an open, and nothing
makes `OpenChannel` return. In `reverse_live` that is the point.

`SessionRequests`: goroutines of the server that can run do, and a closed connection ends its
context. The client need not send or close anything; the application need not receive from a
channel it has registered, close it, call anything or return. `SessionEnds` begins only when the
handler has returned, the client has closed the channel, and `Exit` has begun or the connection is
closed or canceled.

`ChannelWorker`: the worker's own steps and those of a copy, `Read` and `Write` on closed streams
(`copy.go` 28-30 demands that), and an ErrorHandler that returns. Authorization, a dial and a write
end when the connection does. Callbacks of the observer, the client, and goroutines an application
leaves behind owe nothing. `AuthAttempts` has no fairness: a client may stop at any time.

`RequestLoop` states no fairness: what it has to promise is that the loop leaves no request
behind, which is a matter of its states.

## Proofs

Every safety property a passing run checks is also a theorem, for every value of the constants that
satisfies the named assumptions: finite sets of connections, tasks and owners, limits and settings
of the right types, requests and scripts of any length. The runs give the assurance that the
properties are not vacuous and that faults violate them; the theorems that the bounds do not matter.
Each theorem follows from an inductive invariant; none of the properties is inductive alone.

**Scope** (`ServeScopeProofs`). `IndInv` is the conjunction of the types, of `Places` (a connection is
tracked only between its admission and its deletion, and a counted slot belongs to a place where
it is held), `DrainedMeansEmpty`, `StartupAccounting` and `Slots` (the authenticated counter is
the number of holders plus the attempts being undone). That `startups` never becomes negative needs
that it is the size of `startupReserved`, which needs that only tracked connections hold a slot,
which needs that force takes the flag away in the section in which it forgets the connection. From
it follow `TypeCorrect`, `StartupSafe`, `DrainedSafe`, `AuthenticatedSafe` and the action property
`OnlyShrinks`. `ReturnInv` says who is responsible for each open network connection: it is tracked,
or in force's list of cleanups, or in the hands of the goroutine that is about to close it, and the
calling goroutine returns only from places where none of these is left (`ReturnsClean`). `UnwindInv`
follows one goroutine: it knows the outermost layer of its transport, every layer below is inside
it, and it closes that one before it unwinds (`NothingLeftOpenHolds`). The refinement maps the scope
to `ServeAbstract` (a connection is live from its admission until its accepted `net.Conn` is closed)
and shows every step to be an abstract step or a stutter (`Refinement`).

**Startup policy** (in `ServeScopeProofs`). `DropRateRisesHolds` needs no invariant but arithmetic: the
quotient `q` of `rise * m` by `width` satisfies `width * q <= rise * m < width * q + width`, so two
consecutive quotients differ by `rise / width` up to the rounding and never fall.

**Limiters** (`LimiterProofs`). Each counter is the cardinality of the set of tasks at the places in
which they have added and not subtracted; `LimitsSafe` follows since Add returned a value within
the limit to every holder.

**Resources** (`ConnResourcesProofs`). `PendingExact` (the counter is the number of acquirers),
`Channel`, `Closing`, `Responsible` (after the critical section of closeAll an open resource is in the
closer's list or with an acquirer that will close it) and `Waited`.

**Deferred subsystems** (`DeferredProofs`). `DeferredInv` ties `deferredState` to the wire: while it
is 1 nothing is on the wire but the success reply of a write that is not over, with 2 there is at most
a refusal and then a close, and 0 is entered only with the success reply written. The requests
answered, the one in `next` and those not received are one ascending sequence. Hence
`AnsweredInOrderHolds`.

**Reverse forwards** (`ReverseForwardProofs`). The argument has three parts. `ForwardInv`: what the
request loop knows of the forward it works on, which stage a worker finds its forward in, and that an
entry of the table has somebody who will remove it. `ConnInv` and `OpenerInv`: a worker carries at most
one connection in its hands, connections belong to granted forwards, and an opener goes on without
its caller only after a timeout or with the connection canceled (`ChannelsOwnedHolds`). `CountInv`:
both counters and every forward's `pending` are cardinalities of their holders, and a worker that has
waited has no open pending (`CountsExactHolds`). From the counts follows `KeyKept`: a forward keeps its
key as long as an open of it is under way that has not timed out. `GrantedForwardsHolds`,
`NothingLeftHolds` and the action property `OldOpenOnlyAfterTimeoutHolds` are consequences.

**Global requests** (`RequestLoopProofs`). `ReplyInv`: the call that won a response is the only one at
it until the response is complete, and the loop leaves a request only when its response is complete.
So a reply that is being written is always for the request the loop is at, whichever goroutine writes
it (`RepliesInOrderHolds`); the other two properties follow from who may still complete a response.

**Sessions** (`SessionProofs`), in stages. `ExitInv`: one caller at most is inside each configuration
mutex, and Exit has no send before it or behind it. `ChannelInv`: at most one drain runs, for
the channel that is registered, and never beside a send (`OnlyRegisteredHolds`, `AnsweredBeforeExitHolds`).
`OrderInv`: what was delivered, the batch of the running drain, the buffer and the signal being sent are
one ascending sequence (`SignalsInOrderHolds`). `CustodyInv`: an acknowledged signal is somewhere in it
(`AckedKeptHolds`). `TimerInv`, `WindowInv` and `ExitCloses` give the request timer, the window and the
end of the loop. `SessionAssumption` says that the constants are what TLC is given: scripts of known
requests, and registrations of known channels, not more than there are drains.

**Connections** (`ConnectionProofs`). `AuthInv`: the pending key of `publicKeyAuthState` and gossh's
cache agree with the attempt under way, and permissions hold at most the grant of their own attempt
(`KeyIsProvedHolds`, `OnlyWinnersGrantsHolds`). A candidate is there exactly when the attempt was
verified and not refused, which is why the key is lost after an unverified partial success and at no
other time. `AnswerInv`: `trackedNewChannel` admits one answer,
and every way for the worker to leave passes a place that looks at it (`OpenAnsweredHolds`,
`ReleasedIsClosedHolds`). `CopyInv`: a copy closes both streams only for one of its reasons
(`OtherDirectionKeptHolds`), and the observer's queue has room for all its callbacks
(`ObserverNeverBlocks`).

Only model-checked: the liveness properties `CancelReturns`, `ConnectionEnds`, `WaitEnds`,
`CancelCompletes`, `ConnectionGoes`, `SessionEnds` and `ForwardEnds`, since fairness is out of the
prover's reach. `NoneSkipped` and `PublicKeyUsed` are violated. Proved without a run of their own are that the scope is empty
when it is drained (`DrainedMeansEmpty`), that it only shrinks once it has stopped
(`StoppedScopeOnlyShrinks`), that closeAll's channel is exact (`DrainedChannelExact`), that an observer
has room (`ObserverHasRoom`), and the types of `Limiter`, `ConnResources` and `ReverseForward`.

## Plan

Done: startup policy, scope, limiters, resources, deferred subsystems, reverse forwards, global
requests, sessions with their signals and breaks, authentication callbacks, channel answers, direct
forwarding and copies; theorems for all their safety properties. Next:

1. Theorems that go beyond the runs: type correctness of the modules that have none yet
   (`DeferredSubsystem`, `SessionRequests`, `Connection`), and action
   properties (a response is never completed twice, a closed channel is never sent on).
2. The 64 slots of the error dispatch in `lifecycle.go`, the three deadlines of `conn.go`, the
   temporary listener of `agent.go`.

## Not modelled

Algorithm tables, options and logging (no behaviour beyond a constant or an
assignment), the SSH protocol itself and the PROXY protocol parser (libraries), the examples.
