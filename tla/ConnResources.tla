------------------------------ MODULE ConnResources ------------------------------
(***************************************************************************)
(* The resources and workers of one SSH connection (context.go):           *)
(* connectionResources, which the ending connection and a forced shutdown  *)
(* both close, and connectionWorkers, which the ending connection waits    *)
(* for.                                                                    *)
(*                                                                         *)
(* An owner is a worker goroutine that acquires one resource at a time: a  *)
(* dialed connection, a listener, or a connection accepted from a listener *)
(* another owner holds.  Each critical section of connectionResources.mu   *)
(* and of connectionWorkers.mu is one step, and so is each call made       *)
(* outside of them.                                                        *)
(***************************************************************************)
EXTENDS Integers, FiniteSets

CONSTANTS
  Owners,
  Listener,   \* the owner whose listener an owner accepts from, or NoListener
  NoListener,
  Closers,    \* the callers of closeAll
  Conn        \* the one among them that is handleConn; the others force

ASSUME OwnersFinite == IsFiniteSet(Owners)
ASSUME ListenerAssumption == Listener \in [Owners -> Owners \cup {NoListener}] /\ NoListener \notin Owners
ASSUME ConnAssumption == Conn \in Closers

VARIABLES
  closed,               \* connectionResources.closed
  resources,            \* the owners whose resource is registered
  pendingAcquisitions,
  acquisitionsDrained,  \* the channel: "nil", "open" or "closed"
  closeDone,            \* the channel closeDone is closed
  workersClosed,        \* connectionWorkers.closed
  canceled,             \* the connection's context
  owner,                \* where each owner stands; "off": no goroutine
  open,                 \* the resource of each owner is open
  closer,               \* where each closer stands
  toClose               \* the resources closeAll still has to close

resourceVars == <<closed, resources, pendingAcquisitions, acquisitionsDrained>>
vars == <<resourceVars, closeDone, workersClosed, canceled, owner, open, closer, toClose>>

\* The places from the begin of an acquisition to the end of finishAcquisition.
PendingPlaces == {"acquiring", "acquired", "failed", "closing", "finishing", "finishingNil"}
OwnerPlaces == PendingPlaces \cup {"off", "running", "held", "unregistered", "closedFirst"}
CloserPlaces == {"idle", "closing", "waitDone", "returned", "waitWorkers", "done"}

Init ==
  /\ closed = FALSE /\ resources = {} /\ pendingAcquisitions = 0 /\ acquisitionsDrained = "nil"
  /\ closeDone = FALSE /\ workersClosed = FALSE /\ canceled = FALSE
  /\ owner = [o \in Owners |-> "off"] /\ open = [o \in Owners |-> FALSE]
  /\ closer = [c \in Closers |-> "idle"] /\ toClose = {}

--------------------------------------------------------------------------------
(* Owners. *)
OwnerGoes(o, from, to) == owner[o] = from /\ owner' = [owner EXCEPT ![o] = to]
Shut(o) == open' = [open EXCEPT ![o] = FALSE]
CloserFrame == UNCHANGED <<closeDone, workersClosed, canceled, closer, toClose>>

\* The owners that accept, in o's own goroutine, from the listener o holds.
AcceptsFrom(o) == {a \in Owners : Listener[a] = o /\ owner[a] \in PendingPlaces}

\* Fault: a worker starts after closeAndWait has begun to wait.
StartWorker_Unchecked(o) ==
  /\ OwnerGoes(o, "off", "running")
  /\ closer[Conn] = "idle" \/ \E p \in Owners : owner[p] # "off"
  /\ UNCHANGED <<resourceVars, open>> /\ CloserFrame

\* goRun, called by the channel loop of handleConn or by another worker; it
\* refuses once closeAndWait has begun.
StartWorker(o) ==
  /\ ~workersClosed
  /\ OwnerGoes(o, "off", "running")
  /\ closer[Conn] = "idle" \/ \E p \in Owners : owner[p] # "off"
  /\ UNCHANGED <<resourceVars, open>> /\ CloserFrame

\* beginConnectionResourceAcquisition; it refuses after closeAll.
BeginAcquisition(o) ==
  /\ ~closed
  /\ Listener[o] # NoListener => owner[Listener[o]] = "held"
  /\ OwnerGoes(o, "running", "acquiring")
  /\ pendingAcquisitions' = pendingAcquisitions + 1
  /\ UNCHANGED <<closed, resources, acquisitionsDrained, open>> /\ CloserFrame

\* Dial, Listen or Accept returns; a closed listener accepts nothing.
Acquired(o) ==
  /\ Listener[o] # NoListener => open[Listener[o]]
  /\ OwnerGoes(o, "acquiring", "acquired")
  /\ open' = [open EXCEPT ![o] = TRUE]
  /\ UNCHANGED resourceVars /\ CloserFrame

AcquireFails(o) ==
  /\ OwnerGoes(o, "acquiring", "failed")
  /\ UNCHANGED <<resourceVars, open>> /\ CloserFrame

\* finishAcquisition(closeFn), first section: the resource is registered, unless
\* closeAll came first; then the acquirer closes it itself.
FinishRegisters(o) ==
  /\ OwnerGoes(o, "acquired", IF closed THEN "closing" ELSE "finishing")
  /\ resources' = IF closed THEN resources ELSE resources \cup {o}
  /\ UNCHANGED <<closed, pendingAcquisitions, acquisitionsDrained, open>> /\ CloserFrame

FinishCloses(o) ==
  /\ OwnerGoes(o, "closing", "finishing")
  /\ Shut(o)
  /\ UNCHANGED resourceVars /\ CloserFrame

\* finishAcquisition(nil), first section: there is nothing to register.
FinishNil(o) ==
  /\ OwnerGoes(o, "failed", "finishingNil")
  /\ UNCHANGED <<resourceVars, open>> /\ CloserFrame

\* Its second section: the acquisition is over, and the last one wakes closeAll.
AcquisitionEnds ==
  /\ pendingAcquisitions' = pendingAcquisitions - 1
  /\ acquisitionsDrained' =
       IF closed /\ pendingAcquisitions = 1 /\ acquisitionsDrained = "open"
       THEN "closed" ELSE acquisitionsDrained
  /\ UNCHANGED <<closed, resources>>

FinishHolds(o) ==
  /\ OwnerGoes(o, "finishing", "held")
  /\ AcquisitionEnds
  /\ UNCHANGED open /\ CloserFrame

FinishFails(o) ==
  /\ OwnerGoes(o, "finishingNil", "running")
  /\ AcquisitionEnds
  /\ UNCHANGED open /\ CloserFrame

\* A held resource is closed from elsewhere: its peer, a cancel request, or the
\* watcher of the canceled context.
ClosedElsewhere(o) ==
  /\ owner[o] = "held" /\ open[o]
  /\ Shut(o)
  /\ UNCHANGED <<resourceVars, owner>> /\ CloserFrame

\* The owner is through with its resource: it unregisters and closes it ...
Unregister(o) ==
  /\ AcceptsFrom(o) = {}
  /\ OwnerGoes(o, "held", "unregistered")
  /\ resources' = resources \ {o}
  /\ UNCHANGED <<closed, pendingAcquisitions, acquisitionsDrained, open>> /\ CloserFrame

ThenCloses(o) ==
  /\ OwnerGoes(o, "unregistered", "running")
  /\ Shut(o)
  /\ UNCHANGED resourceVars /\ CloserFrame

\* ... or, by its deferred calls, closes and unregisters it.
ClosesFirst(o) ==
  /\ AcceptsFrom(o) = {}
  /\ OwnerGoes(o, "held", "closedFirst")
  /\ Shut(o)
  /\ UNCHANGED resourceVars /\ CloserFrame

ThenUnregisters(o) ==
  /\ OwnerGoes(o, "closedFirst", "running")
  /\ resources' = resources \ {o}
  /\ UNCHANGED <<closed, pendingAcquisitions, acquisitionsDrained, open>> /\ CloserFrame

\* The worker's function returns: wg.Done.
WorkerEnds(o) ==
  /\ OwnerGoes(o, "running", "off")
  /\ UNCHANGED <<resourceVars, open>> /\ CloserFrame

--------------------------------------------------------------------------------
(* Closers. *)
CloserGoes(c, from, to) == closer[c] = from /\ closer' = [closer EXCEPT ![c] = to]
OwnerFrame == UNCHANGED <<owner, open>>

\* The context is canceled before closeAll is called, in handleConn and in force.
Cancel ==
  /\ ~canceled
  /\ canceled' = TRUE
  /\ UNCHANGED <<resourceVars, closeDone, workersClosed, closer, toClose>> /\ OwnerFrame

\* closeAll, its critical section when it comes first.
CloseAll(c) ==
  /\ canceled /\ ~closed
  /\ CloserGoes(c, "idle", "closing")
  /\ closed' = TRUE
  /\ toClose' = resources /\ resources' = {}
  /\ acquisitionsDrained' = IF pendingAcquisitions > 0 THEN "open" ELSE acquisitionsDrained
  /\ UNCHANGED <<pendingAcquisitions, closeDone, workersClosed, canceled>> /\ OwnerFrame

\* Fault: a second closeAll returns at once.
CloseAllAgain_Returns(c) ==
  /\ canceled /\ closed
  /\ CloserGoes(c, "idle", "returned")
  /\ UNCHANGED <<resourceVars, closeDone, workersClosed, canceled, toClose>> /\ OwnerFrame

\* Its critical section when another call came first.
CloseAllAgain(c) ==
  /\ canceled /\ closed
  /\ CloserGoes(c, "idle", "waitDone")
  /\ UNCHANGED <<resourceVars, closeDone, workersClosed, canceled, toClose>> /\ OwnerFrame

\* Fault: the acquisitions under way are waited for before anything is closed.
CloseOne_Waits(c, o) ==
  /\ closer[c] = "closing" /\ o \in toClose /\ acquisitionsDrained # "open"
  /\ toClose' = toClose \ {o}
  /\ Shut(o)
  /\ UNCHANGED <<resourceVars, closeDone, workersClosed, canceled, owner, closer>>

\* The resources are closed one by one, in no particular order.
CloseOne(c, o) ==
  /\ closer[c] = "closing" /\ o \in toClose
  /\ toClose' = toClose \ {o}
  /\ Shut(o)
  /\ UNCHANGED <<resourceVars, closeDone, workersClosed, canceled, owner, closer>>

\* Then the acquisitions under way are waited for.
CloseAllReturns(c) ==
  /\ toClose = {} /\ acquisitionsDrained # "open"
  /\ CloserGoes(c, "closing", "returned")
  /\ closeDone' = TRUE
  /\ UNCHANGED <<resourceVars, workersClosed, canceled, toClose>> /\ OwnerFrame

AgainReturns(c) ==
  /\ closeDone
  /\ CloserGoes(c, "waitDone", "returned")
  /\ UNCHANGED <<resourceVars, closeDone, workersClosed, canceled, toClose>> /\ OwnerFrame

\* handleConn goes on to closeAndWait.
CloseWorkers ==
  /\ CloserGoes(Conn, "returned", "waitWorkers")
  /\ workersClosed' = TRUE
  /\ UNCHANGED <<resourceVars, closeDone, canceled, toClose>> /\ OwnerFrame

\* Fault: the workers are closed and not waited for.
WorkersDone_NoWait ==
  /\ CloserGoes(Conn, "waitWorkers", "done")
  /\ UNCHANGED <<resourceVars, closeDone, workersClosed, canceled, toClose>> /\ OwnerFrame

WorkersDone ==
  /\ \A o \in Owners : owner[o] = "off"
  /\ CloserGoes(Conn, "waitWorkers", "done")
  /\ UNCHANGED <<resourceVars, closeDone, workersClosed, canceled, toClose>> /\ OwnerFrame

\* Everything is over.
Terminated == closer[Conn] = "done" /\ UNCHANGED vars

OwnerStep(o) ==
  \/ StartWorker(o) \/ BeginAcquisition(o) \/ Acquired(o) \/ AcquireFails(o)
  \/ FinishRegisters(o) \/ FinishCloses(o) \/ FinishNil(o) \/ FinishHolds(o) \/ FinishFails(o)
  \/ ClosedElsewhere(o) \/ Unregister(o) \/ ThenCloses(o) \/ ClosesFirst(o) \/ ThenUnregisters(o)
  \/ WorkerEnds(o)

CloserStep(c) ==
  \/ CloseAll(c) \/ CloseAllAgain(c) \/ CloseAllReturns(c) \/ AgainReturns(c)
  \/ \E o \in Owners : CloseOne(c, o)

Next ==
  \/ \E o \in Owners : OwnerStep(o)
  \/ Cancel
  \/ \E c \in Closers : CloserStep(c)
  \/ CloseWorkers \/ WorkersDone \/ Terminated

Spec == Init /\ [][Next]_vars

--------------------------------------------------------------------------------
(* Fairness: goroutines that can run do.  A blocked Dial or Listen returns when *)
(* its context is canceled, an Accept when its listener is closed, and an owner *)
(* lets go of its resource when the context is canceled.  Nothing makes a       *)
(* client come, a connection start or a worker begin something new.             *)
AcquireUnblocked(o) ==
  /\ IF Listener[o] = NoListener THEN canceled ELSE ~open[Listener[o]]
  /\ AcquireFails(o)

LetsGo(o) == canceled /\ (Unregister(o) \/ ClosesFirst(o))

\* A worker does not acquire for ever once its connection ends.
Ends(o) == closed /\ WorkerEnds(o)

Fairness ==
  /\ \A o \in Owners :
       /\ WF_vars(AcquireUnblocked(o)) /\ WF_vars(LetsGo(o)) /\ WF_vars(Ends(o))
       /\ WF_vars(FinishRegisters(o) \/ FinishCloses(o) \/ FinishNil(o) \/ FinishHolds(o) \/ FinishFails(o))
       /\ WF_vars(ThenCloses(o) \/ ThenUnregisters(o))
  /\ \A c \in Closers :
       WF_vars((\E o \in Owners : CloseOne(c, o)) \/ CloseAllReturns(c) \/ AgainReturns(c))
  /\ WF_vars(CloseWorkers) /\ WF_vars(WorkersDone)

FairSpec == Spec /\ Fairness

--------------------------------------------------------------------------------
\* The owners counted in pendingAcquisitions.
Pending == {o \in Owners : owner[o] \in PendingPlaces}

\* The type invariant.
TypeOK ==
  /\ closed \in BOOLEAN /\ resources \subseteq Owners /\ pendingAcquisitions \in Nat
  /\ acquisitionsDrained \in {"nil", "open", "closed"} /\ closeDone \in BOOLEAN
  /\ workersClosed \in BOOLEAN /\ canceled \in BOOLEAN
  /\ owner \in [Owners -> OwnerPlaces] /\ open \in [Owners -> BOOLEAN]
  /\ closer \in [Closers -> CloserPlaces] /\ toClose \subseteq Owners

\* closeAll has returned to a closer.
Returned(c) == closer[c] \in {"returned", "waitWorkers", "done"}

\* Once any closeAll call has returned, also the one that only waited for another,
\* no acquisition is under way and nothing acquired on the connection is open,
\* except what an owner has already unregistered to close it itself.
NothingLeftAfterCloseAll ==
  (\E c \in Closers : Returned(c)) =>
    /\ pendingAcquisitions = 0 /\ Pending = {}
    /\ \A o \in Owners : open[o] => owner[o] = "unregistered"

\* Once handleConn has waited for its workers, none runs, none can start, and no
\* resource of the connection is open.
NothingLeftAfterWait ==
  closer[Conn] = "done" => \A o \in Owners : owner[o] = "off" /\ ~open[o]

\* While closeAll is waiting, somebody is left to wake it: the channel is open
\* exactly as long as an acquisition that began before is under way.
DrainedChannelExact ==
  closed => (acquisitionsDrained = "open" <=> pendingAcquisitions > 0)

\* A closeAll that was called returns, in force and in handleConn, although it waits
\* for an Accept on a listener it has to close or for another closeAll; and handleConn,
\* once it has called it, gets rid of its workers.
ConnectionEnds ==
  /\ \A c \in Closers : (closer[c] # "idle") ~> Returned(c)
  /\ (closer[Conn] # "idle") ~> (closer[Conn] = "done")
================================================================================
