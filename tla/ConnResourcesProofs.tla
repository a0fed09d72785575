--------------------------- MODULE ConnResourcesProofs ---------------------------
(***************************************************************************)
(* closeAll and closeAndWait leave nothing of a connection behind, for     *)
(* every number of owners, listeners and callers of closeAll.              *)
(***************************************************************************)
EXTENDS ConnResources, FiniteSetTheorems, TLAPS

\* The sets the variables range over, without the sign of the counter.
StateTypes ==
  /\ closed \in BOOLEAN /\ resources \subseteq Owners /\ pendingAcquisitions \in Int
  /\ acquisitionsDrained \in {"nil", "open", "closed"} /\ closeDone \in BOOLEAN
  /\ workersClosed \in BOOLEAN /\ canceled \in BOOLEAN
  /\ owner \in [Owners -> OwnerPlaces] /\ open \in [Owners -> BOOLEAN]
  /\ closer \in [Closers -> CloserPlaces] /\ toClose \subseteq Owners

\* The counter is the number of acquisitions under way.
PendingExact == pendingAcquisitions = Cardinality(Pending)

\* The channel closeAll waits on exists only once it is closed, and stays open
\* as long as acquisitions are under way.
Channel ==
  /\ ~closed => acquisitionsDrained = "nil"
  /\ DrainedChannelExact

\* Whoever stands beyond closeAll's critical section has closed; closeDone means
\* that the closer has closed every resource and waited for the acquisitions.
Closing ==
  /\ closed => resources = {}
  /\ ~closed => toClose = {}
  /\ \A c \in Closers : /\ closer[c] # "idle" => closed
                        /\ Returned(c) => closeDone
  /\ closeDone => closed /\ toClose = {} /\ acquisitionsDrained # "open"

\* Who is responsible for closing an open resource: its acquirer, its owner that
\* has unregistered it, or closeAll, which finds it registered or has it listed.
Responsible ==
  \A o \in Owners : open[o] =>
    \/ owner[o] \in {"acquired", "closing", "unregistered"}
    \/ owner[o] \in {"finishing", "held"} /\ (o \in resources \/ o \in toClose)

\* No worker is left, and none starts, once the connection has waited for them.
Waited ==
  /\ closer[Conn] \in {"waitWorkers", "done"} => workersClosed
  /\ closer[Conn] = "done" => \A o \in Owners : owner[o] = "off"

\* The inductive invariant.
Inv == StateTypes /\ PendingExact /\ Channel /\ Closing /\ Responsible /\ Waited

\* Any set of owners is finite.
LEMMA OwnerSets ==
  ASSUME NEW S, S \subseteq Owners
  PROVE  IsFiniteSet(S) /\ Cardinality(S) \in Nat /\ (Cardinality(S) = 0 <=> S = {})
  BY OwnersFinite, FS_Subset, FS_CardinalityType, FS_EmptySet

\* What an owner joining or leaving a set does to its cardinality.
LEMMA OneMore ==
  ASSUME NEW S, S \subseteq Owners, NEW o \in Owners
  PROVE  /\ o \notin S => Cardinality(S \cup {o}) = Cardinality(S) + 1
         /\ o \in S => Cardinality(S \ {o}) = Cardinality(S) - 1
  BY OwnerSets, FS_AddElement, FS_RemoveElement

\* Every step keeps the variables in their sets.
LEMMA TypesNext == StateTypes /\ [Next]_vars => StateTypes'
<1> SUFFICES ASSUME StateTypes, [Next]_vars PROVE StateTypes'
  OBVIOUS
<1> USE ConnAssumption DEF StateTypes, vars, resourceVars, CloserFrame, OwnerFrame, OwnerGoes, CloserGoes, Shut,
        AcquisitionEnds, OwnerPlaces, PendingPlaces, CloserPlaces
<1>0. CASE UNCHANGED vars
  BY <1>0
<1>1. ASSUME NEW o \in Owners, StartWorker(o) PROVE StateTypes'
  BY <1>1 DEF StartWorker
<1>2. ASSUME NEW o \in Owners, BeginAcquisition(o) PROVE StateTypes'
  BY <1>2 DEF BeginAcquisition
<1>3. ASSUME NEW o \in Owners, Acquired(o) PROVE StateTypes'
  BY <1>3 DEF Acquired
<1>4. ASSUME NEW o \in Owners, AcquireFails(o) PROVE StateTypes'
  BY <1>4 DEF AcquireFails
<1>5. ASSUME NEW o \in Owners, FinishRegisters(o) PROVE StateTypes'
  BY <1>5 DEF FinishRegisters
<1>6. ASSUME NEW o \in Owners, FinishCloses(o) PROVE StateTypes'
  BY <1>6 DEF FinishCloses
<1>7. ASSUME NEW o \in Owners, FinishNil(o) PROVE StateTypes'
  BY <1>7 DEF FinishNil
<1>8. ASSUME NEW o \in Owners, FinishHolds(o) PROVE StateTypes'
  BY <1>8 DEF FinishHolds
<1>9. ASSUME NEW o \in Owners, FinishFails(o) PROVE StateTypes'
  BY <1>9 DEF FinishFails
<1>10. ASSUME NEW o \in Owners, ClosedElsewhere(o) PROVE StateTypes'
  BY <1>10 DEF ClosedElsewhere
<1>11. ASSUME NEW o \in Owners, Unregister(o) PROVE StateTypes'
  BY <1>11 DEF Unregister
<1>12. ASSUME NEW o \in Owners, ThenCloses(o) PROVE StateTypes'
  BY <1>12 DEF ThenCloses
<1>13. ASSUME NEW o \in Owners, ClosesFirst(o) PROVE StateTypes'
  BY <1>13 DEF ClosesFirst
<1>14. ASSUME NEW o \in Owners, ThenUnregisters(o) PROVE StateTypes'
  BY <1>14 DEF ThenUnregisters
<1>15. ASSUME NEW o \in Owners, WorkerEnds(o) PROVE StateTypes'
  BY <1>15 DEF WorkerEnds
<1>16. ASSUME Cancel PROVE StateTypes'
  BY <1>16 DEF Cancel
<1>17. ASSUME NEW c \in Closers, CloseAll(c) PROVE StateTypes'
  BY <1>17 DEF CloseAll
<1>18. ASSUME NEW c \in Closers, CloseAllAgain(c) PROVE StateTypes'
  BY <1>18 DEF CloseAllAgain
<1>19. ASSUME NEW c \in Closers, NEW o \in Owners, CloseOne(c, o) PROVE StateTypes'
  BY <1>19 DEF CloseOne
<1>20. ASSUME NEW c \in Closers, CloseAllReturns(c) PROVE StateTypes'
  BY <1>20 DEF CloseAllReturns
<1>21. ASSUME NEW c \in Closers, AgainReturns(c) PROVE StateTypes'
  BY <1>21 DEF AgainReturns
<1>22. ASSUME CloseWorkers PROVE StateTypes'
  BY <1>22 DEF CloseWorkers
<1>23. ASSUME WorkersDone PROVE StateTypes'
  BY <1>23 DEF WorkersDone
<1> QED
  BY <1>0, <1>1, <1>2, <1>3, <1>4, <1>5, <1>6, <1>7, <1>8, <1>9, <1>10, <1>11, <1>12, <1>13, <1>14, <1>15, <1>16, <1>17, <1>18, <1>19, <1>20, <1>21, <1>22, <1>23 DEF Next, OwnerStep, CloserStep, Terminated

\* Every step keeps the counter equal to the number of acquisitions under way.
LEMMA PendingNext == StateTypes /\ PendingExact /\ [Next]_vars => PendingExact'
<1> SUFFICES ASSUME StateTypes, PendingExact, [Next]_vars PROVE PendingExact'
  OBVIOUS
<1>a. ASSUME Pending' = Pending, pendingAcquisitions' = pendingAcquisitions PROVE PendingExact'
  BY <1>a DEF PendingExact
<1>b. ASSUME NEW o \in Owners, o \notin Pending, Pending' = Pending \cup {o},
             pendingAcquisitions' = pendingAcquisitions + 1
      PROVE  PendingExact'
  <2>1. Pending \subseteq Owners
    BY DEF Pending
  <2>2. Cardinality(Pending') = Cardinality(Pending) + 1
    BY <1>b, <2>1, OneMore
  <2> QED
    BY <1>b, <2>2 DEF PendingExact
<1>c. ASSUME NEW o \in Owners, o \in Pending, Pending' = Pending \ {o},
             pendingAcquisitions' = pendingAcquisitions - 1
      PROVE  PendingExact'
  <2>1. Pending \subseteq Owners
    BY DEF Pending
  <2>2. Cardinality(Pending') = Cardinality(Pending) - 1
    BY <1>c, <2>1, OneMore
  <2> QED
    BY <1>c, <2>2 DEF PendingExact
<1> USE DEF StateTypes, vars, resourceVars, CloserFrame, OwnerFrame, OwnerGoes, CloserGoes, Shut
<1>0. CASE UNCHANGED vars
  BY <1>0, <1>a DEF Pending
<1>1. ASSUME NEW o \in Owners, StartWorker(o) PROVE PendingExact'
  <2>1. Pending' = Pending
    BY <1>1 DEF StartWorker, Pending, PendingPlaces
  <2> QED
    BY <1>1, <2>1, <1>a DEF StartWorker
<1>2. ASSUME NEW o \in Owners, BeginAcquisition(o) PROVE PendingExact'
  <2>1. o \notin Pending /\ Pending' = Pending \cup {o}
    BY <1>2 DEF BeginAcquisition, Pending, PendingPlaces
  <2> QED
    BY <1>2, <2>1, <1>b DEF BeginAcquisition
<1>3. ASSUME NEW o \in Owners, Acquired(o) PROVE PendingExact'
  <2>1. Pending' = Pending
    BY <1>3 DEF Acquired, Pending, PendingPlaces
  <2> QED
    BY <1>3, <2>1, <1>a DEF Acquired
<1>4. ASSUME NEW o \in Owners, AcquireFails(o) PROVE PendingExact'
  <2>1. Pending' = Pending
    BY <1>4 DEF AcquireFails, Pending, PendingPlaces
  <2> QED
    BY <1>4, <2>1, <1>a DEF AcquireFails
<1>5. ASSUME NEW o \in Owners, FinishRegisters(o) PROVE PendingExact'
  <2>1. Pending' = Pending
    BY <1>5 DEF FinishRegisters, Pending, PendingPlaces
  <2> QED
    BY <1>5, <2>1, <1>a DEF FinishRegisters
<1>6. ASSUME NEW o \in Owners, FinishCloses(o) PROVE PendingExact'
  <2>1. Pending' = Pending
    BY <1>6 DEF FinishCloses, Pending, PendingPlaces
  <2> QED
    BY <1>6, <2>1, <1>a DEF FinishCloses
<1>7. ASSUME NEW o \in Owners, FinishNil(o) PROVE PendingExact'
  <2>1. Pending' = Pending
    BY <1>7 DEF FinishNil, Pending, PendingPlaces
  <2> QED
    BY <1>7, <2>1, <1>a DEF FinishNil
<1>8. ASSUME NEW o \in Owners, FinishHolds(o) PROVE PendingExact'
  <2>1. o \in Pending /\ Pending' = Pending \ {o}
    BY <1>8 DEF FinishHolds, Pending, PendingPlaces
  <2> QED
    BY <1>8, <2>1, <1>c DEF FinishHolds, AcquisitionEnds
<1>9. ASSUME NEW o \in Owners, FinishFails(o) PROVE PendingExact'
  <2>1. o \in Pending /\ Pending' = Pending \ {o}
    BY <1>9 DEF FinishFails, Pending, PendingPlaces
  <2> QED
    BY <1>9, <2>1, <1>c DEF FinishFails, AcquisitionEnds
<1>10. ASSUME NEW o \in Owners, ClosedElsewhere(o) PROVE PendingExact'
  <2>1. Pending' = Pending
    BY <1>10 DEF ClosedElsewhere, Pending, PendingPlaces
  <2> QED
    BY <1>10, <2>1, <1>a DEF ClosedElsewhere
<1>11. ASSUME NEW o \in Owners, Unregister(o) PROVE PendingExact'
  <2>1. Pending' = Pending
    BY <1>11 DEF Unregister, Pending, PendingPlaces
  <2> QED
    BY <1>11, <2>1, <1>a DEF Unregister
<1>12. ASSUME NEW o \in Owners, ThenCloses(o) PROVE PendingExact'
  <2>1. Pending' = Pending
    BY <1>12 DEF ThenCloses, Pending, PendingPlaces
  <2> QED
    BY <1>12, <2>1, <1>a DEF ThenCloses
<1>13. ASSUME NEW o \in Owners, ClosesFirst(o) PROVE PendingExact'
  <2>1. Pending' = Pending
    BY <1>13 DEF ClosesFirst, Pending, PendingPlaces
  <2> QED
    BY <1>13, <2>1, <1>a DEF ClosesFirst
<1>14. ASSUME NEW o \in Owners, ThenUnregisters(o) PROVE PendingExact'
  <2>1. Pending' = Pending
    BY <1>14 DEF ThenUnregisters, Pending, PendingPlaces
  <2> QED
    BY <1>14, <2>1, <1>a DEF ThenUnregisters
<1>15. ASSUME NEW o \in Owners, WorkerEnds(o) PROVE PendingExact'
  <2>1. Pending' = Pending
    BY <1>15 DEF WorkerEnds, Pending, PendingPlaces
  <2> QED
    BY <1>15, <2>1, <1>a DEF WorkerEnds
<1>16. ASSUME Cancel PROVE PendingExact'
  BY <1>16, <1>a DEF Cancel, Pending
<1>17. ASSUME NEW c \in Closers, CloseAll(c) PROVE PendingExact'
  BY <1>17, <1>a DEF CloseAll, Pending
<1>18. ASSUME NEW c \in Closers, CloseAllAgain(c) PROVE PendingExact'
  BY <1>18, <1>a DEF CloseAllAgain, Pending
<1>19. ASSUME NEW c \in Closers, NEW o \in Owners, CloseOne(c, o) PROVE PendingExact'
  BY <1>19, <1>a DEF CloseOne, Pending
<1>20. ASSUME NEW c \in Closers, CloseAllReturns(c) PROVE PendingExact'
  BY <1>20, <1>a DEF CloseAllReturns, Pending
<1>21. ASSUME NEW c \in Closers, AgainReturns(c) PROVE PendingExact'
  BY <1>21, <1>a DEF AgainReturns, Pending
<1>22. ASSUME CloseWorkers PROVE PendingExact'
  BY <1>22, <1>a DEF CloseWorkers, Pending
<1>23. ASSUME WorkersDone PROVE PendingExact'
  BY <1>23, <1>a DEF WorkersDone, Pending
<1> QED
  BY <1>0, <1>1, <1>2, <1>3, <1>4, <1>5, <1>6, <1>7, <1>8, <1>9, <1>10, <1>11, <1>12, <1>13, <1>14, <1>15, <1>16, <1>17, <1>18, <1>19, <1>20, <1>21, <1>22, <1>23 DEF Next, OwnerStep, CloserStep, Terminated

\* An owner inside an acquisition makes the counter positive.
LEMMA PendingPositive ==
  ASSUME PendingExact
  PROVE  /\ pendingAcquisitions \in Nat
         /\ \A o \in Owners : owner[o] \in PendingPlaces => pendingAcquisitions > 0
         /\ pendingAcquisitions = 0 => Pending = {}
<1>1. Pending \subseteq Owners
  BY DEF Pending
<1>2. Cardinality(Pending) \in Nat /\ (Cardinality(Pending) = 0 <=> Pending = {})
  BY <1>1, OwnerSets
<1> QED
  BY <1>2 DEF PendingExact, Pending

\* Every step keeps the channel open exactly while closeAll has to wait.
LEMMA ChannelNext == StateTypes /\ PendingExact /\ Channel /\ [Next]_vars => Channel'
<1> SUFFICES ASSUME StateTypes, PendingExact, Channel, [Next]_vars PROVE Channel'
  OBVIOUS
<1>a. pendingAcquisitions \in Nat /\ \A o \in Owners : owner[o] \in PendingPlaces => pendingAcquisitions > 0
  BY PendingPositive
<1> USE <1>a DEF Channel, DrainedChannelExact, StateTypes, vars, resourceVars, CloserFrame, OwnerFrame, OwnerGoes,
        CloserGoes, Shut, AcquisitionEnds, PendingPlaces
<1>0. CASE UNCHANGED vars
  BY <1>0
<1>1. ASSUME NEW o \in Owners, StartWorker(o) PROVE Channel'
  BY <1>1 DEF StartWorker
<1>2. ASSUME NEW o \in Owners, BeginAcquisition(o) PROVE Channel'
  BY <1>2 DEF BeginAcquisition
<1>3. ASSUME NEW o \in Owners, Acquired(o) PROVE Channel'
  BY <1>3 DEF Acquired
<1>4. ASSUME NEW o \in Owners, AcquireFails(o) PROVE Channel'
  BY <1>4 DEF AcquireFails
<1>5. ASSUME NEW o \in Owners, FinishRegisters(o) PROVE Channel'
  BY <1>5 DEF FinishRegisters
<1>6. ASSUME NEW o \in Owners, FinishCloses(o) PROVE Channel'
  BY <1>6 DEF FinishCloses
<1>7. ASSUME NEW o \in Owners, FinishNil(o) PROVE Channel'
  BY <1>7 DEF FinishNil
<1>8. ASSUME NEW o \in Owners, FinishHolds(o) PROVE Channel'
  BY <1>8 DEF FinishHolds
<1>9. ASSUME NEW o \in Owners, FinishFails(o) PROVE Channel'
  BY <1>9 DEF FinishFails
<1>10. ASSUME NEW o \in Owners, ClosedElsewhere(o) PROVE Channel'
  BY <1>10 DEF ClosedElsewhere
<1>11. ASSUME NEW o \in Owners, Unregister(o) PROVE Channel'
  BY <1>11 DEF Unregister
<1>12. ASSUME NEW o \in Owners, ThenCloses(o) PROVE Channel'
  BY <1>12 DEF ThenCloses
<1>13. ASSUME NEW o \in Owners, ClosesFirst(o) PROVE Channel'
  BY <1>13 DEF ClosesFirst
<1>14. ASSUME NEW o \in Owners, ThenUnregisters(o) PROVE Channel'
  BY <1>14 DEF ThenUnregisters
<1>15. ASSUME NEW o \in Owners, WorkerEnds(o) PROVE Channel'
  BY <1>15 DEF WorkerEnds
<1>16. ASSUME Cancel PROVE Channel'
  BY <1>16 DEF Cancel
<1>17. ASSUME NEW c \in Closers, CloseAll(c) PROVE Channel'
  BY <1>17 DEF CloseAll
<1>18. ASSUME NEW c \in Closers, CloseAllAgain(c) PROVE Channel'
  BY <1>18 DEF CloseAllAgain
<1>19. ASSUME NEW c \in Closers, NEW o \in Owners, CloseOne(c, o) PROVE Channel'
  BY <1>19 DEF CloseOne
<1>20. ASSUME NEW c \in Closers, CloseAllReturns(c) PROVE Channel'
  BY <1>20 DEF CloseAllReturns
<1>21. ASSUME NEW c \in Closers, AgainReturns(c) PROVE Channel'
  BY <1>21 DEF AgainReturns
<1>22. ASSUME CloseWorkers PROVE Channel'
  BY <1>22 DEF CloseWorkers
<1>23. ASSUME WorkersDone PROVE Channel'
  BY <1>23 DEF WorkersDone
<1> QED
  BY <1>0, <1>1, <1>2, <1>3, <1>4, <1>5, <1>6, <1>7, <1>8, <1>9, <1>10, <1>11, <1>12, <1>13, <1>14, <1>15, <1>16, <1>17, <1>18, <1>19, <1>20, <1>21, <1>22, <1>23 DEF Next, OwnerStep, CloserStep, Terminated

\* Every step keeps what closeDone promises.
LEMMA ClosingNext == StateTypes /\ Channel /\ Closing /\ [Next]_vars => Closing'
<1> SUFFICES ASSUME StateTypes, Channel, Closing, [Next]_vars PROVE Closing'
  OBVIOUS
<1> USE ConnAssumption DEF Closing, Returned, Channel, StateTypes, vars, resourceVars, CloserFrame, OwnerFrame,
        OwnerGoes, CloserGoes, Shut, AcquisitionEnds, CloserPlaces
<1>0. CASE UNCHANGED vars
  BY <1>0
<1>1. ASSUME NEW o \in Owners, StartWorker(o) PROVE Closing'
  BY <1>1 DEF StartWorker
<1>2. ASSUME NEW o \in Owners, BeginAcquisition(o) PROVE Closing'
  BY <1>2 DEF BeginAcquisition
<1>3. ASSUME NEW o \in Owners, Acquired(o) PROVE Closing'
  BY <1>3 DEF Acquired
<1>4. ASSUME NEW o \in Owners, AcquireFails(o) PROVE Closing'
  BY <1>4 DEF AcquireFails
<1>5. ASSUME NEW o \in Owners, FinishRegisters(o) PROVE Closing'
  BY <1>5 DEF FinishRegisters
<1>6. ASSUME NEW o \in Owners, FinishCloses(o) PROVE Closing'
  BY <1>6 DEF FinishCloses
<1>7. ASSUME NEW o \in Owners, FinishNil(o) PROVE Closing'
  BY <1>7 DEF FinishNil
<1>8. ASSUME NEW o \in Owners, FinishHolds(o) PROVE Closing'
  BY <1>8 DEF FinishHolds
<1>9. ASSUME NEW o \in Owners, FinishFails(o) PROVE Closing'
  BY <1>9 DEF FinishFails
<1>10. ASSUME NEW o \in Owners, ClosedElsewhere(o) PROVE Closing'
  BY <1>10 DEF ClosedElsewhere
<1>11. ASSUME NEW o \in Owners, Unregister(o) PROVE Closing'
  BY <1>11 DEF Unregister
<1>12. ASSUME NEW o \in Owners, ThenCloses(o) PROVE Closing'
  BY <1>12 DEF ThenCloses
<1>13. ASSUME NEW o \in Owners, ClosesFirst(o) PROVE Closing'
  BY <1>13 DEF ClosesFirst
<1>14. ASSUME NEW o \in Owners, ThenUnregisters(o) PROVE Closing'
  BY <1>14 DEF ThenUnregisters
<1>15. ASSUME NEW o \in Owners, WorkerEnds(o) PROVE Closing'
  BY <1>15 DEF WorkerEnds
<1>16. ASSUME Cancel PROVE Closing'
  BY <1>16 DEF Cancel
<1>17. ASSUME NEW c \in Closers, CloseAll(c) PROVE Closing'
  BY <1>17 DEF CloseAll
<1>18. ASSUME NEW c \in Closers, CloseAllAgain(c) PROVE Closing'
  BY <1>18 DEF CloseAllAgain
<1>19. ASSUME NEW c \in Closers, NEW o \in Owners, CloseOne(c, o) PROVE Closing'
  BY <1>19 DEF CloseOne
<1>20. ASSUME NEW c \in Closers, CloseAllReturns(c) PROVE Closing'
  BY <1>20 DEF CloseAllReturns
<1>21. ASSUME NEW c \in Closers, AgainReturns(c) PROVE Closing'
  BY <1>21 DEF AgainReturns
<1>22. ASSUME CloseWorkers PROVE Closing'
  BY <1>22 DEF CloseWorkers
<1>23. ASSUME WorkersDone PROVE Closing'
  BY <1>23 DEF WorkersDone
<1> QED
  BY <1>0, <1>1, <1>2, <1>3, <1>4, <1>5, <1>6, <1>7, <1>8, <1>9, <1>10, <1>11, <1>12, <1>13, <1>14, <1>15, <1>16, <1>17, <1>18, <1>19, <1>20, <1>21, <1>22, <1>23 DEF Next, OwnerStep, CloserStep, Terminated

\* Every step leaves somebody responsible for each open resource.
LEMMA ResponsibleNext == StateTypes /\ Closing /\ Responsible /\ [Next]_vars => Responsible'
<1> SUFFICES ASSUME StateTypes, Closing, Responsible, [Next]_vars PROVE Responsible'
  OBVIOUS
<1> USE ConnAssumption DEF Responsible, Closing, StateTypes, vars, resourceVars, CloserFrame, OwnerFrame,
        OwnerGoes, CloserGoes, Shut, AcquisitionEnds
<1>0. CASE UNCHANGED vars
  BY <1>0
<1>1. ASSUME NEW o \in Owners, StartWorker(o) PROVE Responsible'
  BY <1>1 DEF StartWorker
<1>2. ASSUME NEW o \in Owners, BeginAcquisition(o) PROVE Responsible'
  BY <1>2 DEF BeginAcquisition
<1>3. ASSUME NEW o \in Owners, Acquired(o) PROVE Responsible'
  BY <1>3 DEF Acquired
<1>4. ASSUME NEW o \in Owners, AcquireFails(o) PROVE Responsible'
  BY <1>4 DEF AcquireFails
<1>5. ASSUME NEW o \in Owners, FinishRegisters(o) PROVE Responsible'
  BY <1>5 DEF FinishRegisters
<1>6. ASSUME NEW o \in Owners, FinishCloses(o) PROVE Responsible'
  BY <1>6 DEF FinishCloses
<1>7. ASSUME NEW o \in Owners, FinishNil(o) PROVE Responsible'
  BY <1>7 DEF FinishNil
<1>8. ASSUME NEW o \in Owners, FinishHolds(o) PROVE Responsible'
  BY <1>8 DEF FinishHolds
<1>9. ASSUME NEW o \in Owners, FinishFails(o) PROVE Responsible'
  BY <1>9 DEF FinishFails
<1>10. ASSUME NEW o \in Owners, ClosedElsewhere(o) PROVE Responsible'
  BY <1>10 DEF ClosedElsewhere
<1>11. ASSUME NEW o \in Owners, Unregister(o) PROVE Responsible'
  BY <1>11 DEF Unregister
<1>12. ASSUME NEW o \in Owners, ThenCloses(o) PROVE Responsible'
  BY <1>12 DEF ThenCloses
<1>13. ASSUME NEW o \in Owners, ClosesFirst(o) PROVE Responsible'
  BY <1>13 DEF ClosesFirst
<1>14. ASSUME NEW o \in Owners, ThenUnregisters(o) PROVE Responsible'
  BY <1>14 DEF ThenUnregisters
<1>15. ASSUME NEW o \in Owners, WorkerEnds(o) PROVE Responsible'
  BY <1>15 DEF WorkerEnds
<1>16. ASSUME Cancel PROVE Responsible'
  BY <1>16 DEF Cancel
<1>17. ASSUME NEW c \in Closers, CloseAll(c) PROVE Responsible'
  BY <1>17 DEF CloseAll
<1>18. ASSUME NEW c \in Closers, CloseAllAgain(c) PROVE Responsible'
  BY <1>18 DEF CloseAllAgain
<1>19. ASSUME NEW c \in Closers, NEW o \in Owners, CloseOne(c, o) PROVE Responsible'
  BY <1>19 DEF CloseOne
<1>20. ASSUME NEW c \in Closers, CloseAllReturns(c) PROVE Responsible'
  BY <1>20 DEF CloseAllReturns
<1>21. ASSUME NEW c \in Closers, AgainReturns(c) PROVE Responsible'
  BY <1>21 DEF AgainReturns
<1>22. ASSUME CloseWorkers PROVE Responsible'
  BY <1>22 DEF CloseWorkers
<1>23. ASSUME WorkersDone PROVE Responsible'
  BY <1>23 DEF WorkersDone
<1> QED
  BY <1>0, <1>1, <1>2, <1>3, <1>4, <1>5, <1>6, <1>7, <1>8, <1>9, <1>10, <1>11, <1>12, <1>13, <1>14, <1>15, <1>16, <1>17, <1>18, <1>19, <1>20, <1>21, <1>22, <1>23 DEF Next, OwnerStep, CloserStep, Terminated

\* Every step keeps the workers away once they have been waited for.
LEMMA WaitedNext == StateTypes /\ Waited /\ [Next]_vars => Waited'
<1> SUFFICES ASSUME StateTypes, Waited, [Next]_vars PROVE Waited'
  OBVIOUS
<1> USE ConnAssumption DEF Waited, StateTypes, vars, resourceVars, CloserFrame, OwnerFrame,
        OwnerGoes, CloserGoes, Shut, AcquisitionEnds
<1>0. CASE UNCHANGED vars
  BY <1>0
<1>1. ASSUME NEW o \in Owners, StartWorker(o) PROVE Waited'
  BY <1>1 DEF StartWorker
<1>2. ASSUME NEW o \in Owners, BeginAcquisition(o) PROVE Waited'
  BY <1>2 DEF BeginAcquisition
<1>3. ASSUME NEW o \in Owners, Acquired(o) PROVE Waited'
  BY <1>3 DEF Acquired
<1>4. ASSUME NEW o \in Owners, AcquireFails(o) PROVE Waited'
  BY <1>4 DEF AcquireFails
<1>5. ASSUME NEW o \in Owners, FinishRegisters(o) PROVE Waited'
  BY <1>5 DEF FinishRegisters
<1>6. ASSUME NEW o \in Owners, FinishCloses(o) PROVE Waited'
  BY <1>6 DEF FinishCloses
<1>7. ASSUME NEW o \in Owners, FinishNil(o) PROVE Waited'
  BY <1>7 DEF FinishNil
<1>8. ASSUME NEW o \in Owners, FinishHolds(o) PROVE Waited'
  BY <1>8 DEF FinishHolds
<1>9. ASSUME NEW o \in Owners, FinishFails(o) PROVE Waited'
  BY <1>9 DEF FinishFails
<1>10. ASSUME NEW o \in Owners, ClosedElsewhere(o) PROVE Waited'
  BY <1>10 DEF ClosedElsewhere
<1>11. ASSUME NEW o \in Owners, Unregister(o) PROVE Waited'
  BY <1>11 DEF Unregister
<1>12. ASSUME NEW o \in Owners, ThenCloses(o) PROVE Waited'
  BY <1>12 DEF ThenCloses
<1>13. ASSUME NEW o \in Owners, ClosesFirst(o) PROVE Waited'
  BY <1>13 DEF ClosesFirst
<1>14. ASSUME NEW o \in Owners, ThenUnregisters(o) PROVE Waited'
  BY <1>14 DEF ThenUnregisters
<1>15. ASSUME NEW o \in Owners, WorkerEnds(o) PROVE Waited'
  BY <1>15 DEF WorkerEnds
<1>16. ASSUME Cancel PROVE Waited'
  BY <1>16 DEF Cancel
<1>17. ASSUME NEW c \in Closers, CloseAll(c) PROVE Waited'
  BY <1>17 DEF CloseAll
<1>18. ASSUME NEW c \in Closers, CloseAllAgain(c) PROVE Waited'
  BY <1>18 DEF CloseAllAgain
<1>19. ASSUME NEW c \in Closers, NEW o \in Owners, CloseOne(c, o) PROVE Waited'
  BY <1>19 DEF CloseOne
<1>20. ASSUME NEW c \in Closers, CloseAllReturns(c) PROVE Waited'
  BY <1>20 DEF CloseAllReturns
<1>21. ASSUME NEW c \in Closers, AgainReturns(c) PROVE Waited'
  BY <1>21 DEF AgainReturns
<1>22. ASSUME CloseWorkers PROVE Waited'
  BY <1>22 DEF CloseWorkers
<1>23. ASSUME WorkersDone PROVE Waited'
  BY <1>23 DEF WorkersDone
<1> QED
  BY <1>0, <1>1, <1>2, <1>3, <1>4, <1>5, <1>6, <1>7, <1>8, <1>9, <1>10, <1>11, <1>12, <1>13, <1>14, <1>15, <1>16, <1>17, <1>18, <1>19, <1>20, <1>21, <1>22, <1>23 DEF Next, OwnerStep, CloserStep, Terminated

\* The inductive invariant holds of every reachable state.
THEOREM Invariance == Spec => []Inv
<1>1. Init => Inv
  <2> SUFFICES ASSUME Init PROVE Inv
    OBVIOUS
  <2>1. Pending = {}
    BY DEF Init, Pending, PendingPlaces
  <2>2. PendingExact
    BY <2>1, FS_EmptySet DEF PendingExact, Init
  <2>3. StateTypes
    <3>1. open \in [Owners -> BOOLEAN]
      BY Zenon DEF Init
    <3>2. owner \in [Owners -> OwnerPlaces] /\ closer \in [Closers -> CloserPlaces]
      BY DEF Init, OwnerPlaces, CloserPlaces
    <3>3. pendingAcquisitions \in Int
      BY DEF Init
    <3>4. /\ closed \in BOOLEAN /\ closeDone \in BOOLEAN /\ workersClosed \in BOOLEAN /\ canceled \in BOOLEAN
          /\ resources \subseteq Owners /\ toClose \subseteq Owners
          /\ acquisitionsDrained \in {"nil", "open", "closed"}
      BY Zenon DEF Init
    <3> QED
      BY <3>1, <3>2, <3>3, <3>4, Zenon DEF StateTypes
  <2>4. Channel /\ Closing
    BY DEF Init, Channel, DrainedChannelExact, Closing, Returned
  <2>5. Responsible /\ Waited
    BY ConnAssumption DEF Init, Responsible, Waited
  <2> QED
    BY <2>2, <2>3, <2>4, <2>5 DEF Inv
<1>2. Inv /\ [Next]_vars => Inv'
  BY TypesNext, PendingNext, ChannelNext, ClosingNext, ResponsibleNext, WaitedNext DEF Inv
<1> QED
  BY <1>1, <1>2, PTL DEF Spec

\* The variables keep their types, and the acquisition counter of
\* connectionResources is never negative.
THEOREM TypeCorrect == Spec => []TypeOK
<1>1. Inv => TypeOK
  BY PendingPositive DEF Inv, StateTypes, TypeOK
<1> QED
  BY Invariance, <1>1, PTL

\* closeAll's channel is open exactly while an acquisition can still close it.
THEOREM ChannelSafe == Spec => []DrainedChannelExact
<1>1. Inv => DrainedChannelExact
  BY DEF Inv, Channel
<1> QED
  BY Invariance, <1>1, PTL

\* When any closeAll returns, nothing acquired on the connection is open or about
\* to be, except what its owner has unregistered and closes next.
THEOREM CloseAllSafe == Spec => []NothingLeftAfterCloseAll
<1>1. Inv => NothingLeftAfterCloseAll
  <2> SUFFICES ASSUME Inv, NEW c \in Closers, Returned(c)
               PROVE  /\ pendingAcquisitions = 0 /\ Pending = {}
                      /\ \A o \in Owners : open[o] => owner[o] = "unregistered"
    BY DEF NothingLeftAfterCloseAll
  <2>1. closed /\ resources = {} /\ toClose = {} /\ acquisitionsDrained # "open"
    BY DEF Inv, Closing
  <2>2. pendingAcquisitions = 0
    BY <2>1, PendingPositive DEF Inv, Channel, DrainedChannelExact
  <2>3. Pending = {}
    BY <2>2, PendingPositive DEF Inv
  <2>4. \A o \in Owners : owner[o] \notin {"acquired", "closing", "finishing"}
    BY <2>3 DEF Pending, PendingPlaces
  <2> QED
    BY <2>1, <2>2, <2>3, <2>4 DEF Inv, Responsible
<1> QED
  BY Invariance, <1>1, PTL

\* After handleConn's closeAndWait no worker runs and no resource is open.
THEOREM WaitSafe == Spec => []NothingLeftAfterWait
<1>1. Inv => NothingLeftAfterWait
  BY DEF Inv, Waited, Responsible, NothingLeftAfterWait
<1> QED
  BY Invariance, <1>1, PTL
================================================================================
