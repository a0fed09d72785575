---------------------------- MODULE ServeScopeProofs ----------------------------
(***************************************************************************)
(* Proofs about ServeScope for every set of connections, every startup     *)
(* policy and every limit: the accounting of startup and connection slots, *)
(* the drop rate, what Serve and HandleConn leave behind when they return, *)
(* and that ServeScope implements ServeAbstract.                           *)
(***************************************************************************)
EXTENDS ServeScope, FiniteSetTheorems, TLAPS

\* A connection that waits to be tracked has no goroutine yet, a tracked one has,
\* and untrackConnection's second section never finds a startup slot.
Places ==
  /\ main \in {"prepare", "track"} => \A c \in cur : pc[c] = "idle"
  /\ \A c \in connections : pc[c] # "idle"
  /\ \A c \in startupReserved : pc[c] # "delete"

\* The places of a connection that serves, and those among them that a
\* connection over the limit never reaches.
ServedPCs == {"established", "stopTimer", "serving", "ending", "closeAll", "untrack", "delete",
              "workers", "disconnect", "release"}
HoldingPCs == ServedPCs \ {"untrack", "delete"}

\* A goroutine on the path of a served connection holds a slot and no other one
\* does; the counter stays at zero when there is no limit.
Slots ==
  /\ \A c \in reserved : pc[c] \in ServedPCs
  /\ \A c \in Conns : pc[c] \in HoldingPCs => c \in reserved
  /\ ConnectionLimit = 0 => authenticated = 0 /\ Undoing = {}
  /\ AuthenticatedWithinLimit

\* effectiveMaxStartups yields integers and a limit that is never negative.
LEMMA StartupsType == Startups \in [Start : Int, Rate : Int, Full : Nat]
  BY StartupsAssumption
  DEF Startups, effectiveMaxStartups, DefaultMaxStartups, Disabled, Clamp

\* configuredLimit yields a limit that is never negative.
LEMMA LimitType == ConnectionLimit \in Nat
  BY LimitAssumption DEF ConnectionLimit, configuredLimit, DefaultMaxConnections

LEMMA TypesInit == Init => StateTypes
<1> SUFFICES ASSUME Init PROVE StateTypes
  OBVIOUS
<1>1. cur \subseteq Conns
  BY DEF Init
<1>2. open \in [Conns -> SUBSET Layers]
  BY DEF Init, Layers
<1>3. listenerOpen = (entry = "Serve")
  BY DEF Init
<1>4. /\ ctxDone \in BOOLEAN /\ listenerOpen \in BOOLEAN
      /\ stopping \in BOOLEAN /\ forced \in BOOLEAN /\ drained \in BOOLEAN
  BY <1>3 DEF Init
<1>5. /\ transport \in [Conns -> Layers] /\ layer \in [Conns -> Layers]
      /\ pc \in [Conns -> HandlerPCs] /\ cause \in [Conns -> Causes]
      /\ handshakeTimer \in [Conns -> TimerStates] /\ maxTimer \in [Conns -> TimerStates]
  BY DEF Init, Layers, HandlerPCs, Causes, TimerStates
<1>6. /\ prepared \in {"running", "ready", "failed"}
      /\ watch \in {"off", "armed", "closing", "over"}
      /\ main \in MainPCs /\ acceptErr \in {"none", "transient", "closed"}
      /\ startups \in Int /\ authenticated \in Int
  BY DEF Init, MainPCs
<1>6a. entry \in {"Serve", "HandleConn"}
  BY EntriesAssumption DEF Init
<1>7. /\ connections \subseteq Conns /\ handshaking \subseteq Conns
      /\ startupReserved \subseteq Conns /\ closed \subseteq Conns /\ cancelSet \subseteq Conns
      /\ reserved \subseteq Conns /\ broken \subseteq Conns /\ resClosed \subseteq Conns
      /\ cleanups \subseteq Conns
  BY DEF Init
<1> QED
  BY <1>1, <1>2, <1>4, <1>5, <1>6, <1>6a, <1>7 DEF StateTypes

\* Every step keeps the variables in their sets.
LEMMA TypesNext == StateTypes /\ [Next]_vars => StateTypes'
<1> SUFFICES ASSUME StateTypes, [Next]_vars PROVE StateTypes'
  OBVIOUS
<1> USE DEF StateTypes, outerVars, scopeVars, activeVars, timerVars, connVars, mainVars, HandlerFrame,
            HandlerPCs, MainPCs, Causes, TimerStates, Layers
<1>0. CASE UNCHANGED vars
  BY <1>0 DEF vars
<1>1. CASE ContextCanceled
  BY <1>1 DEF ContextCanceled
<1>2. CASE ListenerClosed
  <2>1. listenerOpen' \in BOOLEAN
    BY <1>2 DEF ListenerClosed
  <2> QED
    BY <1>2, <2>1 DEF ListenerClosed
<1>3. CASE PrepareFinishes
  BY <1>3 DEF PrepareFinishes
<1>4. ASSUME NEW c \in Conns, TransportFails(c) PROVE StateTypes'
  BY <1>4 DEF TransportFails
<1>5. CASE WatchStops
  BY <1>5 DEF WatchStops, StopAcceptingSection, maybeCloseDrained
<1>6. CASE WatchCloses
  <2>1. listenerOpen' \in BOOLEAN
    BY <1>6 DEF WatchCloses
  <2> QED
    BY <1>6, <2>1 DEF WatchCloses
<1>7. CASE PrepareReady
  BY <1>7 DEF PrepareReady
<1>8. CASE PrepareFails
  BY <1>8 DEF PrepareFails, Return
<1>9. ASSUME NEW c \in Conns, Accept(c) PROVE StateTypes'
  BY <1>9 DEF Accept
<1>10. CASE AcceptFails
  BY <1>10 DEF AcceptFails
<1>11. ASSUME NEW x \in BOOLEAN, NEW y \in BOOLEAN, DispatchReturns(x, y) PROVE StateTypes'
  BY <1>11 DEF DispatchReturns
<1>11a. CASE DispatchAbandoned
  BY <1>11a DEF DispatchAbandoned
<1>12. CASE Retry
  BY <1>12 DEF Retry
<1>13. ASSUME NEW c \in Conns, TrackRefuses(c) PROVE StateTypes'
  BY <1>13 DEF TrackRefuses, Return, CloseLayer
<1>14. ASSUME NEW c \in Conns, TrackAdmits(c) PROVE StateTypes'
  BY <1>14 DEF TrackAdmits
<1>15. CASE AwaitReturns
  BY <1>15 DEF AwaitReturns, Return
<1>16. CASE AwaitCanceled
  BY <1>16 DEF AwaitCanceled
<1>17. CASE ShutdownStops
  BY <1>17 DEF ShutdownStops, MainStops, StopAcceptingSection, maybeCloseDrained
<1>18. CASE ShutdownCloses
  <2>1. listenerOpen' \in BOOLEAN
    BY <1>18 DEF ShutdownCloses, MainCloses
  <2>2. main' \in MainPCs
    BY <1>18 DEF ShutdownCloses, MainCloses
  <2> QED
    BY <1>18, <2>1, <2>2, SMTT(30) DEF ShutdownCloses, MainCloses
<1>19. CASE GraceGranted
  BY <1>19 DEF GraceGranted, MainGoes
<1>20. CASE GraceDenied
  BY <1>20 DEF GraceDenied, MainGoes
<1>21. CASE Drained
  BY <1>21 DEF Drained, Return
<1>22. CASE GraceExpires
  BY <1>22 DEF GraceExpires, Return
<1>23. CASE ForceStops
  BY <1>23 DEF ForceStops, MainStops, StopAcceptingSection, maybeCloseDrained
<1>24. CASE ForceCloses
  <2>1. listenerOpen' \in BOOLEAN
    BY <1>24 DEF ForceCloses, MainCloses
  <2>2. main' \in MainPCs
    BY <1>24 DEF ForceCloses, MainCloses
  <2> QED
    BY <1>24, <2>1, <2>2, SMTT(30) DEF ForceCloses, MainCloses
<1>25. CASE ForceLocks
  BY <1>25 DEF ForceLocks, maybeCloseDrained
<1>26. ASSUME NEW c \in Conns, CleanupCancels(c) PROVE StateTypes'
  BY <1>26 DEF CleanupCancels, CancelCause
<1>27. ASSUME NEW c \in Conns, CleanupCloses(c) PROVE StateTypes'
  BY <1>27 DEF CleanupCloses, CloseLayer
<1>28. ASSUME NEW c \in Conns, CleanupResources(c) PROVE StateTypes'
  BY <1>28 DEF CleanupResources
<1>29. CASE CleanupDone
  BY <1>29 DEF CleanupDone, Return
<1>30. ASSUME NEW c \in Conns, UpdateCancel(c) PROVE StateTypes'
  BY <1>30 DEF UpdateCancel, Goes, NextStage
<1>31. ASSUME NEW c \in Conns, UpdateCancelFails(c) PROVE StateTypes'
  BY <1>31 DEF UpdateCancelFails, Goes, CloseLayer
<1>32. ASSUME NEW c \in Conns, ProxyWraps(c) PROVE StateTypes'
  BY <1>32 DEF ProxyWraps, Wrap, Goes
<1>33. ASSUME NEW c \in Conns, CallbackReturns(c) PROVE StateTypes'
  BY <1>33 DEF CallbackReturns, Wrap, Goes
<1>34. ASSUME NEW c \in Conns, WrapFails(c) PROVE StateTypes'
  BY <1>34 DEF WrapFails, CloseLayer
<1>35. ASSUME NEW c \in Conns, ProxyUpdated(c) PROVE StateTypes'
  BY <1>35 DEF ProxyUpdated, UpdateConnection, Goes, NextStage
<1>36. ASSUME NEW c \in Conns, CallbackUpdated(c) PROVE StateTypes'
  BY <1>36 DEF CallbackUpdated, UpdateConnection, Goes, NextStage
<1>37. ASSUME NEW c \in Conns, UpdateConnectionFails(c) PROVE StateTypes'
  BY <1>37 DEF UpdateConnectionFails, CloseLayer
<1>38. ASSUME NEW c \in Conns, HandshakeSucceeds(c) PROVE StateTypes'
  BY <1>38 DEF HandshakeSucceeds, Goes
<1>39. ASSUME NEW c \in Conns, HandshakeFails(c) PROVE StateTypes'
  BY <1>39 DEF HandshakeFails, Goes, CloseLayer, CancelCause
<1>40. ASSUME NEW c \in Conns, Reserve(c) PROVE StateTypes'
  BY <1>40 DEF Reserve
<1>41. ASSUME NEW c \in Conns, ReserveUndo(c) PROVE StateTypes'
  BY <1>41 DEF ReserveUndo, Goes
<1>42. ASSUME NEW c \in Conns, Rejected(c) PROVE StateTypes'
  BY <1>42 DEF Rejected, Goes, CloseLayer, CancelCause
<1>43. ASSUME NEW c \in Conns, Established(c) PROVE StateTypes'
  BY <1>43 DEF Established, ReleaseStartup, Goes
<1>44. ASSUME NEW c \in Conns, StopHandshakeTimer(c) PROVE StateTypes'
  BY <1>44 DEF StopHandshakeTimer, Goes, StopTimer
<1>45. ASSUME NEW c \in Conns, WorkerCloses(c) PROVE StateTypes'
  BY <1>45 DEF WorkerCloses, CloseLayer, CancelCause
<1>46. ASSUME NEW c \in Conns, LoopEnds(c) PROVE StateTypes'
  BY <1>46 DEF LoopEnds, Goes
<1>47. ASSUME NEW c \in Conns, EndConnection(c) PROVE StateTypes'
  BY <1>47 DEF EndConnection, Goes, CloseLayer, CancelCause
<1>48. ASSUME NEW c \in Conns, CloseResources(c) PROVE StateTypes'
  BY <1>48 DEF CloseResources, Goes
<1>49. ASSUME NEW c \in Conns, Untrack(c) PROVE StateTypes'
  BY <1>49 DEF Untrack, ReleaseStartup, Goes
<1>50. ASSUME NEW c \in Conns, Delete(c) PROVE StateTypes'
  BY <1>50 DEF Delete, Goes, maybeCloseDrained
<1>51. ASSUME NEW c \in Conns, WorkersDone(c) PROVE StateTypes'
  BY <1>51 DEF WorkersDone, Goes
<1>52. ASSUME NEW c \in Conns, DisconnectReturns(c) PROVE StateTypes'
  BY <1>52 DEF DisconnectReturns, Goes
<1>53. ASSUME NEW c \in Conns, ReleaseSlot(c) PROVE StateTypes'
  BY <1>53 DEF ReleaseSlot, Goes, StopTimer
<1>54. ASSUME NEW c \in Conns, UserCallbackReturns(c) PROVE StateTypes'
  BY <1>54 DEF UserCallbackReturns, Goes
<1>55. ASSUME NEW c \in Conns, Exit(c) PROVE StateTypes'
  BY <1>55 DEF Exit, Goes, StopTimer, CancelCause
<1>56. ASSUME NEW c \in Conns, HandshakeTimerChecks(c) PROVE StateTypes'
  BY <1>56 DEF HandshakeTimerChecks
<1>57. ASSUME NEW c \in Conns, HandshakeTimerCancels(c) PROVE StateTypes'
  BY <1>57 DEF HandshakeTimerCancels, CancelCause
<1>58. ASSUME NEW c \in Conns, MaxTimerCancels(c) PROVE StateTypes'
  BY <1>58 DEF MaxTimerCancels, CancelCause
<1> QED
  BY <1>0, <1>1, <1>2, <1>3, <1>4, <1>5, <1>6, <1>7, <1>8, <1>9, <1>10, <1>11, <1>11a,
     <1>12, <1>13, <1>14, <1>15, <1>16, <1>17, <1>18, <1>19, <1>20, <1>21, <1>22, <1>23,
     <1>24, <1>25, <1>26, <1>27, <1>28, <1>29, <1>30, <1>31, <1>32, <1>33, <1>34, <1>35,
     <1>36, <1>37, <1>38, <1>39, <1>40, <1>41, <1>42, <1>43, <1>44, <1>45, <1>46, <1>47,
     <1>48, <1>49, <1>50, <1>51, <1>52, <1>53, <1>54, <1>55, <1>56, <1>57, <1>58
  DEF Next, MainStep, WatchStep, HandlerStep, OutsideStep, TimerStep, Terminated, vars


\* Every step keeps Places.
LEMMA PlaceNext == StateTypes /\ Places /\ [Next]_vars => Places'
<1> SUFFICES ASSUME StateTypes, Places, [Next]_vars PROVE Places'
  OBVIOUS
<1> USE DEF Places, StateTypes, outerVars, scopeVars, activeVars, timerVars, connVars, mainVars, HandlerFrame,
            HandlerPCs, MainPCs
<1>0. CASE UNCHANGED vars
  BY <1>0 DEF vars
<1>1. CASE ContextCanceled
  BY <1>1 DEF ContextCanceled
<1>2. CASE ListenerClosed
  BY <1>2 DEF ListenerClosed
<1>3. CASE PrepareFinishes
  BY <1>3 DEF PrepareFinishes
<1>4. ASSUME NEW c \in Conns, TransportFails(c) PROVE Places'
  BY <1>4 DEF TransportFails
<1>5. CASE WatchStops
  BY <1>5 DEF WatchStops, StopAcceptingSection, maybeCloseDrained
<1>6. CASE WatchCloses
  BY <1>6 DEF WatchCloses
<1>7. CASE PrepareReady
  BY <1>7 DEF PrepareReady
<1>8. CASE PrepareFails
  BY <1>8 DEF PrepareFails, Return
<1>9. ASSUME NEW c \in Conns, Accept(c) PROVE Places'
  BY <1>9 DEF Accept
<1>10. CASE AcceptFails
  BY <1>10 DEF AcceptFails
<1>11. ASSUME NEW x \in BOOLEAN, NEW y \in BOOLEAN, DispatchReturns(x, y) PROVE Places'
  BY <1>11 DEF DispatchReturns
<1>11a. CASE DispatchAbandoned
  BY <1>11a DEF DispatchAbandoned
<1>12. CASE Retry
  BY <1>12 DEF Retry
<1>13. ASSUME NEW c \in Conns, TrackRefuses(c) PROVE Places'
  BY <1>13 DEF TrackRefuses, Return, CloseLayer
<1>14. ASSUME NEW c \in Conns, TrackAdmits(c) PROVE Places'
  BY <1>14 DEF TrackAdmits
<1>15. CASE AwaitReturns
  BY <1>15 DEF AwaitReturns, Return
<1>16. CASE AwaitCanceled
  BY <1>16 DEF AwaitCanceled
<1>17. CASE ShutdownStops
  BY <1>17 DEF ShutdownStops, MainStops, StopAcceptingSection, maybeCloseDrained
<1>18. CASE ShutdownCloses
  BY <1>18 DEF ShutdownCloses, MainCloses
<1>19. CASE GraceGranted
  BY <1>19 DEF GraceGranted, MainGoes
<1>20. CASE GraceDenied
  BY <1>20 DEF GraceDenied, MainGoes
<1>21. CASE Drained
  BY <1>21 DEF Drained, Return
<1>22. CASE GraceExpires
  BY <1>22 DEF GraceExpires, Return
<1>23. CASE ForceStops
  BY <1>23 DEF ForceStops, MainStops, StopAcceptingSection, maybeCloseDrained
<1>24. CASE ForceCloses
  BY <1>24 DEF ForceCloses, MainCloses
<1>25. CASE ForceLocks
  BY <1>25 DEF ForceLocks, maybeCloseDrained
<1>26. ASSUME NEW c \in Conns, CleanupCancels(c) PROVE Places'
  BY <1>26 DEF CleanupCancels, CancelCause
<1>27. ASSUME NEW c \in Conns, CleanupCloses(c) PROVE Places'
  BY <1>27 DEF CleanupCloses, CloseLayer
<1>28. ASSUME NEW c \in Conns, CleanupResources(c) PROVE Places'
  BY <1>28 DEF CleanupResources
<1>29. CASE CleanupDone
  BY <1>29 DEF CleanupDone, Return
<1>30. ASSUME NEW c \in Conns, UpdateCancel(c) PROVE Places'
  BY <1>30 DEF UpdateCancel, Goes, NextStage
<1>31. ASSUME NEW c \in Conns, UpdateCancelFails(c) PROVE Places'
  BY <1>31 DEF UpdateCancelFails, Goes, CloseLayer
<1>32. ASSUME NEW c \in Conns, ProxyWraps(c) PROVE Places'
  BY <1>32 DEF ProxyWraps, Wrap, Goes
<1>33. ASSUME NEW c \in Conns, CallbackReturns(c) PROVE Places'
  BY <1>33 DEF CallbackReturns, Wrap, Goes
<1>34. ASSUME NEW c \in Conns, WrapFails(c) PROVE Places'
  BY <1>34 DEF WrapFails, CloseLayer
<1>35. ASSUME NEW c \in Conns, ProxyUpdated(c) PROVE Places'
  BY <1>35 DEF ProxyUpdated, UpdateConnection, Goes, NextStage
<1>36. ASSUME NEW c \in Conns, CallbackUpdated(c) PROVE Places'
  BY <1>36 DEF CallbackUpdated, UpdateConnection, Goes, NextStage
<1>37. ASSUME NEW c \in Conns, UpdateConnectionFails(c) PROVE Places'
  BY <1>37 DEF UpdateConnectionFails, CloseLayer
<1>38. ASSUME NEW c \in Conns, HandshakeSucceeds(c) PROVE Places'
  BY <1>38 DEF HandshakeSucceeds, Goes
<1>39. ASSUME NEW c \in Conns, HandshakeFails(c) PROVE Places'
  BY <1>39 DEF HandshakeFails, Goes, CloseLayer, CancelCause
<1>40. ASSUME NEW c \in Conns, Reserve(c) PROVE Places'
  BY <1>40 DEF Reserve
<1>41. ASSUME NEW c \in Conns, ReserveUndo(c) PROVE Places'
  BY <1>41 DEF ReserveUndo, Goes
<1>42. ASSUME NEW c \in Conns, Rejected(c) PROVE Places'
  BY <1>42 DEF Rejected, Goes, CloseLayer, CancelCause
<1>43. ASSUME NEW c \in Conns, Established(c) PROVE Places'
  BY <1>43 DEF Established, ReleaseStartup, Goes
<1>44. ASSUME NEW c \in Conns, StopHandshakeTimer(c) PROVE Places'
  BY <1>44 DEF StopHandshakeTimer, Goes, StopTimer
<1>45. ASSUME NEW c \in Conns, WorkerCloses(c) PROVE Places'
  BY <1>45 DEF WorkerCloses, CloseLayer, CancelCause
<1>46. ASSUME NEW c \in Conns, LoopEnds(c) PROVE Places'
  BY <1>46 DEF LoopEnds, Goes
<1>47. ASSUME NEW c \in Conns, EndConnection(c) PROVE Places'
  BY <1>47 DEF EndConnection, Goes, CloseLayer, CancelCause
<1>48. ASSUME NEW c \in Conns, CloseResources(c) PROVE Places'
  BY <1>48 DEF CloseResources, Goes
<1>49. ASSUME NEW c \in Conns, Untrack(c) PROVE Places'
  BY <1>49 DEF Untrack, ReleaseStartup, Goes
<1>50. ASSUME NEW c \in Conns, Delete(c) PROVE Places'
  BY <1>50 DEF Delete, Goes, maybeCloseDrained
<1>51. ASSUME NEW c \in Conns, WorkersDone(c) PROVE Places'
  BY <1>51 DEF WorkersDone, Goes
<1>52. ASSUME NEW c \in Conns, DisconnectReturns(c) PROVE Places'
  BY <1>52 DEF DisconnectReturns, Goes
<1>53. ASSUME NEW c \in Conns, ReleaseSlot(c) PROVE Places'
  BY <1>53 DEF ReleaseSlot, Goes, StopTimer
<1>54. ASSUME NEW c \in Conns, UserCallbackReturns(c) PROVE Places'
  BY <1>54 DEF UserCallbackReturns, Goes
<1>55. ASSUME NEW c \in Conns, Exit(c) PROVE Places'
  BY <1>55 DEF Exit, Goes, StopTimer, CancelCause
<1>56. ASSUME NEW c \in Conns, HandshakeTimerChecks(c) PROVE Places'
  BY <1>56 DEF HandshakeTimerChecks
<1>57. ASSUME NEW c \in Conns, HandshakeTimerCancels(c) PROVE Places'
  BY <1>57 DEF HandshakeTimerCancels, CancelCause
<1>58. ASSUME NEW c \in Conns, MaxTimerCancels(c) PROVE Places'
  BY <1>58 DEF MaxTimerCancels, CancelCause
<1> QED
  BY <1>0, <1>1, <1>2, <1>3, <1>4, <1>5, <1>6, <1>7, <1>8, <1>9, <1>10, <1>11, <1>11a,
     <1>12, <1>13, <1>14, <1>15, <1>16, <1>17, <1>18, <1>19, <1>20, <1>21, <1>22, <1>23,
     <1>24, <1>25, <1>26, <1>27, <1>28, <1>29, <1>30, <1>31, <1>32, <1>33, <1>34, <1>35,
     <1>36, <1>37, <1>38, <1>39, <1>40, <1>41, <1>42, <1>43, <1>44, <1>45, <1>46, <1>47,
     <1>48, <1>49, <1>50, <1>51, <1>52, <1>53, <1>54, <1>55, <1>56, <1>57, <1>58
  DEF Next, MainStep, WatchStep, HandlerStep, OutsideStep, TimerStep, Terminated, vars


\* Every step keeps DrainedMeansEmpty: after stopping nothing is added.
LEMMA DrainedNext == StateTypes /\ DrainedMeansEmpty /\ [Next]_vars => DrainedMeansEmpty'
<1> SUFFICES ASSUME StateTypes, DrainedMeansEmpty, [Next]_vars PROVE DrainedMeansEmpty'
  OBVIOUS
<1> USE DEF DrainedMeansEmpty, StateTypes, outerVars, scopeVars, activeVars, timerVars, connVars, mainVars, HandlerFrame
<1>0. CASE UNCHANGED vars
  BY <1>0 DEF vars
<1>1. CASE ContextCanceled
  BY <1>1 DEF ContextCanceled
<1>2. CASE ListenerClosed
  BY <1>2 DEF ListenerClosed
<1>3. CASE PrepareFinishes
  BY <1>3 DEF PrepareFinishes
<1>4. ASSUME NEW c \in Conns, TransportFails(c) PROVE DrainedMeansEmpty'
  BY <1>4 DEF TransportFails
<1>5. CASE WatchStops
  BY <1>5 DEF WatchStops, StopAcceptingSection, maybeCloseDrained
<1>6. CASE WatchCloses
  BY <1>6 DEF WatchCloses
<1>7. CASE PrepareReady
  BY <1>7 DEF PrepareReady
<1>8. CASE PrepareFails
  BY <1>8 DEF PrepareFails, Return
<1>9. ASSUME NEW c \in Conns, Accept(c) PROVE DrainedMeansEmpty'
  BY <1>9 DEF Accept
<1>10. CASE AcceptFails
  BY <1>10 DEF AcceptFails
<1>11. ASSUME NEW x \in BOOLEAN, NEW y \in BOOLEAN, DispatchReturns(x, y) PROVE DrainedMeansEmpty'
  BY <1>11 DEF DispatchReturns
<1>11a. CASE DispatchAbandoned
  BY <1>11a DEF DispatchAbandoned
<1>12. CASE Retry
  BY <1>12 DEF Retry
<1>13. ASSUME NEW c \in Conns, TrackRefuses(c) PROVE DrainedMeansEmpty'
  BY <1>13 DEF TrackRefuses, Return, CloseLayer
<1>14. ASSUME NEW c \in Conns, TrackAdmits(c) PROVE DrainedMeansEmpty'
  BY <1>14 DEF TrackAdmits
<1>15. CASE AwaitReturns
  BY <1>15 DEF AwaitReturns, Return
<1>16. CASE AwaitCanceled
  BY <1>16 DEF AwaitCanceled
<1>17. CASE ShutdownStops
  BY <1>17 DEF ShutdownStops, MainStops, StopAcceptingSection, maybeCloseDrained
<1>18. CASE ShutdownCloses
  BY <1>18 DEF ShutdownCloses, MainCloses
<1>19. CASE GraceGranted
  BY <1>19 DEF GraceGranted, MainGoes
<1>20. CASE GraceDenied
  BY <1>20 DEF GraceDenied, MainGoes
<1>21. CASE Drained
  BY <1>21 DEF Drained, Return
<1>22. CASE GraceExpires
  BY <1>22 DEF GraceExpires, Return
<1>23. CASE ForceStops
  BY <1>23 DEF ForceStops, MainStops, StopAcceptingSection, maybeCloseDrained
<1>24. CASE ForceCloses
  BY <1>24 DEF ForceCloses, MainCloses
<1>25. CASE ForceLocks
  BY <1>25 DEF ForceLocks, maybeCloseDrained
<1>26. ASSUME NEW c \in Conns, CleanupCancels(c) PROVE DrainedMeansEmpty'
  BY <1>26 DEF CleanupCancels, CancelCause
<1>27. ASSUME NEW c \in Conns, CleanupCloses(c) PROVE DrainedMeansEmpty'
  BY <1>27 DEF CleanupCloses, CloseLayer
<1>28. ASSUME NEW c \in Conns, CleanupResources(c) PROVE DrainedMeansEmpty'
  BY <1>28 DEF CleanupResources
<1>29. CASE CleanupDone
  BY <1>29 DEF CleanupDone, Return
<1>30. ASSUME NEW c \in Conns, UpdateCancel(c) PROVE DrainedMeansEmpty'
  BY <1>30 DEF UpdateCancel, Goes, NextStage
<1>31. ASSUME NEW c \in Conns, UpdateCancelFails(c) PROVE DrainedMeansEmpty'
  BY <1>31 DEF UpdateCancelFails, Goes, CloseLayer
<1>32. ASSUME NEW c \in Conns, ProxyWraps(c) PROVE DrainedMeansEmpty'
  BY <1>32 DEF ProxyWraps, Wrap, Goes
<1>33. ASSUME NEW c \in Conns, CallbackReturns(c) PROVE DrainedMeansEmpty'
  BY <1>33 DEF CallbackReturns, Wrap, Goes
<1>34. ASSUME NEW c \in Conns, WrapFails(c) PROVE DrainedMeansEmpty'
  BY <1>34 DEF WrapFails, CloseLayer
<1>35. ASSUME NEW c \in Conns, ProxyUpdated(c) PROVE DrainedMeansEmpty'
  BY <1>35 DEF ProxyUpdated, UpdateConnection, Goes, NextStage
<1>36. ASSUME NEW c \in Conns, CallbackUpdated(c) PROVE DrainedMeansEmpty'
  BY <1>36 DEF CallbackUpdated, UpdateConnection, Goes, NextStage
<1>37. ASSUME NEW c \in Conns, UpdateConnectionFails(c) PROVE DrainedMeansEmpty'
  BY <1>37 DEF UpdateConnectionFails, CloseLayer
<1>38. ASSUME NEW c \in Conns, HandshakeSucceeds(c) PROVE DrainedMeansEmpty'
  BY <1>38 DEF HandshakeSucceeds, Goes
<1>39. ASSUME NEW c \in Conns, HandshakeFails(c) PROVE DrainedMeansEmpty'
  BY <1>39 DEF HandshakeFails, Goes, CloseLayer, CancelCause
<1>40. ASSUME NEW c \in Conns, Reserve(c) PROVE DrainedMeansEmpty'
  BY <1>40 DEF Reserve
<1>41. ASSUME NEW c \in Conns, ReserveUndo(c) PROVE DrainedMeansEmpty'
  BY <1>41 DEF ReserveUndo, Goes
<1>42. ASSUME NEW c \in Conns, Rejected(c) PROVE DrainedMeansEmpty'
  BY <1>42 DEF Rejected, Goes, CloseLayer, CancelCause
<1>43. ASSUME NEW c \in Conns, Established(c) PROVE DrainedMeansEmpty'
  BY <1>43 DEF Established, ReleaseStartup, Goes
<1>44. ASSUME NEW c \in Conns, StopHandshakeTimer(c) PROVE DrainedMeansEmpty'
  BY <1>44 DEF StopHandshakeTimer, Goes, StopTimer
<1>45. ASSUME NEW c \in Conns, WorkerCloses(c) PROVE DrainedMeansEmpty'
  BY <1>45 DEF WorkerCloses, CloseLayer, CancelCause
<1>46. ASSUME NEW c \in Conns, LoopEnds(c) PROVE DrainedMeansEmpty'
  BY <1>46 DEF LoopEnds, Goes
<1>47. ASSUME NEW c \in Conns, EndConnection(c) PROVE DrainedMeansEmpty'
  BY <1>47 DEF EndConnection, Goes, CloseLayer, CancelCause
<1>48. ASSUME NEW c \in Conns, CloseResources(c) PROVE DrainedMeansEmpty'
  BY <1>48 DEF CloseResources, Goes
<1>49. ASSUME NEW c \in Conns, Untrack(c) PROVE DrainedMeansEmpty'
  BY <1>49 DEF Untrack, ReleaseStartup, Goes
<1>50. ASSUME NEW c \in Conns, Delete(c) PROVE DrainedMeansEmpty'
  BY <1>50 DEF Delete, Goes, maybeCloseDrained
<1>51. ASSUME NEW c \in Conns, WorkersDone(c) PROVE DrainedMeansEmpty'
  BY <1>51 DEF WorkersDone, Goes
<1>52. ASSUME NEW c \in Conns, DisconnectReturns(c) PROVE DrainedMeansEmpty'
  BY <1>52 DEF DisconnectReturns, Goes
<1>53. ASSUME NEW c \in Conns, ReleaseSlot(c) PROVE DrainedMeansEmpty'
  BY <1>53 DEF ReleaseSlot, Goes, StopTimer
<1>54. ASSUME NEW c \in Conns, UserCallbackReturns(c) PROVE DrainedMeansEmpty'
  BY <1>54 DEF UserCallbackReturns, Goes
<1>55. ASSUME NEW c \in Conns, Exit(c) PROVE DrainedMeansEmpty'
  BY <1>55 DEF Exit, Goes, StopTimer, CancelCause
<1>56. ASSUME NEW c \in Conns, HandshakeTimerChecks(c) PROVE DrainedMeansEmpty'
  BY <1>56 DEF HandshakeTimerChecks
<1>57. ASSUME NEW c \in Conns, HandshakeTimerCancels(c) PROVE DrainedMeansEmpty'
  BY <1>57 DEF HandshakeTimerCancels, CancelCause
<1>58. ASSUME NEW c \in Conns, MaxTimerCancels(c) PROVE DrainedMeansEmpty'
  BY <1>58 DEF MaxTimerCancels, CancelCause
<1> QED
  BY <1>0, <1>1, <1>2, <1>3, <1>4, <1>5, <1>6, <1>7, <1>8, <1>9, <1>10, <1>11, <1>11a,
     <1>12, <1>13, <1>14, <1>15, <1>16, <1>17, <1>18, <1>19, <1>20, <1>21, <1>22, <1>23,
     <1>24, <1>25, <1>26, <1>27, <1>28, <1>29, <1>30, <1>31, <1>32, <1>33, <1>34, <1>35,
     <1>36, <1>37, <1>38, <1>39, <1>40, <1>41, <1>42, <1>43, <1>44, <1>45, <1>46, <1>47,
     <1>48, <1>49, <1>50, <1>51, <1>52, <1>53, <1>54, <1>55, <1>56, <1>57, <1>58
  DEF Next, MainStep, WatchStep, HandlerStep, OutsideStep, TimerStep, Terminated, vars


\* The set of slot holders is finite.
LEMMA FiniteSlots ==
  ASSUME StateTypes
  PROVE  IsFiniteSet(startupReserved) /\ Cardinality(startupReserved) \in Nat
  BY ConnsFinite, FS_Subset, FS_CardinalityType DEF StateTypes

\* releaseStartup gives back one slot if the connection holds one, else nothing.
LEMMA ReleaseKeepsAccounting ==
  ASSUME StateTypes, StartupAccounting, NEW c \in Conns, NEW from, NEW to,
         ReleaseStartup(c, from, to)
  PROVE  StartupAccounting'
<1>1. /\ connections' = connections /\ startupReserved' = startupReserved \ {c}
      /\ startups' = IF c \in startupReserved THEN startups - 1 ELSE startups
  BY DEF ReleaseStartup
<1>2. Cardinality(startupReserved \ {c}) =
        IF c \in startupReserved THEN Cardinality(startupReserved) - 1
                                 ELSE Cardinality(startupReserved)
  BY FiniteSlots, FS_RemoveElement
<1> QED
  BY <1>1, <1>2, FiniteSlots, StartupsType DEF StartupAccounting

\* Every step keeps StartupAccounting.  Only trackConnection, releaseStartup and
\* force change the slots; each changes startups by as many.
LEMMA StartupNext == StateTypes /\ Places /\ StartupAccounting /\ [Next]_vars => StartupAccounting'
<1> SUFFICES ASSUME StateTypes, Places, StartupAccounting, [Next]_vars PROVE StartupAccounting'
  OBVIOUS
<1> USE DEF StartupAccounting, StateTypes, outerVars, scopeVars, activeVars, timerVars, connVars, mainVars, HandlerFrame
<1>0. CASE UNCHANGED vars
  BY <1>0 DEF vars
<1>1. CASE ContextCanceled
  BY <1>1 DEF ContextCanceled
<1>2. CASE ListenerClosed
  BY <1>2 DEF ListenerClosed
<1>3. CASE PrepareFinishes
  BY <1>3 DEF PrepareFinishes
<1>4. ASSUME NEW c \in Conns, TransportFails(c) PROVE StartupAccounting'
  BY <1>4 DEF TransportFails
<1>5. CASE WatchStops
  BY <1>5 DEF WatchStops, StopAcceptingSection, maybeCloseDrained
<1>6. CASE WatchCloses
  BY <1>6 DEF WatchCloses
<1>7. CASE PrepareReady
  BY <1>7 DEF PrepareReady
<1>8. CASE PrepareFails
  BY <1>8 DEF PrepareFails, Return
<1>9. ASSUME NEW c \in Conns, Accept(c) PROVE StartupAccounting'
  BY <1>9 DEF Accept
<1>10. CASE AcceptFails
  BY <1>10 DEF AcceptFails
<1>11. ASSUME NEW x \in BOOLEAN, NEW y \in BOOLEAN, DispatchReturns(x, y) PROVE StartupAccounting'
  BY <1>11 DEF DispatchReturns
<1>11a. CASE DispatchAbandoned
  BY <1>11a DEF DispatchAbandoned
<1>12. CASE Retry
  BY <1>12 DEF Retry
<1>13. ASSUME NEW c \in Conns, TrackRefuses(c) PROVE StartupAccounting'
  BY <1>13 DEF TrackRefuses, Return, CloseLayer
<1>14. ASSUME NEW c \in Conns, TrackAdmits(c) PROVE StartupAccounting'
  <2> USE <1>14 DEF TrackAdmits, Places
  <2>1. c \notin startupReserved
    OBVIOUS
  <2>2. startups < Startups.Full \/ Startups.Full = 0
    BY StartupsType DEF MayAdmit, maxStartupsDropRate
  <2>3. CASE Startups.Full > 0
    <3>1. Cardinality(startupReserved \cup {c}) = Cardinality(startupReserved) + 1
      BY <2>1, FiniteSlots, FS_AddElement
    <3> QED
      BY <2>2, <2>3, <3>1, StartupsType
  <2>4. CASE ~(Startups.Full > 0)
    BY <2>4
  <2> QED
    BY <2>3, <2>4
<1>15. CASE AwaitReturns
  BY <1>15 DEF AwaitReturns, Return
<1>16. CASE AwaitCanceled
  BY <1>16 DEF AwaitCanceled
<1>17. CASE ShutdownStops
  BY <1>17 DEF ShutdownStops, MainStops, StopAcceptingSection, maybeCloseDrained
<1>18. CASE ShutdownCloses
  BY <1>18 DEF ShutdownCloses, MainCloses
<1>19. CASE GraceGranted
  BY <1>19 DEF GraceGranted, MainGoes
<1>20. CASE GraceDenied
  BY <1>20 DEF GraceDenied, MainGoes
<1>21. CASE Drained
  BY <1>21 DEF Drained, Return
<1>22. CASE GraceExpires
  BY <1>22 DEF GraceExpires, Return
<1>23. CASE ForceStops
  BY <1>23 DEF ForceStops, MainStops, StopAcceptingSection, maybeCloseDrained
<1>24. CASE ForceCloses
  BY <1>24 DEF ForceCloses, MainCloses
<1>25. CASE ForceLocks
  <2>1. connections \cap startupReserved = startupReserved
    OBVIOUS
  <2>2. /\ startupReserved' = startupReserved \ connections /\ connections' = {}
        /\ startups' = startups - Cardinality(connections \cap startupReserved)
    BY <1>25 DEF ForceLocks
  <2>3. startups' = 0
    <3>1. startups' = startups - Cardinality(startupReserved)
      BY <2>1, <2>2, Zenon
    <3>2. startups = Cardinality(startupReserved) /\ startups \in Int
      OBVIOUS
    <3> QED
      BY <3>1, <3>2
  <2>4. startupReserved' = {}
    BY <2>1, <2>2
  <2> QED
    <3>1. Cardinality(startupReserved') = 0
      BY <2>4, FS_EmptySet, Zenon
    <3>2. Startups.Full \in Nat
      BY StartupsType
    <3> QED
      BY <2>2, <2>3, <2>4, <3>1, <3>2
<1>26. ASSUME NEW c \in Conns, CleanupCancels(c) PROVE StartupAccounting'
  BY <1>26 DEF CleanupCancels, CancelCause
<1>27. ASSUME NEW c \in Conns, CleanupCloses(c) PROVE StartupAccounting'
  BY <1>27 DEF CleanupCloses, CloseLayer
<1>28. ASSUME NEW c \in Conns, CleanupResources(c) PROVE StartupAccounting'
  BY <1>28 DEF CleanupResources
<1>29. CASE CleanupDone
  BY <1>29 DEF CleanupDone, Return
<1>30. ASSUME NEW c \in Conns, UpdateCancel(c) PROVE StartupAccounting'
  BY <1>30 DEF UpdateCancel, Goes, NextStage
<1>31. ASSUME NEW c \in Conns, UpdateCancelFails(c) PROVE StartupAccounting'
  BY <1>31 DEF UpdateCancelFails, Goes, CloseLayer
<1>32. ASSUME NEW c \in Conns, ProxyWraps(c) PROVE StartupAccounting'
  BY <1>32 DEF ProxyWraps, Wrap, Goes
<1>33. ASSUME NEW c \in Conns, CallbackReturns(c) PROVE StartupAccounting'
  BY <1>33 DEF CallbackReturns, Wrap, Goes
<1>34. ASSUME NEW c \in Conns, WrapFails(c) PROVE StartupAccounting'
  BY <1>34 DEF WrapFails, CloseLayer
<1>35. ASSUME NEW c \in Conns, ProxyUpdated(c) PROVE StartupAccounting'
  BY <1>35 DEF ProxyUpdated, UpdateConnection, Goes, NextStage
<1>36. ASSUME NEW c \in Conns, CallbackUpdated(c) PROVE StartupAccounting'
  BY <1>36 DEF CallbackUpdated, UpdateConnection, Goes, NextStage
<1>37. ASSUME NEW c \in Conns, UpdateConnectionFails(c) PROVE StartupAccounting'
  BY <1>37 DEF UpdateConnectionFails, CloseLayer
<1>38. ASSUME NEW c \in Conns, HandshakeSucceeds(c) PROVE StartupAccounting'
  BY <1>38 DEF HandshakeSucceeds, Goes
<1>39. ASSUME NEW c \in Conns, HandshakeFails(c) PROVE StartupAccounting'
  BY <1>39 DEF HandshakeFails, Goes, CloseLayer, CancelCause
<1>40. ASSUME NEW c \in Conns, Reserve(c) PROVE StartupAccounting'
  BY <1>40 DEF Reserve
<1>41. ASSUME NEW c \in Conns, ReserveUndo(c) PROVE StartupAccounting'
  BY <1>41 DEF ReserveUndo, Goes
<1>42. ASSUME NEW c \in Conns, Rejected(c) PROVE StartupAccounting'
  BY <1>42 DEF Rejected, Goes, CloseLayer, CancelCause
<1>43. ASSUME NEW c \in Conns, Established(c) PROVE StartupAccounting'
  <2>1. ReleaseStartup(c, "established", "stopTimer")
    BY <1>43 DEF Established
  <2> QED
    BY <2>1, ReleaseKeepsAccounting
<1>44. ASSUME NEW c \in Conns, StopHandshakeTimer(c) PROVE StartupAccounting'
  BY <1>44 DEF StopHandshakeTimer, Goes, StopTimer
<1>45. ASSUME NEW c \in Conns, WorkerCloses(c) PROVE StartupAccounting'
  BY <1>45 DEF WorkerCloses, CloseLayer, CancelCause
<1>46. ASSUME NEW c \in Conns, LoopEnds(c) PROVE StartupAccounting'
  BY <1>46 DEF LoopEnds, Goes
<1>47. ASSUME NEW c \in Conns, EndConnection(c) PROVE StartupAccounting'
  BY <1>47 DEF EndConnection, Goes, CloseLayer, CancelCause
<1>48. ASSUME NEW c \in Conns, CloseResources(c) PROVE StartupAccounting'
  BY <1>48 DEF CloseResources, Goes
<1>49. ASSUME NEW c \in Conns, Untrack(c) PROVE StartupAccounting'
  <2>1. ReleaseStartup(c, "untrack", "delete")
    BY <1>49 DEF Untrack
  <2> QED
    BY <2>1, ReleaseKeepsAccounting
<1>50. ASSUME NEW c \in Conns, Delete(c) PROVE StartupAccounting'
  BY <1>50 DEF Delete, Goes, Places
<1>51. ASSUME NEW c \in Conns, WorkersDone(c) PROVE StartupAccounting'
  BY <1>51 DEF WorkersDone, Goes
<1>52. ASSUME NEW c \in Conns, DisconnectReturns(c) PROVE StartupAccounting'
  BY <1>52 DEF DisconnectReturns, Goes
<1>53. ASSUME NEW c \in Conns, ReleaseSlot(c) PROVE StartupAccounting'
  BY <1>53 DEF ReleaseSlot, Goes, StopTimer
<1>54. ASSUME NEW c \in Conns, UserCallbackReturns(c) PROVE StartupAccounting'
  BY <1>54 DEF UserCallbackReturns, Goes
<1>55. ASSUME NEW c \in Conns, Exit(c) PROVE StartupAccounting'
  BY <1>55 DEF Exit, Goes, StopTimer, CancelCause
<1>56. ASSUME NEW c \in Conns, HandshakeTimerChecks(c) PROVE StartupAccounting'
  BY <1>56 DEF HandshakeTimerChecks
<1>57. ASSUME NEW c \in Conns, HandshakeTimerCancels(c) PROVE StartupAccounting'
  BY <1>57 DEF HandshakeTimerCancels, CancelCause
<1>58. ASSUME NEW c \in Conns, MaxTimerCancels(c) PROVE StartupAccounting'
  BY <1>58 DEF MaxTimerCancels, CancelCause
<1> QED
  BY <1>0, <1>1, <1>2, <1>3, <1>4, <1>5, <1>6, <1>7, <1>8, <1>9, <1>10, <1>11, <1>11a,
     <1>12, <1>13, <1>14, <1>15, <1>16, <1>17, <1>18, <1>19, <1>20, <1>21, <1>22, <1>23,
     <1>24, <1>25, <1>26, <1>27, <1>28, <1>29, <1>30, <1>31, <1>32, <1>33, <1>34, <1>35,
     <1>36, <1>37, <1>38, <1>39, <1>40, <1>41, <1>42, <1>43, <1>44, <1>45, <1>46, <1>47,
     <1>48, <1>49, <1>50, <1>51, <1>52, <1>53, <1>54, <1>55, <1>56, <1>57, <1>58
  DEF Next, MainStep, WatchStep, HandlerStep, OutsideStep, TimerStep, Terminated, vars


\* A step that touches neither the counter nor the places keeps Slots.
LEMMA SlotsUnchanged ==
  ASSUME Slots, UNCHANGED <<reserved, authenticated, pc>>
  PROVE  Slots'
<1>1. Undoing' = Undoing
  BY DEF Undoing
<1> QED
  BY <1>1 DEF Slots, AuthenticatedWithinLimit

\* So does a goroutine that moves on, unless it comes from or goes to the undo.
LEMMA SlotsKept ==
  ASSUME StateTypes, Slots, UNCHANGED <<reserved, authenticated>>,
         NEW c \in Conns, pc[c] # "undo",
         NEW to, to # "undo", pc' = [pc EXCEPT ![c] = to],
         pc[c] \in ServedPCs => to \in ServedPCs \/ c \notin reserved,
         to \in HoldingPCs => c \in reserved
  PROVE  Slots'
<1>1. Undoing' = Undoing
  BY DEF Undoing, StateTypes
<1>2. \A d \in reserved' : pc'[d] \in ServedPCs
  BY DEF Slots, StateTypes
<1>3. \A d \in Conns : pc'[d] \in HoldingPCs => d \in reserved'
  BY DEF Slots, StateTypes
<1> QED
  BY <1>1, <1>2, <1>3 DEF Slots, AuthenticatedWithinLimit

LEMMA FiniteHolders ==
  ASSUME StateTypes
  PROVE  /\ IsFiniteSet(reserved) /\ Cardinality(reserved) \in Nat
         /\ IsFiniteSet(Undoing) /\ Cardinality(Undoing) \in Nat
  BY ConnsFinite, FS_Subset, FS_CardinalityType DEF StateTypes, Undoing

\* The Add(1) of connectionLimiter.reserve: within the limit it makes a holder,
\* beyond it an attempt to be taken back.
LEMMA ReserveKeepsSlots ==
  ASSUME StateTypes, Slots, NEW c \in Conns, Reserve(c)
  PROVE  Slots'
<1>1. c \notin reserved /\ c \notin Undoing
  BY DEF Reserve, Slots, ServedPCs, Undoing
<1>2. Cardinality(reserved \cup {c}) = Cardinality(reserved) + 1
  BY <1>1, FiniteHolders, FS_AddElement
<1>3. Cardinality(Undoing \cup {c}) = Cardinality(Undoing) + 1
  BY <1>1, FiniteHolders, FS_AddElement
<1>4. CASE ConnectionLimit <= 0 \/ authenticated + 1 <= ConnectionLimit
  <2>1. reserved' = reserved \cup {c} /\ pc' = [pc EXCEPT ![c] = "established"]
    BY <1>4 DEF Reserve
  <2>2. Undoing' = Undoing
    BY <2>1, <1>1 DEF Undoing, StateTypes
  <2>3. /\ \A d \in reserved' : pc'[d] \in ServedPCs
        /\ \A d \in Conns : pc'[d] \in HoldingPCs => d \in reserved'
    BY <2>1 DEF Slots, StateTypes, ServedPCs, HoldingPCs
  <2>4. authenticated' = IF ConnectionLimit <= 0 THEN authenticated ELSE authenticated + 1
    BY <1>4 DEF Reserve
  <2> QED
    BY <1>2, <1>4, <2>1, <2>2, <2>3, <2>4, FiniteHolders, LimitType
    DEF Slots, AuthenticatedWithinLimit
<1>5. CASE ~(ConnectionLimit <= 0 \/ authenticated + 1 <= ConnectionLimit)
  <2>1. reserved' = reserved /\ pc' = [pc EXCEPT ![c] = "undo"]
    BY <1>5 DEF Reserve
  <2>2. Undoing' = Undoing \cup {c}
    BY <2>1, <1>1 DEF Undoing, StateTypes
  <2>3. /\ \A d \in reserved' : pc'[d] \in ServedPCs
        /\ \A d \in Conns : pc'[d] \in HoldingPCs => d \in reserved'
    BY <2>1, <1>1 DEF Slots, StateTypes, ServedPCs, HoldingPCs
  <2>4. authenticated' = authenticated + 1
    BY <1>5 DEF Reserve
  <2> QED
    BY <1>3, <1>5, <2>1, <2>2, <2>3, <2>4, FiniteHolders, LimitType
    DEF Slots, AuthenticatedWithinLimit
<1> QED
  BY <1>4, <1>5

\* Every step keeps Slots.
LEMMA SlotsNext == StateTypes /\ Places /\ Slots /\ [Next]_vars => Slots'
<1> SUFFICES ASSUME StateTypes, Places, Slots, [Next]_vars PROVE Slots'
  OBVIOUS
<1> USE DEF outerVars, scopeVars, activeVars, timerVars, connVars, mainVars, HandlerFrame
<1>0. CASE UNCHANGED vars
  BY <1>0, SlotsUnchanged DEF vars
<1>1. CASE ContextCanceled
  BY <1>1, SlotsUnchanged DEF ContextCanceled
<1>2. CASE ListenerClosed
  BY <1>2, SlotsUnchanged DEF ListenerClosed
<1>3. CASE PrepareFinishes
  BY <1>3, SlotsUnchanged DEF PrepareFinishes
<1>4. ASSUME NEW c \in Conns, TransportFails(c) PROVE Slots'
  BY <1>4, SlotsUnchanged DEF TransportFails
<1>5. CASE WatchStops
  BY <1>5, SlotsUnchanged DEF WatchStops, StopAcceptingSection, maybeCloseDrained
<1>6. CASE WatchCloses
  BY <1>6, SlotsUnchanged DEF WatchCloses
<1>7. CASE PrepareReady
  BY <1>7, SlotsUnchanged DEF PrepareReady
<1>8. CASE PrepareFails
  BY <1>8, SlotsUnchanged DEF PrepareFails, Return
<1>9. ASSUME NEW c \in Conns, Accept(c) PROVE Slots'
  BY <1>9, SlotsUnchanged DEF Accept
<1>10. CASE AcceptFails
  BY <1>10, SlotsUnchanged DEF AcceptFails
<1>11. ASSUME NEW x \in BOOLEAN, NEW y \in BOOLEAN, DispatchReturns(x, y) PROVE Slots'
  BY <1>11, SlotsUnchanged DEF DispatchReturns
<1>11a. CASE DispatchAbandoned
  BY <1>11a, SlotsUnchanged DEF DispatchAbandoned
<1>12. CASE Retry
  BY <1>12, SlotsUnchanged DEF Retry
<1>13. ASSUME NEW c \in Conns, TrackRefuses(c) PROVE Slots'
  BY <1>13, SlotsKept DEF TrackRefuses, Return, CloseLayer, Slots, ServedPCs, HoldingPCs, Places
<1>14. ASSUME NEW c \in Conns, TrackAdmits(c) PROVE Slots'
  BY <1>14, SlotsKept DEF TrackAdmits, Slots, ServedPCs, HoldingPCs, Places
<1>15. CASE AwaitReturns
  BY <1>15, SlotsUnchanged DEF AwaitReturns, Return
<1>16. CASE AwaitCanceled
  BY <1>16, SlotsUnchanged DEF AwaitCanceled
<1>17. CASE ShutdownStops
  BY <1>17, SlotsUnchanged DEF ShutdownStops, MainStops, StopAcceptingSection, maybeCloseDrained
<1>18. CASE ShutdownCloses
  BY <1>18, SlotsUnchanged DEF ShutdownCloses, MainCloses
<1>19. CASE GraceGranted
  BY <1>19, SlotsUnchanged DEF GraceGranted, MainGoes
<1>20. CASE GraceDenied
  BY <1>20, SlotsUnchanged DEF GraceDenied, MainGoes
<1>21. CASE Drained
  BY <1>21, SlotsUnchanged DEF Drained, Return
<1>22. CASE GraceExpires
  BY <1>22, SlotsUnchanged DEF GraceExpires, Return
<1>23. CASE ForceStops
  BY <1>23, SlotsUnchanged DEF ForceStops, MainStops, StopAcceptingSection, maybeCloseDrained
<1>24. CASE ForceCloses
  BY <1>24, SlotsUnchanged DEF ForceCloses, MainCloses
<1>25. CASE ForceLocks
  BY <1>25, SlotsUnchanged DEF ForceLocks, maybeCloseDrained
<1>26. ASSUME NEW c \in Conns, CleanupCancels(c) PROVE Slots'
  BY <1>26, SlotsUnchanged DEF CleanupCancels, CancelCause
<1>27. ASSUME NEW c \in Conns, CleanupCloses(c) PROVE Slots'
  BY <1>27, SlotsUnchanged DEF CleanupCloses, CloseLayer
<1>28. ASSUME NEW c \in Conns, CleanupResources(c) PROVE Slots'
  BY <1>28, SlotsUnchanged DEF CleanupResources
<1>29. CASE CleanupDone
  BY <1>29, SlotsUnchanged DEF CleanupDone, Return
<1>30. ASSUME NEW c \in Conns, UpdateCancel(c) PROVE Slots'
  BY <1>30, SlotsKept DEF UpdateCancel, Goes, NextStage, Slots, ServedPCs, HoldingPCs
<1>31. ASSUME NEW c \in Conns, UpdateCancelFails(c) PROVE Slots'
  BY <1>31, SlotsKept DEF UpdateCancelFails, Goes, CloseLayer, Slots, ServedPCs, HoldingPCs
<1>32. ASSUME NEW c \in Conns, ProxyWraps(c) PROVE Slots'
  BY <1>32, SlotsKept DEF ProxyWraps, Wrap, Goes, Slots, ServedPCs, HoldingPCs
<1>33. ASSUME NEW c \in Conns, CallbackReturns(c) PROVE Slots'
  BY <1>33, SlotsKept DEF CallbackReturns, Wrap, Goes, Slots, ServedPCs, HoldingPCs
<1>34. ASSUME NEW c \in Conns, WrapFails(c) PROVE Slots'
  BY <1>34, SlotsKept DEF WrapFails, CloseLayer, Slots, ServedPCs, HoldingPCs
<1>35. ASSUME NEW c \in Conns, ProxyUpdated(c) PROVE Slots'
  BY <1>35, SlotsKept DEF ProxyUpdated, UpdateConnection, Goes, NextStage, Slots, ServedPCs, HoldingPCs
<1>36. ASSUME NEW c \in Conns, CallbackUpdated(c) PROVE Slots'
  BY <1>36, SlotsKept DEF CallbackUpdated, UpdateConnection, Goes, NextStage, Slots, ServedPCs, HoldingPCs
<1>37. ASSUME NEW c \in Conns, UpdateConnectionFails(c) PROVE Slots'
  BY <1>37, SlotsKept DEF UpdateConnectionFails, CloseLayer, Slots, ServedPCs, HoldingPCs
<1>38. ASSUME NEW c \in Conns, HandshakeSucceeds(c) PROVE Slots'
  BY <1>38, SlotsKept DEF HandshakeSucceeds, Goes, Slots, ServedPCs, HoldingPCs
<1>39. ASSUME NEW c \in Conns, HandshakeFails(c) PROVE Slots'
  BY <1>39, SlotsKept DEF HandshakeFails, Goes, CloseLayer, CancelCause, Slots, ServedPCs, HoldingPCs
<1>40. ASSUME NEW c \in Conns, Reserve(c) PROVE Slots'
  BY <1>40, ReserveKeepsSlots
<1>41. ASSUME NEW c \in Conns, ReserveUndo(c) PROVE Slots'
  <2>1. Undoing' = Undoing \ {c} /\ c \in Undoing /\ reserved' = reserved
    BY <1>41 DEF ReserveUndo, Goes, Undoing, StateTypes
  <2>2. authenticated' = authenticated - 1
    BY <1>41 DEF ReserveUndo
  <2>3. /\ \A d \in reserved' : pc'[d] \in ServedPCs
        /\ \A d \in Conns : pc'[d] \in HoldingPCs => d \in reserved'
    BY <1>41 DEF ReserveUndo, Goes, Slots, StateTypes, ServedPCs, HoldingPCs
  <2>4. Cardinality(Undoing \ {c}) = Cardinality(Undoing) - 1
    BY <2>1, FiniteHolders, FS_RemoveElement
  <2>5. ConnectionLimit > 0
    BY <2>1, LimitType DEF Slots
  <2> QED
    BY <2>1, <2>2, <2>3, <2>4, <2>5, FiniteHolders DEF Slots, AuthenticatedWithinLimit
<1>42. ASSUME NEW c \in Conns, Rejected(c) PROVE Slots'
  BY <1>42, SlotsKept DEF Rejected, Goes, CloseLayer, CancelCause, Slots, ServedPCs, HoldingPCs
<1>43. ASSUME NEW c \in Conns, Established(c) PROVE Slots'
  BY <1>43, SlotsKept DEF Established, ReleaseStartup, Goes, Slots, ServedPCs, HoldingPCs
<1>44. ASSUME NEW c \in Conns, StopHandshakeTimer(c) PROVE Slots'
  BY <1>44, SlotsKept DEF StopHandshakeTimer, Goes, StopTimer, Slots, ServedPCs, HoldingPCs
<1>45. ASSUME NEW c \in Conns, WorkerCloses(c) PROVE Slots'
  BY <1>45, SlotsUnchanged DEF WorkerCloses, CloseLayer, CancelCause
<1>46. ASSUME NEW c \in Conns, LoopEnds(c) PROVE Slots'
  BY <1>46, SlotsKept DEF LoopEnds, Goes, Slots, ServedPCs, HoldingPCs
<1>47. ASSUME NEW c \in Conns, EndConnection(c) PROVE Slots'
  BY <1>47, SlotsKept DEF EndConnection, Goes, CloseLayer, CancelCause, Slots, ServedPCs, HoldingPCs
<1>48. ASSUME NEW c \in Conns, CloseResources(c) PROVE Slots'
  BY <1>48, SlotsKept DEF CloseResources, Goes, Slots, ServedPCs, HoldingPCs
<1>49. ASSUME NEW c \in Conns, Untrack(c) PROVE Slots'
  BY <1>49, SlotsKept DEF Untrack, ReleaseStartup, Goes, Slots, ServedPCs, HoldingPCs
<1>50. ASSUME NEW c \in Conns, Delete(c) PROVE Slots'
  BY <1>50, SlotsKept DEF Delete, Goes, maybeCloseDrained, Slots, ServedPCs, HoldingPCs
<1>51. ASSUME NEW c \in Conns, WorkersDone(c) PROVE Slots'
  BY <1>51, SlotsKept DEF WorkersDone, Goes, Slots, ServedPCs, HoldingPCs
<1>52. ASSUME NEW c \in Conns, DisconnectReturns(c) PROVE Slots'
  BY <1>52, SlotsKept DEF DisconnectReturns, Goes, Slots, ServedPCs, HoldingPCs
<1>53. ASSUME NEW c \in Conns, ReleaseSlot(c) PROVE Slots'
  <2>1. Undoing' = Undoing
    BY <1>53 DEF ReleaseSlot, Goes, Undoing, StateTypes
  <2>2. /\ reserved' = reserved \ {c}
        /\ authenticated' = IF ConnectionLimit > 0 THEN authenticated - 1 ELSE authenticated
    BY <1>53 DEF ReleaseSlot
  <2>3. /\ \A d \in reserved' : pc'[d] \in ServedPCs
        /\ \A d \in Conns : pc'[d] \in HoldingPCs => d \in reserved'
    BY <1>53 DEF ReleaseSlot, Goes, Slots, StateTypes, ServedPCs, HoldingPCs
  <2>4. c \in reserved
    BY <1>53 DEF ReleaseSlot, Goes, Slots, ServedPCs, HoldingPCs
  <2>5. Cardinality(reserved \ {c}) = Cardinality(reserved) - 1
    BY <2>4, FiniteHolders, FS_RemoveElement
  <2> QED
    BY <2>1, <2>2, <2>3, <2>5, FiniteHolders, LimitType DEF Slots, AuthenticatedWithinLimit
<1>54. ASSUME NEW c \in Conns, UserCallbackReturns(c) PROVE Slots'
  BY <1>54, SlotsKept DEF UserCallbackReturns, Goes, Slots, ServedPCs, HoldingPCs
<1>55. ASSUME NEW c \in Conns, Exit(c) PROVE Slots'
  BY <1>55, SlotsKept DEF Exit, Goes, StopTimer, CancelCause, Slots, ServedPCs, HoldingPCs
<1>56. ASSUME NEW c \in Conns, HandshakeTimerChecks(c) PROVE Slots'
  BY <1>56, SlotsUnchanged DEF HandshakeTimerChecks
<1>57. ASSUME NEW c \in Conns, HandshakeTimerCancels(c) PROVE Slots'
  BY <1>57, SlotsUnchanged DEF HandshakeTimerCancels, CancelCause
<1>58. ASSUME NEW c \in Conns, MaxTimerCancels(c) PROVE Slots'
  BY <1>58, SlotsUnchanged DEF MaxTimerCancels, CancelCause
<1> QED
  BY <1>0, <1>1, <1>2, <1>3, <1>4, <1>5, <1>6, <1>7, <1>8, <1>9, <1>10, <1>11, <1>11a,
     <1>12, <1>13, <1>14, <1>15, <1>16, <1>17, <1>18, <1>19, <1>20, <1>21, <1>22, <1>23,
     <1>24, <1>25, <1>26, <1>27, <1>28, <1>29, <1>30, <1>31, <1>32, <1>33, <1>34, <1>35,
     <1>36, <1>37, <1>38, <1>39, <1>40, <1>41, <1>42, <1>43, <1>44, <1>45, <1>46, <1>47,
     <1>48, <1>49, <1>50, <1>51, <1>52, <1>53, <1>54, <1>55, <1>56, <1>57, <1>58
  DEF Next, MainStep, WatchStep, HandlerStep, OutsideStep, TimerStep, Terminated, vars


\* The body of StoppedScopeOnlyShrinks, for one step.
Shrinks ==
  stopping => /\ stopping' /\ connections' \subseteq connections
              /\ (drained => drained')

\* After stopping, no step adds a connection or resets a flag.
LEMMA ShrinksNext == StateTypes /\ [Next]_vars => Shrinks
<1> SUFFICES ASSUME StateTypes, [Next]_vars PROVE Shrinks
  OBVIOUS
<1> USE DEF Shrinks, StateTypes, outerVars, scopeVars, activeVars, timerVars, connVars, mainVars, HandlerFrame
<1>0. CASE UNCHANGED vars
  BY <1>0 DEF vars
<1>1. CASE ContextCanceled
  BY <1>1 DEF ContextCanceled
<1>2. CASE ListenerClosed
  BY <1>2 DEF ListenerClosed
<1>3. CASE PrepareFinishes
  BY <1>3 DEF PrepareFinishes
<1>4. ASSUME NEW c \in Conns, TransportFails(c) PROVE Shrinks
  BY <1>4 DEF TransportFails
<1>5. CASE WatchStops
  BY <1>5 DEF WatchStops, StopAcceptingSection, maybeCloseDrained
<1>6. CASE WatchCloses
  BY <1>6 DEF WatchCloses
<1>7. CASE PrepareReady
  BY <1>7 DEF PrepareReady
<1>8. CASE PrepareFails
  BY <1>8 DEF PrepareFails, Return
<1>9. ASSUME NEW c \in Conns, Accept(c) PROVE Shrinks
  BY <1>9 DEF Accept
<1>10. CASE AcceptFails
  BY <1>10 DEF AcceptFails
<1>11. ASSUME NEW x \in BOOLEAN, NEW y \in BOOLEAN, DispatchReturns(x, y) PROVE Shrinks
  BY <1>11 DEF DispatchReturns
<1>11a. CASE DispatchAbandoned
  BY <1>11a DEF DispatchAbandoned
<1>12. CASE Retry
  BY <1>12 DEF Retry
<1>13. ASSUME NEW c \in Conns, TrackRefuses(c) PROVE Shrinks
  BY <1>13 DEF TrackRefuses, Return, CloseLayer
<1>14. ASSUME NEW c \in Conns, TrackAdmits(c) PROVE Shrinks
  BY <1>14 DEF TrackAdmits
<1>15. CASE AwaitReturns
  BY <1>15 DEF AwaitReturns, Return
<1>16. CASE AwaitCanceled
  BY <1>16 DEF AwaitCanceled
<1>17. CASE ShutdownStops
  BY <1>17 DEF ShutdownStops, MainStops, StopAcceptingSection, maybeCloseDrained
<1>18. CASE ShutdownCloses
  BY <1>18 DEF ShutdownCloses, MainCloses
<1>19. CASE GraceGranted
  BY <1>19 DEF GraceGranted, MainGoes
<1>20. CASE GraceDenied
  BY <1>20 DEF GraceDenied, MainGoes
<1>21. CASE Drained
  BY <1>21 DEF Drained, Return
<1>22. CASE GraceExpires
  BY <1>22 DEF GraceExpires, Return
<1>23. CASE ForceStops
  BY <1>23 DEF ForceStops, MainStops, StopAcceptingSection, maybeCloseDrained
<1>24. CASE ForceCloses
  BY <1>24 DEF ForceCloses, MainCloses
<1>25. CASE ForceLocks
  BY <1>25 DEF ForceLocks, maybeCloseDrained
<1>26. ASSUME NEW c \in Conns, CleanupCancels(c) PROVE Shrinks
  BY <1>26 DEF CleanupCancels, CancelCause
<1>27. ASSUME NEW c \in Conns, CleanupCloses(c) PROVE Shrinks
  BY <1>27 DEF CleanupCloses, CloseLayer
<1>28. ASSUME NEW c \in Conns, CleanupResources(c) PROVE Shrinks
  BY <1>28 DEF CleanupResources
<1>29. CASE CleanupDone
  BY <1>29 DEF CleanupDone, Return
<1>30. ASSUME NEW c \in Conns, UpdateCancel(c) PROVE Shrinks
  BY <1>30 DEF UpdateCancel, Goes, NextStage
<1>31. ASSUME NEW c \in Conns, UpdateCancelFails(c) PROVE Shrinks
  BY <1>31 DEF UpdateCancelFails, Goes, CloseLayer
<1>32. ASSUME NEW c \in Conns, ProxyWraps(c) PROVE Shrinks
  BY <1>32 DEF ProxyWraps, Wrap, Goes
<1>33. ASSUME NEW c \in Conns, CallbackReturns(c) PROVE Shrinks
  BY <1>33 DEF CallbackReturns, Wrap, Goes
<1>34. ASSUME NEW c \in Conns, WrapFails(c) PROVE Shrinks
  BY <1>34 DEF WrapFails, CloseLayer
<1>35. ASSUME NEW c \in Conns, ProxyUpdated(c) PROVE Shrinks
  BY <1>35 DEF ProxyUpdated, UpdateConnection, Goes, NextStage
<1>36. ASSUME NEW c \in Conns, CallbackUpdated(c) PROVE Shrinks
  BY <1>36 DEF CallbackUpdated, UpdateConnection, Goes, NextStage
<1>37. ASSUME NEW c \in Conns, UpdateConnectionFails(c) PROVE Shrinks
  BY <1>37 DEF UpdateConnectionFails, CloseLayer
<1>38. ASSUME NEW c \in Conns, HandshakeSucceeds(c) PROVE Shrinks
  BY <1>38 DEF HandshakeSucceeds, Goes
<1>39. ASSUME NEW c \in Conns, HandshakeFails(c) PROVE Shrinks
  BY <1>39 DEF HandshakeFails, Goes, CloseLayer, CancelCause
<1>40. ASSUME NEW c \in Conns, Reserve(c) PROVE Shrinks
  BY <1>40 DEF Reserve
<1>41. ASSUME NEW c \in Conns, ReserveUndo(c) PROVE Shrinks
  BY <1>41 DEF ReserveUndo, Goes
<1>42. ASSUME NEW c \in Conns, Rejected(c) PROVE Shrinks
  BY <1>42 DEF Rejected, Goes, CloseLayer, CancelCause
<1>43. ASSUME NEW c \in Conns, Established(c) PROVE Shrinks
  BY <1>43 DEF Established, ReleaseStartup, Goes
<1>44. ASSUME NEW c \in Conns, StopHandshakeTimer(c) PROVE Shrinks
  BY <1>44 DEF StopHandshakeTimer, Goes, StopTimer
<1>45. ASSUME NEW c \in Conns, WorkerCloses(c) PROVE Shrinks
  BY <1>45 DEF WorkerCloses, CloseLayer, CancelCause
<1>46. ASSUME NEW c \in Conns, LoopEnds(c) PROVE Shrinks
  BY <1>46 DEF LoopEnds, Goes
<1>47. ASSUME NEW c \in Conns, EndConnection(c) PROVE Shrinks
  BY <1>47 DEF EndConnection, Goes, CloseLayer, CancelCause
<1>48. ASSUME NEW c \in Conns, CloseResources(c) PROVE Shrinks
  BY <1>48 DEF CloseResources, Goes
<1>49. ASSUME NEW c \in Conns, Untrack(c) PROVE Shrinks
  BY <1>49 DEF Untrack, ReleaseStartup, Goes
<1>50. ASSUME NEW c \in Conns, Delete(c) PROVE Shrinks
  BY <1>50 DEF Delete, Goes, maybeCloseDrained
<1>51. ASSUME NEW c \in Conns, WorkersDone(c) PROVE Shrinks
  BY <1>51 DEF WorkersDone, Goes
<1>52. ASSUME NEW c \in Conns, DisconnectReturns(c) PROVE Shrinks
  BY <1>52 DEF DisconnectReturns, Goes
<1>53. ASSUME NEW c \in Conns, ReleaseSlot(c) PROVE Shrinks
  BY <1>53 DEF ReleaseSlot, Goes, StopTimer
<1>54. ASSUME NEW c \in Conns, UserCallbackReturns(c) PROVE Shrinks
  BY <1>54 DEF UserCallbackReturns, Goes
<1>55. ASSUME NEW c \in Conns, Exit(c) PROVE Shrinks
  BY <1>55 DEF Exit, Goes, StopTimer, CancelCause
<1>56. ASSUME NEW c \in Conns, HandshakeTimerChecks(c) PROVE Shrinks
  BY <1>56 DEF HandshakeTimerChecks
<1>57. ASSUME NEW c \in Conns, HandshakeTimerCancels(c) PROVE Shrinks
  BY <1>57 DEF HandshakeTimerCancels, CancelCause
<1>58. ASSUME NEW c \in Conns, MaxTimerCancels(c) PROVE Shrinks
  BY <1>58 DEF MaxTimerCancels, CancelCause
<1> QED
  BY <1>0, <1>1, <1>2, <1>3, <1>4, <1>5, <1>6, <1>7, <1>8, <1>9, <1>10, <1>11, <1>11a,
     <1>12, <1>13, <1>14, <1>15, <1>16, <1>17, <1>18, <1>19, <1>20, <1>21, <1>22, <1>23,
     <1>24, <1>25, <1>26, <1>27, <1>28, <1>29, <1>30, <1>31, <1>32, <1>33, <1>34, <1>35,
     <1>36, <1>37, <1>38, <1>39, <1>40, <1>41, <1>42, <1>43, <1>44, <1>45, <1>46, <1>47,
     <1>48, <1>49, <1>50, <1>51, <1>52, <1>53, <1>54, <1>55, <1>56, <1>57, <1>58
  DEF Next, MainStep, WatchStep, HandlerStep, OutsideStep, TimerStep, Terminated, vars


--------------------------------------------------------------------------------
\* The inductive invariant.  Places is what StartupAccounting lacks to be inductive,
\* Slots what AuthenticatedWithinLimit lacks.
IndInv == StateTypes /\ Places /\ DrainedMeansEmpty /\ StartupAccounting /\ Slots

\* The invariant holds when Serve or HandleConn is called.
LEMMA IndInvInit == Init => IndInv
<1> SUFFICES ASSUME Init PROVE IndInv
  OBVIOUS
<1>1. StateTypes
  BY TypesInit
<1>2. Places /\ DrainedMeansEmpty
  BY <1>1 DEF Init, Places, DrainedMeansEmpty, StateTypes
<1>3. StartupAccounting
  <2>1. Startups.Full \in Nat
    BY StartupsType
  <2> QED
    BY <2>1, FS_EmptySet DEF Init, StartupAccounting
<1>4. Slots
  <2>1. Undoing = {} /\ reserved = {} /\ authenticated = 0
    BY DEF Init, Undoing
  <2>2. \A c \in Conns : pc[c] = "idle"
    BY DEF Init
  <2> QED
    BY <2>1, <2>2, FS_EmptySet, LimitType
    DEF Slots, AuthenticatedWithinLimit, HoldingPCs, ServedPCs
<1> QED
  BY <1>1, <1>2, <1>3, <1>4 DEF IndInv

\* IndInv holds in every state of every behaviour.
THEOREM Invariance == Spec => []IndInv
<1>1. IndInv /\ [Next]_vars => IndInv'
  BY TypesNext, PlaceNext, DrainedNext, StartupNext, SlotsNext DEF IndInv
<1> QED
  BY <1>1, IndInvInit, PTL DEF Spec

\* Type correctness: in particular neither the number of startup slots nor the
\* number of authenticated connections is ever negative.
THEOREM TypeCorrect == Spec => []TypeOK
<1>1. IndInv => TypeOK
  <2> SUFFICES ASSUME IndInv PROVE TypeOK
    OBVIOUS
  <2>1. startups \in Nat
    BY FiniteSlots DEF IndInv, StartupAccounting
  <2>2. authenticated \in Nat
    BY FiniteHolders, LimitType DEF IndInv, Slots, AuthenticatedWithinLimit
  <2> QED
    BY <2>1, <2>2 DEF IndInv, TypeOK
<1> QED
  BY <1>1, Invariance, PTL

\* serveContext.startups is exact and never exceeds MaxStartups.Full.
THEOREM StartupSafe == Spec => []StartupAccounting
<1>1. IndInv => StartupAccounting
  BY DEF IndInv
<1> QED
  BY <1>1, Invariance, PTL

\* The drained channel never lies about the scope.
THEOREM DrainedSafe == Spec => []DrainedMeansEmpty
<1>1. IndInv => DrainedMeansEmpty
  BY DEF IndInv
<1> QED
  BY <1>1, Invariance, PTL

\* No more than MaxConnections connections are served at a time.
THEOREM AuthenticatedSafe == Spec => []AuthenticatedWithinLimit
<1>1. IndInv => AuthenticatedWithinLimit
  BY DEF IndInv, Slots
<1> QED
  BY <1>1, Invariance, PTL

\* A scope that has stopped accepting only ever loses connections.
THEOREM OnlyShrinks == Spec => StoppedScopeOnlyShrinks
<1>1. IndInv /\ [Next]_vars => Shrinks
  BY ShrinksNext DEF IndInv
<1> QED
  BY <1>1, Invariance, PTL DEF Spec, StoppedScopeOnlyShrinks, Shrinks

--------------------------------------------------------------------------------
(* The drop rate. *)

\* What integer division yields.
LEMMA Quotient ==
  ASSUME NEW a \in Nat, NEW w \in Nat, w > 0
  PROVE  /\ a \div w \in Nat
         /\ w * (a \div w) <= a
         /\ a < w * (a \div w) + w
  OBVIOUS

\* A product orders like its factor.
LEMMA FactorOrder ==
  ASSUME NEW w \in Nat, w > 0, NEW p \in Int, NEW q \in Int, w * p < w * q + w
  PROVE  p <= q
<1>1. CASE p > q
  <2>1. PICK d \in Nat : p = q + 1 + d
    <3>1. p - q - 1 \in Nat /\ p = q + 1 + (p - q - 1)
      BY <1>1
    <3> QED
      BY <3>1
  <2>2. w * p = w * q + w + w * d
    BY <2>1
  <2>3. w * d >= 0
    BY <2>1
  <2>4. w * p \in Int /\ w * q \in Int /\ w * d \in Int
    BY <2>1
  <2> QED
    BY <2>2, <2>3, <2>4
<1> QED
  BY <1>1

\* The line from rate at 0 to 100 at width, rounded down, with rise = 100 - rate.
LEMMA LineBounds ==
  ASSUME NEW rise \in Nat, NEW width \in Nat, NEW m \in Nat, m < width
  PROVE  (rise * m) \div width \in 0..rise
<1> DEFINE q == (rise * m) \div width
<1>1. rise * m \in Nat /\ width > 0
  OBVIOUS
<1>2. q \in Nat /\ width * q <= rise * m
  BY <1>1, Quotient
<1>3. rise * m <= rise * width
  <2>1. PICK d \in Nat : width = m + d
    <3>1. width - m \in Nat /\ width = m + (width - m)
      OBVIOUS
    <3> QED
      BY <3>1
  <2>2. rise * width = rise * m + rise * d /\ rise * d \in Nat
    BY <2>1
  <2> QED
    BY <1>1, <2>2
<1> HIDE DEF q
<1>4. width * q < width * rise + width
  <2>1. width * q \in Nat /\ width * rise \in Nat /\ width * rise = rise * width
    BY <1>2
  <2> QED
    BY <1>1, <1>2, <1>3, <2>1
<1>5. q <= rise
  BY <1>1, <1>2, <1>4, FactorOrder
<1> QED
  BY <1>2, <1>5 DEF q

\* One more connection moves the line up by rise / width, give or take the rounding.
LEMMA LineStep ==
  ASSUME NEW rise \in Nat, NEW width \in Nat, NEW m \in Nat, m < width,
         NEW p, p = (rise * m) \div width, NEW q, q = (rise * (m + 1)) \div width
  PROVE  /\ p \in Nat /\ q \in Nat /\ p <= q
         /\ (q - p) * width - rise \in 1 - width..width - 1
<1>1. rise * m \in Nat /\ rise * (m + 1) \in Nat /\ rise * (m + 1) = rise * m + rise /\ width > 0
  OBVIOUS
<1>2. p \in Nat /\ width * p <= rise * m /\ rise * m < width * p + width
  BY <1>1, Quotient
<1>3. q \in Nat /\ width * q <= rise * (m + 1) /\ rise * (m + 1) < width * q + width
  BY <1>1, Quotient
<1>4. width * p \in Nat /\ width * q \in Nat
  BY <1>2, <1>3
<1>5. p <= q
  <2>1. width * p < width * q + width
    BY <1>1, <1>2, <1>3, <1>4
  <2> QED
    BY <1>1, <1>2, <1>3, <2>1, FactorOrder
<1>6. (q - p) * width = width * q - width * p
  BY <1>2, <1>3
<1>7. (q - p) * width - rise \in 1 - width..width - 1
  BY <1>1, <1>2, <1>3, <1>4, <1>6
<1> QED
  BY <1>2, <1>3, <1>5, <1>7

\* The effective policy is disabled, or its Rate is a percentage and its Start is at
\* most its Full.
LEMMA EffectiveRange ==
  ASSUME NEW config, config = Nil \/ config[1] \in [Start : Int, Rate : Int, Full : Int],
         NEW e, e = effectiveMaxStartups(config)
  PROVE  /\ e.Start \in Nat /\ e.Rate \in 0..100 /\ e.Full \in Nat
         /\ e.Start <= e.Full
<1>1. CASE config = Nil
  BY <1>1 DEF effectiveMaxStartups, DefaultMaxStartups
<1>2. CASE config # Nil /\ config[1].Full <= 0
  BY <1>2 DEF effectiveMaxStartups, Disabled
<1>3. CASE config # Nil /\ ~(config[1].Full <= 0)
  <2>1. /\ e.Start = Clamp(config[1].Start, 0, config[1].Full) /\ e.Rate = Clamp(config[1].Rate, 0, 100)
        /\ e.Full = config[1].Full
    BY <1>3 DEF effectiveMaxStartups
  <2>2. config[1].Start \in Int /\ config[1].Rate \in Int /\ config[1].Full \in Int /\ config[1].Full > 0
    BY <1>3
  <2> QED
    BY <2>1, <2>2 DEF Clamp
<1> QED
  BY <1>1, <1>2, <1>3

\* DropRateLine holds of every setting of MaxStartups, in range or not, and of every
\* number of unauthenticated connections.
LEMMA DropRateLineHolds ==
  ASSUME NEW config, config = Nil \/ config[1] \in [Start : Int, Rate : Int, Full : Int], NEW n \in Nat
  PROVE  DropRateLine(config, n)
<1>1. PICK e : e = effectiveMaxStartups(config)
  OBVIOUS
<1>2. e.Start \in Nat /\ e.Rate \in 0..100 /\ e.Full \in Nat /\ e.Start <= e.Full
  BY <1>1, EffectiveRange
<1>3. PICK start \in Nat, rate \in 0..100, full \in Nat : start = e.Start /\ rate = e.Rate /\ full = e.Full /\ start <= full
  BY <1>2
<1>4. PICK now : now = maxStartupsDropRate(n, e)
  OBVIOUS
<1>5. PICK then : then = maxStartupsDropRate(n + 1, e)
  OBVIOUS
<1>6. /\ full <= 0 => now = 0 /\ then = 0
      /\ full > 0 /\ n >= full => now = 100
      /\ full > 0 /\ n + 1 >= full => then = 100
      /\ n < full /\ (n < start \/ start >= full) => now = 0
      /\ n + 1 < full /\ (n + 1 < start \/ start >= full) => then = 0
  BY <1>3, <1>4, <1>5 DEF maxStartupsDropRate
<1>7. ASSUME n < full, start <= n PROVE now = rate + ((100 - rate) * (n - start)) \div (full - start)
  BY <1>3, <1>4, <1>7 DEF maxStartupsDropRate
<1>8. ASSUME n + 1 < full, start <= n + 1 PROVE then = rate + ((100 - rate) * (n + 1 - start)) \div (full - start)
  BY <1>3, <1>5, <1>8 DEF maxStartupsDropRate
<1>9. PICK rise \in 0..100, width \in Nat : rise = 100 - rate /\ width = full - start
  BY <1>3
<1>10. ASSUME n < full, start <= n PROVE now \in rate..100
  <2>1. PICK m \in Nat : m = n - start
    BY <1>10
  <2>2. now = rate + (rise * m) \div width /\ m < width
    BY <1>3, <1>7, <1>9, <1>10, <2>1
  <2>3. (rise * m) \div width \in 0..rise
    BY <2>1, <2>2, LineBounds
  <2> QED
    BY <1>9, <2>2, <2>3
<1>11. ASSUME n + 1 < full, start <= n + 1 PROVE then \in rate..100
  <2>1. PICK m \in Nat : m = n + 1 - start
    BY <1>11
  <2>2. then = rate + (rise * m) \div width /\ m < width
    BY <1>3, <1>8, <1>9, <1>11, <2>1
  <2>3. (rise * m) \div width \in 0..rise
    BY <2>1, <2>2, LineBounds
  <2> QED
    BY <1>9, <2>2, <2>3
<1>12. now \in 0..100 /\ then \in 0..100
  BY <1>3, <1>6, <1>10, <1>11
<1>13. ASSUME n + 1 < full, start <= n
       PROVE  now <= then /\ (then - now) * width - rise \in 1 - width..width - 1
  <2>1. PICK m \in Nat : m = n - start
    BY <1>13
  <2>2. m < width /\ n + 1 - start = m + 1
    BY <1>3, <1>9, <1>13, <2>1
  <2>3. PICK p, q : p = (rise * m) \div width /\ q = (rise * (m + 1)) \div width
    OBVIOUS
  <2>4. /\ p \in Nat /\ q \in Nat /\ p <= q
        /\ (q - p) * width - rise \in 1 - width..width - 1
    BY <2>2, <2>3, LineStep
  <2>5. now = rate + p
    BY <1>7, <1>9, <1>13, <2>1, <2>3
  <2>6. then = rate + q
    BY <1>8, <1>9, <1>13, <2>2, <2>3
  <2>7. then - now = q - p
    BY <2>4, <2>5, <2>6
  <2> QED
    BY <2>4, <2>5, <2>6, <2>7
<1>14. now <= then
  BY <1>3, <1>6, <1>12, <1>13
<1>15. n = start /\ start < full => now = rate
  <2>1. SUFFICES ASSUME n = start, start < full PROVE now = rate
    OBVIOUS
  <2>2. now = rate + (rise * 0) \div width
    BY <1>7, <1>9, <2>1
  <2>3. rise * 0 = 0 /\ 0 \div width = 0
    BY <1>3, <1>9, <2>1
  <2> QED
    BY <2>2, <2>3
<1>16. full = 0 \/ n < start => now = 0
  BY <1>3, <1>6
<1> QED
  BY <1>1, <1>3, <1>4, <1>5, <1>6, <1>9, <1>12, <1>13, <1>14, <1>15, <1>16 DEF DropRateLine

\* The drop rate rises along the configured line, for every set of settings.
THEOREM DropRateRisesHolds == Spec => []DropRateRises
<1>1. DropRateRises
  BY SettingsAssumption, DropRateLineHolds DEF DropRateRises
<1> QED
  BY <1>1, PTL

--------------------------------------------------------------------------------
(* What Serve and HandleConn leave behind when they return. *)


\* The calling goroutine works through the list of cleanups that force made.
Cleaning == main \in {"cleanup", "cleanupClose", "cleanupResources"}

\* The places where the transport has been closed by the goroutine itself ...
ClosedPCs == {"closeAll", "untrack", "delete", "workers", "disconnect", "release", "exit",
              "userCallback", "done"}
\* ... where untrackConnection is over ...
GonePCs == {"workers", "disconnect", "release", "done"}
\* ... and where closeAll has not been called by a goroutine that may still serve.
EarlyPCs == HandlerPCs \ {"idle", "untrack", "delete", "workers", "disconnect", "release",
                          "userCallback", "exit", "done"}

\* The connections that nobody has closed are accounted for: by the goroutine
\* that accepted them, by the connections map, or by force's list of cleanups.
Covered ==
  /\ \A c \in Conns : pc[c] \in ClosedPCs => 0 \notin open[c]
  /\ \A c \in Conns : pc[c] \in GonePCs => c \notin connections
  /\ \A c \in Conns : pc[c] = "idle" /\ 0 \in open[c] => main \in {"prepare", "track"} /\ c \in cur
  /\ \A c \in Conns : pc[c] # "idle" /\ 0 \in open[c] =>
       \/ c \in connections
       \/ Cleaning /\ c \in cleanups /\ ~(main = "cleanupResources" /\ c \in cur)

\* The same for the resources of connections that serve or may come to serve.
ResourcesCovered ==
  /\ \A c \in reserved : pc[c] \in {"untrack", "delete", "workers", "disconnect", "release"} => c \in resClosed
  /\ \A c \in Conns : pc[c] \in EarlyPCs =>
       c \in connections \/ (Cleaning /\ c \in cleanups) \/ c \in resClosed

\* What the calling goroutine has established by the time it is where it is.
MainPath ==
  /\ \A c, d \in cur : c = d
  /\ main \in {"closeListener", "graceHandler", "draining", "forceClose", "forceLock", "cleanup",
               "cleanupClose", "cleanupResources"} => stopping
  /\ main \in {"graceHandler", "draining", "forceLock", "cleanup", "cleanupClose",
               "cleanupResources", "returned"} => ~listenerOpen
  /\ main \in {"accept", "dispatch", "retry"} => entry = "Serve"
  /\ entry = "HandleConn" => ~listenerOpen
  /\ main = "prepare" /\ entry = "Serve" => cur = {}
  /\ main = "await" => entry = "HandleConn" /\ connections \subseteq cur
  /\ main = "track" /\ entry = "HandleConn" => connections = {}
  /\ main \in {"prepare", "cleanup", "cleanupClose", "cleanupResources", "returned"} => connections = {}

\* force cleans up after connections that were tracked.
ForcedBegun ==
  /\ Cleaning => \A c \in cleanups : pc[c] # "idle"
  /\ main \in {"cleanupClose", "cleanupResources"} => cur \subseteq cleanups

\* Every step keeps MainPath.
LEMMA MainPathNext == StateTypes /\ Places /\ DrainedMeansEmpty /\ Covered /\ MainPath /\ [Next]_vars => MainPath'
<1> SUFFICES ASSUME StateTypes, Places, DrainedMeansEmpty, Covered, MainPath, [Next]_vars PROVE MainPath'
  OBVIOUS
<1> USE DEF MainPath, outerVars, scopeVars, activeVars, timerVars, connVars, mainVars, HandlerFrame
<1>0. CASE UNCHANGED vars
  BY <1>0 DEF vars
<1>1. CASE ContextCanceled
  BY <1>1 DEF ContextCanceled
<1>2. CASE ListenerClosed
  BY <1>2 DEF ListenerClosed
<1>3. CASE PrepareFinishes
  BY <1>3 DEF PrepareFinishes
<1>4. ASSUME NEW c \in Conns, TransportFails(c) PROVE MainPath'
  BY <1>4 DEF TransportFails
<1>5. CASE WatchStops
  BY <1>5 DEF WatchStops, StopAcceptingSection, maybeCloseDrained
<1>6. CASE WatchCloses
  BY <1>6 DEF WatchCloses
<1>7. CASE PrepareReady
  BY <1>7 DEF PrepareReady
<1>8. CASE PrepareFails
  BY <1>8 DEF PrepareFails, Return
<1>9. ASSUME NEW c \in Conns, Accept(c) PROVE MainPath'
  BY <1>9 DEF Accept
<1>10. CASE AcceptFails
  BY <1>10 DEF AcceptFails
<1>11. ASSUME NEW x \in BOOLEAN, NEW y \in BOOLEAN, DispatchReturns(x, y) PROVE MainPath'
  BY <1>11 DEF DispatchReturns
<1>11a. CASE DispatchAbandoned
  BY <1>11a DEF DispatchAbandoned
<1>12. CASE Retry
  BY <1>12 DEF Retry
<1>13. ASSUME NEW c \in Conns, TrackRefuses(c) PROVE MainPath'
  BY <1>13 DEF TrackRefuses, Return, StateTypes
<1>14. ASSUME NEW c \in Conns, TrackAdmits(c) PROVE MainPath'
  BY <1>14 DEF TrackAdmits, StateTypes
<1>15. CASE AwaitReturns
  <2>1. connections = {}
    BY <1>15 DEF AwaitReturns, Covered, GonePCs, StateTypes
  <2>2. ~listenerOpen
    BY <1>15 DEF AwaitReturns
  <2> QED
    BY <1>15, <2>1, <2>2 DEF AwaitReturns, Return
<1>16. CASE AwaitCanceled
  BY <1>16 DEF AwaitCanceled
<1>17. CASE ShutdownStops
  BY <1>17 DEF ShutdownStops, MainStops, StopAcceptingSection, maybeCloseDrained
<1>18. CASE ShutdownCloses
  BY <1>18 DEF ShutdownCloses, MainCloses
<1>19. CASE GraceGranted
  BY <1>19 DEF GraceGranted, MainGoes
<1>20. CASE GraceDenied
  BY <1>20 DEF GraceDenied, MainGoes
<1>21. CASE Drained
  BY <1>21 DEF Drained, Return, DrainedMeansEmpty
<1>22. CASE GraceExpires
  BY <1>22 DEF GraceExpires, Return
<1>23. CASE ForceStops
  BY <1>23 DEF ForceStops, MainStops, StopAcceptingSection, maybeCloseDrained
<1>24. CASE ForceCloses
  BY <1>24 DEF ForceCloses, MainCloses
<1>25. CASE ForceLocks
  BY <1>25 DEF ForceLocks, maybeCloseDrained
<1>26. ASSUME NEW c \in Conns, CleanupCancels(c) PROVE MainPath'
  BY <1>26 DEF CleanupCancels, CancelCause
<1>27. ASSUME NEW c \in Conns, CleanupCloses(c) PROVE MainPath'
  BY <1>27 DEF CleanupCloses, CloseLayer
<1>28. ASSUME NEW c \in Conns, CleanupResources(c) PROVE MainPath'
  BY <1>28 DEF CleanupResources
<1>29. CASE CleanupDone
  BY <1>29 DEF CleanupDone, Return
<1>30. ASSUME NEW c \in Conns, UpdateCancel(c) PROVE MainPath'
  BY <1>30 DEF UpdateCancel, Goes, NextStage
<1>31. ASSUME NEW c \in Conns, UpdateCancelFails(c) PROVE MainPath'
  BY <1>31 DEF UpdateCancelFails, Goes, CloseLayer
<1>32. ASSUME NEW c \in Conns, ProxyWraps(c) PROVE MainPath'
  BY <1>32 DEF ProxyWraps, Wrap, Goes
<1>33. ASSUME NEW c \in Conns, CallbackReturns(c) PROVE MainPath'
  BY <1>33 DEF CallbackReturns, Wrap, Goes
<1>34. ASSUME NEW c \in Conns, WrapFails(c) PROVE MainPath'
  BY <1>34 DEF WrapFails, CloseLayer
<1>35. ASSUME NEW c \in Conns, ProxyUpdated(c) PROVE MainPath'
  BY <1>35 DEF ProxyUpdated, UpdateConnection, Goes, NextStage
<1>36. ASSUME NEW c \in Conns, CallbackUpdated(c) PROVE MainPath'
  BY <1>36 DEF CallbackUpdated, UpdateConnection, Goes, NextStage
<1>37. ASSUME NEW c \in Conns, UpdateConnectionFails(c) PROVE MainPath'
  BY <1>37 DEF UpdateConnectionFails, CloseLayer
<1>38. ASSUME NEW c \in Conns, HandshakeSucceeds(c) PROVE MainPath'
  BY <1>38 DEF HandshakeSucceeds, Goes
<1>39. ASSUME NEW c \in Conns, HandshakeFails(c) PROVE MainPath'
  BY <1>39 DEF HandshakeFails, Goes, CloseLayer, CancelCause
<1>40. ASSUME NEW c \in Conns, Reserve(c) PROVE MainPath'
  BY <1>40 DEF Reserve
<1>41. ASSUME NEW c \in Conns, ReserveUndo(c) PROVE MainPath'
  BY <1>41 DEF ReserveUndo, Goes
<1>42. ASSUME NEW c \in Conns, Rejected(c) PROVE MainPath'
  BY <1>42 DEF Rejected, Goes, CloseLayer, CancelCause
<1>43. ASSUME NEW c \in Conns, Established(c) PROVE MainPath'
  BY <1>43 DEF Established, ReleaseStartup, Goes
<1>44. ASSUME NEW c \in Conns, StopHandshakeTimer(c) PROVE MainPath'
  BY <1>44 DEF StopHandshakeTimer, Goes, StopTimer
<1>45. ASSUME NEW c \in Conns, WorkerCloses(c) PROVE MainPath'
  BY <1>45 DEF WorkerCloses, CloseLayer, CancelCause
<1>46. ASSUME NEW c \in Conns, LoopEnds(c) PROVE MainPath'
  BY <1>46 DEF LoopEnds, Goes
<1>47. ASSUME NEW c \in Conns, EndConnection(c) PROVE MainPath'
  BY <1>47 DEF EndConnection, Goes, CloseLayer, CancelCause
<1>48. ASSUME NEW c \in Conns, CloseResources(c) PROVE MainPath'
  BY <1>48 DEF CloseResources, Goes
<1>49. ASSUME NEW c \in Conns, Untrack(c) PROVE MainPath'
  BY <1>49 DEF Untrack, ReleaseStartup, Goes
<1>50. ASSUME NEW c \in Conns, Delete(c) PROVE MainPath'
  BY <1>50 DEF Delete, Goes, maybeCloseDrained
<1>51. ASSUME NEW c \in Conns, WorkersDone(c) PROVE MainPath'
  BY <1>51 DEF WorkersDone, Goes
<1>52. ASSUME NEW c \in Conns, DisconnectReturns(c) PROVE MainPath'
  BY <1>52 DEF DisconnectReturns, Goes
<1>53. ASSUME NEW c \in Conns, ReleaseSlot(c) PROVE MainPath'
  BY <1>53 DEF ReleaseSlot, Goes, StopTimer
<1>54. ASSUME NEW c \in Conns, UserCallbackReturns(c) PROVE MainPath'
  BY <1>54 DEF UserCallbackReturns, Goes
<1>55. ASSUME NEW c \in Conns, Exit(c) PROVE MainPath'
  BY <1>55 DEF Exit, Goes, StopTimer, CancelCause
<1>56. ASSUME NEW c \in Conns, HandshakeTimerChecks(c) PROVE MainPath'
  BY <1>56 DEF HandshakeTimerChecks
<1>57. ASSUME NEW c \in Conns, HandshakeTimerCancels(c) PROVE MainPath'
  BY <1>57 DEF HandshakeTimerCancels, CancelCause
<1>58. ASSUME NEW c \in Conns, MaxTimerCancels(c) PROVE MainPath'
  BY <1>58 DEF MaxTimerCancels, CancelCause
<1> QED
  BY <1>0, <1>1, <1>2, <1>3, <1>4, <1>5, <1>6, <1>7, <1>8, <1>9, <1>10, <1>11, <1>11a,
     <1>12, <1>13, <1>14, <1>15, <1>16, <1>17, <1>18, <1>19, <1>20, <1>21, <1>22, <1>23,
     <1>24, <1>25, <1>26, <1>27, <1>28, <1>29, <1>30, <1>31, <1>32, <1>33, <1>34, <1>35,
     <1>36, <1>37, <1>38, <1>39, <1>40, <1>41, <1>42, <1>43, <1>44, <1>45, <1>46, <1>47,
     <1>48, <1>49, <1>50, <1>51, <1>52, <1>53, <1>54, <1>55, <1>56, <1>57, <1>58
  DEF Next, MainStep, WatchStep, HandlerStep, OutsideStep, TimerStep, Terminated, vars


\* Every step keeps Covered.
LEMMA CoveredNext == StateTypes /\ Places /\ MainPath /\ Covered /\ [Next]_vars => Covered'
<1> SUFFICES ASSUME StateTypes, Places, MainPath, Covered, [Next]_vars PROVE Covered'
  OBVIOUS
<1> USE DEF Covered, Cleaning, ClosedPCs, GonePCs, StateTypes, Layers, HandlerPCs, outerVars, scopeVars, activeVars, timerVars, connVars, mainVars, HandlerFrame
<1>0. CASE UNCHANGED vars
  BY <1>0 DEF vars
<1>1. CASE ContextCanceled
  BY <1>1 DEF ContextCanceled
<1>2. CASE ListenerClosed
  BY <1>2 DEF ListenerClosed
<1>3. CASE PrepareFinishes
  BY <1>3 DEF PrepareFinishes
<1>4. ASSUME NEW c \in Conns, TransportFails(c) PROVE Covered'
  BY <1>4 DEF TransportFails
<1>5. CASE WatchStops
  BY <1>5 DEF WatchStops, StopAcceptingSection, maybeCloseDrained
<1>6. CASE WatchCloses
  BY <1>6 DEF WatchCloses
<1>7. CASE PrepareReady
  BY <1>7 DEF PrepareReady, MainPath
<1>8. CASE PrepareFails
  BY <1>8 DEF PrepareFails, Return
<1>9. ASSUME NEW c \in Conns, Accept(c) PROVE Covered'
  BY <1>9 DEF Accept
<1>10. CASE AcceptFails
  BY <1>10 DEF AcceptFails
<1>11. ASSUME NEW x \in BOOLEAN, NEW y \in BOOLEAN, DispatchReturns(x, y) PROVE Covered'
  BY <1>11 DEF DispatchReturns
<1>11a. CASE DispatchAbandoned
  BY <1>11a DEF DispatchAbandoned
<1>12. CASE Retry
  BY <1>12 DEF Retry
<1>13. ASSUME NEW c \in Conns, TrackRefuses(c) PROVE Covered'
  BY <1>13 DEF TrackRefuses, Return, CloseLayer, MainPath, Places
<1>14. ASSUME NEW c \in Conns, TrackAdmits(c) PROVE Covered'
  BY <1>14 DEF TrackAdmits, MainPath, Places
<1>15. CASE AwaitReturns
  BY <1>15 DEF AwaitReturns, Return
<1>16. CASE AwaitCanceled
  BY <1>16 DEF AwaitCanceled
<1>17. CASE ShutdownStops
  BY <1>17 DEF ShutdownStops, MainStops, StopAcceptingSection, maybeCloseDrained
<1>18. CASE ShutdownCloses
  BY <1>18 DEF ShutdownCloses, MainCloses
<1>19. CASE GraceGranted
  BY <1>19 DEF GraceGranted, MainGoes
<1>20. CASE GraceDenied
  BY <1>20 DEF GraceDenied, MainGoes
<1>21. CASE Drained
  BY <1>21 DEF Drained, Return
<1>22. CASE GraceExpires
  BY <1>22 DEF GraceExpires, Return
<1>23. CASE ForceStops
  BY <1>23 DEF ForceStops, MainStops, StopAcceptingSection, maybeCloseDrained
<1>24. CASE ForceCloses
  BY <1>24 DEF ForceCloses, MainCloses
<1>25. CASE ForceLocks
  BY <1>25 DEF ForceLocks, maybeCloseDrained
<1>26. ASSUME NEW c \in Conns, CleanupCancels(c) PROVE Covered'
  BY <1>26 DEF CleanupCancels, CancelCause
<1>27. ASSUME NEW c \in Conns, CleanupCloses(c) PROVE Covered'
  BY <1>27 DEF CleanupCloses, CloseLayer, MainPath
<1>28. ASSUME NEW c \in Conns, CleanupResources(c) PROVE Covered'
  BY <1>28 DEF CleanupResources
<1>29. CASE CleanupDone
  BY <1>29 DEF CleanupDone, Return
<1>30. ASSUME NEW c \in Conns, UpdateCancel(c) PROVE Covered'
  BY <1>30 DEF UpdateCancel, Goes, NextStage
<1>31. ASSUME NEW c \in Conns, UpdateCancelFails(c) PROVE Covered'
  BY <1>31 DEF UpdateCancelFails, Goes, CloseLayer
<1>32. ASSUME NEW c \in Conns, ProxyWraps(c) PROVE Covered'
  BY <1>32 DEF ProxyWraps, Wrap, Goes
<1>33. ASSUME NEW c \in Conns, CallbackReturns(c) PROVE Covered'
  BY <1>33 DEF CallbackReturns, Wrap, Goes
<1>34. ASSUME NEW c \in Conns, WrapFails(c) PROVE Covered'
  BY <1>34 DEF WrapFails, CloseLayer
<1>35. ASSUME NEW c \in Conns, ProxyUpdated(c) PROVE Covered'
  BY <1>35 DEF ProxyUpdated, UpdateConnection, Goes, NextStage
<1>36. ASSUME NEW c \in Conns, CallbackUpdated(c) PROVE Covered'
  BY <1>36 DEF CallbackUpdated, UpdateConnection, Goes, NextStage
<1>37. ASSUME NEW c \in Conns, UpdateConnectionFails(c) PROVE Covered'
  BY <1>37 DEF UpdateConnectionFails, CloseLayer
<1>38. ASSUME NEW c \in Conns, HandshakeSucceeds(c) PROVE Covered'
  BY <1>38 DEF HandshakeSucceeds, Goes
<1>39. ASSUME NEW c \in Conns, HandshakeFails(c) PROVE Covered'
  BY <1>39 DEF HandshakeFails, Goes, CloseLayer, CancelCause
<1>40. ASSUME NEW c \in Conns, Reserve(c) PROVE Covered'
  BY <1>40 DEF Reserve
<1>41. ASSUME NEW c \in Conns, ReserveUndo(c) PROVE Covered'
  BY <1>41 DEF ReserveUndo, Goes
<1>42. ASSUME NEW c \in Conns, Rejected(c) PROVE Covered'
  BY <1>42 DEF Rejected, Goes, CloseLayer, CancelCause
<1>43. ASSUME NEW c \in Conns, Established(c) PROVE Covered'
  BY <1>43 DEF Established, ReleaseStartup, Goes
<1>44. ASSUME NEW c \in Conns, StopHandshakeTimer(c) PROVE Covered'
  BY <1>44 DEF StopHandshakeTimer, Goes, StopTimer
<1>45. ASSUME NEW c \in Conns, WorkerCloses(c) PROVE Covered'
  BY <1>45 DEF WorkerCloses, CloseLayer, CancelCause
<1>46. ASSUME NEW c \in Conns, LoopEnds(c) PROVE Covered'
  BY <1>46 DEF LoopEnds, Goes
<1>47. ASSUME NEW c \in Conns, EndConnection(c) PROVE Covered'
  BY <1>47 DEF EndConnection, Goes, CloseLayer, CancelCause
<1>48. ASSUME NEW c \in Conns, CloseResources(c) PROVE Covered'
  BY <1>48 DEF CloseResources, Goes
<1>49. ASSUME NEW c \in Conns, Untrack(c) PROVE Covered'
  BY <1>49 DEF Untrack, ReleaseStartup, Goes
<1>50. ASSUME NEW c \in Conns, Delete(c) PROVE Covered'
  BY <1>50 DEF Delete, Goes, maybeCloseDrained
<1>51. ASSUME NEW c \in Conns, WorkersDone(c) PROVE Covered'
  BY <1>51 DEF WorkersDone, Goes
<1>52. ASSUME NEW c \in Conns, DisconnectReturns(c) PROVE Covered'
  BY <1>52 DEF DisconnectReturns, Goes
<1>53. ASSUME NEW c \in Conns, ReleaseSlot(c) PROVE Covered'
  BY <1>53 DEF ReleaseSlot, Goes, StopTimer
<1>54. ASSUME NEW c \in Conns, UserCallbackReturns(c) PROVE Covered'
  BY <1>54 DEF UserCallbackReturns, Goes
<1>55. ASSUME NEW c \in Conns, Exit(c) PROVE Covered'
  BY <1>55 DEF Exit, Goes, StopTimer, CancelCause
<1>56. ASSUME NEW c \in Conns, HandshakeTimerChecks(c) PROVE Covered'
  BY <1>56 DEF HandshakeTimerChecks
<1>57. ASSUME NEW c \in Conns, HandshakeTimerCancels(c) PROVE Covered'
  BY <1>57 DEF HandshakeTimerCancels, CancelCause
<1>58. ASSUME NEW c \in Conns, MaxTimerCancels(c) PROVE Covered'
  BY <1>58 DEF MaxTimerCancels, CancelCause
<1> QED
  BY <1>0, <1>1, <1>2, <1>3, <1>4, <1>5, <1>6, <1>7, <1>8, <1>9, <1>10, <1>11, <1>11a,
     <1>12, <1>13, <1>14, <1>15, <1>16, <1>17, <1>18, <1>19, <1>20, <1>21, <1>22, <1>23,
     <1>24, <1>25, <1>26, <1>27, <1>28, <1>29, <1>30, <1>31, <1>32, <1>33, <1>34, <1>35,
     <1>36, <1>37, <1>38, <1>39, <1>40, <1>41, <1>42, <1>43, <1>44, <1>45, <1>46, <1>47,
     <1>48, <1>49, <1>50, <1>51, <1>52, <1>53, <1>54, <1>55, <1>56, <1>57, <1>58
  DEF Next, MainStep, WatchStep, HandlerStep, OutsideStep, TimerStep, Terminated, vars


\* Every step keeps ResourcesCovered.
LEMMA ResourcesNext == StateTypes /\ Places /\ MainPath /\ Slots /\ ResourcesCovered /\ [Next]_vars => ResourcesCovered'
<1> SUFFICES ASSUME StateTypes, Places, MainPath, Slots, ResourcesCovered, [Next]_vars PROVE ResourcesCovered'
  OBVIOUS
<1> USE DEF ResourcesCovered, Cleaning, EarlyPCs, StateTypes, HandlerPCs, outerVars, scopeVars, activeVars, timerVars, connVars, mainVars, HandlerFrame
<1>0. CASE UNCHANGED vars
  BY <1>0 DEF vars
<1>1. CASE ContextCanceled
  BY <1>1 DEF ContextCanceled
<1>2. CASE ListenerClosed
  BY <1>2 DEF ListenerClosed
<1>3. CASE PrepareFinishes
  BY <1>3 DEF PrepareFinishes
<1>4. ASSUME NEW c \in Conns, TransportFails(c) PROVE ResourcesCovered'
  BY <1>4 DEF TransportFails
<1>5. CASE WatchStops
  BY <1>5 DEF WatchStops, StopAcceptingSection, maybeCloseDrained
<1>6. CASE WatchCloses
  BY <1>6 DEF WatchCloses
<1>7. CASE PrepareReady
  BY <1>7 DEF PrepareReady
<1>8. CASE PrepareFails
  BY <1>8 DEF PrepareFails, Return
<1>9. ASSUME NEW c \in Conns, Accept(c) PROVE ResourcesCovered'
  BY <1>9 DEF Accept
<1>10. CASE AcceptFails
  BY <1>10 DEF AcceptFails
<1>11. ASSUME NEW x \in BOOLEAN, NEW y \in BOOLEAN, DispatchReturns(x, y) PROVE ResourcesCovered'
  BY <1>11 DEF DispatchReturns
<1>11a. CASE DispatchAbandoned
  BY <1>11a DEF DispatchAbandoned
<1>12. CASE Retry
  BY <1>12 DEF Retry
<1>13. ASSUME NEW c \in Conns, TrackRefuses(c) PROVE ResourcesCovered'
  BY <1>13 DEF TrackRefuses, Return, CloseLayer
<1>14. ASSUME NEW c \in Conns, TrackAdmits(c) PROVE ResourcesCovered'
  BY <1>14 DEF TrackAdmits
<1>15. CASE AwaitReturns
  BY <1>15 DEF AwaitReturns, Return
<1>16. CASE AwaitCanceled
  BY <1>16 DEF AwaitCanceled
<1>17. CASE ShutdownStops
  BY <1>17 DEF ShutdownStops, MainStops, StopAcceptingSection, maybeCloseDrained
<1>18. CASE ShutdownCloses
  BY <1>18 DEF ShutdownCloses, MainCloses
<1>19. CASE GraceGranted
  BY <1>19 DEF GraceGranted, MainGoes
<1>20. CASE GraceDenied
  BY <1>20 DEF GraceDenied, MainGoes
<1>21. CASE Drained
  BY <1>21 DEF Drained, Return
<1>22. CASE GraceExpires
  BY <1>22 DEF GraceExpires, Return
<1>23. CASE ForceStops
  BY <1>23 DEF ForceStops, MainStops, StopAcceptingSection, maybeCloseDrained
<1>24. CASE ForceCloses
  BY <1>24 DEF ForceCloses, MainCloses
<1>25. CASE ForceLocks
  BY <1>25 DEF ForceLocks, maybeCloseDrained
<1>26. ASSUME NEW c \in Conns, CleanupCancels(c) PROVE ResourcesCovered'
  BY <1>26 DEF CleanupCancels, CancelCause
<1>27. ASSUME NEW c \in Conns, CleanupCloses(c) PROVE ResourcesCovered'
  BY <1>27 DEF CleanupCloses, CloseLayer
<1>28. ASSUME NEW c \in Conns, CleanupResources(c) PROVE ResourcesCovered'
  BY <1>28 DEF CleanupResources
<1>29. CASE CleanupDone
  BY <1>29 DEF CleanupDone, Return
<1>30. ASSUME NEW c \in Conns, UpdateCancel(c) PROVE ResourcesCovered'
  BY <1>30 DEF UpdateCancel, Goes, NextStage
<1>31. ASSUME NEW c \in Conns, UpdateCancelFails(c) PROVE ResourcesCovered'
  BY <1>31 DEF UpdateCancelFails, Goes, CloseLayer
<1>32. ASSUME NEW c \in Conns, ProxyWraps(c) PROVE ResourcesCovered'
  BY <1>32 DEF ProxyWraps, Wrap, Goes
<1>33. ASSUME NEW c \in Conns, CallbackReturns(c) PROVE ResourcesCovered'
  BY <1>33 DEF CallbackReturns, Wrap, Goes
<1>34. ASSUME NEW c \in Conns, WrapFails(c) PROVE ResourcesCovered'
  BY <1>34 DEF WrapFails, CloseLayer
<1>35. ASSUME NEW c \in Conns, ProxyUpdated(c) PROVE ResourcesCovered'
  BY <1>35 DEF ProxyUpdated, UpdateConnection, Goes, NextStage
<1>36. ASSUME NEW c \in Conns, CallbackUpdated(c) PROVE ResourcesCovered'
  BY <1>36 DEF CallbackUpdated, UpdateConnection, Goes, NextStage
<1>37. ASSUME NEW c \in Conns, UpdateConnectionFails(c) PROVE ResourcesCovered'
  BY <1>37 DEF UpdateConnectionFails, CloseLayer
<1>38. ASSUME NEW c \in Conns, HandshakeSucceeds(c) PROVE ResourcesCovered'
  BY <1>38 DEF HandshakeSucceeds, Goes
<1>39. ASSUME NEW c \in Conns, HandshakeFails(c) PROVE ResourcesCovered'
  BY <1>39 DEF HandshakeFails, Goes, CloseLayer, CancelCause
<1>40. ASSUME NEW c \in Conns, Reserve(c) PROVE ResourcesCovered'
  BY <1>40 DEF Reserve
<1>41. ASSUME NEW c \in Conns, ReserveUndo(c) PROVE ResourcesCovered'
  BY <1>41 DEF ReserveUndo, Goes
<1>42. ASSUME NEW c \in Conns, Rejected(c) PROVE ResourcesCovered'
  BY <1>42 DEF Rejected, Goes, CloseLayer, CancelCause
<1>43. ASSUME NEW c \in Conns, Established(c) PROVE ResourcesCovered'
  BY <1>43 DEF Established, ReleaseStartup, Goes
<1>44. ASSUME NEW c \in Conns, StopHandshakeTimer(c) PROVE ResourcesCovered'
  BY <1>44 DEF StopHandshakeTimer, Goes, StopTimer
<1>45. ASSUME NEW c \in Conns, WorkerCloses(c) PROVE ResourcesCovered'
  BY <1>45 DEF WorkerCloses, CloseLayer, CancelCause
<1>46. ASSUME NEW c \in Conns, LoopEnds(c) PROVE ResourcesCovered'
  BY <1>46 DEF LoopEnds, Goes
<1>47. ASSUME NEW c \in Conns, EndConnection(c) PROVE ResourcesCovered'
  BY <1>47 DEF EndConnection, Goes, CloseLayer, CancelCause
<1>48. ASSUME NEW c \in Conns, CloseResources(c) PROVE ResourcesCovered'
  BY <1>48 DEF CloseResources, Goes
<1>49. ASSUME NEW c \in Conns, Untrack(c) PROVE ResourcesCovered'
  BY <1>49 DEF Untrack, ReleaseStartup, Goes
<1>50. ASSUME NEW c \in Conns, Delete(c) PROVE ResourcesCovered'
  BY <1>50 DEF Delete, Goes, maybeCloseDrained
<1>51. ASSUME NEW c \in Conns, WorkersDone(c) PROVE ResourcesCovered'
  BY <1>51 DEF WorkersDone, Goes
<1>52. ASSUME NEW c \in Conns, DisconnectReturns(c) PROVE ResourcesCovered'
  BY <1>52 DEF DisconnectReturns, Goes
<1>53. ASSUME NEW c \in Conns, ReleaseSlot(c) PROVE ResourcesCovered'
  BY <1>53 DEF ReleaseSlot, Goes, StopTimer
<1>54. ASSUME NEW c \in Conns, UserCallbackReturns(c) PROVE ResourcesCovered'
  BY <1>54 DEF UserCallbackReturns, Goes
<1>55. ASSUME NEW c \in Conns, Exit(c) PROVE ResourcesCovered'
  BY <1>55 DEF Exit, Goes, Slots, ServedPCs
<1>56. ASSUME NEW c \in Conns, HandshakeTimerChecks(c) PROVE ResourcesCovered'
  BY <1>56 DEF HandshakeTimerChecks
<1>57. ASSUME NEW c \in Conns, HandshakeTimerCancels(c) PROVE ResourcesCovered'
  BY <1>57 DEF HandshakeTimerCancels, CancelCause
<1>58. ASSUME NEW c \in Conns, MaxTimerCancels(c) PROVE ResourcesCovered'
  BY <1>58 DEF MaxTimerCancels, CancelCause
<1> QED
  BY <1>0, <1>1, <1>2, <1>3, <1>4, <1>5, <1>6, <1>7, <1>8, <1>9, <1>10, <1>11, <1>11a,
     <1>12, <1>13, <1>14, <1>15, <1>16, <1>17, <1>18, <1>19, <1>20, <1>21, <1>22, <1>23,
     <1>24, <1>25, <1>26, <1>27, <1>28, <1>29, <1>30, <1>31, <1>32, <1>33, <1>34, <1>35,
     <1>36, <1>37, <1>38, <1>39, <1>40, <1>41, <1>42, <1>43, <1>44, <1>45, <1>46, <1>47,
     <1>48, <1>49, <1>50, <1>51, <1>52, <1>53, <1>54, <1>55, <1>56, <1>57, <1>58
  DEF Next, MainStep, WatchStep, HandlerStep, OutsideStep, TimerStep, Terminated, vars


\* Every step keeps ForcedBegun.
LEMMA ForcedBegunNext == StateTypes /\ Places /\ ForcedBegun /\ [Next]_vars => ForcedBegun'
<1> SUFFICES ASSUME StateTypes, Places, ForcedBegun, [Next]_vars PROVE ForcedBegun'
  OBVIOUS
<1> USE DEF ForcedBegun, Cleaning, StateTypes, HandlerPCs, outerVars, scopeVars, activeVars, timerVars, connVars, mainVars, HandlerFrame
<1>0. CASE UNCHANGED vars
  BY <1>0 DEF vars
<1>1. CASE ContextCanceled
  BY <1>1 DEF ContextCanceled
<1>2. CASE ListenerClosed
  BY <1>2 DEF ListenerClosed
<1>3. CASE PrepareFinishes
  BY <1>3 DEF PrepareFinishes
<1>4. ASSUME NEW c \in Conns, TransportFails(c) PROVE ForcedBegun'
  BY <1>4 DEF TransportFails
<1>5. CASE WatchStops
  BY <1>5 DEF WatchStops, StopAcceptingSection, maybeCloseDrained
<1>6. CASE WatchCloses
  BY <1>6 DEF WatchCloses
<1>7. CASE PrepareReady
  BY <1>7 DEF PrepareReady
<1>8. CASE PrepareFails
  BY <1>8 DEF PrepareFails, Return
<1>9. ASSUME NEW c \in Conns, Accept(c) PROVE ForcedBegun'
  BY <1>9 DEF Accept
<1>10. CASE AcceptFails
  BY <1>10 DEF AcceptFails
<1>11. ASSUME NEW x \in BOOLEAN, NEW y \in BOOLEAN, DispatchReturns(x, y) PROVE ForcedBegun'
  BY <1>11 DEF DispatchReturns
<1>11a. CASE DispatchAbandoned
  BY <1>11a DEF DispatchAbandoned
<1>12. CASE Retry
  BY <1>12 DEF Retry
<1>13. ASSUME NEW c \in Conns, TrackRefuses(c) PROVE ForcedBegun'
  BY <1>13 DEF TrackRefuses, Return, CloseLayer
<1>14. ASSUME NEW c \in Conns, TrackAdmits(c) PROVE ForcedBegun'
  BY <1>14 DEF TrackAdmits
<1>15. CASE AwaitReturns
  BY <1>15 DEF AwaitReturns, Return
<1>16. CASE AwaitCanceled
  BY <1>16 DEF AwaitCanceled
<1>17. CASE ShutdownStops
  BY <1>17 DEF ShutdownStops, MainStops, StopAcceptingSection, maybeCloseDrained
<1>18. CASE ShutdownCloses
  BY <1>18 DEF ShutdownCloses, MainCloses
<1>19. CASE GraceGranted
  BY <1>19 DEF GraceGranted, MainGoes
<1>20. CASE GraceDenied
  BY <1>20 DEF GraceDenied, MainGoes
<1>21. CASE Drained
  BY <1>21 DEF Drained, Return
<1>22. CASE GraceExpires
  BY <1>22 DEF GraceExpires, Return
<1>23. CASE ForceStops
  BY <1>23 DEF ForceStops, MainStops, StopAcceptingSection, maybeCloseDrained
<1>24. CASE ForceCloses
  BY <1>24 DEF ForceCloses, MainCloses
<1>25. CASE ForceLocks
  BY <1>25 DEF ForceLocks, Places
<1>26. ASSUME NEW c \in Conns, CleanupCancels(c) PROVE ForcedBegun'
  BY <1>26 DEF CleanupCancels, CancelCause
<1>27. ASSUME NEW c \in Conns, CleanupCloses(c) PROVE ForcedBegun'
  BY <1>27 DEF CleanupCloses, CloseLayer
<1>28. ASSUME NEW c \in Conns, CleanupResources(c) PROVE ForcedBegun'
  BY <1>28 DEF CleanupResources
<1>29. CASE CleanupDone
  BY <1>29 DEF CleanupDone, Return
<1>30. ASSUME NEW c \in Conns, UpdateCancel(c) PROVE ForcedBegun'
  BY <1>30 DEF UpdateCancel, Goes, NextStage
<1>31. ASSUME NEW c \in Conns, UpdateCancelFails(c) PROVE ForcedBegun'
  BY <1>31 DEF UpdateCancelFails, Goes, CloseLayer
<1>32. ASSUME NEW c \in Conns, ProxyWraps(c) PROVE ForcedBegun'
  BY <1>32 DEF ProxyWraps, Wrap, Goes
<1>33. ASSUME NEW c \in Conns, CallbackReturns(c) PROVE ForcedBegun'
  BY <1>33 DEF CallbackReturns, Wrap, Goes
<1>34. ASSUME NEW c \in Conns, WrapFails(c) PROVE ForcedBegun'
  BY <1>34 DEF WrapFails, CloseLayer
<1>35. ASSUME NEW c \in Conns, ProxyUpdated(c) PROVE ForcedBegun'
  BY <1>35 DEF ProxyUpdated, UpdateConnection, Goes, NextStage
<1>36. ASSUME NEW c \in Conns, CallbackUpdated(c) PROVE ForcedBegun'
  BY <1>36 DEF CallbackUpdated, UpdateConnection, Goes, NextStage
<1>37. ASSUME NEW c \in Conns, UpdateConnectionFails(c) PROVE ForcedBegun'
  BY <1>37 DEF UpdateConnectionFails, CloseLayer
<1>38. ASSUME NEW c \in Conns, HandshakeSucceeds(c) PROVE ForcedBegun'
  BY <1>38 DEF HandshakeSucceeds, Goes
<1>39. ASSUME NEW c \in Conns, HandshakeFails(c) PROVE ForcedBegun'
  BY <1>39 DEF HandshakeFails, Goes, CloseLayer, CancelCause
<1>40. ASSUME NEW c \in Conns, Reserve(c) PROVE ForcedBegun'
  BY <1>40 DEF Reserve
<1>41. ASSUME NEW c \in Conns, ReserveUndo(c) PROVE ForcedBegun'
  BY <1>41 DEF ReserveUndo, Goes
<1>42. ASSUME NEW c \in Conns, Rejected(c) PROVE ForcedBegun'
  BY <1>42 DEF Rejected, Goes, CloseLayer, CancelCause
<1>43. ASSUME NEW c \in Conns, Established(c) PROVE ForcedBegun'
  BY <1>43 DEF Established, ReleaseStartup, Goes
<1>44. ASSUME NEW c \in Conns, StopHandshakeTimer(c) PROVE ForcedBegun'
  BY <1>44 DEF StopHandshakeTimer, Goes, StopTimer
<1>45. ASSUME NEW c \in Conns, WorkerCloses(c) PROVE ForcedBegun'
  BY <1>45 DEF WorkerCloses, CloseLayer, CancelCause
<1>46. ASSUME NEW c \in Conns, LoopEnds(c) PROVE ForcedBegun'
  BY <1>46 DEF LoopEnds, Goes
<1>47. ASSUME NEW c \in Conns, EndConnection(c) PROVE ForcedBegun'
  BY <1>47 DEF EndConnection, Goes, CloseLayer, CancelCause
<1>48. ASSUME NEW c \in Conns, CloseResources(c) PROVE ForcedBegun'
  BY <1>48 DEF CloseResources, Goes
<1>49. ASSUME NEW c \in Conns, Untrack(c) PROVE ForcedBegun'
  BY <1>49 DEF Untrack, ReleaseStartup, Goes
<1>50. ASSUME NEW c \in Conns, Delete(c) PROVE ForcedBegun'
  BY <1>50 DEF Delete, Goes, maybeCloseDrained
<1>51. ASSUME NEW c \in Conns, WorkersDone(c) PROVE ForcedBegun'
  BY <1>51 DEF WorkersDone, Goes
<1>52. ASSUME NEW c \in Conns, DisconnectReturns(c) PROVE ForcedBegun'
  BY <1>52 DEF DisconnectReturns, Goes
<1>53. ASSUME NEW c \in Conns, ReleaseSlot(c) PROVE ForcedBegun'
  BY <1>53 DEF ReleaseSlot, Goes, StopTimer
<1>54. ASSUME NEW c \in Conns, UserCallbackReturns(c) PROVE ForcedBegun'
  BY <1>54 DEF UserCallbackReturns, Goes
<1>55. ASSUME NEW c \in Conns, Exit(c) PROVE ForcedBegun'
  BY <1>55 DEF Exit, Goes, StopTimer, CancelCause
<1>56. ASSUME NEW c \in Conns, HandshakeTimerChecks(c) PROVE ForcedBegun'
  BY <1>56 DEF HandshakeTimerChecks
<1>57. ASSUME NEW c \in Conns, HandshakeTimerCancels(c) PROVE ForcedBegun'
  BY <1>57 DEF HandshakeTimerCancels, CancelCause
<1>58. ASSUME NEW c \in Conns, MaxTimerCancels(c) PROVE ForcedBegun'
  BY <1>58 DEF MaxTimerCancels, CancelCause
<1> QED
  BY <1>0, <1>1, <1>2, <1>3, <1>4, <1>5, <1>6, <1>7, <1>8, <1>9, <1>10, <1>11, <1>11a,
     <1>12, <1>13, <1>14, <1>15, <1>16, <1>17, <1>18, <1>19, <1>20, <1>21, <1>22, <1>23,
     <1>24, <1>25, <1>26, <1>27, <1>28, <1>29, <1>30, <1>31, <1>32, <1>33, <1>34, <1>35,
     <1>36, <1>37, <1>38, <1>39, <1>40, <1>41, <1>42, <1>43, <1>44, <1>45, <1>46, <1>47,
     <1>48, <1>49, <1>50, <1>51, <1>52, <1>53, <1>54, <1>55, <1>56, <1>57, <1>58
  DEF Next, MainStep, WatchStep, HandlerStep, OutsideStep, TimerStep, Terminated, vars


--------------------------------------------------------------------------------
(* The transport and the context of one connection. *)

\* The places after the connection's context was canceled.
CanceledPCs == {"closeAll", "untrack", "delete", "workers", "disconnect", "release", "done"}

\* The goroutine knows the outermost layer there is, and closes it together with all
\* inside before it unwinds; it has published no cancel function before "start" is over.
Unwinds(c) ==
  /\ open[c] \subseteq 0..layer[c]
  /\ pc[c] \in {"idle", "start", "proxy"} => layer[c] = 0
  /\ pc[c] \in ClosedPCs => open[c] = {}
  /\ c \in cancelSet => pc[c] \notin {"idle", "start"}
  /\ c \in cancelSet /\ pc[c] \in CanceledPCs => cause[c] # "none"
UnwindInv == \A c \in Conns : Unwinds(c)

LEMMA CancelCauseSet ==
  ASSUME StateTypes, NEW c \in Conns, NEW why, why # "none", cause' = CancelCause(c, why)
  PROVE  \A d \in Conns : (cause[d] # "none" => cause'[d] # "none") /\ (d # c => cause'[d] = cause[d]) /\ cause'[c] # "none"
<1>1. cause \in [Conns -> Causes]
  BY DEF StateTypes
<1> QED
  BY <1>1 DEF CancelCause

\* A step of the goroutine of c, or about c before it has one.
LEMMA UnwindOne ==
  ASSUME UnwindInv, NEW c \in Conns, Unwinds(c)',
         \A d \in Conns : d # c => /\ pc'[d] = pc[d] /\ layer'[d] = layer[d] /\ open'[d] \subseteq open[d]
                                   /\ cause[d] # "none" => cause'[d] # "none"
                                   /\ d \in cancelSet' <=> d \in cancelSet
  PROVE  UnwindInv'
<1>1. ASSUME NEW d \in Conns, d # c PROVE Unwinds(d)'
  <2>1. Unwinds(d)
    BY DEF UnwindInv
  <2> QED
    BY <1>1, <2>1 DEF Unwinds
<1> QED
  BY <1>1 DEF UnwindInv

\* A step that closes layers or cancels, and leaves every goroutine where it is.
LEMMA UnwindKept ==
  ASSUME UnwindInv, UNCHANGED <<pc, layer, cancelSet>>,
         \A d \in Conns : open'[d] \subseteq open[d] /\ (cause[d] # "none" => cause'[d] # "none")
  PROVE  UnwindInv'
<1>1. ASSUME NEW d \in Conns PROVE Unwinds(d)'
  <2>1. Unwinds(d)
    BY DEF UnwindInv
  <2> QED
    BY <1>1, <2>1 DEF Unwinds
<1> QED
  BY <1>1 DEF UnwindInv

\* The goroutine of c goes on; it may have closed its transport, or canceled.
LEMMA UnwindGoes ==
  ASSUME StateTypes, UnwindInv, NEW c \in Conns, NEW to \in HandlerPCs, pc' = [pc EXCEPT ![c] = to],
         pc[c] # "idle", UNCHANGED <<layer, cancelSet>>, to \notin {"idle", "start"},
         to = "proxy" => pc[c] = "start",
         open' = open \/ open' = CloseLayer(c, layer[c]),
         to \in ClosedPCs => pc[c] \in ClosedPCs \/ open' = CloseLayer(c, layer[c]),
         cause' = cause \/ cause' = CancelCause(c, "canceled"),
         to \in CanceledPCs => pc[c] \in CanceledPCs \/ cause' = CancelCause(c, "canceled")
  PROVE  UnwindInv'
<1>1. /\ pc \in [Conns -> HandlerPCs] /\ open \in [Conns -> SUBSET Layers] /\ layer \in [Conns -> Layers]
      /\ cause \in [Conns -> Causes]
  BY DEF StateTypes
<1>2. pc'[c] = to /\ \A d \in Conns : d # c => pc'[d] = pc[d]
  BY <1>1
<1>3. /\ \A d \in Conns : cause[d] # "none" => cause'[d] # "none"
      /\ cause' = CancelCause(c, "canceled") => cause'[c] # "none"
  BY CancelCauseSet
<1>4. Unwinds(c)
  BY DEF UnwindInv
<1>5. /\ \A d \in Conns : open'[d] \subseteq open[d]
      /\ open' = CloseLayer(c, layer[c]) => open'[c] = {}
  <2>1. CASE open' = open
    BY <1>1, <1>4, <2>1 DEF CloseLayer, Unwinds
  <2>2. CASE open' = CloseLayer(c, layer[c])
    BY <1>1, <1>4, <2>2 DEF CloseLayer, Unwinds
  <2> QED
    BY <2>1, <2>2
<1>6. to \in ClosedPCs => open'[c] = {}
  BY <1>4, <1>5 DEF Unwinds
<1>7. c \in cancelSet /\ to \in CanceledPCs => cause'[c] # "none"
  BY <1>3, <1>4 DEF Unwinds
<1>8. Unwinds(c)'
  BY <1>2, <1>4, <1>5, <1>6, <1>7 DEF Unwinds
<1> QED
  BY <1>2, <1>3, <1>5, <1>8, UnwindOne

\* Steps of others.
LEMMA UnwindOthers ==
  ASSUME StateTypes, UnwindInv, [Next]_vars,
         ~ \E c \in Conns : HandlerStep(c) \/ OutsideStep(c) \/ Accept(c) \/ TrackRefuses(c) \/ TrackAdmits(c)
  PROVE  UnwindInv'
<1> USE DEF outerVars, scopeVars, activeVars, timerVars, connVars, mainVars, HandlerFrame
<1>0. open \in [Conns -> SUBSET Layers] /\ cause \in [Conns -> Causes]
  BY DEF StateTypes
<1>1. CASE UNCHANGED <<pc, layer, open, cause, cancelSet>>
  BY <1>1, UnwindKept
<1>2. CASE PrepareFails
  <2>1. UNCHANGED <<pc, layer, cancelSet, cause>> /\ \A d \in Conns : open'[d] \subseteq open[d]
    BY <1>0, <1>2 DEF PrepareFails
  <2> QED
    BY <2>1, UnwindKept
<1>3. ASSUME NEW c \in Conns, CleanupCancels(c) \/ HandshakeTimerCancels(c) \/ MaxTimerCancels(c) PROVE UnwindInv'
  <2>1. UNCHANGED <<pc, layer, cancelSet, open>>
    BY <1>3 DEF CleanupCancels, HandshakeTimerCancels, MaxTimerCancels
  <2>2. cause' = cause \/ \E why \in {"forced", "handshakeTimeout", "maxTimeout"} : cause' = CancelCause(c, why)
    BY <1>3 DEF CleanupCancels, HandshakeTimerCancels, MaxTimerCancels
  <2>3. \A d \in Conns : cause[d] # "none" => cause'[d] # "none"
    BY <2>2, CancelCauseSet
  <2> QED
    BY <2>1, <2>3, UnwindKept
<1>4. ASSUME NEW c \in Conns, CleanupCloses(c) PROVE UnwindInv'
  <2>1. UNCHANGED <<pc, layer, cancelSet, cause>> /\ \A d \in Conns : open'[d] \subseteq open[d]
    BY <1>0, <1>4 DEF CleanupCloses, CloseLayer
  <2> QED
    BY <2>1, UnwindKept
<1>5. ASSUME NEW c \in Conns, WorkerCloses(c) PROVE UnwindInv'
  <2>1. UNCHANGED <<pc, layer, cancelSet>> /\ \A d \in Conns : open'[d] \subseteq open[d]
    BY <1>0, <1>5 DEF WorkerCloses, CloseLayer
  <2>2. \A d \in Conns : cause[d] # "none" => cause'[d] # "none"
    BY <1>5, CancelCauseSet DEF WorkerCloses
  <2> QED
    BY <2>1, <2>2, UnwindKept
<1>6. CASE ContextCanceled \/ ListenerClosed \/ PrepareFinishes \/ WatchStops \/ WatchCloses \/ UNCHANGED vars
  BY <1>1, <1>6 DEF ContextCanceled, ListenerClosed, PrepareFinishes, WatchStops, WatchCloses, vars
<1>7. ASSUME NEW c \in Conns, TransportFails(c) \/ CleanupResources(c) \/ HandshakeTimerChecks(c) PROVE UnwindInv'
  BY <1>1, <1>7 DEF TransportFails, CleanupResources, HandshakeTimerChecks
<1>8. CASE \/ PrepareReady \/ AcceptFails \/ Retry \/ AwaitReturns \/ AwaitCanceled
           \/ DispatchAbandoned \/ \E x, y \in BOOLEAN : DispatchReturns(x, y)
  BY <1>1, <1>8 DEF PrepareReady, AcceptFails, Retry, AwaitReturns, AwaitCanceled, DispatchReturns, DispatchAbandoned
<1>9. CASE ShutdownStops \/ ShutdownCloses \/ GraceGranted \/ GraceDenied \/ Drained \/ GraceExpires
  BY <1>1, <1>9 DEF ShutdownStops, ShutdownCloses, GraceGranted, GraceDenied, Drained, GraceExpires, MainStops, MainCloses, MainGoes
<1>10. CASE ForceStops \/ ForceCloses \/ ForceLocks \/ CleanupDone
  BY <1>1, <1>10 DEF ForceStops, ForceCloses, ForceLocks, CleanupDone, MainStops, MainCloses
<1> QED
  BY <1>2, <1>3, <1>4, <1>5, <1>6, <1>7, <1>8, <1>9, <1>10 DEF Next, MainStep, WatchStep, TimerStep, Terminated

\* The connection before its goroutine runs.
LEMMA UnwindStarts ==
  ASSUME StateTypes, Places, UnwindInv, NEW c \in Conns, Accept(c) \/ TrackRefuses(c) \/ TrackAdmits(c)
  PROVE  UnwindInv'
<1> USE DEF activeVars, timerVars, connVars
<1>1. /\ pc \in [Conns -> HandlerPCs] /\ open \in [Conns -> SUBSET Layers] /\ layer \in [Conns -> Layers]
      /\ Unwinds(c)
  BY DEF StateTypes, UnwindInv
<1>2. pc[c] = "idle" /\ UNCHANGED <<layer, cause, cancelSet>>
  BY DEF Accept, TrackRefuses, TrackAdmits, Places
<1>3. layer[c] = 0 /\ c \notin cancelSet
  BY <1>1, <1>2 DEF Unwinds
<1>4. CASE Accept(c)
  <2>1. pc' = pc /\ open' = [open EXCEPT ![c] = {0}]
    BY <1>4 DEF Accept
  <2>2. Unwinds(c)'
    BY <1>1, <1>2, <1>3, <2>1 DEF Unwinds, ClosedPCs
  <2> QED
    BY <1>1, <1>2, <2>1, <2>2, UnwindOne
<1>5. CASE TrackRefuses(c)
  <2>1. pc' = [pc EXCEPT ![c] = "done"] /\ open' = CloseLayer(c, 0)
    BY <1>5 DEF TrackRefuses
  <2>2. open'[c] = {} /\ \A d \in Conns : d # c => open'[d] = open[d]
    BY <1>1, <1>3, <2>1 DEF CloseLayer, Unwinds
  <2>3. Unwinds(c)'
    BY <1>1, <1>2, <1>3, <2>1, <2>2 DEF Unwinds
  <2> QED
    BY <1>1, <1>2, <2>1, <2>2, <2>3, UnwindOne
<1>6. CASE TrackAdmits(c)
  <2>1. pc' = [pc EXCEPT ![c] = "start"] /\ open' = open
    BY <1>6 DEF TrackAdmits
  <2>2. Unwinds(c)'
    BY <1>1, <1>2, <1>3, <2>1 DEF Unwinds, ClosedPCs, CanceledPCs
  <2> QED
    BY <1>1, <1>2, <2>1, <2>2, UnwindOne
<1> QED
  BY <1>4, <1>5, <1>6

\* A wrapper keeps the network connection it was given or wraps it in a new layer
\* above it.
LEMMA UnwindWrap ==
  ASSUME StateTypes, UnwindInv, NEW c \in Conns, NEW from \in {"proxy", "callback"},
         NEW to \in {"proxyUpdate", "callbackUpdate"}, NEW k \in Layers, layer[c] <= k, Wrap(c, from, to, k)
  PROVE  UnwindInv'
<1> USE DEF activeVars, timerVars, connVars
<1>1. /\ pc \in [Conns -> HandlerPCs] /\ open \in [Conns -> SUBSET Layers] /\ layer \in [Conns -> Layers]
      /\ Unwinds(c)
  BY DEF StateTypes, UnwindInv
<1>2. /\ layer' = [layer EXCEPT ![c] = k] /\ open' = [open EXCEPT ![c] = @ \cup ({k} \ {layer[c]})]
      /\ UNCHANGED <<cause, cancelSet>> /\ pc[c] = from /\ pc' = [pc EXCEPT ![c] = to]
  BY DEF Wrap, Goes
<1>3. layer[c] \in 0..2 /\ k \in 0..2
  BY <1>1 DEF Layers
<1>4. layer'[c] = k /\ open'[c] \subseteq 0..k
  BY <1>1, <1>2, <1>3 DEF Unwinds
<1>5. /\ pc'[c] = to
      /\ \A d \in Conns : d # c => pc'[d] = pc[d] /\ layer'[d] = layer[d] /\ open'[d] = open[d]
  BY <1>1, <1>2
<1>6. Unwinds(c)'
  BY <1>1, <1>2, <1>4, <1>5 DEF Unwinds, ClosedPCs, CanceledPCs
<1> QED
  BY <1>2, <1>5, <1>6, UnwindOne

\* updateCancel publishes the cancel function, and the wrappers add a layer.
LEMMA UnwindWraps ==
  ASSUME StateTypes, UnwindInv, NEW c \in Conns, UpdateCancel(c) \/ ProxyWraps(c) \/ CallbackReturns(c)
  PROVE  UnwindInv'
<1> USE DEF activeVars, timerVars, connVars
<1>1. /\ pc \in [Conns -> HandlerPCs] /\ open \in [Conns -> SUBSET Layers] /\ layer \in [Conns -> Layers]
      /\ Unwinds(c)
  BY DEF StateTypes, UnwindInv
<1>2. CASE UpdateCancel(c)
  <2>1. /\ pc[c] = "start" /\ pc' = [pc EXCEPT ![c] = NextStage("start")] /\ cancelSet' = cancelSet \cup {c}
        /\ UNCHANGED <<open, layer, cause>>
    BY <1>2 DEF UpdateCancel, Goes
  <2>2. PICK to \in {"proxy", "callback", "handshake"} : to = NextStage("start")
    BY DEF NextStage
  <2>3. pc'[c] = to /\ \A d \in Conns : d # c => pc'[d] = pc[d]
    BY <1>1, <2>1, <2>2
  <2>4. Unwinds(c)'
    BY <1>1, <2>1, <2>3 DEF Unwinds, ClosedPCs, CanceledPCs
  <2> QED
    BY <2>1, <2>3, <2>4, UnwindOne
<1>3. CASE ProxyWraps(c)
  <2>1. PICK k \in {layer[c], 1} : Wrap(c, "proxy", "proxyUpdate", k)
    BY <1>3 DEF ProxyWraps
  <2>2. pc[c] = "proxy"
    BY <2>1 DEF Wrap, Goes
  <2>3. k \in Layers /\ layer[c] <= k
    BY <1>1, <2>2 DEF Unwinds, Layers
  <2> QED
    BY <2>1, <2>3, UnwindWrap
<1>4. CASE CallbackReturns(c)
  <2>1. PICK k \in {layer[c], 2} : Wrap(c, "callback", "callbackUpdate", k)
    BY <1>4 DEF CallbackReturns
  <2>2. k \in Layers /\ layer[c] <= k
    BY <1>1 DEF Layers
  <2> QED
    BY <2>1, <2>2, UnwindWrap
<1> QED
  BY <1>2, <1>3, <1>4

\* Every other step of the goroutine.
LEMMA UnwindSteps ==
  ASSUME StateTypes, UnwindInv, NEW c \in Conns, HandlerStep(c) \/ OutsideStep(c)
  PROVE  UnwindInv'
<1> USE DEF activeVars, timerVars, connVars
<1>1. CASE UpdateCancelFails(c) \/ UpdateConnectionFails(c) \/ WrapFails(c)
  <2>1. PICK to \in {"exit", "userCallback"} : pc' = [pc EXCEPT ![c] = to] /\ pc[c] # "idle"
    BY <1>1 DEF UpdateCancelFails, UpdateConnectionFails, WrapFails, Goes
  <2>2. open' = CloseLayer(c, layer[c]) /\ UNCHANGED <<layer, cancelSet, cause>>
    BY <1>1 DEF UpdateCancelFails, UpdateConnectionFails, WrapFails
  <2>3. to \in HandlerPCs /\ to \notin CanceledPCs /\ to \notin {"idle", "start", "proxy"}
    BY DEF HandlerPCs, CanceledPCs
  <2> QED
    BY <2>1, <2>2, <2>3, UnwindGoes
<1>2. CASE HandshakeFails(c) \/ Rejected(c) \/ EndConnection(c)
  <2>1. PICK to \in {"exit", "userCallback", "closeAll"} : pc' = [pc EXCEPT ![c] = to] /\ pc[c] # "idle"
    BY <1>2 DEF HandshakeFails, Rejected, EndConnection, Goes
  <2>2. open' = CloseLayer(c, layer[c]) /\ cause' = CancelCause(c, "canceled") /\ UNCHANGED <<layer, cancelSet>>
    BY <1>2 DEF HandshakeFails, Rejected, EndConnection
  <2>3. to \in HandlerPCs /\ to \notin {"idle", "start", "proxy"}
    BY DEF HandlerPCs
  <2> QED
    BY <2>1, <2>2, <2>3, UnwindGoes
<1>3. CASE Exit(c)
  <2>1. /\ pc[c] = "exit" /\ pc' = [pc EXCEPT ![c] = "untrack"] /\ cause' = CancelCause(c, "canceled")
        /\ UNCHANGED <<layer, cancelSet, open>>
    BY <1>3 DEF Exit, Goes
  <2>2. "untrack" \in HandlerPCs /\ "exit" \in ClosedPCs
    BY DEF HandlerPCs, ClosedPCs
  <2> QED
    BY <2>1, <2>2, UnwindGoes
<1>4. CASE \/ ProxyUpdated(c) \/ CallbackUpdated(c) \/ HandshakeSucceeds(c) \/ Reserve(c) \/ ReserveUndo(c)
           \/ Established(c) \/ StopHandshakeTimer(c) \/ LoopEnds(c)
  <2>1. PICK to \in {"callback", "handshake", "reserve", "established", "undo", "rejected", "stopTimer", "serving", "ending"} :
          pc' = [pc EXCEPT ![c] = to] /\ pc[c] # "idle"
    BY <1>4 DEF ProxyUpdated, CallbackUpdated, HandshakeSucceeds, Reserve, ReserveUndo, Established, StopHandshakeTimer, LoopEnds,
       UpdateConnection, ReleaseStartup, Goes, NextStage
  <2>2. UNCHANGED <<layer, cancelSet, open, cause>>
    BY <1>4 DEF ProxyUpdated, CallbackUpdated, HandshakeSucceeds, Reserve, ReserveUndo, Established, StopHandshakeTimer, LoopEnds,
       UpdateConnection, ReleaseStartup
  <2>3. to \in HandlerPCs /\ to \notin CanceledPCs /\ to \notin ClosedPCs /\ to \notin {"idle", "start", "proxy"}
    BY DEF HandlerPCs, CanceledPCs, ClosedPCs
  <2> QED
    BY <2>1, <2>2, <2>3, UnwindGoes
<1>5. CASE CloseResources(c) \/ Untrack(c) \/ Delete(c) \/ WorkersDone(c) \/ DisconnectReturns(c) \/ ReleaseSlot(c)
  <2>1. PICK to \in CanceledPCs : pc' = [pc EXCEPT ![c] = to] /\ pc[c] \in CanceledPCs
    BY <1>5 DEF CloseResources, Untrack, Delete, WorkersDone, DisconnectReturns, ReleaseSlot, ReleaseStartup, Goes, CanceledPCs
  <2>2. UNCHANGED <<layer, cancelSet, open, cause>>
    BY <1>5 DEF CloseResources, Untrack, Delete, WorkersDone, DisconnectReturns, ReleaseSlot, ReleaseStartup
  <2>3. to \in HandlerPCs /\ to \notin {"idle", "start", "proxy"} /\ pc[c] # "idle" /\ pc[c] \in ClosedPCs
    BY <2>1 DEF HandlerPCs, CanceledPCs, ClosedPCs
  <2> QED
    BY <2>1, <2>2, <2>3, UnwindGoes
<1>6. CASE UserCallbackReturns(c)
  <2>1. pc[c] = "userCallback" /\ pc' = [pc EXCEPT ![c] = "exit"] /\ UNCHANGED <<layer, cancelSet, open, cause>>
    BY <1>6 DEF UserCallbackReturns, Goes
  <2>2. "exit" \in HandlerPCs /\ "userCallback" \in ClosedPCs /\ "exit" \notin CanceledPCs
    BY DEF HandlerPCs, ClosedPCs, CanceledPCs
  <2> QED
    BY <2>1, <2>2, UnwindGoes
<1> QED
  BY <1>1, <1>2, <1>3, <1>4, <1>5, <1>6, UnwindWraps DEF HandlerStep, OutsideStep

--------------------------------------------------------------------------------
(* The refinement, step by step. *)

AbsVars == <<AbsPhase, AbsStatus>>

\* A step outside the goroutines that leaves the phase as it is, is invisible.
LEMMA StutterStep ==
  ASSUME UNCHANGED <<pc, open>>, UNCHANGED stopping,
         main = "returned" <=> main' = "returned"
  PROVE  [Abstract!Next]_AbsVars
<1>1. AbsPhase' = AbsPhase
  BY DEF AbsPhase
<1>2. AbsStatus' = AbsStatus
  BY DEF AbsStatus
<1> QED
  BY <1>1, <1>2 DEF AbsVars

\* A goroutine that moves on and opens no network connection ends its connection
\* or is invisible.
LEMMA MoveStep ==
  ASSUME StateTypes, NEW c \in Conns, pc[c] # "idle", pc'[c] # "idle",
         \A d \in Conns \ {c} : pc'[d] = pc[d] /\ open'[d] = open[d],
         0 \in open'[c] => 0 \in open[c],
         UNCHANGED stopping, main = "returned" <=> main' = "returned"
  PROVE  [Abstract!Next]_AbsVars
<1>1. AbsPhase' = AbsPhase
  BY DEF AbsPhase
<1>2. CASE 0 \in open[c] <=> 0 \in open'[c]
  <2>1. AbsStatus' = AbsStatus
    BY <1>2 DEF AbsStatus
  <2> QED
    BY <1>1, <2>1 DEF AbsVars
<1>3. CASE 0 \in open[c] /\ 0 \notin open'[c]
  <2>1. AbsStatus' = [AbsStatus EXCEPT ![c] = "over"] /\ AbsStatus[c] = "live"
    BY <1>3 DEF AbsStatus
  <2> QED
    BY <1>1, <2>1 DEF Abstract!Next, Abstract!End
<1> QED
  BY <1>2, <1>3

\* stopAccepting stops the call, or finds it stopped.
LEMMA StopStep ==
  ASSUME StateTypes, StopAcceptingSection, UNCHANGED <<pc, open>>,
         main = "returned" <=> main' = "returned"
  PROVE  [Abstract!Next]_AbsVars
<1>1. AbsStatus' = AbsStatus
  BY DEF AbsStatus
<1>2. AbsPhase' = AbsPhase \/ (AbsPhase = "open" /\ AbsPhase' = "stopped")
  BY DEF AbsPhase, StopAcceptingSection, StateTypes
<1> QED
  BY <1>1, <1>2 DEF AbsVars, Abstract!Next, Abstract!Stop

\* A call that returns leaves nothing live behind.
LEMMA ReturnStep ==
  ASSUME Covered, MainPath, main # "returned", main' = "returned",
         UNCHANGED <<pc, connections>>, connections' = {}, ~Cleaning \/ cleanups = {},
         \A c \in Conns : pc[c] # "idle" => open'[c] = open[c]
  PROVE  [Abstract!Next]_AbsVars
<1>1. AbsStatus' = AbsStatus
  BY DEF AbsStatus
<1>2. Abstract!Live = {}
  BY DEF Abstract!Live, AbsStatus, Covered
<1>3. AbsPhase # "returned" /\ AbsPhase' = "returned"
  BY DEF AbsPhase
<1> QED
  BY <1>1, <1>2, <1>3 DEF Abstract!Next, Abstract!Return

\* Every step of the scope is a step of the abstract call or invisible to it.
LEMMA RefinementNext == StateTypes /\ Places /\ DrainedMeansEmpty /\ Covered /\ MainPath /\ ForcedBegun /\ [Next]_vars => [Abstract!Next]_AbsVars
<1> SUFFICES ASSUME StateTypes, Places, DrainedMeansEmpty, Covered, MainPath, ForcedBegun, [Next]_vars PROVE [Abstract!Next]_AbsVars
  OBVIOUS
<1> USE DEF outerVars, scopeVars, activeVars, timerVars, connVars, mainVars, HandlerFrame
<1>0. CASE UNCHANGED vars
  BY <1>0, StutterStep DEF vars
<1>1. CASE ContextCanceled
  BY <1>1, StutterStep DEF ContextCanceled
<1>2. CASE ListenerClosed
  BY <1>2, StutterStep DEF ListenerClosed
<1>3. CASE PrepareFinishes
  BY <1>3, StutterStep DEF PrepareFinishes
<1>4. ASSUME NEW c \in Conns, TransportFails(c) PROVE [Abstract!Next]_AbsVars
  BY <1>4, StutterStep DEF TransportFails
<1>5. CASE WatchStops
  BY <1>5, StopStep DEF WatchStops
<1>6. CASE WatchCloses
  BY <1>6, StutterStep DEF WatchCloses
<1>7. CASE PrepareReady
  BY <1>7, StutterStep DEF PrepareReady
<1>8. CASE PrepareFails
  BY <1>8, ReturnStep DEF PrepareFails, Return, MainPath, Cleaning, Places
<1>9. ASSUME NEW c \in Conns, Accept(c) PROVE [Abstract!Next]_AbsVars
  <2>1. AbsStatus' = AbsStatus
    BY <1>9 DEF Accept, AbsStatus, StateTypes
  <2>2. AbsPhase' = AbsPhase
    BY <1>9 DEF Accept, AbsPhase
  <2> QED
    BY <2>1, <2>2 DEF AbsVars
<1>10. CASE AcceptFails
  BY <1>10, StutterStep DEF AcceptFails
<1>11. ASSUME NEW x \in BOOLEAN, NEW y \in BOOLEAN, DispatchReturns(x, y) PROVE [Abstract!Next]_AbsVars
  BY <1>11, StutterStep DEF DispatchReturns
<1>11a. CASE DispatchAbandoned
  BY <1>11a, StutterStep DEF DispatchAbandoned
<1>12. CASE Retry
  BY <1>12, StutterStep DEF Retry
<1>13. ASSUME NEW c \in Conns, TrackRefuses(c) PROVE [Abstract!Next]_AbsVars
  <2>1. AbsStatus[c] = "new" /\ AbsStatus' = [AbsStatus EXCEPT ![c] = "over"]
    <3>1. pc[c] = "idle" /\ pc' = [pc EXCEPT ![c] = "done"]
      BY <1>13 DEF TrackRefuses, Places
    <3>2. 0 \notin open'[c] /\ \A d \in Conns \ {c} : open'[d] = open[d]
      BY <1>13 DEF TrackRefuses, CloseLayer, StateTypes
    <3> QED
      BY <3>1, <3>2 DEF AbsStatus, StateTypes
  <2>2. AbsPhase # "returned" /\ AbsPhase' \in {AbsPhase, "returned"}
    BY <1>13 DEF TrackRefuses, Return, AbsPhase
  <2>3. AbsPhase' = "returned" => Abstract!Live = {}
    <3> SUFFICES ASSUME AbsPhase' = "returned" PROVE Abstract!Live = {}
      OBVIOUS
    <3>1. entry = "HandleConn"
      BY <1>13 DEF TrackRefuses, AbsPhase, StateTypes
    <3>2. connections = {}
      BY <1>13, <3>1 DEF TrackRefuses, MainPath
    <3> QED
      BY <1>13, <3>2 DEF TrackRefuses, Abstract!Live, AbsStatus, Covered, Cleaning
  <2> QED
    BY <2>1, <2>2, <2>3 DEF Abstract!Next, Abstract!Refuse
<1>14. ASSUME NEW c \in Conns, TrackAdmits(c) PROVE [Abstract!Next]_AbsVars
  <2>1. AbsPhase = "open" /\ AbsPhase' = AbsPhase
    BY <1>14 DEF TrackAdmits, AbsPhase
  <2>2. AbsStatus[c] = "new" /\ \E v \in {"live", "over"} : AbsStatus' = [AbsStatus EXCEPT ![c] = v]
    BY <1>14 DEF TrackAdmits, AbsStatus, StateTypes, Places
  <2> QED
    BY <2>1, <2>2 DEF Abstract!Next, Abstract!Admit, Abstract!Refuse
<1>15. CASE AwaitReturns
  BY <1>15, ReturnStep DEF AwaitReturns, Return, MainPath, Cleaning, Covered, GonePCs, StateTypes
<1>16. CASE AwaitCanceled
  BY <1>16, StutterStep DEF AwaitCanceled
<1>17. CASE ShutdownStops
  BY <1>17, StopStep DEF ShutdownStops, MainStops
<1>18. CASE ShutdownCloses
  BY <1>18, StutterStep DEF ShutdownCloses, MainCloses
<1>19. CASE GraceGranted
  BY <1>19, StutterStep DEF GraceGranted, MainGoes
<1>20. CASE GraceDenied
  BY <1>20, StutterStep DEF GraceDenied, MainGoes
<1>21. CASE Drained
  BY <1>21, ReturnStep DEF Drained, Return, MainPath, Cleaning, DrainedMeansEmpty
<1>22. CASE GraceExpires
  <2>1. CASE connections = {}
    BY <1>22, <2>1, ReturnStep DEF GraceExpires, Return, Cleaning
  <2>2. CASE connections # {}
    BY <1>22, <2>2, StutterStep DEF GraceExpires
  <2> QED
    BY <2>1, <2>2
<1>23. CASE ForceStops
  BY <1>23, StopStep DEF ForceStops, MainStops
<1>24. CASE ForceCloses
  BY <1>24, StutterStep DEF ForceCloses, MainCloses
<1>25. CASE ForceLocks
  BY <1>25, StutterStep DEF ForceLocks, maybeCloseDrained
<1>26. ASSUME NEW c \in Conns, CleanupCancels(c) PROVE [Abstract!Next]_AbsVars
  BY <1>26, StutterStep DEF CleanupCancels, CancelCause
<1>27. ASSUME NEW c \in Conns, CleanupCloses(c) PROVE [Abstract!Next]_AbsVars
  <2>1. pc[c] # "idle"
    BY <1>27 DEF CleanupCloses, ForcedBegun, Cleaning
  <2> QED
    BY <1>27, <2>1, MoveStep DEF CleanupCloses, CloseLayer, StateTypes, Layers
<1>28. ASSUME NEW c \in Conns, CleanupResources(c) PROVE [Abstract!Next]_AbsVars
  BY <1>28, StutterStep DEF CleanupResources
<1>29. CASE CleanupDone
  BY <1>29, ReturnStep DEF CleanupDone, Return, MainPath, Cleaning
<1>30. ASSUME NEW c \in Conns, UpdateCancel(c) PROVE [Abstract!Next]_AbsVars
  BY <1>30, MoveStep DEF UpdateCancel, Goes, NextStage, StateTypes, Layers
<1>31. ASSUME NEW c \in Conns, UpdateCancelFails(c) PROVE [Abstract!Next]_AbsVars
  BY <1>31, MoveStep DEF UpdateCancelFails, Goes, CloseLayer, StateTypes, Layers
<1>32. ASSUME NEW c \in Conns, ProxyWraps(c) PROVE [Abstract!Next]_AbsVars
  BY <1>32, MoveStep DEF ProxyWraps, Wrap, Goes, StateTypes, Layers
<1>33. ASSUME NEW c \in Conns, CallbackReturns(c) PROVE [Abstract!Next]_AbsVars
  BY <1>33, MoveStep DEF CallbackReturns, Wrap, Goes, StateTypes, Layers
<1>34. ASSUME NEW c \in Conns, WrapFails(c) PROVE [Abstract!Next]_AbsVars
  BY <1>34, MoveStep DEF WrapFails, CloseLayer, StateTypes, Layers
<1>35. ASSUME NEW c \in Conns, ProxyUpdated(c) PROVE [Abstract!Next]_AbsVars
  BY <1>35, MoveStep DEF ProxyUpdated, UpdateConnection, Goes, NextStage, StateTypes, Layers
<1>36. ASSUME NEW c \in Conns, CallbackUpdated(c) PROVE [Abstract!Next]_AbsVars
  BY <1>36, MoveStep DEF CallbackUpdated, UpdateConnection, Goes, NextStage, StateTypes, Layers
<1>37. ASSUME NEW c \in Conns, UpdateConnectionFails(c) PROVE [Abstract!Next]_AbsVars
  BY <1>37, MoveStep DEF UpdateConnectionFails, CloseLayer, StateTypes, Layers
<1>38. ASSUME NEW c \in Conns, HandshakeSucceeds(c) PROVE [Abstract!Next]_AbsVars
  BY <1>38, MoveStep DEF HandshakeSucceeds, Goes, StateTypes, Layers
<1>39. ASSUME NEW c \in Conns, HandshakeFails(c) PROVE [Abstract!Next]_AbsVars
  BY <1>39, MoveStep DEF HandshakeFails, Goes, CloseLayer, CancelCause, StateTypes, Layers
<1>40. ASSUME NEW c \in Conns, Reserve(c) PROVE [Abstract!Next]_AbsVars
  BY <1>40, MoveStep DEF Reserve, StateTypes, Layers
<1>41. ASSUME NEW c \in Conns, ReserveUndo(c) PROVE [Abstract!Next]_AbsVars
  BY <1>41, MoveStep DEF ReserveUndo, Goes, StateTypes, Layers
<1>42. ASSUME NEW c \in Conns, Rejected(c) PROVE [Abstract!Next]_AbsVars
  BY <1>42, MoveStep DEF Rejected, Goes, CloseLayer, CancelCause, StateTypes, Layers
<1>43. ASSUME NEW c \in Conns, Established(c) PROVE [Abstract!Next]_AbsVars
  BY <1>43, MoveStep DEF Established, ReleaseStartup, Goes, StateTypes, Layers
<1>44. ASSUME NEW c \in Conns, StopHandshakeTimer(c) PROVE [Abstract!Next]_AbsVars
  BY <1>44, MoveStep DEF StopHandshakeTimer, Goes, StopTimer, StateTypes, Layers
<1>45. ASSUME NEW c \in Conns, WorkerCloses(c) PROVE [Abstract!Next]_AbsVars
  BY <1>45, MoveStep DEF WorkerCloses, CloseLayer, CancelCause, StateTypes, Layers
<1>46. ASSUME NEW c \in Conns, LoopEnds(c) PROVE [Abstract!Next]_AbsVars
  BY <1>46, MoveStep DEF LoopEnds, Goes, StateTypes, Layers
<1>47. ASSUME NEW c \in Conns, EndConnection(c) PROVE [Abstract!Next]_AbsVars
  BY <1>47, MoveStep DEF EndConnection, Goes, CloseLayer, CancelCause, StateTypes, Layers
<1>48. ASSUME NEW c \in Conns, CloseResources(c) PROVE [Abstract!Next]_AbsVars
  BY <1>48, MoveStep DEF CloseResources, Goes, StateTypes, Layers
<1>49. ASSUME NEW c \in Conns, Untrack(c) PROVE [Abstract!Next]_AbsVars
  BY <1>49, MoveStep DEF Untrack, ReleaseStartup, Goes, StateTypes, Layers
<1>50. ASSUME NEW c \in Conns, Delete(c) PROVE [Abstract!Next]_AbsVars
  BY <1>50, MoveStep DEF Delete, Goes, maybeCloseDrained, StateTypes, Layers
<1>51. ASSUME NEW c \in Conns, WorkersDone(c) PROVE [Abstract!Next]_AbsVars
  BY <1>51, MoveStep DEF WorkersDone, Goes, StateTypes, Layers
<1>52. ASSUME NEW c \in Conns, DisconnectReturns(c) PROVE [Abstract!Next]_AbsVars
  BY <1>52, MoveStep DEF DisconnectReturns, Goes, StateTypes, Layers
<1>53. ASSUME NEW c \in Conns, ReleaseSlot(c) PROVE [Abstract!Next]_AbsVars
  BY <1>53, MoveStep DEF ReleaseSlot, Goes, StopTimer, StateTypes, Layers
<1>54. ASSUME NEW c \in Conns, UserCallbackReturns(c) PROVE [Abstract!Next]_AbsVars
  BY <1>54, MoveStep DEF UserCallbackReturns, Goes, StateTypes, Layers
<1>55. ASSUME NEW c \in Conns, Exit(c) PROVE [Abstract!Next]_AbsVars
  BY <1>55, MoveStep DEF Exit, Goes, StopTimer, CancelCause, StateTypes, Layers
<1>56. ASSUME NEW c \in Conns, HandshakeTimerChecks(c) PROVE [Abstract!Next]_AbsVars
  BY <1>56, StutterStep DEF HandshakeTimerChecks
<1>57. ASSUME NEW c \in Conns, HandshakeTimerCancels(c) PROVE [Abstract!Next]_AbsVars
  BY <1>57, StutterStep DEF HandshakeTimerCancels, CancelCause
<1>58. ASSUME NEW c \in Conns, MaxTimerCancels(c) PROVE [Abstract!Next]_AbsVars
  BY <1>58, StutterStep DEF MaxTimerCancels, CancelCause
<1> QED
  BY <1>0, <1>1, <1>2, <1>3, <1>4, <1>5, <1>6, <1>7, <1>8, <1>9, <1>10, <1>11, <1>11a,
     <1>12, <1>13, <1>14, <1>15, <1>16, <1>17, <1>18, <1>19, <1>20, <1>21, <1>22, <1>23,
     <1>24, <1>25, <1>26, <1>27, <1>28, <1>29, <1>30, <1>31, <1>32, <1>33, <1>34, <1>35,
     <1>36, <1>37, <1>38, <1>39, <1>40, <1>41, <1>42, <1>43, <1>44, <1>45, <1>46, <1>47,
     <1>48, <1>49, <1>50, <1>51, <1>52, <1>53, <1>54, <1>55, <1>56, <1>57, <1>58
  DEF Next, MainStep, WatchStep, HandlerStep, OutsideStep, TimerStep, Terminated, vars


--------------------------------------------------------------------------------
\* The inductive invariant of this module, on top of IndInv.
ReturnInv == Covered /\ ResourcesCovered /\ MainPath /\ ForcedBegun

\* It holds when Serve or HandleConn is called.
LEMMA ReturnInvInit == Init => ReturnInv
<1> SUFFICES ASSUME Init PROVE ReturnInv
  OBVIOUS
<1>1. \A c \in Conns : pc[c] = "idle" /\ (0 \in open[c] => c \in cur)
  BY DEF Init
<1>2. main = "prepare" /\ connections = {} /\ reserved = {}
  BY DEF Init
<1>3. Covered
  BY <1>1, <1>2 DEF Covered, ClosedPCs, GonePCs
<1>4. ResourcesCovered
  BY <1>1, <1>2 DEF ResourcesCovered, EarlyPCs
<1>5. MainPath
  <2>1. (entry = "Serve" => cur = {}) /\ \A c, d \in cur : c = d
    BY DEF Init
  <2>2. entry = "HandleConn" => ~listenerOpen
    BY DEF Init
  <2> QED
    BY <1>2, <2>1, <2>2 DEF MainPath
<1>6. ForcedBegun
  BY <1>2 DEF ForcedBegun, Cleaning
<1> QED
  BY <1>3, <1>4, <1>5, <1>6 DEF ReturnInv

\* Both invariants hold in every state of every behaviour.
THEOREM ReturnInvariance == Spec => [](IndInv /\ ReturnInv)
<1>1. IndInv /\ ReturnInv /\ [Next]_vars => ReturnInv'
  BY MainPathNext, CoveredNext, ResourcesNext, ForcedBegunNext DEF IndInv, ReturnInv
<1> QED
  BY <1>1, Invariance, ReturnInvInit, PTL DEF Spec

\* When Serve or HandleConn has returned, its listener, the network connection of
\* everything it admitted and the resources of what still unwinds are closed.
THEOREM ReturnsClean == Spec => []ReturnedClean
<1>1. IndInv /\ ReturnInv => ReturnedClean
  <2> SUFFICES ASSUME IndInv, ReturnInv, main = "returned" PROVE ReturnedClean
    BY DEF ReturnedClean
  <2>1. connections = {} /\ ~Cleaning /\ ~listenerOpen
    BY DEF ReturnInv, MainPath, Cleaning
  <2>2. \A c \in Conns : 0 \notin open[c]
    BY <2>1 DEF ReturnInv, Covered
  <2>3. reserved \subseteq resClosed
    BY <2>1 DEF IndInv, StateTypes, Slots, ReturnInv, ResourcesCovered, ServedPCs, EarlyPCs, HandlerPCs
  <2> QED
    BY <2>1, <2>2, <2>3 DEF ReturnedClean
<1> QED
  BY <1>1, ReturnInvariance, PTL

\* A handleConn goroutine that has ended has closed every layer of its transport, the one
\* ConnCallback returned while force was running included, and canceled its context.
THEOREM NothingLeftOpenHolds == Spec => []NothingLeftOpen
<1>1. Init => UnwindInv
  <2>1. Init => \A c \in Conns : Unwinds(c)
    BY DEF Init, Unwinds, ClosedPCs
  <2> QED
    BY <2>1 DEF UnwindInv
<1>2. IndInv /\ UnwindInv /\ [Next]_vars => UnwindInv'
  BY UnwindOthers, UnwindStarts, UnwindSteps DEF IndInv
<1>3. UnwindInv => NothingLeftOpen
  BY DEF UnwindInv, Unwinds, NothingLeftOpen, ClosedPCs, CanceledPCs
<1> QED
  BY <1>1, <1>2, <1>3, Invariance, PTL DEF Spec

\* Serve and HandleConn implement ServeAbstract.
THEOREM Refinement == Spec => ImplementsAbstract
<1>1. Init => Abstract!Init
  <2> SUFFICES ASSUME Init PROVE Abstract!Init
    OBVIOUS
  <2>1. AbsPhase = "open"
    BY DEF Init, AbsPhase
  <2>2. AbsStatus = [c \in Conns |-> "new"]
    BY DEF Init, AbsStatus
  <2> QED
    BY <2>1, <2>2 DEF Abstract!Init
<1>2. IndInv /\ ReturnInv /\ [Next]_vars => [Abstract!Next]_AbsVars
  BY RefinementNext DEF IndInv, ReturnInv
<1> QED
  BY <1>1, <1>2, ReturnInvariance, PTL DEF Spec, ImplementsAbstract, Abstract!Spec, AbsVars
================================================================================
