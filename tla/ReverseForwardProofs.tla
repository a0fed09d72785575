--------------------------- MODULE ReverseForwardProofs ---------------------------
(***************************************************************************)
(* Reverse forwarding for every number of forwards, keys and connections   *)
(* and for all limits: the entries of the handler's table, the counts of   *)
(* both limiters and of forward.pending, who closes a channel, which       *)
(* forward an open reaches, and what is left when the connection ends.     *)
(*                                                                         *)
(* The argument has three parts: the places of the request loop, of the    *)
(* workers and of the table; those of the connections and their openers;   *)
(* and the counts, on which it depends how long a forward keeps its key.   *)
(***************************************************************************)
EXTENDS ReverseForward, FiniteSetTheorems, TLAPS

--------------------------------------------------------------------------------
(* The steps by who makes them. *)

Shuts(f) == CloseStep(f) \/ WatcherCloses(f)
ConnSteps(c) == ConnRuns(c) \/ FailureCloses(c) \/ CopyEnds(c)
OpenerSteps(c) ==
  \/ OpenerStarts(c) \/ OpenSent(c) \/ OpenerAbandons(c)
  \/ \E answer \in Answers : OpenAnswered(c, answer)
EndSteps == ConnectionEnds \/ EndRuns \/ Terminated \/ UNCHANGED vars
WorkerSteps(f) == WorkerRuns(f) \/ AcceptRetried(f) \/ AcceptStops(f) \/ \E c \in Conns : Accept(f, c)
RequestSteps ==
  \/ \E f \in Forwards : RequestRefused(f) \/ ReserveForward(f)
  \/ Listen \/ ListenFails \/ RequestRuns
  \/ \E k \in Keys : CancelForward(k)

LEMMA StepKinds ==
  ASSUME [Next]_vars
  PROVE  \/ RequestSteps \/ EndSteps
         \/ \E f \in Forwards : Shuts(f) \/ WorkerSteps(f)
         \/ \E c \in Conns : ConnSteps(c) \/ OpenerSteps(c)
BY DEF Next, Shuts, ConnSteps, OpenerSteps, EndSteps, WorkerSteps, RequestSteps

\* Between its listener and its close, and after it.
Live == {"open", "closing", "signaled", "shut", "closed"}
Held == {"open", "closing", "signaled", "shut"}
Serving == {"begin", "accept", "reserve", "open", "start"}
Carrying == {"reserve", "open", "start"}

\* What the request loop knows of the forward its request is about.
SubjectInv ==
  /\ subject = None <=> req \in {"idle", "over"}
  /\ req = "listen" => stage[subject] = "new"
  /\ req \in {"listen", "register", "start", "reject"} => worker[subject] = "off"
  /\ req \in {"register", "start", "reject"} => stage[subject] \in Live
  /\ req \in {"register", "reject"} => table[KeyOf[subject]] # subject
  /\ req = "start" => table[KeyOf[subject]] = subject
  /\ req = "reply" => /\ worker[subject] # "off" /\ reply[subject] = "none"
                      /\ table[KeyOf[subject]] \in {subject, None}
  /\ req \in {"cancelClose", "cancelWait", "cancelReply"} => worker[subject] # "off"
  /\ req \in {"reject", "cancelClose", "cancelWait", "cancelReply"} => stage[subject] # "open"
  /\ req \in {"cancelWait", "cancelReply"} => stage[subject] = "closed"

\* What the place of its worker says about a forward.
WorkerOf(f) ==
  /\ worker[f] = "off" => reply[f] = "none"
  /\ worker[f] # "off" => stage[f] \in Live
  /\ worker[f] \in Serving => reply[f] = "accepted"
  /\ worker[f] = "wait" => stage[f] # "open"
  /\ worker[f] \in {"delete", "unregister", "ended"} => stage[f] = "closed"
  /\ worker[f] = "off" /\ stage[f] \in Held => subject = f /\ req \in {"register", "start", "reject"}
WorkerInv == \A f \in Forwards : WorkerOf(f)

\* An entry of the table has somebody who will remove it.
TableInv ==
  \A k \in Keys : table[k] # None =>
    /\ KeyOf[table[k]] = k
    /\ worker[table[k]] \notin {"off", "unregister", "ended"} \/ (req = "start" /\ subject = table[k])

--------------------------------------------------------------------------------
(* The stage of a forward. *)

StageType == stage \in [Forwards -> Stages]

\* A forward that is open or being closed goes on towards its close.
StageAdvances ==
  /\ StageType'
  /\ \A g \in Forwards : stage'[g] = stage[g] \/ (stage[g] \in Held /\ stage'[g] \in Live \ {"open"})

LEMMA CallCloseStage ==
  ASSUME StageType, NEW g, CallClose(g)
  PROVE  /\ StageAdvances /\ (g \in Forwards => stage'[g] # "open")
         /\ \A h \in Forwards : stage'[h] = stage[h] \/ (stage[h] = "open" /\ stage'[h] = "closing")
<1>1. CASE stage' = stage
  BY <1>1 DEF CallClose, StageAdvances, StageType
<1>2. CASE stage[g] = "open" /\ stage' = [stage EXCEPT ![g] = "closing"]
  BY <1>2 DEF StageAdvances, StageType, Stages, Live, Held
<1> QED
  BY <1>1, <1>2 DEF CallClose

LEMMA SameStage ==
  ASSUME StageType, stage' = stage
  PROVE  StageAdvances
BY DEF StageAdvances, StageType

LEMMA CloseStepStage ==
  ASSUME StageType, NEW f \in Forwards, CloseStep(f)
  PROVE  /\ StageAdvances /\ \A g \in Forwards : g # f => stage'[g] = stage[g]
         /\ stage[f] = "shut" => stage'[f] = "closed"
         /\ stage[f] # "shut" => stage[f] \in Held /\ stage'[f] \in {"signaled", "shut"}
<1>1. PICK x : x = CASE stage[f] = "closing" -> "signaled" [] stage[f] = "signaled" -> "shut" [] stage[f] = "shut" -> "closed"
  OBVIOUS
<1>2. stage' = [stage EXCEPT ![f] = x] /\ stage[f] \in {"closing", "signaled", "shut"}
  BY <1>1 DEF CloseStep
<1>3. /\ x \in {"signaled", "shut", "closed"} /\ (stage[f] = "shut" => x = "closed")
      /\ stage[f] # "shut" => x \in {"signaled", "shut"}
  BY <1>1, <1>2
<1> QED
  BY <1>2, <1>3 DEF StageAdvances, StageType, Stages, Live, Held

--------------------------------------------------------------------------------
(* Steps that leave the forwards where they are, but for their close. *)

ForwardsSame == UNCHANGED <<req, subject, reply, table, worker, current>> /\ StageAdvances

LEMMA ShutsSame ==
  ASSUME StageType, NEW f \in Forwards, Shuts(f)
  PROVE  ForwardsSame /\ UNCHANGED <<unix, ending, registered, channelSlots, pending, conn, of, sock, opening>>
<1>1. CASE CloseStep(f)
  BY <1>1, CloseStepStage DEF CloseStep, ForwardsSame, request
<1>2. CASE WatcherCloses(f)
  BY <1>2, CallCloseStage DEF WatcherCloses, ForwardsSame, request
<1> QED
  BY <1>1, <1>2 DEF Shuts

LEMMA ConnSame ==
  ASSUME StageType, NEW c \in Conns, ConnSteps(c)
  PROVE  ForwardsSame /\ UNCHANGED <<unix, ending, forwardSlots, of>>
<1> USE DEF ConnFrame, request
<1>1. ConnFrame
  BY DEF ConnSteps, ConnRuns, Attempt, AttemptIf, Opened, OpenRaced, Retry, Drains, OpenFailed, OpenStopped, OpenTimesOut,
     OpenTimesOutIn, OpenReturns, FailureTolerated, Escalated, CleansUp, ConnEnds, FailureCloses, CopyEnds, ConnMoves
<1>2. stage' = stage \/ CallClose(of[c])
  BY DEF ConnSteps, ConnRuns, Attempt, AttemptIf, Opened, OpenRaced, Retry, Drains, OpenFailed, OpenStopped, OpenTimesOut,
     OpenTimesOutIn, OpenReturns, FailureTolerated, Escalated, CleansUp, ConnEnds, FailureCloses, CopyEnds, ConnMoves
<1> QED
  BY <1>1, <1>2, SameStage, CallCloseStage DEF ForwardsSame

LEMMA OpenerSame ==
  ASSUME StageType, NEW c \in Conns, OpenerSteps(c)
  PROVE  /\ ForwardsSame /\ UNCHANGED stage
         /\ UNCHANGED <<unix, ending, forwardSlots, of, registered, channelSlots, sock, pending, conn, gaveUp>>
<1>1. OpenerFrame
  BY DEF OpenerSteps, OpenerStarts, OpenSent, OpenerAbandons, OpenerAbandonsLeaving, OpenAnswered
<1> QED
  BY <1>1, SameStage DEF OpenerFrame, ConnFrame, request, ForwardsSame

LEMMA EndSame ==
  ASSUME StageType, EndSteps
  PROVE  /\ ForwardsSame
         /\ UNCHANGED <<unix, table, current, forwardSlots, channelSlots, request, pending, worker, conn, of, opening>>
         /\ \A h \in Forwards : stage'[h] = stage[h] \/ (stage[h] = "open" /\ stage'[h] = "closing")
<1>1. CASE ConnectionEnds \/ CloseAll \/ CloseAllReturns \/ CloseWorkers \/ WorkersDone \/ \E c \in Conns : CloseAllConn(c)
  BY <1>1, SameStage DEF ConnectionEnds, CloseAll, CloseAllReturns, CloseWorkers, WorkersDone, CloseAllConn, EndMoves, EndFrame,
     ForwardsSame, request
<1>2. ASSUME NEW f \in Forwards, CloseAllCalls(f) PROVE ForwardsSame /\ EndFrame /\ \A h \in Forwards : stage'[h] = stage[h] \/ (stage[h] = "open" /\ stage'[h] = "closing")
  BY <1>2, CallCloseStage DEF CloseAllCalls, EndFrame, ForwardsSame, request
<1>3. CASE UNCHANGED vars
  BY <1>3, SameStage DEF vars, ForwardsSame, request
<1> QED
  BY <1>1, <1>2, <1>3 DEF EndSteps, EndRuns, Terminated, EndFrame

--------------------------------------------------------------------------------
(* The request loop, the workers and the table. *)

ForwardTypes ==
  /\ unix \in BOOLEAN
  /\ table \in [Keys -> Forwards \cup {None}] /\ current \in [Keys -> Forwards \cup {None}]
  /\ req \in Requests /\ subject \in Forwards \cup {None}
  /\ reply \in [Forwards -> {"none", "accepted", "failed"}]
  /\ StageType /\ worker \in [Forwards -> WorkerPlaces]

ForwardInv == ForwardTypes /\ SubjectInv /\ WorkerInv /\ TableInv

LEMMA SubjectIs ==
  ASSUME ForwardTypes, SubjectInv, req \notin {"idle", "over"}
  PROVE  subject \in Forwards /\ KeyOf[subject] \in Keys /\ subject # None
BY KeyOfAssumption DEF ForwardTypes, SubjectInv

LEMMA KeyIs ==
  ASSUME NEW f \in Forwards
  PROVE  KeyOf[f] \in Keys /\ f # None
BY KeyOfAssumption, NamesDiffer

LEMMA SameKeeps ==
  ASSUME ForwardInv, ForwardsSame, UNCHANGED unix
  PROVE  ForwardInv'
<1>1. ForwardTypes /\ SubjectInv /\ WorkerInv /\ TableInv
  BY DEF ForwardInv
<1>2. ForwardTypes'
  BY <1>1 DEF ForwardTypes, ForwardsSame, StageAdvances
<1>3. SubjectInv'
  <2>1. \A g \in Forwards : stage'[g] = stage[g] \/ (stage[g] \in Held /\ stage'[g] \in Live \ {"open"})
    BY DEF ForwardsSame, StageAdvances
  <2>2. CASE req \in {"idle", "over"}
    BY <1>1, <2>2 DEF SubjectInv, ForwardsSame
  <2>3. CASE req \notin {"idle", "over"}
    <3>1. subject \in Forwards
      BY <1>1, <2>3, SubjectIs
    <3> QED
      BY <1>1, <2>1, <3>1 DEF SubjectInv, ForwardsSame, Held, Live
  <2> QED
    BY <2>2, <2>3
<1>4. WorkerInv'
  BY <1>1 DEF WorkerInv, WorkerOf, ForwardsSame, StageAdvances, Held, Live
<1>5. TableInv'
  BY <1>1 DEF TableInv, ForwardsSame
<1> QED
  BY <1>2, <1>3, <1>4, <1>5 DEF ForwardInv

\* What a worker does to its forward: it moves, calls close, or removes its entry.
LEMMA WorkerKinds ==
  ASSUME NEW f \in Forwards, WorkerSteps(f)
  PROVE  /\ UNCHANGED <<unix, ending, req, subject, reply, current, forwardSlots, opening>>
         /\ \/ UNCHANGED <<stage, table>> /\
               \/ WorkerGoes(f, "response", "begin") /\ reply[f] = "accepted"
               \/ WorkerGoes(f, "response", "close")
               \/ \E from, to \in Serving : WorkerGoes(f, from, to)
               \/ \E from \in Serving : WorkerGoes(f, from, "close")
               \/ WorkerGoes(f, "wait", "delete") /\ stage[f] = "closed" /\ pending[f] = 0
               \/ WorkerGoes(f, "unregister", "ended")
            \/ WorkerGoes(f, "close", "wait") /\ CallClose(f) /\ UNCHANGED table
            \/ WorkerGoes(f, "delete", "unregister") /\ table' = DeleteFrom(f) /\ UNCHANGED stage
<1> USE DEF WorkerFrame, request
<1>1. CASE ResponseKnown(f) \/ ResponseCanceled(f) \/ WorkerWaited(f)
  BY <1>1 DEF ResponseKnown, ResponseCanceled, WorkerWaited, WorkerMoves, WorkerGoes
<1>2. CASE BeginAccept(f) \/ AcceptRetried(f) \/ AcceptStops(f)
  BY <1>2 DEF BeginAccept, AcceptRetried, AcceptStops, WorkerMoves, WorkerGoes, Serving
<1>3. CASE \E c \in Conns : Accept(f, c)
  BY <1>3 DEF Accept, Serving
<1>4. CASE ReserveChannel(f) \/ NoChannel(f) \/ BeginOpen(f) \/ NoOpen(f)
  BY <1>4 DEF ReserveChannel, NoChannel, BeginOpen, NoOpen, Drop, Serving
<1>5. CASE StartConn(f) \/ StartConnRefused(f)
  BY <1>5 DEF StartConn, StartConnRefused, Drop, Serving
<1>6. CASE WorkerCloses(f) \/ WorkerDeletes(f) \/ WorkerEnds(f)
  BY <1>6 DEF WorkerCloses, WorkerDeletes, WorkerDeletesFrom, WorkerEnds
<1> QED
  BY <1>1, <1>2, <1>3, <1>4, <1>5, <1>6 DEF WorkerSteps, WorkerRuns

\* Removing an entry of its own.
LEMMA DeleteEntry ==
  ASSUME ForwardTypes, TableInv, NEW f \in Forwards, table' = DeleteFrom(f)
  PROVE  /\ table' \in [Keys -> Forwards \cup {None}]
         /\ \A k \in Keys : table'[k] # f
         /\ \A k \in Keys : table'[k] = table[k] \/ (table[k] = f /\ table'[k] = None)
<1>1. KeyOf[f] \in Keys /\ f # None /\ table \in [Keys -> Forwards \cup {None}]
  BY KeyIs DEF ForwardTypes
<1>2. \A k \in Keys : table[k] = f => k = KeyOf[f]
  BY <1>1 DEF TableInv
<1>3. CASE table[KeyOf[f]] = f
  <2>1. table' = [table EXCEPT ![KeyOf[f]] = None]
    BY <1>3 DEF DeleteFrom
  <2> QED
    BY <1>1, <1>2, <1>3, <2>1
<1>4. CASE table[KeyOf[f]] # f
  BY <1>1, <1>2, <1>4 DEF DeleteFrom
<1> QED
  BY <1>3, <1>4

LEMMA WorkerKeeps ==
  ASSUME ForwardInv, NEW f \in Forwards, WorkerSteps(f)
  PROVE  ForwardInv'
<1>1. ForwardTypes /\ SubjectInv /\ WorkerInv /\ TableInv
  BY DEF ForwardInv
<1>2. UNCHANGED <<unix, req, subject, reply, current>>
  BY WorkerKinds
<1>3. PICK from, to \in WorkerPlaces : WorkerGoes(f, from, to)
  BY WorkerKinds DEF WorkerPlaces, Serving
<1>4. worker' \in [Forwards -> WorkerPlaces] /\ worker'[f] = to /\ worker[f] = from /\ \A g \in Forwards : g # f => worker'[g] = worker[g]
  BY <1>1, <1>3 DEF WorkerGoes, ForwardTypes
<1>5. \/ UNCHANGED <<stage, table>> /\
           \/ from = "response" /\ to = "begin" /\ reply[f] = "accepted"
           \/ from = "response" /\ to = "close"
           \/ from \in Serving /\ to \in Serving
           \/ from \in Serving /\ to = "close"
           \/ from = "wait" /\ to = "delete" /\ stage[f] = "closed"
           \/ from = "unregister" /\ to = "ended"
      \/ from = "close" /\ to = "wait" /\ CallClose(f) /\ UNCHANGED table
      \/ from = "delete" /\ to = "unregister" /\ table' = DeleteFrom(f) /\ UNCHANGED stage
  <2>1. \A p, q : WorkerGoes(f, p, q) => from = p /\ to = q
    BY <1>1, <1>3 DEF WorkerGoes, ForwardTypes
  <2> QED
    BY <2>1, WorkerKinds
<1>6. from # "off" /\ to # "off"
  BY <1>5 DEF Serving
<1>7. StageAdvances /\ (to = "wait" => stage'[f] # "open") /\ (to # "wait" => stage' = stage)
  BY <1>1, <1>5, CallCloseStage, SameStage DEF ForwardTypes, Serving
<1>8. /\ table' \in [Keys -> Forwards \cup {None}]
      /\ \A k \in Keys : table'[k] = table[k] \/ (table[k] = f /\ table'[k] = None)
      /\ to = "unregister" => \A k \in Keys : table'[k] # f
  BY <1>1, <1>5, DeleteEntry DEF ForwardTypes, Serving
<1>9. ForwardTypes'
  BY <1>1, <1>2, <1>4, <1>7, <1>8 DEF ForwardTypes, StageAdvances
<1>10. SubjectInv'
  <2>1. CASE req \in {"idle", "over"}
    BY <1>1, <1>2, <2>1 DEF SubjectInv
  <2>2. CASE req \notin {"idle", "over"}
    <3>1. subject \in Forwards /\ KeyOf[subject] \in Keys /\ subject # None
      BY <1>1, <2>2, SubjectIs
    <3>2. worker'[subject] = "off" <=> worker[subject] = "off"
      BY <1>4, <1>6, <3>1
    <3>3. stage'[subject] = stage[subject] \/ (stage[subject] \in Held /\ stage'[subject] \in Live \ {"open"})
      BY <1>7, <3>1 DEF StageAdvances
    <3>4. table'[KeyOf[subject]] = table[KeyOf[subject]] \/ (table[KeyOf[subject]] = f /\ table'[KeyOf[subject]] = None)
      BY <1>8, <3>1
    <3>5. req = "start" => f # subject
      BY <1>1, <1>4, <1>6 DEF SubjectInv
    <3> QED
      BY <1>1, <1>2, <3>1, <3>2, <3>3, <3>4, <3>5 DEF SubjectInv, Held, Live
  <2> QED
    BY <2>1, <2>2
<1>11. WorkerInv'
  <2> SUFFICES ASSUME NEW g \in Forwards PROVE WorkerOf(g)'
    BY DEF WorkerInv
  <2>1. stage'[g] = stage[g] \/ (stage[g] \in Held /\ stage'[g] \in Live \ {"open"})
    BY <1>7 DEF StageAdvances
  <2>2. CASE g # f
    BY <1>1, <1>2, <1>4, <2>1, <2>2 DEF WorkerInv, WorkerOf, Held, Live
  <2>3. CASE g = f
    BY <1>1, <1>2, <1>4, <1>5, <1>6, <1>7, <2>1, <2>3 DEF WorkerInv, WorkerOf, Held, Live, Serving
  <2> QED
    BY <2>2, <2>3
<1>12. TableInv'
  <2> SUFFICES ASSUME NEW k \in Keys, table'[k] # None
               PROVE  /\ KeyOf[table'[k]] = k
                      /\ \/ worker'[table'[k]] \notin {"off", "unregister", "ended"}
                         \/ (req = "start" /\ subject = table'[k])
    BY <1>2 DEF TableInv
  <2>1. table'[k] = table[k] /\ table[k] \in Forwards /\ KeyOf[table[k]] = k
    BY <1>1, <1>8 DEF TableInv, ForwardTypes
  <2>2. CASE table[k] # f
    BY <1>1, <1>4, <2>1, <2>2 DEF TableInv
  <2>3. CASE table[k] = f
    BY <1>1, <1>4, <1>5, <1>6, <1>8, <2>1, <2>3 DEF TableInv, Serving
  <2> QED
    BY <2>1, <2>2, <2>3
<1> QED
  BY <1>9, <1>10, <1>11, <1>12 DEF ForwardInv

\* A step of the request loop changes the forward its request is, or was, about.
LEMMA RequestKeeps ==
  ASSUME ForwardInv, NEW g \in Forwards, subject \in {g, None}, ForwardTypes', SubjectInv', WorkerOf(g)',
         \A h \in Forwards : h # g => stage'[h] = stage[h] /\ worker'[h] = worker[h] /\ reply'[h] = reply[h],
         \A k \in Keys : \/ table'[k] = table[k] /\ table[k] # g
                         \/ table'[k] = None
                         \/ /\ table'[k] = g /\ KeyOf[g] = k
                            /\ worker'[g] \notin {"off", "unregister", "ended"} \/ (req' = "start" /\ subject' = g)
  PROVE  ForwardInv'
<1>1. WorkerInv /\ TableInv /\ SubjectInv /\ ForwardTypes
  BY DEF ForwardInv
<1>2. ASSUME NEW h \in Forwards, h # g PROVE WorkerOf(h)'
  <2>1. worker'[h] = "off" => stage'[h] \notin Held
    BY <1>1, <1>2, NamesDiffer DEF WorkerInv, WorkerOf
  <2> QED
    BY <1>1, <1>2, <2>1 DEF WorkerInv, WorkerOf
<1>3. WorkerInv'
  BY <1>2 DEF WorkerInv
<1>4. TableInv'
  <2> SUFFICES ASSUME NEW k \in Keys, table'[k] # None
               PROVE  /\ KeyOf[table'[k]] = k
                      /\ \/ worker'[table'[k]] \notin {"off", "unregister", "ended"}
                         \/ (req' = "start" /\ subject' = table'[k])
    BY DEF TableInv
  <2>1. CASE table'[k] = g
    <3>1. KeyOf[g] = k /\ (worker'[g] \notin {"off", "unregister", "ended"} \/ (req' = "start" /\ subject' = g))
      BY <2>1, NamesDiffer
    <3> QED
      BY <2>1, <3>1
  <2>2. CASE table'[k] # g
    <3>1. table'[k] = table[k] /\ table[k] \in Forwards /\ table[k] # g
      BY <1>1, <2>2 DEF ForwardTypes
    <3>2. KeyOf[table[k]] = k /\ worker[table[k]] \notin {"off", "unregister", "ended"}
      BY <1>1, <3>1, NamesDiffer DEF TableInv
    <3> QED
      BY <3>1, <3>2
  <2> QED
    BY <2>1, <2>2
<1> QED
  BY <1>3, <1>4 DEF ForwardInv

\* It only goes on.
LEMMA RequestMoves ==
  ASSUME ForwardInv, UNCHANGED <<unix, table, stage, worker>>, ForwardTypes', SubjectInv',
         \A h \in Forwards : worker[h] = "off" \/ worker[h] \in Serving => reply'[h] = reply[h],
         req \in {"register", "start", "reject"} => stage[subject] = "closed",
         req # "start"
  PROVE  ForwardInv'
<1>1. WorkerInv /\ TableInv /\ ForwardTypes
  BY DEF ForwardInv
<1>2. ASSUME NEW h \in Forwards PROVE WorkerOf(h)'
  <2>1. worker[h] = "off" => stage[h] \notin Held
    BY <1>1 DEF WorkerInv, WorkerOf, Held
  <2> QED
    BY <1>1, <2>1 DEF WorkerInv, WorkerOf
<1>3. WorkerInv'
  BY <1>2 DEF WorkerInv
<1>4. TableInv'
  BY <1>1 DEF TableInv
<1> QED
  BY <1>3, <1>4 DEF ForwardInv

\* A forward request begins, or ends at once.
LEMMA BeginKeeps ==
  ASSUME ForwardInv, NEW f \in Forwards, RequestRefused(f) \/ ReserveForward(f)
  PROVE  ForwardInv'
<1>1. /\ ForwardTypes /\ SubjectInv /\ WorkerInv /\ TableInv /\ req = "idle" /\ subject = None /\ stage[f] = "new"
      /\ UNCHANGED <<unix, table, current, reply, worker>>
  BY DEF ForwardInv, SubjectInv, RequestRefused, ReserveForward, RequestGoes, TablesSame, RequestFrame
<1>2. worker[f] = "off" /\ KeyOf[f] \in Keys /\ f # None /\ \A k \in Keys : table[k] # f
  BY <1>1, KeyIs DEF WorkerInv, WorkerOf, Live, TableInv
<1>3. CASE RequestRefused(f)
  <2>1. /\ req' = "idle" /\ subject' = None /\ stage' = [stage EXCEPT ![f] = "refused"]
    BY <1>1, <1>3 DEF RequestRefused, Over
  <2>2. ForwardTypes'
    BY <1>1, <2>1 DEF ForwardTypes, StageType, Stages
  <2>3. SubjectInv'
    BY <2>1 DEF SubjectInv
  <2>4. stage'[f] = "refused" /\ \A h \in Forwards : h # f => stage'[h] = stage[h]
    BY <1>1, <2>1 DEF ForwardTypes, StageType
  <2>5. WorkerOf(f)'
    BY <1>1, <1>2, <2>4 DEF WorkerInv, WorkerOf, Held, Serving
  <2> QED
    BY <1>1, <1>2, <2>2, <2>3, <2>4, <2>5, RequestKeeps
<1>4. CASE ReserveForward(f)
  <2>1. /\ req' = "listen" /\ subject' = f /\ stage' = stage
    BY <1>4 DEF ReserveForward, RequestGoes
  <2>2. ForwardTypes'
    BY <1>1, <2>1 DEF ForwardTypes, StageType, Requests
  <2>3. SubjectInv'
    BY <1>1, <1>2, <2>1 DEF SubjectInv
  <2>4. WorkerOf(f)'
    BY <1>1, <1>2, <2>1 DEF WorkerInv, WorkerOf, Held, Serving
  <2> QED
    BY <1>1, <1>2, <2>1, <2>2, <2>3, <2>4, RequestKeeps
<1> QED
  BY <1>3, <1>4

LEMMA ListenKeeps ==
  ASSUME ForwardInv, Listen \/ ListenFails
  PROVE  ForwardInv'
<1>1. /\ ForwardTypes /\ SubjectInv /\ WorkerInv /\ TableInv /\ req = "listen"
      /\ UNCHANGED <<unix, table, current, reply, worker>>
  BY DEF ForwardInv, Listen, ListenFails, RequestGoes, TablesSame, RequestFrame
<1>2. PICK g \in Forwards : g = subject
  BY <1>1, SubjectIs
<1>3. /\ worker[g] = "off" /\ stage[g] = "new" /\ KeyOf[g] \in Keys /\ g # None
      /\ \A k \in Keys : table[k] # g
  BY <1>1, <1>2, KeyIs DEF SubjectInv, TableInv
<1>4. CASE ListenFails
  <2>1. req' = "idle" /\ subject' = None /\ stage' = [stage EXCEPT ![g] = "refused"]
    BY <1>2, <1>4 DEF ListenFails, RequestGoes, Over
  <2>2. ForwardTypes'
    BY <1>1, <2>1 DEF ForwardTypes, StageType, Stages, Requests
  <2>3. SubjectInv'
    BY <2>1 DEF SubjectInv
  <2>4. stage'[g] = "refused" /\ \A h \in Forwards : h # g => stage'[h] = stage[h]
    BY <1>1, <2>1 DEF ForwardTypes, StageType
  <2>5. WorkerOf(g)'
    BY <1>1, <1>3, <2>4 DEF WorkerInv, WorkerOf, Held, Serving
  <2> QED
    BY <1>1, <1>2, <1>3, <2>2, <2>3, <2>4, <2>5, RequestKeeps
<1>5. CASE Listen
  <2>1. PICK x \in {"open", "closing"} : stage' = [stage EXCEPT ![g] = x] /\ req' = "register" /\ subject' = g
    BY <1>2, <1>5 DEF Listen, RequestGoes
  <2>2. ForwardTypes'
    BY <1>1, <2>1 DEF ForwardTypes, StageType, Stages, Requests
  <2>3. stage'[g] = x /\ \A h \in Forwards : h # g => stage'[h] = stage[h]
    BY <1>1, <2>1 DEF ForwardTypes, StageType
  <2>4. SubjectInv'
    BY <1>1, <1>3, <2>1, <2>3 DEF SubjectInv, Live
  <2>5. WorkerOf(g)'
    BY <1>1, <1>3, <2>1, <2>3 DEF WorkerInv, WorkerOf, Held, Serving
  <2> QED
    BY <1>1, <1>2, <1>3, <2>1, <2>2, <2>3, <2>4, <2>5, RequestKeeps
<1> QED
  BY <1>4, <1>5

LEMMA RegisterKeeps ==
  ASSUME ForwardInv, RegisterForward \/ RegisterDuplicate
  PROVE  ForwardInv'
<1>1. /\ ForwardTypes /\ SubjectInv /\ WorkerInv /\ TableInv /\ req = "register"
      /\ UNCHANGED <<unix, current, reply, worker, subject>>
  BY DEF ForwardInv, RegisterForward, RegisterDuplicate, GivesUp, RequestGoes, ForwardSame, RequestFrame
<1>2. PICK g \in Forwards : g = subject
  BY <1>1, SubjectIs
<1>3. /\ worker[g] = "off" /\ stage[g] \in Live /\ KeyOf[g] \in Keys /\ g # None
      /\ \A k \in Keys : table[k] # g
  BY <1>1, <1>2, KeyIs DEF SubjectInv, TableInv
<1>4. CASE RegisterForward
  <2>1. req' = "start" /\ table' = [table EXCEPT ![KeyOf[g]] = g] /\ stage' = stage
    BY <1>2, <1>4 DEF RegisterForward, RequestGoes, ForwardSame
  <2>2. ForwardTypes'
    BY <1>1, <1>3, <2>1 DEF ForwardTypes, StageType, Requests
  <2>3. table'[KeyOf[g]] = g /\ \A k \in Keys : k # KeyOf[g] => table'[k] = table[k]
    BY <1>1, <1>3, <2>1 DEF ForwardTypes
  <2>4. SubjectInv'
    BY <1>1, <1>2, <1>3, <2>1, <2>3 DEF SubjectInv
  <2>5. WorkerOf(g)'
    BY <1>1, <1>2, <1>3, <2>1 DEF WorkerInv, WorkerOf
  <2>6. ASSUME NEW k \in Keys
        PROVE  \/ table'[k] = table[k] /\ table[k] # g
               \/ table'[k] = None
               \/ /\ table'[k] = g /\ KeyOf[g] = k
                  /\ worker'[g] \notin {"off", "unregister", "ended"} \/ (req' = "start" /\ subject' = g)
    BY <1>1, <1>2, <1>3, <2>1, <2>3
  <2> QED
    BY <1>1, <1>2, <2>1, <2>2, <2>4, <2>5, <2>6, RequestKeeps
<1>5. CASE RegisterDuplicate
  <2>1. req' = "reject" /\ table' = table /\ CallClose(g)
    BY <1>2, <1>5 DEF RegisterDuplicate, GivesUp, RequestGoes
  <2>2. StageAdvances /\ stage'[g] # "open" /\ stage'[g] \in Live /\ \A h \in Forwards : h # g => stage'[h] = stage[h]
    <3>1. StageAdvances /\ stage'[g] # "open"
      BY <1>1, <2>1, CallCloseStage DEF ForwardTypes
    <3>2. \A h \in Forwards : h # g => stage'[h] = stage[h]
      BY <1>1, <2>1 DEF CallClose, ForwardTypes, StageType
    <3> QED
      BY <1>3, <3>1, <3>2 DEF StageAdvances
  <2>3. ForwardTypes'
    BY <1>1, <2>1, <2>2 DEF ForwardTypes, StageAdvances, Requests
  <2>4. SubjectInv'
    BY <1>1, <1>2, <1>3, <2>1, <2>2 DEF SubjectInv
  <2>5. WorkerOf(g)'
    BY <1>1, <1>2, <1>3, <2>1, <2>2 DEF WorkerInv, WorkerOf, Serving
  <2> QED
    BY <1>1, <1>2, <1>3, <2>1, <2>2, <2>3, <2>4, <2>5, RequestKeeps
<1> QED
  BY <1>4, <1>5

LEMMA StartKeeps ==
  ASSUME ForwardInv, StartForward \/ StartRefused
  PROVE  ForwardInv'
<1>1. /\ ForwardTypes /\ SubjectInv /\ WorkerInv /\ TableInv /\ req = "start"
      /\ UNCHANGED <<unix, current, reply, subject>>
  BY DEF ForwardInv, StartForward, StartRefused, GivesUp, RequestGoes, TablesSame, RequestFrame
<1>2. PICK g \in Forwards : g = subject
  BY <1>1, SubjectIs
<1>3. /\ worker[g] = "off" /\ stage[g] \in Live /\ KeyOf[g] \in Keys /\ g # None
      /\ table[KeyOf[g]] = g /\ reply[g] = "none"
      /\ \A k \in Keys : k # KeyOf[g] => table[k] # g
  BY <1>1, <1>2, KeyIs DEF SubjectInv, TableInv, WorkerInv, WorkerOf
<1>4. CASE StartForward
  <2>1. req' = "reply" /\ worker' = [worker EXCEPT ![g] = "response"] /\ UNCHANGED <<table, stage>>
    BY <1>2, <1>4 DEF StartForward, RequestGoes, TablesSame
  <2>2. ForwardTypes'
    BY <1>1, <1>3, <2>1 DEF ForwardTypes, StageType, Requests, WorkerPlaces
  <2>3. worker'[g] = "response" /\ \A h \in Forwards : h # g => worker'[h] = worker[h]
    BY <1>1, <2>1 DEF ForwardTypes
  <2>4. SubjectInv'
    BY <1>1, <1>2, <1>3, <2>1, <2>3 DEF SubjectInv
  <2>5. WorkerOf(g)'
    BY <1>1, <1>2, <1>3, <2>1, <2>3 DEF WorkerOf, Serving
  <2>6. ASSUME NEW k \in Keys
        PROVE  \/ table'[k] = table[k] /\ table[k] # g
               \/ table'[k] = None
               \/ /\ table'[k] = g /\ KeyOf[g] = k
                  /\ worker'[g] \notin {"off", "unregister", "ended"} \/ (req' = "start" /\ subject' = g)
    BY <1>1, <1>2, <1>3, <2>1, <2>3
  <2> QED
    BY <1>1, <1>2, <2>1, <2>2, <2>3, <2>4, <2>5, <2>6, RequestKeeps
<1>5. CASE StartRefused
  <2>1. req' = "reject" /\ table' = DeleteFrom(g) /\ CallClose(g) /\ worker' = worker
    BY <1>2, <1>5 DEF StartRefused, GivesUp, RequestGoes
  <2>2. StageAdvances /\ stage'[g] # "open" /\ stage'[g] \in Live /\ \A h \in Forwards : h # g => stage'[h] = stage[h]
    <3>1. StageAdvances /\ stage'[g] # "open"
      BY <1>1, <2>1, CallCloseStage DEF ForwardTypes
    <3>2. \A h \in Forwards : h # g => stage'[h] = stage[h]
      BY <1>1, <2>1 DEF CallClose, ForwardTypes, StageType
    <3> QED
      BY <1>3, <3>1, <3>2 DEF StageAdvances
  <2>3. /\ table' \in [Keys -> Forwards \cup {None}]
        /\ \A k \in Keys : table'[k] # g
        /\ \A k \in Keys : table'[k] = table[k] \/ (table[k] = g /\ table'[k] = None)
    BY <1>1, <2>1, DeleteEntry
  <2>4. ForwardTypes'
    BY <1>1, <2>1, <2>2, <2>3 DEF ForwardTypes, StageAdvances, Requests
  <2>5. SubjectInv'
    BY <1>1, <1>2, <1>3, <2>1, <2>2, <2>3 DEF SubjectInv
  <2>6. WorkerOf(g)'
    BY <1>1, <1>2, <1>3, <2>1, <2>2 DEF WorkerOf, Serving
  <2>7. ASSUME NEW k \in Keys
        PROVE  (table'[k] = table[k] /\ table[k] # g) \/ table'[k] = None
    BY <2>3
  <2> QED
    BY <1>1, <1>2, <2>1, <2>2, <2>4, <2>5, <2>6, <2>7, RequestKeeps
<1> QED
  BY <1>4, <1>5

\* The response is sent: the worker of the forward has not looked at it yet.
LEMMA ReplyKeeps ==
  ASSUME ForwardInv, AcceptForward \/ ReplyFails
  PROVE  ForwardInv'
<1>1. /\ ForwardTypes /\ SubjectInv /\ WorkerInv /\ req = "reply"
      /\ UNCHANGED <<unix, table, stage, worker>> /\ subject' = None /\ req' \in {"idle", "over"}
  BY DEF ForwardInv, AcceptForward, ReplyFails, RequestGoes, TablesSame, ForwardSame, RequestFrame
<1>2. PICK g \in Forwards : g = subject
  BY <1>1, SubjectIs
<1>3. KeyOf[g] \in Keys /\ worker[g] # "off" /\ reply[g] = "none"
  BY <1>1, <1>2, KeyIs DEF SubjectInv
<1>4. PICK x \in {"accepted", "failed"} : reply' = [reply EXCEPT ![g] = x]
  BY <1>2 DEF AcceptForward, ReplyFails
<1>5. current' \in [Keys -> Forwards \cup {None}]
  BY <1>1, <1>2, <1>3 DEF AcceptForward, ReplyFails, TablesSame, ForwardTypes
<1>6. ForwardTypes'
  BY <1>1, <1>4, <1>5 DEF ForwardTypes, Requests, StageType
<1>7. SubjectInv'
  BY <1>1 DEF SubjectInv
<1>8. ASSUME NEW h \in Forwards, worker[h] = "off" \/ worker[h] \in Serving PROVE reply'[h] = reply[h]
  <2>1. h # g
    BY <1>1, <1>3, <1>8 DEF WorkerInv, WorkerOf, Serving
  <2> QED
    BY <1>1, <1>4, <2>1 DEF ForwardTypes
<1> QED
  BY <1>1, <1>6, <1>7, <1>8, RequestMoves

LEMMA CancelKeeps ==
  ASSUME ForwardInv, NEW k \in Keys, CancelForward(k)
  PROVE  ForwardInv' /\ subject' \in Forwards
<1>1. /\ ForwardTypes /\ SubjectInv /\ WorkerInv /\ TableInv /\ req = "idle" /\ subject = None
      /\ UNCHANGED <<unix, table, current, reply, worker>>
  BY DEF ForwardInv, SubjectInv, CancelForward, RequestGoes, TablesSame, RequestFrame
<1>2. PICK g \in Forwards : g = table[k]
  BY <1>1 DEF CancelForward, ForwardTypes
<1>3. worker[g] \notin {"off", "unregister", "ended"} /\ stage[g] \in Live /\ KeyOf[g] = k /\ g # None
  <2>1. KeyOf[g] = k /\ worker[g] \notin {"off", "unregister", "ended"}
    BY <1>1, <1>2, KeyIs DEF TableInv
  <2> QED
    BY <1>1, <2>1, KeyIs DEF WorkerInv, WorkerOf
<1>4. req' = "cancelClose" /\ subject' = g /\ CallClose(g)
  BY <1>2 DEF CancelForward, RequestGoes
<1>5. StageAdvances /\ stage'[g] # "open" /\ stage'[g] \in Live /\ \A h \in Forwards : h # g => stage'[h] = stage[h]
  <2>1. StageAdvances /\ stage'[g] # "open"
    BY <1>1, <1>4, CallCloseStage DEF ForwardTypes
  <2>2. \A h \in Forwards : h # g => stage'[h] = stage[h]
    BY <1>1, <1>4 DEF CallClose, ForwardTypes, StageType
  <2> QED
    BY <1>3, <2>1, <2>2 DEF StageAdvances
<1>6. ForwardTypes'
  BY <1>1, <1>4, <1>5 DEF ForwardTypes, StageAdvances, Requests
<1>7. SubjectInv'
  BY <1>1, <1>3, <1>4, <1>5 DEF SubjectInv
<1>8. WorkerOf(g)'
  <2>1. stage'[g] = stage[g] \/ stage[g] \in Held
    BY <1>5 DEF StageAdvances
  <2> QED
    BY <1>1, <1>3, <1>5, <2>1 DEF WorkerInv, WorkerOf, Held
<1>9. ASSUME NEW i \in Keys
      PROVE  \/ table'[i] = table[i] /\ table[i] # g
             \/ /\ table'[i] = g /\ KeyOf[g] = i
                /\ worker'[g] \notin {"off", "unregister", "ended"} \/ (req' = "start" /\ subject' = g)
  BY <1>1, <1>3 DEF TableInv
<1> QED
  BY <1>1, <1>4, <1>5, <1>6, <1>7, <1>8, <1>9, RequestKeeps

LEMMA GoesOnKeeps ==
  ASSUME ForwardInv, RejectClosed \/ CancelClosed \/ CancelReplied \/ RequestLoopEnds
  PROVE  ForwardInv'
<1>1. /\ ForwardTypes /\ SubjectInv /\ UNCHANGED <<unix, table, stage, worker, reply>>
      /\ req \in {"reject", "cancelClose", "cancelReply", "idle"} /\ (req = "reject" => stage[subject] = "closed")
  BY DEF ForwardInv, RejectClosed, CancelClosed, CancelReplied, RequestLoopEnds, RequestGoes, TablesSame, ForwardSame, RequestFrame
<1>2. current' \in [Keys -> Forwards \cup {None}]
  BY <1>1 DEF RejectClosed, CancelClosed, CancelReplied, RequestLoopEnds, TablesSame, ForwardTypes
<1>3. req' \in Requests /\ subject' \in {subject, None}
  BY <1>1 DEF RejectClosed, CancelClosed, CancelReplied, RequestLoopEnds, RequestGoes, Requests
<1>4. ForwardTypes'
  BY <1>1, <1>2, <1>3 DEF ForwardTypes, StageType
<1>5. SubjectInv'
  <2>1. CASE CancelClosed
    BY <1>1, <2>1 DEF CancelClosed, RequestGoes, SubjectInv
  <2>2. CASE RejectClosed \/ CancelReplied \/ RequestLoopEnds
    BY <1>1, <2>2 DEF RejectClosed, CancelReplied, RequestLoopEnds, RequestGoes, SubjectInv
  <2> QED
    BY <2>1, <2>2
<1> QED
  BY <1>1, <1>4, <1>5, RequestMoves

LEMMA CancelDeletesKeeps ==
  ASSUME ForwardInv, CancelDeletes
  PROVE  ForwardInv'
<1>1. /\ ForwardTypes /\ SubjectInv /\ WorkerInv /\ TableInv /\ req = "cancelWait" /\ req' = "cancelReply"
      /\ UNCHANGED <<unix, current, reply, worker, subject, stage>> /\ table' = DeleteFrom(subject)
  BY DEF ForwardInv, CancelDeletes, CancelDeletesWhen, RequestGoes, ForwardSame, RequestFrame
<1>2. PICK g \in Forwards : g = subject
  BY <1>1, SubjectIs
<1>3. /\ table' \in [Keys -> Forwards \cup {None}]
      /\ \A k \in Keys : table'[k] # g
      /\ \A k \in Keys : table'[k] = table[k] \/ (table[k] = g /\ table'[k] = None)
  BY <1>1, <1>2, DeleteEntry
<1>4. ForwardTypes'
  BY <1>1, <1>3 DEF ForwardTypes, Requests, StageType
<1>5. SubjectInv'
  BY <1>1 DEF SubjectInv
<1>6. WorkerOf(g)'
  BY <1>1, <1>2 DEF WorkerInv, WorkerOf, SubjectInv
<1>7. ASSUME NEW k \in Keys
      PROVE  (table'[k] = table[k] /\ table[k] # g) \/ table'[k] = None
  BY <1>3
<1> QED
  BY <1>1, <1>2, <1>4, <1>5, <1>6, <1>7, RequestKeeps

LEMMA ForwardStep ==
  ASSUME ForwardInv, [Next]_vars
  PROVE  ForwardInv'
<1>0. StageType
  BY DEF ForwardInv, ForwardTypes
<1>1. CASE RequestSteps
  BY <1>1, BeginKeeps, ListenKeeps, RegisterKeeps, StartKeeps, ReplyKeeps, CancelKeeps, GoesOnKeeps, CancelDeletesKeeps
     DEF RequestSteps, RequestRuns
<1>2. CASE EndSteps
  BY <1>0, <1>2, EndSame, SameKeeps
<1>3. ASSUME NEW f \in Forwards, Shuts(f) PROVE ForwardInv'
  BY <1>0, <1>3, ShutsSame, SameKeeps
<1>4. ASSUME NEW f \in Forwards, WorkerSteps(f) PROVE ForwardInv'
  BY <1>4, WorkerKeeps
<1>5. ASSUME NEW c \in Conns, ConnSteps(c) \/ OpenerSteps(c) PROVE ForwardInv'
  BY <1>0, <1>5, ConnSame, OpenerSame, SameKeeps
<1> QED
  BY <1>1, <1>2, <1>3, <1>4, <1>5, StepKinds

\* Where the request loop and the workers stand says what stage a forward is at, whether
\* the client was told of it and whether the table of the handler has it.
THEOREM ForwardInvHolds == Spec => []ForwardInv
<1>1. Init => ForwardInv
  BY DEF Init, ForwardInv, ForwardTypes, StageType, SubjectInv, WorkerInv, WorkerOf, TableInv, Requests, Stages, WorkerPlaces,
     Serving, Held
<1>2. ForwardInv /\ [Next]_vars => ForwardInv'
  BY ForwardStep
<1> QED
  BY <1>1, <1>2, PTL DEF Spec

--------------------------------------------------------------------------------
(* The connections that come in, their openers and channels. *)

ConnTypes ==
  /\ end \in Ends /\ registered \subseteq Forwards \cup Conns /\ toClose \subseteq Forwards \cup Conns
  /\ conn \in [Conns -> ConnPlaces] /\ of \in [Conns -> Forwards \cup {None}] /\ sock \in [Conns -> BOOLEAN]

\* A connection belongs to a granted forward, whose worker has it in hand or has
\* passed it on.
ConnPlace(c) ==
  /\ conn[c] = "new" <=> of[c] = None
  /\ conn[c] = "hand" => worker[of[c]] \in Carrying
  /\ conn[c] \in {"new", "gone"} => ~sock[c]
  /\ of[c] # None => reply[of[c]] = "accepted"
ConnInv ==
  /\ \A c \in Conns : ConnPlace(c)
  /\ \A f \in Forwards : worker[f] \in Carrying => \E c \in Conns : of[c] = f /\ conn[c] = "hand"
  /\ \A c, d \in Conns : conn[c] = "hand" /\ conn[d] = "hand" /\ of[c] = of[d] => c = d

\* Once the workers are done, none begins.
DoneInv ==
  end = "done" =>
    /\ req = "over" /\ \A f \in Forwards : worker[f] \in {"off", "ended"}
    /\ \A c \in Conns : conn[c] \in {"new", "gone"}

LEMMA HandIs ==
  ASSUME ConnInv, NEW f \in Forwards, worker[f] \in Carrying
  PROVE  /\ Hand(f) \in Conns /\ of[Hand(f)] = f /\ conn[Hand(f)] = "hand"
         /\ \A c \in Conns : conn[c] = "hand" /\ of[c] = f => c = Hand(f)
<1>1. \E c \in Conns : of[c] = f /\ conn[c] = "hand"
  BY DEF ConnInv
<1>2. Hand(f) \in Conns /\ of[Hand(f)] = f /\ conn[Hand(f)] = "hand"
  BY <1>1, Zenon DEF Hand
<1> QED
  BY <1>2 DEF ConnInv

\* A step that leaves the connections where they are; their sockets may be closed.
LEMMA ConnFrameKeeps ==
  ASSUME ConnTypes, ConnInv, UNCHANGED <<conn, of>>, \A c \in Conns : sock'[c] => sock[c],
         \A f \in Forwards : worker'[f] \in Carrying <=> worker[f] \in Carrying,
         \A f \in Forwards : reply[f] = "accepted" => reply'[f] = "accepted"
  PROVE  ConnInv'
<1>1. ASSUME NEW c \in Conns PROVE ConnPlace(c)'
  <2>1. ConnPlace(c) /\ of[c] \in Forwards \cup {None}
    BY DEF ConnInv, ConnTypes
  <2>2. conn[c] = "hand" => of[c] \in Forwards
    BY <2>1 DEF ConnPlace
  <2> QED
    BY <2>1, <2>2, <1>1 DEF ConnPlace
<1> QED
  BY <1>1 DEF ConnInv

\* The worker of a connection goes on.
LEMMA ConnMovesKeeps ==
  ASSUME ConnTypes, ConnInv, NEW c \in Conns, NEW p \in ConnPlaces \ {"new", "hand"},
         conn[c] \notin {"new", "hand"}, conn' = [conn EXCEPT ![c] = p],
         UNCHANGED <<of, worker, reply>>, \A d \in Conns : sock'[d] => sock[d], p = "gone" => ~sock'[c]
  PROVE  ConnInv'
<1>1. conn'[c] = p /\ \A d \in Conns : d # c => conn'[d] = conn[d]
  BY DEF ConnTypes
<1>2. ASSUME NEW d \in Conns PROVE ConnPlace(d)'
  <2>1. ConnPlace(d)
    BY DEF ConnInv
  <2>2. CASE d = c
    BY <1>1, <2>1, <2>2 DEF ConnPlace
  <2>3. CASE d # c
    BY <1>1, <1>2, <2>1, <2>3 DEF ConnPlace
  <2> QED
    BY <2>2, <2>3
<1>3. \A d \in Conns : conn'[d] = "hand" <=> conn[d] = "hand"
  BY <1>1
<1> QED
  BY <1>2, <1>3 DEF ConnInv

\* What the steps of a connection's worker do to its place and its socket.
LEMMA ConnStepPlace ==
  ASSUME ConnTypes, NEW c \in Conns, ConnSteps(c)
  PROVE  /\ conn[c] \notin {"new", "hand", "gone"}
         /\ \E p \in ConnPlaces \ {"new", "hand"} : conn' = [conn EXCEPT ![c] = p] /\ (p = "gone" => ~sock'[c])
         /\ sock' \in [Conns -> BOOLEAN] /\ \A d \in Conns : sock'[d] => sock[d]
         /\ registered' \subseteq registered
<1>1. CASE Attempt(c) \/ Opened(c) \/ OpenRaced(c) \/ Retry(c) \/ Drains(c) \/ OpenFailed(c)
  BY <1>1 DEF Attempt, AttemptIf, Opened, OpenRaced, Retry, Drains, OpenFailed, OpenReturns, ConnMoves, ConnGoes, StillHeld, Selects, ConnPlaces, ConnTypes
<1>2. CASE OpenStopped(c) \/ OpenTimesOut(c) \/ FailureTolerated(c) \/ Escalated(c) \/ FailureCloses(c) \/ CopyEnds(c)
  BY <1>2 DEF OpenStopped, OpenTimesOut, OpenTimesOutIn, FailureTolerated, Escalated, FailureCloses, CopyEnds, OpenReturns, ConnMoves, ConnGoes, StillHeld, Selects, ConnPlaces, ConnTypes
<1>3. CASE CleansUp(c)
  <2>1. PICK b \in BOOLEAN : b <=> sock[c] /\ ~unix
    BY Zenon
  <2>2. (sock[c] /\ ~unix) = b
    BY <2>1, Zenon
  <2>3. sock' = [sock EXCEPT ![c] = b]
    BY <1>3, <2>2 DEF CleansUp
  <2>4. sock' \in [Conns -> BOOLEAN] /\ \A d \in Conns : sock'[d] => sock[d]
    BY <2>1, <2>3 DEF ConnTypes
  <2>5. conn[c] = "cleanup" /\ conn' = [conn EXCEPT ![c] = "half"] /\ registered' = registered
    BY <1>3 DEF CleansUp, ConnGoes
  <2>6. \E p \in ConnPlaces \ {"new", "hand"} : conn' = [conn EXCEPT ![c] = p] /\ (p = "gone" => ~sock'[c])
    <3>1. "half" \in ConnPlaces \ {"new", "hand"} /\ "half" # "gone"
      BY DEF ConnPlaces
    <3> QED
      BY <2>5, <3>1, Zenon
  <2> QED
    BY <2>4, <2>5, <2>6
<1>4. CASE ConnEnds(c)
  BY <1>4 DEF ConnEnds, ConnGoes, ConnPlaces, ConnTypes
<1> QED
  BY <1>1, <1>2, <1>3, <1>4 DEF ConnSteps, ConnRuns

\* The steps of the request loop do not touch a worker that runs, nor take back a
\* forward.
LEMMA RequestWorkers ==
  ASSUME ForwardInv, RequestSteps
  PROVE  /\ UNCHANGED <<ending, unix, channelSlots, pending, conn, of, sock, opening>>
         /\ \A f \in Forwards : worker'[f] = worker[f] \/ (worker[f] = "off" /\ worker'[f] = "response" /\ req' = "reply" /\ ~WorkersClosed)
         /\ \A f \in Forwards : reply'[f] = reply[f] \/ reply[f] = "none"
         /\ req # "over"
<1>1. RequestFrame /\ req # "over"
  BY DEF RequestSteps, RequestRuns, RequestRefused, ReserveForward, Listen, ListenFails, RegisterForward, RegisterDuplicate, GivesUp,
     StartForward, StartRefused, RejectClosed, AcceptForward, ReplyFails, CancelForward, CancelClosed, CancelDeletes,
     CancelDeletesWhen, CancelReplied, RequestLoopEnds, RequestGoes
<1>2. UNCHANGED worker \/ StartForward
  BY DEF RequestSteps, RequestRuns, RequestRefused, ReserveForward, Listen, ListenFails, RegisterForward, RegisterDuplicate, GivesUp,
     StartRefused, RejectClosed, AcceptForward, ReplyFails, CancelForward, CancelClosed, CancelDeletes,
     CancelDeletesWhen, CancelReplied, RequestLoopEnds, ForwardSame
<1>3. UNCHANGED reply \/ AcceptForward \/ ReplyFails
  BY DEF RequestSteps, RequestRuns, RequestRefused, ReserveForward, Listen, ListenFails, RegisterForward, RegisterDuplicate, GivesUp,
     StartForward, StartRefused, RejectClosed, CancelForward, CancelClosed, CancelDeletes,
     CancelDeletesWhen, CancelReplied, RequestLoopEnds
<1>4. \A f \in Forwards : worker'[f] = worker[f] \/ (worker[f] = "off" /\ worker'[f] = "response" /\ req' = "reply" /\ ~WorkersClosed)
  <2>1. CASE StartForward
    <3>1. req = "start" /\ worker' = [worker EXCEPT ![subject] = "response"] /\ req' = "reply" /\ ~WorkersClosed
      BY <2>1 DEF StartForward, RequestGoes
    <3>2. worker[subject] = "off" /\ worker \in [Forwards -> WorkerPlaces]
      BY <3>1 DEF ForwardInv, SubjectInv, ForwardTypes
    <3> QED
      BY <3>1, <3>2
  <2> QED
    BY <1>2, <2>1
<1>5. \A f \in Forwards : reply'[f] = reply[f] \/ reply[f] = "none"
  <2>1. CASE AcceptForward \/ ReplyFails
    <3>1. PICK x : req = "reply" /\ reply' = [reply EXCEPT ![subject] = x]
      BY <2>1 DEF AcceptForward, ReplyFails, RequestGoes
    <3>2. reply[subject] = "none" /\ reply \in [Forwards -> {"none", "accepted", "failed"}]
      BY <3>1 DEF ForwardInv, SubjectInv, ForwardTypes
    <3> QED
      BY <3>1, <3>2
  <2> QED
    BY <1>3, <2>1
<1> QED
  BY <1>1, <1>4, <1>5 DEF RequestFrame

\* Accept: the worker has a new connection in hand.
LEMMA AcceptKeeps ==
  ASSUME ForwardInv, ConnTypes, ConnInv, NEW f \in Forwards, NEW c \in Conns, Accept(f, c)
  PROVE  ConnTypes' /\ ConnInv'
<1>1. /\ conn[c] = "new" /\ worker[f] = "accept" /\ worker' = [worker EXCEPT ![f] = "reserve"]
      /\ of' = [of EXCEPT ![c] = f] /\ conn' = [conn EXCEPT ![c] = "hand"] /\ UNCHANGED <<ending, reply>>
  BY DEF Accept, WorkerGoes, WorkerFrame, request
<1>2. PICK b \in BOOLEAN : sock' = [sock EXCEPT ![c] = b]
  <2>1. (~ResourcesClosed) \in BOOLEAN
    BY Zenon
  <2> QED
    BY <2>1 DEF Accept
<1>3. registered' = registered \/ registered' = registered \cup {c}
  BY DEF Accept
<1>4. /\ worker \in [Forwards -> WorkerPlaces] /\ conn \in [Conns -> ConnPlaces]
      /\ of \in [Conns -> Forwards \cup {None}] /\ sock \in [Conns -> BOOLEAN]
  BY DEF ForwardInv, ForwardTypes, ConnTypes
<1>5. /\ conn'[c] = "hand" /\ of'[c] = f /\ worker'[f] = "reserve"
      /\ \A d \in Conns : d # c => conn'[d] = conn[d] /\ of'[d] = of[d] /\ sock'[d] = sock[d]
      /\ \A g \in Forwards : g # f => worker'[g] = worker[g]
  BY <1>1, <1>2, <1>4
<1>6. ConnTypes'
  BY <1>1, <1>2, <1>3, <1>4 DEF ConnTypes, ending, ConnPlaces
<1>7. reply[f] = "accepted" /\ f # None
  BY <1>1, KeyIs DEF ForwardInv, WorkerInv, WorkerOf, Serving
<1>8. \A d \in Conns : conn[d] = "hand" => of[d] # f /\ of[d] \in Forwards
  BY <1>1, <1>4 DEF ConnInv, ConnPlace, Carrying
<1>9. ASSUME NEW d \in Conns PROVE ConnPlace(d)'
  <2>1. ConnPlace(d)
    BY DEF ConnInv
  <2>2. CASE d = c
    BY <1>1, <1>5, <1>7, <2>2 DEF ConnPlace, Carrying
  <2>3. CASE d # c
    BY <1>1, <1>5, <1>8, <2>1, <2>3 DEF ConnPlace
  <2> QED
    BY <2>2, <2>3
<1>10. ASSUME NEW g \in Forwards, worker'[g] \in Carrying
       PROVE  \E d \in Conns : of'[d] = g /\ conn'[d] = "hand"
  <2>1. CASE g = f
    BY <1>5, <2>1
  <2>2. CASE g # f
    <3>1. PICK d \in Conns : of[d] = g /\ conn[d] = "hand"
      BY <1>5, <1>10, <2>2 DEF ConnInv
    <3> QED
      BY <1>1, <1>5, <3>1
  <2> QED
    BY <2>1, <2>2
<1>11. \A d, e \in Conns : conn'[d] = "hand" /\ conn'[e] = "hand" /\ of'[d] = of'[e] => d = e
  BY <1>5, <1>8 DEF ConnInv
<1> QED
  BY <1>6, <1>9, <1>10, <1>11 DEF ConnInv

\* The worker passes the connection in its hand on, or drops it.
LEMMA PassesKeeps ==
  ASSUME ForwardInv, ConnTypes, ConnInv, NEW f \in Forwards, NEW to \in WorkerPlaces \ Carrying,
         worker[f] \in Carrying, worker' = [worker EXCEPT ![f] = to],
         UNCHANGED <<of, ending, reply>>,
         \/ conn' = [conn EXCEPT ![Hand(f)] = "attempt"] /\ UNCHANGED <<sock, registered>>
         \/ Drop(Hand(f))
  PROVE  ConnTypes' /\ ConnInv'
<1>1. PICK c \in Conns : /\ c = Hand(f) /\ of[c] = f /\ conn[c] = "hand"
                         /\ \A d \in Conns : conn[d] = "hand" /\ of[d] = f => d = c
  BY HandIs
<1>2. PICK p \in {"attempt", "gone"} : conn' = [conn EXCEPT ![c] = p]
  BY <1>1 DEF Drop
<1>3. sock' = sock \/ sock' = [sock EXCEPT ![c] = FALSE]
  BY <1>1 DEF Drop
<1>4. p = "gone" => ~sock'[c]
  <2>1. CASE Drop(Hand(f))
    BY <1>1, <2>1 DEF Drop, ConnTypes
  <2>2. CASE conn' = [conn EXCEPT ![Hand(f)] = "attempt"]
    BY <1>1, <1>2, <2>2 DEF ConnTypes
  <2> QED
    BY <2>1, <2>2
<1>5. registered' \subseteq registered
  BY DEF Drop
<1>6. /\ worker \in [Forwards -> WorkerPlaces] /\ conn \in [Conns -> ConnPlaces]
      /\ of \in [Conns -> Forwards \cup {None}] /\ sock \in [Conns -> BOOLEAN]
  BY DEF ForwardInv, ForwardTypes, ConnTypes
<1>7. /\ conn'[c] = p /\ (\A d \in Conns : d # c => conn'[d] = conn[d]) /\ (\A d \in Conns : sock'[d] => sock[d])
      /\ worker'[f] = to /\ \A g \in Forwards : g # f => worker'[g] = worker[g]
  BY <1>2, <1>3, <1>6
<1>8. ConnTypes'
  BY <1>2, <1>3, <1>5, <1>6 DEF ConnTypes, ending, ConnPlaces
<1>9. ASSUME NEW d \in Conns PROVE ConnPlace(d)'
  <2>1. ConnPlace(d)
    BY DEF ConnInv
  <2>2. CASE d = c
    BY <1>1, <1>4, <1>7, <2>1, <2>2 DEF ConnPlace
  <2>3. CASE d # c
    <3>1. conn[d] = "hand" => of[d] # f /\ of[d] \in Forwards
      BY <1>1, <1>6, <2>1, <2>3 DEF ConnPlace
    <3> QED
      BY <1>7, <2>1, <2>3, <3>1 DEF ConnPlace
  <2> QED
    BY <2>2, <2>3
<1>10. ASSUME NEW g \in Forwards, worker'[g] \in Carrying
       PROVE  \E d \in Conns : of'[d] = g /\ conn'[d] = "hand"
  <2>1. g # f /\ worker[g] \in Carrying
    BY <1>7, <1>10
  <2>2. PICK d \in Conns : of[d] = g /\ conn[d] = "hand"
    BY <2>1 DEF ConnInv
  <2> QED
    BY <1>1, <1>7, <2>1, <2>2
<1>11. \A d, e \in Conns : conn'[d] = "hand" /\ conn'[e] = "hand" /\ of'[d] = of'[e] => d = e
  BY <1>2, <1>7 DEF ConnInv
<1> QED
  BY <1>8, <1>9, <1>10, <1>11 DEF ConnInv

LEMMA WorkerConnKeeps ==
  ASSUME ForwardInv, ConnTypes, ConnInv, NEW f \in Forwards, WorkerSteps(f)
  PROVE  ConnTypes' /\ ConnInv'
<1>0. UNCHANGED <<unix, ending, reply>> /\ worker \in [Forwards -> WorkerPlaces]
  BY WorkerKinds DEF ForwardInv, ForwardTypes
<1>1. CASE \E c \in Conns : Accept(f, c)
  BY <1>1, AcceptKeeps
<1>2. CASE NoChannel(f) \/ NoOpen(f) \/ StartConn(f) \/ StartConnRefused(f)
  <2>1. PICK to \in {"begin", "close"} : worker[f] \in Carrying /\ worker' = [worker EXCEPT ![f] = to]
    BY <1>2 DEF NoChannel, NoOpen, StartConn, StartConnRefused, WorkerGoes, Carrying
  <2>2. to \in WorkerPlaces \ Carrying
    BY DEF WorkerPlaces, Carrying
  <2>3. UNCHANGED of
    BY <1>2 DEF NoChannel, NoOpen, StartConn, StartConnRefused, Drop
  <2>4. \/ conn' = [conn EXCEPT ![Hand(f)] = "attempt"] /\ UNCHANGED <<sock, registered>>
        \/ Drop(Hand(f))
    BY <1>2 DEF NoChannel, NoOpen, StartConn, StartConnRefused
  <2> QED
    BY <1>0, <2>1, <2>2, <2>3, <2>4, PassesKeeps
<1>3. CASE \/ ResponseKnown(f) \/ ResponseCanceled(f) \/ BeginAccept(f) \/ AcceptRetried(f) \/ AcceptStops(f)
           \/ ReserveChannel(f) \/ BeginOpen(f)
           \/ WorkerCloses(f) \/ WorkerWaited(f) \/ WorkerDeletes(f) \/ WorkerEnds(f)
  <2>1. UNCHANGED <<conn, of, sock>> /\ registered' \subseteq registered
    BY <1>3 DEF ResponseKnown, ResponseCanceled, BeginAccept, AcceptRetried, AcceptStops, ReserveChannel, BeginOpen,
       WorkerCloses, WorkerWaited, WorkerDeletes, WorkerDeletesFrom, WorkerEnds, WorkerMoves
  <2>2. PICK from, to \in WorkerPlaces : /\ worker[f] = from /\ worker' = [worker EXCEPT ![f] = to]
                                         /\ from \in Carrying <=> to \in Carrying
    BY <1>3 DEF ResponseKnown, ResponseCanceled, BeginAccept, AcceptRetried, AcceptStops, ReserveChannel, BeginOpen,
       WorkerCloses, WorkerWaited, WorkerDeletes, WorkerDeletesFrom, WorkerEnds, WorkerMoves, WorkerGoes, Carrying, WorkerPlaces
  <2>3. ConnTypes'
    BY <1>0, <2>1 DEF ConnTypes, ending
  <2>4. \A g \in Forwards : worker'[g] \in Carrying <=> worker[g] \in Carrying
    BY <1>0, <2>2
  <2> QED
    BY <1>0, <2>1, <2>3, <2>4, ConnFrameKeeps
<1> QED
  BY <1>1, <1>2, <1>3 DEF WorkerSteps, WorkerRuns

\* handleConn's end: sockets are closed, nothing else happens to a connection.
LEMMA EndConns ==
  ASSUME ConnTypes, EndSteps
  PROVE  /\ ConnTypes' /\ \A c \in Conns : sock'[c] => sock[c]
         /\ end' = end \/ (end = "serving" /\ end' = "canceled") \/ (end # "serving" /\ end' # "serving" /\ end' # "done") \/ WorkersDone
<1>1. CASE ConnectionEnds \/ CloseAllReturns \/ CloseWorkers \/ WorkersDone
  BY <1>1 DEF ConnectionEnds, CloseAllReturns, CloseWorkers, WorkersDone, EndMoves, EndFrame, ConnTypes, Ends
<1>2. CASE CloseAll
  BY <1>2 DEF CloseAll, EndFrame, ConnTypes, Ends
<1>3. CASE \E f \in Forwards : CloseAllCalls(f)
  BY <1>3 DEF CloseAllCalls, EndFrame, ConnTypes
<1>4. CASE \E c \in Conns : CloseAllConn(c)
  BY <1>4 DEF CloseAllConn, EndFrame, ConnTypes
<1>5. CASE UNCHANGED vars
  BY <1>5 DEF vars, ending, ConnTypes
<1> QED
  BY <1>1, <1>2, <1>3, <1>4, <1>5 DEF EndSteps, EndRuns, Terminated

LEMMA ConnInvStep ==
  ASSUME ForwardInv, ConnTypes, ConnInv, [Next]_vars
  PROVE  ConnTypes' /\ ConnInv'
<1>0. StageType
  BY DEF ForwardInv, ForwardTypes
<1>1. CASE RequestSteps
  <2>1. /\ UNCHANGED <<end, toClose, conn, of, sock>>
        /\ \A f \in Forwards : worker'[f] = worker[f] \/ (worker[f] = "off" /\ worker'[f] = "response")
        /\ \A f \in Forwards : reply'[f] = reply[f] \/ reply[f] = "none"
    BY <1>1, RequestWorkers DEF ending
  <2>2. registered' \subseteq registered \cup {subject} /\ (~(registered' \subseteq registered) => req = "listen")
    BY <1>1 DEF RequestSteps, RequestRuns, RequestRefused, ReserveForward, Listen, ListenFails, RegisterForward, RegisterDuplicate, GivesUp,
       StartForward, StartRefused, RejectClosed, AcceptForward, ReplyFails, CancelForward, CancelClosed, CancelDeletes,
       CancelDeletesWhen, CancelReplied, RequestLoopEnds, RequestGoes, ForwardSame
  <2>3. registered' \subseteq Forwards \cup Conns
    BY <2>2, SubjectIs DEF ForwardInv, ConnTypes
  <2>4. ConnTypes'
    BY <2>1, <2>3 DEF ConnTypes
  <2>5. \A f \in Forwards : worker'[f] \in Carrying <=> worker[f] \in Carrying
    BY <2>1 DEF Carrying
  <2>6. \A f \in Forwards : reply[f] = "accepted" => reply'[f] = "accepted"
    BY <2>1
  <2> QED
    BY <2>1, <2>4, <2>5, <2>6, ConnFrameKeeps
<1>2. CASE EndSteps
  BY <1>0, <1>2, EndSame, EndConns, ConnFrameKeeps DEF request
<1>3. ASSUME NEW f \in Forwards, Shuts(f) PROVE ConnTypes' /\ ConnInv'
  <2>1. UNCHANGED <<end, toClose, registered, conn, of, sock, worker, reply>>
    BY <1>0, <1>3, ShutsSame DEF ForwardsSame, ending
  <2>2. ConnTypes'
    BY <2>1 DEF ConnTypes
  <2> QED
    BY <2>1, <2>2, ConnFrameKeeps
<1>4. ASSUME NEW f \in Forwards, WorkerSteps(f) PROVE ConnTypes' /\ ConnInv'
  BY <1>4, WorkerConnKeeps
<1>5. ASSUME NEW c \in Conns, ConnSteps(c) PROVE ConnTypes' /\ ConnInv'
  <2>1. UNCHANGED <<end, toClose, of, worker, reply>>
    BY <1>0, <1>5, ConnSame DEF ForwardsSame, ending
  <2>2. /\ conn[c] \notin {"new", "hand", "gone"}
        /\ sock' \in [Conns -> BOOLEAN] /\ \A d \in Conns : sock'[d] => sock[d]
        /\ registered' \subseteq registered
    BY <1>5, ConnStepPlace
  <2>3. PICK p \in ConnPlaces \ {"new", "hand"} : conn' = [conn EXCEPT ![c] = p] /\ (p = "gone" => ~sock'[c])
    BY <1>5, ConnStepPlace
  <2>4. ConnTypes'
    BY <2>1, <2>2, <2>3 DEF ConnTypes
  <2>5. ConnInv'
    BY <2>1, <2>2, <2>3, ConnMovesKeeps
  <2> QED
    BY <2>4, <2>5
<1>6. ASSUME NEW c \in Conns, OpenerSteps(c) PROVE ConnTypes' /\ ConnInv'
  <2>1. UNCHANGED <<end, toClose, registered, conn, of, sock, worker, reply>>
    BY <1>0, <1>6, OpenerSame DEF ForwardsSame, ending
  <2>2. ConnTypes'
    BY <2>1 DEF ConnTypes
  <2> QED
    BY <2>1, <2>2, ConnFrameKeeps
<1> QED
  BY <1>1, <1>2, <1>3, <1>4, <1>5, <1>6, StepKinds

LEMMA DoneStep ==
  ASSUME ForwardInv, ConnTypes, ConnInv, DoneInv, [Next]_vars
  PROVE  DoneInv'
<1>0. StageType
  BY DEF ForwardInv, ForwardTypes
<1>1. CASE RequestSteps
  BY <1>1, RequestWorkers DEF DoneInv, ending
<1>2. CASE EndSteps
  <2>1. UNCHANGED <<req, worker, conn>>
    BY <1>0, <1>2, EndSame DEF request
  <2>2. end' = "done" => end = "done" \/ WorkersDone
    BY <1>2, EndConns
  <2> QED
    BY <2>1, <2>2 DEF DoneInv, WorkersDone
<1>3. ASSUME NEW f \in Forwards, Shuts(f) PROVE DoneInv'
  BY <1>0, <1>3, ShutsSame DEF ForwardsSame, ending, DoneInv
<1>4. ASSUME NEW f \in Forwards, WorkerSteps(f) PROVE DoneInv'
  <2>1. end' = end /\ worker[f] \notin {"off", "ended"}
    BY <1>4, WorkerKinds DEF WorkerGoes, Serving, ending
  <2> QED
    BY <2>1 DEF DoneInv
<1>5. ASSUME NEW c \in Conns, ConnSteps(c) PROVE DoneInv'
  <2>1. end' = end /\ conn[c] \notin {"new", "gone"}
    BY <1>0, <1>5, ConnSame, ConnStepPlace DEF ending
  <2> QED
    BY <2>1 DEF DoneInv
<1>6. ASSUME NEW c \in Conns, OpenerSteps(c) PROVE DoneInv'
  BY <1>0, <1>6, OpenerSame DEF ForwardsSame, ending, DoneInv
<1> QED
  BY <1>1, <1>2, <1>3, <1>4, <1>5, <1>6, StepKinds

\* A connection that is in hand is the only one its forward's worker has in hand,
\* every accepted connection is one of a granted forward, and after the last worker of
\* the connection none begins.
THEOREM ConnInvHolds == Spec => [](ConnTypes /\ ConnInv /\ DoneInv)
<1>1. Init => ConnTypes /\ ConnInv /\ DoneInv
  BY NamesDiffer DEF Init, ConnTypes, ConnInv, ConnPlace, DoneInv, Ends, ConnPlaces, Carrying
<1>2. ForwardInv /\ ConnTypes /\ ConnInv /\ DoneInv /\ [Next]_vars => (ConnTypes /\ ConnInv /\ DoneInv)'
  BY ConnInvStep, DoneStep
<1> QED
  BY <1>1, <1>2, ForwardInvHolds, PTL DEF Spec

--------------------------------------------------------------------------------
(* The opener of a connection's channel. *)

OpeningTypes ==
  opener \in [Conns -> Openers] /\ gaveUp \in [Conns -> BOOLEAN] /\ channel \in [Conns -> BOOLEAN]

\* An opener nobody waits for is one whose timeout has fired, or the connection has
\* ended; a channel is the opener's until the worker takes it.
OpenerOf(c) ==
  /\ conn[c] \in {"new", "hand", "attempt", "retry", "copy"} => opener[c] = "none"
  /\ opener[c] # "none" => gaveUp[c] \/ Canceled \/ Selecting(c)
  /\ channel[c] => opener[c] = "ok" \/ (opener[c] = "none" /\ conn[c] \in {"copy", "escalating", "cleanup"})
OpenerInv == \A c \in Conns : OpenerOf(c)

\* The steps that do not open.
LEMMA OpeningSame ==
  ASSUME OpeningTypes, OpenerInv, UNCHANGED opening, Canceled => Canceled',
         \A d \in Conns : conn'[d] = conn[d] \/ (conn[d] \in {"new", "hand"} /\ conn'[d] \notin Selects)
  PROVE  OpeningTypes' /\ OpenerInv'
<1>1. OpeningTypes'
  BY DEF OpeningTypes, opening
<1>2. ASSUME NEW d \in Conns PROVE OpenerOf(d)'
  <2>1. OpenerOf(d)
    BY DEF OpenerInv
  <2>2. CASE conn'[d] = conn[d]
    BY <2>1, <2>2 DEF OpenerOf, opening, Selecting
  <2>3. CASE conn[d] \in {"new", "hand"}
    BY <2>1, <2>3 DEF OpenerOf, opening
  <2> QED
    BY <2>2, <2>3
<1> QED
  BY <1>1, <1>2 DEF OpenerInv

\* The step of one connection's worker or opener.
LEMMA OpeningOne ==
  ASSUME OpeningTypes, OpenerInv, NEW c \in Conns, UNCHANGED end,
         NEW o \in Openers, NEW g \in BOOLEAN, NEW x \in BOOLEAN,
         opener' = [opener EXCEPT ![c] = o], gaveUp' = [gaveUp EXCEPT ![c] = g], channel' = [channel EXCEPT ![c] = x],
         \A d \in Conns : d # c => conn'[d] = conn[d],
         conn'[c] \in {"new", "hand", "attempt", "retry", "copy"} => o = "none",
         o # "none" => g \/ Canceled \/ conn'[c] \in Selects,
         x => o = "ok" \/ (o = "none" /\ conn'[c] \in {"copy", "escalating", "cleanup"})
  PROVE  OpeningTypes' /\ OpenerInv'
<1>1. OpeningTypes'
  BY DEF OpeningTypes
<1>2. /\ opener'[c] = o /\ gaveUp'[c] = g /\ channel'[c] = x
      /\ \A d \in Conns : d # c => opener'[d] = opener[d] /\ gaveUp'[d] = gaveUp[d] /\ channel'[d] = channel[d]
  BY DEF OpeningTypes
<1>3. ASSUME NEW d \in Conns PROVE OpenerOf(d)'
  <2>1. CASE d = c
    BY <1>2, <2>1 DEF OpenerOf, Selecting, Canceled
  <2>2. CASE d # c
    <3>1. OpenerOf(d)
      BY DEF OpenerInv
    <3> QED
      BY <1>2, <1>3, <2>2, <3>1 DEF OpenerOf, Selecting, Canceled
  <2> QED
    BY <2>1, <2>2
<1> QED
  BY <1>1, <1>3 DEF OpenerInv

\* A variable that stays, in the form above.
LEMMA StaysAt ==
  ASSUME OpeningTypes, NEW c \in Conns
  PROVE  /\ opener[c] \in Openers /\ gaveUp[c] \in BOOLEAN /\ channel[c] \in BOOLEAN
         /\ opener = [opener EXCEPT ![c] = opener[c]]
         /\ gaveUp = [gaveUp EXCEPT ![c] = gaveUp[c]]
         /\ channel = [channel EXCEPT ![c] = channel[c]]
BY DEF OpeningTypes

LEMMA ConnOpening ==
  ASSUME ConnTypes, OpeningTypes, OpenerInv, NEW c \in Conns, ConnSteps(c), UNCHANGED end
  PROVE  OpeningTypes' /\ OpenerInv'
<1>1. OpenerOf(c) /\ conn \in [Conns -> ConnPlaces]
  BY DEF OpenerInv, ConnTypes
<1>2. PICK p : conn' = [conn EXCEPT ![c] = p]
  BY ConnStepPlace
<1>3. conn'[c] = p /\ \A d \in Conns : d # c => conn'[d] = conn[d]
  BY <1>1, <1>2
<1>4. /\ opener[c] \in Openers /\ gaveUp[c] \in BOOLEAN /\ channel[c] \in BOOLEAN
      /\ opener = [opener EXCEPT ![c] = opener[c]]
      /\ gaveUp = [gaveUp EXCEPT ![c] = gaveUp[c]]
      /\ channel = [channel EXCEPT ![c] = channel[c]]
  BY StaysAt
<1>5. "none" \in Openers /\ "spawned" \in Openers
  BY DEF Openers
<1>6. CASE Attempt(c)
  <2>1. /\ conn[c] = "attempt" /\ conn'[c] = "select" /\ opener' = [opener EXCEPT ![c] = "spawned"]
        /\ UNCHANGED <<gaveUp, channel>>
    BY <1>1, <1>6 DEF Attempt, AttemptIf, ConnGoes, StillHeld
  <2>2. ~channel[c]
    BY <1>1, <2>1 DEF OpenerOf
  <2> QED
    BY <1>3, <1>4, <1>5, <2>1, <2>2, OpeningOne DEF Selects
<1>7. CASE Opened(c)
  <2>1. /\ conn[c] \in Selects /\ conn'[c] = "copy" /\ opener[c] = "ok" /\ opener' = [opener EXCEPT ![c] = "none"]
        /\ UNCHANGED <<gaveUp, channel>>
    BY <1>1, <1>7 DEF Opened, Takes, OpenReturns, ConnGoes, StillHeld
  <2> QED
    BY <1>3, <1>4, <1>5, <2>1, OpeningOne
<1>8. CASE OpenRaced(c) \/ OpenFailed(c)
  <2>1. /\ conn[c] \in Selects /\ conn'[c] \in {"retry", "failed"} /\ opener[c] \in {"race", "error"}
        /\ opener' = [opener EXCEPT ![c] = "none"] /\ UNCHANGED <<gaveUp, channel>>
    BY <1>1, <1>8 DEF OpenRaced, OpenFailed, Takes, OpenReturns, ConnGoes, StillHeld, Selects
  <2>2. ~channel[c]
    BY <1>1, <2>1 DEF OpenerOf
  <2> QED
    BY <1>3, <1>4, <1>5, <2>1, <2>2, OpeningOne
<1>9. CASE Retry(c) \/ Drains(c)
  <2>1. /\ (conn[c] = "retry" /\ conn'[c] = "attempt") \/ (conn[c] = "select" /\ conn'[c] = "drain")
        /\ UNCHANGED <<opener, gaveUp, channel>>
    BY <1>1, <1>9 DEF Retry, Drains, ConnMoves, ConnGoes, StillHeld
  <2>2. channel[c] => opener[c] = "ok"
    BY <1>1, <2>1 DEF OpenerOf
  <2>3. /\ conn'[c] = "attempt" => opener[c] = "none"
        /\ conn'[c] \in {"attempt", "drain"}
    BY <1>1, <2>1 DEF OpenerOf
  <2> QED
    BY <1>3, <1>4, <2>1, <2>2, <2>3, OpeningOne DEF Selects
<1>10. CASE OpenStopped(c)
  <2>1. /\ conn[c] \in {"attempt", "retry", "select", "drain"} /\ conn'[c] = "failed"
        /\ UNCHANGED <<opener, gaveUp, channel>> /\ (Canceled \/ ~Selecting(c))
    BY <1>1, <1>10 DEF OpenStopped, OpenReturns, ConnGoes, StillHeld, Selects
  <2>2. channel[c] => opener[c] = "ok"
    BY <1>1, <2>1 DEF OpenerOf
  <2>3. opener[c] # "none" => gaveUp[c] \/ Canceled
    BY <1>1, <2>1 DEF OpenerOf
  <2>4. /\ opener' = [opener EXCEPT ![c] = opener[c]] /\ gaveUp' = [gaveUp EXCEPT ![c] = gaveUp[c]]
        /\ channel' = [channel EXCEPT ![c] = channel[c]]
    BY <1>4, <2>1
  <2> QED
    BY <1>3, <1>4, <2>1, <2>2, <2>3, <2>4, OpeningOne
<1>11. CASE OpenTimesOut(c)
  <2>1. /\ conn[c] \in {"retry", "select", "drain"} /\ conn'[c] = "failed"
        /\ gaveUp' = [gaveUp EXCEPT ![c] = TRUE] /\ UNCHANGED <<opener, channel>>
    BY <1>1, <1>11 DEF OpenTimesOut, OpenTimesOutIn, OpenReturns, ConnGoes, StillHeld, Selects
  <2>2. channel[c] => opener[c] = "ok"
    BY <1>1, <2>1 DEF OpenerOf
  <2> QED
    BY <1>3, <1>4, <2>1, <2>2, OpeningOne
<1>12. CASE FailureTolerated(c) \/ Escalated(c) \/ FailureCloses(c) \/ CopyEnds(c)
  <2>1. /\ conn[c] \in {"failed", "copy", "escalating"} /\ conn'[c] \in {"cleanup", "escalating"}
        /\ UNCHANGED <<opener, gaveUp, channel>>
    BY <1>1, <1>12 DEF FailureTolerated, Escalated, FailureCloses, CopyEnds, ConnMoves, ConnGoes, StillHeld
  <2>2. channel[c] => opener[c] = "ok" \/ opener[c] = "none"
    BY <1>1 DEF OpenerOf
  <2>3. opener[c] # "none" => gaveUp[c] \/ Canceled
    BY <1>1, <2>1 DEF OpenerOf, Selecting, Selects
  <2> QED
    BY <1>3, <1>4, <2>1, <2>2, <2>3, OpeningOne
<1>13. CASE CleansUp(c)
  <2>1. conn[c] = "cleanup" /\ conn'[c] = "half" /\ UNCHANGED <<opener, gaveUp>>
    BY <1>1, <1>13 DEF CleansUp, ConnGoes
  <2>2. PICK x \in BOOLEAN : x <=> channel[c] /\ opener[c] # "none"
    BY Zenon
  <2>3. (channel[c] /\ opener[c] # "none") = x
    BY <2>2, Zenon
  <2>4. channel' = [channel EXCEPT ![c] = x]
    BY <1>13, <2>3 DEF CleansUp
  <2>5. x => opener[c] = "ok"
    BY <1>1, <2>2 DEF OpenerOf
  <2>6. opener[c] # "none" => gaveUp[c] \/ Canceled
    BY <1>1, <2>1 DEF OpenerOf, Selecting, Selects
  <2> QED
    BY <1>3, <1>4, <2>1, <2>4, <2>5, <2>6, OpeningOne
<1>14. CASE ConnEnds(c)
  <2>1. conn[c] = "half" /\ conn'[c] = "gone" /\ UNCHANGED <<opener, gaveUp, channel>>
    BY <1>1, <1>14 DEF ConnEnds, ConnGoes, opening
  <2>2. channel[c] => opener[c] = "ok"
    BY <1>1, <2>1 DEF OpenerOf
  <2>3. opener[c] # "none" => gaveUp[c] \/ Canceled
    BY <1>1, <2>1 DEF OpenerOf, Selecting, Selects
  <2> QED
    BY <1>3, <1>4, <2>1, <2>2, <2>3, OpeningOne
<1> QED
  BY <1>6, <1>7, <1>8, <1>9, <1>10, <1>11, <1>12, <1>13, <1>14 DEF ConnSteps, ConnRuns

LEMMA OpenerOpening ==
  ASSUME OpeningTypes, OpenerInv, NEW c \in Conns, OpenerSteps(c), UNCHANGED <<end, conn, gaveUp>>
  PROVE  OpeningTypes' /\ OpenerInv'
<1>1. OpenerOf(c)
  BY DEF OpenerInv
<1>2. /\ opener[c] \in Openers /\ gaveUp[c] \in BOOLEAN /\ channel[c] \in BOOLEAN
      /\ gaveUp = [gaveUp EXCEPT ![c] = gaveUp[c]]
      /\ channel = [channel EXCEPT ![c] = channel[c]]
  BY StaysAt
<1>3. opener[c] # "none" => (gaveUp[c] \/ Canceled \/ conn[c] \in Selects) /\ conn[c] \notin {"new", "hand", "attempt", "retry", "copy"}
  BY <1>1 DEF OpenerOf, Selecting
<1>4. CASE OpenerStarts(c) \/ OpenSent(c)
  <2>1. PICK o \in {"calling", "none", "sent"} : opener' = [opener EXCEPT ![c] = o] /\ opener[c] \in {"spawned", "calling"} /\ channel' = channel
    BY <1>4 DEF OpenerStarts, OpenSent, OpenerGoes
  <2>2. ~channel[c] /\ o \in Openers
    BY <1>1, <2>1 DEF OpenerOf, Openers
  <2> QED
    BY <1>2, <1>3, <2>1, <2>2, OpeningOne
<1>5. ASSUME NEW answer \in Answers, OpenAnswered(c, answer) PROVE OpeningTypes' /\ OpenerInv'
  <2>1. opener[c] = "sent" /\ opener' = [opener EXCEPT ![c] = answer] /\ answer \in Openers
    BY <1>5 DEF OpenAnswered, OpenerGoes, Openers
  <2>2. PICK x \in BOOLEAN : x <=> answer = "ok"
    BY Zenon
  <2>3. (answer = "ok") = x
    BY <2>2, Zenon
  <2>4. channel' = [channel EXCEPT ![c] = x]
    BY <1>5, <2>3 DEF OpenAnswered
  <2> QED
    BY <1>2, <1>3, <2>1, <2>2, <2>4, OpeningOne
<1>6. CASE OpenerAbandons(c)
  <2>1. opener' = [opener EXCEPT ![c] = "none"] /\ channel' = [channel EXCEPT ![c] = FALSE] /\ "none" \in Openers
    BY <1>6 DEF OpenerAbandons, OpenerAbandonsLeaving, OpenerGoes, Openers
  <2> QED
    BY <1>2, <2>1, OpeningOne
<1> QED
  BY <1>4, <1>5, <1>6 DEF OpenerSteps

\* What a forward's worker does to the connections.
LEMMA WorkerConns ==
  ASSUME ConnTypes, ConnInv, NEW f \in Forwards, WorkerSteps(f)
  PROVE  \A d \in Conns : conn'[d] = conn[d] \/ (conn[d] \in {"new", "hand"} /\ conn'[d] \in {"hand", "attempt", "gone"})
<1>0. conn \in [Conns -> ConnPlaces]
  BY DEF ConnTypes
<1>1. CASE \E c \in Conns : Accept(f, c)
  BY <1>0, <1>1 DEF Accept
<1>2. CASE NoChannel(f) \/ NoOpen(f) \/ StartConn(f) \/ StartConnRefused(f)
  <2>1. worker[f] \in Carrying
    BY <1>2 DEF NoChannel, NoOpen, StartConn, StartConnRefused, WorkerGoes, Carrying
  <2>2. Hand(f) \in Conns /\ conn[Hand(f)] = "hand"
    BY <2>1, HandIs
  <2>3. PICK p \in {"attempt", "gone"} : conn' = [conn EXCEPT ![Hand(f)] = p]
    BY <1>2 DEF NoChannel, NoOpen, StartConn, StartConnRefused, Drop
  <2> QED
    BY <1>0, <2>2, <2>3
<1>3. CASE \/ ResponseKnown(f) \/ ResponseCanceled(f) \/ BeginAccept(f) \/ AcceptRetried(f) \/ AcceptStops(f)
           \/ ReserveChannel(f) \/ BeginOpen(f)
           \/ WorkerCloses(f) \/ WorkerWaited(f) \/ WorkerDeletes(f) \/ WorkerEnds(f)
  BY <1>3 DEF ResponseKnown, ResponseCanceled, BeginAccept, AcceptRetried, AcceptStops, ReserveChannel, BeginOpen,
       WorkerCloses, WorkerWaited, WorkerDeletes, WorkerDeletesFrom, WorkerEnds, WorkerMoves
<1> QED
  BY <1>1, <1>2, <1>3 DEF WorkerSteps, WorkerRuns

LEMMA OpenerStep ==
  ASSUME ForwardInv, ConnTypes, ConnInv, OpeningTypes, OpenerInv, [Next]_vars
  PROVE  OpeningTypes' /\ OpenerInv'
<1>0. StageType
  BY DEF ForwardInv, ForwardTypes
<1>1. CASE RequestSteps
  <2>1. UNCHANGED <<end, opening, conn>>
    BY <1>1, RequestWorkers DEF ending
  <2> QED
    BY <2>1, OpeningSame DEF Canceled
<1>2. CASE EndSteps
  <2>1. UNCHANGED <<opening, conn>>
    BY <1>0, <1>2, EndSame
  <2>2. Canceled => Canceled'
    BY <1>2, EndConns DEF Canceled, WorkersDone, EndMoves
  <2> QED
    BY <2>1, <2>2, OpeningSame
<1>3. ASSUME NEW f \in Forwards, Shuts(f) PROVE OpeningTypes' /\ OpenerInv'
  <2>1. UNCHANGED <<end, opening, conn>>
    BY <1>0, <1>3, ShutsSame DEF ending
  <2> QED
    BY <2>1, OpeningSame DEF Canceled
<1>4. ASSUME NEW f \in Forwards, WorkerSteps(f) PROVE OpeningTypes' /\ OpenerInv'
  <2>1. UNCHANGED <<end, opening>>
    BY <1>4, WorkerKinds DEF ending
  <2>2. \A d \in Conns : conn'[d] = conn[d] \/ (conn[d] \in {"new", "hand"} /\ conn'[d] \notin Selects)
    BY <1>4, WorkerConns DEF Selects
  <2> QED
    BY <2>1, <2>2, OpeningSame DEF Canceled
<1>5. ASSUME NEW c \in Conns, ConnSteps(c) PROVE OpeningTypes' /\ OpenerInv'
  BY <1>0, <1>5, ConnSame, ConnOpening DEF ending
<1>6. ASSUME NEW c \in Conns, OpenerSteps(c) PROVE OpeningTypes' /\ OpenerInv'
  BY <1>0, <1>6, OpenerSame, OpenerOpening DEF ending
<1> QED
  BY <1>1, <1>2, <1>3, <1>4, <1>5, <1>6, StepKinds

\* Outside of the worker's select in openForwardedChannel an opener is at work only
\* after a timeout or when the connection ends, and it is the one that closes its
\* channel then.
THEOREM OpenerInvHolds == Spec => [](OpeningTypes /\ OpenerInv)
<1>1. Init => OpeningTypes /\ OpenerInv
  BY DEF Init, OpeningTypes, OpenerInv, OpenerOf, Openers
<1>2. ForwardInv /\ ConnTypes /\ ConnInv /\ DoneInv /\ OpeningTypes /\ OpenerInv /\ [Next]_vars => (OpeningTypes /\ OpenerInv)'
  BY OpenerStep
<1> QED
  BY <1>1, <1>2, ForwardInvHolds, ConnInvHolds, PTL DEF Spec

\* Every open channel has somebody who will close it: the worker that copies, or the
\* opener of openForwardedChannel whose result came too late.
THEOREM ChannelsOwnedHolds == Spec => []ChannelsOwned
<1>1. OpeningTypes /\ OpenerInv => ChannelsOwned
  BY DEF OpenerInv, OpenerOf, ChannelsOwned
<1> QED
  BY <1>1, OpenerInvHolds, PTL

--------------------------------------------------------------------------------
(* A set that gains or loses one member. *)

LEMMA OneMore ==
  ASSUME NEW S, IsFiniteSet(S), NEW x, x \notin S, NEW T, T = S \cup {x}
  PROVE  Cardinality(T) = Cardinality(S) + 1
BY FS_AddElement

LEMMA OneLess ==
  ASSUME NEW S, IsFiniteSet(S), NEW x \in S, NEW T, T = S \ {x}
  PROVE  Cardinality(T) = Cardinality(S) - 1
BY FS_RemoveElement

LEMMA PartCounted ==
  ASSUME NEW U, IsFiniteSet(U), NEW S, S \subseteq U
  PROVE  IsFiniteSet(S) /\ Cardinality(S) \in Nat /\ (Cardinality(S) = 0 <=> S = {})
BY FS_Subset, FS_CardinalityType, FS_EmptySet

--------------------------------------------------------------------------------
(* The counter of the forward limiter. *)

HoldsForward(f) == stage[f] \in {"open", "closing", "signaled", "shut"} \/ (subject = f /\ req = "listen")
ForwardCount ==
  forwardSlots = Cardinality(ForwardHolders) /\ (ForwardLimit > 0 => forwardSlots <= ForwardLimit)

LEMMA ForwardHoldersAre ==
  /\ ForwardHolders = {f \in Forwards : HoldsForward(f)}
  /\ IsFiniteSet(ForwardHolders) /\ Cardinality(ForwardHolders) \in Nat
  /\ Cardinality(ForwardHolders) = 0 <=> ForwardHolders = {}
<1>1. ForwardHolders = {f \in Forwards : HoldsForward(f)}
  BY DEF ForwardHolders, HoldsForward
<1>2. ForwardHolders \subseteq Forwards
  BY <1>1
<1> QED
  BY <1>1, <1>2, ForwardsFinite, PartCounted

LEMMA ForwardsCountSame ==
  ASSUME ForwardCount, UNCHANGED forwardSlots, \A g \in Forwards : HoldsForward(g)' <=> HoldsForward(g)
  PROVE  ForwardCount'
<1>1. ForwardHolders' = {f \in Forwards : HoldsForward(f)'}
  BY DEF ForwardHolders, HoldsForward
<1>2. ForwardHolders' = ForwardHolders
  BY <1>1, ForwardHoldersAre
<1> QED
  BY <1>2 DEF ForwardCount

LEMMA ForwardsCountMore ==
  ASSUME ForwardCount, NEW f \in Forwards, ~HoldsForward(f), HoldsForward(f)', Free(forwardSlots, ForwardLimit),
         forwardSlots' = forwardSlots + 1, \A g \in Forwards : g # f => (HoldsForward(g)' <=> HoldsForward(g))
  PROVE  ForwardCount'
<1>1. ForwardHolders' = {g \in Forwards : HoldsForward(g)'}
  BY DEF ForwardHolders, HoldsForward
<1>2. ForwardHolders' = ForwardHolders \cup {f} /\ f \notin ForwardHolders
  BY <1>1, ForwardHoldersAre
<1>3. Cardinality(ForwardHolders') = Cardinality(ForwardHolders) + 1
  BY <1>2, OneMore, ForwardHoldersAre
<1>4. forwardSlots \in Nat /\ ForwardLimit \in Nat
  BY ForwardHoldersAre, ForwardLimitsAssumption DEF ForwardCount
<1> QED
  BY <1>3, <1>4 DEF ForwardCount, Free

LEMMA ForwardsCountLess ==
  ASSUME ForwardCount, NEW f \in Forwards, HoldsForward(f), ~HoldsForward(f)',
         forwardSlots' = forwardSlots - 1, \A g \in Forwards : g # f => (HoldsForward(g)' <=> HoldsForward(g))
  PROVE  ForwardCount'
<1>1. ForwardHolders' = {g \in Forwards : HoldsForward(g)'}
  BY DEF ForwardHolders, HoldsForward
<1>2. ForwardHolders' = ForwardHolders \ {f} /\ f \in ForwardHolders
  BY <1>1, ForwardHoldersAre
<1>3. Cardinality(ForwardHolders') = Cardinality(ForwardHolders) - 1
  BY <1>2, OneLess, ForwardHoldersAre
<1>4. forwardSlots \in Nat /\ ForwardLimit \in Nat
  BY ForwardHoldersAre, ForwardLimitsAssumption DEF ForwardCount
<1> QED
  BY <1>3, <1>4 DEF ForwardCount

\* A step with which no forward request begins or ends, and no close completes.
LEMMA ForwardsStay ==
  ASSUME ForwardCount, UNCHANGED forwardSlots, "listen" \notin {req, req'} \/ UNCHANGED <<req, subject>>,
         \A g \in Forwards : stage'[g] = stage[g] \/ (stage[g] = "open" /\ stage'[g] = "closing")
                             \/ {stage[g], stage'[g]} \subseteq Held \/ {stage[g], stage'[g]} \subseteq {"new", "refused"}
  PROVE  ForwardCount'
<1>1. ASSUME NEW g \in Forwards PROVE HoldsForward(g)' <=> HoldsForward(g)
  <2>1. stage'[g] \in Held <=> stage[g] \in Held
    BY DEF Held
  <2>2. (subject' = g /\ req' = "listen") <=> (subject = g /\ req = "listen")
    OBVIOUS
  <2> QED
    BY <2>1, <2>2 DEF HoldsForward, Held
<1> QED
  BY <1>1, ForwardsCountSame

LEMMA ForwardCountRequest ==
  ASSUME ForwardInv, ForwardCount, RequestSteps
  PROVE  ForwardCount'
<1>1. ForwardTypes /\ StageType /\ SubjectInv /\ WorkerInv
  BY DEF ForwardInv, ForwardTypes
<1>2. ASSUME NEW f \in Forwards, RequestRefused(f) PROVE ForwardCount'
  <2>1. /\ req = "idle" /\ req' = "idle" /\ stage[f] = "new" /\ stage' = [stage EXCEPT ![f] = "refused"]
        /\ UNCHANGED forwardSlots
    BY <1>2 DEF RequestRefused, Over
  <2>2. \A g \in Forwards : stage'[g] = stage[g] \/ {stage[g], stage'[g]} \subseteq {"new", "refused"}
    BY <1>1, <2>1 DEF StageType
  <2> QED
    BY <2>1, <2>2, ForwardsStay
<1>3. ASSUME NEW f \in Forwards, ReserveForward(f) PROVE ForwardCount'
  <2>1. /\ req = "idle" /\ req' = "listen" /\ subject' = f /\ stage[f] = "new" /\ UNCHANGED stage
        /\ forwardSlots' = forwardSlots + 1 /\ Free(forwardSlots, ForwardLimit)
    BY <1>3 DEF ReserveForward, RequestGoes
  <2>2. ~HoldsForward(f) /\ HoldsForward(f)' /\ \A g \in Forwards : g # f => (HoldsForward(g)' <=> HoldsForward(g))
    BY <2>1 DEF HoldsForward
  <2> QED
    BY <2>1, <2>2, ForwardsCountMore
<1>4. CASE ListenFails
  <2>1. /\ req = "listen" /\ req' = "idle" /\ stage' = [stage EXCEPT ![subject] = "refused"]
        /\ forwardSlots' = forwardSlots - 1
    BY <1>4 DEF ListenFails, RequestGoes, Over
  <2>2. subject \in Forwards
    BY <1>1, <2>1, SubjectIs
  <2>3. HoldsForward(subject) /\ \A g \in Forwards : g # subject => (HoldsForward(g)' <=> HoldsForward(g))
    BY <1>1, <2>1 DEF HoldsForward, StageType
  <2>4. PICK f \in Forwards : f = subject
    BY <2>2
  <2>5. ~HoldsForward(f)'
    BY <1>1, <2>1, <2>4 DEF HoldsForward, StageType
  <2> QED
    BY <2>1, <2>3, <2>4, <2>5, ForwardsCountLess
<1>5. CASE Listen
  <2>1. PICK x \in {"open", "closing"} : /\ req = "listen" /\ req' = "register" /\ stage' = [stage EXCEPT ![subject] = x]
                                         /\ UNCHANGED forwardSlots
    BY <1>5 DEF Listen, RequestGoes
  <2>2. \A g \in Forwards : HoldsForward(g)' <=> HoldsForward(g)
    BY <1>1, <2>1 DEF HoldsForward, StageType
  <2> QED
    BY <2>1, <2>2, ForwardsCountSame
<1>6. CASE RequestRuns \/ \E k \in Keys : CancelForward(k)
  <2>1. /\ "listen" \notin {req, req'} /\ UNCHANGED forwardSlots
    BY <1>6 DEF RequestRuns, RegisterForward, RegisterDuplicate, GivesUp, StartForward, StartRefused, RejectClosed,
       AcceptForward, ReplyFails, CancelForward, CancelClosed, CancelDeletes, CancelDeletesWhen, CancelReplied, RequestLoopEnds,
       RequestGoes, ForwardSame
  <2>2. stage' = stage \/ \E g : CallClose(g)
    BY <1>6 DEF RequestRuns, RegisterForward, RegisterDuplicate, GivesUp, StartForward, StartRefused, RejectClosed,
       AcceptForward, ReplyFails, CancelForward, CancelClosed, CancelDeletes, CancelDeletesWhen, CancelReplied, RequestLoopEnds,
       ForwardSame
  <2>3. \A h \in Forwards : stage'[h] = stage[h] \/ (stage[h] = "open" /\ stage'[h] = "closing")
    BY <1>1, <2>2, CallCloseStage
  <2> QED
    BY <2>1, <2>3, ForwardsStay
<1> QED
  BY <1>2, <1>3, <1>4, <1>5, <1>6 DEF RequestSteps

LEMMA ForwardCountStep ==
  ASSUME ForwardInv, ForwardCount, [Next]_vars
  PROVE  ForwardCount'
<1>1. ForwardTypes /\ StageType /\ SubjectInv
  BY DEF ForwardInv, ForwardTypes
<1>2. CASE RequestSteps
  BY <1>2, ForwardCountRequest
<1>3. CASE EndSteps
  <2>1. UNCHANGED <<forwardSlots, req, subject>>
    BY <1>1, <1>3, EndSame DEF request
  <2> QED
    BY <1>1, <1>3, <2>1, EndSame, ForwardsStay
<1>4. ASSUME NEW f \in Forwards, CloseStep(f) PROVE ForwardCount'
  <2>1. UNCHANGED <<req, subject>> /\ forwardSlots' = IF stage[f] = "shut" THEN forwardSlots - 1 ELSE forwardSlots
    BY <1>4 DEF CloseStep, request
  <2>2. \A g \in Forwards : g # f => stage'[g] = stage[g]
    BY <1>1, <1>4, CloseStepStage
  <2>3. CASE stage[f] = "shut"
    <3>1. stage'[f] = "closed" /\ ~(req = "listen" /\ subject = f)
      BY <1>1, <1>4, <2>3, CloseStepStage DEF SubjectInv
    <3>2. HoldsForward(f) /\ ~HoldsForward(f)'
      BY <2>1, <2>3, <3>1 DEF HoldsForward
    <3>3. \A g \in Forwards : g # f => (HoldsForward(g)' <=> HoldsForward(g))
      BY <2>1, <2>2 DEF HoldsForward
    <3> QED
      BY <2>1, <2>3, <3>2, <3>3, ForwardsCountLess
  <2>4. CASE stage[f] # "shut"
    <3>1. stage[f] \in Held /\ stage'[f] \in Held
      BY <1>1, <1>4, <2>4, CloseStepStage DEF Held
    <3>2. \A g \in Forwards : stage'[g] = stage[g] \/ {stage[g], stage'[g]} \subseteq Held
      BY <2>2, <3>1
    <3> QED
      BY <2>1, <2>4, <3>2, ForwardsStay
  <2> QED
    BY <2>3, <2>4
<1>5. ASSUME NEW f \in Forwards, WatcherCloses(f) PROVE ForwardCount'
  <2>1. UNCHANGED <<forwardSlots, req, subject>> /\ CallClose(f)
    BY <1>5 DEF WatcherCloses, request
  <2> QED
    BY <1>1, <2>1, CallCloseStage, ForwardsStay
<1>6. ASSUME NEW f \in Forwards, WorkerSteps(f) PROVE ForwardCount'
  <2>1. UNCHANGED <<forwardSlots, req, subject>> /\ (stage' = stage \/ CallClose(f))
    BY <1>6, WorkerKinds
  <2> QED
    BY <1>1, <2>1, CallCloseStage, ForwardsStay
<1>7. ASSUME NEW c \in Conns, ConnSteps(c) PROVE ForwardCount'
  <2>1. UNCHANGED <<forwardSlots, req, subject>>
    BY <1>1, <1>7, ConnSame DEF ForwardsSame
  <2>2. stage' = stage \/ CallClose(of[c])
    BY <1>7 DEF ConnSteps, ConnRuns, Attempt, AttemptIf, Opened, OpenRaced, Retry, Drains, OpenFailed, OpenStopped, OpenTimesOut,
       OpenTimesOutIn, OpenReturns, FailureTolerated, Escalated, CleansUp, ConnEnds, FailureCloses, CopyEnds, ConnMoves
  <2> QED
    BY <1>1, <2>1, <2>2, CallCloseStage, ForwardsStay
<1>8. ASSUME NEW c \in Conns, OpenerSteps(c) PROVE ForwardCount'
  <2>1. UNCHANGED <<forwardSlots, req, subject, stage>>
    BY <1>1, <1>8, OpenerSame DEF ForwardsSame
  <2> QED
    BY <2>1, ForwardsStay
<1> QED
  BY <1>2, <1>3, <1>4, <1>5, <1>6, <1>7, <1>8, StepKinds DEF Shuts

--------------------------------------------------------------------------------
(* The counter of the channel limiter and forward.pending. *)

Trying == {"attempt", "select", "drain", "retry"}
Slotted == Trying \cup {"failed", "copy", "escalating", "cleanup"}
HoldsChannel(c) ==
  conn[c] \in Slotted \/ (conn[c] = "half" /\ unix) \/ (conn[c] = "hand" /\ worker[of[c]] \in {"open", "start"})
Opens(c) == conn[c] \in Trying \/ (conn[c] = "hand" /\ worker[of[c]] = "start")

ChannelCount ==
  channelSlots = Cardinality(ChannelHolders) /\ (ChannelLimit > 0 => channelSlots <= ChannelLimit)
PendingCount ==
  pending \in [Forwards -> Nat] /\ \A f \in Forwards : pending[f] = Cardinality(PendingOpens(f))

LEMMA ChannelHoldersAre ==
  /\ ChannelHolders = {c \in Conns : HoldsChannel(c)}
  /\ IsFiniteSet(ChannelHolders) /\ Cardinality(ChannelHolders) \in Nat
  /\ Cardinality(ChannelHolders) = 0 <=> ChannelHolders = {}
<1>1. ChannelHolders = {c \in Conns : HoldsChannel(c)}
  BY DEF ChannelHolders, HoldsChannel, ConnPlaces, Slotted, Trying
<1>2. ChannelHolders \subseteq Conns
  BY <1>1
<1> QED
  BY <1>1, <1>2, ForwardsFinite, PartCounted

LEMMA PendingOpensAre ==
  ASSUME NEW f \in Forwards
  PROVE  /\ PendingOpens(f) = {c \in Conns : of[c] = f /\ Opens(c)}
         /\ IsFiniteSet(PendingOpens(f)) /\ Cardinality(PendingOpens(f)) \in Nat
         /\ Cardinality(PendingOpens(f)) = 0 <=> PendingOpens(f) = {}
<1>1. PendingOpens(f) = {c \in Conns : of[c] = f /\ Opens(c)}
  BY DEF PendingOpens, Opens, Trying
<1>2. PendingOpens(f) \subseteq Conns
  BY <1>1
<1> QED
  BY <1>1, <1>2, ForwardsFinite, PartCounted

LEMMA ChannelsCountSame ==
  ASSUME ChannelCount, UNCHANGED channelSlots, \A d \in Conns : HoldsChannel(d)' <=> HoldsChannel(d)
  PROVE  ChannelCount'
<1>1. ChannelHolders' = {c \in Conns : HoldsChannel(c)'}
  BY DEF ChannelHolders, HoldsChannel, ConnPlaces, Slotted, Trying
<1>2. ChannelHolders' = ChannelHolders
  BY <1>1, ChannelHoldersAre
<1> QED
  BY <1>2 DEF ChannelCount

LEMMA ChannelsCountMore ==
  ASSUME ChannelCount, NEW c \in Conns, ~HoldsChannel(c), HoldsChannel(c)', Free(channelSlots, ChannelLimit),
         channelSlots' = channelSlots + 1, \A d \in Conns : d # c => (HoldsChannel(d)' <=> HoldsChannel(d))
  PROVE  ChannelCount'
<1>1. ChannelHolders' = {d \in Conns : HoldsChannel(d)'}
  BY DEF ChannelHolders, HoldsChannel, ConnPlaces, Slotted, Trying
<1>2. ChannelHolders' = ChannelHolders \cup {c} /\ c \notin ChannelHolders
  BY <1>1, ChannelHoldersAre
<1>3. Cardinality(ChannelHolders') = Cardinality(ChannelHolders) + 1
  BY <1>2, OneMore, ChannelHoldersAre
<1>4. channelSlots \in Nat /\ ChannelLimit \in Nat
  BY ChannelHoldersAre, ForwardLimitsAssumption DEF ChannelCount
<1> QED
  BY <1>3, <1>4 DEF ChannelCount, Free

LEMMA ChannelsCountLess ==
  ASSUME ChannelCount, NEW c \in Conns, HoldsChannel(c), ~HoldsChannel(c)',
         channelSlots' = channelSlots - 1, \A d \in Conns : d # c => (HoldsChannel(d)' <=> HoldsChannel(d))
  PROVE  ChannelCount'
<1>1. ChannelHolders' = {d \in Conns : HoldsChannel(d)'}
  BY DEF ChannelHolders, HoldsChannel, ConnPlaces, Slotted, Trying
<1>2. ChannelHolders' = ChannelHolders \ {c} /\ c \in ChannelHolders
  BY <1>1, ChannelHoldersAre
<1>3. Cardinality(ChannelHolders') = Cardinality(ChannelHolders) - 1
  BY <1>2, OneLess, ChannelHoldersAre
<1>4. channelSlots \in Nat /\ ChannelLimit \in Nat
  BY ChannelHoldersAre, ForwardLimitsAssumption DEF ChannelCount
<1> QED
  BY <1>3, <1>4 DEF ChannelCount

LEMMA PendingSame ==
  ASSUME PendingCount, UNCHANGED pending, \A d \in Conns : Opens(d)' <=> Opens(d), \A d \in Conns : Opens(d) => of'[d] = of[d]
  PROVE  PendingCount'
<1>1. ASSUME NEW f \in Forwards PROVE PendingOpens(f)' = PendingOpens(f)
  <2>1. PendingOpens(f)' = {c \in Conns : of'[c] = f /\ Opens(c)'}
    BY DEF PendingOpens, Opens, Trying
  <2> QED
    BY <2>1, PendingOpensAre
<1> QED
  BY <1>1 DEF PendingCount

LEMMA PendingMore ==
  ASSUME PendingCount, NEW f \in Forwards, NEW c \in Conns, of[c] = f, UNCHANGED of, ~Opens(c), Opens(c)',
         pending' = [pending EXCEPT ![f] = @ + 1], \A d \in Conns : d # c => (Opens(d)' <=> Opens(d))
  PROVE  PendingCount'
<1>1. \A g \in Forwards : PendingOpens(g)' = {d \in Conns : of[d] = g /\ Opens(d)'}
  BY DEF PendingOpens, Opens, Trying
<1>2. PendingOpens(f)' = PendingOpens(f) \cup {c} /\ c \notin PendingOpens(f)
  BY <1>1, PendingOpensAre
<1>3. Cardinality(PendingOpens(f)') = Cardinality(PendingOpens(f)) + 1
  BY <1>2, OneMore, PendingOpensAre
<1>4. ASSUME NEW g \in Forwards, g # f PROVE PendingOpens(g)' = PendingOpens(g)
  <2>1. \A d \in Conns : (of[d] = g /\ Opens(d)') <=> (of[d] = g /\ Opens(d))
    BY <1>4
  <2> QED
    BY <1>1, <2>1, PendingOpensAre
<1>5. pending'[f] = pending[f] + 1 /\ (\A g \in Forwards : g # f => pending'[g] = pending[g]) /\ pending' \in [Forwards -> Nat]
  BY DEF PendingCount
<1>6. ASSUME NEW g \in Forwards PROVE pending'[g] = Cardinality(PendingOpens(g)')
  BY <1>3, <1>4, <1>5, <1>6 DEF PendingCount
<1> QED
  BY <1>5, <1>6 DEF PendingCount

LEMMA PendingLess ==
  ASSUME PendingCount, NEW f \in Forwards, NEW c \in Conns, of[c] = f, UNCHANGED of, Opens(c), ~Opens(c)',
         pending' = [pending EXCEPT ![f] = @ - 1], \A d \in Conns : d # c => (Opens(d)' <=> Opens(d))
  PROVE  PendingCount' /\ pending[f] > 0
<1>1. \A g \in Forwards : PendingOpens(g)' = {d \in Conns : of[d] = g /\ Opens(d)'}
  BY DEF PendingOpens, Opens, Trying
<1>2. PendingOpens(f)' = PendingOpens(f) \ {c} /\ c \in PendingOpens(f)
  BY <1>1, PendingOpensAre
<1>3. Cardinality(PendingOpens(f)') = Cardinality(PendingOpens(f)) - 1
  BY <1>2, OneLess, PendingOpensAre
<1>4. ASSUME NEW g \in Forwards, g # f PROVE PendingOpens(g)' = PendingOpens(g)
  <2>1. \A d \in Conns : (of[d] = g /\ Opens(d)') <=> (of[d] = g /\ Opens(d))
    BY <1>4
  <2> QED
    BY <1>1, <2>1, PendingOpensAre
<1>5. pending[f] \in Nat /\ pending[f] # 0
  BY <1>2, PendingOpensAre DEF PendingCount
<1>6. pending'[f] = pending[f] - 1 /\ (\A g \in Forwards : g # f => pending'[g] = pending[g]) /\ pending' \in [Forwards -> Nat]
  BY <1>5 DEF PendingCount
<1>7. ASSUME NEW g \in Forwards PROVE pending'[g] = Cardinality(PendingOpens(g)')
  BY <1>3, <1>4, <1>6, <1>7 DEF PendingCount
<1> QED
  BY <1>5, <1>6, <1>7 DEF PendingCount

\* Who holds a slot or has an open under way stays the same when the connections
\* stay where they are and no forward's worker moves that has one in hand.
LEMMA HeldSame ==
  ASSUME ConnTypes, ConnInv, UNCHANGED <<unix, conn, of>>,
         \A f \in Forwards : worker[f] \in Carrying => worker'[f] = worker[f]
  PROVE  \A d \in Conns : (HoldsChannel(d)' <=> HoldsChannel(d)) /\ (Opens(d)' <=> Opens(d))
<1> SUFFICES ASSUME NEW d \in Conns
             PROVE  (HoldsChannel(d)' <=> HoldsChannel(d)) /\ (Opens(d)' <=> Opens(d))
  OBVIOUS
<1>1. conn[d] = "hand" => of[d] \in Forwards /\ worker[of[d]] \in Carrying
  BY DEF ConnInv, ConnPlace, ConnTypes
<1>2. conn[d] = "hand" => worker'[of[d]] = worker[of[d]]
  BY <1>1
<1> QED
  BY <1>2 DEF HoldsChannel, Opens

\* The connection in hand changes and no other.
LEMMA OthersSame ==
  ASSUME ForwardTypes, ConnTypes, ConnInv, UNCHANGED <<unix, of>>, NEW f \in Forwards, NEW h \in Conns,
         \A d \in Conns : conn[d] = "hand" /\ of[d] = f => d = h, \A d \in Conns : d # h => conn'[d] = conn[d],
         \A g \in Forwards : g # f => worker'[g] = worker[g]
  PROVE  \A d \in Conns : d # h => (HoldsChannel(d)' <=> HoldsChannel(d)) /\ (Opens(d)' <=> Opens(d))
<1> SUFFICES ASSUME NEW d \in Conns, d # h
             PROVE  (HoldsChannel(d)' <=> HoldsChannel(d)) /\ (Opens(d)' <=> Opens(d))
  OBVIOUS
<1>1. conn[d] = "hand" => of[d] \in Forwards /\ of[d] # f
  BY DEF ConnInv, ConnPlace, ConnTypes
<1>2. conn[d] = "hand" => worker'[of[d]] = worker[of[d]]
  BY <1>1
<1> QED
  BY <1>2 DEF HoldsChannel, Opens

Counts == ChannelCount /\ PendingCount

\* forward.pending of g grows only with beginOpen, and shrinks only while it is not 0.
PendingMoves ==
  \A g \in Forwards : pending'[g] = pending[g] \/ pending[g] > 0 \/ (worker[g] = "open" /\ worker'[g] = "start" /\ stage[g] = "open")

LEMMA WorkerCounts ==
  ASSUME ForwardInv, ConnTypes, ConnInv, Counts, NEW f \in Forwards, WorkerSteps(f)
  PROVE  Counts' /\ PendingMoves
<1> DEFINE Same == \A d \in Conns : (HoldsChannel(d)' <=> HoldsChannel(d)) /\ (Opens(d)' <=> Opens(d))
<1>0. /\ ForwardTypes /\ ChannelCount /\ PendingCount /\ unix' = unix /\ worker \in [Forwards -> WorkerPlaces]
      /\ conn \in [Conns -> ConnPlaces] /\ pending \in [Forwards -> Nat]
  BY WorkerKinds DEF ForwardInv, ForwardTypes, Counts, PendingCount, ConnTypes
<1>1. CASE \E c \in Conns : Accept(f, c)
  <2>1. PICK c \in Conns : Accept(f, c)
    BY <1>1
  <2>2. /\ conn[c] = "new" /\ conn' = [conn EXCEPT ![c] = "hand"] /\ of' = [of EXCEPT ![c] = f]
        /\ worker[f] = "accept" /\ worker' = [worker EXCEPT ![f] = "reserve"] /\ UNCHANGED <<channelSlots, pending>>
    BY <2>1 DEF Accept, WorkerGoes
  <2>3. ASSUME NEW d \in Conns PROVE (HoldsChannel(d)' <=> HoldsChannel(d)) /\ (Opens(d)' <=> Opens(d)) /\ (Opens(d) => of'[d] = of[d])
    <3>1. CASE d = c
      <4>1. conn'[d] = "hand" /\ of'[d] = f /\ worker'[f] = "reserve"
        BY <1>0, <2>2, <3>1 DEF ConnTypes
      <4> QED
        BY <1>0, <2>2, <3>1, <4>1 DEF HoldsChannel, Opens, Slotted, Trying
    <3>2. CASE d # c
      <4>1. conn'[d] = conn[d] /\ of'[d] = of[d]
        BY <2>2, <3>2 DEF ConnTypes
      <4>2. conn[d] = "hand" => of[d] # f /\ of[d] \in Forwards
        BY <2>2 DEF ConnInv, ConnPlace, ConnTypes, Carrying
      <4>3. conn[d] = "hand" => worker'[of[d]] = worker[of[d]]
        BY <1>0, <2>2, <4>2
      <4> QED
        BY <1>0, <4>1, <4>3 DEF HoldsChannel, Opens
    <3> QED
      BY <3>1, <3>2
  <2>4. ChannelCount'
    BY <1>0, <2>2, <2>3, ChannelsCountSame
  <2>5. PendingCount'
    BY <1>0, <2>2, <2>3, PendingSame
  <2> QED
    BY <2>2, <2>4, <2>5 DEF Counts, PendingMoves
<1>2. CASE ReserveChannel(f) \/ NoChannel(f) \/ BeginOpen(f) \/ NoOpen(f) \/ StartConn(f) \/ StartConnRefused(f)
  <2>1. worker[f] \in Carrying
    BY <1>2 DEF ReserveChannel, NoChannel, BeginOpen, NoOpen, StartConn, StartConnRefused, WorkerGoes, Carrying
  <2>2. PICK h \in Conns : h = Hand(f) /\ of[h] = f /\ conn[h] = "hand" /\ \A d \in Conns : conn[d] = "hand" /\ of[d] = f => d = h
    BY <2>1, HandIs
  <2>3. of' = of
    BY <1>2 DEF ReserveChannel, NoChannel, BeginOpen, NoOpen, StartConn, StartConnRefused, Drop
  <2>4. PICK to : worker' = [worker EXCEPT ![f] = to]
    BY <1>2 DEF ReserveChannel, NoChannel, BeginOpen, NoOpen, StartConn, StartConnRefused, WorkerGoes
  <2>5. worker'[f] = to /\ \A g \in Forwards : g # f => worker'[g] = worker[g]
    BY <1>0, <2>4
  <2>6. \A d \in Conns : d # h => conn'[d] = conn[d]
    BY <1>0, <1>2, <2>2 DEF ReserveChannel, NoChannel, BeginOpen, NoOpen, StartConn, StartConnRefused, Drop
  <2>7. \A d \in Conns : d # h => (HoldsChannel(d)' <=> HoldsChannel(d)) /\ (Opens(d)' <=> Opens(d))
    BY <1>0, <2>2, <2>3, <2>5, <2>6, OthersSame
  <2>8. CASE ReserveChannel(f)
    <3>1. /\ worker[f] = "reserve" /\ worker'[f] = "open" /\ conn'[h] = "hand" /\ pending' = pending
          /\ channelSlots' = channelSlots + 1 /\ Free(channelSlots, ChannelLimit)
      BY <1>0, <2>2, <2>8 DEF ReserveChannel, WorkerGoes
    <3>2. ~HoldsChannel(h) /\ HoldsChannel(h)' /\ ~Opens(h) /\ ~Opens(h)'
      BY <2>2, <2>3, <3>1 DEF HoldsChannel, Opens, Slotted, Trying
    <3>3. ChannelCount'
      BY <1>0, <2>7, <3>1, <3>2, ChannelsCountMore
    <3>4. PendingCount'
      BY <1>0, <2>3, <2>7, <3>1, <3>2, PendingSame
    <3> QED
      BY <3>1, <3>3, <3>4 DEF Counts, PendingMoves
  <2>9. CASE NoChannel(f)
    <3>1. /\ worker[f] = "reserve" /\ conn'[h] = "gone" /\ UNCHANGED <<pending, channelSlots>>
      BY <1>0, <2>2, <2>9 DEF NoChannel, WorkerGoes, Drop
    <3>2. ~HoldsChannel(h) /\ ~HoldsChannel(h)' /\ ~Opens(h) /\ ~Opens(h)'
      BY <2>2, <3>1 DEF HoldsChannel, Opens, Slotted, Trying
    <3>3. ChannelCount'
      BY <1>0, <2>7, <3>1, <3>2, ChannelsCountSame
    <3>4. PendingCount'
      BY <1>0, <2>3, <2>7, <3>1, <3>2, PendingSame
    <3> QED
      BY <3>1, <3>3, <3>4 DEF Counts, PendingMoves
  <2>10. CASE BeginOpen(f)
    <3>1. /\ worker[f] = "open" /\ worker'[f] = "start" /\ conn'[h] = "hand" /\ channelSlots' = channelSlots /\ stage[f] = "open"
          /\ pending' = [pending EXCEPT ![f] = @ + 1]
      BY <1>0, <2>2, <2>10 DEF BeginOpen, WorkerGoes
    <3>2. HoldsChannel(h) /\ HoldsChannel(h)' /\ ~Opens(h) /\ Opens(h)'
      BY <2>2, <2>3, <3>1 DEF HoldsChannel, Opens, Slotted, Trying
    <3>3. ChannelCount'
      BY <1>0, <2>7, <3>1, <3>2, ChannelsCountSame
    <3>4. PendingCount'
      BY <1>0, <2>2, <2>3, <2>7, <3>1, <3>2, PendingMore
    <3>5. PendingMoves
      BY <1>0, <3>1 DEF PendingMoves
    <3> QED
      BY <3>3, <3>4, <3>5 DEF Counts
  <2>11. CASE NoOpen(f)
    <3>1. /\ worker[f] = "open" /\ conn'[h] = "gone" /\ pending' = pending /\ channelSlots' = channelSlots - 1
      BY <1>0, <2>2, <2>11 DEF NoOpen, WorkerGoes, Drop
    <3>2. HoldsChannel(h) /\ ~HoldsChannel(h)' /\ ~Opens(h) /\ ~Opens(h)'
      BY <2>2, <3>1 DEF HoldsChannel, Opens, Slotted, Trying
    <3>3. ChannelCount'
      BY <1>0, <2>7, <3>1, <3>2, ChannelsCountLess
    <3>4. PendingCount'
      BY <1>0, <2>3, <2>7, <3>1, <3>2, PendingSame
    <3> QED
      BY <3>1, <3>3, <3>4 DEF Counts, PendingMoves
  <2>12. CASE StartConn(f)
    <3>1. /\ worker[f] = "start" /\ conn'[h] = "attempt" /\ UNCHANGED <<pending, channelSlots>>
      BY <1>0, <2>2, <2>12 DEF StartConn, WorkerGoes
    <3>2. HoldsChannel(h) /\ HoldsChannel(h)' /\ Opens(h) /\ Opens(h)'
      BY <2>2, <3>1 DEF HoldsChannel, Opens, Slotted, Trying
    <3>3. ChannelCount'
      BY <1>0, <2>7, <3>1, <3>2, ChannelsCountSame
    <3>4. PendingCount'
      BY <1>0, <2>3, <2>7, <3>1, <3>2, PendingSame
    <3> QED
      BY <3>1, <3>3, <3>4 DEF Counts, PendingMoves
  <2>13. CASE StartConnRefused(f)
    <3>1. /\ worker[f] = "start" /\ conn'[h] = "gone" /\ channelSlots' = channelSlots - 1
          /\ pending' = [pending EXCEPT ![f] = @ - 1]
      BY <1>0, <2>2, <2>13 DEF StartConnRefused, WorkerGoes, Drop
    <3>2. HoldsChannel(h) /\ ~HoldsChannel(h)' /\ Opens(h) /\ ~Opens(h)'
      BY <2>2, <3>1 DEF HoldsChannel, Opens, Slotted, Trying
    <3>3. ChannelCount'
      BY <1>0, <2>7, <3>1, <3>2, ChannelsCountLess
    <3>4. PendingCount' /\ pending[f] > 0
      BY <1>0, <2>2, <2>3, <2>7, <3>1, <3>2, PendingLess
    <3>5. PendingMoves
      BY <1>0, <3>1, <3>4 DEF PendingMoves
    <3> QED
      BY <3>3, <3>4, <3>5 DEF Counts
  <2> QED
    BY <1>2, <2>8, <2>9, <2>10, <2>11, <2>12, <2>13
<1>3. CASE \/ ResponseKnown(f) \/ ResponseCanceled(f) \/ BeginAccept(f) \/ AcceptRetried(f) \/ AcceptStops(f)
           \/ WorkerCloses(f) \/ WorkerWaited(f) \/ WorkerDeletes(f) \/ WorkerEnds(f)
  <2>1. UNCHANGED <<conn, of, pending, channelSlots>>
    BY <1>3 DEF ResponseKnown, ResponseCanceled, BeginAccept, AcceptRetried, AcceptStops,
       WorkerCloses, WorkerWaited, WorkerDeletes, WorkerDeletesFrom, WorkerEnds, WorkerMoves
  <2>2. PICK to : worker[f] \notin Carrying /\ worker' = [worker EXCEPT ![f] = to]
    BY <1>3 DEF ResponseKnown, ResponseCanceled, BeginAccept, AcceptRetried, AcceptStops,
       WorkerCloses, WorkerWaited, WorkerDeletes, WorkerDeletesFrom, WorkerEnds, WorkerMoves, WorkerGoes, Carrying
  <2>3. \A g \in Forwards : worker[g] \in Carrying => worker'[g] = worker[g]
    BY <1>0, <2>2
  <2>4. Same
    BY <1>0, <2>1, <2>3, HeldSame
  <2>5. ChannelCount' /\ PendingCount'
    BY <1>0, <2>1, <2>4, ChannelsCountSame, PendingSame
  <2> QED
    BY <2>1, <2>5 DEF Counts, PendingMoves
<1> QED
  BY <1>1, <1>2, <1>3 DEF WorkerSteps, WorkerRuns

LEMMA ConnCounts ==
  ASSUME ForwardInv, ConnTypes, ConnInv, Counts, NEW c \in Conns, ConnSteps(c), UNCHANGED <<unix, worker, of>>
  PROVE  Counts' /\ PendingMoves
<1>0. ChannelCount /\ PendingCount /\ conn \in [Conns -> ConnPlaces] /\ pending \in [Forwards -> Nat] /\ unix \in BOOLEAN
  BY DEF ForwardInv, ForwardTypes, Counts, PendingCount, ConnTypes
<1>1. PICK p : conn' = [conn EXCEPT ![c] = p]
  BY ConnStepPlace
<1>2. conn'[c] = p /\ \A d \in Conns : d # c => conn'[d] = conn[d]
  BY <1>0, <1>1
<1>3. \A d \in Conns : d # c => (HoldsChannel(d)' <=> HoldsChannel(d)) /\ (Opens(d)' <=> Opens(d))
  BY <1>2 DEF HoldsChannel, Opens
<1>4. CASE /\ UNCHANGED <<pending, channelSlots>> /\ conn[c] \in Slotted /\ p \in Slotted
           /\ conn[c] \in Trying <=> p \in Trying
  <2>1. HoldsChannel(c) /\ HoldsChannel(c)' /\ (Opens(c)' <=> Opens(c))
    BY <1>2, <1>4 DEF HoldsChannel, Opens, Slotted, Trying
  <2>2. ChannelCount' /\ PendingCount'
    BY <1>0, <1>3, <1>4, <2>1, ChannelsCountSame, PendingSame
  <2> QED
    BY <1>4, <2>2 DEF Counts, PendingMoves
<1>5. CASE /\ pending' = [pending EXCEPT ![of[c]] = @ - 1] /\ channelSlots' = channelSlots
           /\ conn[c] \in Trying /\ p \in Slotted \ Trying
  <2>1. HoldsChannel(c) /\ HoldsChannel(c)' /\ Opens(c) /\ ~Opens(c)'
    BY <1>2, <1>5 DEF HoldsChannel, Opens, Slotted, Trying
  <2>2. PICK f \in Forwards : f = of[c]
    BY <1>5 DEF ConnInv, ConnPlace, ConnTypes, Trying
  <2>3. ChannelCount'
    BY <1>0, <1>3, <1>5, <2>1, ChannelsCountSame
  <2>4. PendingCount' /\ pending[f] > 0
    BY <1>0, <1>3, <1>5, <2>1, <2>2, PendingLess
  <2>5. PendingMoves
    BY <1>0, <1>5, <2>2, <2>4 DEF PendingMoves
  <2> QED
    BY <2>3, <2>4, <2>5 DEF Counts
<1>6. CASE CleansUp(c) \/ ConnEnds(c)
  <2>1. /\ conn[c] \in {"cleanup", "half"} /\ p \in {"half", "gone"} /\ pending' = pending
    BY <1>0, <1>2, <1>6 DEF CleansUp, ConnEnds, ConnGoes
  <2>2. ~Opens(c) /\ ~Opens(c)'
    BY <1>2, <2>1 DEF Opens, Trying
  <2>3. PendingCount'
    BY <1>0, <1>3, <2>1, <2>2, PendingSame
  <2>4. \/ channelSlots' = channelSlots /\ (HoldsChannel(c)' <=> HoldsChannel(c))
        \/ channelSlots' = channelSlots - 1 /\ HoldsChannel(c) /\ ~HoldsChannel(c)'
    <3>1. CASE CleansUp(c)
      <4>1. conn[c] = "cleanup" /\ conn'[c] = "half" /\ channelSlots' = IF unix THEN channelSlots ELSE channelSlots - 1
        BY <1>0, <3>1 DEF CleansUp, ConnGoes
      <4> QED
        BY <1>0, <4>1 DEF HoldsChannel, Slotted, Trying
    <3>2. CASE ConnEnds(c)
      <4>1. conn[c] = "half" /\ conn'[c] = "gone" /\ channelSlots' = IF unix THEN channelSlots - 1 ELSE channelSlots
        BY <1>0, <3>2 DEF ConnEnds, ConnGoes
      <4> QED
        BY <1>0, <4>1 DEF HoldsChannel, Slotted, Trying
    <3> QED
      BY <1>6, <3>1, <3>2
  <2>5. ChannelCount'
    BY <1>0, <1>3, <2>4, ChannelsCountSame, ChannelsCountLess
  <2> QED
    BY <2>1, <2>3, <2>5 DEF Counts, PendingMoves
<1>7. CASE Attempt(c) \/ OpenRaced(c) \/ Retry(c) \/ Drains(c) \/ FailureTolerated(c) \/ Escalated(c) \/ FailureCloses(c) \/ CopyEnds(c)
  <2>1. /\ UNCHANGED <<pending, channelSlots>> /\ conn[c] \in Slotted /\ conn'[c] \in Slotted
        /\ conn[c] \in Trying <=> conn'[c] \in Trying
    BY <1>0, <1>7 DEF Attempt, AttemptIf, OpenRaced, Retry, Drains, FailureTolerated, Escalated, FailureCloses, CopyEnds,
       ConnMoves, ConnGoes, StillHeld, Slotted, Trying
  <2> QED
    BY <1>2, <1>4, <2>1
<1>8. CASE Opened(c) \/ OpenFailed(c) \/ OpenStopped(c) \/ OpenTimesOut(c)
  <2>1. /\ pending' = [pending EXCEPT ![of[c]] = @ - 1] /\ channelSlots' = channelSlots
        /\ conn[c] \in Trying /\ conn'[c] \in Slotted \ Trying
    BY <1>0, <1>8 DEF Opened, OpenFailed, OpenStopped, OpenTimesOut, OpenTimesOutIn, OpenReturns, ConnGoes, StillHeld, Selects,
       Slotted, Trying
  <2> QED
    BY <1>2, <1>5, <2>1
<1> QED
  BY <1>6, <1>7, <1>8 DEF ConnSteps, ConnRuns

\* Nothing else counts.
LEMMA OtherCounts ==
  ASSUME ForwardInv, ConnTypes, ConnInv, Counts, UNCHANGED <<unix, conn, of, pending, channelSlots>>,
         \A f \in Forwards : worker[f] \in Carrying => worker'[f] = worker[f]
  PROVE  Counts' /\ PendingMoves
<1>1. \A d \in Conns : (HoldsChannel(d)' <=> HoldsChannel(d)) /\ (Opens(d)' <=> Opens(d))
  BY HeldSame
<1>2. ChannelCount' /\ PendingCount'
  BY <1>1, ChannelsCountSame, PendingSame DEF Counts
<1> QED
  BY <1>2 DEF Counts, PendingMoves

LEMMA CountStep ==
  ASSUME ForwardInv, ConnTypes, ConnInv, Counts, [Next]_vars
  PROVE  Counts' /\ PendingMoves
<1>0. StageType
  BY DEF ForwardInv, ForwardTypes
<1>1. CASE RequestSteps
  <2>1. UNCHANGED <<unix, conn, of, pending, channelSlots>> /\ \A f \in Forwards : worker[f] \in Carrying => worker'[f] = worker[f]
    BY <1>1, RequestWorkers DEF Carrying
  <2> QED
    BY <2>1, OtherCounts
<1>2. CASE EndSteps
  BY <1>0, <1>2, EndSame, OtherCounts
<1>3. ASSUME NEW f \in Forwards, Shuts(f) PROVE Counts' /\ PendingMoves
  BY <1>0, <1>3, ShutsSame, OtherCounts DEF ForwardsSame
<1>4. ASSUME NEW f \in Forwards, WorkerSteps(f) PROVE Counts' /\ PendingMoves
  BY <1>4, WorkerCounts
<1>5. ASSUME NEW c \in Conns, ConnSteps(c) PROVE Counts' /\ PendingMoves
  BY <1>0, <1>5, ConnSame, ConnCounts DEF ForwardsSame
<1>6. ASSUME NEW c \in Conns, OpenerSteps(c) PROVE Counts' /\ PendingMoves
  BY <1>0, <1>6, OpenerSame, OtherCounts DEF ForwardsSame
<1> QED
  BY <1>1, <1>2, <1>3, <1>4, <1>5, <1>6, StepKinds

--------------------------------------------------------------------------------
(* After its worker has waited, no open of a forward is under way or begins. *)

Waited == {"delete", "unregister", "ended"}
WaitedInv == \A f \in Forwards : worker[f] \in Waited => pending[f] = 0

\* Where a worker has come from.
CameFrom(f) ==
  /\ worker'[f] \in Waited => worker[f] \in Waited \/ (worker[f] = "wait" /\ pending[f] = 0 /\ UNCHANGED pending)
  /\ worker'[f] # "off" => worker[f] # "off" \/ (StartForward /\ f = subject)

LEMMA WorkersBefore ==
  ASSUME ForwardInv, [Next]_vars
  PROVE  \A f \in Forwards : CameFrom(f)
<1>0. StageType /\ ForwardTypes
  BY DEF ForwardInv, ForwardTypes
<1>1. CASE RequestSteps
  <2>1. UNCHANGED worker \/ StartForward
    BY <1>1 DEF RequestSteps, RequestRuns, RequestRefused, ReserveForward, Listen, ListenFails, RegisterForward, RegisterDuplicate,
       GivesUp, StartRefused, RejectClosed, AcceptForward, ReplyFails, CancelForward, CancelClosed, CancelDeletes,
       CancelDeletesWhen, CancelReplied, RequestLoopEnds, ForwardSame
  <2>2. CASE StartForward
    <3>1. worker' = [worker EXCEPT ![subject] = "response"]
      BY <2>2 DEF StartForward
    <3>2. \A f \in Forwards : worker'[f] = worker[f] \/ (f = subject /\ worker'[f] = "response")
      BY <1>0, <3>1 DEF ForwardTypes
    <3> QED
      BY <2>2, <3>2 DEF CameFrom, Waited
  <2>3. CASE UNCHANGED worker
    BY <2>3 DEF CameFrom
  <2> QED
    BY <2>1, <2>2, <2>3
<1>2. CASE UNCHANGED worker
  BY <1>2 DEF CameFrom
<1>3. ASSUME NEW f \in Forwards, WorkerSteps(f) PROVE \A g \in Forwards : CameFrom(g)
  <2>1. PICK from, to : WorkerGoes(f, from, to) /\ from # "off"
                        /\ (to \in Waited => from \in Waited \/ (WorkerWaited(f) /\ from = "wait"))
    <3>1. CASE WorkerWaited(f)
      BY <3>1 DEF WorkerWaited, WorkerMoves
    <3>2. CASE ~WorkerWaited(f)
      BY <1>3, <3>2 DEF WorkerSteps, WorkerRuns, ResponseKnown, ResponseCanceled, BeginAccept, AcceptRetried, AcceptStops, Accept,
         ReserveChannel, NoChannel, BeginOpen, NoOpen, StartConn, StartConnRefused, WorkerCloses, WorkerDeletes, WorkerDeletesFrom,
         WorkerEnds, WorkerMoves, Waited
    <3> QED
      BY <3>1, <3>2
  <2>2. worker[f] = from /\ worker'[f] = to /\ \A g \in Forwards : g # f => worker'[g] = worker[g]
    BY <1>0, <2>1 DEF WorkerGoes, ForwardTypes
  <2>3. WorkerWaited(f) => pending[f] = 0 /\ UNCHANGED pending
    BY DEF WorkerWaited, WorkerMoves
  <2> QED
    BY <2>1, <2>2, <2>3 DEF CameFrom
<1>4. EndSteps => UNCHANGED worker
  BY <1>0, EndSame DEF ForwardsSame
<1>5. \A f \in Forwards : Shuts(f) => UNCHANGED worker
  BY <1>0, ShutsSame DEF ForwardsSame
<1>6. \A c \in Conns : ConnSteps(c) \/ OpenerSteps(c) => UNCHANGED worker
  BY <1>0, ConnSame, OpenerSame DEF ForwardsSame
<1>7. RequestSteps \/ UNCHANGED worker \/ \E f \in Forwards : WorkerSteps(f)
  BY <1>4, <1>5, <1>6, StepKinds
<1> QED
  BY <1>1, <1>2, <1>3, <1>7

LEMMA WaitedStep ==
  ASSUME ForwardInv, WaitedInv, PendingCount, PendingMoves, [Next]_vars
  PROVE  WaitedInv'
<1> SUFFICES ASSUME NEW f \in Forwards, worker'[f] \in Waited PROVE pending'[f] = 0
  BY DEF WaitedInv
<1>1. worker[f] \in Waited \/ (worker[f] = "wait" /\ pending[f] = 0 /\ UNCHANGED pending)
  BY WorkersBefore DEF CameFrom
<1>2. pending[f] = 0
  BY <1>1 DEF WaitedInv
<1>3. pending'[f] = pending[f] \/ worker'[f] = "start"
  BY <1>2 DEF PendingMoves
<1> QED
  BY <1>2, <1>3 DEF Waited

CountInv == ForwardCount /\ Counts /\ WaitedInv

\* Reserving and releasing slots, and beginOpen and endOpen, go with who holds them.
THEOREM CountInvHolds == Spec => []CountInv
<1>1. Init => CountInv
  <2> SUFFICES ASSUME Init PROVE CountInv
    OBVIOUS
  <2>1. ForwardHolders = {}
    BY ForwardHoldersAre DEF Init, HoldsForward
  <2>2. ChannelHolders = {}
    BY ChannelHoldersAre DEF Init, HoldsChannel, Slotted, Trying
  <2>3. \A f \in Forwards : PendingOpens(f) = {}
    BY PendingOpensAre DEF Init, Opens, Trying
  <2>4. ForwardCount /\ ChannelCount
    BY <2>1, <2>2, ForwardHoldersAre, ChannelHoldersAre, ForwardLimitsAssumption DEF Init, ForwardCount, ChannelCount
  <2>5. PendingCount
    BY <2>3, PendingOpensAre DEF Init, PendingCount
  <2>6. WaitedInv
    BY DEF Init, WaitedInv, Waited
  <2> QED
    BY <2>4, <2>5, <2>6 DEF CountInv, Counts
<1>2. ForwardInv /\ ConnTypes /\ ConnInv /\ CountInv /\ [Next]_vars => CountInv'
  BY ForwardCountStep, CountStep, WaitedStep DEF CountInv, Counts
<1> QED
  BY <1>1, <1>2, ForwardInvHolds, ConnInvHolds, PTL DEF Spec

\* Both limiters count exactly the listeners and connections there are, within their
\* limits; forward.pending counts the opens under way, and none is under way or begins
\* after the worker of the forward has waited for them (waitOpens, beginOpen, endOpen).
THEOREM CountsExactHolds == Spec => []CountsExact
<1>1. CountInv => CountsExact
  BY DEF CountInv, Counts, ForwardCount, ChannelCount, PendingCount, WaitedInv, Waited, CountsExact
<1> QED
  BY <1>1, CountInvHolds, PTL

--------------------------------------------------------------------------------
(* How long a forward keeps its key. *)

\* A forward that was started and listens, or is not done with its opens.
Keeps(f) == worker[f] # "off" /\ (stage[f] # "closed" \/ pending[f] > 0)

\* It has its entry in the table until then, ...
KeyKept == \A f \in Forwards : Keeps(f) => table[KeyOf[f]] = f

\* ... and the client knows no other forward of that key.
KnownInv == \A f \in Forwards : reply[f] = "accepted" /\ Keeps(f) => current[KeyOf[f]] \in {None, f}

\* The request loop closes what runs and does nothing else to it.
LEMMA RequestStages ==
  ASSUME ForwardInv, RequestSteps
  PROVE  \A f \in Forwards : worker[f] # "off" => stage'[f] = stage[f] \/ (stage[f] = "open" /\ stage'[f] = "closing")
<1>1. ForwardTypes /\ StageType /\ SubjectInv /\ WorkerInv
  BY DEF ForwardInv, ForwardTypes
<1>2. \/ stage' = stage \/ (\E g : CallClose(g))
      \/ \E g : (stage[g] = "new" \/ worker[g] = "off") /\ \E x : stage' = [stage EXCEPT ![g] = x]
  <2>1. CASE RequestRuns \/ \E k \in Keys : CancelForward(k)
    BY <2>1 DEF RequestRuns, RegisterForward, RegisterDuplicate, GivesUp, StartForward, StartRefused, RejectClosed,
       AcceptForward, ReplyFails, CancelForward, CancelClosed, CancelDeletes, CancelDeletesWhen, CancelReplied, RequestLoopEnds,
       ForwardSame
  <2>2. CASE \E f \in Forwards : RequestRefused(f) \/ ReserveForward(f)
    BY <2>2 DEF RequestRefused, ReserveForward, Over
  <2>3. CASE Listen \/ ListenFails
    <3>1. req = "listen" /\ \E x : stage' = [stage EXCEPT ![subject] = x]
      BY <2>3 DEF Listen, ListenFails, RequestGoes, Over
    <3>2. worker[subject] = "off"
      BY <1>1, <3>1 DEF SubjectInv
    <3> QED
      BY <3>1, <3>2
  <2> QED
    BY <2>1, <2>2, <2>3 DEF RequestSteps
<1>3. CASE stage' = stage \/ \E g : CallClose(g)
  BY <1>1, <1>3, CallCloseStage
<1>4. ASSUME NEW g, stage[g] = "new" \/ worker[g] = "off", NEW x, stage' = [stage EXCEPT ![g] = x]
      PROVE  \A f \in Forwards : worker[f] # "off" => stage'[f] = stage[f]
  <2>1. g \in Forwards => worker[g] = "off"
    BY <1>1, <1>4 DEF WorkerInv, WorkerOf, Live
  <2> QED
    BY <1>1, <1>4, <2>1 DEF StageType
<1> QED
  BY <1>2, <1>3, <1>4

\* A forward that keeps its key after a step kept it before, or was started with it.
LEMMA KeepsBefore ==
  ASSUME ForwardInv, PendingCount, PendingMoves, [Next]_vars, NEW f \in Forwards, Keeps(f)'
  PROVE  Keeps(f) \/ (StartForward /\ f = subject)
<1>1. worker[f] # "off" \/ (StartForward /\ f = subject)
  BY WorkersBefore DEF Keeps, CameFrom
<1>2. pending'[f] = pending[f] \/ pending[f] > 0 \/ stage[f] = "open"
  BY DEF PendingMoves
<1>3. StageType
  BY DEF ForwardInv, ForwardTypes
<1>4. worker[f] # "off" => stage'[f] = stage[f] \/ stage[f] \in Held
  <2>1. CASE RequestSteps
    BY <2>1, RequestStages DEF Held
  <2>2. CASE StageAdvances
    BY <2>2 DEF StageAdvances
  <2>3. \A g \in Forwards : WorkerSteps(g) => StageAdvances
    BY <1>3, WorkerKinds, SameStage, CallCloseStage
  <2>4. EndSteps => StageAdvances
    BY <1>3, EndSame DEF ForwardsSame
  <2>5. \A g \in Forwards : Shuts(g) => StageAdvances
    BY <1>3, ShutsSame DEF ForwardsSame
  <2>6. \A c \in Conns : ConnSteps(c) \/ OpenerSteps(c) => StageAdvances
    BY <1>3, ConnSame, OpenerSame DEF ForwardsSame
  <2> QED
    BY <2>1, <2>2, <2>3, <2>4, <2>5, <2>6, StepKinds
<1> QED
  BY <1>1, <1>2, <1>4 DEF Keeps, Held

\* Who removes an entry removes that of a forward that no longer keeps its key.
LEMMA EntriesKept ==
  ASSUME ForwardInv, WaitedInv, PendingCount, [Next]_vars, NEW f \in Forwards, Keeps(f), table[KeyOf[f]] = f
  PROVE  table'[KeyOf[f]] = f
<1>1. ForwardTypes /\ StageType /\ SubjectInv /\ TableInv /\ WorkerInv
  BY DEF ForwardInv, ForwardTypes
<1>2. KeyOf[f] \in Keys /\ f # None
  BY KeyIs
<1>3. CASE table' = table
  BY <1>3
<1>4. ASSUME NEW g \in Forwards, ~Keeps(g), table' = DeleteFrom(g) PROVE table'[KeyOf[f]] = f
  <2>1. table'[KeyOf[f]] = table[KeyOf[f]] \/ table[KeyOf[f]] = g
    BY <1>1, <1>2, <1>4, DeleteEntry
  <2> QED
    BY <1>4, <2>1
<1>5. CASE RequestSteps
  <2>1. \/ table' = table \/ RegisterForward
        \/ StartRefused \/ CancelDeletes
    BY <1>5 DEF RequestSteps, RequestRuns, RequestRefused, ReserveForward, Listen, ListenFails, RegisterDuplicate,
       StartForward, RejectClosed, AcceptForward, ReplyFails, CancelForward, CancelClosed,
       CancelReplied, RequestLoopEnds, TablesSame
  <2>2. CASE RegisterForward
    <3>1. table[KeyOf[subject]] = None /\ table' = [table EXCEPT ![KeyOf[subject]] = subject]
      BY <2>2 DEF RegisterForward
    <3> QED
      BY <1>1, <1>2, <3>1 DEF ForwardTypes
  <2>3. CASE StartRefused
    <3>1. req = "start" /\ table' = DeleteFrom(subject)
      BY <2>3 DEF StartRefused, GivesUp, RequestGoes
    <3>2. subject \in Forwards /\ worker[subject] = "off"
      BY <1>1, <3>1, SubjectIs DEF SubjectInv
    <3> QED
      BY <1>4, <3>1, <3>2 DEF Keeps
  <2>4. CASE CancelDeletes
    <3>1. req = "cancelWait" /\ table' = DeleteFrom(subject) /\ pending[subject] = 0
      BY <2>4 DEF CancelDeletes, CancelDeletesWhen, RequestGoes
    <3>2. subject \in Forwards /\ stage[subject] = "closed"
      BY <1>1, <3>1, SubjectIs DEF SubjectInv
    <3> QED
      BY <1>4, <3>1, <3>2 DEF Keeps
  <2> QED
    BY <1>3, <2>1, <2>2, <2>3, <2>4
<1>6. ASSUME NEW g \in Forwards, WorkerSteps(g) PROVE table'[KeyOf[f]] = f
  <2>1. table' = table \/ (worker[g] = "delete" /\ table' = DeleteFrom(g))
    BY <1>6, WorkerKinds DEF WorkerGoes
  <2>2. worker[g] = "delete" => stage[g] = "closed" /\ pending[g] = 0
    BY <1>1 DEF WorkerInv, WorkerOf, WaitedInv, Waited
  <2> QED
    BY <1>3, <1>4, <2>1, <2>2 DEF Keeps
<1>7. EndSteps => table' = table
  BY <1>1, EndSame
<1>8. \A g \in Forwards : Shuts(g) => table' = table
  BY <1>1, ShutsSame DEF ForwardsSame
<1>9. \A c \in Conns : ConnSteps(c) \/ OpenerSteps(c) => table' = table
  BY <1>1, ConnSame, OpenerSame DEF ForwardsSame
<1> QED
  BY <1>3, <1>5, <1>6, <1>7, <1>8, <1>9, StepKinds

LEMMA KeyKeptStep ==
  ASSUME ForwardInv, WaitedInv, PendingCount, PendingMoves, KeyKept, [Next]_vars
  PROVE  KeyKept'
<1> SUFFICES ASSUME NEW f \in Forwards, Keeps(f)' PROVE table'[KeyOf[f]] = f
  BY DEF KeyKept
<1>1. CASE StartForward /\ f = subject
  <2>1. req = "start" /\ table' = table
    BY <1>1 DEF StartForward, RequestGoes, TablesSame
  <2> QED
    BY <1>1, <2>1 DEF ForwardInv, SubjectInv
<1>2. CASE Keeps(f)
  BY <1>2, EntriesKept DEF KeyKept
<1> QED
  BY <1>1, <1>2, KeepsBefore

LEMMA KnownStep ==
  ASSUME ForwardInv, PendingCount, PendingMoves, KeyKept, KnownInv, [Next]_vars
  PROVE  KnownInv'
<1> SUFFICES ASSUME NEW f \in Forwards, reply'[f] = "accepted", Keeps(f)' PROVE current'[KeyOf[f]] \in {None, f}
  BY DEF KnownInv
<1>1. ForwardTypes /\ StageType /\ SubjectInv /\ WorkerInv /\ KeyOf[f] \in Keys /\ f # None
  BY KeyIs DEF ForwardInv, ForwardTypes
<1>2. CASE AcceptForward
  <2>1. /\ req = "reply" /\ current' = [current EXCEPT ![KeyOf[subject]] = subject] /\ ~StartForward
        /\ reply' = [reply EXCEPT ![subject] = "accepted"]
    BY <1>2 DEF AcceptForward, RequestGoes, StartForward
  <2>2. subject \in Forwards /\ KeyOf[subject] \in Keys
    BY <1>1, <2>1, SubjectIs
  <2>3. Keeps(f)
    BY <2>1, KeepsBefore
  <2>4. CASE f = subject
    BY <1>1, <2>1, <2>4 DEF ForwardTypes
  <2>5. CASE f # subject
    <3>1. reply[f] = "accepted"
      BY <1>1, <2>1, <2>5 DEF ForwardTypes
    <3>2. table[KeyOf[f]] = f /\ current[KeyOf[f]] \in {None, f}
      BY <2>3, <3>1 DEF KeyKept, KnownInv
    <3>3. table[KeyOf[subject]] \in {subject, None}
      BY <1>1, <2>1 DEF SubjectInv
    <3>4. KeyOf[f] # KeyOf[subject]
      BY <1>1, <2>5, <3>2, <3>3
    <3> QED
      BY <1>1, <2>1, <3>2, <3>4 DEF ForwardTypes
  <2> QED
    BY <2>4, <2>5
<1>3. CASE ~AcceptForward
  <2>1. current' = current \/ \E k : current' = [current EXCEPT ![k] = None]
    <3>1. RequestSteps => current' = current \/ \E k : current' = [current EXCEPT ![k] = None]
      BY <1>3 DEF RequestSteps, RequestRuns, RequestRefused, ReserveForward, Listen, ListenFails, RegisterForward,
         RegisterDuplicate, GivesUp, StartForward, StartRefused, RejectClosed, ReplyFails, CancelForward, CancelClosed, CancelDeletes,
         CancelDeletesWhen, CancelReplied, RequestLoopEnds, TablesSame
    <3>2. \A g \in Forwards : WorkerSteps(g) => current' = current
      BY WorkerKinds
    <3>3. EndSteps => current' = current
      BY <1>1, EndSame
    <3>4. \A g \in Forwards : Shuts(g) => current' = current
      BY <1>1, ShutsSame DEF ForwardsSame
    <3>5. \A c \in Conns : ConnSteps(c) \/ OpenerSteps(c) => current' = current
      BY <1>1, ConnSame, OpenerSame DEF ForwardsSame
    <3> QED
      BY <3>1, <3>2, <3>3, <3>4, <3>5, StepKinds
  <2>2. reply[f] = "accepted"
    <3>1. RequestSteps => reply' = reply \/ \E g : reply' = [reply EXCEPT ![g] = "failed"]
      BY <1>3 DEF RequestSteps, RequestRuns, RequestRefused, ReserveForward, Listen, ListenFails, RegisterForward,
         RegisterDuplicate, GivesUp, StartForward, StartRefused, RejectClosed, ReplyFails, CancelForward, CancelClosed, CancelDeletes,
         CancelDeletesWhen, CancelReplied, RequestLoopEnds
    <3>2. \A g \in Forwards : WorkerSteps(g) => reply' = reply
      BY WorkerKinds
    <3>3. EndSteps => reply' = reply
      BY <1>1, EndSame DEF request
    <3>4. \A g \in Forwards : Shuts(g) => reply' = reply
      BY <1>1, ShutsSame DEF ForwardsSame
    <3>5. \A c \in Conns : ConnSteps(c) \/ OpenerSteps(c) => reply' = reply
      BY <1>1, ConnSame, OpenerSame DEF ForwardsSame
    <3>6. reply' = reply \/ \E g : reply' = [reply EXCEPT ![g] = "failed"]
      BY <3>1, <3>2, <3>3, <3>4, <3>5, StepKinds
    <3> QED
      BY <1>1, <3>6 DEF ForwardTypes
  <2>3. Keeps(f)
    <3>1. ~(StartForward /\ f = subject)
      BY <1>1, <2>2 DEF StartForward, RequestGoes, SubjectInv, WorkerInv, WorkerOf
    <3> QED
      BY <3>1, KeepsBefore
  <2>4. current[KeyOf[f]] \in {None, f}
    BY <2>2, <2>3 DEF KnownInv
  <2> QED
    BY <1>1, <2>1, <2>4 DEF ForwardTypes
<1> QED
  BY <1>2, <1>3

\* Neither cancelForward nor a worker removes the entry of a forward that listens or
\* has opens pending, and until then the client is told of no other forward of its key.
THEOREM KeysHold == Spec => [](KeyKept /\ KnownInv)
<1>1. Init => KeyKept /\ KnownInv
  BY DEF Init, KeyKept, KnownInv, Keeps
<1>2. ForwardInv /\ ConnTypes /\ ConnInv /\ CountInv /\ KeyKept /\ KnownInv /\ [Next]_vars => KeyKept' /\ KnownInv'
  BY CountStep, KeyKeptStep, KnownStep DEF CountInv, Counts
<1> QED
  BY <1>1, <1>2, ForwardInvHolds, ConnInvHolds, CountInvHolds, PTL DEF Spec

--------------------------------------------------------------------------------
(* What follows. *)

\* A forward the client was granted can be canceled as long as it listens, and
\* connections are forwarded only under a forward that the client was granted.
THEOREM GrantedForwardsHolds == Spec => []GrantedForwards
<1>1. ForwardInv /\ ConnTypes /\ ConnInv /\ KeyKept => GrantedForwards
  <2> SUFFICES ASSUME ForwardInv, ConnTypes, ConnInv, KeyKept PROVE GrantedForwards
    OBVIOUS
  <2>1. ASSUME NEW f \in Forwards, reply[f] = "accepted", stage[f] = "open" PROVE table[KeyOf[f]] = f
    BY <2>1 DEF ForwardInv, WorkerInv, WorkerOf, KeyKept, Keeps
  <2> QED
    BY <2>1 DEF GrantedForwards, ConnInv, ConnPlace
<1> QED
  BY <1>1, ForwardInvHolds, ConnInvHolds, KeysHold, PTL

\* When handleConn has waited for its workers, no listener, connection, slot or entry
\* of the handler's table is left of the connection's forwards.
THEOREM NothingLeftHolds == Spec => []NothingLeft
<1>1. ForwardInv /\ ConnTypes /\ ConnInv /\ DoneInv /\ CountInv => NothingLeft
  <2> SUFFICES ASSUME ForwardInv, ConnTypes, ConnInv, DoneInv, CountInv, end = "done"
               PROVE  /\ \A f \in Forwards : stage[f] \in {"new", "refused", "closed"}
                      /\ \A c \in Conns : ~sock[c]
                      /\ forwardSlots = 0 /\ channelSlots = 0
                      /\ \A k \in Keys : table[k] = None
    BY DEF NothingLeft
  <2>1. /\ req = "over" /\ (\A f \in Forwards : worker[f] \in {"off", "ended"})
        /\ \A c \in Conns : conn[c] \in {"new", "gone"}
    BY DEF DoneInv
  <2>2. ASSUME NEW f \in Forwards PROVE stage[f] \in {"new", "refused", "closed"}
    BY <2>1 DEF ForwardInv, ForwardTypes, StageType, Stages, WorkerInv, WorkerOf, Held
  <2>3. \A c \in Conns : ~sock[c]
    BY <2>1 DEF ConnInv, ConnPlace
  <2>4. forwardSlots = 0
    <3>1. ForwardHolders = {}
      BY <2>1, <2>2, ForwardHoldersAre DEF HoldsForward
    <3> QED
      BY <3>1, ForwardHoldersAre DEF CountInv, ForwardCount
  <2>5. channelSlots = 0
    <3>1. ChannelHolders = {}
      BY <2>1, ChannelHoldersAre DEF HoldsChannel, Slotted, Trying
    <3> QED
      BY <3>1, ChannelHoldersAre DEF CountInv, Counts, ChannelCount
  <2>6. ASSUME NEW k \in Keys PROVE table[k] = None
    <3>1. table[k] \in Forwards \cup {None}
      BY DEF ForwardInv, ForwardTypes
    <3> QED
      BY <2>1, <3>1 DEF ForwardInv, TableInv
  <2> QED
    BY <2>2, <2>3, <2>4, <2>5, <2>6
<1> QED
  BY <1>1, ForwardInvHolds, ConnInvHolds, CountInvHolds, PTL

\* No open of an old forward reaches a new one of its key while the connection goes
\* on, but for an open whose forwardedChannelRegistrationTimeout has fired.
THEOREM OldOpenOnlyAfterTimeoutHolds == Spec => OldOpenOnlyAfterTimeout
<1>1. ForwardInv /\ ConnTypes /\ ConnInv /\ OpeningTypes /\ OpenerInv /\ CountInv /\ KnownInv =>
        \A c \in Conns : Misdirected(c) => gaveUp[c]
  <2> SUFFICES ASSUME ForwardInv, ConnTypes, ConnInv, OpenerInv, CountInv, KnownInv, NEW c \in Conns, Misdirected(c), ~gaveUp[c]
               PROVE  FALSE
    BY Zenon
  <2>1. ~Canceled /\ opener[c] = "calling" /\ current[KeyOf[of[c]]] \notin {None, of[c]}
    BY DEF Misdirected
  <2>2. Selecting(c)
    BY <2>1 DEF OpenerInv, OpenerOf
  <2>3. of[c] \in Forwards /\ reply[of[c]] = "accepted" /\ Opens(c)
    BY <2>2 DEF ConnInv, ConnPlace, ConnTypes, Selecting, Selects, Opens, Trying
  <2>4. c \in PendingOpens(of[c])
    BY <2>3, PendingOpensAre
  <2>5. pending[of[c]] \in Nat /\ pending[of[c]] # 0
    BY <2>3, <2>4, PendingOpensAre DEF CountInv, Counts, PendingCount
  <2>6. Keeps(of[c])
    BY <2>3, <2>5 DEF Keeps, ForwardInv, WorkerInv, WorkerOf
  <2> QED
    BY <2>1, <2>3, <2>6 DEF KnownInv
<1> QED
  BY <1>1, ForwardInvHolds, ConnInvHolds, OpenerInvHolds, CountInvHolds, KeysHold, PTL DEF OldOpenOnlyAfterTimeout

\* The type invariant; no counter is ever negative, for which endOpen would panic.
THEOREM ReverseForwardTypes == Spec => []TypeOK
<1>1. ForwardInv /\ ConnTypes /\ OpeningTypes /\ CountInv => TypeOK
  <2> SUFFICES ASSUME ForwardInv, ConnTypes, OpeningTypes, CountInv PROVE TypeOK
    OBVIOUS
  <2>1. forwardSlots \in Nat /\ channelSlots \in Nat
    BY ForwardHoldersAre, ChannelHoldersAre DEF CountInv, Counts, ForwardCount, ChannelCount
  <2>2. pending \in [Forwards -> Nat]
    BY DEF CountInv, Counts, PendingCount
  <2> QED
    BY <2>1, <2>2 DEF TypeOK, ForwardInv, ForwardTypes, StageType, ConnTypes, OpeningTypes
<1> QED
  BY <1>1, ForwardInvHolds, ConnInvHolds, OpenerInvHolds, CountInvHolds, PTL

================================================================================
