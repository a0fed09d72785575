------------------------------ MODULE SessionProofs ------------------------------
(***************************************************************************)
(* A session for every script of its client, every number of channels its  *)
(* handler registers and every size of the signal buffer: the order and    *)
(* the custody of its signals, who is sent to, what Exit has to have       *)
(* stopped, the request timer, the window and the end of the loop.         *)
(***************************************************************************)
EXTENDS SessionRequests, FiniteSetTheorems, SequenceTheorems, TLAPS

--------------------------------------------------------------------------------
(* Steps as the signals see them. *)

\* The variables that deliver signals and breaks; whether the channel is closed does
\* not bear on them.
heldVars == <<ch, sigBuf, drain, send, configVars, exiting, exited, appVars, historyVars>>

\* A goroutine of the application, a drain, the loop's send, or the surroundings.
CallerMoves ==
  \/ Register("main")
  \/ \E c \in Callers : ExitBegins(c) \/ ConfigStep(c)
DrainMoves == \E d \in Drains : DrainStep(d)
SendMoves == loop = "sending" /\ (SendReceived \/ SendPanics \/ SendCanceled \/ SendContextDone \/ SendSettles)
Surroundings == (\E c \in Chans : AppCloses(c)) \/ ContextCanceled

\* The loop takes a signal or a break, or replies to one.
LoopDelivers ==
  /\ loop = "next" /\ taken' = taken + 1
  /\ \/ BufferSignal(taken') /\ loop' = "next"
     \/ (\E k \in Kinds : BeginSend(k, taken')) /\ loop' = "sending"
LoopReplies == loop = "sending" /\ loop' # "sending" /\ taken' = taken /\ SendReplied

\* A step that leaves the signals alone.
Quiet == /\ UNCHANGED heldVars /\ taken' \in {taken, taken + 1}
         /\ loop' = "sending" <=> loop = "sending"

\* Every step of a session is one of these.
LEMMA StepKinds ==
  ASSUME [Next]_vars, taken \in Nat
  PROVE  \/ Quiet \/ LoopDelivers \/ LoopReplies
         \/ UNCHANGED <<taken, loop>> /\ (CallerMoves \/ DrainMoves \/ SendMoves \/ Surroundings)
<1> USE DEF requestVars, sessionVars
<1>0. CASE UNCHANGED vars
  BY <1>0 DEF vars, deliveryVars, Quiet, heldVars
<1>1. CASE RequestStep
  <2>1. CASE SignalBuffered
    BY <2>1 DEF SignalBuffered, Takes, LoopDelivers
  <2>2. CASE SendBegins
    BY <2>2 DEF SendBegins, Takes, Goes, LoopDelivers
  <2>3. CASE CallbackFails
    BY <2>3 DEF CallbackFails, Takes, Goes, Quiet, heldVars
  <2>4. CASE \E fails \in BOOLEAN : AgentAllowed(fails)
    BY <2>4 DEF AgentAllowed, Takes, Goes, Quiet, heldVars, deliveryVars
  <2>5. CASE RequestRefused \/ EnvSet \/ StartAllowed \/ PtyGranted \/ WindowChanged
    BY <2>5 DEF RequestRefused, EnvSet, StartAllowed, PtyGranted, WindowChanged, Takes, Goes, Quiet, heldVars, deliveryVars
  <2>6. CASE SignalMalformed \/ SignalWhileExiting \/ BreakRefused
    BY <2>6 DEF SignalMalformed, SignalWhileExiting, BreakRefused, Takes, Goes, Quiet, heldVars, deliveryVars
  <2> QED
    BY <1>1, <2>1, <2>2, <2>3, <2>4, <2>5, <2>6 DEF RequestStep
<1>2. CASE LoopStep
  <2>1. CASE SendEnds
    BY <2>1 DEF SendEnds, Goes, LoopReplies
  <2>2. CASE SendProceeds(SendPanics \/ SendCanceled \/ SendContextDone \/ SendSettles)
    BY <2>2 DEF SendProceeds, SendMoves
  <2>3. CASE StartResolves \/ StartReplied \/ StartReplyFails \/ WindowTakenOut \/ WindowSent \/ LoopEnds
    BY <2>3 DEF StartResolves, StartReplied, StartReplyFails, WindowTakenOut, WindowSent, LoopEnds, Goes, Quiet,
       heldVars, deliveryVars
  <2> QED
    BY <1>2, <2>1, <2>2, <2>3 DEF LoopStep
<1>3. CASE TimerFires \/ TimerCloses
  BY <1>3 DEF TimerFires, TimerCloses, Quiet, heldVars, deliveryVars
<1>4. CASE SendProceeds(SendReceived)
  BY <1>4 DEF SendProceeds, SendMoves
<1>5. CASE \E d \in Drains : (OwnDrainStep(d) \/ DrainSends(d)) /\ UNCHANGED sessionVars
  BY <1>5 DEF OwnDrainStep, DrainMoves, DrainStep
<1>6. CASE \E c \in Callers : ConfigStep(c) /\ UNCHANGED sessionVars
  BY <1>6 DEF CallerMoves
<1>7. CASE HandlerCalls
  BY <1>7, SessionAssumption DEF HandlerCalls, CallerMoves
<1>8. CASE (\E c \in Chans : AppCloses(c) /\ UNCHANGED sessionVars) \/ (ContextCanceled /\ UNCHANGED sessionVars)
  BY <1>8 DEF Surroundings
<1>9. CASE HandlerReturns
  BY <1>9, SessionAssumption DEF HandlerReturns, CallerMoves, Quiet, heldVars, deliveryVars
<1>10. CASE HandlerRefused \/ HandlerCloses \/ HandlerDone \/ WindowReceived \/ SessionReturns \/ ClientCloses \/ Terminated
  BY <1>10 DEF HandlerRefused, HandlerCloses, HandlerDone, WindowReceived, SessionReturns, ClientCloses, Terminated, Quiet, heldVars,
     deliveryVars, vars
<1> QED
  BY <1>0, <1>1, <1>2, <1>3, <1>4, <1>5, <1>6, <1>7, <1>8, <1>9, <1>10 DEF Next

--------------------------------------------------------------------------------
(* Types. *)
DrainRec == [at : {"off", "take", "send", "end", "done"}, target : Chans \cup {None}, canceled : BOOLEAN, batch : Seq(Nat)]
SendRec == [at : {"idle", "send", "settle", "reply"}, kind : Kinds \cup {"none"}, id : Nat, target : Chans \cup {None},
            canceled : BOOLEAN, result : {"none", "delivered", "closed", "canceled", "context"}]
CallRec == [at : {"idle", "drain", "send", "sigStop", "sigReply", "breakStop", "breakReply"}, kind : Kinds \cup {"none"},
            arg : Chans \cup {None}, wait : Nat, exit : BOOLEAN]

DeliveryTypes ==
  /\ ch \in [Kinds -> Chans \cup {None}] /\ registered \in [Kinds -> Chans \cup {None}]
  /\ sigBuf \in Seq(Nat) /\ delivered \in Seq(Nat) /\ taken \in Nat /\ sigDrain \in Nat
  /\ drain \in [Drains -> DrainRec] /\ send \in SendRec /\ caller \in [Callers -> CallRec]
  /\ regs \in Seq([kind : Kinds, arg : Chans \cup {None}])
  /\ exiting \in BOOLEAN /\ exited \in BOOLEAN

\* The drains that were started are finitely many.
LEMMA UsedDrains == Cardinality({x \in Drains : drain[x].at # "off"}) \in Nat
<1>1. IsFiniteSet(Drains)
  BY FS_Interval, DeliveryAssumption DEF Drains
<1> QED
  BY <1>1, FS_Subset, FS_CardinalityType

\* What taking a channel away and asking for another one leave typed.
LEMMA UnsetTypes ==
  ASSUME DeliveryTypes, NEW k \in Kinds, Unset(k)
  PROVE  ch' \in [Kinds -> Chans \cup {None}] /\ send' \in SendRec
BY DEF DeliveryTypes, Unset, SendRec

LEMMA SetChannelTypes ==
  ASSUME DeliveryTypes, NEW c \in Callers, NEW k \in Kinds, NEW arg \in Chans \cup {None}, NEW exit \in BOOLEAN,
         SetChannel(c, k, arg, exit)
  PROVE  /\ ch' \in [Kinds -> Chans \cup {None}] /\ send' \in SendRec
         /\ drain' \in [Drains -> DrainRec] /\ caller' \in [Callers -> CallRec]
<1>0. ASSUME NEW at \in {"drain", "send"}, NEW wait \in Nat
      PROVE  [at |-> at, kind |-> k, arg |-> arg, wait |-> wait, exit |-> exit] \in CallRec
  BY Zenon DEF CallRec
<1>1. CASE k = "signal" /\ sigDrain # 0
  <2>1. drain' \in [Drains -> DrainRec]
    <3>1. ASSUME NEW d \in Drains PROVE [drain[d] EXCEPT !.canceled = TRUE] \in DrainRec
      BY DEF DeliveryTypes, DrainRec
    <3> QED
      BY <1>1, <3>1 DEF SetChannel, DeliveryTypes
  <2>2. caller' \in [Callers -> CallRec]
    BY <1>0, <1>1 DEF SetChannel, DeliveryTypes
  <2> QED
    BY <1>1, <2>1, <2>2 DEF SetChannel, DeliveryTypes
<1>2. CASE ~(k = "signal" /\ sigDrain # 0)
  <2>1. caller' \in [Callers -> CallRec]
    BY <1>0, <1>2 DEF SetChannel, DeliveryTypes
  <2> QED
    BY <1>2, <2>1, UnsetTypes DEF SetChannel, DeliveryTypes
<1> QED
  BY <1>1, <1>2

LEMMA CallerTypes == ASSUME DeliveryTypes, CallerMoves, UNCHANGED taken PROVE DeliveryTypes'
<1> USE DEF appVars, historyVars, configVars
<1>1. CASE Register("main")
  <2>1. Head(regs).kind \in Kinds /\ Head(regs).arg \in Chans \cup {None} /\ Tail(regs) \in Seq([kind : Kinds, arg : Chans \cup {None}])
    <3>1. regs # <<>> /\ regs \in Seq([kind : Kinds, arg : Chans \cup {None}])
      BY <1>1 DEF Register, DeliveryTypes
    <3>2. Head(regs) \in [kind : Kinds, arg : Chans \cup {None}] /\ Tail(regs) \in Seq([kind : Kinds, arg : Chans \cup {None}])
      BY <3>1, HeadTailProperties
    <3> QED
      BY <3>2
  <2> QED
    BY <1>1, <2>1, SetChannelTypes, SessionAssumption DEF Register, DeliveryTypes
<1> SUFFICES ASSUME NEW c \in Callers, ExitBegins(c) \/ ConfigStep(c) PROVE DeliveryTypes'
  BY <1>1 DEF CallerMoves
<1>2. CASE ExitBegins(c)
  BY <1>2 DEF ExitBegins, DeliveryTypes, CallRec, NoCall
<1>3. CASE DrainStopped(c)
  <2>1. caller' \in [Callers -> CallRec]
    BY <1>3 DEF DrainStopped, DeliveryTypes, CallRec
  <2> QED
    BY <1>3, <2>1, UnsetTypes DEF DrainStopped, DeliveryTypes, Kinds
<1>4. CASE Configured(c)
  <2>1. caller[c].arg \in Chans \cup {None}
    BY DEF DeliveryTypes, CallRec
  <2>2. ch' \in [Kinds -> Chans \cup {None}] /\ registered' \in [Kinds -> Chans \cup {None}]
    BY <1>4, <2>1 DEF Configured, DeliveryTypes
  <2>3. caller' \in [Callers -> CallRec]
    BY <1>4 DEF Configured, DeliveryTypes, CallRec, NoCall
  <2>4. sigDrain' \in Nat
    BY <1>4, UsedDrains DEF Configured, DeliveryTypes
  <2>5. drain' \in [Drains -> DrainRec]
    <3>1. [NoDrain EXCEPT !.at = "take", !.target = caller[c].arg] \in DrainRec
      BY <2>1, EmptySeq DEF NoDrain, DrainRec
    <3> QED
      BY <1>4, <3>1 DEF Configured, DeliveryTypes
  <2> QED
    BY <1>4, <2>2, <2>3, <2>4, <2>5 DEF Configured, DeliveryTypes
<1>5. CASE ExitStopsSignals(c)
  BY <1>5, SetChannelTypes DEF ExitStopsSignals, DeliveryTypes, Kinds
<1>6. CASE ExitLocksReply(c)
  BY <1>6 DEF ExitLocksReply, DeliveryTypes, CallRec
<1>7. CASE ExitStopsBreaks(c)
  BY <1>7, SetChannelTypes DEF ExitStopsBreaks, DeliveryTypes, Kinds
<1>8. CASE ExitSends(c)
  BY <1>8 DEF ExitSends, DeliveryTypes, CallRec, NoCall
<1> QED
  BY <1>2, <1>3, <1>4, <1>5, <1>6, <1>7, <1>8 DEF ConfigStep

\* The part of a requeued batch that the buffer has room for.
LEMMA RequeuedPart ==
  ASSUME DeliveryTypes, NEW b \in Seq(Nat),
         NEW n, n = IF Len(Requeued(b)) > MaxSigBuf THEN MaxSigBuf ELSE Len(Requeued(b))
  PROVE  /\ SubSeq(Requeued(b), 1, n) \in Seq(Nat) /\ Len(SubSeq(Requeued(b), 1, n)) = n
         /\ n \in Nat /\ n <= Len(b) + Len(sigBuf) /\ n <= MaxSigBuf
         /\ \A i \in 1..n : SubSeq(Requeued(b), 1, n)[i] = IF i <= Len(b) THEN b[i] ELSE sigBuf[i - Len(b)]
<1>1. Requeued(b) \in Seq(Nat) /\ Len(Requeued(b)) = Len(b) + Len(sigBuf)
  BY ConcatProperties DEF Requeued, DeliveryTypes
<1>2. \A i \in 1..Len(b) + Len(sigBuf) : Requeued(b)[i] = IF i <= Len(b) THEN b[i] ELSE sigBuf[i - Len(b)]
  BY ConcatProperties DEF Requeued, DeliveryTypes
<1>3. n \in Nat /\ n <= Len(Requeued(b)) /\ n <= MaxSigBuf
  BY <1>1, DeliveryAssumption
<1>4. \A i \in 1..n : Requeued(b)[i] \in Nat
  BY <1>1, <1>3
<1>5. /\ SubSeq(Requeued(b), 1, n) \in Seq(Nat) /\ Len(SubSeq(Requeued(b), 1, n)) = n
      /\ \A i \in 1..n : SubSeq(Requeued(b), 1, n)[i] = Requeued(b)[i]
  BY <1>3, <1>4, SubSeqProperties
<1> QED
  BY <1>1, <1>2, <1>3, <1>5

\* A drain holds signals exactly while it sends.
BatchHeld == \A d \in Drains : drain[d].at = "send" <=> drain[d].batch # <<>>

LEMMA DrainTypes == ASSUME DeliveryTypes, BatchHeld, DrainMoves, UNCHANGED taken PROVE DeliveryTypes'
<1> USE DEF appVars, historyVars, configVars, DrainFrame
<1> SUFFICES ASSUME NEW d \in Drains, DrainStep(d) PROVE DeliveryTypes'
  BY DEF DrainMoves
<1>0. drain[d].batch \in Seq(Nat) /\ drain[d].target \in Chans \cup {None} /\ <<>> \in Seq(Nat)
  BY EmptySeq DEF DeliveryTypes, DrainRec
<1>1. CASE DrainTakes(d)
  <2>1. drain' \in [Drains -> DrainRec]
    BY <1>1 DEF DrainTakes, DeliveryTypes, DrainRec
  <2> QED
    BY <1>1, <2>1 DEF DrainTakes, DeliveryTypes
<1>2. CASE DrainHandsOver(d)
  <2>1. drain' \in [Drains -> DrainRec]
    BY <1>2 DEF DrainHandsOver, DeliveryTypes, DrainRec
  <2> QED
    BY <1>0, <1>2, <2>1 DEF DrainHandsOver, DeliveryTypes
<1>3. CASE DrainSends(d)
  <2>1. PICK b \in Seq(Nat) : b = drain[d].batch
    BY <1>0
  <2>2. b # <<>>
    BY <1>3, <2>1 DEF DrainSends, BatchHeld
  <2>3. Head(b) \in Nat /\ Tail(b) \in Seq(Nat)
    BY <2>2
  <2>4. delivered' \in Seq(Nat)
    BY <1>3, <2>1, <2>3 DEF DrainSends, DeliveryTypes
  <2>5. drain' \in [Drains -> DrainRec]
    <3>1. ASSUME NEW at \in {"take", "send"}, drain' = [drain EXCEPT ![d].batch = Tail(b), ![d].at = at]
          PROVE  drain' \in [Drains -> DrainRec]
      BY <2>3, <3>1 DEF DeliveryTypes, DrainRec
    <3>2. drain' = [drain EXCEPT ![d].batch = Tail(b), ![d].at = IF Len(b) = 1 THEN "take" ELSE "send"]
      BY <1>3, <2>1 DEF DrainSends
    <3> QED
      BY <3>1, <3>2
  <2> QED
    BY <1>3, <2>4, <2>5 DEF DrainSends, DeliveryTypes
<1>4. CASE DrainGivesUp(d)
  <2>1. drain' \in [Drains -> DrainRec]
    BY <1>0, <1>4 DEF DrainGivesUp, DeliveryTypes, DrainRec
  <2>2. sigBuf' \in Seq(Nat)
    BY <1>0, <1>4, RequeuedPart DEF DrainGivesUp, DeliveryTypes
  <2> QED
    BY <1>4, <2>1, <2>2 DEF DrainGivesUp, DeliveryTypes
<1>5. CASE DrainContextDone(d)
  <2>1. drain' \in [Drains -> DrainRec]
    BY <1>0, <1>5 DEF DrainContextDone, DeliveryTypes, DrainRec
  <2> QED
    BY <1>5, <2>1 DEF DrainContextDone, DeliveryTypes
<1>6. CASE DrainEnds(d)
  <2>1. drain' \in [Drains -> DrainRec]
    BY <1>0, <1>6 DEF DrainEnds, DeliveryTypes, DrainRec, NoDrain
  <2> QED
    BY <1>6, <2>1 DEF DrainEnds, DeliveryTypes
<1> QED
  BY <1>1, <1>2, <1>3, <1>4, <1>5, <1>6 DEF DrainStep

LEMMA SendTypes == ASSUME DeliveryTypes, SendMoves, UNCHANGED taken PROVE DeliveryTypes'
<1> USE DEF appVars, historyVars, configVars, LoopFrame
<1>1. ASSUME NEW result \in {"delivered", "closed", "canceled", "context"}, SendsWith(result) PROVE DeliveryTypes'
  <2>1. send' \in SendRec
    BY <1>1 DEF SendsWith, DeliveryTypes, SendRec
  <2>2. send.id \in Nat
    BY DEF DeliveryTypes, SendRec
  <2>3. delivered' \in Seq(Nat)
    BY <1>1, <2>2 DEF SendsWith, DeliveryTypes
  <2> QED
    BY <1>1, <2>1, <2>3 DEF SendsWith, DeliveryTypes
<1>2. CASE SendSettles
  <2>1. send' \in SendRec
    BY <1>2 DEF SendSettles, DeliveryTypes, SendRec
  <2> QED
    BY <1>2, <2>1 DEF SendSettles, DeliveryTypes
<1> QED
  BY <1>1, <1>2 DEF SendMoves, SendReceived, SendPanics, SendCanceled, SendContextDone

LEMMA LoopTypes == ASSUME DeliveryTypes, LoopDelivers \/ LoopReplies PROVE DeliveryTypes'
<1> USE DEF appVars, historyVars, configVars, LoopFrame
<1>1. CASE LoopReplies
  BY <1>1 DEF LoopReplies, SendReplied, DeliveryTypes, SendRec, NoSend
<1>2. CASE LoopDelivers /\ BufferSignal(taken')
  <2>1. taken' \in Nat
    BY <1>2 DEF LoopDelivers, DeliveryTypes
  <2>2. sigBuf' \in Seq(Nat)
    <3>1. sigBuf' = sigBuf \/ sigBuf' = Append(sigBuf, taken')
      BY <1>2 DEF BufferSignal
    <3>2. sigBuf \in Seq(Nat) /\ Append(sigBuf, taken') \in Seq(Nat)
      BY <2>1, AppendProperties DEF DeliveryTypes
    <3> QED
      BY <3>1, <3>2
  <2> QED
    BY <1>2, <2>1, <2>2 DEF BufferSignal, DeliveryTypes
<1>3. ASSUME LoopDelivers, NEW k \in Kinds, BeginSend(k, taken') PROVE DeliveryTypes'
  <2>1. taken' \in Nat
    BY <1>3 DEF LoopDelivers, DeliveryTypes
  <2>2. ch[k] \in Chans \cup {None}
    BY DEF DeliveryTypes
  <2>3. send' \in SendRec
    BY <1>3, <2>1, <2>2 DEF BeginSend, NoSend, SendRec
  <2> QED
    BY <1>3, <2>1, <2>3 DEF BeginSend, DeliveryTypes
<1> QED
  BY <1>1, <1>2, <1>3 DEF LoopDelivers

LEMMA BatchStep == ASSUME DeliveryTypes, BatchHeld, [Next]_vars PROVE BatchHeld'
<1> USE DEF appVars, historyVars, configVars, LoopFrame, DrainFrame
<1>1. CASE UNCHANGED drain
  BY <1>1 DEF BatchHeld
<1>2. CASE CallerMoves
  <2>1. ASSUME NEW c, NEW k, NEW arg, NEW exit, SetChannel(c, k, arg, exit) PROVE BatchHeld'
    <3>1. CASE drain' = [drain EXCEPT ![sigDrain].canceled = TRUE]
      <4>1. ASSUME NEW d \in Drains PROVE drain'[d].at = drain[d].at /\ drain'[d].batch = drain[d].batch
        BY <3>1 DEF DeliveryTypes, DrainRec
      <4> QED
        BY <4>1 DEF BatchHeld
    <3> QED
      BY <1>1, <2>1, <3>1 DEF SetChannel
  <2>2. ASSUME NEW c, Configured(c) PROVE BatchHeld'
    BY <1>1, <2>2 DEF Configured, BatchHeld, DeliveryTypes, DrainRec, NoDrain
  <2> QED
    BY <1>1, <1>2, <2>1, <2>2 DEF CallerMoves, Register, ExitBegins, ConfigStep, DrainStopped, ExitStopsSignals,
       ExitLocksReply, ExitStopsBreaks, ExitSends
<1>3. ASSUME NEW d \in Drains, DrainStep(d) PROVE BatchHeld'
  <2>1. \A e \in Drains \ {d} : drain'[e] = drain[e]
    BY <1>3 DEF DrainStep, DrainTakes, DrainHandsOver, DrainSends, DrainGivesUp, DrainContextDone, DrainEnds, DeliveryTypes
  <2>2. (drain'[d].at = "send") <=> (drain'[d].batch # <<>>)
    <3>1. CASE DrainTakes(d)
      BY <3>1 DEF DrainTakes, DeliveryTypes, DrainRec
    <3>2. CASE DrainHandsOver(d)
      BY <3>2 DEF DrainHandsOver, DeliveryTypes, DrainRec, BatchHeld
    <3>3. CASE DrainSends(d)
      <4>1. PICK b \in Seq(Nat) : b = drain[d].batch
        BY DEF DeliveryTypes, DrainRec
      <4>2. b # <<>>
        BY <3>3, <4>1 DEF DrainSends, BatchHeld
      <4>3. Len(b) = 1 <=> Tail(b) = <<>>
        <5>1. Tail(b) \in Seq(Nat) /\ Len(Tail(b)) = Len(b) - 1 /\ Len(b) \in Nat
          BY <4>2, HeadTailProperties
        <5>2. Tail(b) = <<>> <=> Len(Tail(b)) = 0
          BY <5>1, EmptySeq
        <5> QED
          BY <5>1, <5>2
      <4>4. drain'[d].batch = Tail(b) /\ drain'[d].at = IF Len(b) = 1 THEN "take" ELSE "send"
        BY <3>3, <4>1 DEF DrainSends, DeliveryTypes, DrainRec
      <4> QED
        BY <4>3, <4>4
    <3>4. CASE DrainGivesUp(d) \/ DrainContextDone(d) \/ DrainEnds(d)
      BY <3>4 DEF DrainGivesUp, DrainContextDone, DrainEnds, DeliveryTypes, DrainRec, NoDrain
    <3> QED
      BY <1>3, <3>1, <3>2, <3>3, <3>4 DEF DrainStep
  <2> QED
    BY <2>1, <2>2 DEF BatchHeld
<1>4. CASE SendMoves \/ Surroundings \/ LoopDelivers \/ LoopReplies \/ Quiet
  BY <1>1, <1>4 DEF SendMoves, SendReceived, SendPanics, SendCanceled, SendContextDone, SendsWith, SendSettles,
     Surroundings, AppCloses, ContextCanceled, LoopDelivers, BufferSignal, BeginSend, LoopReplies, SendReplied, Quiet, heldVars
<1> QED
  BY <1>2, <1>3, <1>4, StepKinds DEF DrainMoves, DeliveryTypes

LEMMA TypesInvariant == Spec => [](DeliveryTypes /\ BatchHeld)
<1> DEFINE Inv == DeliveryTypes /\ BatchHeld
<1>1. Init => Inv
  <2> SUFFICES ASSUME Init PROVE Inv
    OBVIOUS
  <2>1. regs \in Seq([kind : Kinds, arg : Chans \cup {None}])
    BY SessionAssumption DEF Init
  <2>2. drain \in [Drains -> DrainRec]
    BY EmptySeq DEF Init, DeliveryInit, NoDrain, DrainRec
  <2>3. send \in SendRec /\ caller \in [Callers -> CallRec]
    BY DEF Init, DeliveryInit, NoSend, SendRec, NoCall, CallRec
  <2>4. DeliveryTypes
    BY <2>1, <2>2, <2>3, EmptySeq DEF Init, DeliveryInit, DeliveryTypes
  <2>5. BatchHeld
    BY DEF Init, DeliveryInit, NoDrain, BatchHeld
  <2> QED
    BY <2>4, <2>5
<1>2. Inv /\ [Next]_vars => Inv'
  <2> SUFFICES ASSUME DeliveryTypes, BatchHeld, [Next]_vars PROVE DeliveryTypes'
    BY BatchStep
  <2>1. CASE Quiet
    BY <2>1 DEF Quiet, heldVars, historyVars, configVars, DeliveryTypes
  <2>2. CASE UNCHANGED taken /\ Surroundings
    BY <2>2 DEF Surroundings, AppCloses, ContextCanceled, DeliveryTypes, configVars, historyVars
  <2> QED
    BY <2>1, <2>2, StepKinds, CallerTypes, DrainTypes, SendTypes, LoopTypes DEF DeliveryTypes
<1> QED
  BY <1>1, <1>2, PTL DEF Spec

--------------------------------------------------------------------------------
(* What the steps of the callers do to a call, field by field. *)

\* Only the cancellation of a send is anybody else's than the loop's.
SameSend == send' = send \/ send' = [send EXCEPT !.canceled = TRUE]

LEMMA SameSendFields ==
  ASSUME DeliveryTypes, SameSend
  PROVE  /\ send'.at = send.at /\ send'.kind = send.kind /\ send'.id = send.id
         /\ send'.target = send.target /\ send'.result = send.result
BY DEF DeliveryTypes, SameSend, SendRec

LEMMA SetChannelCalls ==
  ASSUME DeliveryTypes, NEW c \in Callers, NEW k \in Kinds, NEW arg \in Chans \cup {None}, NEW exit \in BOOLEAN,
         SetChannel(c, k, arg, exit)
  PROVE  /\ \A e \in Callers : e # c => caller'[e] = caller[e]
         /\ caller'[c].kind = k /\ caller'[c].arg = arg /\ (caller'[c].exit <=> exit)
         /\ \/ /\ k = "signal" /\ sigDrain # 0 /\ caller'[c].at = "drain" /\ caller'[c].wait = sigDrain
               /\ UNCHANGED <<ch, send>> /\ drain' = [drain EXCEPT ![sigDrain].canceled = TRUE]
            \/ /\ k = "signal" => sigDrain = 0
               /\ caller'[c].at = "send" /\ Unset(k) /\ UNCHANGED drain
         /\ SameSend
<1>1. \A e \in Callers : e # c => caller'[e] = caller[e]
  BY DEF SetChannel, DeliveryTypes
<1>2. caller'[c].kind = k /\ caller'[c].arg = arg
  BY DEF SetChannel, DeliveryTypes
<1>3. caller'[c].exit <=> exit
  <2>1. ASSUME NEW at, NEW wait,
               caller' = [caller EXCEPT ![c] = [at |-> at, kind |-> k, arg |-> arg, wait |-> wait, exit |-> exit]]
        PROVE  caller'[c].exit <=> exit
    <3>1. caller'[c] = [at |-> at, kind |-> k, arg |-> arg, wait |-> wait, exit |-> exit]
      BY <2>1 DEF DeliveryTypes
    <3>2. [at |-> at, kind |-> k, arg |-> arg, wait |-> wait, exit |-> exit].exit = exit
      OBVIOUS
    <3> QED
      BY <3>1, <3>2
  <2> QED
    BY <2>1 DEF SetChannel
<1>4. SameSend
  BY DEF SetChannel, Unset, SameSend
<1>5. CASE k = "signal" /\ sigDrain # 0
  <2>1. caller'[c].at = "drain" /\ caller'[c].wait = sigDrain
    BY <1>5 DEF SetChannel, DeliveryTypes
  <2> QED
    BY <1>1, <1>2, <1>3, <1>4, <1>5, <2>1 DEF SetChannel
<1>6. CASE ~(k = "signal" /\ sigDrain # 0)
  <2>1. caller'[c].at = "send"
    BY <1>6 DEF SetChannel, DeliveryTypes
  <2> QED
    BY <1>1, <1>2, <1>3, <1>4, <1>6, <2>1 DEF SetChannel
<1> QED
  BY <1>5, <1>6

\* A step of a call that leaves its fields but the place.
LEMMA CallGoesOn ==
  ASSUME DeliveryTypes, NEW c \in Callers, NEW to, caller' = [caller EXCEPT ![c].at = to]
  PROVE  /\ \A e \in Callers : e # c => caller'[e] = caller[e]
         /\ caller'[c].kind = caller[c].kind /\ caller'[c].arg = caller[c].arg /\ (caller'[c].exit <=> caller[c].exit)
         /\ caller'[c].at = to
<1>1. \A e \in Callers : e # c => caller'[e] = caller[e]
  BY DEF DeliveryTypes
<1>2. caller'[c].kind = caller[c].kind /\ caller'[c].arg = caller[c].arg /\ caller'[c].at = to
  BY DEF DeliveryTypes, CallRec
<1>3. caller'[c].exit <=> caller[c].exit
  BY DEF DeliveryTypes, CallRec
<1> QED
  BY <1>1, <1>2, <1>3

\* One that ends a call, or takes an Exit to the place after it.
LEMMA CallEnds ==
  ASSUME DeliveryTypes, NEW c \in Callers, NEW to, NEW exit \in BOOLEAN,
         caller' = [caller EXCEPT ![c] = [NoCall EXCEPT !.at = to, !.exit = exit]]
  PROVE  /\ \A e \in Callers : e # c => caller'[e] = caller[e]
         /\ caller'[c].kind = "none" /\ caller'[c].at = to /\ (caller'[c].exit <=> exit)
<1>1. \A e \in Callers : e # c => caller'[e] = caller[e]
  BY DEF DeliveryTypes
<1>2. caller'[c] = [NoCall EXCEPT !.at = to, !.exit = exit]
  BY DEF DeliveryTypes
<1>3. caller'[c].kind = "none" /\ caller'[c].at = to
  BY <1>2 DEF NoCall
<1>4. caller'[c].exit <=> exit
  BY <1>2, Zenon DEF NoCall
<1> QED
  BY <1>1, <1>3, <1>4

\* The end of a change of channel.
LEMMA ConfiguredCalls ==
  ASSUME DeliveryTypes, NEW c \in Callers, Configured(c)
  PROVE  /\ \A e \in Callers : e # c => caller'[e] = caller[e]
         /\ caller'[c].kind = "none" /\ (caller'[c].exit <=> caller[c].exit)
         /\ caller'[c].at = IF caller[c].exit THEN (IF caller[c].kind = "signal" THEN "sigReply" ELSE "breakReply") ELSE "idle"
<1>1. \A e \in Callers : e # c => caller'[e] = caller[e]
  BY DEF Configured, DeliveryTypes
<1>2. CASE caller[c].exit
  BY <1>1, <1>2 DEF Configured, DeliveryTypes, NoCall
<1>3. CASE ~caller[c].exit
  BY <1>1, <1>3 DEF Configured, DeliveryTypes, NoCall
<1> QED
  BY <1>2, <1>3

--------------------------------------------------------------------------------
(* Exit has stopped the signals and the breaks before it sends the exit status. *)

\* Where a call of Signals, Break or Exit may stand.
CallerShape ==
  \A c \in Callers :
    /\ caller[c].at \in {"drain", "send"} <=> caller[c].kind # "none"
    /\ caller[c].at = "drain" => caller[c].kind = "signal"
    /\ caller[c].at = "idle" => ~caller[c].exit
    /\ caller[c].at \in {"sigStop", "sigReply", "breakStop", "breakReply"} => caller[c].exit
    /\ caller[c].exit => exiting
    /\ caller[c].exit /\ caller[c].kind # "none" => caller[c].arg = None
    /\ c # "main" /\ caller[c].kind # "none" => caller[c].exit

\* sigConfigMu and breakConfigMu.
OneConfig == \A c, e \in Callers : c # e /\ caller[c].kind # "none" => caller[c].kind # caller[e].kind

SendShape ==
  /\ send.at = "idle" <=> send.kind = "none"
  /\ send.kind # "none" => loop = "sending"
  /\ send.result = "delivered" => send.at \in {"settle", "reply"}
  /\ send.result = "context" => ctxDone

\* An Exit that holds sigReplyMu has waited for the loop's reply, ...
SignalsAnswered == \A c \in Callers : ExitHoldsReply(c) => send.kind # "signal"

\* ... and one that has taken the break channel away leaves nobody who registers one.
BreaksStopped(c) == caller[c].exit /\ (caller[c].at = "breakReply" \/ caller[c].kind = "break")
BreaksOff ==
  exited \/ (\E c \in Callers : BreaksStopped(c)) =>
    /\ ch["break"] = None
    /\ \A c \in Callers : caller[c].kind = "break" => caller[c].arg = None

ExitedIdle == exited => exiting /\ send.kind = "none"

ExitInv == CallerShape /\ OneConfig /\ SendShape /\ SignalsAnswered /\ BreaksOff /\ ExitedIdle

\* A configuration mutex that is free: nobody changes that channel.
LEMMA FreeMeansNone ==
  ASSUME CallerShape, NEW k \in Kinds, ConfigFree(k), NEW c \in Callers
  PROVE  caller[c].kind # k
BY DEF CallerShape, ConfigFree, Kinds

\* Registering a channel: nobody is exiting.
LEMMA ExitRegister ==
  ASSUME DeliveryTypes, ExitInv, Register("main"), UNCHANGED loop
  PROVE  ExitInv'
<1>0. "main" \in Callers
  BY SessionAssumption
<1>1. PICK k \in Kinds, arg \in Chans \cup {None} : SetChannel("main", k, arg, FALSE) /\ ConfigFree(k)
  <2>1. regs # <<>> /\ regs \in Seq([kind : Kinds, arg : Chans \cup {None}])
    BY DEF Register, DeliveryTypes
  <2>2. Head(regs) \in [kind : Kinds, arg : Chans \cup {None}]
    BY <2>1, HeadTailProperties
  <2> QED
    BY <2>2 DEF Register
<1>2. /\ \A e \in Callers : e # "main" => caller'[e] = caller[e]
      /\ caller'["main"].kind = k /\ ~caller'["main"].exit
      /\ caller'["main"].at \in {"drain", "send"} /\ (caller'["main"].at = "drain" => k = "signal")
      /\ SameSend
  BY <1>0, <1>1, SetChannelCalls
<1>3. ~exiting /\ UNCHANGED <<exiting, exited, ctxDone>>
  BY DEF Register, appVars
<1>4. \A e \in Callers : ~caller'[e].exit
  BY <1>2, <1>3 DEF ExitInv, CallerShape
<1>5. CallerShape'
  BY <1>2, <1>3, <1>4 DEF ExitInv, CallerShape, Kinds
<1>6. OneConfig'
  BY <1>1, <1>2, FreeMeansNone DEF ExitInv, OneConfig
<1>7. SendShape'
  BY <1>2, <1>3, SameSendFields DEF ExitInv, SendShape
<1>8. SignalsAnswered' /\ BreaksOff' /\ ExitedIdle'
  BY <1>3, <1>4 DEF ExitInv, ExitedIdle, SignalsAnswered, BreaksOff, ExitHoldsReply, BreaksStopped
<1> QED
  BY <1>5, <1>6, <1>7, <1>8 DEF ExitInv

\* A step of Exit, or the end of a registration, that changes neither the break channel
\* nor a send, and takes no reply mutex.
LEMMA ExitKeeps ==
  ASSUME DeliveryTypes, ExitInv, NEW c \in Callers, SameSend, UNCHANGED <<exited, loop, ctxDone>>,
         exiting => exiting', exiting' \in BOOLEAN,
         \A e \in Callers : e # c => caller'[e] = caller[e],
         CallerShape', OneConfig',
         ExitHoldsReply(c)' => ExitHoldsReply(c),
         BreaksStopped(c)' => BreaksStopped(c),
         ch'["break"] # None => ch'["break"] = ch["break"],
         caller'[c].kind = "break" => caller[c].kind = "break" /\ caller'[c].arg = caller[c].arg
  PROVE  ExitInv'
<1>1. SendShape' /\ ExitedIdle'
  BY SameSendFields DEF ExitInv, SendShape, ExitedIdle
<1>2. \A e \in Callers : (ExitHoldsReply(e)' => ExitHoldsReply(e)) /\ (BreaksStopped(e)' => BreaksStopped(e))
  BY DEF ExitHoldsReply, BreaksStopped
<1>3. SignalsAnswered'
  BY <1>2, SameSendFields DEF ExitInv, SignalsAnswered
<1>4. BreaksOff'
  BY <1>2 DEF ExitInv, BreaksOff
<1> QED
  BY <1>1, <1>3, <1>4 DEF ExitInv

LEMMA ExitCallers ==
  ASSUME DeliveryTypes, ExitInv, NEW c \in Callers, ExitBegins(c) \/ ConfigStep(c), UNCHANGED loop
  PROVE  ExitInv'
<1> USE DEF appVars
<1>0. caller[c].exit \in BOOLEAN /\ caller[c].kind \in Kinds \cup {"none"}
  BY DEF DeliveryTypes, CallRec
<1>1. CASE ExitBegins(c)
  <2>1. /\ \A e \in Callers : e # c => caller'[e] = caller[e]
        /\ caller'[c].kind = "none" /\ caller'[c].at = "sigStop" /\ caller'[c].exit
    BY <1>1, CallEnds DEF ExitBegins
  <2>2. CallerShape'
    BY <1>1, <2>1 DEF ExitBegins, ExitInv, CallerShape
  <2>3. OneConfig'
    BY <2>1 DEF ExitInv, OneConfig
  <2> QED
    BY <1>1, <2>1, <2>2, <2>3, ExitKeeps DEF ExitBegins, SameSend, ExitHoldsReply, BreaksStopped
<1>2. CASE DrainStopped(c)
  <2>1. /\ \A e \in Callers : e # c => caller'[e] = caller[e]
        /\ caller'[c].kind = caller[c].kind /\ caller'[c].arg = caller[c].arg /\ (caller'[c].exit <=> caller[c].exit)
        /\ caller'[c].at = "send" /\ caller[c].kind = "signal"
    <3>1. caller' = [caller EXCEPT ![c].at = "send"] /\ caller[c].at = "drain"
      BY <1>2 DEF DrainStopped
    <3>2. caller[c].kind = "signal"
      BY <3>1 DEF ExitInv, CallerShape
    <3> QED
      BY <3>1, <3>2, CallGoesOn
  <2>2. CallerShape'
    BY <1>2, <2>1 DEF DrainStopped, ExitInv, CallerShape
  <2>3. OneConfig'
    BY <2>1 DEF ExitInv, OneConfig
  <2>4. SameSend /\ ch'["break"] = ch["break"]
    BY <1>2 DEF DrainStopped, Unset, SameSend, DeliveryTypes, Kinds
  <2> QED
    BY <1>2, <2>1, <2>2, <2>3, <2>4, ExitKeeps DEF DrainStopped, DeliveryTypes, ExitHoldsReply, BreaksStopped
<1>3. CASE Configured(c)
  <2>1. /\ \A e \in Callers : e # c => caller'[e] = caller[e]
        /\ caller'[c].kind = "none" /\ (caller'[c].exit <=> caller[c].exit)
        /\ caller'[c].at = IF caller[c].exit THEN (IF caller[c].kind = "signal" THEN "sigReply" ELSE "breakReply") ELSE "idle"
        /\ caller[c].at = "send" /\ caller[c].kind \in Kinds
    BY <1>0, <1>3, ConfiguredCalls DEF Configured, ExitInv, CallerShape
  <2>2. CallerShape'
    BY <1>0, <1>3, <2>1 DEF Configured, ExitInv, CallerShape
  <2>3. OneConfig'
    BY <2>1 DEF ExitInv, OneConfig
  <2>4. send' = send /\ ch'["break"] \in {ch["break"], caller[c].arg}
    BY <1>3, <2>1 DEF Configured, DeliveryTypes, Kinds
  <2>5. SendShape' /\ ExitedIdle'
    BY <1>3, <2>4 DEF Configured, ExitInv, SendShape, ExitedIdle
  <2>6. \A e \in Callers : (ExitHoldsReply(e)' => ExitHoldsReply(e)) /\ (BreaksStopped(e)' => BreaksStopped(e))
    BY <2>1 DEF ExitHoldsReply, BreaksStopped, Kinds
  <2>7. SignalsAnswered'
    BY <2>4, <2>6 DEF ExitInv, SignalsAnswered
  <2>8. BreaksOff'
    <3>1. CASE caller[c].kind = "break"
      BY <1>3, <2>1, <2>4, <2>6, <3>1 DEF Configured, ExitInv, BreaksOff
    <3>2. CASE caller[c].kind = "signal"
      <4>1. ch'["break"] = ch["break"]
        BY <1>3, <3>2 DEF Configured, DeliveryTypes, Kinds
      <4> QED
        BY <1>3, <2>1, <2>6, <4>1 DEF Configured, ExitInv, BreaksOff
    <3> QED
      BY <2>1, <3>1, <3>2 DEF Kinds
  <2> QED
    BY <2>2, <2>3, <2>5, <2>7, <2>8 DEF ExitInv
<1>4. CASE ExitStopsSignals(c)
  <2>1. /\ \A e \in Callers : e # c => caller'[e] = caller[e]
        /\ caller'[c].kind = "signal" /\ caller'[c].arg = None /\ caller'[c].exit /\ caller'[c].at \in {"drain", "send"}
        /\ SameSend /\ caller[c].exit /\ exiting /\ ConfigFree("signal")
    BY <1>4, SetChannelCalls DEF ExitStopsSignals, Kinds, ExitInv, CallerShape
  <2>2. CallerShape'
    BY <1>4, <2>1 DEF ExitStopsSignals, ExitInv, CallerShape
  <2>3. OneConfig'
    BY <2>1, FreeMeansNone DEF ExitInv, OneConfig, Kinds
  <2>4. ch'["break"] = ch["break"]
    BY <1>4 DEF ExitStopsSignals, SetChannel, Unset, DeliveryTypes, Kinds
  <2> QED
    BY <1>4, <2>1, <2>2, <2>3, <2>4, ExitKeeps DEF ExitStopsSignals, DeliveryTypes, ExitHoldsReply, BreaksStopped
<1>5. CASE ExitLocksReply(c)
  <2>1. /\ \A e \in Callers : e # c => caller'[e] = caller[e]
        /\ caller'[c].kind = caller[c].kind /\ caller'[c].arg = caller[c].arg /\ (caller'[c].exit <=> caller[c].exit)
        /\ caller'[c].at = "breakStop" /\ caller[c].kind = "none"
    <3>1. caller' = [caller EXCEPT ![c].at = "breakStop"] /\ caller[c].at = "sigReply"
      BY <1>5 DEF ExitLocksReply
    <3>2. caller[c].kind = "none"
      BY <3>1 DEF ExitInv, CallerShape
    <3> QED
      BY <3>1, <3>2, CallGoesOn
  <2>2. CallerShape'
    BY <1>5, <2>1 DEF ExitLocksReply, ExitInv, CallerShape
  <2>3. OneConfig'
    BY <2>1 DEF ExitInv, OneConfig
  <2>4. send' = send /\ send.kind # "signal"
    BY <1>5 DEF ExitLocksReply, ReplyFree
  <2>5. SendShape' /\ ExitedIdle' /\ SignalsAnswered'
    BY <1>5, <2>4 DEF ExitLocksReply, ExitInv, SendShape, ExitedIdle, SignalsAnswered
  <2>6. \A e \in Callers : BreaksStopped(e)' => BreaksStopped(e)
    BY <2>1 DEF BreaksStopped
  <2>7. BreaksOff'
    BY <1>5, <2>1, <2>6 DEF ExitLocksReply, ExitInv, BreaksOff
  <2> QED
    BY <2>2, <2>3, <2>5, <2>7 DEF ExitInv
<1>6. CASE ExitStopsBreaks(c)
  <2>1. /\ \A e \in Callers : e # c => caller'[e] = caller[e]
        /\ caller'[c].kind = "break" /\ caller'[c].arg = None /\ caller'[c].exit /\ caller'[c].at = "send"
        /\ SameSend /\ Unset("break") /\ caller[c].exit /\ exiting /\ ConfigFree("break")
    BY <1>6, SetChannelCalls DEF ExitStopsBreaks, Kinds, ExitInv, CallerShape
  <2>2. CallerShape'
    BY <1>6, <2>1 DEF ExitStopsBreaks, ExitInv, CallerShape
  <2>3. OneConfig'
    BY <2>1, FreeMeansNone DEF ExitInv, OneConfig, Kinds
  <2>4. SendShape' /\ ExitedIdle'
    BY <1>6, <2>1, SameSendFields DEF ExitStopsBreaks, ExitInv, SendShape, ExitedIdle
  <2>5. SignalsAnswered'
    <3>1. \A e \in Callers : ExitHoldsReply(e)' => ExitHoldsReply(e)
      BY <1>6, <2>1 DEF ExitStopsBreaks, ExitHoldsReply
    <3> QED
      BY <2>1, <3>1, SameSendFields DEF ExitInv, SignalsAnswered
  <2>6. ch'["break"] = None
    BY <2>1 DEF Unset, DeliveryTypes, Kinds
  <2>7. BreaksOff'
    BY <2>1, <2>6, FreeMeansNone DEF ExitInv, BreaksOff, Kinds
  <2> QED
    BY <2>2, <2>3, <2>4, <2>5, <2>7 DEF ExitInv
<1>7. CASE ExitSends(c)
  <2>1. /\ \A e \in Callers : e # c => caller'[e] = caller[e]
        /\ caller'[c].kind = "none" /\ caller'[c].at = "idle" /\ ~caller'[c].exit
    BY <1>7 DEF ExitSends, NoCall, DeliveryTypes
  <2>2. CallerShape'
    BY <1>7, <2>1 DEF ExitSends, ExitInv, CallerShape
  <2>3. OneConfig'
    BY <2>1 DEF ExitInv, OneConfig
  <2>4. caller[c].exit /\ exiting /\ send' = send
    BY <1>7 DEF ExitSends, ExitInv, CallerShape
  <2>5. send.kind = "none"
    <3>1. send.kind # "break" /\ ExitHoldsReply(c)
      BY <1>7, <2>4 DEF ExitSends, ReplyFree, ExitHoldsReply
    <3> QED
      BY <3>1 DEF ExitInv, SignalsAnswered, DeliveryTypes, SendRec, Kinds
  <2>6. SendShape' /\ ExitedIdle' /\ SignalsAnswered'
    BY <1>7, <2>4, <2>5 DEF ExitSends, ExitInv, SendShape, ExitedIdle, SignalsAnswered
  <2>7. BreaksStopped(c)
    BY <1>7, <2>4 DEF ExitSends, BreaksStopped
  <2>8. BreaksOff'
    BY <1>7, <2>1, <2>7 DEF ExitSends, ExitInv, BreaksOff
  <2> QED
    BY <2>2, <2>3, <2>6, <2>8 DEF ExitInv
<1> QED
  BY <1>1, <1>2, <1>3, <1>4, <1>5, <1>6, <1>7 DEF ConfigStep

LEMMA ExitLoop ==
  ASSUME DeliveryTypes, ExitInv, LoopDelivers \/ LoopReplies \/ (SendMoves /\ UNCHANGED loop)
  PROVE  ExitInv'
<1> USE DEF appVars, configVars, LoopFrame
<1>1. UNCHANGED <<caller, exiting, exited, ctxDone>>
  BY DEF LoopDelivers, LoopReplies, SendMoves, SendReceived, SendPanics, SendCanceled, SendContextDone, SendsWith,
     SendSettles, SendReplied, BufferSignal, BeginSend
<1>2. CallerShape' /\ OneConfig'
  BY <1>1 DEF ExitInv, CallerShape, OneConfig
<1>3. ch'["break"] # None => ch'["break"] = ch["break"]
  <2>1. CASE SendSettles
    <3>1. ch' = ch \/ ch' = [ch EXCEPT ![send.kind] = None]
      BY <2>1 DEF SendSettles
    <3> QED
      BY <3>1 DEF DeliveryTypes, Kinds
  <2>2. CASE UNCHANGED ch
    BY <2>2
  <2> QED
    BY <2>1, <2>2 DEF LoopDelivers, LoopReplies, SendMoves, SendReceived, SendPanics, SendCanceled, SendContextDone,
       SendsWith, SendReplied, BufferSignal, BeginSend
<1>4. BreaksOff'
  BY <1>1, <1>3 DEF ExitInv, BreaksOff, BreaksStopped
<1>5. ASSUME SendShape', send'.kind = "none" \/ send'.kind = send.kind PROVE ExitInv'
  <2>1. SignalsAnswered' /\ ExitedIdle'
    BY <1>1, <1>5 DEF ExitInv, SignalsAnswered, ExitedIdle, ExitHoldsReply
  <2> QED
    BY <1>2, <1>4, <1>5, <2>1 DEF ExitInv
<1>6. CASE LoopReplies
  <2>1. send'.kind = "none" /\ send'.at = "idle" /\ send'.result = "none"
    BY <1>6 DEF LoopReplies, SendReplied, NoSend
  <2> QED
    BY <1>5, <2>1 DEF SendShape
<1>7. CASE SendMoves /\ UNCHANGED loop
  <2>1. ASSUME NEW result, SendsWith(result), result = "context" => ctxDone PROVE ExitInv'
    <3>1. /\ send'.kind = send.kind /\ send'.at = "settle" /\ send'.result = result
          /\ send.at = "send"
      BY <2>1 DEF SendsWith, DeliveryTypes, SendRec
    <3>2. SendShape'
      BY <1>1, <1>7, <2>1, <3>1 DEF ExitInv, SendShape
    <3> QED
      BY <1>5, <3>1, <3>2
  <2>2. CASE SendSettles
    <3>1. /\ send'.kind = send.kind /\ send'.at = "reply" /\ send'.result = send.result /\ send.at = "settle"
      BY <2>2 DEF SendSettles, DeliveryTypes, SendRec
    <3>2. SendShape'
      BY <1>1, <1>7, <3>1 DEF ExitInv, SendShape
    <3> QED
      BY <1>5, <3>1, <3>2
  <2> QED
    BY <1>7, <2>1, <2>2 DEF SendMoves, SendReceived, SendPanics, SendCanceled, SendContextDone
<1>8. CASE LoopDelivers /\ BufferSignal(taken')
  <2>1. send' = send /\ send.kind = "none"
    BY <1>8 DEF LoopDelivers, BufferSignal, ExitInv, SendShape
  <2>2. SendShape'
    BY <1>1, <2>1 DEF ExitInv, SendShape
  <2> QED
    BY <1>5, <2>1, <2>2
<1>9. ASSUME NEW k \in Kinds, BeginSend(k, taken'), loop' = "sending" PROVE ExitInv'
  <2>1. send'.kind = k /\ send'.at = "send" /\ send'.result = "none" /\ ReplyFree(k) /\ ch[k] # None
    BY <1>9 DEF BeginSend, NoSend
  <2>2. SendShape'
    BY <1>9, <2>1 DEF SendShape, Kinds
  <2>3. SignalsAnswered'
    BY <1>1, <2>1 DEF ReplyFree, SignalsAnswered, ExitHoldsReply, ExitInv
  <2>4. ExitedIdle'
    BY <1>1, <1>9, <2>1 DEF BeginSend, ExitInv, ExitedIdle, BreaksOff, Kinds
  <2> QED
    BY <1>2, <1>4, <2>2, <2>3, <2>4 DEF ExitInv
<1> QED
  BY <1>6, <1>7, <1>8, <1>9 DEF LoopDelivers

LEMMA ExitInvariant == Spec => []ExitInv
<1>1. Init => ExitInv
  <2> SUFFICES ASSUME Init PROVE ExitInv
    OBVIOUS
  <2>1. CallerShape /\ OneConfig
    BY DEF Init, DeliveryInit, NoCall, CallerShape, OneConfig
  <2>2. SendShape /\ ExitedIdle
    BY DEF Init, DeliveryInit, NoSend, SendShape, ExitedIdle
  <2>3. SignalsAnswered /\ BreaksOff
    BY DEF Init, DeliveryInit, NoSend, NoCall, SignalsAnswered, BreaksOff, BreaksStopped, Kinds
  <2> QED
    BY <2>1, <2>2, <2>3 DEF ExitInv
<1>2. DeliveryTypes /\ ExitInv /\ [Next]_vars => ExitInv'
  <2> SUFFICES ASSUME DeliveryTypes, ExitInv, [Next]_vars PROVE ExitInv'
    OBVIOUS
  <2>1. ASSUME UNCHANGED <<caller, send, exiting, exited>>, ch'["break"] = ch["break"],
               loop = "sending" <=> loop' = "sending", ctxDone => ctxDone'
        PROVE ExitInv'
    <3>1. CallerShape' /\ OneConfig'
      BY <2>1 DEF ExitInv, CallerShape, OneConfig
    <3>2. SendShape'
      BY <2>1 DEF ExitInv, SendShape
    <3>3. SignalsAnswered' /\ BreaksOff' /\ ExitedIdle'
      BY <2>1 DEF ExitInv, SignalsAnswered, BreaksOff, BreaksStopped, ExitedIdle, ExitHoldsReply
    <3> QED
      BY <3>1, <3>2, <3>3 DEF ExitInv
  <2>2. CASE Quiet
    BY <2>1, <2>2 DEF Quiet, heldVars, configVars, appVars
  <2>3. CASE UNCHANGED loop /\ DrainMoves
    <3>1. ch'["break"] = ch["break"]
      BY <2>3 DEF DrainMoves, DrainStep, DrainTakes, DrainHandsOver, DrainSends, DrainGivesUp, DrainContextDone, DrainEnds,
         DeliveryTypes, Kinds
    <3> QED
      BY <2>1, <2>3, <3>1 DEF DrainMoves, DrainStep, DrainTakes, DrainHandsOver, DrainSends, DrainGivesUp, DrainContextDone,
         DrainEnds, DrainFrame, appVars
  <2>4. CASE UNCHANGED loop /\ Surroundings
    BY <2>1, <2>4 DEF Surroundings, AppCloses, ContextCanceled, configVars
  <2>5. CASE UNCHANGED loop /\ CallerMoves
    BY <2>5, ExitRegister, ExitCallers DEF CallerMoves
  <2> QED
    BY <2>2, <2>3, <2>4, <2>5, ExitLoop, StepKinds DEF DeliveryTypes
<1> QED
  BY <1>1, <1>2, TypesInvariant, PTL DEF Spec

\* After the exit status the client gets no reply that says a signal or a break was
\* delivered: Exit stops both in turn and waits for the loop's reply to each, however
\* the calls of Signals, Break and Exit and the requests are interleaved.
THEOREM AnsweredBeforeExitHolds == Spec => []AnsweredBeforeExit
<1>1. ExitInv => AnsweredBeforeExit
  BY DEF ExitInv, ExitedIdle, SendShape, AnsweredBeforeExit
<1> QED
  BY <1>1, ExitInvariant, PTL

--------------------------------------------------------------------------------
(* A drain for each call of Signals at most: the next one is free when it is started. *)
Registering == IF caller["main"].kind # "none" /\ ~caller["main"].exit THEN 1 ELSE 0

DrainsUsed(n) ==
  /\ n + Len(regs) + Registering <= MaxRegs
  /\ \A d \in Drains : drain[d].at # "off" <=> d <= n
DrainsCounted == \E n \in Nat : DrainsUsed(n)

LEMMA NextDrain ==
  ASSUME DeliveryTypes, ExitInv, NEW n \in Nat, DrainsUsed(n), NEW c \in Callers, caller[c].at = "send", caller[c].arg # None
  PROVE  /\ Cardinality({x \in Drains : drain[x].at # "off"}) = n
         /\ n + 1 \in Drains /\ drain[n + 1].at = "off" /\ c = "main" /\ Registering = 1
<1>1. c = "main" /\ Registering = 1
  BY DEF ExitInv, CallerShape, Registering
<1>2. n + 1 <= MaxRegs /\ MaxRegs \in Nat
  BY <1>1, DeliveryAssumption DEF DrainsUsed, DeliveryTypes
<1>3. {x \in Drains : drain[x].at # "off"} = 1..n
  BY <1>2 DEF DrainsUsed, Drains
<1>4. Cardinality(1..n) = n
  <2>1. Cardinality(1..n) = IF 1 > n THEN 0 ELSE n - 1 + 1
    BY FS_Interval
  <2> QED
    BY <2>1
<1>5. n + 1 \in Drains
  BY <1>2 DEF Drains
<1>6. drain[n + 1].at = "off"
  BY <1>5 DEF DrainsUsed
<1> QED
  BY <1>1, <1>3, <1>4, <1>5, <1>6

\* A step that starts no drain and takes no registration back.
LEMMA DrainsKept ==
  ASSUME DrainsCounted, DeliveryTypes, UNCHANGED regs,
         Registering = 0 => Registering' = 0,
         \A d \in Drains : (drain'[d].at = "off") <=> (drain[d].at = "off")
  PROVE  DrainsCounted'
<1>1. PICK n \in Nat : DrainsUsed(n)
  BY DEF DrainsCounted
<1>2. Registering' <= Registering /\ Registering \in Nat /\ Registering' \in Nat
  BY DEF Registering
<1>3. DrainsUsed(n)'
  BY <1>1, <1>2, DeliveryAssumption DEF DrainsUsed, DeliveryTypes
<1> QED
  BY <1>3 DEF DrainsCounted

\* The cancellation of a drain leaves it where it is.
LEMMA CanceledDrain ==
  ASSUME DeliveryTypes, drain' = drain \/ drain' = [drain EXCEPT ![sigDrain].canceled = TRUE], NEW d \in Drains
  PROVE  drain'[d].at = drain[d].at /\ drain'[d].target = drain[d].target /\ drain'[d].batch = drain[d].batch
<1>1. CASE drain' = [drain EXCEPT ![sigDrain].canceled = TRUE] /\ sigDrain = d
  BY <1>1 DEF DeliveryTypes, DrainRec
<1>2. CASE drain' = [drain EXCEPT ![sigDrain].canceled = TRUE] /\ sigDrain # d
  <2>1. drain'[d] = drain[d]
    BY <1>2 DEF DeliveryTypes
  <2> QED
    BY <2>1
<1> QED
  BY <1>1, <1>2

LEMMA DrainsStep == ASSUME DeliveryTypes, ExitInv, DrainsCounted, [Next]_vars PROVE DrainsCounted'
<1> USE DEF appVars, configVars
<1>0. "main" \in Callers
  BY SessionAssumption
<1>1. CASE Register("main")
  <2>1. PICK n \in Nat : DrainsUsed(n)
    BY DEF DrainsCounted
  <2>2. Registering = 0 /\ Registering' \in {0, 1}
    BY <1>1 DEF Register, NoCall, Registering
  <2>3. Len(regs') = Len(regs) - 1 /\ Len(regs) \in Nat
    BY <1>1, HeadTailProperties DEF Register, DeliveryTypes
  <2>4. drain' = drain \/ drain' = [drain EXCEPT ![sigDrain].canceled = TRUE]
    BY <1>1 DEF Register, SetChannel
  <2>5. \A d \in Drains : drain'[d].at = drain[d].at
    BY <2>4, CanceledDrain
  <2>6. DrainsUsed(n)'
    BY <2>1, <2>2, <2>3, <2>5, DeliveryAssumption DEF DrainsUsed
  <2> QED
    BY <2>6 DEF DrainsCounted
<1>2. ASSUME NEW c \in Callers, Configured(c) PROVE DrainsCounted'
  <2>0. /\ \A e \in Callers : e # c => caller'[e] = caller[e]
        /\ caller'[c].kind = "none"
    BY <1>2, ConfiguredCalls
  <2>1. CASE drain' = drain
    <3>1. Registering = 0 => Registering' = 0
      BY <1>0, <2>0 DEF Registering
    <3> QED
      BY <1>2, <2>1, <3>1, DrainsKept DEF Configured
  <2>2. CASE /\ caller[c].arg # None
             /\ drain' = [drain EXCEPT ![1 + Cardinality({x \in Drains : drain[x].at # "off"})] =
                                          [NoDrain EXCEPT !.at = "take", !.target = caller[c].arg]]
    <3>1. PICK n \in Nat : DrainsUsed(n)
      BY DEF DrainsCounted
    <3>2. /\ Cardinality({x \in Drains : drain[x].at # "off"}) = n
          /\ n + 1 \in Drains /\ c = "main" /\ Registering = 1
      BY <1>2, <2>2, <3>1, NextDrain DEF Configured
    <3>3. drain'[n + 1].at = "take" /\ \A d \in Drains : d # n + 1 => drain'[d] = drain[d]
      <4>1. 1 + n = n + 1
        OBVIOUS
      <4>2. drain' = [drain EXCEPT ![n + 1] = [NoDrain EXCEPT !.at = "take", !.target = caller[c].arg]]
        BY <2>2, <3>2, <4>1
      <4>3. drain'[n + 1] = [NoDrain EXCEPT !.at = "take", !.target = caller[c].arg]
        BY <3>2, <4>2 DEF DeliveryTypes
      <4>4. drain'[n + 1].at = "take"
        BY <4>3 DEF NoDrain
      <4>5. \A d \in Drains : d # n + 1 => drain'[d] = drain[d]
        BY <3>2, <4>2 DEF DeliveryTypes
      <4> QED
        BY <4>4, <4>5
    <3>4. Registering' = 0
      BY <2>0, <3>2 DEF Registering
    <3>5. \A d \in Drains : drain'[d].at # "off" <=> d <= n + 1
      BY <3>1, <3>2, <3>3, DeliveryAssumption DEF DrainsUsed, Drains
    <3>6. DrainsUsed(n + 1)'
      BY <1>2, <3>1, <3>2, <3>4, <3>5, DeliveryAssumption DEF DrainsUsed, Configured, DeliveryTypes
    <3> QED
      BY <3>6 DEF DrainsCounted
  <2> QED
    BY <1>2, <2>1, <2>2 DEF Configured
<1>3. ASSUME NEW c \in Callers, ExitBegins(c) \/ ConfigStep(c) PROVE DrainsCounted'
  <2>1. CASE ExitBegins(c) \/ ExitLocksReply(c) \/ DrainStopped(c)
    <3>1. caller' = [caller EXCEPT ![c] = [NoCall EXCEPT !.at = "sigStop", !.exit = TRUE]] \/ \E to : caller' = [caller EXCEPT ![c].at = to]
      BY <2>1 DEF ExitBegins, ExitLocksReply, DrainStopped
    <3>2. Registering = 0 => Registering' = 0
      <4>1. CASE caller' = [caller EXCEPT ![c] = [NoCall EXCEPT !.at = "sigStop", !.exit = TRUE]]
        BY <1>0, <4>1, CallEnds DEF Registering
      <4>2. ASSUME NEW to, caller' = [caller EXCEPT ![c].at = to] PROVE caller'["main"].kind = caller["main"].kind /\ (caller'["main"].exit <=> caller["main"].exit)
        BY <1>0, <4>2, CallGoesOn
      <4> QED
        BY <3>1, <4>1, <4>2 DEF Registering
    <3> QED
      BY <2>1, <3>2, DrainsKept DEF ExitBegins, ExitLocksReply, DrainStopped
  <2>2. CASE ExitStopsSignals(c) \/ ExitStopsBreaks(c)
    <3>1. PICK k \in Kinds : SetChannel(c, k, None, TRUE)
      BY <2>2 DEF ExitStopsSignals, ExitStopsBreaks, Kinds
    <3>2. (\A e \in Callers : e # c => caller'[e] = caller[e]) /\ caller'[c].exit
      BY <3>1, SetChannelCalls
    <3>3. Registering = 0 => Registering' = 0
      BY <1>0, <3>2 DEF Registering
    <3>4. drain' = drain \/ drain' = [drain EXCEPT ![sigDrain].canceled = TRUE]
      BY <3>1 DEF SetChannel
    <3>5. \A d \in Drains : (drain'[d].at = "off") <=> (drain[d].at = "off")
      BY <3>4, CanceledDrain
    <3> QED
      BY <2>2, <3>3, <3>5, DrainsKept DEF ExitStopsSignals, ExitStopsBreaks
  <2>3. CASE ExitSends(c)
    <3>1. Registering = 0 => Registering' = 0
      BY <1>0, <2>3 DEF ExitSends, Registering, NoCall, DeliveryTypes
    <3> QED
      BY <2>3, <3>1, DrainsKept DEF ExitSends
  <2> QED
    BY <1>2, <1>3, <2>1, <2>2, <2>3 DEF ConfigStep
<1>4. ASSUME NEW d \in Drains, DrainStep(d) PROVE DrainsCounted'
  <2>1. \A e \in Drains : (drain'[e].at = "off") <=> (drain[e].at = "off")
    BY <1>4 DEF DrainStep, DrainTakes, DrainHandsOver, DrainSends, DrainGivesUp, DrainContextDone, DrainEnds, DeliveryTypes,
       DrainRec, NoDrain
  <2> QED
    BY <1>4, <2>1, DrainsKept DEF DrainStep, DrainTakes, DrainHandsOver, DrainSends, DrainGivesUp, DrainContextDone, DrainEnds,
       DrainFrame, Registering
<1>5. CASE UNCHANGED <<drain, regs, caller>>
  BY <1>5, DrainsKept DEF Registering
<1>6. CASE SendMoves \/ Surroundings \/ LoopDelivers \/ LoopReplies \/ Quiet
  BY <1>5, <1>6 DEF SendMoves, SendReceived, SendPanics, SendCanceled, SendContextDone, SendsWith, SendSettles,
     Surroundings, AppCloses, ContextCanceled, LoopDelivers, BufferSignal, BeginSend, LoopReplies, SendReplied, Quiet,
     heldVars, LoopFrame
<1> QED
  BY <1>1, <1>3, <1>4, <1>6, StepKinds DEF CallerMoves, DrainMoves, DeliveryTypes

LEMMA DrainsInvariant == Spec => []DrainsCounted
<1>1. Init => DrainsCounted
  <2> SUFFICES ASSUME Init PROVE DrainsUsed(0)
    BY DEF DrainsCounted
  <2>1. Len(regs) <= MaxRegs /\ Len(regs) \in Nat
    BY SessionAssumption, LenProperties DEF Init
  <2>2. Registering = 0
    BY SessionAssumption DEF Init, DeliveryInit, NoCall, Registering
  <2>3. \A d \in Drains : drain[d].at = "off" /\ ~(d <= 0)
    BY DeliveryAssumption DEF Init, DeliveryInit, NoDrain, Drains
  <2> QED
    BY <2>1, <2>2, <2>3, DeliveryAssumption DEF DrainsUsed
<1>2. DeliveryTypes /\ ExitInv /\ DrainsCounted /\ [Next]_vars => DrainsCounted'
  BY DrainsStep
<1> QED
  BY <1>1, <1>2, TypesInvariant, ExitInvariant, PTL DEF Spec

--------------------------------------------------------------------------------
(* Nobody sends to a channel that was replaced. *)

\* A caller has taken the channel of kind k away and waits for the loop's send.
Setting(k) == \E c \in Callers : caller[c].at = "send" /\ caller[c].kind = k

ChannelKept ==
  \A k \in Kinds :
    /\ ch[k] # None => ch[k] = registered[k] /\ ~Setting(k)
    /\ InFlight(k) /\ ~Setting(k) => send.target = registered[k]

\* A running drain is the one the session knows of, and the only one who sends.
DrainAlone ==
  \A d \in Drains : Running(d) =>
    /\ sigDrain = d /\ ch["signal"] = None /\ drain[d].target = registered["signal"]
    /\ ~InFlight("signal") /\ ~Setting("signal")
    /\ \A c \in Callers : caller[c].at = "drain" => caller[c].wait = d

ChannelInv == ChannelKept /\ DrainAlone

\* A step that moves no call into or out of the change of a channel, and begins no send.
LEMMA ChannelFrame ==
  ASSUME ChannelInv, UNCHANGED <<ch, registered, sigDrain>>,
         \A k \in Kinds : InFlight(k)' => InFlight(k) /\ send'.target = send.target,
         \A k \in Kinds : Setting(k)' <=> Setting(k),
         \A d \in Drains : Running(d)' => Running(d) /\ drain'[d].target = drain[d].target,
         \A c \in Callers : caller'[c].at = "drain" =>
           caller'[c].wait = sigDrain \/ (caller[c].at = "drain" /\ caller'[c].wait = caller[c].wait)
  PROVE  ChannelInv'
<1>1. ChannelKept'
  BY DEF ChannelInv, ChannelKept
<1>2. DrainAlone'
  BY DEF ChannelInv, DrainAlone, Kinds
<1> QED
  BY <1>1, <1>2 DEF ChannelInv

\* The change of a channel begins.
LEMMA ChannelSet ==
  ASSUME DeliveryTypes, ExitInv, ChannelInv, NEW c \in Callers, NEW k \in Kinds, NEW arg \in Chans \cup {None},
         NEW exit \in BOOLEAN, SetChannel(c, k, arg, exit), caller[c].at \notin {"drain", "send"},
         UNCHANGED <<registered, sigDrain>>
  PROVE  ChannelInv'
<1>0. /\ \A e \in Callers : e # c => caller'[e] = caller[e]
      /\ caller'[c].kind = k /\ SameSend
  BY SetChannelCalls
<1>1. /\ send'.kind = send.kind /\ send'.at = send.at /\ send'.target = send.target
      /\ \A j \in Kinds : InFlight(j)' <=> InFlight(j)
  BY <1>0, SameSendFields DEF InFlight
<1>2. CASE k = "signal" /\ sigDrain # 0
  <2>1. /\ caller'[c].at = "drain" /\ caller'[c].wait = sigDrain /\ UNCHANGED ch
        /\ drain' = [drain EXCEPT ![sigDrain].canceled = TRUE]
    BY <1>2, SetChannelCalls
  <2>2. \A j \in Kinds : Setting(j)' <=> Setting(j)
    BY <1>0, <2>1 DEF Setting
  <2>3. \A d \in Drains : Running(d)' => Running(d) /\ drain'[d].target = drain[d].target
    BY <2>1, CanceledDrain DEF Running
  <2> QED
    BY <1>0, <1>1, <2>1, <2>2, <2>3, ChannelFrame
<1>3. CASE ~(k = "signal" /\ sigDrain # 0)
  <2>1. /\ k = "signal" => sigDrain = 0
        /\ caller'[c].at = "send" /\ Unset(k) /\ UNCHANGED drain
    BY <1>3, SetChannelCalls
  <2>2. ch'[k] = None /\ \A j \in Kinds \ {k} : ch'[j] = ch[j]
    BY <2>1 DEF Unset, DeliveryTypes
  <2>3. Setting(k)' /\ \A j \in Kinds \ {k} : Setting(j)' <=> Setting(j)
    BY <1>0, <2>1 DEF Setting
  <2>4. ChannelKept'
    BY <1>1, <2>2, <2>3 DEF ChannelInv, ChannelKept
  <2>5. DrainAlone'
    <3>1. k = "signal" => \A d \in Drains : ~Running(d)
      BY <2>1, DeliveryAssumption DEF ChannelInv, DrainAlone, Drains
    <3>2. \A d \in Drains : Running(d)' <=> Running(d)
      BY <2>1 DEF Running
    <3>3. CASE k = "signal"
      BY <3>1, <3>2, <3>3 DEF DrainAlone
    <3>4. CASE k = "break"
      BY <1>0, <1>1, <2>1, <2>2, <2>3, <3>2, <3>4 DEF ChannelInv, DrainAlone, Kinds
    <3> QED
      BY <3>3, <3>4 DEF Kinds
  <2> QED
    BY <2>4, <2>5 DEF ChannelInv
<1> QED
  BY <1>2, <1>3

\* The change of a channel ends.
LEMMA ChannelConfigured ==
  ASSUME DeliveryTypes, ExitInv, DrainsCounted, ChannelInv, NEW c \in Callers, Configured(c)
  PROVE  ChannelInv'
<1>k. PICK k, arg : k = caller[c].kind /\ arg = caller[c].arg
  OBVIOUS
<1>0. /\ \A e \in Callers : e # c => caller'[e] = caller[e]
      /\ caller'[c].kind = "none" /\ caller'[c].at \notin {"drain", "send"}
  BY ConfiguredCalls
<1>1. k \in Kinds /\ arg \in Chans \cup {None} /\ caller[c].at = "send" /\ ~InFlight(k) /\ UNCHANGED send
  BY <1>k DEF Configured, ExitInv, CallerShape, DeliveryTypes, CallRec
<1>2. Setting(k) /\ ~Setting(k)' /\ \A j \in Kinds \ {k} : Setting(j)' <=> Setting(j)
  BY <1>k, <1>0, <1>1 DEF Setting, ExitInv, OneConfig, Kinds
<1>3. \A j \in Kinds : InFlight(j)' <=> InFlight(j)
  BY <1>1 DEF InFlight
<1>4. registered'[k] = arg /\ \A j \in Kinds \ {k} : registered'[j] = registered[j]
  BY <1>k, <1>1 DEF Configured, DeliveryTypes
<1>5. k = "signal" => \A d \in Drains : ~Running(d)
  BY <1>2 DEF ChannelInv, DrainAlone
<1>6. CASE ch' = [ch EXCEPT ![k] = arg] /\ UNCHANGED <<drain, sigDrain>>
  <2>1. ch'[k] = arg /\ \A j \in Kinds \ {k} : ch'[j] = ch[j]
    BY <1>1, <1>6 DEF DeliveryTypes
  <2>2. ChannelKept'
    BY <1>1, <1>2, <1>3, <1>4, <2>1 DEF ChannelInv, ChannelKept
  <2>3. \A d \in Drains : Running(d)' <=> Running(d)
    BY <1>6 DEF Running
  <2>4. CASE k = "signal"
    BY <1>5, <2>2, <2>3, <2>4 DEF ChannelInv, DrainAlone
  <2>5. CASE k = "break"
    <3>1. DrainAlone'
      BY <1>0, <1>2, <1>3, <1>4, <1>6, <2>1, <2>3, <2>5 DEF ChannelInv, DrainAlone, Kinds
    <3> QED
      BY <2>2, <3>1 DEF ChannelInv
  <2> QED
    BY <1>1, <2>4, <2>5 DEF Kinds
<1>7. ASSUME k = "signal", arg # None, UNCHANGED ch,
             drain' = [drain EXCEPT ![1 + Cardinality({x \in Drains : drain[x].at # "off"})] =
                                      [NoDrain EXCEPT !.at = "take", !.target = arg]],
             sigDrain' = 1 + Cardinality({x \in Drains : drain[x].at # "off"})
      PROVE  ChannelInv'
  <2>1. PICK n \in Nat : DrainsUsed(n)
    BY DEF DrainsCounted
  <2>2. n + 1 \in Drains /\ 1 + Cardinality({x \in Drains : drain[x].at # "off"}) = n + 1
    BY <1>k, <1>1, <1>7, <2>1, NextDrain
  <2>3. sigDrain' = n + 1 /\ drain' = [drain EXCEPT ![n + 1] = [NoDrain EXCEPT !.at = "take", !.target = arg]]
    BY <1>7, <2>2
  <2>4. drain'[n + 1].target = arg /\ \A d \in Drains : d # n + 1 => drain'[d] = drain[d]
    BY <2>2, <2>3 DEF DeliveryTypes, NoDrain
  <2>5. ch'["signal"] = None /\ \A j \in Kinds \ {"signal"} : ch'[j] = ch[j]
    BY <1>2, <1>7 DEF ChannelInv, ChannelKept, Kinds
  <2>6. ChannelKept'
    BY <1>1, <1>2, <1>3, <1>4, <1>7, <2>5 DEF ChannelInv, ChannelKept
  <2>7. \A d \in Drains : Running(d)' => d = n + 1
    BY <1>5, <1>7, <2>4 DEF Running
  <2>8. \A e \in Callers : caller'[e].at # "drain"
    <3>1. ASSUME NEW e \in Callers, e # c PROVE caller[e].at # "drain"
      <4>1. caller[c].kind = "signal" /\ caller[e].kind # "signal"
        BY <1>k, <1>7, <3>1 DEF ExitInv, OneConfig
      <4> QED
        BY <4>1 DEF ExitInv, CallerShape
    <3> QED
      BY <1>0, <3>1
  <2>9. DrainAlone'
    BY <1>1, <1>2, <1>3, <1>4, <1>7, <2>2, <2>3, <2>4, <2>5, <2>7, <2>8 DEF DrainAlone
  <2> QED
    BY <2>6, <2>9 DEF ChannelInv
<1> QED
  BY <1>k, <1>6, <1>7 DEF Configured, NeedsDrain

LEMMA ChannelCallers ==
  ASSUME DeliveryTypes, ExitInv, DrainsCounted, ChannelInv, CallerMoves
  PROVE  ChannelInv'
<1> USE DEF appVars
<1>1. CASE Register("main")
  <2>1. PICK k \in Kinds, arg \in Chans \cup {None} : SetChannel("main", k, arg, FALSE)
    <3>1. regs # <<>> /\ regs \in Seq([kind : Kinds, arg : Chans \cup {None}])
      BY <1>1 DEF Register, DeliveryTypes
    <3>2. Head(regs) \in [kind : Kinds, arg : Chans \cup {None}]
      BY <3>1, HeadTailProperties
    <3> QED
      BY <1>1, <3>2 DEF Register
  <2>2. "main" \in Callers /\ caller["main"].at = "idle" /\ UNCHANGED <<registered, sigDrain>>
    BY <1>1, SessionAssumption DEF Register, NoCall
  <2> QED
    BY <2>1, <2>2, ChannelSet
<1> SUFFICES ASSUME NEW c \in Callers, ExitBegins(c) \/ ConfigStep(c) PROVE ChannelInv'
  BY <1>1 DEF CallerMoves
<1>2. ASSUME \A e \in Callers : e # c => caller'[e] = caller[e],
             caller[c].at \notin {"drain", "send"}, caller'[c].at \notin {"drain", "send"},
             UNCHANGED <<ch, registered, sigDrain, send, drain>>
      PROVE  ChannelInv'
  <2>1. \A k \in Kinds : Setting(k)' <=> Setting(k)
    BY <1>2 DEF Setting
  <2> QED
    BY <1>2, <2>1, ChannelFrame DEF InFlight, Running
<1>3. CASE ExitBegins(c)
  <2>1. (\A e \in Callers : e # c => caller'[e] = caller[e]) /\ caller'[c].at = "sigStop"
    BY <1>3, CallEnds DEF ExitBegins
  <2> QED
    BY <1>2, <1>3, <2>1 DEF ExitBegins, NoCall
<1>4. CASE ExitLocksReply(c)
  <2>1. caller' = [caller EXCEPT ![c].at = "breakStop"]
    BY <1>4 DEF ExitLocksReply
  <2>2. (\A e \in Callers : e # c => caller'[e] = caller[e]) /\ caller'[c].at = "breakStop"
    BY <2>1, CallGoesOn
  <2> QED
    BY <1>2, <1>4, <2>2 DEF ExitLocksReply
<1>5. CASE ExitSends(c)
  <2>1. (\A e \in Callers : e # c => caller'[e] = caller[e]) /\ caller'[c].at = "idle"
    BY <1>5 DEF ExitSends, NoCall, DeliveryTypes
  <2> QED
    BY <1>2, <1>5, <2>1 DEF ExitSends
<1>6. CASE ExitStopsSignals(c) \/ ExitStopsBreaks(c)
  BY <1>6, ChannelSet DEF ExitStopsSignals, ExitStopsBreaks, Kinds
<1>7. CASE DrainStopped(c)
  <2>1. caller' = [caller EXCEPT ![c].at = "send"] /\ Unset("signal") /\ UNCHANGED <<drain, registered, sigDrain>>
    BY <1>7 DEF DrainStopped
  <2>2. /\ \A e \in Callers : e # c => caller'[e] = caller[e]
        /\ caller'[c].at = "send" /\ caller'[c].kind = caller[c].kind
    BY <2>1, CallGoesOn
  <2>3. caller[c].at = "drain" /\ caller[c].kind = "signal"
    BY <1>7 DEF DrainStopped, ExitInv, CallerShape
  <2>4. \A d \in Drains : ~Running(d)
    BY <1>7, <2>3 DEF DrainStopped, ChannelInv, DrainAlone, Running
  <2>5. ch'["signal"] = None /\ ch'["break"] = ch["break"]
    BY <2>1 DEF Unset, DeliveryTypes, Kinds
  <2>6. Setting("signal")' /\ (Setting("break")' <=> Setting("break"))
    BY <2>2, <2>3 DEF Setting
  <2>7. \A k \in Kinds : (InFlight(k)' <=> InFlight(k)) /\ send'.target = send.target
    BY <2>1, SameSendFields DEF Unset, SameSend, InFlight
  <2>8. ChannelKept'
    BY <2>1, <2>5, <2>6, <2>7 DEF ChannelInv, ChannelKept, Kinds
  <2>9. DrainAlone'
    BY <2>1, <2>4 DEF DrainAlone, Running
  <2> QED
    BY <2>8, <2>9 DEF ChannelInv
<1> QED
  BY <1>3, <1>4, <1>5, <1>6, <1>7, ChannelConfigured DEF ConfigStep

LEMMA ChannelDrains ==
  ASSUME DeliveryTypes, ChannelInv, NEW d \in Drains, DrainStep(d)
  PROVE  ChannelInv'
<1>1. UNCHANGED <<send, registered, caller>>
  BY DEF DrainStep, DrainTakes, DrainHandsOver, DrainSends, DrainGivesUp, DrainContextDone, DrainEnds, DrainFrame
<1>2. \A k \in Kinds : (InFlight(k)' <=> InFlight(k)) /\ (Setting(k)' <=> Setting(k))
  BY <1>1 DEF InFlight, Setting
<1>3. \A e \in Drains : e # d => drain'[e] = drain[e]
  BY DEF DrainStep, DrainTakes, DrainHandsOver, DrainSends, DrainGivesUp, DrainContextDone, DrainEnds, DeliveryTypes
<1>4. CASE DrainTakes(d) \/ DrainSends(d) \/ DrainContextDone(d)
  <2>1. Running(d) /\ drain'[d].target = drain[d].target
    BY <1>4 DEF DrainTakes, DrainSends, DrainContextDone, Running, DeliveryTypes, DrainRec
  <2>2. UNCHANGED <<ch, sigDrain>>
    BY <1>4 DEF DrainTakes, DrainSends, DrainContextDone
  <2>3. \A e \in Drains : Running(e)' => Running(e) /\ drain'[e].target = drain[e].target
    BY <1>3, <2>1 DEF Running
  <2> QED
    BY <1>1, <1>2, <2>2, <2>3, ChannelFrame
<1>5. CASE DrainHandsOver(d) \/ DrainGivesUp(d)
  <2>1. Running(d) /\ ~Running(d)'
    BY <1>5 DEF DrainHandsOver, DrainGivesUp, Running, DeliveryTypes, DrainRec
  <2>2. \A e \in Drains : ~Running(e)'
    BY <1>3, <2>1 DEF ChannelInv, DrainAlone, Running
  <2>3. ch'["signal"] \in {ch["signal"], registered["signal"]} /\ ch'["break"] = ch["break"] /\ ~Setting("signal")
    BY <1>5, <2>1 DEF DrainHandsOver, DrainGivesUp, ChannelInv, DrainAlone, DeliveryTypes, Kinds
  <2>4. ChannelKept'
    BY <1>1, <1>2, <2>3 DEF ChannelInv, ChannelKept, Kinds
  <2> QED
    BY <2>2, <2>4 DEF ChannelInv, DrainAlone
<1>6. CASE DrainEnds(d)
  <2>1. UNCHANGED ch /\ ~Running(d)' /\ ~Running(d) /\ sigDrain' = IF sigDrain = d THEN 0 ELSE sigDrain
    BY <1>6 DEF DrainEnds, DrainOwns, Running, DeliveryTypes, NoDrain
  <2>2. \A e \in Drains : Running(e)' => Running(e) /\ drain'[e] = drain[e] /\ e # d
    BY <1>3, <2>1 DEF Running
  <2>3. ChannelKept'
    BY <1>1, <1>2, <2>1 DEF ChannelInv, ChannelKept
  <2>4. DrainAlone'
    BY <1>1, <1>2, <2>1, <2>2 DEF ChannelInv, DrainAlone, Kinds
  <2> QED
    BY <2>3, <2>4 DEF ChannelInv
<1> QED
  BY <1>4, <1>5, <1>6 DEF DrainStep

LEMMA ChannelLoop ==
  ASSUME DeliveryTypes, ExitInv, ChannelInv, LoopDelivers \/ LoopReplies \/ SendMoves
  PROVE  ChannelInv'
<1> USE DEF appVars, configVars, LoopFrame
<1>1. UNCHANGED <<registered, caller, drain, sigDrain>>
  BY DEF LoopDelivers, LoopReplies, SendMoves, SendReceived, SendPanics, SendCanceled, SendContextDone, SendsWith,
     SendSettles, SendReplied, BufferSignal, BeginSend
<1>2. (\A k \in Kinds : Setting(k)' <=> Setting(k)) /\ \A d \in Drains : Running(d)' <=> Running(d)
  BY <1>1 DEF Setting, Running
<1>3. ASSUME UNCHANGED ch, \A k \in Kinds : InFlight(k)' => InFlight(k) /\ send'.target = send.target PROVE ChannelInv'
  BY <1>1, <1>2, <1>3, ChannelFrame
<1>4. CASE LoopReplies
  <2>1. UNCHANGED ch /\ \A k \in Kinds : ~InFlight(k)'
    BY <1>4 DEF LoopReplies, SendReplied, NoSend, InFlight
  <2> QED
    BY <1>3, <2>1
<1>5. ASSUME NEW result, SendsWith(result) PROVE ChannelInv'
  <2>1. send'.kind = send.kind /\ send'.target = send.target /\ send.at = "send"
    BY <1>5 DEF SendsWith, DeliveryTypes, SendRec
  <2> QED
    BY <1>3, <1>5, <2>1 DEF SendsWith, InFlight
<1>6. CASE SendSettles
  <2>1. \A k \in Kinds : ~InFlight(k)'
    BY <1>6 DEF SendSettles, DeliveryTypes, SendRec, InFlight
  <2>2. \A k \in Kinds : ch'[k] = ch[k] \/ ch'[k] = None
    BY <1>6 DEF SendSettles, DeliveryTypes
  <2>3. ChannelKept'
    BY <1>1, <1>2, <2>1, <2>2 DEF ChannelInv, ChannelKept
  <2>4. DrainAlone'
    BY <1>1, <1>2, <2>1, <2>2 DEF ChannelInv, DrainAlone, Kinds
  <2> QED
    BY <2>3, <2>4 DEF ChannelInv
<1>7. CASE BufferSignal(taken')
  BY <1>3, <1>7 DEF BufferSignal, InFlight
<1>8. ASSUME NEW k \in Kinds, BeginSend(k, taken') PROVE ChannelInv'
  <2>1. send'.kind = k /\ send'.target = ch[k] /\ ch[k] # None /\ UNCHANGED ch
    BY <1>8 DEF BeginSend, NoSend
  <2>2. ChannelKept'
    BY <1>1, <1>2, <2>1 DEF ChannelInv, ChannelKept, InFlight
  <2>3. DrainAlone'
    BY <1>1, <1>2, <2>1 DEF ChannelInv, DrainAlone, InFlight, Kinds
  <2> QED
    BY <2>2, <2>3 DEF ChannelInv
<1> QED
  BY <1>4, <1>5, <1>6, <1>7, <1>8 DEF LoopDelivers, SendMoves, SendReceived, SendPanics, SendCanceled, SendContextDone

LEMMA ChannelInvariant == Spec => []ChannelInv
<1>1. Init => ChannelInv
  <2> SUFFICES ASSUME Init PROVE ChannelInv
    OBVIOUS
  <2>1. ChannelKept
    BY DEF Init, DeliveryInit, NoSend, ChannelKept, InFlight
  <2>2. DrainAlone
    BY DEF Init, DeliveryInit, NoDrain, DrainAlone, Running
  <2> QED
    BY <2>1, <2>2 DEF ChannelInv
<1>2. DeliveryTypes /\ ExitInv /\ DrainsCounted /\ ChannelInv /\ [Next]_vars => ChannelInv'
  <2> SUFFICES ASSUME DeliveryTypes, ExitInv, DrainsCounted, ChannelInv, [Next]_vars PROVE ChannelInv'
    OBVIOUS
  <2>1. CASE UNCHANGED <<ch, registered, sigDrain, send, drain, caller>>
    BY <2>1 DEF ChannelInv, ChannelKept, DrainAlone, InFlight, Setting, Running
  <2>2. CASE Quiet \/ Surroundings
    BY <2>1, <2>2 DEF Quiet, heldVars, configVars, Surroundings, AppCloses, ContextCanceled
  <2> QED
    BY <2>2, StepKinds, ChannelCallers, ChannelDrains, ChannelLoop DEF DrainMoves, DeliveryTypes
<1> QED
  BY <1>1, <1>2, TypesInvariant, ExitInvariant, DrainsInvariant, PTL DEF Spec

\* Once Signals(c) or Break(c) has returned nobody sends to the channel that was
\* registered before, however many channels are registered and whether the loop or a
\* drain was at a send.
THEOREM OnlyRegisteredHolds == Spec => []OnlyRegistered
<1>1. ChannelInv => OnlyRegistered
  <2> SUFFICES ASSUME ChannelInv, NEW k \in Kinds, ConfigFree(k)
               PROVE  /\ InFlight(k) => send.target = registered[k]
                      /\ k = "signal" => \A d \in Drains : Running(d) => drain[d].target = registered[k]
    BY DEF OnlyRegistered
  <2>1. ~Setting(k)
    BY DEF ConfigFree, Setting
  <2> QED
    BY <2>1 DEF ChannelInv, ChannelKept, DrainAlone
<1> QED
  BY <1>1, ChannelInvariant, PTL

--------------------------------------------------------------------------------
(* The signals are delivered in the order of their requests. *)
Rising(s) == \A i, j \in 1..Len(s) : i < j => s[i] < s[j]
Below(s, t) == \A i \in 1..Len(s), j \in 1..Len(t) : s[i] < t[j]
UpTo(s, n) == \A i \in 1..Len(s) : s[i] <= n

\* The buffer holds nothing as long as the loop sends itself.
BufferEmpty == ch["signal"] # None \/ InFlight("signal") => sigBuf = <<>>

\* What was delivered, what a drain holds and what is in the buffer follow each other.
BatchOrder(b) == Rising(b) /\ Below(delivered, b) /\ Below(b, sigBuf) /\ UpTo(b, taken)
BufferOrder == Rising(sigBuf) /\ Below(delivered, sigBuf) /\ UpTo(sigBuf, taken)
DeliveredOrder == Rising(delivered) /\ UpTo(delivered, taken)
Sending == send.at = "send" /\ send.kind = "signal"
SendOrder == Sending => send.id <= taken /\ \A i \in 1..Len(delivered) : delivered[i] < send.id

OrderInv ==
  /\ BufferEmpty /\ DeliveredOrder /\ BufferOrder /\ SendOrder
  /\ \A d \in Drains : BatchOrder(drain[d].batch)

\* A signal behind all others.
LEMMA AppendLast ==
  ASSUME NEW s \in Seq(Nat), NEW x \in Nat, \A i \in 1..Len(s) : s[i] < x, Rising(s)
  PROVE  /\ Append(s, x) \in Seq(Nat) /\ Len(Append(s, x)) = Len(s) + 1
         /\ Append(s, x)[Len(s) + 1] = x /\ \A i \in 1..Len(s) : Append(s, x)[i] = s[i]
         /\ Rising(Append(s, x))
<1>1. /\ Append(s, x) \in Seq(Nat) /\ Len(Append(s, x)) = Len(s) + 1 /\ Len(s) \in Nat
      /\ Append(s, x)[Len(s) + 1] = x /\ \A i \in 1..Len(s) : Append(s, x)[i] = s[i]
  BY AppendProperties, LenProperties
<1>2. ASSUME NEW i \in 1..Len(s) + 1, NEW j \in 1..Len(s) + 1, i < j PROVE Append(s, x)[i] < Append(s, x)[j]
  <2>1. i \in 1..Len(s) /\ Append(s, x)[i] = s[i]
    BY <1>1, <1>2
  <2>2. CASE j \in 1..Len(s)
    BY <1>1, <1>2, <2>1, <2>2 DEF Rising
  <2>3. CASE j = Len(s) + 1
    BY <1>1, <2>1, <2>3
  <2> QED
    BY <1>1, <2>2, <2>3
<1> QED
  BY <1>1, <1>2 DEF Rising

LEMMA AppendUpTo ==
  ASSUME NEW s \in Seq(Nat), NEW x \in Nat, NEW n \in Nat, UpTo(s, n), x <= n
  PROVE  UpTo(Append(s, x), n)
<1>1. Len(Append(s, x)) = Len(s) + 1 /\ Len(s) \in Nat
  BY AppendProperties, LenProperties
<1>2. ASSUME NEW i \in 1..Len(s) + 1 PROVE Append(s, x)[i] <= n
  BY <1>1, <1>2, AppendProperties DEF UpTo
<1> QED
  BY <1>1, <1>2 DEF UpTo

LEMMA AppendBelow ==
  ASSUME NEW s \in Seq(Nat), NEW x \in Nat, NEW t \in Seq(Nat), Below(s, t), \A j \in 1..Len(t) : x < t[j]
  PROVE  Below(Append(s, x), t)
<1>1. Len(Append(s, x)) = Len(s) + 1 /\ Len(s) \in Nat
  BY AppendProperties, LenProperties
<1>2. ASSUME NEW i \in 1..Len(s) + 1, NEW j \in 1..Len(t) PROVE Append(s, x)[i] < t[j]
  BY <1>1, <1>2, AppendProperties DEF Below
<1> QED
  BY <1>1, <1>2 DEF Below

LEMMA BelowAppend ==
  ASSUME NEW s \in Seq(Nat), NEW x \in Nat, NEW t \in Seq(Nat), Below(t, s), \A j \in 1..Len(t) : t[j] < x
  PROVE  Below(t, Append(s, x))
<1>1. Len(Append(s, x)) = Len(s) + 1 /\ Len(s) \in Nat
  BY AppendProperties, LenProperties
<1>2. ASSUME NEW i \in 1..Len(s) + 1, NEW j \in 1..Len(t) PROVE t[j] < Append(s, x)[i]
  BY <1>1, <1>2, AppendProperties DEF Below
<1> QED
  BY <1>1, <1>2 DEF Below

\* Sequences with no element, and larger bounds.
LEMMA EmptyOrder ==
  /\ Rising(<<>>) /\ (\A s : Below(<<>>, s) /\ Below(s, <<>>)) /\ (\A n : UpTo(<<>>, n))
BY DEF Rising, Below, UpTo

LEMMA UpToMore ==
  ASSUME NEW s \in Seq(Nat), NEW n \in Nat, NEW m \in Nat, n <= m, UpTo(s, n)
  PROVE  UpTo(s, m)
<1>1. ASSUME NEW i \in 1..Len(s) PROVE s[i] <= m
  <2>1. s[i] \in Nat /\ s[i] <= n
    BY DEF UpTo
  <2> QED
    BY <2>1
<1> QED
  BY <1>1 DEF UpTo

\* A step that moves no signal; what a drain holds may be dropped.
LEMMA OrderFrame ==
  ASSUME DeliveryTypes, DeliveryTypes', OrderInv, UNCHANGED <<delivered, sigBuf>>, taken' >= taken,
         \A d \in Drains : drain'[d].batch \in {drain[d].batch, <<>>},
         Sending' => Sending /\ send'.id = send.id,
         InFlight("signal")' => InFlight("signal"),
         ch'["signal"] # None => ch["signal"] # None \/ sigBuf = <<>>
  PROVE  OrderInv'
<1>0. taken \in Nat /\ taken' \in Nat /\ delivered \in Seq(Nat) /\ sigBuf \in Seq(Nat) /\ send.id \in Nat
  BY DEF DeliveryTypes, SendRec
<1>1. BufferEmpty'
  BY DEF OrderInv, BufferEmpty
<1>2. DeliveredOrder'
  BY <1>0, UpToMore DEF OrderInv, DeliveredOrder
<1>3. BufferOrder'
  BY <1>0, UpToMore DEF OrderInv, BufferOrder
<1>4. SendOrder'
  BY <1>0 DEF OrderInv, SendOrder
<1>5. ASSUME NEW d \in Drains PROVE BatchOrder(drain[d].batch)'
  <2>1. CASE drain'[d].batch = drain[d].batch
    <3>1. drain[d].batch \in Seq(Nat)
      BY DEF DeliveryTypes, DrainRec
    <3>2. BatchOrder(drain[d].batch)
      BY DEF OrderInv
    <3>3. UpTo(drain[d].batch, taken')
      BY <1>0, <3>1, <3>2, UpToMore DEF BatchOrder
    <3> QED
      BY <2>1, <3>2, <3>3 DEF BatchOrder
  <2>2. CASE drain'[d].batch = <<>>
    BY <2>2, EmptyOrder DEF BatchOrder
  <2> QED
    BY <2>1, <2>2
<1> QED
  BY <1>1, <1>2, <1>3, <1>4, <1>5 DEF OrderInv

\* Calls of Signals, Break and Exit: a channel is only used directly when the buffer
\* is empty.
LEMMA OrderCallers ==
  ASSUME DeliveryTypes, DeliveryTypes', OrderInv, CallerMoves, UNCHANGED taken
  PROVE  OrderInv'
<1> USE DEF historyVars
<1>0. UNCHANGED <<delivered, sigBuf>> /\ taken' >= taken
  <2>1. taken' >= taken
    BY DEF DeliveryTypes
  <2>2. UNCHANGED <<delivered, sigBuf>>
    BY DEF CallerMoves, Register, ExitBegins, ConfigStep, DrainStopped, Configured, ExitStopsSignals, ExitLocksReply,
       ExitStopsBreaks, ExitSends
  <2> QED
    BY <2>1, <2>2
<1>1. ASSUME SameSend, ch'["signal"] # None => ch["signal"] # None \/ sigBuf = <<>>,
             \A d \in Drains : drain'[d].batch \in {drain[d].batch, <<>>}
      PROVE  OrderInv'
  <2>1. (Sending' => Sending /\ send'.id = send.id) /\ (InFlight("signal")' => InFlight("signal"))
    BY <1>1, SameSendFields DEF Sending, InFlight
  <2> QED
    BY <1>0, <1>1, <2>1, OrderFrame
<1>2. ASSUME NEW c, NEW k, NEW arg, NEW exit, SetChannel(c, k, arg, exit) PROVE OrderInv'
  <2>1. SameSend
    BY <1>2 DEF SetChannel, Unset, SameSend
  <2>2. ch'["signal"] # None => ch["signal"] # None
    BY <1>2 DEF SetChannel, Unset, DeliveryTypes, Kinds
  <2>3. drain' = drain \/ drain' = [drain EXCEPT ![sigDrain].canceled = TRUE]
    BY <1>2 DEF SetChannel
  <2>4. \A d \in Drains : drain'[d].batch = drain[d].batch
    BY <2>3, CanceledDrain
  <2> QED
    BY <1>1, <2>1, <2>2, <2>4
<1>3. ASSUME NEW c, Configured(c) PROVE OrderInv'
  <2>1. ch'["signal"] # None => ch["signal"] # None \/ sigBuf = <<>>
    <3>1. CASE ch' = [ch EXCEPT ![caller[c].kind] = caller[c].arg] /\ (caller[c].arg = None \/ ~NeedsDrain(caller[c].kind))
      BY <3>1 DEF NeedsDrain, DeliveryTypes, Kinds
    <3> QED
      BY <1>3, <3>1 DEF Configured
  <2>2. \A d \in Drains : drain'[d].batch \in {drain[d].batch, <<>>}
    <3>1. ASSUME NEW x, NEW arg, drain' = [drain EXCEPT ![x] = [NoDrain EXCEPT !.at = "take", !.target = arg]], NEW d \in Drains
          PROVE  drain'[d].batch \in {drain[d].batch, <<>>}
      BY <3>1 DEF DeliveryTypes, NoDrain
    <3> QED
      BY <1>3, <3>1 DEF Configured
  <2> QED
    BY <1>1, <1>3, <2>1, <2>2 DEF Configured, SameSend
<1>4. ASSUME NEW c, DrainStopped(c) PROVE OrderInv'
  <2>1. SameSend /\ (ch'["signal"] # None => ch["signal"] # None)
    BY <1>4 DEF DrainStopped, Unset, SameSend, DeliveryTypes, Kinds
  <2> QED
    BY <1>1, <1>4, <2>1 DEF DrainStopped
<1>5. ASSUME NEW c, ExitBegins(c) \/ ExitLocksReply(c) \/ ExitSends(c) PROVE OrderInv'
  BY <1>1, <1>5 DEF ExitBegins, ExitLocksReply, ExitSends, SameSend
<1> QED
  BY <1>2, <1>3, <1>4, <1>5 DEF CallerMoves, Register, ConfigStep, ExitStopsSignals, ExitStopsBreaks

\* A drain: it takes the whole buffer, and gives back what it did not send.
LEMMA OrderDrains ==
  ASSUME DeliveryTypes, DeliveryTypes', BatchHeld, ChannelInv, OrderInv, NEW d \in Drains, DrainStep(d), UNCHANGED taken
  PROVE  OrderInv'
<1> USE DEF historyVars
<1>0. /\ taken \in Nat /\ delivered \in Seq(Nat) /\ sigBuf \in Seq(Nat) /\ drain[d].batch \in Seq(Nat) /\ UNCHANGED send
      /\ \A e \in Drains : e # d => drain'[e] = drain[e]
  BY DEF DrainStep, DrainTakes, DrainHandsOver, DrainSends, DrainGivesUp, DrainContextDone, DrainEnds, DrainFrame,
     DeliveryTypes, DrainRec
<1>1. CASE DrainHandsOver(d) \/ DrainContextDone(d) \/ DrainEnds(d)
  <2>1. \A e \in Drains : drain'[e].batch \in {drain[e].batch, <<>>}
    <3>1. drain'[d].batch = drain[d].batch \/ drain'[d].batch = <<>>
      BY <1>1 DEF DrainHandsOver, DrainContextDone, DrainEnds, DeliveryTypes, DrainRec, NoDrain
    <3> QED
      BY <1>0, <3>1
  <2>2. UNCHANGED <<delivered, sigBuf>> /\ (ch'["signal"] # None => ch["signal"] # None \/ sigBuf = <<>>)
    BY <1>1 DEF DrainHandsOver, DrainContextDone, DrainEnds
  <2> QED
    BY <1>0, <2>1, <2>2, OrderFrame DEF Sending, InFlight
<1>2. PICK b \in Seq(Nat) : b = drain[d].batch
  BY <1>0
<1>3. BatchOrder(b)
  BY <1>2 DEF OrderInv
<1>4. CASE DrainTakes(d) \/ DrainSends(d) \/ DrainGivesUp(d)
  <2>1. Running(d) /\ ~InFlight("signal") /\ ch["signal"] = None /\ \A e \in Drains : e # d => ~Running(e)
    BY <1>4 DEF DrainTakes, DrainSends, DrainGivesUp, Running, ChannelInv, DrainAlone
  <2>2. \A e \in Drains : e # d => drain'[e].batch = <<>>
    BY <1>0, <2>1 DEF Running, BatchHeld
  <2>3. UNCHANGED ch
    BY <1>4 DEF DrainTakes, DrainSends, DrainGivesUp
  <2>4. BufferEmpty' /\ SendOrder'
    BY <1>0, <2>1, <2>3 DEF BufferEmpty, SendOrder, Sending, InFlight
  <2>5. ASSUME DeliveredOrder', BufferOrder', BatchOrder(drain[d].batch)' PROVE OrderInv'
    <3>1. ASSUME NEW e \in Drains PROVE BatchOrder(drain[e].batch)'
      BY <2>2, <2>5, EmptyOrder DEF BatchOrder
    <3> QED
      BY <2>4, <2>5, <3>1 DEF OrderInv
  <2>6. CASE DrainTakes(d)
    <3>1. sigBuf' = <<>> /\ UNCHANGED delivered /\ drain'[d].batch = sigBuf
      BY <2>6 DEF DrainTakes, DeliveryTypes, DrainRec
    <3>2. DeliveredOrder' /\ BufferOrder'
      BY <3>1, EmptyOrder DEF OrderInv, DeliveredOrder, BufferOrder
    <3>3. BatchOrder(drain[d].batch)'
      BY <3>1, EmptyOrder DEF OrderInv, BufferOrder, BatchOrder
    <3> QED
      BY <2>5, <3>2, <3>3
  <2>7. CASE DrainSends(d)
    <3>1. b # <<>>
      BY <1>2, <2>7 DEF DrainSends, BatchHeld
    <3>2. /\ Head(b) = b[1] /\ Head(b) \in Nat /\ Tail(b) \in Seq(Nat) /\ Len(b) \in Nat /\ Len(Tail(b)) = Len(b) - 1
          /\ 1 \in 1..Len(b) /\ \A i \in 1..Len(Tail(b)) : Tail(b)[i] = b[i + 1] /\ i + 1 \in 1..Len(b) /\ 1 < i + 1
      <4>1. Head(b) \in Nat /\ Tail(b) \in Seq(Nat) /\ Len(Tail(b)) = Len(b) - 1 /\ \A i \in 1..Len(Tail(b)) : Tail(b)[i] = b[i + 1]
        BY <3>1, HeadTailProperties
      <4>2. Len(b) \in Nat \ {0}
        BY <3>1, EmptySeq
      <4>3. Head(b) = b[1]
        BY <3>1
      <4> QED
        BY <4>1, <4>2, <4>3
    <3>3. /\ delivered' = Append(delivered, Head(b)) /\ UNCHANGED sigBuf /\ drain'[d].batch = Tail(b)
      BY <1>2, <2>7 DEF DrainSends, DeliveryTypes, DrainRec
    <3>4. \A i \in 1..Len(delivered) : delivered[i] < Head(b)
      BY <1>3, <3>2 DEF BatchOrder, Below
    <3>5. Head(b) <= taken
      BY <1>3, <3>2 DEF BatchOrder, UpTo
    <3>6. DeliveredOrder'
      BY <1>0, <3>2, <3>3, <3>4, <3>5, AppendLast, AppendUpTo DEF OrderInv, DeliveredOrder
    <3>7. BufferOrder'
      <4>1. \A j \in 1..Len(sigBuf) : Head(b) < sigBuf[j]
        BY <1>3, <3>2 DEF BatchOrder, Below
      <4>2. Below(Append(delivered, Head(b)), sigBuf)
        BY <1>0, <3>2, <4>1, AppendBelow DEF OrderInv, BufferOrder
      <4> QED
        BY <3>3, <4>2 DEF OrderInv, BufferOrder
    <3>8. BatchOrder(drain[d].batch)'
      <4>1. Rising(Tail(b))
        BY <1>3, <3>2 DEF BatchOrder, Rising
      <4>2. Below(delivered, Tail(b)) /\ Below(Tail(b), sigBuf)
        BY <1>3, <3>2 DEF BatchOrder, Below
      <4>3. \A j \in 1..Len(Tail(b)) : Head(b) < Tail(b)[j]
        BY <1>3, <3>2 DEF BatchOrder, Rising
      <4>4. Below(Append(delivered, Head(b)), Tail(b))
        BY <1>0, <3>2, <4>2, <4>3, AppendBelow
      <4>5. UpTo(Tail(b), taken)
        BY <1>3, <3>2 DEF BatchOrder, UpTo
      <4> QED
        BY <3>3, <4>1, <4>2, <4>4, <4>5 DEF BatchOrder
    <3> QED
      BY <2>5, <3>6, <3>7, <3>8
  <2>8. CASE DrainGivesUp(d)
    <3>1. PICK n : n = IF Len(Requeued(b)) > MaxSigBuf THEN MaxSigBuf ELSE Len(Requeued(b))
      OBVIOUS
    <3>2. sigBuf' = SubSeq(Requeued(b), 1, n) /\ UNCHANGED delivered /\ drain'[d].batch = <<>>
      BY <1>2, <2>8, <3>1 DEF DrainGivesUp, DeliveryTypes, DrainRec
    <3>3. /\ Len(sigBuf') = n /\ n \in Nat /\ n <= Len(b) + Len(sigBuf) /\ Len(b) \in Nat /\ Len(sigBuf) \in Nat
          /\ \A i \in 1..n : sigBuf'[i] = IF i <= Len(b) THEN b[i] ELSE sigBuf[i - Len(b)]
      BY <1>0, <3>1, <3>2, RequeuedPart, LenProperties
    <3>4. \A i \in 1..n : IF i <= Len(b) THEN i \in 1..Len(b) ELSE i - Len(b) \in 1..Len(sigBuf)
      BY <3>3
    <3>5. Rising(sigBuf')
      <4> SUFFICES ASSUME NEW i \in 1..n, NEW j \in 1..n, i < j PROVE sigBuf'[i] < sigBuf'[j]
        BY <3>3 DEF Rising
      <4>1. CASE j <= Len(b)
        BY <1>3, <3>3, <3>4, <4>1 DEF BatchOrder, Rising
      <4>2. CASE i <= Len(b) /\ ~(j <= Len(b))
        BY <1>3, <3>3, <3>4, <4>2 DEF BatchOrder, Below
      <4>3. CASE ~(i <= Len(b)) /\ ~(j <= Len(b))
        <5>1. PICK p \in 1..Len(sigBuf), q \in 1..Len(sigBuf) : p = i - Len(b) /\ q = j - Len(b)
          BY <3>4, <4>3
        <5>2. sigBuf'[i] = sigBuf[p] /\ sigBuf'[j] = sigBuf[q] /\ p < q
          BY <3>3, <4>3, <5>1
        <5> QED
          BY <5>2 DEF OrderInv, BufferOrder, Rising
      <4> QED
        BY <3>3, <4>1, <4>2, <4>3
    <3>6. Below(delivered, sigBuf')
      BY <1>3, <3>3, <3>4 DEF BatchOrder, Below, OrderInv, BufferOrder
    <3>7. UpTo(sigBuf', taken)
      BY <1>3, <3>3, <3>4 DEF BatchOrder, UpTo, OrderInv, BufferOrder
    <3>8. DeliveredOrder' /\ BufferOrder'
      BY <3>2, <3>5, <3>6, <3>7 DEF OrderInv, DeliveredOrder, BufferOrder
    <3>9. BatchOrder(drain[d].batch)'
      BY <3>2, EmptyOrder DEF BatchOrder
    <3> QED
      BY <2>5, <3>8, <3>9
  <2> QED
    BY <1>4, <2>6, <2>7, <2>8
<1> QED
  BY <1>1, <1>4 DEF DrainStep

\* The request loop: a signal's number is larger than that of all signals before.
LEMMA OrderLoop ==
  ASSUME DeliveryTypes, DeliveryTypes', BatchHeld, ExitInv, ChannelInv, OrderInv,
         LoopDelivers \/ LoopReplies \/ (SendMoves /\ UNCHANGED taken)
  PROVE  OrderInv'
<1> USE DEF historyVars, configVars, LoopFrame
<1>0. /\ taken \in Nat /\ delivered \in Seq(Nat) /\ sigBuf \in Seq(Nat) /\ send.id \in Nat /\ UNCHANGED drain
      /\ \A d \in Drains : drain[d].batch \in Seq(Nat)
  BY DEF LoopDelivers, LoopReplies, SendMoves, SendReceived, SendPanics, SendCanceled, SendContextDone, SendsWith,
     SendSettles, SendReplied, BufferSignal, BeginSend, DeliveryTypes, DrainRec, SendRec
<1>1. ASSUME UNCHANGED <<delivered, sigBuf>>, taken' >= taken, Sending' => Sending /\ send'.id = send.id,
             InFlight("signal")' => InFlight("signal"), ch'["signal"] # None => ch["signal"] # None
      PROVE  OrderInv'
  BY <1>0, <1>1, OrderFrame
<1>2. CASE LoopReplies
  <2>1. send'.at = "idle" /\ send'.kind = "none" /\ UNCHANGED <<delivered, sigBuf, ch, taken>>
    BY <1>2 DEF LoopReplies, SendReplied, NoSend
  <2> QED
    BY <1>0, <1>1, <2>1 DEF Sending, InFlight
<1>3. CASE SendSettles /\ UNCHANGED taken
  <2>1. send'.at = "reply" /\ UNCHANGED <<delivered, sigBuf>>
    BY <1>3 DEF SendSettles, DeliveryTypes, SendRec
  <2>2. ch'["signal"] # None => ch["signal"] # None
    BY <1>3 DEF SendSettles, DeliveryTypes, Kinds
  <2> QED
    BY <1>0, <1>1, <1>3, <2>1, <2>2 DEF Sending, InFlight
<1>4. ASSUME NEW result, SendsWith(result), UNCHANGED taken PROVE OrderInv'
  <2>1. send'.at = "settle" /\ send'.kind = send.kind /\ send.at = "send" /\ UNCHANGED <<sigBuf, ch>>
    BY <1>4 DEF SendsWith, DeliveryTypes, SendRec
  <2>2. CASE UNCHANGED delivered
    BY <1>0, <1>1, <1>4, <2>1, <2>2 DEF Sending, InFlight
  <2>3. CASE delivered' = Append(delivered, send.id) /\ send.kind = "signal"
    <3>1. Sending /\ InFlight("signal")
      BY <2>1, <2>3 DEF Sending, InFlight
    <3>2. sigBuf = <<>> /\ send.id <= taken /\ \A i \in 1..Len(delivered) : delivered[i] < send.id
      BY <3>1 DEF OrderInv, BufferEmpty, SendOrder
    <3>3. \A d \in Drains : drain'[d].batch = <<>>
      BY <1>0, <3>1 DEF ChannelInv, DrainAlone, Running, BatchHeld
    <3>4. DeliveredOrder'
      BY <1>0, <1>4, <2>3, <3>2, AppendLast, AppendUpTo DEF OrderInv, DeliveredOrder
    <3>5. BufferOrder' /\ BufferEmpty'
      BY <2>1, <3>2, EmptyOrder DEF BufferOrder, BufferEmpty
    <3>6. SendOrder'
      BY <2>1 DEF SendOrder, Sending
    <3>7. \A d \in Drains : BatchOrder(drain[d].batch)'
      BY <3>3, EmptyOrder DEF BatchOrder
    <3> QED
      BY <3>4, <3>5, <3>6, <3>7 DEF OrderInv
  <2> QED
    BY <1>4, <2>2, <2>3 DEF SendsWith
<1>5. ASSUME LoopDelivers, BufferSignal(taken') PROVE OrderInv'
  <2>1. taken' = taken + 1 /\ UNCHANGED <<send, ch, delivered>> /\ ch["signal"] = None /\ send.kind = "none"
    BY <1>5 DEF LoopDelivers, BufferSignal, ExitInv, SendShape
  <2>2. CASE UNCHANGED sigBuf
    BY <1>0, <1>1, <2>1, <2>2 DEF Sending, InFlight
  <2>3. CASE sigBuf' = Append(sigBuf, taken')
    <3>1. \A s \in Seq(Nat) : UpTo(s, taken) => UpTo(s, taken') /\ \A i \in 1..Len(s) : s[i] < taken'
      <4> SUFFICES ASSUME NEW s \in Seq(Nat), UpTo(s, taken), NEW i \in 1..Len(s) PROVE s[i] <= taken' /\ s[i] < taken'
        BY DEF UpTo
      <4>1. s[i] \in Nat /\ s[i] <= taken
        BY DEF UpTo
      <4> QED
        BY <1>0, <2>1, <4>1
    <3>2. taken' \in Nat /\ taken' <= taken'
      BY <1>0, <2>1
    <3>3. UpTo(sigBuf, taken) /\ UpTo(delivered, taken) /\ Rising(sigBuf) /\ Below(delivered, sigBuf) /\ Rising(delivered)
      BY DEF OrderInv, BufferOrder, DeliveredOrder
    <3>4. UpTo(sigBuf, taken') /\ \A i \in 1..Len(sigBuf) : sigBuf[i] < taken'
      BY <1>0, <3>1, <3>3
    <3>5. UpTo(delivered, taken') /\ \A i \in 1..Len(delivered) : delivered[i] < taken'
      BY <1>0, <3>1, <3>3
    <3>6. DeliveredOrder'
      BY <2>1, <3>3, <3>5 DEF DeliveredOrder
    <3>7. Rising(sigBuf')
      BY <1>0, <2>3, <3>2, <3>3, <3>4, AppendLast
    <3>8. UpTo(sigBuf', taken')
      BY <1>0, <2>3, <3>2, <3>4, AppendUpTo
    <3>9. Below(delivered, sigBuf')
      BY <1>0, <2>3, <3>2, <3>3, <3>5, BelowAppend
    <3>10. BufferOrder'
      BY <2>1, <3>7, <3>8, <3>9 DEF BufferOrder
    <3>11. BufferEmpty' /\ SendOrder'
      BY <2>1 DEF BufferEmpty, SendOrder, Sending, InFlight
    <3>12. ASSUME NEW d \in Drains PROVE BatchOrder(drain[d].batch)'
      <4>1. PICK b \in Seq(Nat) : b = drain[d].batch
        BY <1>0
      <4>2. Rising(b) /\ Below(delivered, b) /\ Below(b, sigBuf) /\ UpTo(b, taken)
        BY <4>1 DEF OrderInv, BatchOrder
      <4>3. UpTo(b, taken') /\ \A i \in 1..Len(b) : b[i] < taken'
        BY <3>1, <4>2
      <4>4. Below(b, sigBuf')
        BY <1>0, <2>3, <3>2, <4>2, <4>3, BelowAppend
      <4> QED
        BY <1>0, <2>1, <4>1, <4>2, <4>3, <4>4 DEF BatchOrder
    <3> QED
      BY <3>6, <3>10, <3>11, <3>12 DEF OrderInv
  <2> QED
    BY <1>5, <2>2, <2>3 DEF BufferSignal
<1>6. ASSUME LoopDelivers, NEW k \in Kinds, BeginSend(k, taken') PROVE OrderInv'
  <2>1. /\ taken' = taken + 1 /\ UNCHANGED <<ch, delivered, sigBuf>> /\ ch[k] # None
        /\ send'.kind = k /\ send'.id = taken'
    BY <1>6 DEF LoopDelivers, BeginSend, NoSend
  <2>2. CASE k = "break"
    BY <1>0, <1>1, <2>1, <2>2 DEF Sending, InFlight
  <2>3. CASE k = "signal"
    <3>1. sigBuf = <<>>
      BY <2>1, <2>3 DEF OrderInv, BufferEmpty
    <3>2. taken' \in Nat /\ taken' <= taken'
      BY <1>0, <2>1
    <3>3. UpTo(delivered, taken') /\ \A i \in 1..Len(delivered) : delivered[i] < taken'
      <4> SUFFICES ASSUME NEW i \in 1..Len(delivered) PROVE delivered[i] <= taken' /\ delivered[i] < taken'
        BY DEF UpTo
      <4>1. delivered[i] \in Nat /\ delivered[i] <= taken
        BY <1>0 DEF OrderInv, DeliveredOrder, UpTo
      <4> QED
        BY <1>0, <2>1, <4>1
    <3>4. DeliveredOrder' /\ SendOrder'
      BY <2>1, <3>2, <3>3 DEF OrderInv, DeliveredOrder, SendOrder
    <3>5. BufferOrder' /\ BufferEmpty'
      BY <2>1, <3>1, EmptyOrder DEF BufferOrder, BufferEmpty
    <3>6. ASSUME NEW d \in Drains PROVE BatchOrder(drain[d].batch)'
      <4>1. drain[d].batch = <<>>
        BY <2>1, <2>3 DEF ChannelInv, DrainAlone, Running, BatchHeld
      <4> QED
        BY <1>0, <4>1, EmptyOrder DEF BatchOrder
    <3> QED
      BY <3>4, <3>5, <3>6 DEF OrderInv
  <2> QED
    BY <2>2, <2>3 DEF Kinds
<1> QED
  BY <1>2, <1>3, <1>4, <1>5, <1>6 DEF LoopDelivers, SendMoves, SendReceived, SendPanics, SendCanceled, SendContextDone

LEMMA OrderInvariant == Spec => []OrderInv
<1>1. Init => OrderInv
  <2> SUFFICES ASSUME Init PROVE OrderInv
    OBVIOUS
  <2>1. delivered = <<>> /\ sigBuf = <<>> /\ send.kind = "none"
    BY DEF Init, DeliveryInit, NoSend
  <2>2. \A d \in Drains : drain[d].batch = <<>>
    BY DEF Init, DeliveryInit, NoDrain
  <2>3. BufferEmpty /\ DeliveredOrder /\ BufferOrder /\ SendOrder
    BY <2>1, EmptyOrder DEF BufferEmpty, DeliveredOrder, BufferOrder, SendOrder, Sending
  <2>4. \A d \in Drains : BatchOrder(drain[d].batch)
    BY <2>2, EmptyOrder DEF BatchOrder
  <2> QED
    BY <2>3, <2>4 DEF OrderInv
<1>2. DeliveryTypes /\ DeliveryTypes' /\ BatchHeld /\ ExitInv /\ ChannelInv /\ OrderInv /\ [Next]_vars => OrderInv'
  <2> SUFFICES ASSUME DeliveryTypes, DeliveryTypes', BatchHeld, ExitInv, ChannelInv, OrderInv, [Next]_vars PROVE OrderInv'
    OBVIOUS
  <2>1. ASSUME UNCHANGED <<ch, sigBuf, drain, send, delivered>>, taken' \in {taken, taken + 1} PROVE OrderInv'
    <3>1. taken' >= taken
      BY <2>1 DEF DeliveryTypes
    <3> QED
      BY <2>1, <3>1, OrderFrame DEF Sending, InFlight
  <2>2. CASE Quiet
    BY <2>1, <2>2 DEF Quiet, heldVars, historyVars
  <2>3. CASE UNCHANGED taken /\ Surroundings
    BY <2>1, <2>3 DEF Surroundings, AppCloses, ContextCanceled, historyVars
  <2> QED
    BY <2>2, <2>3, StepKinds, OrderCallers, OrderDrains, OrderLoop DEF DrainMoves, DeliveryTypes
<1> QED
  BY <1>1, <1>2, TypesInvariant, ExitInvariant, ChannelInvariant, PTL DEF Spec

\* The application is given the signals in the order of their requests and none of
\* them twice, over every sequence of channels it registers, drains that are canceled
\* and requeue what is left, and sends of the loop itself.
THEOREM SignalsInOrderHolds == Spec => []SignalsInOrder
<1>1. OrderInv => SignalsInOrder
  BY DEF OrderInv, DeliveredOrder, Rising, SignalsInOrder
<1> QED
  BY <1>1, OrderInvariant, PTL

--------------------------------------------------------------------------------
(* A signal the client was told success for is somewhere. *)
Somewhere(x) ==
  \/ x \in Range(delivered) \/ x \in Range(sigBuf) \/ x \in dropped
  \/ \E d \in Drains : x \in Range(drain[d].batch)
Kept == \A x \in acked : Somewhere(x)

\* The reply that is still to come is true.
SentDelivered == send.kind = "signal" /\ send.result = "delivered" => send.id \in Range(delivered)

CustodyInv == (ctxDone \/ Kept) /\ SentDelivered

LEMMA RangeElements ==
  ASSUME NEW s \in Seq(Nat), NEW x
  PROVE  x \in Range(s) <=> \E i \in 1..Len(s) : s[i] = x
<1>1. DOMAIN s = 1..Len(s)
  OBVIOUS
<1> QED
  BY <1>1, Zenon DEF Range

LEMMA ElementInRange ==
  ASSUME NEW s \in Seq(Nat), NEW i \in 1..Len(s)
  PROVE  s[i] \in Range(s)
BY RangeElements, Zenon

\* A step after which everything is still somewhere, and that answers nothing.
LEMMA CustodyFrame ==
  ASSUME CustodyInv, UNCHANGED acked, ctxDone => ctxDone',
         \/ ctxDone \/ ctxDone'
         \/ \A x \in acked : Somewhere(x) => Somewhere(x)',
         SentDelivered'
  PROVE  CustodyInv'
<1>1. ctxDone' \/ Kept'
  BY DEF CustodyInv, Kept
<1> QED
  BY <1>1 DEF CustodyInv

LEMMA CustodyDrains ==
  ASSUME DeliveryTypes, DeliveryTypes', BatchHeld, CustodyInv, NEW d \in Drains, DrainStep(d)
  PROVE  CustodyInv'
<1>0. /\ delivered \in Seq(Nat) /\ sigBuf \in Seq(Nat) /\ drain[d].batch \in Seq(Nat) /\ UNCHANGED <<send, acked, ctxDone>>
      /\ delivered' \in Seq(Nat) /\ sigBuf' \in Seq(Nat) /\ drain'[d].batch \in Seq(Nat)
      /\ \A e \in Drains : e # d => drain'[e] = drain[e]
  BY DEF DrainStep, DrainTakes, DrainHandsOver, DrainSends, DrainGivesUp, DrainContextDone, DrainEnds, DrainFrame, appVars,
     DeliveryTypes, DrainRec
<1>1. PICK b \in Seq(Nat) : b = drain[d].batch
  BY <1>0
<1>2. PICK t \in Seq(Nat) : t = drain'[d].batch
  BY <1>0
\* It is enough to look at the drain, the buffer and what was delivered.
<1>3. ASSUME UNCHANGED delivered,
             \/ ctxDone
             \/ \A x : x \in Range(b) \/ x \in Range(sigBuf) \/ x \in dropped =>
                         x \in Range(t) \/ x \in Range(sigBuf') \/ x \in dropped'
      PROVE  CustodyInv'
  <2>1. ~ctxDone => \A x : Somewhere(x) => Somewhere(x)'
    <3> SUFFICES ASSUME ~ctxDone, NEW x, Somewhere(x) PROVE Somewhere(x)'
      OBVIOUS
    <3>1. CASE x \in Range(delivered)
      BY <1>3, <3>1 DEF Somewhere
    <3>2. ASSUME NEW e \in Drains, e # d, x \in Range(drain[e].batch) PROVE Somewhere(x)'
      <4>1. x \in Range(drain'[e].batch)
        BY <1>0, <3>2
      <4> QED
        BY <4>1 DEF Somewhere
    <3>3. CASE x \in Range(b) \/ x \in Range(sigBuf) \/ x \in dropped
      <4>1. x \in Range(t) \/ x \in Range(sigBuf') \/ x \in dropped'
        BY <1>3, <3>3
      <4>2. CASE x \in Range(t)
        <5>1. x \in Range(drain'[d].batch)
          BY <1>2, <4>2
        <5> QED
          BY <5>1 DEF Somewhere
      <4> QED
        BY <4>1, <4>2 DEF Somewhere
    <3> QED
      BY <1>1, <3>1, <3>2, <3>3 DEF Somewhere
  <2>2. SentDelivered'
    BY <1>0, <1>3 DEF CustodyInv, SentDelivered
  <2> QED
    BY <1>0, <2>1, <2>2, CustodyFrame
<1>4. CASE DrainTakes(d)
  <2>1. UNCHANGED <<delivered, dropped>> /\ t = sigBuf
    BY <1>2, <1>4 DEF DrainTakes, DeliveryTypes, DrainRec
  <2>2. b = <<>>
    BY <1>1, <1>4 DEF DrainTakes, BatchHeld
  <2>3. \A x : x \notin Range(b)
    BY <2>2 DEF Range
  <2> QED
    BY <1>3, <2>1, <2>3
<1>5. CASE DrainHandsOver(d) \/ DrainEnds(d)
  <2>1. UNCHANGED <<delivered, dropped, sigBuf>>
    BY <1>5 DEF DrainHandsOver, DrainEnds
  <2>2. b = <<>>
    BY <1>1, <1>5 DEF DrainHandsOver, DrainEnds, BatchHeld
  <2>3. \A x : x \notin Range(b)
    BY <2>2 DEF Range
  <2> QED
    BY <1>3, <2>1, <2>3
<1>6. CASE DrainContextDone(d)
  BY <1>3, <1>6 DEF DrainContextDone
<1>7. CASE DrainSends(d)
  <2>1. b # <<>>
    BY <1>1, <1>7 DEF DrainSends, BatchHeld
  <2>2. delivered' = Append(delivered, Head(b)) /\ t = Tail(b) /\ UNCHANGED <<sigBuf, dropped>>
    BY <1>1, <1>2, <1>7 DEF DrainSends, DeliveryTypes, DrainRec
  <2>3. /\ Head(b) = b[1] /\ Head(b) \in Nat /\ Tail(b) \in Seq(Nat) /\ Len(Tail(b)) = Len(b) - 1 /\ Len(b) \in Nat
        /\ \A i \in 1..Len(Tail(b)) : Tail(b)[i] = b[i + 1]
    BY <2>1, HeadTailProperties
  <2>4. /\ Len(delivered') = Len(delivered) + 1 /\ Len(delivered) \in Nat /\ delivered'[Len(delivered) + 1] = Head(b)
        /\ \A i \in 1..Len(delivered) : delivered'[i] = delivered[i]
    BY <1>0, <2>2, <2>3, AppendProperties
  <2>5. ASSUME NEW x, x \in Range(delivered) PROVE x \in Range(delivered')
    <3>1. PICK i \in 1..Len(delivered) : delivered[i] = x
      BY <1>0, <2>5, RangeElements, Zenon
    <3>2. i \in 1..Len(delivered') /\ delivered'[i] = delivered[i]
      BY <2>4
    <3> QED
      BY <1>0, <3>1, <3>2, ElementInRange
  <2>6. ASSUME NEW x, x \in Range(b) PROVE x \in Range(delivered') \/ x \in Range(t)
    <3>1. PICK i \in 1..Len(b) : b[i] = x
      BY <2>6, RangeElements, Zenon
    <3>2. CASE i = 1
      <4>1. x = delivered'[Len(delivered) + 1] /\ Len(delivered) + 1 \in 1..Len(delivered')
        BY <2>3, <2>4, <3>1, <3>2
      <4> QED
        BY <1>0, <4>1, ElementInRange
    <3>3. CASE i # 1
      <4>1. i - 1 \in 1..Len(Tail(b)) /\ Tail(b)[i - 1] = b[i]
        BY <2>3, <3>3
      <4> QED
        BY <2>2, <2>3, <3>1, <4>1, ElementInRange
    <3> QED
      BY <3>2, <3>3
  <2>7. ASSUME NEW x, Somewhere(x) PROVE Somewhere(x)'
    <3>1. CASE x \in Range(delivered) \/ x \in Range(sigBuf) \/ x \in dropped
      BY <2>2, <2>5, <3>1 DEF Somewhere
    <3>2. ASSUME NEW e \in Drains, e # d, x \in Range(drain[e].batch) PROVE Somewhere(x)'
      <4>1. x \in Range(drain'[e].batch)
        BY <1>0, <3>2
      <4> QED
        BY <4>1 DEF Somewhere
    <3>3. CASE x \in Range(b)
      <4>1. CASE x \in Range(t)
        <5>1. x \in Range(drain'[d].batch)
          BY <1>2, <4>1
        <5> QED
          BY <5>1 DEF Somewhere
      <4> QED
        BY <2>6, <3>3, <4>1 DEF Somewhere
    <3> QED
      BY <1>1, <2>7, <3>1, <3>2, <3>3 DEF Somewhere
  <2>8. SentDelivered'
    BY <1>0, <2>5 DEF CustodyInv, SentDelivered
  <2> QED
    BY <1>0, <2>7, <2>8, CustodyFrame
<1>8. CASE DrainGivesUp(d)
  <2>1. PICK n : n = IF Len(Requeued(b)) > MaxSigBuf THEN MaxSigBuf ELSE Len(Requeued(b))
    OBVIOUS
  <2>2. /\ sigBuf' = SubSeq(Requeued(b), 1, n) /\ UNCHANGED delivered
        /\ dropped' = dropped \cup {Requeued(b)[i] : i \in MaxSigBuf + 1..Len(Requeued(b))}
    BY <1>1, <1>8, <2>1 DEF DrainGivesUp
  <2>3. /\ Len(sigBuf') = n /\ n \in Nat /\ Len(b) \in Nat /\ Len(sigBuf) \in Nat
        /\ \A i \in 1..n : sigBuf'[i] = IF i <= Len(b) THEN b[i] ELSE sigBuf[i - Len(b)]
    BY <1>0, <2>1, <2>2, RequeuedPart, LenProperties
  <2>4. /\ Len(Requeued(b)) = Len(b) + Len(sigBuf)
        /\ \A i \in 1..Len(b) + Len(sigBuf) : Requeued(b)[i] = IF i <= Len(b) THEN b[i] ELSE sigBuf[i - Len(b)]
    BY <1>0, ConcatProperties DEF Requeued
  <2>5. ASSUME NEW i \in 1..Len(b) + Len(sigBuf) PROVE Requeued(b)[i] \in Range(sigBuf') \/ Requeued(b)[i] \in dropped'
    <3>1. CASE i <= n
      <4>1. i \in 1..n /\ i \in 1..Len(sigBuf')
        BY <2>3, <3>1
      <4>2. Requeued(b)[i] = sigBuf'[i]
        BY <2>3, <2>4, <4>1
      <4> QED
        BY <1>0, <4>1, <4>2, ElementInRange
    <3>2. CASE ~(i <= n)
      <4>1. i \in MaxSigBuf + 1..Len(Requeued(b))
        BY <2>1, <2>3, <2>4, <3>2, DeliveryAssumption
      <4> QED
        BY <2>2, <4>1
    <3> QED
      BY <3>1, <3>2
  <2>6. ASSUME NEW x, x \in Range(b) PROVE x \in Range(sigBuf') \/ x \in dropped'
    <3>1. PICK i \in 1..Len(b) : b[i] = x
      BY <2>6, RangeElements, Zenon
    <3>2. i \in 1..Len(b) + Len(sigBuf) /\ Requeued(b)[i] = x
      BY <2>3, <2>4, <3>1
    <3> QED
      BY <2>5, <3>2
  <2>7. ASSUME NEW x, x \in Range(sigBuf) PROVE x \in Range(sigBuf') \/ x \in dropped'
    <3>1. PICK i \in 1..Len(sigBuf) : sigBuf[i] = x
      BY <1>0, <2>7, RangeElements, Zenon
    <3>2. PICK j \in 1..Len(b) + Len(sigBuf) : j = Len(b) + i /\ ~(j <= Len(b)) /\ j - Len(b) = i
      <4>1. Len(b) \in Nat /\ Len(sigBuf) \in Nat
        BY <2>3
      <4>2. Len(b) + i \in 1..Len(b) + Len(sigBuf) /\ ~(Len(b) + i <= Len(b)) /\ Len(b) + i - Len(b) = i
        BY <4>1
      <4> QED
        BY <4>2
    <3>3. Requeued(b)[j] = sigBuf[i]
      BY <2>4, <3>2
    <3> QED
      BY <2>5, <3>1, <3>3
  <2> QED
    BY <1>3, <2>2, <2>6, <2>7
<1> QED
  BY <1>4, <1>5, <1>6, <1>7, <1>8 DEF DrainStep

\* Appending keeps what a sequence has.
LEMMA AppendRange ==
  ASSUME NEW s \in Seq(Nat), NEW y \in Nat
  PROVE  y \in Range(Append(s, y)) /\ \A x : x \in Range(s) => x \in Range(Append(s, y))
<1>1. /\ Append(s, y) \in Seq(Nat) /\ Len(Append(s, y)) = Len(s) + 1 /\ Len(s) \in Nat
      /\ Append(s, y)[Len(s) + 1] = y /\ \A i \in 1..Len(s) : Append(s, y)[i] = s[i]
  BY AppendProperties, LenProperties
<1>2. y \in Range(Append(s, y))
  <2>1. Len(s) + 1 \in 1..Len(Append(s, y))
    BY <1>1
  <2> QED
    BY <1>1, <2>1, ElementInRange
<1>3. ASSUME NEW x, x \in Range(s) PROVE x \in Range(Append(s, y))
  <2>1. PICK i \in 1..Len(s) : s[i] = x
    BY <1>3, RangeElements, Zenon
  <2>2. i \in 1..Len(Append(s, y)) /\ Append(s, y)[i] = x
    BY <1>1, <2>1
  <2> QED
    BY <1>1, <2>2, ElementInRange
<1> QED
  BY <1>2, <1>3

LEMMA CustodyLoop ==
  ASSUME DeliveryTypes, DeliveryTypes', ExitInv, CustodyInv, LoopDelivers \/ LoopReplies \/ SendMoves
  PROVE  CustodyInv'
<1> USE DEF historyVars, configVars, appVars, LoopFrame
<1>0. delivered \in Seq(Nat) /\ sigBuf \in Seq(Nat) /\ send.id \in Nat /\ taken' \in Nat
  BY DEF DeliveryTypes, SendRec
<1>1. UNCHANGED <<drain, ctxDone>>
  BY DEF LoopDelivers, LoopReplies, SendMoves, SendReceived, SendPanics, SendCanceled, SendContextDone, SendsWith,
     SendSettles, SendReplied, BufferSignal, BeginSend
<1>2. CASE LoopReplies
  <2>1. UNCHANGED <<delivered, sigBuf, dropped>> /\ send'.kind = "none"
    BY <1>2 DEF LoopReplies, SendReplied, NoSend
  <2>2. \A x : Somewhere(x) => Somewhere(x)'
    BY <1>1, <2>1 DEF Somewhere
  <2>3. acked' = acked \/ (acked' = acked \cup {send.id} /\ send.id \in Range(delivered))
    BY <1>2 DEF LoopReplies, SendReplied, CustodyInv, SentDelivered
  <2>4. send.id \in Range(delivered) => Somewhere(send.id)
    BY DEF Somewhere
  <2>5. ctxDone' \/ Kept'
    BY <1>1, <2>2, <2>3, <2>4 DEF CustodyInv, Kept
  <2> QED
    BY <2>1, <2>5 DEF CustodyInv, SentDelivered
<1>3. CASE SendSettles
  <2>1. send'.kind = send.kind /\ send'.result = send.result /\ send'.id = send.id
    BY <1>3 DEF SendSettles, DeliveryTypes, SendRec
  <2>2. UNCHANGED <<delivered, sigBuf, dropped, acked>>
    BY <1>3 DEF SendSettles
  <2>3. SentDelivered'
    BY <2>1, <2>2 DEF CustodyInv, SentDelivered
  <2> QED
    BY <1>1, <2>2, <2>3, CustodyFrame DEF Somewhere
<1>4. ASSUME NEW result, SendsWith(result) PROVE CustodyInv'
  <2>1. send'.kind = send.kind /\ send'.result = result /\ send'.id = send.id
    BY <1>4 DEF SendsWith, DeliveryTypes, SendRec
  <2>2. UNCHANGED <<sigBuf, dropped, acked>>
    BY <1>4 DEF SendsWith
  <2>3. CASE result = "delivered" /\ send.kind = "signal"
    <3>1. delivered' = Append(delivered, send.id)
      BY <1>4, <2>3 DEF SendsWith
    <3>2. send.id \in Range(delivered') /\ \A x : x \in Range(delivered) => x \in Range(delivered')
      BY <1>0, <3>1, AppendRange
    <3>3. \A x : Somewhere(x) => Somewhere(x)'
      BY <1>1, <2>2, <3>2 DEF Somewhere
    <3>4. SentDelivered'
      BY <2>1, <3>2 DEF SentDelivered
    <3> QED
      BY <1>1, <2>2, <3>3, <3>4, CustodyFrame
  <2>4. CASE ~(result = "delivered" /\ send.kind = "signal")
    <3>1. UNCHANGED delivered
      BY <1>4, <2>4 DEF SendsWith
    <3>2. SentDelivered'
      BY <2>1, <2>4 DEF SentDelivered
    <3> QED
      BY <1>1, <2>2, <3>1, <3>2, CustodyFrame DEF Somewhere
  <2> QED
    BY <2>3, <2>4
<1>5. CASE BufferSignal(taken')
  <2>1. UNCHANGED <<delivered, send>> /\ acked' = acked \cup {taken'}
    BY <1>5 DEF BufferSignal
  <2>2. CASE sigBuf' = Append(sigBuf, taken') /\ UNCHANGED dropped
    <3>1. taken' \in Range(sigBuf') /\ \A x : x \in Range(sigBuf) => x \in Range(sigBuf')
      BY <1>0, <2>2, AppendRange
    <3>2. \A x : x = taken' \/ Somewhere(x) => Somewhere(x)'
      BY <1>1, <2>1, <2>2, <3>1 DEF Somewhere
    <3> QED
      BY <1>1, <2>1, <3>2 DEF CustodyInv, Kept, SentDelivered
  <2>3. CASE dropped' = dropped \cup {taken'} /\ UNCHANGED sigBuf
    <3>1. \A x : x = taken' \/ Somewhere(x) => Somewhere(x)'
      BY <1>1, <2>1, <2>3 DEF Somewhere
    <3> QED
      BY <1>1, <2>1, <3>1 DEF CustodyInv, Kept, SentDelivered
  <2> QED
    BY <1>5, <2>2, <2>3 DEF BufferSignal
<1>6. ASSUME NEW k \in Kinds, BeginSend(k, taken') PROVE CustodyInv'
  <2>1. send'.result = "none" /\ UNCHANGED <<delivered, sigBuf, dropped, acked>>
    BY <1>6 DEF BeginSend, NoSend
  <2> QED
    BY <1>1, <2>1, CustodyFrame DEF Somewhere, SentDelivered
<1> QED
  BY <1>2, <1>3, <1>4, <1>5, <1>6 DEF LoopDelivers, SendMoves, SendReceived, SendPanics, SendCanceled, SendContextDone

LEMMA CustodyCallers ==
  ASSUME DeliveryTypes, BatchHeld, ExitInv, DrainsCounted, CustodyInv, CallerMoves
  PROVE  CustodyInv'
<1> USE DEF historyVars, appVars
<1>1. UNCHANGED <<delivered, sigBuf, dropped, acked, ctxDone>>
  BY DEF CallerMoves, Register, ExitBegins, ConfigStep, DrainStopped, Configured, ExitStopsSignals, ExitLocksReply,
     ExitStopsBreaks, ExitSends
<1>2. ASSUME SameSend, \A d \in Drains : drain'[d].batch = drain[d].batch PROVE CustodyInv'
  <2>1. SentDelivered'
    BY <1>1, <1>2, SameSendFields DEF CustodyInv, SentDelivered
  <2>2. \A x : Somewhere(x) => Somewhere(x)'
    BY <1>1, <1>2 DEF Somewhere
  <2> QED
    BY <1>1, <2>1, <2>2, CustodyFrame
<1>3. ASSUME NEW c, NEW k, NEW arg, NEW exit, SetChannel(c, k, arg, exit) PROVE CustodyInv'
  <2>1. SameSend /\ (drain' = drain \/ drain' = [drain EXCEPT ![sigDrain].canceled = TRUE])
    BY <1>3 DEF SetChannel, Unset, SameSend
  <2>2. \A d \in Drains : drain'[d].batch = drain[d].batch
    BY <2>1, CanceledDrain
  <2> QED
    BY <1>2, <2>1, <2>2
<1>4. ASSUME NEW c \in Callers, Configured(c) PROVE CustodyInv'
  <2>1. CASE drain' = drain
    BY <1>2, <1>4, <2>1 DEF Configured, SameSend
  <2>2. ASSUME NEW arg, arg = caller[c].arg, arg # None,
               drain' = [drain EXCEPT ![1 + Cardinality({x \in Drains : drain[x].at # "off"})] =
                                        [NoDrain EXCEPT !.at = "take", !.target = arg]]
        PROVE  CustodyInv'
    <3>1. PICK n \in Nat : DrainsUsed(n)
      BY DEF DrainsCounted
    <3>2. n + 1 \in Drains /\ drain[n + 1].at = "off" /\ 1 + Cardinality({x \in Drains : drain[x].at # "off"}) = n + 1
      BY <1>4, <2>2, <3>1, NextDrain DEF Configured
    <3>3. drain' = [drain EXCEPT ![n + 1] = [NoDrain EXCEPT !.at = "take", !.target = arg]]
      BY <2>2, <3>2
    <3>4. drain'[n + 1].batch = <<>> /\ \A d \in Drains : d # n + 1 => drain'[d] = drain[d]
      BY <3>2, <3>3 DEF DeliveryTypes, NoDrain
    <3>5. drain[n + 1].batch = <<>>
      BY <3>2 DEF BatchHeld
    <3>6. \A d \in Drains : drain'[d].batch = drain[d].batch
      BY <3>4, <3>5
    <3> QED
      BY <1>2, <1>4, <3>6 DEF Configured, SameSend
  <2> QED
    BY <1>4, <2>1, <2>2 DEF Configured
<1>5. ASSUME NEW c, DrainStopped(c) PROVE CustodyInv'
  BY <1>2, <1>5 DEF DrainStopped, Unset, SameSend
<1>6. ASSUME NEW c, ExitBegins(c) \/ ExitLocksReply(c) \/ ExitSends(c) PROVE CustodyInv'
  BY <1>2, <1>6 DEF ExitBegins, ExitLocksReply, ExitSends, SameSend
<1> QED
  BY <1>3, <1>4, <1>5, <1>6 DEF CallerMoves, Register, ConfigStep, ExitStopsSignals, ExitStopsBreaks

LEMMA CustodyInvariant == Spec => []CustodyInv
<1>1. Init => CustodyInv
  BY DEF Init, DeliveryInit, NoSend, CustodyInv, Kept, SentDelivered
<1>2. DeliveryTypes /\ DeliveryTypes' /\ BatchHeld /\ ExitInv /\ DrainsCounted /\ CustodyInv /\ [Next]_vars => CustodyInv'
  <2> SUFFICES ASSUME DeliveryTypes, DeliveryTypes', BatchHeld, ExitInv, DrainsCounted, CustodyInv, [Next]_vars
               PROVE  CustodyInv'
    OBVIOUS
  <2>1. ASSUME UNCHANGED <<sigBuf, drain, send, historyVars>>, ctxDone => ctxDone' PROVE CustodyInv'
    <3>1. SentDelivered'
      BY <2>1 DEF historyVars, CustodyInv, SentDelivered
    <3>2. \A x : Somewhere(x) => Somewhere(x)'
      BY <2>1 DEF historyVars, Somewhere
    <3> QED
      BY <2>1, <3>1, <3>2, CustodyFrame DEF historyVars
  <2>2. CASE Quiet
    BY <2>1, <2>2 DEF Quiet, heldVars, appVars
  <2>3. CASE Surroundings
    BY <2>1, <2>3 DEF Surroundings, AppCloses, ContextCanceled
  <2> QED
    BY <2>2, <2>3, StepKinds, CustodyCallers, CustodyDrains, CustodyLoop DEF DrainMoves, DeliveryTypes
<1> QED
  BY <1>1, <1>2, TypesInvariant, ExitInvariant, DrainsInvariant, PTL DEF Spec

\* A signal the client was told success for is never lost between the buffer, the
\* drains and the changes of the channel, unless it met a full buffer or the
\* connection has ended.
THEOREM AckedKeptHolds == Spec => []AckedKept
<1>1. CustodyInv => AckedKept
  BY Zenon DEF CustodyInv, Kept, Somewhere, AckedKept
<1> QED
  BY <1>1, CustodyInvariant, PTL

--------------------------------------------------------------------------------
(* The request timer, the window and the end of the loop. *)

\* requestResolved is won once: by the loop, whose request is then accepted, or by the
\* timer, which closes the channel.
TimerInv ==
  /\ handled \in BOOLEAN /\ resolved \in BOOLEAN
  /\ handled => resolved
  /\ timer \in {"closing", "closed"} => resolved /\ ~handled
  /\ resolved => handled \/ timer \in {"closing", "closed"}
  /\ loop = "resolve" => ~handled
  /\ timer = "closed" => chanClosed

\* An Exit that has begun is still there, or has closed the channel.
ExitCloses == exiting => chanClosed \/ \E c \in Callers : caller[c].exit

\* winch has room for one window.
WindowInv == (winch = <<>> \/ \E w : winch = <<w>>) /\ LatestWindow

\* The loop goes nowhere but to another place in front of the reply, and the timer is
\* at most stopped.
LEMMA TimerFrame ==
  ASSUME TimerInv, UNCHANGED <<handled, resolved>>,
         timer' = timer \/ timer' = Stopped, loop' # "resolve" \/ ~handled, chanClosed => chanClosed'
  PROVE  TimerInv'
BY DEF TimerInv, Stopped

LEMMA TimerStep == ASSUME TimerInv, [Next]_vars PROVE TimerInv'
<1> USE DEF requestVars, setupVars, endVars, sessionVars
<1>0. CASE UNCHANGED <<handled, resolved, timer, loop>> /\ (chanClosed => chanClosed')
  BY <1>0, TimerFrame DEF TimerInv
<1>1. CASE RequestStep
  <2>0. UNCHANGED <<handled, resolved>>
    BY <1>1 DEF RequestStep, RequestRefused, EnvSet, StartAllowed, PtyGranted, WindowChanged, CallbackFails, AgentAllowed,
       SignalMalformed, SignalWhileExiting, SignalBuffered, BreakRefused, SendBegins
  <2>1. chanClosed => chanClosed'
    <3>1. CASE CallbackFails
      BY <3>1, Zenon DEF CallbackFails
    <3> QED
      BY <1>1, <3>1 DEF RequestStep, RequestRefused, EnvSet, StartAllowed, PtyGranted, WindowChanged, AgentAllowed,
         SignalMalformed, SignalWhileExiting, SignalBuffered, BreakRefused, SendBegins, deliveryVars, BufferSignal, BeginSend,
         LoopFrame
  <2>2. timer' = timer \/ timer' = Stopped
    BY <1>1 DEF RequestStep, RequestRefused, EnvSet, StartAllowed, PtyGranted, WindowChanged, CallbackFails, AgentAllowed,
       SignalMalformed, SignalWhileExiting, SignalBuffered, BreakRefused, SendBegins, Goes
  <2>3. loop' # "resolve" \/ ~handled
    BY <1>1 DEF RequestStep, RequestRefused, EnvSet, StartAllowed, PtyGranted, WindowChanged, CallbackFails, AgentAllowed,
       SignalMalformed, SignalWhileExiting, SignalBuffered, BreakRefused, SendBegins, Goes, Takes
  <2> QED
    BY <2>0, <2>1, <2>2, <2>3, TimerFrame
<1>2. CASE StartResolves
  <2>1. UNCHANGED chanClosed /\ timer' = Stopped /\ loop' # "resolve" /\ resolved' = TRUE /\ loop = "resolve"
    BY <1>2 DEF StartResolves, deliveryVars
  <2>2. CASE resolved
    <3>1. handled' = FALSE /\ timer \in {"closing", "closed"} /\ timer' = timer
      BY <1>2, <2>1, <2>2 DEF StartResolves, TimerInv, Stopped
    <3> QED
      BY <2>1, <3>1 DEF TimerInv
  <2>3. CASE ~resolved
    <3>1. handled' = TRUE /\ timer \notin {"closing", "closed"} /\ timer' \notin {"closing", "closed"}
      BY <1>2, <2>1, <2>3 DEF StartResolves, TimerInv, Stopped
    <3> QED
      BY <2>1, <3>1 DEF TimerInv
  <2> QED
    BY <2>2, <2>3
<1>3. CASE StartReplied \/ StartReplyFails \/ WindowTakenOut \/ WindowSent \/ LoopEnds
  BY <1>3, TimerFrame DEF StartReplied, StartReplyFails, WindowTakenOut, WindowSent, LoopEnds, Goes, deliveryVars
<1>4. CASE SendEnds
  BY <1>4, TimerFrame DEF SendEnds, Goes, SendReplied, LoopFrame
<1>6. CASE TimerFires
  BY <1>6 DEF TimerFires, TimerInv, deliveryVars
<1>7. CASE TimerCloses
  BY <1>7 DEF TimerCloses, TimerInv
<1>8. CASE SendProceeds(SendReceived) \/ SendProceeds(SendPanics \/ SendCanceled \/ SendContextDone \/ SendSettles)
  BY <1>0, <1>8 DEF SendProceeds, SendReceived, SendPanics, SendCanceled, SendContextDone, SendSettles, SendsWith, LoopFrame
<1>9. CASE \E d \in Drains : (OwnDrainStep(d) \/ DrainSends(d)) /\ UNCHANGED sessionVars
  BY <1>0, <1>9 DEF OwnDrainStep, DrainTakes, DrainHandsOver, DrainSends, DrainGivesUp, DrainContextDone, DrainEnds, DrainFrame
<1>10. CASE (\E c \in Callers : ConfigStep(c) /\ UNCHANGED sessionVars) \/ HandlerCalls
  BY <1>0, <1>10 DEF ConfigStep, DrainStopped, Configured, ExitStopsSignals, ExitLocksReply, ExitStopsBreaks, ExitSends,
     HandlerCalls, Register, ExitBegins
<1>11. CASE (\E c \in Chans : AppCloses(c) /\ UNCHANGED sessionVars) \/ (ContextCanceled /\ UNCHANGED sessionVars)
  BY <1>0, <1>11 DEF AppCloses, ContextCanceled
<1>12. CASE HandlerReturns \/ HandlerRefused \/ HandlerCloses \/ HandlerDone \/ WindowReceived \/ SessionReturns \/ ClientCloses
  BY <1>0, <1>12 DEF HandlerReturns, HandlerRefused, HandlerCloses, HandlerDone, WindowReceived, SessionReturns, ClientCloses, ExitBegins,
     deliveryVars
<1>13. CASE Terminated \/ UNCHANGED vars
  BY <1>0, <1>13 DEF Terminated, vars, deliveryVars
<1> QED
  BY <1>1, <1>2, <1>3, <1>4, <1>6, <1>7, <1>8, <1>9, <1>10, <1>11, <1>12, <1>13 DEF Next, LoopStep

LEMMA TimerInvariant == Spec => []TimerInv
<1>1. Init => TimerInv
  BY DEF Init, TimerInv
<1>2. TimerInv /\ [Next]_vars => TimerInv'
  BY TimerStep
<1> QED
  BY <1>1, <1>2, PTL DEF Spec

\* The request timer never closes a session whose request is accepted.
THEOREM TimerSparesAcceptedHolds == Spec => []TimerSparesAccepted
<1>1. TimerInv => TimerSparesAccepted
  BY DEF TimerInv, TimerSparesAccepted
<1> QED
  BY <1>1, TimerInvariant, PTL

\* Steps that leave the window to the loop.
LEMMA WindowStep == ASSUME WindowInv, [Next]_vars PROVE WindowInv'
<1> USE DEF requestVars, setupVars, windowVars, endVars, sessionVars
<1>0. CASE UNCHANGED windowVars /\ (loop \in {"winchFull", "winchSend"} => loop' = loop)
  BY <1>0 DEF WindowInv, LatestWindow
<1>1. CASE RequestStep
  <2>1. CASE PtyGranted
    BY <2>1 DEF PtyGranted, WindowInv, LatestWindow
  <2>2. CASE WindowChanged
    BY <2>2 DEF WindowChanged, WindowInv, LatestWindow
  <2> QED
    BY <1>0, <1>1, <2>1, <2>2 DEF RequestStep, RequestRefused, EnvSet, StartAllowed, CallbackFails, AgentAllowed,
       SignalMalformed, SignalWhileExiting, SignalBuffered, BreakRefused, SendBegins, Takes
<1>2. CASE WindowTakenOut \/ WindowSent
  BY <1>2 DEF WindowTakenOut, WindowSent, WindowInv, LatestWindow
<1>3. CASE StartResolves \/ StartReplied \/ StartReplyFails \/ LoopEnds \/ SendEnds
  BY <1>0, <1>3 DEF StartResolves, StartReplied, StartReplyFails, LoopEnds, SendEnds
<1>4. CASE WindowReceived
  BY <1>4 DEF WindowReceived, WindowInv, LatestWindow
<1>5. CASE TimerFires \/ TimerCloses \/ HandlerReturns \/ HandlerRefused \/ HandlerCloses \/ HandlerDone \/ SessionReturns \/ ClientCloses
  BY <1>0, <1>5 DEF TimerFires, TimerCloses, HandlerReturns, HandlerRefused, HandlerCloses, HandlerDone, SessionReturns, ClientCloses
<1>6. CASE UNCHANGED sessionVars
  BY <1>0, <1>6
<1>7. CASE Terminated \/ UNCHANGED vars
  BY <1>0, <1>7 DEF Terminated, vars
<1> QED
  BY <1>1, <1>2, <1>3, <1>4, <1>5, <1>6, <1>7 DEF Next, LoopStep, SendProceeds, HandlerCalls

\* winch is never left without the current size while the loop and a reader empty it.
THEOREM LatestWindowHolds == Spec => []LatestWindow
<1>1. Init => WindowInv
  BY DEF Init, WindowInv, LatestWindow
<1>2. WindowInv /\ [Next]_vars => WindowInv'
  BY WindowStep
<1>3. WindowInv => LatestWindow
  BY DEF WindowInv
<1> QED
  BY <1>1, <1>2, <1>3, PTL DEF Spec

\* What a step may not take back.
ClosingKept ==
  /\ (chanClosed => chanClosed') /\ (reqsClosed => reqsClosed') /\ (connClosed => connClosed') /\ (ctxDone => ctxDone')
  /\ timer = "closing" => timer' = "closing" \/ chanClosed'
  /\ (\E c \in Callers : caller[c].exit) => chanClosed' \/ \E c \in Callers : caller'[c].exit

LEMMA EndFrame ==
  ASSUME ExitCloses, EarlyEndCloses, ClosingKept, exiting' => exiting \/ \E c \in Callers : caller'[c].exit,
         loop' = "ended" => loop = "ended" \/ reqsClosed' \/ chanClosed' \/ connClosed' \/ ctxDone' \/ timer' = "closing"
                            \/ \E c \in Callers : caller'[c].exit
  PROVE  ExitCloses' /\ EarlyEndCloses'
<1>1. ExitCloses'
  BY DEF ExitCloses, ClosingKept
<1>2. EarlyEndCloses'
  BY DEF EarlyEndCloses, ClosingKept
<1> QED
  BY <1>1, <1>2

\* Calls: an Exit goes on until it closes the channel.
LEMMA EndCallers ==
  ASSUME DeliveryTypes, ExitCloses, EarlyEndCloses, CallerMoves,
         UNCHANGED <<loop, timer, reqsClosed>>, connClosed => connClosed'
  PROVE  ExitCloses' /\ EarlyEndCloses'
<1>1. ASSUME NEW c \in Callers, chanClosed => chanClosed', UNCHANGED ctxDone,
             \A e \in Callers : e # c => caller'[e] = caller[e],
             caller[c].exit => caller'[c].exit \/ chanClosed',
             exiting' => exiting \/ caller'[c].exit
      PROVE  ExitCloses' /\ EarlyEndCloses'
  <2>1. ClosingKept
    BY <1>1 DEF ClosingKept
  <2> QED
    BY <1>1, <2>1, EndFrame
<1>2. CASE Register("main")
  <2>1. "main" \in Callers /\ caller["main"].exit = FALSE /\ UNCHANGED <<chanClosed, exiting, ctxDone>>
    BY <1>2, SessionAssumption DEF Register, NoCall, appVars
  <2>2. \A e \in Callers : e # "main" => caller'[e] = caller[e]
    BY <1>2 DEF Register, SetChannel, DeliveryTypes
  <2> QED
    BY <1>1, <2>1, <2>2
<1> SUFFICES ASSUME NEW c \in Callers, ExitBegins(c) \/ ConfigStep(c) PROVE ExitCloses' /\ EarlyEndCloses'
  BY <1>2 DEF CallerMoves
<1>3. CASE ExitBegins(c)
  <2>1. (\A e \in Callers : e # c => caller'[e] = caller[e]) /\ caller'[c].exit
    BY <1>3, CallEnds DEF ExitBegins
  <2> QED
    BY <1>1, <1>3, <2>1 DEF ExitBegins, appVars
<1>4. CASE DrainStopped(c) \/ ExitLocksReply(c)
  <2>1. PICK to : caller' = [caller EXCEPT ![c].at = to]
    BY <1>4 DEF DrainStopped, ExitLocksReply
  <2>2. (\A e \in Callers : e # c => caller'[e] = caller[e]) /\ (caller'[c].exit <=> caller[c].exit)
    BY <2>1, CallGoesOn
  <2> QED
    BY <1>1, <1>4, <2>2 DEF DrainStopped, ExitLocksReply, appVars
<1>5. CASE Configured(c)
  <2>1. (\A e \in Callers : e # c => caller'[e] = caller[e]) /\ (caller'[c].exit <=> caller[c].exit)
    BY <1>5, ConfiguredCalls
  <2> QED
    BY <1>1, <1>5, <2>1 DEF Configured, appVars
<1>6. CASE ExitStopsSignals(c) \/ ExitStopsBreaks(c)
  <2>1. PICK k \in Kinds : SetChannel(c, k, None, TRUE)
    BY <1>6 DEF ExitStopsSignals, ExitStopsBreaks, Kinds
  <2>2. (\A e \in Callers : e # c => caller'[e] = caller[e]) /\ caller'[c].exit
    BY <2>1, SetChannelCalls
  <2>3. UNCHANGED <<chanClosed, exiting, ctxDone>>
    BY <1>6 DEF ExitStopsSignals, ExitStopsBreaks, appVars
  <2> QED
    BY <1>1, <2>2, <2>3
<1>7. CASE ExitSends(c)
  <2>1. (\A e \in Callers : e # c => caller'[e] = caller[e]) /\ chanClosed' = TRUE /\ UNCHANGED <<exiting, ctxDone>>
    BY <1>7 DEF ExitSends, DeliveryTypes, appVars
  <2> QED
    BY <1>1, <2>1
<1> QED
  BY <1>3, <1>4, <1>5, <1>6, <1>7 DEF ConfigStep

LEMMA EndStep ==
  ASSUME DeliveryTypes, ExitInv, TimerInv, ExitCloses, EarlyEndCloses, [Next]_vars
  PROVE  ExitCloses' /\ EarlyEndCloses'
<1> USE DEF requestVars, endVars, sessionVars, configVars, appVars
<1>1. ASSUME UNCHANGED <<caller, exiting>>, chanClosed => chanClosed', reqsClosed => reqsClosed', connClosed => connClosed',
             ctxDone => ctxDone', timer = "closing" => timer' = "closing" \/ chanClosed',
             loop' = "ended" => loop = "ended" \/ reqsClosed' \/ chanClosed' \/ connClosed' \/ ctxDone' \/ timer' = "closing"
                                \/ exiting
      PROVE  ExitCloses' /\ EarlyEndCloses'
  <2>1. ClosingKept
    BY <1>1 DEF ClosingKept
  <2>2. exiting => chanClosed' \/ \E c \in Callers : caller'[c].exit
    BY <1>1 DEF ExitCloses
  <2> QED
    BY <1>1, <2>1, <2>2, EndFrame
<1>2. CASE RequestRefused \/ EnvSet \/ StartAllowed \/ PtyGranted \/ WindowChanged
  BY <1>1, <1>2 DEF RequestRefused, EnvSet, StartAllowed, PtyGranted, WindowChanged, Goes, deliveryVars, Takes
<1>3. CASE CallbackFails
  <2>1. PICK filtered \in {"nil", "response", "other"}, responseFailed, closeRequested, canContinue, replyFails, timeout \in BOOLEAN,
             closes \in {"continue", "session", "connection"} :
          /\ Goes(IF closes = "continue" THEN "next" ELSE "ended")
          /\ connClosed' = (connClosed \/ timeout \/ closes = "connection")
          /\ chanClosed' = (chanClosed \/ closes = "session")
    BY <1>3 DEF CallbackFails, CallbackErrorCloses
  <2>2. (chanClosed => chanClosed') /\ (connClosed => connClosed')
    BY <2>1, Zenon
  <2>3. (closes = "connection" => connClosed') /\ (closes = "session" => chanClosed')
    BY <2>1, Zenon
  <2>4. loop' = "ended" => connClosed' \/ chanClosed'
    BY <2>1, <2>3 DEF Goes
  <2>5. timer = "closing" => timer' = "closing"
    BY <2>1 DEF Goes, Stopped
  <2> QED
    BY <1>1, <1>3, <2>2, <2>4, <2>5 DEF CallbackFails
<1>4. ASSUME NEW fails \in BOOLEAN, AgentAllowed(fails) PROVE ExitCloses' /\ EarlyEndCloses'
  <2>1. (connClosed => connClosed') /\ (fails \/ connClosed => connClosed')
    BY <1>4, Zenon DEF AgentAllowed
  <2>2. loop' = "ended" => connClosed'
    BY <1>4, <2>1 DEF AgentAllowed, Goes
  <2>3. timer = "closing" => timer' = "closing"
    BY <1>4 DEF AgentAllowed, Goes, Stopped
  <2> QED
    BY <1>1, <1>4, <2>1, <2>2, <2>3 DEF AgentAllowed, deliveryVars
<1>5. CASE SignalMalformed \/ SignalWhileExiting \/ BreakRefused
  BY <1>1, <1>5 DEF SignalMalformed, SignalWhileExiting, BreakRefused, Goes, Stopped, deliveryVars
<1>6. CASE SignalBuffered \/ SendBegins
  BY <1>1, <1>6 DEF SignalBuffered, SendBegins, BufferSignal, BeginSend, Goes, LoopFrame
<1>7. CASE StartResolves
  <2>1. loop' = "ended" => timer = "closing" \/ chanClosed
    BY <1>7 DEF StartResolves, TimerInv
  <2> QED
    BY <1>1, <1>7, <2>1 DEF StartResolves, Stopped, deliveryVars
<1>8. CASE StartReplied \/ StartReplyFails \/ WindowTakenOut \/ WindowSent \/ LoopEnds
  BY <1>1, <1>8 DEF StartReplied, StartReplyFails, WindowTakenOut, WindowSent, LoopEnds, Goes, Stopped, deliveryVars
<1>9. CASE SendEnds
  <2>1. loop' = "ended" => ctxDone
    BY <1>9 DEF SendEnds, Goes, ExitInv, SendShape
  <2> QED
    BY <1>1, <1>9, <2>1 DEF SendEnds, SendReplied, LoopFrame, Goes, Stopped
<1>10. CASE SendProceeds(SendReceived) \/ SendProceeds(SendPanics \/ SendCanceled \/ SendContextDone \/ SendSettles)
  BY <1>1, <1>10 DEF SendProceeds, SendReceived, SendPanics, SendCanceled, SendContextDone, SendSettles, SendsWith, LoopFrame
<1>11. CASE TimerFires \/ TimerCloses
  BY <1>1, <1>11 DEF TimerFires, TimerCloses, deliveryVars
<1>12. CASE \E d \in Drains : (OwnDrainStep(d) \/ DrainSends(d)) /\ UNCHANGED sessionVars
  BY <1>1, <1>12 DEF OwnDrainStep, DrainTakes, DrainHandsOver, DrainSends, DrainGivesUp, DrainContextDone, DrainEnds, DrainFrame
<1>13. CASE (\E c \in Callers : ConfigStep(c) /\ UNCHANGED sessionVars) \/ HandlerCalls
  BY <1>13, EndCallers, SessionAssumption DEF HandlerCalls, CallerMoves
<1>14. CASE (\E c \in Chans : AppCloses(c) /\ UNCHANGED sessionVars) \/ (ContextCanceled /\ UNCHANGED sessionVars)
  BY <1>1, <1>14 DEF AppCloses, ContextCanceled
<1>15. CASE HandlerReturns
  <2>1. CASE UNCHANGED deliveryVars
    BY <1>1, <1>15, <2>1 DEF HandlerReturns, deliveryVars
  <2>2. CASE ExitBegins("main")
    BY <1>15, <2>2, EndCallers, SessionAssumption DEF HandlerReturns, CallerMoves
  <2> QED
    BY <1>15, <2>1, <2>2 DEF HandlerReturns
<1>16. CASE HandlerRefused \/ HandlerCloses \/ HandlerDone \/ WindowReceived \/ SessionReturns \/ ClientCloses
  BY <1>1, <1>16 DEF HandlerRefused, HandlerCloses, HandlerDone, WindowReceived, SessionReturns, ClientCloses, deliveryVars
<1>17. CASE Terminated \/ UNCHANGED vars
  BY <1>1, <1>17 DEF Terminated, vars, deliveryVars
<1> QED
  BY <1>2, <1>3, <1>4, <1>5, <1>6, <1>7, <1>8, <1>9, <1>10, <1>11, <1>12, <1>13, <1>14, <1>15, <1>16, <1>17
     DEF Next, RequestStep, LoopStep

\* A loop that stops to read requests before the client has closed the channel does not
\* leave the client with an open channel.
THEOREM EarlyEndClosesHolds == Spec => []EarlyEndCloses
<1>1. Init => ExitCloses /\ EarlyEndCloses
  BY DEF Init, DeliveryInit, ExitCloses, EarlyEndCloses
<1>2. DeliveryTypes /\ ExitInv /\ TimerInv /\ (ExitCloses /\ EarlyEndCloses) /\ [Next]_vars => (ExitCloses /\ EarlyEndCloses)'
  BY EndStep
<1> QED
  BY <1>1, <1>2, TypesInvariant, ExitInvariant, TimerInvariant, PTL DEF Spec

================================================================================
