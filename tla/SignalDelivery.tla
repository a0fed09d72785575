----------------------------- MODULE SignalDelivery ------------------------------
(***************************************************************************)
(* Signals and breaks of a session (session.go): the channels a handler    *)
(* registers with Session.Signals and Session.Break, the buffer for        *)
(* signals that come before, the goroutine that drains it, the request     *)
(* loop's own sends, and Exit, which has to stop all of them.              *)
(*                                                                         *)
(* A component without a specification of its own: SessionRequests runs    *)
(* its actions together with the request loop and the handler.             *)
(*                                                                         *)
(* sess.Lock sections are single steps.  The mutexes that are held across  *)
(* steps are not variables: who holds them follows from where the callers  *)
(* and the loop's send stand (ConfigFree, ReplyFree).                      *)
(***************************************************************************)
EXTENDS Integers, Sequences, FiniteSets, SequencesExt

CONSTANTS
  Chans,      \* channels of the application
  Callers,    \* goroutines of the application that call Signals, Break and Exit
  None,       \* nil
  MaxSigBuf,  \* maxSigBufSize
  MaxRegs     \* bound: calls of Signals and Break

ASSUME DeliveryAssumption ==
  None \notin Chans /\ MaxSigBuf \in Nat \ {0} /\ MaxRegs \in Nat

Kinds == {"signal", "break"}
Drains == 1..MaxRegs

VARIABLES
  ch,          \* sigCh and breakCh
  sigBuf,      \* signals, each the number of its request
  sigDrain,    \* the drain sigDrainCancel and sigDrainDone belong to, 0 for nil
  drain,       \* the goroutines of drainSignals
  send,        \* the send the request loop is at
  caller,      \* where each goroutine stands in Signals, Break or Exit
  regs,        \* the calls of Signals and Break that are still to come
  registered,  \* the channel of the last such call that returned
  exiting, exited,
  chanClosed,  \* the server has closed the session's channel
  open,        \* whether the application has left its channel open
  ctxDone,     \* the connection's context
  delivered,   \* the signals the application was given, in order
  acked,       \* the signals whose request was answered with success
  dropped      \* those that found the buffer full

configVars == <<sigDrain, regs, registered, caller>>
appVars == <<open, ctxDone>>
historyVars == <<delivered, acked, dropped>>
deliveryVars == <<ch, sigBuf, drain, send, configVars, exiting, exited, chanClosed, appVars, historyVars>>

NoDrain == [at |-> "off", target |-> None, canceled |-> FALSE, batch |-> <<>>]
NoSend == [at |-> "idle", kind |-> "none", id |-> 0, target |-> None, canceled |-> FALSE, result |-> "none"]
NoCall == [at |-> "idle", kind |-> "none", arg |-> None, wait |-> 0, exit |-> FALSE]

DeliveryInit ==
  /\ ch = [k \in Kinds |-> None] /\ registered = ch
  /\ sigBuf = <<>> /\ sigDrain = 0 /\ drain = [d \in Drains |-> NoDrain]
  /\ send = NoSend /\ caller = [c \in Callers |-> NoCall]
  /\ exiting = FALSE /\ exited = FALSE /\ chanClosed = FALSE
  /\ open = [c \in Chans |-> TRUE] /\ ctxDone = FALSE
  /\ delivered = <<>> /\ acked = {} /\ dropped = {}

--------------------------------------------------------------------------------
(* setSignalChannelLocked and setBreakChannelLocked, called by Signals, Break and *)
(* Exit with sigConfigMu or breakConfigMu held.                                   *)
ConfigFree(k) == \A c \in Callers : ~(caller[c].at \in {"drain", "send"} /\ caller[c].kind = k)

\* sigSendWg and breakSendWg.
InFlight(k) == send.kind = k /\ send.at \in {"send", "settle"}

\* Fault: the loop's send to the old channel goes on.
Unset_Sending(k) == ch' = [ch EXCEPT ![k] = None] /\ UNCHANGED send

\* The channel is taken away and the loop's send to it canceled.
Unset(k) ==
  /\ ch' = [ch EXCEPT ![k] = None]
  /\ send' = IF InFlight(k) THEN [send EXCEPT !.canceled = TRUE] ELSE send

\* A drain is canceled and waited for first.
SetChannel(c, k, arg, exit) ==
  IF k = "signal" /\ sigDrain # 0
  THEN /\ drain' = [drain EXCEPT ![sigDrain].canceled = TRUE]
       /\ caller' = [caller EXCEPT ![c] = [at |-> "drain", kind |-> k, arg |-> arg, wait |-> sigDrain, exit |-> exit]]
       /\ UNCHANGED <<ch, send>>
  ELSE /\ Unset(k)
       /\ caller' = [caller EXCEPT ![c] = [at |-> "send", kind |-> k, arg |-> arg, wait |-> 0, exit |-> exit]]
       /\ UNCHANGED drain

DrainStopped(c) ==
  /\ caller[c].at = "drain" /\ drain[caller[c].wait].at = "done"
  /\ Unset("signal")
  /\ caller' = [caller EXCEPT ![c].at = "send"]
  /\ UNCHANGED <<sigBuf, drain, sigDrain, regs, registered, exiting, exited, chanClosed, appVars, historyVars>>

\* Signals and Break return without effect once the session is exiting.
Register(c) ==
  /\ caller[c] = NoCall /\ regs # <<>> /\ ~exiting /\ ConfigFree(Head(regs).kind)
  /\ SetChannel(c, Head(regs).kind, Head(regs).arg, FALSE)
  /\ regs' = Tail(regs)
  /\ UNCHANGED <<sigBuf, sigDrain, registered, exiting, exited, chanClosed, appVars, historyVars>>

NeedsDrain(k) == k = "signal" /\ sigBuf # <<>>

\* No send is under way any more: the new channel is used directly, or by a drain
\* as long as there are signals in the buffer.
Configured(c) ==
  LET r == caller[c]
      d == 1 + Cardinality({x \in Drains : drain[x].at # "off"})
  IN /\ r.at = "send" /\ ~InFlight(r.kind)
     /\ \/ /\ r.arg = None \/ ~NeedsDrain(r.kind)
           /\ ch' = [ch EXCEPT ![r.kind] = r.arg] /\ UNCHANGED <<drain, sigDrain>>
        \/ /\ r.arg # None /\ NeedsDrain(r.kind)
           /\ drain' = [drain EXCEPT ![d] = [NoDrain EXCEPT !.at = "take", !.target = r.arg]]
           /\ sigDrain' = d /\ UNCHANGED ch
     /\ registered' = [registered EXCEPT ![r.kind] = r.arg]
     /\ caller' = [caller EXCEPT ![c] =
          IF r.exit THEN [NoCall EXCEPT !.at = IF r.kind = "signal" THEN "sigReply" ELSE "breakReply", !.exit = TRUE]
          ELSE NoCall]
     /\ UNCHANGED <<sigBuf, send, regs, exiting, exited, chanClosed, appVars, historyVars>>

--------------------------------------------------------------------------------
(* Exit. *)

\* sigReplyMu and breakReplyMu: the loop holds one from its look at the channel to
\* the reply, Exit holds sigReplyMu while it stops the breaks.
ExitHoldsReply(c) == caller[c].exit /\ (caller[c].at \in {"breakStop", "breakReply"} \/ caller[c].kind = "break")
ReplyFree(k) == send.kind # k /\ (k = "signal" => \A c \in Callers : ~ExitHoldsReply(c))

\* A second Exit, which finds everything stopped and is refused, is left out.
ExitBegins(c) ==
  /\ caller[c] = NoCall /\ ~exited
  /\ exiting' = TRUE
  /\ caller' = [caller EXCEPT ![c] = [NoCall EXCEPT !.at = "sigStop", !.exit = TRUE]]
  /\ UNCHANGED <<ch, sigBuf, drain, send, sigDrain, regs, registered, exited, chanClosed, appVars, historyVars>>

ExitStopsSignals(c) ==
  /\ caller[c].at = "sigStop" /\ ConfigFree("signal")
  /\ SetChannel(c, "signal", None, TRUE)
  /\ UNCHANGED <<sigBuf, sigDrain, regs, registered, exiting, exited, chanClosed, appVars, historyVars>>

\* Fault: the loop's reply is not waited for.
ExitLocksReply_Unlocked(c) ==
  /\ caller[c].at = "sigReply"
  /\ caller' = [caller EXCEPT ![c].at = "breakStop"]
  /\ UNCHANGED <<ch, sigBuf, drain, send, sigDrain, regs, registered, exiting, exited, chanClosed, appVars, historyVars>>

ExitLocksReply(c) ==
  /\ caller[c].at = "sigReply" /\ ReplyFree("signal")
  /\ caller' = [caller EXCEPT ![c].at = "breakStop"]
  /\ UNCHANGED <<ch, sigBuf, drain, send, sigDrain, regs, registered, exiting, exited, chanClosed, appVars, historyVars>>

ExitStopsBreaks(c) ==
  /\ caller[c].at = "breakStop" /\ ConfigFree("break")
  /\ SetChannel(c, "break", None, TRUE)
  /\ UNCHANGED <<sigBuf, sigDrain, regs, registered, exiting, exited, chanClosed, appVars, historyVars>>

\* The exit status, unless another Exit was faster, and the close of the channel.
ExitSends(c) ==
  /\ caller[c].at = "breakReply" /\ ReplyFree("break")
  /\ exited' = TRUE /\ chanClosed' = TRUE
  /\ caller' = [caller EXCEPT ![c] = NoCall]
  /\ UNCHANGED <<ch, sigBuf, drain, send, sigDrain, regs, registered, exiting, appVars, historyVars>>

--------------------------------------------------------------------------------
(* drainSignals. *)
DrainFrame == UNCHANGED <<send, regs, registered, caller, exiting, exited, chanClosed, appVars, acked>>

DrainTakes(d) ==
  /\ drain[d].at = "take" /\ sigBuf # <<>>
  /\ drain' = [drain EXCEPT ![d].at = "send", ![d].batch = sigBuf]
  /\ sigBuf' = <<>>
  /\ UNCHANGED <<ch, sigDrain, delivered, dropped>> /\ DrainFrame

\* The buffer is empty: from now on the loop sends itself.
DrainHandsOver(d) ==
  /\ drain[d].at = "take" /\ sigBuf = <<>>
  /\ drain' = [drain EXCEPT ![d].at = "end"]
  /\ ch' = [ch EXCEPT !["signal"] = drain[d].target]
  /\ sigDrain' = 0
  /\ UNCHANGED <<sigBuf, delivered, dropped>> /\ DrainFrame

DrainSends(d) ==
  /\ drain[d].at = "send" /\ open[drain[d].target]
  /\ delivered' = Append(delivered, Head(drain[d].batch))
  /\ drain' = [drain EXCEPT ![d].batch = Tail(@), ![d].at = IF Len(drain[d].batch) = 1 THEN "take" ELSE "send"]
  /\ UNCHANGED <<ch, sigBuf, sigDrain, dropped>> /\ DrainFrame

\* Fault: what is left goes behind the signals that came meanwhile.
Requeued_Behind(batch) == sigBuf \o batch

\* Fault: it replaces them.
Requeued_Only(batch) == batch

\* requeueSignals: what is left goes back before the signals that came meanwhile.
Requeued(batch) == batch \o sigBuf

\* The drain is canceled, or its channel was closed.
DrainGivesUp(d) ==
  LET all == Requeued(drain[d].batch)
  IN /\ drain[d].at = "send" /\ (drain[d].canceled \/ ~open[drain[d].target])
     /\ sigBuf' = SubSeq(all, 1, IF Len(all) > MaxSigBuf THEN MaxSigBuf ELSE Len(all))
     /\ dropped' = dropped \cup {all[i] : i \in MaxSigBuf + 1..Len(all)}
     /\ drain' = [drain EXCEPT ![d].at = "end", ![d].batch = <<>>]
     /\ sigDrain' = 0
     /\ UNCHANGED <<ch, delivered>> /\ DrainFrame

DrainContextDone(d) ==
  /\ drain[d].at = "send" /\ ctxDone
  /\ drain' = [drain EXCEPT ![d].at = "end", ![d].batch = <<>>]
  /\ UNCHANGED <<ch, sigBuf, sigDrain, delivered, dropped>> /\ DrainFrame

\* Fault: a drain that ends clears the fields of one that was started after it.
DrainOwns_Any(d) == TRUE

DrainOwns(d) == sigDrain = d

\* The deferred function, which ends with close(done).
DrainEnds(d) ==
  /\ drain[d].at = "end"
  /\ sigDrain' = IF DrainOwns(d) THEN 0 ELSE sigDrain
  /\ drain' = [drain EXCEPT ![d] = [NoDrain EXCEPT !.at = "done"]]
  /\ UNCHANGED <<ch, sigBuf, delivered, dropped>> /\ DrainFrame

--------------------------------------------------------------------------------
(* handleSignalRequest and deliverBreakAndReply, for the request with number id. *)
LoopFrame == UNCHANGED <<ch, drain, configVars, exiting, exited, chanClosed, appVars>>

\* No channel is registered: the signal waits in the buffer, and a full one drops it;
\* the client is told success in both cases.
BufferSignal(id) ==
  /\ ReplyFree("signal") /\ ~exiting /\ ch["signal"] = None
  /\ IF Len(sigBuf) < MaxSigBuf THEN sigBuf' = Append(sigBuf, id) /\ UNCHANGED dropped
     ELSE dropped' = dropped \cup {id} /\ UNCHANGED sigBuf
  /\ acked' = acked \cup {id}
  /\ UNCHANGED <<send, delivered>> /\ LoopFrame

BeginSend(k, id) ==
  /\ ReplyFree(k) /\ (k = "signal" => ~exiting) /\ ch[k] # None
  /\ send' = [NoSend EXCEPT !.at = "send", !.kind = k, !.id = id, !.target = ch[k]]
  /\ UNCHANGED <<sigBuf, historyVars>> /\ LoopFrame

\* The select of sendSignal and sendBreak.
SendsWith(result) ==
  /\ send.at = "send"
  /\ send' = [send EXCEPT !.at = "settle", !.result = result]
  /\ delivered' = IF result = "delivered" /\ send.kind = "signal" THEN Append(delivered, send.id) ELSE delivered
  /\ UNCHANGED <<sigBuf, acked, dropped>> /\ LoopFrame

SendReceived == open[send.target] /\ SendsWith("delivered")
SendPanics == ~open[send.target] /\ SendsWith("closed")
SendCanceled == send.canceled /\ SendsWith("canceled")
SendContextDone == ctxDone /\ SendsWith("context")

\* A closed channel is forgotten, unless it was replaced.
SendSettles ==
  /\ send.at = "settle"
  /\ send' = [send EXCEPT !.at = "reply"]
  /\ ch' = IF send.result = "closed" /\ ch[send.kind] = send.target THEN [ch EXCEPT ![send.kind] = None] ELSE ch
  /\ UNCHANGED <<sigBuf, drain, configVars, exiting, exited, chanClosed, appVars, historyVars>>

SendReplied ==
  /\ send.at = "reply"
  /\ send' = NoSend
  /\ acked' = IF send.kind = "signal" /\ send.result = "delivered" THEN acked \cup {send.id} ELSE acked
  /\ UNCHANGED <<sigBuf, delivered, dropped>> /\ LoopFrame

--------------------------------------------------------------------------------
(* The application and the connection. *)

\* A channel that was closed before it was registered is as one closed right after.
AppCloses(c) ==
  /\ c \in {send.target, ch["signal"], ch["break"]} \cup {drain[d].target : d \in Drains}
  /\ open[c] /\ open' = [open EXCEPT ![c] = FALSE]
  /\ UNCHANGED <<ch, sigBuf, drain, send, configVars, exiting, exited, chanClosed, ctxDone, historyVars>>

ContextCanceled ==
  /\ ~ctxDone /\ ctxDone' = TRUE
  /\ UNCHANGED <<ch, sigBuf, drain, send, configVars, exiting, exited, chanClosed, open, historyVars>>

ConfigStep(c) ==
  DrainStopped(c) \/ Configured(c) \/ ExitStopsSignals(c) \/ ExitLocksReply(c) \/ ExitStopsBreaks(c) \/ ExitSends(c)
DrainStep(d) == DrainTakes(d) \/ DrainHandsOver(d) \/ DrainSends(d) \/ DrainGivesUp(d) \/ DrainContextDone(d) \/ DrainEnds(d)
SendStep == SendReceived \/ SendPanics \/ SendCanceled \/ SendContextDone \/ SendSettles \/ SendReplied

--------------------------------------------------------------------------------
(* Properties. *)
Running(d) == drain[d].at \in {"take", "send"}

\* "If there are buffered signals when a channel is registered, they will be sent in
\* order on the channel": the application is given the signals in the order of their
\* requests and none of them twice, whether a drain or the loop sends them, over all
\* the channels it registers while signals come in.
SignalsInOrder == \A i, j \in 1..Len(delivered) : i < j => delivered[i] < delivered[j]

\* A signal the client was told success for is never lost between the buffer, the
\* drain and a change of the channel, unless it met a full buffer or the connection
\* has ended.
AckedKept ==
  ctxDone \/ acked \subseteq Range(delivered) \cup Range(sigBuf) \cup dropped \cup UNION {Range(drain[d].batch) : d \in Drains}

\* Once Signals(c) or Break(c) has returned nobody sends to the channel that was
\* registered before: the application may close it, or stop to read from it.
OnlyRegistered ==
  \A k \in Kinds : ConfigFree(k) =>
    /\ InFlight(k) => send.target = registered[k]
    /\ k = "signal" => \A d \in Drains : Running(d) => drain[d].target = registered[k]

\* After the exit status the client gets no reply that says a signal or a break was
\* delivered.
AnsweredBeforeExit == exited => send.at = "idle" \/ send.result # "delivered"
================================================================================
