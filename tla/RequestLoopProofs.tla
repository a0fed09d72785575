---------------------------- MODULE RequestLoopProofs ----------------------------
(***************************************************************************)
(* The global requests of a connection for every number of requests: their *)
(* replies are in order, the loop leaves none behind that is owed, and     *)
(* whoever waits for a response is woken.                                  *)
(*                                                                         *)
(* The argument: a call that won a response is the only one at it until    *)
(* the response is complete, and the loop leaves a request behind only     *)
(* when its response is complete.  So a reply that is being written is     *)
(* the reply of the request the loop is at.                                *)
(***************************************************************************)
EXTENDS RequestLoop, SequenceTheorems, TLAPS

--------------------------------------------------------------------------------
(* Actors and responses. *)

LEMMA LoopActs == Loop \in Actors /\ Of(Loop) = cur
BY DEF Actors, Of

LEMMA HelperActs ==
  ASSUME NEW a \in Actors, a # Loop
  PROVE  a[2] \in Requests /\ Of(a) = a[2]
BY DEF Actors, Of, Helper, ErrorHelper

LEMMA HelpersAreNotLoop ==
  ASSUME NEW r
  PROVE  /\ Helper(r) # Loop /\ ErrorHelper(r) # Loop
         /\ Helper(r)[2] = r /\ ErrorHelper(r)[2] = r
BY DEF Helper, ErrorHelper, Loop

\* The variables that say where the replies are.
replyVars == <<want, resp, wire, doneClosed>>

\* The actor holds a response it won.
Busy(a) == at[a] \in {"write", "written", "failed"}

\* Where the actors stand: the loop makes calls only in the handlers and for its own
\* replies, and nobody is at a response before the request came in.
LoopCalls == {"unhandled", "handling", "default", "errorHandler", "answer"}
PlaceInv ==
  /\ at[Loop] # "off"
  /\ at[Loop] # "idle" => pc \in LoopCalls
  /\ \A a \in Actors : at[a] \notin {"off", "idle"} => Of(a) \in 1..cur
  /\ cur = 0 => pc \in {"next", "over"}
  /\ pc \in {"unhandled", "answer"} /\ at[Loop] # "idle" =>
       mode[Loop] = "own" /\ (at[Loop] = "enter" \/ Busy(Loop))

LEMMA CurIsRequest ==
  ASSUME TypeOK, PlaceInv, cur # 0
  PROVE  cur \in Requests /\ cur \in 1..cur
BY DEF TypeOK, Requests

LEMMA BusyRequest ==
  ASSUME TypeOK, PlaceInv, NEW a \in Actors, at[a] \notin {"off", "idle"}
  PROVE  Of(a) \in Requests /\ Of(a) \in 1..cur
BY NAssumption DEF TypeOK, PlaceInv, Requests

\* A step of one actor.
LEMMA MovePlaces ==
  ASSUME TypeOK, PlaceInv, NEW a \in Actors, NEW p \in Places \ {"off"}, NEW m \in Modes,
         at' = [at EXCEPT ![a] = p], mode' = [mode EXCEPT ![a] = m], UNCHANGED <<cur, pc>>,
         p # "idle" => Of(a) \in 1..cur,
         a = Loop /\ p # "idle" => pc \in LoopCalls,
         a = Loop /\ p # "idle" /\ pc \in {"unhandled", "answer"} =>
           m = "own" /\ p \in {"enter", "write", "written", "failed"}
  PROVE  PlaceInv'
<1>1. at \in [Actors -> Places] /\ mode \in [Actors -> Modes]
  BY DEF TypeOK
<1>2. /\ at'[a] = p /\ mode'[a] = m
      /\ \A b \in Actors : b # a => at'[b] = at[b] /\ mode'[b] = mode[b]
  BY <1>1
<1>3. \A b : Of(b)' = Of(b)
  BY DEF Of
<1>4. at'[Loop] # "off"
  BY <1>2, LoopActs DEF PlaceInv
<1>5. at'[Loop] # "idle" => pc' \in LoopCalls
  BY <1>2, LoopActs DEF PlaceInv
<1>6. \A b \in Actors : at'[b] \notin {"off", "idle"} => Of(b)' \in 1..cur'
  BY <1>2, <1>3 DEF PlaceInv
<1>7. pc' \in {"unhandled", "answer"} /\ at'[Loop] # "idle" =>
        mode'[Loop] = "own" /\ (at'[Loop] = "enter" \/ Busy(Loop)')
  BY <1>2, LoopActs DEF PlaceInv, Busy
<1> QED
  BY <1>4, <1>5, <1>6, <1>7 DEF PlaceInv

\* Goes, for an actor in a call.
LEMMA GoesPlaces ==
  ASSUME TypeOK, PlaceInv, NEW a \in Actors, NEW from, NEW to \in Places \ {"off"},
         Goes(a, from, to), UNCHANGED <<cur, pc>>, at[a] \notin {"off", "idle"},
         a = Loop /\ pc \in {"unhandled", "answer"} => to \in {"idle", "enter", "write", "written", "failed"}
  PROVE  /\ at' = [at EXCEPT ![a] = to] /\ at' \in [Actors -> Places] /\ mode' \in [Actors -> Modes]
         /\ PlaceInv'
<1>1. at \in [Actors -> Places] /\ mode \in [Actors -> Modes] /\ "none" \in Modes
  BY DEF TypeOK, Modes
<1>2. at' = [at EXCEPT ![a] = to]
  BY DEF Goes
<1>3. PICK m \in Modes : mode' = [mode EXCEPT ![a] = m] /\ (to # "idle" => m = mode[a])
  <2>1. CASE to = "idle"
    BY <1>1, <2>1 DEF Goes
  <2>2. CASE to # "idle"
    BY <1>1, <2>2 DEF Goes
  <2> QED
    BY <2>1, <2>2
<1>4. a = Loop /\ to # "idle" /\ pc \in {"unhandled", "answer"} =>
        m = "own" /\ to \in {"enter", "write", "written", "failed"}
  BY <1>3 DEF PlaceInv
<1>5. PlaceInv'
  BY <1>2, <1>3, <1>4, BusyRequest, MovePlaces DEF PlaceInv
<1> QED
  BY <1>1, <1>2, <1>3, <1>5

\* Calls: an actor begins one.
LEMMA CallsPlaces ==
  ASSUME TypeOK, PlaceInv, NEW a \in Actors, NEW m \in Modes, NEW p \in Places \ {"off", "idle"},
         Calls(a, m, p), UNCHANGED <<cur, pc>>, Of(a) = cur, cur # 0,
         a = Loop => pc \in LoopCalls \ {"unhandled", "answer"}
  PROVE  /\ at' = [at EXCEPT ![a] = p] /\ at' \in [Actors -> Places] /\ mode' \in [Actors -> Modes]
         /\ PlaceInv'
<1>1. at \in [Actors -> Places] /\ mode \in [Actors -> Modes]
  BY DEF TypeOK
<1>2. at' = [at EXCEPT ![a] = p] /\ mode' = [mode EXCEPT ![a] = m]
  BY DEF Calls
<1>3. PlaceInv'
  BY <1>2, CurIsRequest, MovePlaces
<1> QED
  BY <1>1, <1>2, <1>3

--------------------------------------------------------------------------------
(* The calls, as the replies see them. *)

\* An actor that holds no response makes a step that leaves the responses alone.  A
\* reply of the loop's own is then refused.
QuietCall(a) ==
  /\ ~Busy(a) /\ UNCHANGED <<replyVars, cur, pc>>
  /\ \E p \in Places \ {"off", "write", "written", "failed"} : at' = [at EXCEPT ![a] = p]
  /\ pc \in {"unhandled", "answer"} =>
       (a # Loop /\ outcome' = outcome) \/ (a = Loop /\ outcome' = "refused" /\ Taken(cur))
  /\ closed => closed'

RespTypes == [active : BOOLEAN, attempted : BOOLEAN, complete : BOOLEAN, err : BOOLEAN, released : BOOLEAN]

\* What is left to the variables of the calls.
OtherTypes ==
  /\ resp \in [Requests -> RespTypes]
  /\ eresp \in [Requests -> [active : BOOLEAN, attempted : BOOLEAN]]
  /\ next \in [Requests -> [active : BOOLEAN, called : BOOLEAN, complete : BOOLEAN]]
  /\ outcome \in {"nil", "refused", "failed"} /\ closed \in BOOLEAN
  /\ wire \in Seq(Requests) /\ doneClosed \in [Requests -> Nat]
LoopTypes ==
  /\ cur \in 0..N /\ pc \in PCs /\ handlerErr \in {"nil", "error", "reply"}
  /\ verdict \in {"continue", "stop", "error"}
ActorTypes == at \in [Actors -> Places] /\ mode \in [Actors -> Modes]
ConfigTypes == want \in [Requests -> BOOLEAN] /\ errorHandler \in BOOLEAN

LEMMA TypeParts == TypeOK <=> ConfigTypes /\ LoopTypes /\ OtherTypes /\ ActorTypes
BY DEF TypeOK, ConfigTypes, LoopTypes, OtherTypes, ActorTypes, RespTypes

LEMMA ErespTypes ==
  ASSUME OtherTypes, NEW r \in Requests, NEW b \in BOOLEAN,
         eresp' = [eresp EXCEPT ![r].active = b] \/ eresp' = [eresp EXCEPT ![r].attempted = b]
  PROVE  eresp' \in [Requests -> [active : BOOLEAN, attempted : BOOLEAN]]
BY DEF OtherTypes

LEMMA NextTypes ==
  ASSUME OtherTypes, NEW r \in Requests, NEW b \in BOOLEAN,
         \/ next' = [next EXCEPT ![r].active = b] \/ next' = [next EXCEPT ![r].called = b]
         \/ next' = [next EXCEPT ![r].complete = b]
  PROVE  next' \in [Requests -> [active : BOOLEAN, called : BOOLEAN, complete : BOOLEAN]]
<1>1. CASE next' = [next EXCEPT ![r].active = b]
  BY <1>1 DEF OtherTypes
<1>2. CASE next' = [next EXCEPT ![r].called = b]
  BY <1>2 DEF OtherTypes
<1>3. CASE next' = [next EXCEPT ![r].complete = b]
  BY <1>3 DEF OtherTypes
<1> QED
  BY <1>1, <1>2, <1>3

\* A step that changes none of the responses and none of the loop's variables.
LEMMA QuietTypes ==
  ASSUME TypeOK, UNCHANGED <<config, loopVars, resp, wire, doneClosed>>,
         eresp' = eresp \/ eresp' \in [Requests -> [active : BOOLEAN, attempted : BOOLEAN]],
         next' = next \/ next' \in [Requests -> [active : BOOLEAN, called : BOOLEAN, complete : BOOLEAN]],
         outcome' = outcome \/ outcome' \in {"nil", "refused", "failed"},
         closed' = closed \/ closed' \in BOOLEAN, ActorTypes'
  PROVE  TypeOK'
<1>1. ConfigTypes' /\ LoopTypes'
  BY TypeParts DEF ConfigTypes, LoopTypes, config, loopVars
<1>2. OtherTypes'
  <2>1. OtherTypes
    BY TypeParts
  <2> QED
    BY <2>1 DEF OtherTypes
<1>3. TypeOK' <=> ConfigTypes' /\ LoopTypes' /\ OtherTypes' /\ ActorTypes'
  BY DEF TypeOK, ConfigTypes, LoopTypes, OtherTypes, ActorTypes, RespTypes
<1> QED
  BY <1>1, <1>2, <1>3

LEMMA RefusedStep ==
  ASSUME TypeOK, PlaceInv, NEW a \in Actors, RespondRefused(a)
  PROVE  TypeOK' /\ PlaceInv' /\ QuietCall(a)
<1>1. at[a] = "enter" /\ Goes(a, {"enter"}, Replied(a)) /\ UNCHANGED <<config, loopVars, resp, eresp, next, closed, wire, doneClosed>>
  BY DEF RespondRefused
<1>2. Replied(a) \in {"sent", "idle"} /\ (a = Loop /\ pc \in {"unhandled", "answer"} => Replied(a) = "idle")
  BY <1>1 DEF Replied, PlaceInv
<1>3. /\ at' = [at EXCEPT ![a] = Replied(a)] /\ at' \in [Actors -> Places] /\ mode' \in [Actors -> Modes]
      /\ PlaceInv'
  <2>1. Replied(a) \in Places \ {"off"}
    BY <1>2 DEF Places
  <2> QED
    BY <1>1, <1>2, <2>1, GoesPlaces DEF loopVars
<1>4. TypeOK'
  <2>1. outcome' = outcome \/ outcome' = "refused"
    BY DEF RespondRefused, EndsWith
  <2> QED
    BY <1>1, <1>3, <2>1, QuietTypes DEF ActorTypes
<1>5. ASSUME pc \in {"unhandled", "answer"}
      PROVE  (a # Loop /\ outcome' = outcome) \/ (a = Loop /\ outcome' = "refused" /\ Taken(cur))
  <2>1. CASE a # Loop
    BY <2>1 DEF RespondRefused, EndsWith
  <2>2. CASE a = Loop
    <3>1. mode[a] = "own"
      BY <1>1, <1>5, <2>2 DEF PlaceInv
    <3>2. Taken(Of(a)) /\ Of(a) = cur
      BY <2>2, <3>1, LoopActs DEF RespondRefused, Expired
    <3> QED
      BY <2>2, <3>1, <3>2 DEF RespondRefused, EndsWith
  <2> QED
    BY <2>1, <2>2
<1> QED
  BY <1>1, <1>2, <1>3, <1>4, <1>5 DEF QuietCall, Busy, Places, replyVars, config, loopVars

\* The calls that are quiet in the same way: they have no part in a reply of the
\* loop's own.
LEMMA QuietGoes ==
  ASSUME TypeOK, PlaceInv, NEW a \in Actors, NEW from \in {"sent", "default", "defaultDone"},
         NEW to \in {"idle", "enter", "sent", "defaultDone"}, Goes(a, {from}, to),
         UNCHANGED <<config, loopVars, resp, outcome, wire, doneClosed>>,
         eresp' = eresp \/ eresp' \in [Requests -> [active : BOOLEAN, attempted : BOOLEAN]],
         next' = next \/ next' \in [Requests -> [active : BOOLEAN, called : BOOLEAN, complete : BOOLEAN]],
         closed' \in BOOLEAN, closed => closed'
  PROVE  TypeOK' /\ PlaceInv' /\ QuietCall(a)
<1>1. at[a] = from /\ (a = Loop => pc \notin {"unhandled", "answer"})
  BY DEF Goes, PlaceInv, Busy
<1>2. /\ at' = [at EXCEPT ![a] = to] /\ at' \in [Actors -> Places] /\ mode' \in [Actors -> Modes]
      /\ PlaceInv'
  <2>1. to \in Places \ {"off"}
    BY DEF Places
  <2> QED
    BY <1>1, <2>1, GoesPlaces DEF loopVars
<1>3. TypeOK'
  BY <1>2, QuietTypes DEF ActorTypes
<1> QED
  BY <1>1, <1>2, <1>3 DEF QuietCall, Busy, Places, replyVars, config, loopVars

LEMMA SendTarget ==
  ASSUME TypeOK, NEW a
  PROVE  SendsTo(a) \in {"enter", "sent"}
BY DEF SendsTo

LEMMA QuietSteps ==
  ASSUME TypeOK, PlaceInv, NEW a \in Actors,
         SendCompletes(a) \/ DefaultSends(a) \/ DefaultLeaves(a) \/ NextCompletes(a)
  PROVE  TypeOK' /\ PlaceInv' /\ QuietCall(a)
<1>0. OtherTypes
  BY TypeParts
<1>1. CASE SendCompletes(a)
  <2>1. Goes(a, {"sent"}, "defaultDone") \/ Goes(a, {"sent"}, "idle")
    BY <1>1 DEF SendCompletes
  <2>2. closed' \in BOOLEAN /\ (closed => closed')
    BY <1>1, Zenon DEF SendCompletes
  <2> QED
    BY <1>1, <2>1, <2>2, QuietGoes DEF SendCompletes
<1>2. CASE DefaultSends(a)
  <2>1. Goes(a, {"default"}, SendsTo(a))
    BY <1>2 DEF DefaultSends
  <2>2. eresp' = [eresp EXCEPT ![Of(a)].attempted = TRUE]
    BY <1>2 DEF DefaultSends, Sends
  <2>3. Of(a) \in Requests
    BY <2>1, BusyRequest DEF Goes
  <2>4. eresp' \in [Requests -> [active : BOOLEAN, attempted : BOOLEAN]]
    BY <1>0, <2>2, <2>3, ErespTypes
  <2>5. SendsTo(a) \in {"enter", "sent"} /\ closed \in BOOLEAN
    BY <1>0, SendTarget DEF OtherTypes
  <2> QED
    BY <1>2, <2>1, <2>4, <2>5, QuietGoes DEF DefaultSends
<1>3. CASE DefaultLeaves(a)
  <2>1. closed \in BOOLEAN
    BY <1>0 DEF OtherTypes
  <2> QED
    BY <1>3, <2>1, QuietGoes DEF DefaultLeaves
<1>4. CASE NextCompletes(a)
  <2>1. Goes(a, {"defaultDone"}, "idle") /\ next' = [next EXCEPT ![Of(a)].complete = TRUE]
    BY <1>4 DEF NextCompletes
  <2>2. Of(a) \in Requests
    BY <2>1, BusyRequest DEF Goes
  <2>3. next' \in [Requests -> [active : BOOLEAN, called : BOOLEAN, complete : BOOLEAN]]
    BY <1>0, <2>1, <2>2, NextTypes
  <2>4. closed \in BOOLEAN
    BY <1>0 DEF OtherTypes
  <2> QED
    BY <1>4, <2>1, <2>3, <2>4, QuietGoes DEF NextCompletes
<1> QED
  BY <1>1, <1>2, <1>3, <1>4

\* A handler, or its goroutine, begins a call.
LEMMA QuietCalls ==
  ASSUME TypeOK, PlaceInv, NEW a \in Actors, NEW m \in Modes,
         NEW p \in {"enter", "sent", "default"}, Calls(a, m, p),
         Of(a) = cur, cur # 0, a = Loop => pc \in LoopCalls, pc \notin {"unhandled", "answer"},
         UNCHANGED <<config, loopVars, resp, closed, wire, doneClosed>>,
         eresp' = eresp \/ eresp' \in [Requests -> [active : BOOLEAN, attempted : BOOLEAN]],
         next' = next \/ next' \in [Requests -> [active : BOOLEAN, called : BOOLEAN, complete : BOOLEAN]]
  PROVE  TypeOK' /\ PlaceInv' /\ QuietCall(a)
<1>1. ~Busy(a)
  BY DEF Calls, Busy
<1>2. /\ at' = [at EXCEPT ![a] = p] /\ at' \in [Actors -> Places] /\ mode' \in [Actors -> Modes]
      /\ PlaceInv'
  <2>1. p \in Places \ {"off", "idle"}
    BY DEF Places
  <2> QED
    BY <2>1, CallsPlaces DEF loopVars
<1>3. outcome' = outcome \/ outcome' = "nil"
  BY DEF Calls
<1>4. TypeOK'
  BY <1>2, <1>3, QuietTypes DEF ActorTypes
<1> QED
  BY <1>1, <1>2, <1>4 DEF QuietCall, Places, replyVars, config, loopVars

LEMMA HandlerCalls ==
  ASSUME TypeOK, PlaceInv, NEW a \in Actors,
         HandlerResponds(a) \/ ErrorHandlerSends(a) \/ ErrorHandlerCallsNext(a)
  PROVE  TypeOK' /\ PlaceInv' /\ QuietCall(a)
<1>0. OtherTypes
  BY TypeParts
<1>1. CASE HandlerResponds(a)
  <2>1. cur # 0
    BY <1>1 DEF HandlerResponds, PlaceInv
  <2>2. "writer" \in Modes
    BY DEF Modes
  <2> QED
    BY <1>1, <2>1, <2>2, QuietCalls DEF HandlerResponds, LoopCalls
<1>2. CASE ErrorHandlerSends(a)
  <2>1. pc \in {"errorHandler", "expireResponse"} /\ (a = Loop => pc = "errorHandler")
    BY <1>2 DEF ErrorHandlerSends
  <2>2. Of(a) = cur /\ cur # 0
    BY <1>2, <2>1, HelpersAreNotLoop DEF ErrorHandlerSends, PlaceInv, Of
  <2>3. eresp' = [eresp EXCEPT ![cur].attempted = TRUE]
    BY <1>2, <2>2 DEF ErrorHandlerSends, Sends
  <2>4. eresp' \in [Requests -> [active : BOOLEAN, attempted : BOOLEAN]]
    BY <1>0, <2>2, <2>3, CurIsRequest, ErespTypes
  <2>5. PICK m \in {"send", "sendAndClose"} : Calls(a, m, SendsTo(a))
    BY <1>2 DEF ErrorHandlerSends
  <2>6. m \in Modes /\ SendsTo(a) \in {"enter", "sent"}
    BY SendTarget DEF Modes
  <2>7. UNCHANGED <<config, loopVars, resp, next, closed, wire, doneClosed>>
    BY <1>2 DEF ErrorHandlerSends
  <2> QED
    BY <2>1, <2>2, <2>4, <2>5, <2>6, <2>7, QuietCalls DEF LoopCalls
<1>3. CASE ErrorHandlerCallsNext(a)
  <2>1. pc \in {"errorHandler", "expireResponse", "expireNext"} /\ (a = Loop => pc = "errorHandler")
    BY <1>3 DEF ErrorHandlerCallsNext
  <2>2. Of(a) = cur /\ cur # 0
    BY <1>3, <2>1, HelpersAreNotLoop DEF ErrorHandlerCallsNext, PlaceInv, Of
  <2>3. next' = [next EXCEPT ![cur].called = TRUE]
    BY <1>3 DEF ErrorHandlerCallsNext
  <2>4. next' \in [Requests -> [active : BOOLEAN, called : BOOLEAN, complete : BOOLEAN]]
    BY <1>0, <2>2, <2>3, CurIsRequest, NextTypes
  <2>5. "default" \in Modes
    BY DEF Modes
  <2> QED
    BY <1>3, <2>1, <2>2, <2>4, <2>5, QuietCalls DEF ErrorHandlerCallsNext, LoopCalls
<1> QED
  BY <1>1, <1>2, <1>3

--------------------------------------------------------------------------------
(* What the steps write into the responses. *)

\* A response in which only the fields named are written.
LEMMA RespKept ==
  ASSUME OtherTypes, NEW r \in Requests, NEW x \in RespTypes, resp' = [resp EXCEPT ![r] = x]
  PROVE  /\ resp' \in [Requests -> RespTypes] /\ resp'[r] = x
         /\ \A q \in Requests : q # r => resp'[q] = resp[q]
BY DEF OtherTypes

\* The call that wins.
LEMMA AttemptedField ==
  ASSUME OtherTypes, NEW r \in Requests, resp' = [resp EXCEPT ![r].attempted = TRUE]
  PROVE  /\ resp' \in [Requests -> RespTypes]
         /\ \A q \in Requests : q # r => resp'[q] = resp[q]
         /\ resp'[r].attempted /\ resp'[r].complete = resp[r].complete
         /\ resp'[r].err = resp[r].err /\ resp'[r].released = resp[r].released
<1>1. resp \in [Requests -> RespTypes] /\ resp[r] \in RespTypes
  BY DEF OtherTypes
<1>2. PICK x : x = [resp[r] EXCEPT !.attempted = TRUE]
  OBVIOUS
<1>3. /\ x \in RespTypes /\ x.attempted /\ x.complete = resp[r].complete /\ x.err = resp[r].err
      /\ x.released = resp[r].released
  BY <1>1, <1>2 DEF RespTypes
<1>4. resp' = [resp EXCEPT ![r] = x]
  BY <1>1, <1>2
<1> QED
  BY <1>3, <1>4, RespKept

\* The call that completes.
LEMMA CompleteFields ==
  ASSUME OtherTypes, NEW r \in Requests, NEW e \in BOOLEAN,
         resp' = [resp EXCEPT ![r].complete = TRUE, ![r].err = e]
  PROVE  /\ resp' \in [Requests -> RespTypes]
         /\ \A q \in Requests : q # r => resp'[q] = resp[q]
         /\ resp'[r].complete /\ resp'[r].attempted = resp[r].attempted
         /\ resp'[r].err = e /\ resp'[r].released = resp[r].released
<1>1. resp \in [Requests -> RespTypes] /\ resp[r] \in RespTypes
  BY DEF OtherTypes
<1>2. PICK x : x = [resp[r] EXCEPT !.complete = TRUE, !.err = e]
  OBVIOUS
<1>3. /\ x \in RespTypes /\ x.complete /\ x.attempted = resp[r].attempted /\ x.err = e
      /\ x.released = resp[r].released
  BY <1>1, <1>2 DEF RespTypes
<1>4. resp' = [resp EXCEPT ![r] = x]
  BY <1>1, <1>2
<1> QED
  BY <1>3, <1>4, RespKept

\* The handler's writer expires.
LEMMA InactiveField ==
  ASSUME OtherTypes, NEW r \in Requests, resp' = [resp EXCEPT ![r].active = FALSE]
  PROVE  /\ resp' \in [Requests -> RespTypes]
         /\ \A q \in Requests : q # r => resp'[q] = resp[q]
         /\ resp'[r].complete = resp[r].complete /\ resp'[r].attempted = resp[r].attempted
         /\ resp'[r].err = resp[r].err /\ resp'[r].released = resp[r].released
<1>1. resp \in [Requests -> RespTypes] /\ resp[r] \in RespTypes
  BY DEF OtherTypes
<1>2. PICK x : x = [resp[r] EXCEPT !.active = FALSE]
  OBVIOUS
<1>3. /\ x \in RespTypes /\ x.complete = resp[r].complete /\ x.attempted = resp[r].attempted
      /\ x.err = resp[r].err /\ x.released = resp[r].released
  BY <1>1, <1>2 DEF RespTypes
<1>4. resp' = [resp EXCEPT ![r] = x]
  BY <1>1, <1>2
<1> QED
  BY <1>3, <1>4, RespKept

LEMMA ReleaseFields ==
  ASSUME OtherTypes, NEW r \in Requests, Release(r)
  PROVE  /\ resp' \in [Requests -> RespTypes]
         /\ \A q \in Requests : q # r => resp'[q] = resp[q]
         /\ resp'[r].complete = resp[r].complete /\ resp'[r].attempted = resp[r].attempted
         /\ resp'[r].err = resp[r].err /\ resp'[r].released
<1>1. resp \in [Requests -> RespTypes] /\ resp[r] \in RespTypes
  BY DEF OtherTypes
<1>2. PICK x : x = [resp[r] EXCEPT !.active = FALSE, !.released = TRUE]
  OBVIOUS
<1>3. /\ x \in RespTypes /\ x.complete = resp[r].complete /\ x.attempted = resp[r].attempted
      /\ x.err = resp[r].err /\ x.released
  BY <1>1, <1>2 DEF RespTypes
<1>4. resp' = [resp EXCEPT ![r] = x]
  BY <1>1, <1>2 DEF Release
<1> QED
  BY <1>3, <1>4, RespKept

\* A response nobody took is complete without a reply.
LEMMA EndFields ==
  ASSUME OtherTypes, NEW r \in Requests, EndResponse(r)
  PROVE  /\ resp' \in [Requests -> RespTypes] /\ doneClosed' \in [Requests -> Nat]
         /\ \A q \in Requests : q # r => resp'[q] = resp[q] /\ doneClosed'[q] = doneClosed[q]
         /\ resp'[r].complete <=> resp[r].complete \/ ~Taken(r)
         /\ resp'[r].attempted = resp[r].attempted
         /\ resp'[r].err = resp[r].err /\ resp'[r].released
         /\ doneClosed'[r] = IF Taken(r) THEN doneClosed[r] ELSE doneClosed[r] + 1
<1>1. resp \in [Requests -> RespTypes] /\ resp[r] \in RespTypes /\ doneClosed \in [Requests -> Nat]
  BY DEF OtherTypes
<1>2. PICK c \in BOOLEAN : c <=> (resp[r].complete \/ ~Taken(r))
  BY Zenon
<1>3. PICK x : x = [resp[r] EXCEPT !.complete = c, !.active = FALSE, !.released = TRUE]
  OBVIOUS
<1>4. /\ x \in RespTypes /\ x.complete = c /\ x.attempted = resp[r].attempted
      /\ x.err = resp[r].err /\ x.released
  BY <1>1, <1>3 DEF RespTypes
<1>5. (resp[r].complete \/ CompletesWithoutResponse(r)) = c
  BY <1>1, <1>2, Zenon DEF CompletesWithoutResponse
<1>6. resp' = [resp EXCEPT ![r] = x]
  BY <1>1, <1>3, <1>5 DEF EndResponse
<1>7. doneClosed' = [doneClosed EXCEPT ![r] = IF Taken(r) THEN @ ELSE @ + 1]
  BY DEF EndResponse, CompletesWithoutResponse
<1>8. doneClosed' \in [Requests -> Nat]
  BY <1>1, <1>7
<1>9. /\ resp' \in [Requests -> RespTypes] /\ resp'[r] = x
      /\ \A q \in Requests : q # r => resp'[q] = resp[q]
  BY <1>4, <1>6, RespKept
<1> QED
  BY <1>1, <1>2, <1>4, <1>7, <1>8, <1>9

--------------------------------------------------------------------------------
(* The calls that answer: their types and places. *)

\* What the four steps of an answer have in common.
LEMMA AnswerGoes ==
  ASSUME TypeOK, PlaceInv, NEW a \in Actors, NEW from, NEW to \in Places \ {"off"}, Goes(a, from, to),
         at[a] \in {"enter", "write", "written", "failed"},
         to \in {"write", "written", "failed"} \/ to = Replied(a),
         UNCHANGED <<config, loopVars, closed>>, OtherTypes'
  PROVE  at' = [at EXCEPT ![a] = to] /\ TypeOK' /\ PlaceInv'
<1>1. a = Loop /\ pc \in {"unhandled", "answer"} => to \in {"idle", "write", "written", "failed"}
  BY DEF Replied, PlaceInv
<1>2. /\ at' = [at EXCEPT ![a] = to] /\ at' \in [Actors -> Places] /\ mode' \in [Actors -> Modes]
      /\ PlaceInv'
  BY <1>1, GoesPlaces DEF loopVars
<1>3. ConfigTypes' /\ LoopTypes' /\ ActorTypes'
  BY <1>2, TypeParts DEF ConfigTypes, LoopTypes, ActorTypes, config, loopVars
<1>4. TypeOK' <=> ConfigTypes' /\ LoopTypes' /\ OtherTypes' /\ ActorTypes'
  BY DEF TypeOK, ConfigTypes, LoopTypes, OtherTypes, ActorTypes, RespTypes
<1> QED
  BY <1>2, <1>3, <1>4

LEMMA WinsStep ==
  ASSUME TypeOK, PlaceInv, NEW a \in Actors, RespondWins(a)
  PROVE  /\ TypeOK' /\ PlaceInv'
         /\ \E p \in {"write", "written"} :
              /\ at' = [at EXCEPT ![a] = p]
              /\ p = "write" <=> want[Of(a)] /\ ~resp[Of(a)].released
<1>0. OtherTypes /\ Of(a) \in Requests /\ at[a] = "enter"
  BY TypeParts, BusyRequest DEF RespondWins
<1>1. PICK p \in {"write", "written"} :
        Goes(a, {"enter"}, p) /\ (p = "write" <=> want[Of(a)] /\ ~resp[Of(a)].released)
  BY DEF RespondWins
<1>2. OtherTypes'
  <2>1. resp' \in [Requests -> RespTypes]
    BY <1>0, AttemptedField DEF RespondWins
  <2> QED
    BY <1>0, <2>1 DEF OtherTypes, RespondWins
<1>3. p \in Places \ {"off"}
  BY DEF Places
<1>4. at' = [at EXCEPT ![a] = p] /\ TypeOK' /\ PlaceInv'
  BY <1>0, <1>1, <1>2, <1>3, AnswerGoes DEF RespondWins
<1> QED
  BY <1>1, <1>4

LEMMA WrittenStep ==
  ASSUME TypeOK, PlaceInv, NEW a \in Actors, ReplyWritten(a)
  PROVE  TypeOK' /\ PlaceInv' /\ at' = [at EXCEPT ![a] = "written"]
<1>0. OtherTypes /\ at[a] = "write"
  BY TypeParts DEF ReplyWritten, Goes
<1>1. Of(a) \in Requests
  BY <1>0, BusyRequest
<1>2. OtherTypes'
  <2>1. wire' \in Seq(Requests)
    BY <1>0, <1>1 DEF ReplyWritten, OtherTypes
  <2> QED
    BY <1>0, <2>1 DEF OtherTypes, ReplyWritten
<1>3. "written" \in Places \ {"off"}
  BY DEF Places
<1> QED
  BY <1>0, <1>2, <1>3, AnswerGoes DEF ReplyWritten

LEMMA FailsStep ==
  ASSUME TypeOK, PlaceInv, NEW a \in Actors, ReplyFails(a)
  PROVE  TypeOK' /\ PlaceInv' /\ at' = [at EXCEPT ![a] = "failed"]
<1>0. OtherTypes /\ at[a] = "write"
  BY TypeParts DEF ReplyFails, Goes
<1>2. OtherTypes'
  BY <1>0 DEF OtherTypes, ReplyFails
<1>3. "failed" \in Places \ {"off"}
  BY DEF Places
<1> QED
  BY <1>0, <1>2, <1>3, AnswerGoes DEF ReplyFails

LEMMA CompletesStep ==
  ASSUME TypeOK, PlaceInv, NEW a \in Actors, RespondCompletes(a)
  PROVE  /\ TypeOK' /\ PlaceInv' /\ at[a] \in {"written", "failed"}
         /\ \E p \in {"sent", "idle"} : at' = [at EXCEPT ![a] = p]
         /\ pc \in {"unhandled", "answer"} =>
              outcome' = IF a # Loop THEN outcome ELSE IF at[a] = "failed" THEN "failed" ELSE "nil"
<1>0. OtherTypes /\ at[a] \in {"written", "failed"}
  BY TypeParts DEF RespondCompletes, Goes
<1>1. Of(a) \in Requests
  BY <1>0, BusyRequest
<1>2. OtherTypes'
  <2>1. resp' \in [Requests -> RespTypes]
    BY <1>0, <1>1, CompleteFields DEF RespondCompletes
  <2>2. doneClosed' \in [Requests -> Nat]
    BY <1>0, <1>1 DEF OtherTypes, RespondCompletes
  <2>3. outcome' \in {"nil", "refused", "failed"}
    BY <1>0 DEF OtherTypes, RespondCompletes, EndsWith
  <2> QED
    BY <1>0, <2>1, <2>2, <2>3 DEF OtherTypes, RespondCompletes
<1>3. Replied(a) \in Places \ {"off"} /\ Replied(a) \in {"sent", "idle"}
  BY DEF Places, Replied
<1>4. at' = [at EXCEPT ![a] = Replied(a)] /\ TypeOK' /\ PlaceInv'
  BY <1>0, <1>2, <1>3, AnswerGoes DEF RespondCompletes
<1>5. ASSUME pc \in {"unhandled", "answer"}
      PROVE  outcome' = IF a # Loop THEN outcome ELSE IF at[a] = "failed" THEN "failed" ELSE "nil"
  <2>1. a = Loop => mode[a] = "own"
    BY <1>0, <1>5 DEF PlaceInv
  <2> QED
    BY <2>1 DEF RespondCompletes, EndsWith
<1> QED
  BY <1>0, <1>3, <1>4, <1>5

--------------------------------------------------------------------------------
(* The loop's own steps: their types and places. *)

\* Steps in which the loop rests, and does not begin a call.
LEMMA RestingPlaces ==
  ASSUME TypeOK, PlaceInv, UNCHANGED <<at, mode>>, Resting, cur' \in {cur, cur + 1}, pc' \in PCs,
         cur' = 0 => pc' \in {"next", "over"}
  PROVE  PlaceInv'
<1>1. at' = at /\ at[Loop] = "idle" /\ cur \in Nat
  BY DEF Resting, TypeOK
<1>2. ASSUME NEW b \in Actors, at'[b] \notin {"off", "idle"} PROVE Of(b)' \in 1..cur'
  <2>1. b # Loop /\ Of(b)' = Of(b) /\ Of(b) \in 1..cur
    BY <1>1, <1>2 DEF Of, PlaceInv
  <2> QED
    BY <1>1, <2>1
<1> QED
  BY <1>1, <1>2 DEF PlaceInv

LEMMA LoopRests ==
  ASSUME PlaceInv, pc \notin LoopCalls
  PROVE  Resting
BY DEF PlaceInv, Resting

\* TypeOK, its parts primed.
LEMMA TypePartsNext == TypeOK' <=> ConfigTypes' /\ LoopTypes' /\ OtherTypes' /\ ActorTypes'
BY DEF TypeOK, ConfigTypes, LoopTypes, OtherTypes, ActorTypes, RespTypes

\* The loop goes on at rest.
LEMMA RestingStep ==
  ASSUME TypeOK, PlaceInv, UNCHANGED <<config, actorVars>>, Resting, cur' \in {cur, cur + 1},
         LoopTypes', cur' = 0 => pc' \in {"next", "over"},
         resp' = resp \/ resp' \in [Requests -> RespTypes],
         eresp' = eresp \/ eresp' \in [Requests -> [active : BOOLEAN, attempted : BOOLEAN]],
         next' = next \/ next' \in [Requests -> [active : BOOLEAN, called : BOOLEAN, complete : BOOLEAN]],
         closed' = closed \/ closed' \in BOOLEAN, wire' = wire,
         doneClosed' = doneClosed \/ doneClosed' \in [Requests -> Nat]
  PROVE  TypeOK' /\ PlaceInv'
<1>1. ConfigTypes' /\ ActorTypes'
  BY TypeParts DEF ConfigTypes, ActorTypes, config, actorVars
<1>2. OtherTypes'
  <2>1. OtherTypes
    BY TypeParts
  <2> QED
    BY <2>1 DEF OtherTypes, actorVars
<1>3. PlaceInv'
  BY RestingPlaces DEF LoopTypes, actorVars
<1> QED
  BY <1>1, <1>2, <1>3, TypePartsNext

LEMMA TakeStep ==
  ASSUME TypeOK, PlaceInv, TakeRequest \/ LoopEnds
  PROVE  TypeOK' /\ PlaceInv'
<1>1. Resting
  BY LoopRests DEF TakeRequest, LoopEnds, LoopCalls
<1>2. LoopTypes' /\ cur' \in {cur, cur + 1} /\ (cur' = 0 => pc' \in {"next", "over"})
  BY TypeParts, NAssumption DEF TakeRequest, LoopEnds, LoopTypes, PCs
<1> QED
  BY <1>1, <1>2, RestingStep DEF TakeRequest, LoopEnds

LEMMA TakeUnhandledStep ==
  ASSUME TypeOK, PlaceInv, TakeUnhandled
  PROVE  /\ TypeOK' /\ PlaceInv' /\ Resting
         /\ at' = [at EXCEPT ![Loop] = "enter"]
<1>1. /\ pc = "next" /\ pc' = "unhandled" /\ cur' = cur + 1 /\ cur < N /\ at[Loop] = "idle" /\ outcome' = "nil"
      /\ at' = [at EXCEPT ![Loop] = "enter"] /\ mode' = [mode EXCEPT ![Loop] = "own"]
  BY DEF TakeUnhandled, Calls
<1>2. at \in [Actors -> Places] /\ mode \in [Actors -> Modes] /\ cur \in Nat /\ Loop \in Actors
  BY LoopActs DEF TypeOK
<1>3. at' \in [Actors -> Places] /\ mode' \in [Actors -> Modes]
  BY <1>1, <1>2 DEF Places, Modes
<1>4. ConfigTypes' /\ LoopTypes' /\ OtherTypes' /\ ActorTypes'
  <2>1. LoopTypes'
    BY TypeParts, NAssumption DEF TakeUnhandled, LoopTypes, PCs
  <2>2. OtherTypes'
    BY <1>1, TypeParts DEF TakeUnhandled, OtherTypes
  <2> QED
    BY <1>3, <2>1, <2>2, TypeParts DEF TakeUnhandled, ConfigTypes, ActorTypes, config
<1>5. \A b \in Actors : at'[b] \notin {"off", "idle"} => Of(b)' \in 1..cur'
  <2> TAKE b \in Actors
  <2>1. CASE b = Loop
    <3>1. Of(b)' = cur'
      BY <2>1 DEF Of
    <3> QED
      BY <1>1, <1>2, <3>1
  <2>2. CASE b # Loop
    <3>1. Of(b)' = Of(b) /\ at'[b] = at[b]
      BY <1>1, <1>2, <2>2 DEF Of
    <3>2. at[b] \notin {"off", "idle"} => Of(b) \in 1..cur
      BY DEF PlaceInv
    <3> QED
      BY <1>1, <1>2, <3>1, <3>2
  <2> QED
    BY <2>1, <2>2
<1>6. PlaceInv'
  BY <1>1, <1>2, <1>5 DEF PlaceInv, LoopCalls
<1> QED
  BY <1>1, <1>4, <1>6, TypePartsNext DEF Resting

\* The loop begins a call where it is at, or ends its default action.
LEMMA DefaultSteps ==
  ASSUME TypeOK, PlaceInv, DefaultRuns \/ DefaultRan
  PROVE  /\ TypeOK' /\ PlaceInv' /\ UNCHANGED <<replyVars, cur, closed>>
         /\ ~Busy(Loop) /\ pc = "default" /\ pc' \in {"default", "escalate", "settle"}
         /\ \E p \in {"default", "idle"} : at' = [at EXCEPT ![Loop] = p]
<1>0. pc = "default" /\ cur # 0
  BY DEF DefaultRuns, DefaultRan, PlaceInv
<1>1. CASE DefaultRuns
  <2>1. Calls(Loop, "default", "default") /\ "default" \in Modes
    BY <1>1 DEF DefaultRuns, Modes
  <2>2. TypeOK' /\ PlaceInv' /\ QuietCall(Loop)
    BY <1>0, <1>1, <2>1, LoopActs, QuietCalls DEF DefaultRuns, LoopCalls
  <2> QED
    BY <1>0, <1>1, <2>1, <2>2 DEF DefaultRuns, QuietCall, Calls, replyVars
<1>2. CASE DefaultRan
  <2>1. /\ at[Loop] = "defaultDone" /\ at' = [at EXCEPT ![Loop] = "idle"]
        /\ mode' = [mode EXCEPT ![Loop] = "none"]
    BY <1>2 DEF DefaultRan, Goes
  <2>2. at \in [Actors -> Places] /\ mode \in [Actors -> Modes] /\ Loop \in Actors
    BY LoopActs DEF TypeOK
  <2>3. at' \in [Actors -> Places] /\ mode' \in [Actors -> Modes]
    BY <2>1, <2>2 DEF Places, Modes
  <2>4. eresp' \in [Requests -> [active : BOOLEAN, attempted : BOOLEAN]]
    BY <1>0, <1>2, TypeParts, CurIsRequest, ErespTypes DEF DefaultRan
  <2>5. pc' \in {"escalate", "settle"}
    BY <1>2 DEF DefaultRan
  <2>6. ConfigTypes' /\ LoopTypes' /\ OtherTypes' /\ ActorTypes'
    BY <1>2, <2>3, <2>4, <2>5, TypeParts DEF DefaultRan, ConfigTypes, LoopTypes, OtherTypes, ActorTypes, config, PCs
  <2>7. \A b \in Actors : at'[b] \notin {"off", "idle"} => Of(b)' \in 1..cur'
    BY <1>2, <2>1, <2>2 DEF PlaceInv, Of, DefaultRan
  <2>8. PlaceInv'
    BY <1>0, <1>2, <2>1, <2>2, <2>5, <2>7 DEF PlaceInv, DefaultRan
  <2>9. ~Busy(Loop)
    BY <2>1 DEF Busy
  <2> QED
    BY <1>0, <1>2, <2>1, <2>5, <2>6, <2>8, <2>9, TypePartsNext DEF DefaultRan, replyVars, config
<1> QED
  BY <1>1, <1>2

LEMMA RejectsStep ==
  ASSUME TypeOK, PlaceInv, SettleRejects
  PROVE  /\ TypeOK' /\ PlaceInv' /\ Resting
         /\ at' = [at EXCEPT ![Loop] = "enter"]
<1>1. /\ pc = "settle" /\ pc' = "answer" /\ cur' = cur /\ at[Loop] = "idle" /\ outcome' = "nil"
      /\ at' = [at EXCEPT ![Loop] = "enter"] /\ mode' = [mode EXCEPT ![Loop] = "own"]
  BY DEF SettleRejects, Calls
<1>2. /\ at \in [Actors -> Places] /\ mode \in [Actors -> Modes] /\ Loop \in Actors
      /\ cur \in 1..cur /\ cur # 0
  BY <1>1, LoopActs, CurIsRequest DEF TypeOK, PlaceInv
<1>3. at' \in [Actors -> Places] /\ mode' \in [Actors -> Modes]
  BY <1>1, <1>2 DEF Places, Modes
<1>4. ConfigTypes' /\ LoopTypes' /\ OtherTypes' /\ ActorTypes'
  BY <1>1, <1>3, TypeParts DEF SettleRejects, ConfigTypes, LoopTypes, OtherTypes, ActorTypes, config, PCs
<1>5. \A b \in Actors : at'[b] \notin {"off", "idle"} => Of(b)' \in 1..cur'
  BY <1>1, <1>2 DEF PlaceInv, Of
<1>6. PlaceInv'
  BY <1>1, <1>2, <1>5 DEF PlaceInv, LoopCalls
<1> QED
  BY <1>1, <1>4, <1>6, TypePartsNext DEF Resting

\* The handlers return, what they were given expires.
LEMMA HandlerStep ==
  ASSUME TypeOK, PlaceInv, HandlerReturns
  PROVE  /\ TypeOK' /\ PlaceInv' /\ Resting /\ cur # 0
         /\ pc = "handling" /\ pc' \in {"settle", "errorHandler", "default"}
         /\ resp' = [resp EXCEPT ![cur].active = FALSE]
         /\ UNCHANGED <<want, cur, at, outcome, closed, wire, doneClosed>>
<1>1. pc = "handling" /\ Resting /\ UNCHANGED <<config, cur, verdict, actorVars, closed, wire, doneClosed>>
  BY DEF HandlerReturns
<1>2. cur \in Requests /\ OtherTypes /\ cur # 0
  BY <1>1, CurIsRequest, TypeParts DEF PlaceInv
<1>3. PICK e \in {"nil", "error", "reply"} : HandlerReturnsWith(e)
  BY DEF HandlerReturns
<1>4. PICK failed \in BOOLEAN : failed <=> e # "nil" \/ (~resp[cur].attempted /\ want[cur])
  BY Zenon
<1>5. /\ handlerErr' = IF failed /\ e = "nil" THEN "error" ELSE e
      /\ resp' = [resp EXCEPT ![cur].active = FALSE]
      /\ pc' = IF ~failed THEN "settle" ELSE IF errorHandler THEN "errorHandler" ELSE "default"
  BY <1>3, <1>4 DEF HandlerReturnsWith
<1>6. eresp' = [eresp EXCEPT ![cur].active = failed]
  <2>1. (e # "nil" \/ (~resp[cur].attempted /\ want[cur])) = failed
    BY <1>4, Zenon
  <2> QED
    BY <1>3, <2>1 DEF HandlerReturnsWith
<1>7. PICK b \in BOOLEAN : next' = [next EXCEPT ![cur].active = b]
  <2>1. (failed /\ errorHandler) \in BOOLEAN
    BY Zenon
  <2>2. (e # "nil" \/ (~resp[cur].attempted /\ want[cur])) = failed
    BY <1>4, Zenon
  <2>3. next' = [next EXCEPT ![cur].active = failed /\ errorHandler]
    BY <1>3, <2>2 DEF HandlerReturnsWith
  <2> QED
    BY <2>1, <2>3
<1>8. /\ eresp' \in [Requests -> [active : BOOLEAN, attempted : BOOLEAN]]
      /\ next' \in [Requests -> [active : BOOLEAN, called : BOOLEAN, complete : BOOLEAN]]
  BY <1>2, <1>6, <1>7, ErespTypes, NextTypes
<1>9. resp' \in [Requests -> RespTypes]
  BY <1>2, <1>5, InactiveField
<1>10. pc' \in {"settle", "errorHandler", "default"} /\ handlerErr' \in {"nil", "error", "reply"}
  BY <1>5
<1>11. LoopTypes'
  BY <1>1, <1>10, TypeParts DEF LoopTypes, PCs
<1>12. TypeOK' /\ PlaceInv'
  BY <1>1, <1>2, <1>8, <1>9, <1>11, RestingStep
<1> QED
  BY <1>1, <1>2, <1>5, <1>10, <1>12 DEF config, actorVars

\* dispatchError goes on.
LEMMA DispatchSteps ==
  ASSUME TypeOK, PlaceInv, ErrorHandlerReturns \/ ErrorResponseExpires \/ NextExpires
  PROVE  /\ TypeOK' /\ PlaceInv' /\ Resting /\ UNCHANGED <<replyVars, at, outcome, cur, closed>>
         /\ pc \in {"errorHandler", "expireResponse", "expireNext"}
         /\ pc' \in {"expireResponse", "expireNext", "escalate", "settle"}
<1>0. cur \in Requests /\ OtherTypes /\ cur # 0
  BY CurIsRequest, TypeParts DEF PlaceInv, ErrorHandlerReturns, ErrorResponseExpires, NextExpires
<1>1. CASE ErrorHandlerReturns
  <2>1. LoopTypes'
    BY <1>1, TypeParts DEF ErrorHandlerReturns, LoopTypes, PCs
  <2> QED
    BY <1>0, <1>1, <2>1, RestingStep DEF ErrorHandlerReturns, replyVars, config, actorVars
<1>2. CASE ErrorResponseExpires
  <2>1. LoopTypes' /\ Resting
    BY <1>2, TypeParts, LoopRests DEF ErrorResponseExpires, LoopTypes, PCs, LoopCalls
  <2>2. eresp' \in [Requests -> [active : BOOLEAN, attempted : BOOLEAN]]
    BY <1>0, <1>2, ErespTypes DEF ErrorResponseExpires
  <2> QED
    BY <1>0, <1>2, <2>1, <2>2, RestingStep DEF ErrorResponseExpires, replyVars, config, actorVars
<1>3. CASE NextExpires
  <2>1. LoopTypes' /\ Resting /\ pc' \in {"escalate", "settle"}
    BY <1>3, TypeParts, LoopRests DEF NextExpires, LoopTypes, PCs, LoopCalls
  <2>2. next' \in [Requests -> [active : BOOLEAN, called : BOOLEAN, complete : BOOLEAN]]
    BY <1>0, <1>3, NextTypes DEF NextExpires
  <2> QED
    BY <1>0, <1>3, <2>1, <2>2, RestingStep DEF NextExpires, replyVars, config, actorVars
<1> QED
  BY <1>1, <1>2, <1>3

\* The end of a request.
EndSteps ==
  \/ UnhandledReplied \/ Escalate \/ SettleFails \/ RejectDone \/ SettleWithout \/ SettleAnswered
  \/ Finish \/ HandleRequestReplyError

LEMMA EndStep ==
  ASSUME TypeOK, PlaceInv, EndSteps
  PROVE  /\ TypeOK' /\ PlaceInv' /\ Resting /\ UNCHANGED <<want, at, outcome, wire, cur>>
         /\ cur # 0 => cur \in Requests
<1>0. OtherTypes /\ LoopTypes /\ (cur # 0 => cur \in Requests)
  BY TypeParts, CurIsRequest
<1>1. Resting
  BY LoopRests DEF EndSteps, UnhandledReplied, Escalate, SettleFails, RejectDone, SettleWithout, SettleAnswered, Finish, HandleRequestReplyError, LoopCalls
<1>2. LoopTypes' /\ cur' = cur /\ cur # 0 /\ UNCHANGED <<config, actorVars, wire, eresp, next>>
  BY <1>0 DEF EndSteps, UnhandledReplied, Escalate, SettleFails, RejectDone, SettleWithout, SettleAnswered, Finish, HandleRequestReplyError, LoopTypes, PCs, PlaceInv
<1>3. closed' \in BOOLEAN
  BY <1>0 DEF EndSteps, UnhandledReplied, Escalate, SettleFails, RejectDone, SettleWithout, SettleAnswered, Finish, HandleRequestReplyError, OtherTypes
<1>4. resp' = resp \/ Release(cur) \/ EndResponse(cur)
  BY DEF EndSteps, UnhandledReplied, Escalate, SettleFails, RejectDone, SettleWithout, SettleAnswered, Finish, HandleRequestReplyError
<1>5. doneClosed' = doneClosed \/ EndResponse(cur)
  BY DEF EndSteps, UnhandledReplied, Escalate, SettleFails, RejectDone, SettleWithout, SettleAnswered, Finish, HandleRequestReplyError
<1>6. resp' = resp \/ resp' \in [Requests -> RespTypes]
  BY <1>0, <1>2, <1>4, ReleaseFields, EndFields
<1>7. doneClosed' = doneClosed \/ doneClosed' \in [Requests -> Nat]
  BY <1>0, <1>2, <1>5, EndFields
<1>8. TypeOK' /\ PlaceInv'
  BY <1>0, <1>1, <1>2, <1>3, <1>6, <1>7, RestingStep
<1> QED
  BY <1>0, <1>1, <1>2, <1>8 DEF config, actorVars

LEMMA OtherStep ==
  ASSUME TypeOK, PlaceInv, ConnectionCloses \/ UNCHANGED vars
  PROVE  TypeOK' /\ PlaceInv' /\ UNCHANGED <<replyVars, at, outcome, cur, pc>> /\ (closed => closed')
<1>1. UNCHANGED <<config, loopVars, resp, eresp, next, actorVars, wire, doneClosed>> /\ (closed' = closed \/ closed' = TRUE)
  BY DEF ConnectionCloses, vars
<1>2. ActorTypes' /\ PlaceInv'
  BY <1>1, TypeParts DEF ActorTypes, PlaceInv, Busy, Of, loopVars, actorVars
<1>3. TypeOK'
  BY <1>1, <1>2, QuietTypes DEF actorVars
<1> QED
  BY <1>1, <1>2, <1>3 DEF replyVars, config, loopVars, actorVars

--------------------------------------------------------------------------------
(* The inductive invariant. *)

\* A response is held by the one call that won it, from the attempt until it is
\* complete, and completing it closed done.
WinnerInv ==
  /\ \A a \in Actors : Busy(a) => resp[Of(a)].attempted /\ ~resp[Of(a)].complete
  /\ \A a, b \in Actors : Busy(a) /\ Busy(b) /\ Of(a) = Of(b) => a = b
  /\ \A r \in Requests : resp[r].attempted /\ ~resp[r].complete => \E a \in Actors : Busy(a) /\ Of(a) = r
  /\ \A r \in Requests : doneClosed[r] = IF resp[r].complete THEN 1 ELSE 0

\* What the loop may conclude from a reply of its own.
OwnReply ==
  pc \in {"unhandled", "answer"} /\ Resting =>
    Taken(cur) /\ (outcome = "nil" => resp[cur].attempted /\ resp[cur].complete /\ ~resp[cur].err)

\* Only the end of a request releases its response.
ReleasedLate ==
  \A r \in Requests : resp[r].released =>
    r < cur \/ (r = cur /\ pc \in {"next", "finish", "replyError", "over"})

\* Until then a response that succeeded is on the wire, if one is wanted.
SentOrReleased ==
  \A r \in Requests : want[r] /\ ~resp[r].released /\ r \notin Range(wire) =>
    /\ \A a \in Actors : at[a] = "written" => Of(a) # r
    /\ resp[r].attempted /\ resp[r].complete => resp[r].err

\* The loop goes on from a request that is complete and has its reply.
Answered ==
  \A r \in Requests : r < cur \/ (r = cur /\ pc \in {"next", "finish"}) =>
    resp[r].complete /\ (want[r] => r \in Range(wire))

\* It stops with the connection, at a request somebody took.
OverTaken ==
  /\ pc \in {"replyError", "over"} /\ cur > 0 => Taken(cur)
  /\ pc = "over" => closed

\* The replies rise, and none that is to be written is there yet.
WireInv ==
  /\ \A a \in Actors : at[a] = "write" => want[Of(a)]
  /\ \A i \in 1..Len(wire) : wire[i] <= cur /\ want[wire[i]] /\ resp[wire[i]].attempted
  /\ \A i \in 1..Len(wire) : \A a \in Actors : at[a] = "write" => Of(a) # wire[i]
  /\ \A i, j \in 1..Len(wire) : i < j => wire[i] < wire[j]

ReplyInv ==
  /\ TypeOK /\ PlaceInv /\ WinnerInv /\ OwnReply /\ ReleasedLate /\ SentOrReleased
  /\ Answered /\ OverTaken /\ WireInv

\* A step that leaves the calls at their responses, and takes no response; the loop
\* may complete one that nobody took.
SameHolds ==
  \A b \in Actors :
    /\ Busy(b)' <=> Busy(b)
    /\ at'[b] = "write" <=> at[b] = "write"
    /\ at'[b] = "written" <=> at[b] = "written"
    /\ Busy(b) => Of(b)' = Of(b)
Mild ==
  /\ SameHolds /\ UNCHANGED <<want, wire>> /\ cur' \in {cur, cur + 1}
  /\ \A r \in Requests :
       /\ resp'[r].attempted <=> resp[r].attempted
       /\ resp'[r].err <=> resp[r].err
       /\ resp[r].released => resp'[r].released
       /\ resp[r].complete => resp'[r].complete
       /\ resp'[r].complete => resp[r].complete \/ ~resp[r].attempted
       /\ doneClosed'[r] = IF resp'[r].complete /\ ~resp[r].complete THEN doneClosed[r] + 1 ELSE doneClosed[r]

LEMMA HoldsRequest ==
  ASSUME TypeOK, PlaceInv, NEW a \in Actors, Busy(a)
  PROVE  Of(a) \in Requests /\ Of(a) \in 1..cur
BY BusyRequest DEF Busy

LEMMA WireRequest ==
  ASSUME TypeOK, NEW i \in 1..Len(wire)
  PROVE  wire[i] \in Requests
BY DEF TypeOK

LEMMA MildKeeps ==
  ASSUME ReplyInv, Mild
  PROVE  WinnerInv' /\ SentOrReleased' /\ WireInv'
<1>0. /\ TypeOK /\ PlaceInv /\ WinnerInv /\ SentOrReleased /\ WireInv
      /\ want' = want /\ wire' = wire /\ cur \in Nat
  BY DEF ReplyInv, Mild, TypeOK
<1>1. \A a \in Actors : Busy(a)' => resp'[Of(a)'].attempted /\ ~resp'[Of(a)'].complete
  <2> SUFFICES ASSUME NEW a \in Actors, Busy(a)'
               PROVE  resp'[Of(a)'].attempted /\ ~resp'[Of(a)'].complete
    OBVIOUS
  <2>1. Busy(a) /\ Of(a)' = Of(a)
    BY DEF Mild, SameHolds
  <2>2. Of(a) \in Requests /\ resp[Of(a)].attempted /\ ~resp[Of(a)].complete
    BY <1>0, <2>1, HoldsRequest DEF WinnerInv
  <2> QED
    BY <2>1, <2>2 DEF Mild
<1>2. \A a, b \in Actors : Busy(a)' /\ Busy(b)' /\ Of(a)' = Of(b)' => a = b
  BY <1>0 DEF WinnerInv, Mild, SameHolds
<1>3. \A r \in Requests : resp'[r].attempted /\ ~resp'[r].complete => \E a \in Actors : Busy(a)' /\ Of(a)' = r
  <2> SUFFICES ASSUME NEW r \in Requests, resp'[r].attempted, ~resp'[r].complete
               PROVE  \E a \in Actors : Busy(a)' /\ Of(a)' = r
    OBVIOUS
  <2>1. resp[r].attempted /\ ~resp[r].complete
    BY DEF Mild
  <2>2. PICK a \in Actors : Busy(a) /\ Of(a) = r
    BY <1>0, <2>1 DEF WinnerInv
  <2> QED
    BY <2>2 DEF Mild, SameHolds
<1>4. \A r \in Requests : doneClosed'[r] = IF resp'[r].complete THEN 1 ELSE 0
  <2> TAKE r \in Requests
  <2>1. doneClosed[r] = IF resp[r].complete THEN 1 ELSE 0
    BY <1>0 DEF WinnerInv
  <2>2. resp[r].complete => resp'[r].complete
    BY DEF Mild
  <2>3. doneClosed'[r] = IF resp'[r].complete /\ ~resp[r].complete THEN doneClosed[r] + 1 ELSE doneClosed[r]
    BY DEF Mild
  <2> QED
    BY <2>1, <2>2, <2>3
<1>5. SentOrReleased'
  <2> SUFFICES ASSUME NEW r \in Requests, want[r], ~resp'[r].released, r \notin Range(wire)
               PROVE  /\ \A a \in Actors : at'[a] = "written" => Of(a)' # r
                      /\ resp'[r].attempted /\ resp'[r].complete => resp'[r].err
    BY <1>0 DEF SentOrReleased
  <2>1. /\ \A a \in Actors : at[a] = "written" => Of(a) # r
        /\ resp[r].attempted /\ resp[r].complete => resp[r].err
    <3>1. ~resp[r].released
      BY DEF Mild
    <3> QED
      BY <1>0, <3>1 DEF SentOrReleased
  <2>2. \A a \in Actors : at'[a] = "written" => at[a] = "written" /\ Busy(a) /\ Of(a)' = Of(a)
    BY DEF Mild, SameHolds, Busy
  <2>3. resp'[r].attempted /\ resp'[r].complete => resp'[r].err
    BY <2>1 DEF Mild
  <2> QED
    BY <2>1, <2>2, <2>3
<1>6. WireInv'
  <2>1. \A a \in Actors : at'[a] = "write" => at[a] = "write" /\ Of(a)' = Of(a)
    BY DEF Mild, SameHolds, Busy
  <2>2. \A a \in Actors : at'[a] = "write" => want'[Of(a)']
    BY <1>0, <2>1 DEF WireInv
  <2>3. ASSUME NEW i \in 1..Len(wire)
        PROVE  wire[i] <= cur' /\ want[wire[i]] /\ resp'[wire[i]].attempted
    <3>1. wire[i] <= cur /\ want[wire[i]] /\ resp[wire[i]].attempted /\ wire[i] \in Requests
      BY <1>0, WireRequest DEF WireInv
    <3>2. resp'[wire[i]].attempted
      BY <3>1 DEF Mild
    <3>3. cur' = cur \/ cur' = cur + 1
      BY DEF Mild
    <3>4. wire[i] <= cur'
      BY <1>0, <3>1, <3>3 DEF Requests
    <3> QED
      BY <3>1, <3>2, <3>4
  <2>4. \A i \in 1..Len(wire) : \A a \in Actors : at'[a] = "write" => Of(a)' # wire[i]
    BY <1>0, <2>1 DEF WireInv
  <2> QED
    BY <1>0, <2>2, <2>3, <2>4 DEF WireInv
<1> QED
  BY <1>1, <1>2, <1>3, <1>4, <1>5, <1>6 DEF WinnerInv

--------------------------------------------------------------------------------
(* Steps that take no response. *)

\* The step of an actor that holds none, before and after.
LEMMA QuietSame ==
  ASSUME TypeOK, NEW a \in Actors, NEW p \in Places \ {"write", "written", "failed"},
         ~Busy(a), at' = [at EXCEPT ![a] = p], a = Loop \/ cur' = cur, at[Loop] # "idle" => cur' = cur
  PROVE  SameHolds
<1>1. at \in [Actors -> Places]
  BY DEF TypeOK
<1>2. at'[a] = p /\ \A b \in Actors : b # a => at'[b] = at[b]
  BY <1>1
<1>3. \A b \in Actors : Busy(b)' <=> Busy(b)
  BY <1>2 DEF Busy
<1>4. \A b \in Actors : (at'[b] = "write" <=> at[b] = "write") /\ (at'[b] = "written" <=> at[b] = "written")
  BY <1>2 DEF Busy
<1>5. \A b \in Actors : Busy(b) => Of(b)' = Of(b)
  BY DEF Busy, Of
<1> QED
  BY <1>3, <1>4, <1>5 DEF SameHolds

\* A step of the loop at rest.
LEMMA RestingSame ==
  ASSUME Resting, at' = at
  PROVE  SameHolds
BY DEF SameHolds, Resting, Busy, Of

\* A step that leaves the responses as they are.
LEMMA FrameMild ==
  ASSUME SameHolds, UNCHANGED <<want, wire, resp, doneClosed>>, cur' \in {cur, cur + 1}
  PROVE  Mild
BY DEF Mild

LEMMA FrameKeeps ==
  ASSUME ReplyInv, UNCHANGED replyVars, UNCHANGED <<cur, pc>>, closed => closed'
  PROVE  ReleasedLate' /\ Answered' /\ OverTaken'
BY DEF ReplyInv, ReleasedLate, Answered, OverTaken, Taken, replyVars

LEMMA QuietKeeps ==
  ASSUME ReplyInv, NEW a \in Actors, QuietCall(a), TypeOK', PlaceInv'
  PROVE  ReplyInv'
<1>1. TypeOK /\ PlaceInv /\ UNCHANGED <<want, wire, resp, doneClosed, cur, pc>>
  BY DEF ReplyInv, QuietCall, replyVars
<1>2. PICK p \in Places \ {"off", "write", "written", "failed"} : at' = [at EXCEPT ![a] = p]
  BY DEF QuietCall
<1>3. SameHolds
  BY <1>1, <1>2, QuietSame DEF QuietCall
<1>4. WinnerInv' /\ SentOrReleased' /\ WireInv'
  BY <1>1, <1>3, FrameMild, MildKeeps
<1>5. ReleasedLate' /\ Answered' /\ OverTaken'
  BY <1>1, FrameKeeps DEF QuietCall, replyVars
<1>6. OwnReply'
  <2> SUFFICES ASSUME pc \in {"unhandled", "answer"}, at'[Loop] = "idle"
               PROVE  Taken(cur) /\ (outcome' = "nil" => resp[cur].attempted /\ resp[cur].complete /\ ~resp[cur].err)
    BY <1>1 DEF OwnReply, Resting, Taken
  <2>1. CASE a = Loop
    BY <2>1 DEF QuietCall
  <2>2. CASE a # Loop
    <3>1. at[Loop] = "idle" /\ outcome' = outcome
      BY <1>1, <1>2, <2>2, LoopActs DEF QuietCall, TypeOK
    <3> QED
      BY <3>1 DEF ReplyInv, OwnReply, Resting
  <2> QED
    BY <2>1, <2>2
<1> QED
  BY <1>4, <1>5, <1>6 DEF ReplyInv

LEMMA OtherKeeps ==
  ASSUME ReplyInv, ConnectionCloses \/ UNCHANGED vars
  PROVE  ReplyInv'
<1>1. TypeOK /\ PlaceInv
  BY DEF ReplyInv
<1>2. TypeOK' /\ PlaceInv' /\ UNCHANGED <<want, wire, resp, doneClosed, at, outcome, cur, pc>> /\ (closed => closed')
  BY <1>1, OtherStep DEF replyVars
<1>3. SameHolds
  BY <1>2 DEF SameHolds, Busy, Of
<1>4. WinnerInv' /\ SentOrReleased' /\ WireInv'
  BY <1>2, <1>3, FrameMild, MildKeeps
<1>5. ReleasedLate' /\ Answered' /\ OverTaken'
  BY <1>2, FrameKeeps DEF replyVars
<1>6. OwnReply'
  BY <1>2 DEF ReplyInv, OwnReply, Resting, Taken
<1> QED
  BY <1>2, <1>4, <1>5, <1>6 DEF ReplyInv

\* The loop takes a request or ends: it leaves the one it was at behind, answered.
LEMMA TakeKeeps ==
  ASSUME ReplyInv, TakeRequest \/ TakeUnhandled \/ LoopEnds
  PROVE  ReplyInv'
<1>1. TypeOK /\ PlaceInv /\ Answered /\ ReleasedLate /\ cur \in Nat /\ pc = "next"
  BY DEF ReplyInv, TypeOK, TakeRequest, TakeUnhandled, LoopEnds
<1>2. TypeOK' /\ PlaceInv' /\ Resting
  BY <1>1, TakeStep, TakeUnhandledStep, LoopRests DEF TakeRequest, LoopEnds, LoopCalls
<1>3. UNCHANGED <<want, wire, resp, doneClosed>> /\ cur' \in {cur, cur + 1}
  BY DEF TakeRequest, TakeUnhandled, LoopEnds, config
<1>4. SameHolds
  <2>1. CASE TakeUnhandled
    <3>1. at' = [at EXCEPT ![Loop] = "enter"] /\ ~Busy(Loop) /\ "enter" \in Places \ {"write", "written", "failed"} /\ at[Loop] = "idle"
      BY <1>1, <2>1, TakeUnhandledStep DEF Resting, Busy, Places
    <3> QED
      BY <1>1, <3>1, LoopActs, QuietSame
  <2>2. CASE TakeRequest \/ LoopEnds
    BY <1>2, <2>2, RestingSame DEF TakeRequest, LoopEnds, actorVars
  <2> QED
    BY <2>1, <2>2
<1>5. WinnerInv' /\ SentOrReleased' /\ WireInv'
  BY <1>3, <1>4, FrameMild, MildKeeps
<1>6. (cur' = cur + 1 /\ pc' \in {"handling", "unhandled"}) \/ (cur' = cur /\ pc' = "over" /\ closed /\ closed')
  BY DEF TakeRequest, TakeUnhandled, LoopEnds
<1>7. \A r \in Requests : r \in Nat /\ (r < cur' \/ (r = cur' /\ pc' \in {"next", "finish"}) => r < cur \/ (r = cur /\ pc = "next"))
  BY <1>1, <1>6 DEF Requests
<1>8. Answered'
  BY <1>1, <1>3, <1>7 DEF Answered
<1>9. ReleasedLate'
  <2> SUFFICES ASSUME NEW r \in Requests, resp[r].released
               PROVE  r < cur' \/ (r = cur' /\ pc' \in {"next", "finish", "replyError", "over"})
    BY <1>3 DEF ReleasedLate
  <2>1. r <= cur /\ r \in Nat
    BY <1>1 DEF ReleasedLate, Requests
  <2> QED
    BY <1>1, <1>6, <2>1
<1>10. OverTaken'
  <2> SUFFICES ASSUME pc' = "over" PROVE (cur > 0 => Taken(cur))'
    BY <1>6 DEF OverTaken
  <2> SUFFICES ASSUME cur > 0 PROVE resp[cur].complete
    BY <1>3, <1>6 DEF Taken
  <2>1. cur \in Requests
    BY <1>1, CurIsRequest
  <2> QED
    BY <1>1, <2>1 DEF Answered
<1>11. OwnReply'
  <2>1. TakeUnhandled => at'[Loop] = "enter"
    BY <1>1, LoopActs, TakeUnhandledStep DEF TypeOK
  <2>2. TakeRequest \/ LoopEnds => pc' \notin {"unhandled", "answer"}
    BY DEF TakeRequest, LoopEnds
  <2> QED
    BY <2>1, <2>2 DEF OwnReply, Resting
<1> QED
  BY <1>2, <1>5, <1>8, <1>9, <1>10, <1>11 DEF ReplyInv

\* The steps in the middle of a request.
LEMMA MiddleKeeps ==
  ASSUME ReplyInv, TypeOK', PlaceInv', Mild, cur' = cur, closed' = closed,
         pc \notin {"next", "finish", "replyError", "over"},
         pc' \notin {"next", "finish", "replyError", "over"},
         (pc' = "answer" /\ at'[Loop] # "idle") \/ pc' \notin {"unhandled", "answer"},
         \A r \in Requests : resp'[r].released <=> resp[r].released
  PROVE  ReplyInv'
<1>1. WinnerInv' /\ SentOrReleased' /\ WireInv' /\ wire' = wire /\ want' = want
  BY MildKeeps DEF Mild
<1>2. Answered'
  <2> SUFFICES ASSUME NEW r \in Requests, r < cur
               PROVE  resp'[r].complete /\ (want[r] => r \in Range(wire))
    BY <1>1 DEF Answered
  <2>1. resp[r].complete /\ (want[r] => r \in Range(wire))
    BY DEF ReplyInv, Answered
  <2> QED
    BY <2>1 DEF Mild
<1>3. ReleasedLate'
  BY DEF ReplyInv, ReleasedLate
<1>4. OverTaken' /\ OwnReply'
  BY DEF OverTaken, OwnReply, Resting
<1> QED
  BY <1>1, <1>2, <1>3, <1>4 DEF ReplyInv

LEMMA HandlersKeep ==
  ASSUME ReplyInv,
         \/ HandlerReturns \/ DefaultRuns \/ DefaultRan \/ ErrorHandlerReturns
         \/ ErrorResponseExpires \/ NextExpires \/ SettleRejects
  PROVE  ReplyInv'
<1>0. TypeOK /\ PlaceInv /\ OtherTypes
  BY TypeParts DEF ReplyInv
<1>1. CASE HandlerReturns
  <2>1. /\ TypeOK' /\ PlaceInv' /\ Resting /\ cur \in Requests
        /\ pc = "handling" /\ pc' \in {"settle", "errorHandler", "default"}
        /\ resp' = [resp EXCEPT ![cur].active = FALSE]
        /\ UNCHANGED <<want, cur, at, outcome, closed, wire, doneClosed>>
    BY <1>0, <1>1, HandlerStep, CurIsRequest
  <2>2. \A r \in Requests : /\ resp'[r].complete = resp[r].complete /\ resp'[r].attempted = resp[r].attempted
                            /\ resp'[r].err = resp[r].err /\ resp'[r].released = resp[r].released
    BY <1>0, <2>1, InactiveField
  <2>3. Mild
    BY <2>1, <2>2, RestingSame DEF Mild
  <2> QED
    BY <2>1, <2>2, <2>3, MiddleKeeps
<1>2. CASE DefaultRuns \/ DefaultRan
  <2>1. /\ TypeOK' /\ PlaceInv' /\ UNCHANGED <<want, wire, resp, doneClosed, cur, closed>>
        /\ ~Busy(Loop) /\ pc = "default" /\ pc' \in {"default", "escalate", "settle"}
    BY <1>0, <1>2, DefaultSteps DEF replyVars
  <2>2. PICK p \in {"default", "idle"} : at' = [at EXCEPT ![Loop] = p]
    BY <1>0, <1>2, DefaultSteps
  <2>3. p \in Places \ {"write", "written", "failed"}
    BY DEF Places
  <2>4. Mild
    BY <1>0, <2>1, <2>2, <2>3, QuietSame, FrameMild, LoopActs
  <2> QED
    BY <2>1, <2>4, MiddleKeeps
<1>3. CASE ErrorHandlerReturns \/ ErrorResponseExpires \/ NextExpires
  <2>1. /\ TypeOK' /\ PlaceInv' /\ Resting /\ UNCHANGED <<want, wire, resp, doneClosed, at, outcome, cur, closed>>
        /\ pc \in {"errorHandler", "expireResponse", "expireNext"}
        /\ pc' \in {"expireResponse", "expireNext", "escalate", "settle"}
    BY <1>0, <1>3, DispatchSteps DEF replyVars
  <2>2. Mild
    BY <2>1, RestingSame, FrameMild
  <2> QED
    BY <2>1, <2>2, MiddleKeeps
<1>4. CASE SettleRejects
  <2>1. TypeOK' /\ PlaceInv' /\ Resting /\ at' = [at EXCEPT ![Loop] = "enter"]
    BY <1>0, <1>4, RejectsStep
  <2>2. UNCHANGED <<want, wire, resp, doneClosed, cur, closed>> /\ pc = "settle" /\ pc' = "answer"
    BY <1>4 DEF SettleRejects, config
  <2>3. "enter" \in Places \ {"write", "written", "failed"} /\ ~Busy(Loop) /\ at'[Loop] = "enter"
    BY <1>0, <2>1, LoopActs DEF Places, Busy, Resting, TypeOK
  <2>4. Mild
    BY <1>0, <2>1, <2>2, <2>3, QuietSame, FrameMild, LoopActs
  <2> QED
    BY <2>1, <2>2, <2>3, <2>4, MiddleKeeps
<1> QED
  BY <1>1, <1>2, <1>3, <1>4

--------------------------------------------------------------------------------
(* The end of a request. *)

\* What the eight steps have in common.
LEMMA EndMild ==
  ASSUME ReplyInv, EndSteps
  PROVE  Mild
<1>1. TypeOK /\ PlaceInv /\ OtherTypes /\ cur \in Nat
  BY TypeParts DEF ReplyInv, TypeOK
<1>2. Resting /\ UNCHANGED <<want, at, outcome, wire, cur>> /\ (cur # 0 => cur \in Requests)
  BY <1>1, EndStep
<1>3. cur \in Requests
  BY <1>1, <1>2 DEF EndSteps, UnhandledReplied, Escalate, SettleFails, RejectDone, SettleWithout, SettleAnswered, Finish, HandleRequestReplyError, PlaceInv, ReplyInv
<1>4. \/ UNCHANGED <<resp, doneClosed>>
      \/ Release(cur) /\ UNCHANGED doneClosed
      \/ EndResponse(cur)
  BY DEF EndSteps, UnhandledReplied, Escalate, SettleFails, RejectDone, SettleWithout, SettleAnswered, Finish, HandleRequestReplyError
<1>5. CASE UNCHANGED <<resp, doneClosed>>
  BY <1>2, <1>5, RestingSame, FrameMild
<1>6. CASE Release(cur) /\ UNCHANGED doneClosed
  <2>1. /\ \A q \in Requests : q # cur => resp'[q] = resp[q]
        /\ resp'[cur].complete = resp[cur].complete /\ resp'[cur].attempted = resp[cur].attempted
        /\ resp'[cur].err = resp[cur].err /\ resp'[cur].released
    BY <1>1, <1>3, <1>6, ReleaseFields
  <2> QED
    BY <1>2, <1>6, <2>1, RestingSame DEF Mild
<1>7. CASE EndResponse(cur)
  <2>1. /\ \A q \in Requests : q # cur => resp'[q] = resp[q] /\ doneClosed'[q] = doneClosed[q]
        /\ resp'[cur].complete <=> resp[cur].complete \/ ~Taken(cur)
        /\ resp'[cur].attempted = resp[cur].attempted
        /\ resp'[cur].err = resp[cur].err /\ resp'[cur].released
        /\ doneClosed'[cur] = IF Taken(cur) THEN doneClosed[cur] ELSE doneClosed[cur] + 1
    BY <1>1, <1>3, <1>7, EndFields
  <2>2. /\ resp[cur].complete => resp'[cur].complete
        /\ resp'[cur].complete => resp[cur].complete \/ ~resp[cur].attempted
        /\ resp'[cur].complete /\ ~resp[cur].complete <=> ~Taken(cur)
    BY <2>1 DEF Taken
  <2>3. doneClosed'[cur] = IF resp'[cur].complete /\ ~resp[cur].complete THEN doneClosed[cur] + 1 ELSE doneClosed[cur]
    BY <2>1, <2>2
  <2>4. SameHolds
    BY <1>2, RestingSame
  <2> QED
    BY <1>2, <2>1, <2>2, <2>3, <2>4 DEF Mild
<1> QED
  BY <1>4, <1>5, <1>6, <1>7

\* The end of a request that is complete and has its reply, or that stops the loop.
LEMMA EndFrame ==
  ASSUME ReplyInv, EndSteps, cur \in Requests,
         pc' \in {"next", "finish", "replyError", "over"},
         pc' \in {"next", "finish"} => resp'[cur].complete /\ (want[cur] => cur \in Range(wire)),
         pc' \in {"replyError", "over"} => Taken(cur)',
         pc' = "over" => closed'
  PROVE  ReplyInv'
<1>1. TypeOK /\ PlaceInv /\ Answered /\ ReleasedLate /\ OtherTypes
  BY TypeParts DEF ReplyInv
<1>2. TypeOK' /\ PlaceInv' /\ UNCHANGED <<want, wire, cur>>
  BY <1>1, EndStep
<1>3. Mild
  BY EndMild
<1>4. WinnerInv' /\ SentOrReleased' /\ WireInv'
  BY <1>3, MildKeeps
<1>5. \A q \in Requests : q # cur => resp'[q] = resp[q]
  <2>1. resp' = resp \/ Release(cur) \/ EndResponse(cur)
    BY DEF EndSteps, UnhandledReplied, Escalate, SettleFails, RejectDone, SettleWithout, SettleAnswered, Finish, HandleRequestReplyError
  <2> QED
    BY <1>1, <2>1, ReleaseFields, EndFields
<1>6. Answered'
  <2> SUFFICES ASSUME NEW r \in Requests, r < cur \/ (r = cur /\ pc' \in {"next", "finish"})
               PROVE  resp'[r].complete /\ (want[r] => r \in Range(wire))
    BY <1>2 DEF Answered
  <2>1. CASE r = cur
    BY <2>1 DEF Requests
  <2>2. CASE r # cur
    BY <1>1, <1>5, <2>2 DEF Answered
  <2> QED
    BY <2>1, <2>2
<1>7. ReleasedLate'
  <2> SUFFICES ASSUME NEW r \in Requests, resp'[r].released
               PROVE  r < cur \/ (r = cur /\ pc' \in {"next", "finish", "replyError", "over"})
    BY <1>2 DEF ReleasedLate
  <2>1. CASE r = cur
    BY <2>1
  <2>2. CASE r # cur
    BY <1>1, <1>5, <2>2 DEF ReleasedLate
  <2> QED
    BY <2>1, <2>2
<1>8. OverTaken' /\ OwnReply'
  BY <1>2 DEF OverTaken, OwnReply
<1> QED
  BY <1>2, <1>4, <1>6, <1>7, <1>8 DEF ReplyInv

LEMMA EndKeeps ==
  ASSUME ReplyInv, EndSteps
  PROVE  ReplyInv'
<1>1. /\ TypeOK /\ PlaceInv /\ Answered /\ ReleasedLate /\ OtherTypes /\ SentOrReleased /\ OwnReply /\ OverTaken
      /\ cur \in Nat
  BY TypeParts DEF ReplyInv, TypeOK
<1>2. cur \in Requests
  <2>1. cur # 0
    BY <1>1 DEF EndSteps, UnhandledReplied, Escalate, SettleFails, RejectDone, SettleWithout, SettleAnswered, Finish, HandleRequestReplyError, PlaceInv
  <2> QED
    BY <1>1, <2>1, CurIsRequest
\* A reply that succeeded before the response was released is on the wire.
<1>3. ASSUME pc \notin {"next", "finish", "replyError", "over"},
             resp[cur].attempted, resp[cur].complete, ~resp[cur].err
      PROVE  want[cur] => cur \in Range(wire)
  <2>1. ~resp[cur].released
    BY <1>1, <1>2, <1>3 DEF ReleasedLate, Requests
  <2> QED
    BY <1>1, <1>2, <1>3, <2>1 DEF SentOrReleased
<1>4. Mild /\ cur' = cur
  BY <1>1, EndMild, EndStep
<1>5. (resp[cur].complete => resp'[cur].complete) /\ (Taken(cur) => Taken(cur)')
  BY <1>2, <1>4 DEF Mild, Taken
<1>6. CASE UnhandledReplied \/ RejectDone
  <2>1. pc \in {"unhandled", "answer"} /\ Resting /\ pc' = IF outcome = "nil" THEN IF pc = "answer" THEN "finish" ELSE "next" ELSE "replyError"
    BY <1>6 DEF UnhandledReplied, RejectDone
  <2>2. Taken(cur) /\ (outcome = "nil" => resp[cur].attempted /\ resp[cur].complete /\ ~resp[cur].err)
    BY <1>1, <2>1 DEF OwnReply
  <2> QED
    BY <1>2, <1>3, <1>5, <2>1, <2>2, EndFrame
<1>7. CASE Escalate
  <2>1. EndResponse(cur) /\ pc' = "over" /\ closed'
    BY <1>7 DEF Escalate
  <2>2. Taken(cur)'
    <3>1. resp'[cur].complete <=> resp[cur].complete \/ ~Taken(cur)
      BY <1>1, <1>2, <2>1, EndFields
    <3> QED
      BY <1>4, <1>5, <3>1 DEF Taken
  <2> QED
    BY <1>2, <2>1, <2>2, EndFrame
<1>8. CASE SettleFails
  <2>1. Taken(cur) /\ ((pc' = "over" /\ closed') \/ pc' = "replyError")
    BY <1>8 DEF SettleFails, ReplyUnusable, Taken
  <2> QED
    BY <1>2, <1>5, <2>1, EndFrame
<1>9. CASE SettleWithout
  <2>1. EndResponse(cur) /\ pc' = "finish" /\ ~want[cur] /\ ~resp[cur].attempted
    BY <1>9 DEF SettleWithout
  <2>2. resp'[cur].complete
    <3>1. resp'[cur].complete <=> resp[cur].complete \/ ~Taken(cur)
      BY <1>1, <1>2, <2>1, EndFields
    <3> QED
      BY <2>1, <3>1 DEF Taken
  <2> QED
    BY <1>2, <2>1, <2>2, EndFrame
<1>10. CASE SettleAnswered
  <2>1. pc = "settle" /\ pc' = "finish" /\ resp[cur].attempted /\ resp[cur].complete /\ ~resp[cur].err
    BY <1>10 DEF SettleAnswered, ReplyUnusable
  <2> QED
    BY <1>2, <1>3, <1>5, <2>1, EndFrame
<1>11. CASE Finish
  <2>1. pc = "finish" /\ (pc' = "next" \/ (pc' = "over" /\ closed'))
    <3>1. verdict # "continue" => pc' = "over" /\ closed' = TRUE
      BY <1>11 DEF Finish
    <3> QED
      BY <1>11, <3>1 DEF Finish
  <2>2. resp[cur].complete /\ (want[cur] => cur \in Range(wire))
    BY <1>1, <1>2, <2>1 DEF Answered
  <2>3. Taken(cur)
    BY <2>2 DEF Taken
  <2> QED
    BY <1>2, <1>5, <2>1, <2>2, <2>3, EndFrame
<1>12. CASE HandleRequestReplyError
  <2>1. pc = "replyError" /\ pc' = "over" /\ closed'
    BY <1>12 DEF HandleRequestReplyError
  <2>2. Taken(cur)
    BY <1>1, <1>2, <2>1 DEF OverTaken, Requests
  <2> QED
    BY <1>2, <1>5, <2>1, <2>2, EndFrame
<1> QED
  BY <1>6, <1>7, <1>8, <1>9, <1>10, <1>11, <1>12 DEF EndSteps

--------------------------------------------------------------------------------
(* The calls that answer. *)

\* A response that is held, or that was not taken, is that of the request the loop is
\* at, which it has not ended.
LEMMA HeldIsCurrent ==
  ASSUME ReplyInv, NEW r \in Requests, r <= cur, ~resp[r].complete
  PROVE  r = cur /\ pc \notin {"next", "finish"}
BY DEF ReplyInv, TypeOK, Answered, Requests

LEMMA WinsKeeps ==
  ASSUME ReplyInv, NEW a \in Actors, RespondWins(a)
  PROVE  ReplyInv'
<1>1. TypeOK /\ PlaceInv /\ OtherTypes /\ at \in [Actors -> Places]
  BY TypeParts DEF ReplyInv, TypeOK
<1>2. PICK r \in Requests : r = Of(a)
  BY <1>1, BusyRequest DEF RespondWins
<1>3. PICK p \in {"write", "written"} :
        at' = [at EXCEPT ![a] = p] /\ (p = "write" <=> want[r] /\ ~resp[r].released)
  BY <1>1, <1>2, WinsStep
<1>4. /\ TypeOK' /\ PlaceInv' /\ UNCHANGED <<want, errorHandler, cur, pc, outcome, closed, wire, doneClosed>>
      /\ at[a] = "enter" /\ ~resp[r].attempted /\ ~resp[r].complete
  BY <1>1, <1>2, WinsStep DEF RespondWins, Taken, config, loopVars
<1>5. /\ \A q \in Requests : q # r => resp'[q] = resp[q]
      /\ resp'[r].attempted /\ resp'[r].complete = resp[r].complete
      /\ resp'[r].err = resp[r].err /\ resp'[r].released = resp[r].released
  BY <1>1, <1>2, AttemptedField DEF RespondWins
<1>6. at'[a] = p /\ \A b \in Actors : b # a => at'[b] = at[b]
  BY <1>1, <1>3
<1>7. \A b \in Actors : Of(b)' = Of(b)
  BY <1>4 DEF Of
<1>8. ~Busy(a) /\ Busy(a)' /\ \A b \in Actors : b # a => (Busy(b)' <=> Busy(b))
  BY <1>4, <1>6 DEF Busy
<1>9. \A b \in Actors : Busy(b) => Of(b) \in Requests /\ Of(b) # r
  BY <1>1, <1>4, HoldsRequest DEF ReplyInv, WinnerInv
<1>10. WinnerInv'
  <2>1. \A b \in Actors : Busy(b)' => resp'[Of(b)].attempted /\ ~resp'[Of(b)].complete
    BY <1>2, <1>4, <1>5, <1>8, <1>9 DEF ReplyInv, WinnerInv
  <2>2. \A b, c \in Actors : Busy(b)' /\ Busy(c)' /\ Of(b) = Of(c) => b = c
    BY <1>2, <1>8, <1>9 DEF ReplyInv, WinnerInv
  <2>3. \A q \in Requests : resp'[q].attempted /\ ~resp'[q].complete => \E b \in Actors : Busy(b)' /\ Of(b) = q
    <3> SUFFICES ASSUME NEW q \in Requests, resp'[q].attempted, ~resp'[q].complete
                 PROVE  \E b \in Actors : Busy(b)' /\ Of(b) = q
      OBVIOUS
    <3>1. CASE q = r
      BY <1>2, <1>8, <3>1
    <3>2. CASE q # r
      <4>1. PICK b \in Actors : Busy(b) /\ Of(b) = q
        BY <1>5, <3>2 DEF ReplyInv, WinnerInv
      <4> QED
        BY <1>8, <4>1
    <3> QED
      BY <3>1, <3>2
  <2>4. \A q \in Requests : doneClosed'[q] = IF resp'[q].complete THEN 1 ELSE 0
    BY <1>4, <1>5 DEF ReplyInv, WinnerInv
  <2> QED
    BY <1>7, <2>1, <2>2, <2>3, <2>4 DEF WinnerInv
<1>11. OwnReply'
  <2> SUFFICES ASSUME pc \in {"unhandled", "answer"}, at'[Loop] = "idle"
               PROVE  (Taken(cur) /\ (outcome = "nil" => resp[cur].attempted /\ resp[cur].complete /\ ~resp[cur].err))'
    BY <1>4 DEF OwnReply, Resting
  <2>1. a # Loop
    BY <1>6
  <2>2. at[Loop] = "idle"
    BY <1>6, <2>1, LoopActs
  <2>3. Taken(cur) /\ (outcome = "nil" => resp[cur].attempted /\ resp[cur].complete /\ ~resp[cur].err)
    BY <2>2 DEF ReplyInv, OwnReply, Resting
  <2>4. cur \in Requests /\ cur # r
    BY <1>1, <1>4, <2>3, CurIsRequest DEF Taken, PlaceInv
  <2> QED
    BY <1>4, <1>5, <2>3, <2>4 DEF Taken
<1>12. ReleasedLate'
  BY <1>4, <1>5 DEF ReplyInv, ReleasedLate
<1>13. SentOrReleased'
  <2> SUFFICES ASSUME NEW q \in Requests, want[q], ~resp'[q].released, q \notin Range(wire)
               PROVE  /\ \A b \in Actors : at'[b] = "written" => Of(b) # q
                      /\ resp'[q].attempted /\ resp'[q].complete => resp'[q].err
    BY <1>4, <1>7 DEF SentOrReleased
  <2>1. CASE q = r
    <3>1. p = "write" /\ ~resp'[q].complete
      BY <1>3, <1>4, <1>5, <2>1
    <3>2. \A b \in Actors : b # a /\ at'[b] = "written" => Of(b) # q
      BY <1>6, <1>9, <2>1 DEF Busy
    <3> QED
      BY <1>6, <3>1, <3>2
  <2>2. CASE q # r
    <3>1. /\ \A b \in Actors : at[b] = "written" => Of(b) # q
          /\ resp[q].attempted /\ resp[q].complete => resp[q].err
      BY <1>5, <2>2 DEF ReplyInv, SentOrReleased
    <3> QED
      BY <1>2, <1>5, <1>6, <2>2, <3>1
  <2> QED
    BY <2>1, <2>2
<1>14. Answered'
  BY <1>4, <1>5 DEF ReplyInv, Answered
<1>15. OverTaken'
  <2>1. Taken(cur) /\ cur \in Requests => Taken(cur)'
    BY <1>4, <1>5 DEF Taken
  <2> QED
    BY <1>1, <1>4, <2>1, CurIsRequest DEF ReplyInv, OverTaken, TypeOK
<1>16. WireInv'
  <2>1. \A b \in Actors : at'[b] = "write" => want[Of(b)]
    BY <1>2, <1>3, <1>6 DEF ReplyInv, WireInv
  <2>2. ASSUME NEW i \in 1..Len(wire)
        PROVE  /\ wire[i] <= cur /\ want[wire[i]] /\ resp'[wire[i]].attempted
               /\ \A b \in Actors : at'[b] = "write" => Of(b) # wire[i]
    <3>1. wire[i] <= cur /\ want[wire[i]] /\ resp[wire[i]].attempted /\ wire[i] \in Requests
      BY <1>1, WireRequest DEF ReplyInv, WireInv
    <3>2. wire[i] # r
      BY <1>4, <3>1
    <3>3. \A b \in Actors : at[b] = "write" => Of(b) # wire[i]
      BY DEF ReplyInv, WireInv
    <3> QED
      BY <1>2, <1>5, <1>6, <3>1, <3>2, <3>3
  <2>3. \A i, j \in 1..Len(wire) : i < j => wire[i] < wire[j]
    BY DEF ReplyInv, WireInv
  <2> QED
    BY <1>4, <1>7, <2>1, <2>2, <2>3 DEF WireInv
<1> QED
  BY <1>4, <1>10, <1>11, <1>12, <1>13, <1>14, <1>15, <1>16 DEF ReplyInv

LEMMA WireElements ==
  ASSUME NEW s \in Seq(Requests), NEW x
  PROVE  x \in Range(s) <=> \E i \in 1..Len(s) : s[i] = x
<1>1. DOMAIN s = 1..Len(s)
  OBVIOUS
<1> QED
  BY <1>1, Zenon DEF Range

LEMMA WireGrows ==
  ASSUME NEW s \in Seq(Requests), NEW r \in Requests, NEW t, t = Append(s, r)
  PROVE  /\ t \in Seq(Requests) /\ Len(t) = Len(s) + 1 /\ t[Len(s) + 1] = r /\ Len(s) \in Nat
         /\ \A i \in 1..Len(s) : t[i] = s[i]
         /\ r \in Range(t)
         /\ \A x \in Range(s) : x \in Range(t)
<1>1. /\ t \in Seq(Requests) /\ Len(t) = Len(s) + 1 /\ t[Len(s) + 1] = r /\ Len(s) \in Nat
      /\ \A i \in 1..Len(s) : t[i] = s[i]
  OBVIOUS
<1>2. \E i \in 1..Len(t) : t[i] = r
  BY <1>1
<1>3. r \in Range(t)
  BY <1>1, <1>2, WireElements, Zenon
<1>4. ASSUME NEW x \in Range(s) PROVE x \in Range(t)
  <2>1. PICK i \in 1..Len(s) : s[i] = x
    BY <1>4, WireElements, Zenon
  <2>2. i \in 1..Len(t) /\ t[i] = x
    BY <1>1, <2>1
  <2> QED
    BY <1>1, <2>2, WireElements, Zenon
<1> QED
  BY <1>1, <1>3, <1>4

LEMMA WrittenKeeps ==
  ASSUME ReplyInv, NEW a \in Actors, ReplyWritten(a) \/ ReplyFails(a)
  PROVE  ReplyInv'
<1>1. TypeOK /\ PlaceInv /\ at \in [Actors -> Places] /\ wire \in Seq(Requests) /\ cur \in Nat
  BY DEF ReplyInv, TypeOK
<1>2. PICK p \in {"written", "failed"} :
        at' = [at EXCEPT ![a] = p] /\ (p = "written" => ReplyWritten(a)) /\ (p = "failed" => wire' = wire)
  BY <1>1, WrittenStep, FailsStep DEF ReplyFails
<1>3. /\ TypeOK' /\ PlaceInv' /\ UNCHANGED <<want, cur, pc, outcome, closed, resp, doneClosed>> /\ at[a] = "write"
  BY <1>1, WrittenStep, FailsStep DEF ReplyWritten, ReplyFails, Goes, config, loopVars
<1>4. PICK r \in Requests : r = Of(a) /\ r <= cur
  BY <1>1, <1>3, BusyRequest DEF Requests
<1>5. at'[a] = p /\ \A b \in Actors : b # a => at'[b] = at[b]
  BY <1>1, <1>2
<1>6. \A b \in Actors : Of(b)' = Of(b) /\ (Busy(b)' <=> Busy(b))
  BY <1>2, <1>3, <1>5 DEF Of, Busy
<1>7. /\ Busy(a) /\ resp[r].attempted /\ ~resp[r].complete /\ want[r]
      /\ \A b \in Actors : Busy(b) /\ Of(b) = r => b = a
  BY <1>3, <1>4 DEF Busy, ReplyInv, WinnerInv, WireInv
<1>8. r = cur
  BY <1>4, <1>7, HeldIsCurrent
<1>9. WinnerInv'
  BY <1>3, <1>6 DEF ReplyInv, WinnerInv
<1>10. OwnReply'
  <2>1. at'[Loop] = "idle" => at[Loop] = "idle"
    BY <1>2, <1>5, LoopActs
  <2> QED
    BY <1>3, <2>1 DEF ReplyInv, OwnReply, Resting, Taken
<1>11. ReleasedLate' /\ OverTaken'
  BY <1>3 DEF ReplyInv, ReleasedLate, OverTaken, Taken
<1>12. (\A x \in Range(wire) : x \in Range(wire')) /\ (p = "written" => r \in Range(wire'))
  <2>1. CASE p = "written"
    BY <1>1, <1>2, <1>4, <2>1, WireGrows DEF ReplyWritten
  <2>2. CASE p = "failed"
    BY <1>2, <2>2
  <2> QED
    BY <2>1, <2>2
<1>13. Answered'
  BY <1>3, <1>12 DEF ReplyInv, Answered
<1>14. SentOrReleased'
  <2> SUFFICES ASSUME NEW q \in Requests, want[q], ~resp[q].released, q \notin Range(wire')
               PROVE  /\ \A b \in Actors : at'[b] = "written" => Of(b) # q
                      /\ resp[q].attempted /\ resp[q].complete => resp[q].err
    BY <1>3, <1>6 DEF SentOrReleased
  <2>1. /\ \A b \in Actors : at[b] = "written" => Of(b) # q
        /\ resp[q].attempted /\ resp[q].complete => resp[q].err
    BY <1>12 DEF ReplyInv, SentOrReleased
  <2> QED
    BY <1>4, <1>5, <1>12, <2>1
<1>15. WireInv'
  <2>1. \A b \in Actors : at'[b] = "write" => b # a /\ at[b] = "write" /\ Of(b) # r /\ want[Of(b)]
    BY <1>2, <1>5, <1>7 DEF Busy, ReplyInv, WireInv
  <2>2. \A i \in 1..Len(wire) : /\ wire[i] <= cur /\ want[wire[i]] /\ resp[wire[i]].attempted
                                /\ \A b \in Actors : at[b] = "write" => Of(b) # wire[i]
    BY DEF ReplyInv, WireInv
  <2>3. \A i, j \in 1..Len(wire) : i < j => wire[i] < wire[j]
    BY DEF ReplyInv, WireInv
  <2>4. CASE p = "failed"
    BY <1>2, <1>3, <1>6, <2>1, <2>2, <2>3, <2>4 DEF WireInv
  <2>5. CASE p = "written"
    <3>1. wire' = Append(wire, r)
      BY <1>2, <1>4, <2>5 DEF ReplyWritten
    <3>2. /\ Len(wire') = Len(wire) + 1 /\ wire'[Len(wire) + 1] = r /\ Len(wire) \in Nat
          /\ \A i \in 1..Len(wire) : wire'[i] = wire[i]
      BY <1>1, <3>1, WireGrows
    <3>3. ASSUME NEW i \in 1..Len(wire')
          PROVE  /\ wire'[i] <= cur /\ want[wire'[i]] /\ resp[wire'[i]].attempted
                 /\ \A b \in Actors : at'[b] = "write" => Of(b) # wire'[i]
      <4>1. CASE i = Len(wire) + 1
        BY <1>4, <1>7, <2>1, <3>2, <4>1
      <4>2. CASE i \in 1..Len(wire)
        BY <2>1, <2>2, <3>2, <4>2
      <4> QED
        BY <3>2, <4>1, <4>2
    <3>4. ASSUME NEW i \in 1..Len(wire'), NEW j \in 1..Len(wire'), i < j
          PROVE  wire'[i] < wire'[j]
      <4>1. i \in 1..Len(wire)
        BY <3>2, <3>4
      <4>2. CASE j = Len(wire) + 1
        <5>1. wire[i] <= cur /\ wire[i] # r /\ wire[i] \in Nat
          BY <1>1, <1>3, <1>4, <2>2, <4>1, WireRequest DEF Requests
        <5> QED
          BY <1>1, <1>8, <3>2, <4>1, <4>2, <5>1
      <4>3. CASE j \in 1..Len(wire)
        BY <2>3, <3>2, <3>4, <4>1, <4>3
      <4> QED
        BY <3>2, <4>2, <4>3
    <3> QED
      BY <1>3, <1>6, <2>1, <3>3, <3>4 DEF WireInv
  <2> QED
    BY <2>4, <2>5
<1> QED
  BY <1>3, <1>9, <1>10, <1>11, <1>13, <1>14, <1>15 DEF ReplyInv

LEMMA CompletesKeeps ==
  ASSUME ReplyInv, NEW a \in Actors, RespondCompletes(a)
  PROVE  ReplyInv'
<1>1. TypeOK /\ PlaceInv /\ OtherTypes /\ at \in [Actors -> Places]
  BY TypeParts DEF ReplyInv, TypeOK
<1>2. /\ TypeOK' /\ PlaceInv' /\ at[a] \in {"written", "failed"}
      /\ UNCHANGED <<want, cur, pc, closed, wire>>
  BY <1>1, CompletesStep DEF RespondCompletes, config, loopVars
<1>3. PICK p \in {"sent", "idle"} : at' = [at EXCEPT ![a] = p]
  BY <1>1, CompletesStep
<1>4. PICK r \in Requests : r = Of(a) /\ r <= cur
  BY <1>1, <1>2, BusyRequest DEF Requests
<1>5. at'[a] = p /\ \A b \in Actors : b # a => at'[b] = at[b]
  BY <1>1, <1>3
<1>6. /\ Busy(a) /\ ~Busy(a)' /\ (\A b \in Actors : b # a => (Busy(b)' <=> Busy(b)))
      /\ \A b \in Actors : Of(b)' = Of(b)
  BY <1>2, <1>5 DEF Of, Busy
<1>7. /\ resp[r].attempted /\ ~resp[r].complete
      /\ \A b \in Actors : Busy(b) /\ Of(b) = r => b = a
  BY <1>4, <1>6 DEF ReplyInv, WinnerInv
<1>8. PICK e \in BOOLEAN : e <=> at[a] = "failed"
  BY Zenon
<1>9. /\ \A q \in Requests : q # r => resp'[q] = resp[q]
      /\ resp'[r].complete /\ resp'[r].attempted = resp[r].attempted
      /\ resp'[r].err = e /\ resp'[r].released = resp[r].released
  <2>1. (at[a] = "failed") = e
    BY <1>8, Zenon
  <2>2. resp' = [resp EXCEPT ![r].complete = TRUE, ![r].err = e]
    BY <1>4, <2>1 DEF RespondCompletes
  <2> QED
    BY <1>1, <2>2, CompleteFields
<1>10. /\ doneClosed'[r] = doneClosed[r] + 1
       /\ \A q \in Requests : q # r => doneClosed'[q] = doneClosed[q]
  BY <1>1, <1>4 DEF RespondCompletes, OtherTypes
<1>11. WinnerInv'
  <2>1. \A b \in Actors : Busy(b)' => Busy(b) /\ b # a /\ Of(b) \in Requests /\ Of(b) # r
    BY <1>1, <1>6, <1>7, HoldsRequest
  <2>2. \A b \in Actors : Busy(b)' => resp'[Of(b)].attempted /\ ~resp'[Of(b)].complete
    BY <1>9, <2>1 DEF ReplyInv, WinnerInv
  <2>3. \A b, c \in Actors : Busy(b)' /\ Busy(c)' /\ Of(b) = Of(c) => b = c
    BY <2>1 DEF ReplyInv, WinnerInv
  <2>4. \A q \in Requests : resp'[q].attempted /\ ~resp'[q].complete => \E b \in Actors : Busy(b)' /\ Of(b) = q
    <3> SUFFICES ASSUME NEW q \in Requests, resp'[q].attempted, ~resp'[q].complete
                 PROVE  \E b \in Actors : Busy(b)' /\ Of(b) = q
      OBVIOUS
    <3>1. q # r
      BY <1>9
    <3>2. PICK b \in Actors : Busy(b) /\ Of(b) = q
      BY <1>9, <3>1 DEF ReplyInv, WinnerInv
    <3> QED
      BY <1>4, <1>6, <3>1, <3>2
  <2>5. \A q \in Requests : doneClosed'[q] = IF resp'[q].complete THEN 1 ELSE 0
    <3> TAKE q \in Requests
    <3>1. doneClosed[q] = IF resp[q].complete THEN 1 ELSE 0
      BY DEF ReplyInv, WinnerInv
    <3>2. CASE q = r
      BY <1>7, <1>9, <1>10, <3>1, <3>2
    <3>3. CASE q # r
      BY <1>9, <1>10, <3>1, <3>3
    <3> QED
      BY <3>2, <3>3
  <2> QED
    BY <1>6, <2>2, <2>3, <2>4, <2>5 DEF WinnerInv
<1>12. OwnReply'
  <2> SUFFICES ASSUME pc \in {"unhandled", "answer"}, at'[Loop] = "idle"
               PROVE  (Taken(cur) /\ (outcome = "nil" => resp[cur].attempted /\ resp[cur].complete /\ ~resp[cur].err))'
    BY <1>2 DEF OwnReply, Resting
  <2>0. outcome' = IF a # Loop THEN outcome ELSE IF at[a] = "failed" THEN "failed" ELSE "nil"
    BY <1>1, CompletesStep
  <2>1. CASE a = Loop
    <3>1. r = cur
      BY <1>4, <2>1, LoopActs
    <3>2. outcome' = "nil" => ~e
      BY <1>8, <2>0, <2>1
    <3> QED
      BY <1>2, <1>7, <1>9, <3>1, <3>2 DEF Taken
  <2>2. CASE a # Loop
    <3>1. at[Loop] = "idle" /\ outcome' = outcome
      BY <1>5, <2>0, <2>2, LoopActs
    <3>2. Taken(cur) /\ (outcome = "nil" => resp[cur].attempted /\ resp[cur].complete /\ ~resp[cur].err)
      BY <3>1 DEF ReplyInv, OwnReply, Resting
    <3>3. CASE cur = r
      <4>1. outcome # "nil"
        BY <1>7, <3>2, <3>3
      <4> QED
        BY <1>2, <1>9, <3>1, <3>3, <4>1 DEF Taken
    <3>4. CASE cur # r
      <4>1. cur \in Requests
        BY <1>1, CurIsRequest DEF PlaceInv
      <4> QED
        BY <1>2, <1>9, <3>1, <3>2, <3>4, <4>1 DEF Taken
    <3> QED
      BY <3>3, <3>4
  <2> QED
    BY <2>1, <2>2
<1>13. ReleasedLate'
  BY <1>2, <1>9 DEF ReplyInv, ReleasedLate
<1>14. SentOrReleased'
  <2> SUFFICES ASSUME NEW q \in Requests, want[q], ~resp'[q].released, q \notin Range(wire)
               PROVE  /\ \A b \in Actors : at'[b] = "written" => Of(b) # q
                      /\ resp'[q].attempted /\ resp'[q].complete => resp'[q].err
    BY <1>2, <1>6 DEF SentOrReleased
  <2>0. ~resp[q].released
    BY <1>9
  <2>1. /\ \A b \in Actors : at[b] = "written" => Of(b) # q
        /\ resp[q].attempted /\ resp[q].complete => resp[q].err
    BY <2>0 DEF ReplyInv, SentOrReleased
  <2>2. \A b \in Actors : at'[b] = "written" => Of(b) # q
    BY <1>5, <2>1
  <2>3. CASE q = r
    <3>1. e
      BY <1>2, <1>4, <1>8, <2>1, <2>3
    <3> QED
      BY <1>9, <2>2, <2>3, <3>1
  <2>4. CASE q # r
    BY <1>9, <2>1, <2>2, <2>4
  <2> QED
    BY <2>3, <2>4
<1>15. \A q \in Requests : (resp[q].complete => resp'[q].complete) /\ (resp[q].attempted => resp'[q].attempted)
  BY <1>9
<1>16. Answered'
  BY <1>2, <1>15 DEF ReplyInv, Answered
<1>17. OverTaken'
  <2>1. Taken(cur) /\ cur \in Requests => Taken(cur)'
    BY <1>2, <1>15 DEF Taken
  <2> QED
    BY <1>1, <1>2, <2>1, CurIsRequest DEF ReplyInv, OverTaken, TypeOK
<1>18. WireInv'
  <2>1. \A b \in Actors : at'[b] = "write" => at[b] = "write"
    BY <1>5
  <2>2. ASSUME NEW i \in 1..Len(wire)
        PROVE  wire[i] <= cur /\ want[wire[i]] /\ resp'[wire[i]].attempted
    <3>1. wire[i] <= cur /\ want[wire[i]] /\ resp[wire[i]].attempted /\ wire[i] \in Requests
      BY <1>1, WireRequest DEF ReplyInv, WireInv
    <3> QED
      BY <1>15, <3>1
  <2> QED
    BY <1>2, <1>6, <2>1, <2>2 DEF ReplyInv, WireInv
<1> QED
  BY <1>2, <1>11, <1>12, <1>13, <1>14, <1>16, <1>17, <1>18 DEF ReplyInv

--------------------------------------------------------------------------------
(* The theorems. *)

LEMMA ReplyInit ==
  ASSUME Init
  PROVE  ReplyInv
<1>1. TypeOK
  <2>1. cur = 0 /\ 0 \in 0..N /\ wire = <<>> /\ <<>> \in Seq(Requests)
    BY NAssumption DEF Init
  <2>2. at \in [Actors -> Places] /\ mode \in [Actors -> Modes]
    BY DEF Init, Places, Modes
  <2> QED
    BY <2>1, <2>2 DEF Init, TypeOK, PCs
<1>2. /\ at[Loop] = "idle" /\ pc = "next" /\ cur = 0 /\ Len(wire) = 0
      /\ \A a \in Actors : at[a] \in {"off", "idle"}
      /\ \A r \in Requests : /\ r > 0 /\ ~resp[r].attempted /\ ~resp[r].complete /\ ~resp[r].released
                             /\ doneClosed[r] = 0
  BY LoopActs DEF Init, Requests
<1>3. PlaceInv /\ WinnerInv
  BY <1>2 DEF PlaceInv, WinnerInv, Busy
<1>4. OwnReply /\ ReleasedLate /\ OverTaken
  BY <1>2 DEF OwnReply, ReleasedLate, OverTaken
<1>5. SentOrReleased /\ Answered
  BY <1>2 DEF SentOrReleased, Answered, Requests
<1>6. WireInv
  BY <1>2 DEF WireInv
<1> QED
  BY <1>1, <1>3, <1>4, <1>5, <1>6 DEF ReplyInv

LEMMA ReplyStep ==
  ASSUME ReplyInv, [Next]_vars
  PROVE  ReplyInv'
<1>0. TypeOK /\ PlaceInv
  BY DEF ReplyInv
<1>1. CASE ConnectionCloses \/ UNCHANGED vars
  BY <1>1, OtherKeeps
<1>2. CASE LoopSteps
  <2>1. CASE TakeRequest \/ TakeUnhandled \/ LoopEnds
    BY <2>1, TakeKeeps
  <2>2. CASE \/ HandlerReturns \/ DefaultRuns \/ DefaultRan \/ ErrorHandlerReturns
             \/ ErrorResponseExpires \/ NextExpires \/ SettleRejects
    BY <2>2, HandlersKeep
  <2>3. CASE EndSteps
    BY <2>3, EndKeeps
  <2> QED
    BY <1>2, <2>1, <2>2, <2>3 DEF LoopSteps, EndSteps
<1>3. ASSUME NEW a \in Actors, CallSteps(a) \/ HandlerResponds(a) \/ ErrorHandlerSends(a) \/ ErrorHandlerCallsNext(a)
      PROVE  ReplyInv'
  <2>1. CASE RespondWins(a)
    BY <2>1, WinsKeeps
  <2>2. CASE ReplyWritten(a) \/ ReplyFails(a)
    BY <2>2, WrittenKeeps
  <2>3. CASE RespondCompletes(a)
    BY <2>3, CompletesKeeps
  <2>4. CASE RespondRefused(a)
    BY <1>0, <2>4, RefusedStep, QuietKeeps
  <2>5. CASE SendCompletes(a) \/ DefaultSends(a) \/ DefaultLeaves(a) \/ NextCompletes(a)
    BY <1>0, <2>5, QuietSteps, QuietKeeps
  <2>6. CASE HandlerResponds(a) \/ ErrorHandlerSends(a) \/ ErrorHandlerCallsNext(a)
    BY <1>0, <2>6, HandlerCalls, QuietKeeps
  <2> QED
    BY <1>3, <2>1, <2>2, <2>3, <2>4, <2>5, <2>6 DEF CallSteps
<1> QED
  BY <1>1, <1>2, <1>3 DEF Next

\* The invariant holds whatever number of requests comes in and whatever goroutines
\* the handlers of handleRequests leave behind.
THEOREM ReplyInvHolds == Spec => []ReplyInv
<1>1. Init => ReplyInv
  BY ReplyInit
<1>2. ReplyInv /\ [Next]_vars => ReplyInv'
  BY ReplyStep
<1> QED
  BY <1>1, <1>2, PTL DEF Spec

\* The replies handleRequests and its handlers send are those of requests that want
\* one, one for each, in the order of the requests: whoever won the response of a
\* request is the only one to write it, and the loop waits for it.
THEOREM RepliesInOrderHolds == Spec => []RepliesInOrder
<1>1. ReplyInv => RepliesInOrder
  BY DEF ReplyInv, WireInv, RepliesInOrder
<1> QED
  BY <1>1, ReplyInvHolds, PTL

\* The loop of handleRequests goes on to the next request only when every earlier one
\* that wants a reply has it, and it stops only with the connection.
THEOREM AnsweredOrClosedHolds == Spec => []AnsweredOrClosed
<1>1. ASSUME ReplyInv PROVE AnsweredOrClosed
  <2>1. cur \in 0..N /\ Answered /\ OverTaken
    BY <1>1 DEF ReplyInv, TypeOK
  <2>2. ASSUME pc = "next", NEW r \in 1..cur, want[r] PROVE r \in Range(wire)
    <3>1. r \in Requests /\ (r < cur \/ r = cur)
      BY <2>1, NAssumption DEF Requests
    <3> QED
      BY <2>1, <2>2, <3>1 DEF Answered
  <2> QED
    BY <2>1, <2>2 DEF AnsweredOrClosed, OverTaken
<1> QED
  BY <1>1, ReplyInvHolds, PTL

\* Whoever waits for a response in requestResponse.wait is woken once the loop is done
\* with the request, or a call that won it is about to wake it, and done is closed at
\* most once.
THEOREM WaitersWokenHolds == Spec => []WaitersWoken
<1>1. ASSUME ReplyInv PROVE WaitersWoken
  <2>1. TypeOK /\ PlaceInv /\ WinnerInv /\ Answered /\ OverTaken
    BY <1>1 DEF ReplyInv
  <2> SUFFICES ASSUME NEW r \in Requests
               PROVE  /\ doneClosed[r] <= 1
                      /\ r < cur \/ (r = cur /\ pc \in {"next", "over"}) =>
                           doneClosed[r] > 0 \/ \E a \in Actors \ {Loop} : a[2] = r /\ at[a] \in {"write", "written", "failed"}
    BY DEF WaitersWoken
  <2>2. doneClosed[r] = IF resp[r].complete THEN 1 ELSE 0
    BY <2>1 DEF WinnerInv
  <2>3. ASSUME r < cur \/ (r = cur /\ pc \in {"next", "over"}), ~resp[r].complete
        PROVE  \E a \in Actors \ {Loop} : a[2] = r /\ at[a] \in {"write", "written", "failed"}
    <3>1. r = cur /\ pc = "over" /\ cur > 0
      BY <2>1, <2>3 DEF Answered, Requests
    <3>2. resp[r].attempted
      BY <2>1, <2>3, <3>1 DEF OverTaken, Taken
    <3>3. PICK a \in Actors : Busy(a) /\ Of(a) = r
      BY <2>1, <2>3, <3>2 DEF WinnerInv
    <3>4. a # Loop
      BY <2>1, <3>1, <3>3 DEF PlaceInv, Busy, LoopCalls
    <3> QED
      BY <3>3, <3>4 DEF Busy, Of
  <2> QED
    BY <2>2, <2>3
<1> QED
  BY <1>1, ReplyInvHolds, PTL
================================================================================
