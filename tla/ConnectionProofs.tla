---------------------------- MODULE ConnectionProofs ----------------------------
(***************************************************************************)
(* For every set of keys and every number of attempts: what the            *)
(* authentication callbacks leave in the context, what the worker of a     *)
(* channel owes the client, and when a copy may cut a direction short.     *)
(***************************************************************************)
EXTENDS Connection, TLAPS

--------------------------------------------------------------------------------
(* The handshake. *)

AuthPlaces == {"banner", "idle", "verified", "finish", "accepted", "up", "serving", "failed"}
AllResults == {"none", "ok", "denied", "partial", "error"}
Accepting == {"ok", "partial"}

\* The values of the variables that the callbacks work on.
AuthTypes ==
  /\ authAt \in AuthPlaces
  /\ attempt \in [method : Methods, key : Keys \cup {NoKey}, result : AllResults,
                  perms : SUBSET (Methods \X (Keys \cup {NoKey})), verified : BOOLEAN]
  /\ cache \in [key : Keys \cup {NoKey}, result : AllResults,
                perms : SUBSET (Methods \X (Keys \cup {NoKey}))]
  /\ keyState \in [candidate : Keys \cup {NoKey}, pending : Keys \cup {NoKey}]
  /\ ctxKey \in Keys \cup {NoKey} /\ proved \in Keys \cup {NoKey} /\ unverified \in BOOLEAN

\* The key the history says publicKeyAuthState must have.
Recorded == IF unverified THEN NoKey ELSE proved

\* The context has that key, and publicKeyAuthState would publish it again after a
\* later factor.
KeyKept == ctxKey = Recorded /\ (authAt # "serving" => keyState.pending = ctxKey)

\* A candidate is there only between the verified signature and the end of its
\* attempt, and an accepted key is never without one.
CandidateMatches ==
  /\ authAt # "finish" => keyState.candidate = NoKey
  /\ authAt = "verified" => attempt.method = "publickey" /\ attempt.key \in Keys /\ ~attempt.verified
  /\ authAt = "finish" =>
       IF attempt.method = "publickey" /\ attempt.verified /\ attempt.result \in Accepting
         THEN keyState.candidate = attempt.key
         ELSE keyState.candidate = NoKey
  /\ authAt = "finish" /\ attempt.method = "publickey" /\ attempt.result = "ok" =>
       attempt.verified /\ attempt.key \in Keys

\* No permissions hold a grant for another method or another key.
GrantsMatch ==
  /\ attempt.perms \subseteq {<<attempt.method, attempt.key>>}
  /\ cache.perms \subseteq {<<"publickey", cache.key>>}
  /\ authAt = "up" => ctxPerms = attempt.perms

\* The inductive invariant of the handshake.
AuthInv == AuthTypes /\ KeyKept /\ CandidateMatches /\ GrantsMatch

\* Nothing has been tried when the handshake begins.
LEMMA AuthStart == AuthInit => AuthInv
<1> SUFFICES ASSUME AuthInit PROVE AuthInv
  OBVIOUS
<1>1. ctxKey = Recorded /\ unverified \in BOOLEAN
  BY DEF AuthInit, Recorded
<1>2. AuthTypes
  BY <1>1 DEF AuthInit, AuthTypes, NoAttempt, NoCache, AuthPlaces, AllResults, Methods
<1>3. KeyKept
  BY <1>1 DEF AuthInit, KeyKept
<1>4. CandidateMatches /\ GrantsMatch
  BY DEF AuthInit, CandidateMatches, GrantsMatch, NoAttempt, NoCache
<1> QED
  BY <1>2, <1>3, <1>4 DEF AuthInv

\* What a callback returns is one of the results, and the permissions it leaves hold
\* its own grant only.
LEMMA CallbackGrants ==
  ASSUME NEW m \in Methods, NEW key \in Keys \cup {NoKey}, NEW result, NEW perms, CallbackRuns(m, key, result, perms)
  PROVE  result \in AllResults \ {"none"} /\ perms \subseteq {<<m, key>>}
<1>1. result \in AllResults \ {"none"}
  BY DEF CallbackRuns, Results, AllResults
<1>2. perms \subseteq {<<m, key>>}
  BY DEF CallbackRuns, beginAuthAttempt
<1> QED
  BY <1>1, <1>2

\* The answer for a key, from the cache or not, is for that key.
LEMMA KeyAnswer ==
  ASSUME AuthInv, NEW key \in Keys, KeyAnswered(key)
  PROVE  /\ cache' \in [key : Keys, result : AllResults, perms : SUBSET (Methods \X (Keys \cup {NoKey}))]
         /\ cache'.key = key /\ cache'.perms \subseteq {<<"publickey", key>>}
<1>1. CASE cache.key = key /\ UNCHANGED cache
  BY <1>1 DEF AuthInv, AuthTypes, GrantsMatch
<1>2. ASSUME NEW result, NEW perms, CallbackRuns("publickey", key, result, perms),
             cache' = [key |-> key, result |-> result, perms |-> perms]
      PROVE  /\ cache' \in [key : Keys, result : AllResults, perms : SUBSET (Methods \X (Keys \cup {NoKey}))]
             /\ cache'.key = key /\ cache'.perms \subseteq {<<"publickey", key>>}
  <2>1. "publickey" \in Methods
    BY DEF Methods
  <2>2. result \in AllResults /\ perms \subseteq {<<"publickey", key>>}
    BY <1>2, <2>1, CallbackGrants
  <2>3. perms \in SUBSET (Methods \X (Keys \cup {NoKey}))
    BY <2>1, <2>2
  <2> QED
    BY <1>2, <2>2, <2>3
<1> QED
  BY <1>1, <1>2 DEF KeyAnswered

\* publicKeyAuthState.finishAttempt leaves in the context the key that the history
\* says is proved.
LEMMA FinishKeeps ==
  ASSUME AuthInv, AttemptFinished
  PROVE  /\ ctxKey' = Recorded' /\ keyState'.pending = ctxKey'
         /\ keyState' \in [candidate : Keys \cup {NoKey}, pending : Keys \cup {NoKey}]
         /\ keyState'.candidate = NoKey
<1> USE DEF AuthInv, AuthTypes, KeyKept, Recorded, CandidateMatches, Accepting
<1>0. authAt = "finish" /\ finishAttempt(attempt.method, attempt.result)
  BY DEF AttemptFinished
<1>p. Recorded' = IF attempt.method = "publickey" /\ attempt.result \in {"ok", "partial"}
                    THEN IF attempt.verified THEN attempt.key ELSE NoKey
                    ELSE Recorded
  <2>1. CASE attempt.method = "publickey" /\ attempt.result \in {"ok", "partial"}
    <3>1. proved' = attempt.key /\ (unverified' <=> ~attempt.verified)
      BY <2>1, Zenon DEF AttemptFinished
    <3> QED
      BY <2>1, <3>1 DEF Recorded
  <2>2. CASE ~(attempt.method = "publickey" /\ attempt.result \in {"ok", "partial"})
    <3>1. proved' = proved /\ unverified' = unverified
      BY <2>2, Zenon DEF AttemptFinished, historyVars
    <3> QED
      BY <2>2, <3>1 DEF Recorded
  <2> QED
    BY <2>1, <2>2
<1>1. CASE attempt.method # "publickey"
  BY <1>0, <1>1, <1>p DEF finishAttempt
<1>2. CASE attempt.method = "publickey" /\ attempt.result = "ok"
  <2>1. keyState.candidate = attempt.key /\ attempt.key # NoKey
    BY <1>0, <1>2, AuthAssumption
  <2> QED
    BY <1>0, <1>2, <1>p, <2>1 DEF finishAttempt
<1>3. CASE attempt.method = "publickey" /\ attempt.result = "partial"
  BY <1>0, <1>3, <1>p DEF finishAttempt
<1>4. CASE attempt.method = "publickey" /\ attempt.result \notin {"ok", "partial"}
  BY <1>0, <1>4, <1>p DEF finishAttempt
<1> QED
  BY <1>1, <1>2, <1>3, <1>4

\* Every step of the handshake keeps the invariant.
LEMMA AuthStep == AuthInv /\ AuthNext => AuthInv'
<1> SUFFICES ASSUME AuthInv, AuthNext PROVE AuthInv'
  OBVIOUS
<1> USE AuthAssumption DEF AuthPlaces, Methods
<1>1. CASE BannerCalled
  BY <1>1 DEF BannerCalled, historyVars, setupVars, ctxVars, AuthInv, AuthTypes, KeyKept, Recorded, CandidateMatches, GrantsMatch
<1>2. ASSUME NEW m \in Methods, SimpleRequest(m) PROVE AuthInv'
  <2>1. PICK result, perms : /\ CallbackRuns(m, NoKey, result, perms)
                             /\ attempt' = [NoAttempt EXCEPT !.method = m, !.result = result, !.perms = perms]
    BY <1>2 DEF SimpleRequest
  <2>2. result \in AllResults /\ perms \subseteq {<<m, NoKey>>}
    BY <2>1, CallbackGrants
  <2>3. /\ attempt'.method = m /\ attempt'.key = NoKey /\ attempt'.perms = perms /\ attempt'.result = result
        /\ attempt' \in [method : Methods, key : Keys \cup {NoKey}, result : AllResults,
                         perms : SUBSET (Methods \X (Keys \cup {NoKey})), verified : BOOLEAN]
    <3>1. perms \in SUBSET (Methods \X (Keys \cup {NoKey}))
      BY <2>2
    <3> QED
      BY <2>1, <2>2, <3>1 DEF NoAttempt
  <2>4. authAt = "idle" /\ authAt' = "finish" /\ m # "publickey" /\ UNCHANGED <<cache, keyState, ctxKey, proved, unverified>>
    BY <1>2 DEF SimpleRequest, Requests, historyVars
  <2> QED
    BY <2>2, <2>3, <2>4 DEF AuthInv, AuthTypes, KeyKept, Recorded, CandidateMatches, GrantsMatch
<1>3. ASSUME NEW key \in Keys, KeyQueried(key) PROVE AuthInv'
  <2>1. /\ cache' \in [key : Keys, result : AllResults, perms : SUBSET (Methods \X (Keys \cup {NoKey}))]
        /\ cache'.key = key /\ cache'.perms \subseteq {<<"publickey", key>>}
    BY <1>3, KeyAnswer DEF KeyQueried
  <2>2. authAt = "idle" /\ UNCHANGED <<keyState, ctxKey, proved, unverified>>
    BY <1>3 DEF KeyQueried, Requests, historyVars
  <2>3. CASE cache'.result \in {"ok", "partial"}
    <3>1. authAt' \in {"idle", "failed"} /\ UNCHANGED attempt
      BY <1>3, <2>3 DEF KeyQueried
    <3> QED
      BY <2>1, <2>2, <3>1 DEF AuthInv, AuthTypes, KeyKept, Recorded, CandidateMatches, GrantsMatch
  <2>4. CASE cache'.result \notin {"ok", "partial"}
    <3>1. /\ attempt' = [NoAttempt EXCEPT !.method = "publickey", !.key = key, !.result = cache'.result]
          /\ authAt' = "finish"
      BY <1>3, <2>4 DEF KeyQueried
    <3> QED
      BY <2>1, <2>2, <2>4, <3>1 DEF AuthInv, AuthTypes, KeyKept, Recorded, CandidateMatches, GrantsMatch, NoAttempt, Accepting
  <2> QED
    BY <2>3, <2>4
<1>4. ASSUME NEW key \in Keys, KeySigned(key) PROVE AuthInv'
  <2>1. /\ cache' \in [key : Keys, result : AllResults, perms : SUBSET (Methods \X (Keys \cup {NoKey}))]
        /\ cache'.key = key /\ cache'.perms \subseteq {<<"publickey", key>>}
    BY <1>4, KeyAnswer DEF KeySigned
  <2>2. /\ authAt = "idle" /\ UNCHANGED <<keyState, ctxKey, proved, unverified>>
        /\ attempt' = [NoAttempt EXCEPT !.method = "publickey", !.key = key,
                                        !.result = cache'.result, !.perms = cache'.perms]
        /\ authAt' = IF cache'.result = "ok" THEN "verified" ELSE "finish"
    BY <1>4 DEF KeySigned, Requests, historyVars
  <2> QED
    BY <2>1, <2>2 DEF AuthInv, AuthTypes, KeyKept, Recorded, CandidateMatches, GrantsMatch, NoAttempt
<1>5. CASE KeyVerified
  <2>1. PICK result \in {"ok", "denied", "partial"} :
          /\ recordVerified(attempt.key, result)
          /\ attempt' = [attempt EXCEPT !.result = result, !.verified = TRUE]
    BY <1>5 DEF KeyVerified, Results
  <2>2. authAt = "verified" /\ authAt' = "finish" /\ UNCHANGED <<cache, ctxKey, proved, unverified>>
    BY <1>5 DEF KeyVerified, historyVars
  <2> QED
    BY <2>1, <2>2 DEF recordVerified, AuthInv, AuthTypes, KeyKept, Recorded, CandidateMatches, GrantsMatch, Accepting, AllResults
<1>6. CASE AttemptFinished
  <2>1. /\ authAt = "finish" /\ authAt' \in {"failed", "accepted", "idle"}
        /\ UNCHANGED attempt /\ cache' \in {cache, NoCache}
    BY <1>6 DEF AttemptFinished
  <2>2. proved' \in Keys \cup {NoKey} /\ unverified' \in BOOLEAN
    BY <1>6 DEF AttemptFinished, AuthInv, AuthTypes, historyVars
  <2> QED
    BY <1>6, <2>1, <2>2, FinishKeeps DEF AuthInv, AuthTypes, KeyKept, Recorded, CandidateMatches, GrantsMatch, NoCache, AllResults
<1>7. CASE PermissionsPublished
  BY <1>7 DEF PermissionsPublished, historyVars, AuthInv, AuthTypes, KeyKept, Recorded, CandidateMatches, GrantsMatch
<1>8. CASE HandshakeFails
  BY <1>8 DEF HandshakeFails, historyVars, ctxVars, AuthInv, AuthTypes, KeyKept, Recorded, CandidateMatches, GrantsMatch
<1> QED
  BY <1>1, <1>2, <1>3, <1>4, <1>5, <1>6, <1>7, <1>8 DEF AuthNext

\* The invariant holds in every state of a connection.
LEMMA AuthInvariant == Spec => []AuthInv
<1>1. Init => AuthInv
  BY AuthStart DEF Init
<1>2. AuthInv /\ [Next]_vars => AuthInv'
  <2> SUFFICES ASSUME AuthInv, [Next]_vars PROVE AuthInv'
    OBVIOUS
  <2>1. CASE AuthNext
    BY <2>1, AuthStep
  <2>2. CASE ServingBegins
    BY <2>2, AuthAssumption DEF ServingBegins, historyVars, ctxVars, AuthInv, AuthTypes, KeyKept, Recorded, CandidateMatches, GrantsMatch,
       AuthPlaces, Methods, NoAttempt, NoCache, AllResults
  <2>3. CASE UNCHANGED authVars
    BY <2>3 DEF authVars, historyVars, ctxVars, AuthInv, AuthTypes, KeyKept, Recorded, CandidateMatches, GrantsMatch
  <2> QED
    BY <2>1, <2>2, <2>3 DEF Next, vars
<1> QED
  BY <1>1, <1>2, PTL DEF Spec

\* Context.PublicKey is, between attempts and on the connection, the key of the last
\* factor with a good signature that was not refused, unless that factor was a partial
\* success of PublicKeyCallback itself, after which it is none (publicKeyAuthState).
THEOREM KeyIsProvedHolds == Spec => []KeyIsProved
<1>1. AuthInv => KeyIsProved
  BY DEF AuthInv, KeyKept, Recorded, KeyIsProved
<1> QED
  BY <1>1, AuthInvariant, PTL

\* The permissions of the connection hold no grant that was made for another method or
\* another key than it authenticated with (beginAuthAttempt, publishAuthPermissions).
THEOREM OnlyWinnersGrantsHolds == Spec => []OnlyWinnersGrants
<1>1. AuthInv => OnlyWinnersGrants
  BY DEF AuthInv, GrantsMatch, OnlyWinnersGrants
<1> QED
  BY <1>1, AuthInvariant, PTL

--------------------------------------------------------------------------------
(* The answer to a channel open. *)

WorkerPlaces == {"off", "handler", "rejecting", "accepting", "copy", "judge", "dispatch", "unhandled",
                 "unhandledRejecting", "report", "final", "leave", "release", "over"}

WriterStates == [at : {"idle", "write", "written", "done"}, what : {"none", "accept", "reject"}, failed : BOOLEAN]
TrackedStates == [attempted : BOOLEAN, complete : BOOLEAN, failed : BOOLEAN, accepted : BOOLEAN]
ResponseStates == [active : BOOLEAN, attempted : BOOLEAN, complete : BOOLEAN, close : BOOLEAN, failed : BOOLEAN]

\* The values of the variables that an answer goes through.
AnswerTypes ==
  /\ worker \in WorkerPlaces /\ wire \in {"none", "accept", "reject"}
  /\ tracked \in TrackedStates
  /\ writer \in [Writers -> WriterStates]
  /\ response \in ResponseStates
  /\ chanClosed \in BOOLEAN /\ connClosed \in BOOLEAN

\* Only the first of the goroutines that want to answer does.
OneAnswer ==
  /\ \A v, w \in Writers : writer[v].at # "idle" /\ writer[w].at # "idle" => v = w
  /\ tracked.attempted => \E w \in Writers : writer[w].at # "idle"
  /\ ~tracked.attempted => wire = "none" /\ ~tracked.complete /\ \A w \in Writers : writer[w].at = "idle"

\* What trackedNewChannel knows of the answer, and what the client has of it.
AnswerKnown ==
  \A w \in Writers : writer[w].at # "idle" =>
    /\ writer[w].what # "none"
    /\ tracked.complete <=> writer[w].at = "done"
    /\ writer[w].at = "write" => wire = "none"
    /\ writer[w].at \in {"written", "done"} => wire = IF writer[w].failed THEN "none" ELSE writer[w].what
    /\ writer[w].at = "done" =>
         /\ tracked.failed = writer[w].failed
         /\ worker \notin {"release", "over"} => tracked.accepted = (writer[w].what = "accept" /\ ~writer[w].failed)

\* The open was answered for certain.
Answered == tracked.attempted /\ tracked.complete /\ ~tracked.failed

\* What is certain when the worker gets to its end: an error response that is complete
\* found an answer, and the worker leaves with an answer or without the connection.
LeavesAnswered ==
  /\ response.complete => tracked.attempted
  /\ worker = "final" => tracked.attempted \/ verdict # "continue"
  /\ worker \in {"leave", "release", "over"} => Answered \/ connClosed
  /\ worker \in {"release", "over"} /\ wire = "accept" => chanClosed \/ connClosed

\* The inductive invariant of the answers.
AnswerInv == AnswerTypes /\ OneAnswer /\ AnswerKnown /\ LeavesAnswered

\* Nothing is answered yet.
LEMMA AnswerStart == WorkerInit => AnswerInv
<1> SUFFICES ASSUME WorkerInit PROVE AnswerInv
  OBVIOUS
<1>1. AnswerTypes
  BY DEF WorkerInit, AnswerTypes, WriterStates, TrackedStates, ResponseStates, WorkerPlaces, NoAnswer, NoResponse
<1>2. OneAnswer /\ AnswerKnown
  BY DEF WorkerInit, OneAnswer, AnswerKnown, NoAnswer
<1>3. LeavesAnswered
  BY DEF WorkerInit, LeavesAnswered, NoResponse
<1> QED
  BY <1>1, <1>2, <1>3 DEF AnswerInv

\* A goroutine that begins an answer is the first one.
LEMMA BeginsFirst ==
  ASSUME AnswerInv, NEW w \in Writers, NEW what \in {"accept", "reject"}, beginAnswer(w, what)
  PROVE  /\ OneAnswer' /\ AnswerKnown'
         /\ writer' \in [Writers -> WriterStates]
         /\ tracked' = [tracked EXCEPT !.attempted = TRUE] /\ ~tracked.attempted /\ wire' = "none"
<1>1. /\ writer'[w] = [at |-> "write", what |-> what, failed |-> FALSE]
      /\ \A v \in Writers \ {w} : writer'[v].at = "idle"
      /\ writer' \in [Writers -> WriterStates]
      /\ tracked' = [tracked EXCEPT !.attempted = TRUE] /\ ~tracked.attempted /\ wire = "none" /\ wire' = "none"
  BY DEF beginAnswer, AnswerInv, AnswerTypes, WriterStates, OneAnswer, NoAnswer
<1>2. tracked'.attempted /\ tracked'.complete = tracked.complete
  BY <1>1 DEF AnswerInv, AnswerTypes, TrackedStates
<1>3. ~tracked.complete
  BY <1>1 DEF AnswerInv, OneAnswer
<1>4. OneAnswer'
  BY <1>1, <1>2 DEF OneAnswer
<1>5. AnswerKnown'
  BY <1>1, <1>2, <1>3 DEF AnswerKnown
<1> QED
  BY <1>1, <1>4, <1>5

\* A step that does not answer keeps the invariant if it keeps what the worker may
\* rely on at its end and does not take it back from there.
LEMMA AnswerFrame ==
  ASSUME AnswerInv, UNCHANGED answerVars, worker \in {"release", "over"} => worker' \in {"release", "over"},
         worker' \in WorkerPlaces, response' \in ResponseStates, chanClosed' \in BOOLEAN, connClosed' \in BOOLEAN,
         LeavesAnswered'
  PROVE  AnswerInv'
  BY DEF answerVars, AnswerInv, AnswerTypes, OneAnswer, AnswerKnown

\* The places of a worker that has judged the answer.
Judged == {"final", "leave", "release", "over"}

\* So does a step of a worker that has not judged the answer, or of anybody else, that
\* completes no error response.
LEMMA QuietStep ==
  ASSUME AnswerInv, UNCHANGED <<answerVars, verdict>>,
         worker' = worker \/ (worker \notin Judged /\ worker' \in WorkerPlaces \ Judged),
         response' \in ResponseStates, response'.complete = response.complete,
         chanClosed' \in BOOLEAN, connClosed' \in BOOLEAN, chanClosed => chanClosed', connClosed => connClosed'
  PROVE  AnswerInv'
<1>1. worker \in WorkerPlaces
  BY DEF AnswerInv, AnswerTypes
<1>2. LeavesAnswered'
  BY DEF answerVars, AnswerInv, LeavesAnswered, Answered, Judged
<1> QED
  BY <1>1, <1>2, AnswerFrame DEF Judged, WorkerPlaces

\* Every step of a worker, and of what its handlers leave behind, keeps the invariant.
LEMMA AnswerStep == AnswerInv /\ WorkerNext => AnswerInv'
<1> SUFFICES ASSUME AnswerInv, WorkerNext PROVE AnswerInv'
  OBVIOUS
<1> USE DEF answerVars, reportVars, peerVars
<1>0. response \in ResponseStates /\ chanClosed \in BOOLEAN /\ connClosed \in BOOLEAN
  BY DEF AnswerInv, AnswerTypes
<1>1. CASE ChannelOpened
  BY <1>0, <1>1, QuietStep DEF ChannelOpened, Judged, WorkerPlaces
<1>2. CASE HandlerFails
  BY <1>0, <1>2, QuietStep DEF HandlerFails, Returns, Judged, WorkerPlaces
<1>3. CASE HandlerTooLate
  BY <1>0, <1>3, QuietStep DEF HandlerTooLate, Returns, Judged, WorkerPlaces
<1>4. CASE HandlerRejected
  BY <1>0, <1>4, QuietStep DEF HandlerRejected, Returns, Judged, WorkerPlaces
<1>5. CASE HandlerNotAccepted
  BY <1>0, <1>5, QuietStep DEF HandlerNotAccepted, Returns, Judged, WorkerPlaces
<1>6. CASE HandlerCopies
  BY <1>0, <1>6, QuietStep DEF HandlerCopies, Judged, WorkerPlaces
<1>7. CASE CopySteps
  BY <1>0, <1>7, QuietStep DEF CopySteps, ownVars, Judged, WorkerPlaces
<1>8. CASE HandlerCopied
  BY <1>0, <1>8, QuietStep DEF HandlerCopied, Returns, Judged, WorkerPlaces
<1>9. CASE ErrorResponds
  BY <1>0, <1>9, QuietStep DEF ErrorResponds, Judged, WorkerPlaces, ResponseStates
<1>10. CASE ClientCloses
  BY <1>0, <1>10, QuietStep DEF ClientCloses, Judged, WorkerPlaces
<1>11. CASE ConnectionLost
  BY <1>0, <1>11, QuietStep DEF ConnectionLost, Judged, WorkerPlaces
<1>12. CASE AnswerJudged
  <2>1. LeavesAnswered'
    BY <1>12 DEF AnswerJudged, AnswerInv, AnswerTypes, LeavesAnswered, Answered, answerErr, NoResponse, TrackedStates
  <2>2. worker' \in WorkerPlaces /\ response' \in ResponseStates
    BY <1>12 DEF AnswerJudged, WorkerPlaces, NoResponse, ResponseStates
  <2> QED
    BY <1>0, <1>12, <2>1, <2>2, AnswerFrame DEF AnswerJudged
<1>13. CASE AnswerReported
  <2>1. LeavesAnswered'
    BY <1>13 DEF AnswerReported, AnswerInv, LeavesAnswered
  <2> QED
    BY <1>0, <1>13, <2>1, AnswerFrame DEF AnswerReported, WorkerPlaces
<1>14. CASE ResponseSettles
  <2>1. tracked.attempted
    BY <1>14 DEF ResponseSettles, AnswerInv, OneAnswer, Writers
  <2>2. LeavesAnswered'
    BY <1>14, <2>1 DEF ResponseSettles, AnswerInv, LeavesAnswered, Answered
  <2>3. response' \in ResponseStates
    BY <1>0, <1>14 DEF ResponseSettles, AnswerInv, AnswerTypes, ResponseStates, WriterStates, Writers
  <2>4. worker' = worker /\ worker \in WorkerPlaces
    BY <1>14 DEF ResponseSettles, AnswerInv, AnswerTypes
  <2> QED
    BY <1>0, <1>14, <2>2, <2>3, <2>4, AnswerFrame DEF ResponseSettles
<1>15. CASE ErrorHandlerReturns
  <2>1. response' = [response EXCEPT !.active = FALSE] /\ worker' = IF response.attempted THEN "final" ELSE "unhandled"
    BY <1>15 DEF ErrorHandlerReturns
  <2>2. response.attempted /\ ~response.complete => verdict' = "error"
    BY <1>15 DEF ErrorHandlerReturns
  <2>3. LeavesAnswered'
    BY <1>0, <1>15, <2>1, <2>2 DEF ErrorHandlerReturns, AnswerInv, LeavesAnswered, ResponseStates
  <2> QED
    BY <1>0, <1>15, <2>1, <2>3, AnswerFrame DEF ErrorHandlerReturns, WorkerPlaces, ResponseStates
<1>16. CASE UnhandledRejected
  <2>1. tracked.attempted
    BY <1>16 DEF UnhandledRejected, AnswerInv, OneAnswer, Writers
  <2>2. LeavesAnswered'
    BY <1>16, <2>1 DEF UnhandledRejected, AnswerInv, LeavesAnswered
  <2> QED
    BY <1>0, <1>16, <2>2, AnswerFrame DEF UnhandledRejected, WorkerPlaces
<1>17. CASE ErrorJudged
  <2>1. LeavesAnswered'
    BY <1>0, <1>17 DEF ErrorJudged, AnswerInv, AnswerTypes, LeavesAnswered, Answered, answerErr, TrackedStates
  <2> QED
    BY <1>0, <1>17, <2>1, AnswerFrame DEF ErrorJudged, WorkerPlaces
<1>18. CASE SlotReleased
  <2>1. LeavesAnswered'
    BY <1>18 DEF SlotReleased, AnswerInv, LeavesAnswered, Answered
  <2> QED
    BY <1>0, <1>18, <2>1, AnswerFrame DEF SlotReleased, WorkerPlaces
<1>19. CASE HelperAnswers
  <2> USE <1>19 DEF HelperAnswers
  <2>1. "helper" \in Writers /\ \E what \in {"accept", "reject"} : beginAnswer("helper", what)
    BY DEF Writers
  <2>2. /\ OneAnswer' /\ AnswerKnown' /\ writer' \in [Writers -> WriterStates] /\ wire' = "none"
        /\ tracked' = [tracked EXCEPT !.attempted = TRUE] /\ ~tracked.attempted
    BY <2>1, BeginsFirst
  <2>3. AnswerTypes'
    BY <2>2 DEF AnswerInv, AnswerTypes, TrackedStates, WorkerPlaces
  <2>4. LeavesAnswered'
    BY <2>2 DEF AnswerInv, AnswerTypes, LeavesAnswered, Answered, TrackedStates
  <2> QED
    BY <2>2, <2>3, <2>4 DEF AnswerInv
<1>20. CASE HandlerRejects
  <2> USE <1>20 DEF HandlerRejects
  <2>1. "worker" \in Writers /\ \E what \in {"accept", "reject"} : beginAnswer("worker", what)
    BY DEF Writers
  <2>2. /\ OneAnswer' /\ AnswerKnown' /\ writer' \in [Writers -> WriterStates] /\ wire' = "none"
        /\ tracked' = [tracked EXCEPT !.attempted = TRUE] /\ ~tracked.attempted
    BY <2>1, BeginsFirst
  <2>3. AnswerTypes'
    BY <2>2 DEF AnswerInv, AnswerTypes, TrackedStates, WorkerPlaces
  <2>4. LeavesAnswered'
    BY <2>2 DEF AnswerInv, AnswerTypes, LeavesAnswered, Answered, TrackedStates
  <2> QED
    BY <2>2, <2>3, <2>4 DEF AnswerInv
<1>21. CASE HandlerAccepts
  <2> USE <1>21 DEF HandlerAccepts
  <2>1. "worker" \in Writers /\ \E what \in {"accept", "reject"} : beginAnswer("worker", what)
    BY DEF Writers
  <2>2. /\ OneAnswer' /\ AnswerKnown' /\ writer' \in [Writers -> WriterStates] /\ wire' = "none"
        /\ tracked' = [tracked EXCEPT !.attempted = TRUE] /\ ~tracked.attempted
    BY <2>1, BeginsFirst
  <2>3. AnswerTypes'
    BY <2>2 DEF AnswerInv, AnswerTypes, TrackedStates, WorkerPlaces
  <2>4. LeavesAnswered'
    BY <2>2 DEF AnswerInv, AnswerTypes, LeavesAnswered, Answered, TrackedStates
  <2> QED
    BY <2>2, <2>3, <2>4 DEF AnswerInv
<1>22. CASE ResponseBegins
  <2> USE <1>22 DEF ResponseBegins
  <2>1. "responder" \in Writers /\ \E what \in {"accept", "reject"} : beginAnswer("responder", what)
    BY DEF Writers
  <2>2. /\ OneAnswer' /\ AnswerKnown' /\ writer' \in [Writers -> WriterStates] /\ wire' = "none"
        /\ tracked' = [tracked EXCEPT !.attempted = TRUE] /\ ~tracked.attempted
    BY <2>1, BeginsFirst
  <2>3. AnswerTypes'
    BY <2>2 DEF AnswerInv, AnswerTypes, TrackedStates, WorkerPlaces
  <2>4. LeavesAnswered'
    BY <2>2 DEF AnswerInv, AnswerTypes, LeavesAnswered, Answered, TrackedStates
  <2> QED
    BY <2>2, <2>3, <2>4 DEF AnswerInv
<1>23. CASE RejectsUnhandled
  <2> USE <1>23 DEF RejectsUnhandled
  <2>1. CASE tracked.attempted
    <3>1. UNCHANGED answerVars /\ worker' = "final" /\ worker = "unhandled"
      BY <2>1 DEF beginAnswer
    <3>2. LeavesAnswered'
      BY <2>1, <3>1 DEF AnswerInv, LeavesAnswered
    <3> QED
      BY <1>0, <3>1, <3>2, AnswerFrame DEF WorkerPlaces
  <2>2. CASE ~tracked.attempted
    <3>1. "worker" \in Writers /\ beginAnswer("worker", "reject") /\ worker' = "unhandledRejecting"
      BY <2>2 DEF Writers
    <3>2. /\ OneAnswer' /\ AnswerKnown' /\ writer' \in [Writers -> WriterStates] /\ wire' = "none"
          /\ tracked' = [tracked EXCEPT !.attempted = TRUE] /\ ~tracked.attempted
      BY <3>1, BeginsFirst
    <3>3. AnswerTypes'
      BY <3>1, <3>2 DEF AnswerInv, AnswerTypes, TrackedStates, WorkerPlaces
    <3>4. LeavesAnswered'
      BY <3>1, <3>2 DEF AnswerInv, AnswerTypes, LeavesAnswered, TrackedStates
    <3> QED
      BY <3>2, <3>3, <3>4 DEF AnswerInv
  <2> QED
    BY <2>1, <2>2
<1>24. CASE AcceptedClosed
  <2> USE <1>24 DEF AcceptedClosed
  <2>1. AnswerTypes'
    BY DEF AnswerInv, AnswerTypes, TrackedStates, WorkerPlaces
  <2>2. OneAnswer' /\ AnswerKnown'
    BY DEF AnswerInv, AnswerTypes, OneAnswer, AnswerKnown, TrackedStates
  <2>3. wire = "accept" => tracked.accepted \/ connClosed
    BY DEF AnswerInv, AnswerTypes, OneAnswer, AnswerKnown, LeavesAnswered, Answered
  <2>4. LeavesAnswered'
    BY <2>3 DEF AnswerInv, AnswerTypes, LeavesAnswered, Answered, TrackedStates
  <2> QED
    BY <2>1, <2>2, <2>4 DEF AnswerInv
<1>25. ASSUME NEW w \in Writers, AnswerWritten(w) PROVE AnswerInv'
  <2>1. PICK f \in BOOLEAN : /\ writer' = [writer EXCEPT ![w].at = "written", ![w].failed = f]
                            /\ wire' = IF f THEN wire ELSE writer[w].what
    BY <1>25 DEF AnswerWritten
  <2>2. writer[w].at = "write" /\ UNCHANGED <<worker, tracked, response, verdict, chanClosed, connClosed>>
    BY <1>25 DEF AnswerWritten
  <2>3. wire' = IF f THEN wire ELSE writer[w].what
    BY <2>1
  <2>4. /\ writer' \in [Writers -> WriterStates]
        /\ writer'[w].at = "written" /\ writer'[w].what = writer[w].what /\ writer'[w].failed = f
        /\ \A v \in Writers \ {w} : writer'[v] = writer[v]
    <3>1. writer \in [Writers -> WriterStates]
      BY DEF AnswerInv, AnswerTypes
    <3> QED
      BY <2>1, <3>1 DEF WriterStates
  <2>5. AnswerTypes'
    BY <2>2, <2>3, <2>4 DEF AnswerInv, AnswerTypes, WriterStates
  <2>6. /\ \A v \in Writers \ {w} : writer[v].at = "idle"
        /\ tracked.attempted /\ ~tracked.complete /\ wire = "none" /\ writer[w].what # "none"
    BY <2>2 DEF AnswerInv, AnswerTypes, OneAnswer, AnswerKnown
  <2>7. OneAnswer' /\ AnswerKnown'
    BY <2>2, <2>3, <2>4, <2>6 DEF OneAnswer, AnswerKnown
  <2>8. LeavesAnswered'
    BY <2>2, <2>6 DEF AnswerInv, LeavesAnswered, Answered
  <2> QED
    BY <2>5, <2>7, <2>8 DEF AnswerInv
<1>26. ASSUME NEW w \in Writers, AnswerCompleted(w) PROVE AnswerInv'
  <2> USE <1>26 DEF AnswerCompleted
  <2>1. AnswerTypes'
    BY DEF AnswerInv, AnswerTypes, WriterStates, TrackedStates
  <2>2. /\ writer'[w] = [at |-> "done", what |-> writer[w].what, failed |-> writer[w].failed]
        /\ \A v \in Writers \ {w} : writer'[v] = writer[v] /\ writer[v].at = "idle"
        /\ tracked.attempted /\ ~tracked.complete /\ writer[w].what # "none"
        /\ wire = IF writer[w].failed THEN "none" ELSE writer[w].what
        /\ tracked' = [attempted |-> TRUE, complete |-> TRUE, failed |-> writer[w].failed,
                       accepted |-> writer[w].what = "accept" /\ ~writer[w].failed]
    BY DEF AnswerInv, AnswerTypes, OneAnswer, AnswerKnown, WriterStates, TrackedStates
  <2>3. OneAnswer' /\ AnswerKnown'
    BY <2>2 DEF OneAnswer, AnswerKnown
  <2>4. LeavesAnswered'
    BY <2>2 DEF AnswerInv, LeavesAnswered, Answered
  <2> QED
    BY <2>1, <2>3, <2>4 DEF AnswerInv
<1> QED
  BY <1>1, <1>2, <1>3, <1>4, <1>5, <1>6, <1>7, <1>8, <1>9, <1>10, <1>11, <1>12, <1>13, <1>14, <1>15, <1>16, <1>17, <1>18, <1>19, <1>20, <1>21, <1>22, <1>23, <1>24, <1>25, <1>26 DEF WorkerNext, HandlerSteps, ReportSteps, ResponderSteps

\* The invariant holds in every state of a connection.
LEMMA AnswerInvariant == Spec => []AnswerInv
<1>1. Init => AnswerInv
  BY AnswerStart DEF Init
<1>2. AnswerInv /\ [Next]_vars => AnswerInv'
  <2> SUFFICES ASSUME AnswerInv, [Next]_vars PROVE AnswerInv'
    OBVIOUS
  <2>1. CASE WorkerNext
    BY <2>1, AnswerStep
  <2>2. CASE UNCHANGED workerVars
    BY <2>2 DEF workerVars, ownVars, answerVars, reportVars, peerVars, AnswerInv, AnswerTypes, OneAnswer, AnswerKnown,
       LeavesAnswered, Answered
  <2> QED
    BY <2>1, <2>2 DEF Next, ServingBegins, vars
<1> QED
  BY <1>1, <1>2, PTL DEF Spec

\* A worker that is over has answered the open or has cost the connection, whoever
\* answered, failed to or began too late (trackedNewChannel).
THEOREM OpenAnsweredHolds == Spec => []OpenAnswered
<1>1. AnswerInv => OpenAnswered
  BY DEF AnswerInv, AnswerTypes, OneAnswer, AnswerKnown, LeavesAnswered, Answered, OpenAnswered, WriterStates
<1> QED
  BY <1>1, AnswerInvariant, PTL

\* A channel whose slot was given back is closed, or its connection is, also one that a
\* goroutine accepted after the worker had judged its answer (closeAccepted).
THEOREM ReleasedIsClosedHolds == Spec => []ReleasedIsClosed
<1>1. AnswerInv => ReleasedIsClosed
  BY DEF AnswerInv, LeavesAnswered, ReleasedIsClosed
<1> QED
  BY <1>1, AnswerInvariant, PTL

--------------------------------------------------------------------------------
(* The copy. *)

\* How many callbacks a direction at this place has put into the observer's queue.
Queued(place) == IF place \in {"off", "start"} THEN 0 ELSE IF place \in {"copy", "closeWrite", "end"} THEN 1 ELSE 2

\* The values of the variables of FullDuplexCopy.
CopyTypes ==
  /\ copyAt \in {"off", "copying", "returned"}
  /\ dir \in [Dirs -> {"off", "start", "copy", "closeWrite", "end", "done", "counted"}]
  /\ dirErr \in [Dirs -> BOOLEAN] /\ halfCloses \subseteq Dirs
  /\ observed \in BOOLEAN /\ observer \in Int
  /\ streamsClosed \in BOOLEAN /\ copyErr \in BOOLEAN /\ ctxSeen \in BOOLEAN

\* Before a copy nothing is closed, and no copy is there before the channel.
CopyOff == /\ worker = "off" => copyAt = "off"
           /\ copyAt = "off" => ~streamsClosed /\ ~copyErr /\ ~observed /\ \A d \in Dirs : dir[d] = "off"

\* Everything in the queue was put there by OnStart, a direction or OnEnd.
QueueCounts ==
  observed => observer <= 1 + Queued(dir["l2r"]) + Queued(dir["r2l"]) + (IF copyAt = "returned" THEN 1 ELSE 0)

\* The inductive invariant of the copy.
CopyInv == CopyTypes /\ CopyOff /\ QueueCounts /\ OtherDirectionKept

\* Whenever a goroutine of a copy has a callback to put into the observer's queue there
\* is room for it, although the observer may never take one: the capacity is the number
\* of callbacks (copy.go, observe).
ObserverHasRoom ==
  observed /\ copyAt = "copying" /\ (\/ \E d \in Dirs : dir[d] \in {"start", "end"}
                                    \/ \A d \in Dirs : dir[d] = "counted") => observer < ObserverCap

\* A direction puts two callbacks into the queue.
LEMMA QueuedRange == \A place : Queued(place) \in 0..2
  BY DEF Queued

\* No copy is there yet.
LEMMA CopyStart == WorkerInit => CopyInv
<1> SUFFICES ASSUME WorkerInit PROVE CopyInv
  OBVIOUS
<1>0. CopyInit /\ worker = "off"
  BY DEF WorkerInit
<1>1. CopyTypes
  <2>1. dirErr \in [Dirs -> BOOLEAN] /\ halfCloses \subseteq Dirs
    BY <1>0 DEF CopyInit
  <2>2. dir \in [Dirs -> {"off", "start", "copy", "closeWrite", "end", "done", "counted"}] /\ observer \in Int
    BY <1>0 DEF CopyInit
  <2>3. observed \in BOOLEAN /\ streamsClosed \in BOOLEAN /\ copyErr \in BOOLEAN /\ ctxSeen \in BOOLEAN
    BY <1>0 DEF CopyInit
  <2>4. copyAt \in {"off", "copying", "returned"}
    BY <1>0 DEF CopyInit
  <2> QED
    BY <2>1, <2>2, <2>3, <2>4 DEF CopyTypes
<1>3. CopyOff
  BY <1>0 DEF CopyInit, CopyOff
<1>2. QueueCounts /\ OtherDirectionKept
  BY DEF WorkerInit, CopyInit, QueueCounts, OtherDirectionKept
<1> QED
  BY <1>1, <1>2, <1>3 DEF CopyInv

\* A step of the worker or of anybody else outside the copy keeps the invariant: its
\* context only ends.
LEMMA CopyFrame ==
  ASSUME CopyInv, UNCHANGED copyVars, worker' = "off" => worker = "off", CopyCtxDone /\ copyAt # "off" => CopyCtxDone'
  PROVE  CopyInv'
<1> USE DEF copyVars, copyArgs
<1>1. CopyTypes' /\ CopyOff'
  BY DEF CopyInv, CopyTypes, CopyOff
<1>2. QueueCounts'
  BY DEF CopyInv, QueueCounts
<1>3. OtherDirectionKept'
  BY DEF CopyInv, CopyOff, OtherDirectionKept
<1> QED
  BY <1>1, <1>2, <1>3 DEF CopyInv

\* A step of a goroutine of the copy moves one direction on and keeps the invariant.
LEMMA StreamStep ==
  ASSUME CopyInv, NEW d \in Dirs, StreamSteps(d), UNCHANGED ownVars
  PROVE  CopyInv'
<1> USE DEF ownVars, peerVars, copyArgs, At
<1>0. worker' = worker /\ CopyCtxDone' = CopyCtxDone
  BY DEF CopyCtxDone
<1>1. CopyTypes'
  <2>1. CASE StreamStarts(d)
    BY <2>1 DEF CopyInv, CopyTypes, StreamStarts, observe
  <2>2. CASE SourceEnds(d)
    BY <2>2 DEF CopyInv, CopyTypes, SourceEnds
  <2>3. CASE CopyFails(d)
    BY <2>3 DEF CopyInv, CopyTypes, CopyFails
  <2>4. CASE WriteClosed(d)
    BY <2>4 DEF CopyInv, CopyTypes, WriteClosed
  <2>5. CASE StreamEnds(d)
    BY <2>5 DEF CopyInv, CopyTypes, StreamEnds, observe
  <2>6. CASE DoneReceived(d)
    BY <2>6 DEF CopyInv, CopyTypes, DoneReceived
  <2> QED
    BY <2>1, <2>2, <2>3, <2>4, <2>5, <2>6 DEF StreamSteps
<1>2. CopyOff'
  BY <1>0 DEF StreamSteps, StreamStarts, SourceEnds, CopyFails, WriteClosed, StreamEnds, DoneReceived, CopyInv, CopyOff
<1>3. QueueCounts'
  <2>1. CASE StreamStarts(d) \/ StreamEnds(d)
    <3>1. Queued(dir'[d]) = Queued(dir[d]) + 1 /\ \A e \in Dirs \ {d} : dir'[e] = dir[e]
      BY <2>1 DEF StreamStarts, StreamEnds, CopyInv, CopyTypes, Queued
    <3>2. observed' = observed /\ copyAt' = copyAt /\ (observed => observer' = observer + 1) /\ observer \in Int
      BY <2>1 DEF StreamStarts, StreamEnds, observe, CopyInv, CopyTypes
    <3>3. observed => observer <= 1 + Queued(dir["l2r"]) + Queued(dir["r2l"]) + (IF copyAt = "returned" THEN 1 ELSE 0)
      BY DEF CopyInv, QueueCounts
    <3>4. CASE d = "l2r"
      BY <3>1, <3>2, <3>3, <3>4, QueuedRange DEF QueueCounts, Dirs
    <3>5. CASE d = "r2l"
      BY <3>1, <3>2, <3>3, <3>5, QueuedRange DEF QueueCounts, Dirs
    <3> QED
      BY <3>4, <3>5 DEF Dirs
  <2>2. CASE SourceEnds(d) \/ CopyFails(d) \/ WriteClosed(d) \/ DoneReceived(d)
    BY <2>2 DEF SourceEnds, CopyFails, WriteClosed, DoneReceived, CopyInv, CopyTypes, QueueCounts, Queued, Dirs
  <2> QED
    BY <2>1, <2>2 DEF StreamSteps
<1>4. OtherDirectionKept'
  <2>1. CASE SourceEnds(d)
    BY <1>0, <2>1 DEF SourceEnds, CopyInv, CopyTypes, OtherDirectionKept
  <2>2. CASE DoneReceived(d)
    BY <1>0, <2>2 DEF DoneReceived, CopyInv, CopyTypes, OtherDirectionKept
  <2>3. CASE StreamStarts(d) \/ CopyFails(d) \/ WriteClosed(d) \/ StreamEnds(d)
    BY <1>0, <2>3 DEF StreamStarts, CopyFails, WriteClosed, StreamEnds, CopyInv, CopyTypes, OtherDirectionKept
  <2> QED
    BY <2>1, <2>2, <2>3 DEF StreamSteps
<1> QED
  BY <1>1, <1>2, <1>3, <1>4 DEF CopyInv

\* Every step of a worker keeps the invariant of its copy.
LEMMA CopyStep == CopyInv /\ WorkerNext => CopyInv'
<1> SUFFICES ASSUME CopyInv, WorkerNext PROVE CopyInv'
  OBVIOUS
<1>1. CASE ChannelOpened
  BY <1>1, CopyFrame DEF ChannelOpened, CopyInv, CopyOff
<1>2. CASE HandlerCopies
  <2>1. PICK halves \in SUBSET Dirs, withCallbacks \in BOOLEAN : CopyBegins(halves, withCallbacks)
    BY <1>2 DEF HandlerCopies
  <2>2. worker' = "copy" /\ copyAt = "off" /\ copyAt' = "copying"
    BY <1>2, <2>1 DEF HandlerCopies, CopyBegins
  <2>3. CopyTypes'
    BY <2>1, <2>2 DEF CopyBegins, CopyInv, CopyTypes
  <2>4. CopyOff' /\ OtherDirectionKept'
    BY <2>1, <2>2 DEF CopyBegins, CopyInv, CopyOff, OtherDirectionKept
  <2>5. QueueCounts'
    BY <2>1, <2>2 DEF CopyBegins, QueueCounts, Queued, Dirs
  <2> QED
    BY <2>3, <2>4, <2>5 DEF CopyInv
<1>3. CASE CopySteps
  <2>1. CASE CopyCtxDone /\ CopyCanceled
    <3>1. CopyTypes' /\ CopyOff'
      BY <1>3, <2>1 DEF CopySteps, CopyCanceled, copyArgs, ownVars, CopyInv, CopyTypes, CopyOff
    <3>2. QueueCounts' /\ OtherDirectionKept'
      BY <1>3, <2>1 DEF CopySteps, CopyCanceled, copyArgs, ownVars, peerVars, CopyInv, QueueCounts, OtherDirectionKept,
         CopyCtxDone
    <3> QED
      BY <3>1, <3>2 DEF CopyInv
  <2>2. CASE CopyReturns
    <3>1. CopyTypes' /\ CopyOff'
      BY <1>3, <2>2 DEF CopySteps, CopyReturns, observe, copyArgs, ownVars, CopyInv, CopyTypes, CopyOff
    <3>2. QueueCounts'
      BY <2>2, QueuedRange DEF CopyReturns, observe, copyArgs, CopyInv, CopyTypes, QueueCounts
    <3>3. OtherDirectionKept'
      BY <1>3, <2>2 DEF CopySteps, CopyReturns, copyArgs, ownVars, peerVars, CopyInv, OtherDirectionKept, CopyCtxDone
    <3> QED
      BY <3>1, <3>2, <3>3 DEF CopyInv
  <2>3. CASE ObserverTakes
    <3>1. CopyTypes' /\ CopyOff'
      BY <1>3, <2>3 DEF CopySteps, ObserverTakes, copyArgs, ownVars, CopyInv, CopyTypes, CopyOff
    <3>2. QueueCounts'
      BY <2>3, QueuedRange DEF ObserverTakes, copyArgs, CopyInv, CopyTypes, QueueCounts
    <3>3. OtherDirectionKept'
      BY <1>3, <2>3 DEF CopySteps, ObserverTakes, copyArgs, ownVars, peerVars, CopyInv, OtherDirectionKept, CopyCtxDone
    <3> QED
      BY <3>1, <3>2, <3>3 DEF CopyInv
  <2>4. ASSUME NEW d \in Dirs, StreamSteps(d) PROVE CopyInv'
    BY <1>3, <2>4, StreamStep DEF CopySteps
  <2> QED
    BY <1>3, <2>1, <2>2, <2>3, <2>4 DEF CopySteps
<1>4. CASE /\ UNCHANGED <<copyVars, kind>> /\ (worker' = "off" => worker = "off")
           /\ (connClosed => connClosed') /\ (clientGone => clientGone')
  BY <1>4, CopyFrame DEF CopyCtxDone
<1>5. CASE HandlerFails \/ HandlerRejects \/ HandlerAccepts \/ HandlerTooLate \/ HandlerRejected \/ HandlerNotAccepted \/ HandlerCopied
  BY <1>4, <1>5 DEF HandlerFails, HandlerRejects, HandlerAccepts, HandlerTooLate, HandlerRejected, HandlerNotAccepted,
     HandlerCopied, Returns, peerVars
<1>6. CASE ReportSteps
  BY <1>4, <1>6 DEF ReportSteps, AnswerJudged, AnswerReported, ErrorHandlerReturns, RejectsUnhandled, UnhandledRejected,
     ErrorJudged, AcceptedClosed, SlotReleased, peerVars
<1>7. CASE ResponderSteps \/ HelperAnswers \/ ClientCloses \/ ConnectionLost
  BY <1>4, <1>7 DEF ResponderSteps, ErrorResponds, ResponseBegins, ResponseSettles, HelperAnswers, ClientCloses,
     ConnectionLost, peerVars
<1>8. ASSUME NEW w \in Writers, AnswerWritten(w) \/ AnswerCompleted(w) PROVE CopyInv'
  BY <1>4, <1>8 DEF AnswerWritten, AnswerCompleted, peerVars
<1> QED
  BY <1>1, <1>2, <1>3, <1>5, <1>6, <1>7, <1>8 DEF WorkerNext, HandlerSteps

\* The invariant holds in every state of a connection.
LEMMA CopyInvariant == Spec => []CopyInv
<1>1. Init => CopyInv
  BY CopyStart DEF Init
<1>2. CopyInv /\ [Next]_vars => CopyInv'
  <2> SUFFICES ASSUME CopyInv, [Next]_vars PROVE CopyInv'
    OBVIOUS
  <2>1. CASE WorkerNext
    BY <2>1, CopyStep
  <2>2. CASE UNCHANGED workerVars
    BY <2>2, CopyFrame DEF workerVars, ownVars, peerVars, CopyCtxDone
  <2> QED
    BY <2>1, <2>2 DEF Next, ServingBegins, vars
<1> QED
  BY <1>1, <1>2, PTL DEF Spec

\* FullDuplexCopy closes the streams only when its context is done, after an error, or
\* because an end cannot be passed on alone.
THEOREM OtherDirectionKeptHolds == Spec => []OtherDirectionKept
<1>1. CopyInv => OtherDirectionKept
  BY DEF CopyInv
<1> QED
  BY <1>1, CopyInvariant, PTL

\* No goroutine of FullDuplexCopy ever waits for its observer.
THEOREM ObserverNeverBlocks == Spec => []ObserverHasRoom
<1>1. CopyInv => ObserverHasRoom
  BY DEF CopyInv, CopyTypes, QueueCounts, Queued, ObserverHasRoom, ObserverCap, Dirs
<1> QED
  BY <1>1, CopyInvariant, PTL

================================================================================
