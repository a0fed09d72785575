------------------------------ MODULE AuthAttempts ------------------------------
(***************************************************************************)
(* The authentication callbacks configForConnection (server.go) installs   *)
(* for one connection, run by gossh's handshake on one goroutine.          *)
(*                                                                         *)
(* What has to come out right is what the callbacks leave in the context:  *)
(* the public key, kept by publicKeyAuthState over partial successes, and  *)
(* the permissions, a new object for every attempt.                        *)
(*                                                                         *)
(* "password" stands for keyboard-interactive and GSSAPI too, whose        *)
(* callbacks are wrapped in the same way.  Permissions are the grants that *)
(* callbacks wrote into them, each with the method and key it was for.     *)
(* gossh is external: queries and signed requests, the result it caches    *)
(* for a key, the callbacks of a partial success, and AuthLogCallback      *)
(* after each attempt that is no accepted query.                           *)
(*                                                                         *)
(* A component without a specification of its own, see Connection.         *)
(***************************************************************************)
EXTENDS Integers

CONSTANTS
  Keys, NoKey,
  MaxAttempts   \* bound: requests the client makes

ASSUME AuthAssumption == NoKey \notin Keys /\ MaxAttempts \in Nat

Methods == {"none", "password", "publickey"}

VARIABLES
  callbacks,  \* what answers each method: gossh's current set of callbacks
  conflicts,  \* authCallbackConflicts: the methods the server has a handler for
  verifies,   \* the configuration has a VerifiedPublicKeyCallback of its own
  authAt,     \* where the handshake is
  attempt,    \* the attempt under way
  cache,      \* gossh: the answer to the last key
  keyState,   \* publicKeyAuthState
  ctxKey, ctxPerms,  \* ContextKeyPublicKey and ContextKeyPermissions
  transport,  \* the transport is open
  attempts,   \* requests made
  proved,     \* history: the key of the last factor with a good signature, not refused
  unverified  \* history: gossh called no VerifiedPublicKeyCallback for that factor

setupVars == <<conflicts, verifies>>
ctxVars == <<ctxKey, ctxPerms>>
historyVars == <<proved, unverified>>
authVars == <<callbacks, setupVars, authAt, attempt, cache, keyState, ctxVars, transport, attempts, historyVars>>

NoAttempt == [method |-> "none", key |-> NoKey, result |-> "none", perms |-> {}, verified |-> FALSE]
NoCache == [key |-> NoKey, result |-> "none", perms |-> {}]

\* A method with a handler of the server and a callback of the configuration is
\* refused; without any method, and unless client authentication is required,
\* nobody has to authenticate.
Installed(handlers, customs, required) ==
  [m \in Methods |->
     CASE m \in handlers \cap customs -> "conflict"
       [] m \in handlers \ customs    -> "handler"
       [] m \in customs \ handlers    -> "custom"
       [] m = "none" /\ handlers = {} /\ customs = {} /\ ~required -> "open"
       [] OTHER -> "off"]

\* RequireClientAuth refuses a connection nobody could authenticate on.
HasClientAuth(installed) == installed["none"] = "off" /\ \E m \in Methods : installed[m] # "off"

AuthInit ==
  /\ \E handlers \in SUBSET (Methods \ {"none"}), customs \in SUBSET Methods, required \in BOOLEAN :
       /\ callbacks = Installed(handlers, customs, required)
       /\ conflicts = handlers
       /\ authAt = IF required /\ ~HasClientAuth(callbacks) THEN "failed" ELSE "banner"
  /\ verifies \in BOOLEAN
  /\ attempt = NoAttempt /\ cache = NoCache
  /\ keyState = [candidate |-> NoKey, pending |-> NoKey]
  /\ ctxKey = NoKey /\ ctxPerms = {}
  /\ transport = TRUE /\ attempts = 0 /\ proved = NoKey /\ unverified = FALSE

--------------------------------------------------------------------------------
(* Callbacks. *)

\* handshakeCallbackFailure.record: a handler's error closes the transport.  (That the
\* first error is kept only decides what handleConn reports.)
record(failed) == transport' = (transport /\ ~failed)

\* The BannerHandler's error does not reach gossh.
BannerCalled ==
  /\ authAt = "banner" /\ authAt' = "idle"
  /\ \E failed \in BOOLEAN : record(failed)
  /\ UNCHANGED <<callbacks, setupVars, attempt, cache, keyState, ctxVars, attempts, historyVars>>

\* Fault: every attempt writes to the same permissions.
beginAuthAttempt_Shared == ctxPerms

\* beginAuthAttempt: new permissions.
beginAuthAttempt == {}

\* A handler's error closes the transport; only a callback of the configuration can
\* answer with a partial success.
Results(how) ==
  CASE how = "handler" -> {"ok", "denied", "error"}
    [] how = "custom"  -> {"ok", "denied", "partial"}
    [] how = "open"    -> {"ok"}
    [] OTHER           -> {"denied"}

\* The callback for method m runs and may write its grant, the same into the
\* permissions in the context and into those it returns.  A conflict or a method that
\* is off touches nothing.
CallbackRuns(m, key, result, perms) ==
  /\ result \in Results(callbacks[m])
  /\ IF callbacks[m] \in {"off", "conflict"}
       THEN perms = {} /\ UNCHANGED ctxPerms
       ELSE /\ \E wrote \in {{}, {<<m, key>>}} : perms = beginAuthAttempt \cup wrote
            /\ ctxPerms' = perms
  /\ record(result = "error")

\* What a callback can return.
Permitted == SUBSET ({<<m, NoKey>> : m \in Methods} \cup ({"publickey"} \X Keys))

\* The next request, which may have been read before the transport was closed.
Requests == authAt = "idle" /\ attempts < MaxAttempts /\ attempts' = attempts + 1

\* A request for "none" or for a password.
SimpleRequest(m) ==
  /\ Requests /\ m # "publickey"
  /\ \E result \in Results(callbacks[m]), perms \in Permitted :
       /\ CallbackRuns(m, NoKey, result, perms)
       /\ attempt' = [NoAttempt EXCEPT !.method = m, !.result = result, !.perms = perms]
  /\ authAt' = "finish"
  /\ UNCHANGED <<callbacks, setupVars, cache, keyState, ctxKey, historyVars>>

\* gossh asks PublicKeyCallback unless it has the answer for this key.
KeyAnswered(key) ==
  \/ cache.key = key /\ UNCHANGED <<cache, ctxPerms, transport>>
  \/ /\ cache.key # key
     /\ \E result \in Results(callbacks["publickey"]), perms \in Permitted :
          /\ CallbackRuns("publickey", key, result, perms)
          /\ cache' = [key |-> key, result |-> result, perms |-> perms]

\* A client asks whether a key would do.  AuthLogCallback hears of a refusal only.
KeyQueried(key) ==
  /\ Requests /\ KeyAnswered(key)
  /\ IF cache'.result \in {"ok", "partial"}
       THEN authAt' = (IF transport' THEN "idle" ELSE "failed") /\ UNCHANGED attempt
       ELSE /\ attempt' = [NoAttempt EXCEPT !.method = "publickey", !.key = key, !.result = cache'.result]
            /\ authAt' = "finish"
  /\ UNCHANGED <<callbacks, setupVars, keyState, ctxKey, historyVars>>

\* A client signs with a key; the signature is good, or else the handshake is over
\* (HandshakeFails).
KeySigned(key) ==
  /\ Requests /\ KeyAnswered(key)
  /\ attempt' = [NoAttempt EXCEPT !.method = "publickey", !.key = key,
                                  !.result = cache'.result, !.perms = cache'.perms]
  /\ authAt' = IF cache'.result = "ok" THEN "verified" ELSE "finish"
  /\ UNCHANGED <<callbacks, setupVars, keyState, ctxKey, historyVars>>

\* publicKeyAuthState.recordVerified
recordVerified(key, result) ==
  keyState' = [keyState EXCEPT !.candidate = IF result \in {"ok", "partial"} THEN key ELSE NoKey]

\* VerifiedPublicKeyCallback: the callback of the configuration can still refuse, or
\* ask for more; otherwise the key's permissions are published.
KeyVerified ==
  /\ authAt = "verified" /\ authAt' = "finish"
  /\ \E result \in IF verifies THEN Results("custom") ELSE {"ok"} :
       /\ recordVerified(attempt.key, result)
       /\ attempt' = [attempt EXCEPT !.result = result, !.verified = TRUE]
       /\ ctxPerms' = IF result = "ok" THEN attempt.perms ELSE ctxPerms
  /\ UNCHANGED <<callbacks, setupVars, cache, ctxKey, transport, attempts, historyVars>>

--------------------------------------------------------------------------------
(* AuthLogCallback, and what gossh does next. *)

\* Fault: a refused key takes back the key of an earlier factor.
finishAttempt_Clears(method, result) ==
  LET candidate == keyState.candidate
      kept == IF method = "publickey" THEN candidate ELSE keyState.pending
  IN  /\ ctxKey' = IF result \in {"ok", "partial"} THEN kept ELSE NoKey
      /\ keyState' = [candidate |-> NoKey, pending |-> kept]

\* publicKeyAuthState.finishAttempt
finishAttempt(method, result) ==
  LET candidate == keyState.candidate
      pending == keyState.pending
      publish(key) == ctxKey' = key /\ keyState' = [candidate |-> NoKey, pending |-> key]
      keep == UNCHANGED ctxKey /\ keyState' = [keyState EXCEPT !.candidate = NoKey]
  IN  IF method # "publickey"
        THEN /\ ctxKey' = IF result = "ok" /\ pending # NoKey THEN pending ELSE ctxKey
             /\ UNCHANGED keyState
        ELSE CASE result = "ok" /\ candidate # NoKey -> publish(candidate)
               [] result = "ok" /\ candidate = NoKey -> keep
               [] result = "partial"                 -> publish(candidate)
               [] OTHER -> IF pending = NoKey THEN publish(NoKey) ELSE keep

\* wrapAuthCallbacks: a callback of a partial success for a method the server has a
\* handler for is refused as well.
wrapAuthCallbacks(methods) ==
  [m \in Methods |-> CASE m \in methods /\ m \in conflicts -> "conflict"
                       [] m \in methods /\ m \notin conflicts -> "custom"
                       [] OTHER -> "off"]

\* The attempt ends: gossh writes success or failure, or goes on with the callbacks of
\* a partial success and an empty cache.  A closed transport takes no answer.
AttemptFinished ==
  /\ authAt = "finish"
  /\ finishAttempt(attempt.method, attempt.result)
  /\ authAt' = CASE ~transport -> "failed"
                 [] transport /\ attempt.result = "ok" -> "accepted"
                 [] OTHER -> "idle"
  /\ IF attempt.result = "partial"
       THEN /\ cache' = NoCache
            /\ \E methods \in SUBSET (Methods \ {"none"}) \ {{}} : callbacks' = wrapAuthCallbacks(methods)
       ELSE UNCHANGED <<cache, callbacks>>
  /\ IF attempt.method = "publickey" /\ attempt.result \in {"ok", "partial"}
       THEN proved' = attempt.key /\ unverified' = ~attempt.verified
       ELSE UNCHANGED historyVars
  /\ UNCHANGED <<setupVars, attempt, ctxPerms, transport, attempts>>

\* NewServerConn returns; handleConn publishes the permissions of the connection.
PermissionsPublished ==
  /\ authAt = "accepted" /\ authAt' = "up"
  /\ ctxPerms' = attempt.perms
  /\ UNCHANGED <<callbacks, setupVars, attempt, cache, keyState, ctxKey, transport, attempts, historyVars>>

\* The client goes, signs badly or runs out of attempts or time; or the transport is
\* closed.  handleConn closes it and reports the callback's error, if there is one.
HandshakeFails ==
  /\ authAt \in {"banner", "idle"} /\ authAt' = "failed"
  /\ transport' = FALSE
  /\ UNCHANGED <<callbacks, setupVars, attempt, cache, keyState, ctxVars, attempts, historyVars>>

AuthNext ==
  \/ BannerCalled \/ KeyVerified \/ AttemptFinished \/ PermissionsPublished \/ HandshakeFails
  \/ \E m \in Methods : SimpleRequest(m)
  \/ \E key \in Keys : KeyQueried(key) \/ KeySigned(key)

--------------------------------------------------------------------------------
(* Properties. *)

\* Between attempts and on the authenticated connection, Context.PublicKey is the key
\* of the last factor with a good signature that was not refused: neither a key that
\* was only asked about, nor one that was refused, nor the loss of an earlier factor's
\* key to a later refusal (publicKeyAuthState).  One factor leaves none: a partial
\* success of PublicKeyCallback itself, see PublicKeyUsed.
KeyIsProved ==
  authAt \in {"idle", "accepted", "up", "serving"} => ctxKey = IF unverified THEN NoKey ELSE proved

\* What Session.PublicKey is documented to return: the key used to authenticate, the
\* last one if there were several.  The code loses it, and the key of an earlier
\* factor with it, when PublicKeyCallback answers with a partial success: the
\* signature is verified then, but recordVerified is not called, and finishAttempt
\* publishes a candidate it does not have.
PublicKeyUsed == authAt = "up" => ctxKey = proved

\* The permissions of the connection hold only what was granted for the method and the
\* key it authenticated with, whatever refused attempts wrote into theirs
\* (beginAuthAttempt, publishAuthPermissions).
OnlyWinnersGrants == authAt = "up" => ctxPerms \subseteq {<<attempt.method, attempt.key>>}
================================================================================
