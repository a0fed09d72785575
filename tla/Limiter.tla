--------------------------------- MODULE Limiter ---------------------------------
(***************************************************************************)
(* The counting limiters of server.go: connectionChannelLimiter, or a      *)
(* resourceLimiter with a parent, in front of the per-connection session   *)
(* counter of handleConn's channel loop.  A task is one goroutine's use of *)
(* the limiter: an incoming SSH channel, a forwarded connection, an agent  *)
(* connection or a reverse forward, on one SSH connection.                 *)
(*                                                                         *)
(* Every Add on an atomic counter is one step.  A counter therefore        *)
(* exceeds its limit for a moment while an attempt is taken back.          *)
(***************************************************************************)
EXTENDS Integers, FiniteSets

CONSTANTS
  Tasks,
  Conns,
  ConnOf,        \* the connection each task belongs to
  Sessions,      \* the tasks that are channels of type "session"
  LocalLimit,    \* per connection; 0 disables it, like the other two
  GlobalLimit,   \* per Serve or HandleConn call
  SessionLimit   \* sessions per connection

ASSUME TasksFinite == IsFiniteSet(Tasks)
ASSUME ConnOfAssumption == ConnOf \in [Tasks -> Conns]
ASSUME SessionsAssumption == Sessions \subseteq Tasks
ASSUME LimitsAssumption == LocalLimit \in Nat /\ GlobalLimit \in Nat /\ SessionLimit \in Nat

VARIABLES
  local,     \* connectionChannelLimiter.active or resourceLimiter.active of each connection
  global,    \* serveContext.globalChannels or globalReverseForwards
  sessions,  \* activeSessions of each connection
  pc

vars == <<local, global, sessions, pc>>

PCs == {"idle", "localUndo", "global", "globalUndo", "localBack", "session", "sessionUndo",
        "open", "releaseSession", "releaseLocal", "releaseGlobal"}

Init ==
  /\ local = [k \in Conns |-> 0] /\ global = 0 /\ sessions = [k \in Conns |-> 0]
  /\ pc = [t \in Tasks |-> "idle"]

--------------------------------------------------------------------------------
\* Task t stands at `from` and goes on to `to`.
Goes(t, from, to) == pc[t] = from /\ pc' = [pc EXCEPT ![t] = to]

\* One Add of n to the counter of t at each level; a disabled level is skipped.
AddLocal(t, n) ==
  local' = IF LocalLimit > 0 THEN [local EXCEPT ![ConnOf[t]] = @ + n] ELSE local
AddGlobal(n) == global' = IF GlobalLimit > 0 THEN global + n ELSE global
Counted(t) == SessionLimit > 0 /\ t \in Sessions
AddSession(t, n) ==
  sessions' = IF Counted(t) THEN [sessions EXCEPT ![ConnOf[t]] = @ + n] ELSE sessions

\* Fault: the counter is compared as it was before Add(1).
LocalFull_Stale(t) == LocalLimit > 0 /\ local[ConnOf[t]] > LocalLimit

\* Add(1) returned a value beyond the limit.
LocalFull(t) == LocalLimit > 0 /\ local[ConnOf[t]] + 1 > LocalLimit
GlobalFull == GlobalLimit > 0 /\ global + 1 > GlobalLimit
SessionFull(t) == Counted(t) /\ sessions[ConnOf[t]] + 1 > SessionLimit

\* reserve: the connection's own counter first ...
ReserveLocal(t) ==
  /\ Goes(t, "idle", IF LocalFull(t) THEN "localUndo" ELSE "global")
  /\ AddLocal(t, 1)
  /\ UNCHANGED <<global, sessions>>

LocalUndo(t) ==
  /\ Goes(t, "localUndo", "idle")
  /\ AddLocal(t, -1)
  /\ UNCHANGED <<global, sessions>>

\* ... then the counter shared by all connections of the scope.
ReserveGlobal(t) ==
  /\ Goes(t, "global", IF GlobalFull THEN "globalUndo" ELSE "session")
  /\ AddGlobal(1)
  /\ UNCHANGED <<local, sessions>>

\* The shared limit is reached: its attempt is taken back, ...
GlobalUndo(t) ==
  /\ Goes(t, "globalUndo", "localBack")
  /\ AddGlobal(-1)
  /\ UNCHANGED <<local, sessions>>

\* Fault: only the shared counter is restored when the shared limit is reached.
LocalBack_Leaks(t) ==
  /\ Goes(t, "localBack", "idle")
  /\ UNCHANGED <<local, global, sessions>>

\* ... and then the connection's own reservation.
LocalBack(t) ==
  /\ Goes(t, "localBack", "idle")
  /\ AddLocal(t, -1)
  /\ UNCHANGED <<global, sessions>>

\* The channel loop counts sessions once the channel is reserved.
ReserveSession(t) ==
  /\ Goes(t, "session", IF SessionFull(t) THEN "sessionUndo" ELSE "open")
  /\ AddSession(t, 1)
  /\ UNCHANGED <<local, global>>

\* Too many sessions: both reservations go back, the session's first.
SessionUndo(t) ==
  /\ Goes(t, "sessionUndo", "releaseLocal")
  /\ AddSession(t, -1)
  /\ UNCHANGED <<local, global>>

\* The handler of the channel has returned.
Close(t) ==
  /\ Goes(t, "open", "releaseSession")
  /\ UNCHANGED <<local, global, sessions>>

ReleaseSession(t) ==
  /\ Goes(t, "releaseSession", "releaseLocal")
  /\ AddSession(t, -1)
  /\ UNCHANGED <<local, global>>

\* release: the connection's own counter, then the shared one.
ReleaseLocal(t) ==
  /\ Goes(t, "releaseLocal", "releaseGlobal")
  /\ AddLocal(t, -1)
  /\ UNCHANGED <<global, sessions>>

ReleaseGlobal(t) ==
  /\ Goes(t, "releaseGlobal", "idle")
  /\ AddGlobal(-1)
  /\ UNCHANGED <<local, sessions>>

Next ==
  \E t \in Tasks :
    \/ ReserveLocal(t) \/ LocalUndo(t)
    \/ ReserveGlobal(t) \/ GlobalUndo(t) \/ LocalBack(t)
    \/ ReserveSession(t) \/ SessionUndo(t)
    \/ Close(t) \/ ReleaseSession(t) \/ ReleaseLocal(t) \/ ReleaseGlobal(t)

Spec == Init /\ [][Next]_vars

--------------------------------------------------------------------------------
\* The places in which a task is counted at each level ...
LocalPCs == PCs \ {"idle", "releaseGlobal"}
GlobalPCs == {"globalUndo", "session", "sessionUndo", "open", "releaseSession", "releaseLocal",
              "releaseGlobal"}
SessionPCs == {"sessionUndo", "open", "releaseSession"}

InLocal(k)   == {t \in Tasks : ConnOf[t] = k /\ pc[t] \in LocalPCs}
InGlobal     == {t \in Tasks : pc[t] \in GlobalPCs}
InSession(k) == {t \in Sessions : ConnOf[t] = k /\ pc[t] \in SessionPCs}

\* ... and those among them that were granted what they asked for.
LocalHolders(k)   == {t \in InLocal(k) : pc[t] # "localUndo"}
GlobalHolders     == {t \in InGlobal : pc[t] # "globalUndo"}
SessionHolders(k) == {t \in InSession(k) : pc[t] # "sessionUndo"}

\* The type invariant; no counter is ever negative.
TypeOK ==
  /\ local \in [Conns -> Nat] /\ global \in Nat /\ sessions \in [Conns -> Nat]
  /\ pc \in [Tasks -> PCs]

\* Every counter is the number of tasks that have added to it and not yet
\* subtracted, whatever the interleaving of attempts, undos and releases; so a
\* limiter at rest stands at zero and has lost no slot.
CountersExact ==
  /\ \A k \in Conns : local[k] = IF LocalLimit > 0 THEN Cardinality(InLocal(k)) ELSE 0
  /\ global = IF GlobalLimit > 0 THEN Cardinality(InGlobal) ELSE 0
  /\ \A k \in Conns : sessions[k] = IF SessionLimit > 0 THEN Cardinality(InSession(k)) ELSE 0

\* Although a counter passes its limit while an attempt is taken back, no more
\* tasks than the limit hold a slot: per connection, per scope, per session count.
LimitsHold ==
  /\ LocalLimit > 0 => \A k \in Conns : Cardinality(LocalHolders(k)) <= LocalLimit
  /\ GlobalLimit > 0 => Cardinality(GlobalHolders) <= GlobalLimit
  /\ SessionLimit > 0 => \A k \in Conns : Cardinality(SessionHolders(k)) <= SessionLimit
================================================================================
