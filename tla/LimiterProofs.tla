------------------------------ MODULE LimiterProofs ------------------------------
(***************************************************************************)
(* The limiters count exactly and hold their limits for every number of    *)
(* tasks and connections and every setting of the three limits.            *)
(***************************************************************************)
EXTENDS Limiter, FiniteSetTheorems, TLAPS

\* The sets the variables range over, without the sign of the counters.
StateTypes ==
  /\ local \in [Conns -> Int] /\ global \in Int /\ sessions \in [Conns -> Int]
  /\ pc \in [Tasks -> PCs]

LocalExact ==
  LocalLimit > 0 =>
    \A k \in Conns : local[k] = Cardinality(InLocal(k)) /\ Cardinality(LocalHolders(k)) <= LocalLimit
GlobalExact ==
  GlobalLimit > 0 => global = Cardinality(InGlobal) /\ Cardinality(GlobalHolders) <= GlobalLimit
SessionExact ==
  SessionLimit > 0 =>
    \A k \in Conns : sessions[k] = Cardinality(InSession(k)) /\ Cardinality(SessionHolders(k)) <= SessionLimit

\* A disabled level never counts.
DisabledZero ==
  /\ LocalLimit = 0 => \A k \in Conns : local[k] = 0
  /\ GlobalLimit = 0 => global = 0
  /\ SessionLimit = 0 => \A k \in Conns : sessions[k] = 0

\* The inductive invariant: the two properties together, level by level.
Inv == StateTypes /\ LocalExact /\ GlobalExact /\ SessionExact /\ DisabledZero

\* Any set of tasks is finite, and a smaller set is no larger.
LEMMA TaskSets ==
  ASSUME NEW S, S \subseteq Tasks
  PROVE  /\ IsFiniteSet(S) /\ Cardinality(S) \in Nat
         /\ \A T \in SUBSET S : IsFiniteSet(T) /\ Cardinality(T) \in Nat /\ Cardinality(T) <= Cardinality(S)
<1>1. IsFiniteSet(S)
  BY TasksFinite, FS_Subset
<1> QED
  BY <1>1, FS_Subset, FS_CardinalityType

\* What a task joining or leaving a set of tasks does to its cardinality.
LEMMA OneMore ==
  ASSUME NEW S, S \subseteq Tasks, NEW t \in Tasks
  PROVE  /\ t \notin S => Cardinality(S \cup {t}) = Cardinality(S) + 1
         /\ t \in S => Cardinality(S \ {t}) = Cardinality(S) - 1
  BY TaskSets, FS_AddElement, FS_RemoveElement

\* Every step keeps the variables in their sets.
LEMMA TypesNext == StateTypes /\ [Next]_vars => StateTypes'
<1> SUFFICES ASSUME StateTypes, [Next]_vars PROVE StateTypes'
  OBVIOUS
<1> USE ConnOfAssumption DEF StateTypes, Goes, AddLocal, AddGlobal, AddSession, PCs
<1>0. CASE UNCHANGED vars
  BY <1>0 DEF vars
<1>1. ASSUME NEW t \in Tasks, ReserveLocal(t) PROVE StateTypes'
  BY <1>1 DEF ReserveLocal
<1>2. ASSUME NEW t \in Tasks, LocalUndo(t) PROVE StateTypes'
  BY <1>2 DEF LocalUndo
<1>3. ASSUME NEW t \in Tasks, ReserveGlobal(t) PROVE StateTypes'
  BY <1>3 DEF ReserveGlobal
<1>4. ASSUME NEW t \in Tasks, GlobalUndo(t) PROVE StateTypes'
  BY <1>4 DEF GlobalUndo
<1>5. ASSUME NEW t \in Tasks, LocalBack(t) PROVE StateTypes'
  BY <1>5 DEF LocalBack
<1>6. ASSUME NEW t \in Tasks, ReserveSession(t) PROVE StateTypes'
  BY <1>6 DEF ReserveSession
<1>7. ASSUME NEW t \in Tasks, SessionUndo(t) PROVE StateTypes'
  BY <1>7 DEF SessionUndo
<1>8. ASSUME NEW t \in Tasks, Close(t) PROVE StateTypes'
  BY <1>8 DEF Close
<1>9. ASSUME NEW t \in Tasks, ReleaseSession(t) PROVE StateTypes'
  BY <1>9 DEF ReleaseSession
<1>10. ASSUME NEW t \in Tasks, ReleaseLocal(t) PROVE StateTypes'
  BY <1>10 DEF ReleaseLocal
<1>11. ASSUME NEW t \in Tasks, ReleaseGlobal(t) PROVE StateTypes'
  BY <1>11 DEF ReleaseGlobal
<1> QED
  BY <1>0, <1>1, <1>2, <1>3, <1>4, <1>5, <1>6, <1>7, <1>8, <1>9, <1>10, <1>11 DEF Next


\* How one step may change a counter n, the set S of the tasks it counts and the
\* set H of those that hold a slot: not at all, by an Add(1) that grants a slot only
\* within the limit, or by an Add(-1).
CounterMoves(t, S, S2, H, H2, n, n2, limit) ==
  \/ S2 = S /\ n2 = n /\ H2 \subseteq H
  \/ /\ t \notin S /\ S2 = S \cup {t} /\ n2 = n + 1
     /\ H2 \subseteq H \/ (n2 <= limit /\ H2 \subseteq S2)
  \/ t \in S /\ S2 = S \ {t} /\ n2 = n - 1 /\ H2 \subseteq H

\* Such a step keeps a counter exact and its limit held.
LEMMA CounterStep ==
  ASSUME NEW S, S \subseteq Tasks, NEW S2, S2 \subseteq Tasks, NEW H, H \subseteq S,
         NEW H2, H2 \subseteq S2, NEW t \in Tasks, NEW n, NEW n2, NEW limit \in Nat,
         n = Cardinality(S), Cardinality(H) <= limit,
         CounterMoves(t, S, S2, H, H2, n, n2, limit)
  PROVE  n2 = Cardinality(S2) /\ Cardinality(H2) <= limit
<1>1. /\ Cardinality(S) \in Nat /\ Cardinality(S2) \in Nat
      /\ Cardinality(H) \in Nat /\ Cardinality(H2) \in Nat
      /\ Cardinality(H2) <= Cardinality(S2)
  BY TaskSets
<1>2. H2 \subseteq H => Cardinality(H2) <= Cardinality(H)
  BY TaskSets
<1>3. n2 = Cardinality(S2)
  BY OneMore DEF CounterMoves
<1>4. Cardinality(H2) <= limit
  BY <1>1, <1>2, <1>3 DEF CounterMoves
<1> QED
  BY <1>3, <1>4

\* Every step keeps the local counters exact and within their limit.
LEMMA LocalNext == StateTypes /\ LocalExact /\ [Next]_vars => LocalExact'
<1> SUFFICES ASSUME StateTypes, LocalExact, [Next]_vars, LocalLimit > 0, NEW k \in Conns
             PROVE  local'[k] = Cardinality(InLocal(k)') /\ Cardinality(LocalHolders(k)') <= LocalLimit
  BY DEF LocalExact
<1> DEFINE Moves(t) == CounterMoves(t, InLocal(k), InLocal(k)', LocalHolders(k), LocalHolders(k)', local[k], local'[k], LocalLimit)
<1>a. ASSUME NEW t \in Tasks, Moves(t)
      PROVE  local'[k] = Cardinality(InLocal(k)') /\ Cardinality(LocalHolders(k)') <= LocalLimit
  <2>1. /\ InLocal(k) \subseteq Tasks /\ InLocal(k)' \subseteq Tasks
        /\ LocalHolders(k) \subseteq InLocal(k) /\ LocalHolders(k)' \subseteq InLocal(k)'
    BY SessionsAssumption DEF InLocal, LocalHolders
  <2>2. local[k] = Cardinality(InLocal(k)) /\ Cardinality(LocalHolders(k)) <= LocalLimit
    BY DEF LocalExact
  <2> QED
    BY <1>a, <2>1, <2>2, CounterStep, LimitsAssumption
<1>b. CASE UNCHANGED vars
  <2>1. InLocal(k)' = InLocal(k) /\ LocalHolders(k)' = LocalHolders(k) /\ local'[k] = local[k]
    BY <1>b DEF vars, InLocal, LocalHolders
  <2> QED
    BY <2>1 DEF LocalExact
<1>1. ASSUME NEW t \in Tasks, ReserveLocal(t) PROVE Moves(t)
  <2> USE <1>1, ConnOfAssumption, SessionsAssumption DEF ReserveLocal, Goes, AddLocal, StateTypes
  <2>1. CASE ConnOf[t] # k
    BY <2>1 DEF InLocal, LocalHolders, LocalPCs, PCs, CounterMoves
  <2>2. CASE ConnOf[t] = k
    <3>1. t \notin InLocal(k) /\ InLocal(k)' = InLocal(k) \cup {t}
      BY <2>2 DEF InLocal, LocalPCs, PCs
    <3>2. local'[k] = local[k] + 1
      BY <2>2
    <3>3. CASE LocalFull(t)
      <4>1. LocalHolders(k)' \subseteq LocalHolders(k)
        BY <3>3 DEF InLocal, LocalHolders, LocalPCs, PCs
      <4> QED
        BY <3>1, <3>2, <4>1 DEF CounterMoves
    <3>4. CASE ~LocalFull(t)
      <4>1. local'[k] <= LocalLimit
        BY <2>2, <3>2, <3>4, LimitsAssumption DEF LocalFull
      <4>2. LocalHolders(k)' \subseteq InLocal(k)'
        BY DEF LocalHolders
      <4> QED
        BY <3>1, <3>2, <4>1, <4>2 DEF CounterMoves
    <3> QED
      BY <3>3, <3>4
  <2> QED
    BY <2>1, <2>2
<1>2. ASSUME NEW t \in Tasks, LocalUndo(t) PROVE Moves(t)
  BY <1>2, ConnOfAssumption, SessionsAssumption
  DEF LocalUndo, Goes, AddLocal, LocalFull, StateTypes, InLocal, LocalHolders, LocalPCs, PCs, CounterMoves
<1>3. ASSUME NEW t \in Tasks, ReserveGlobal(t) PROVE Moves(t)
  BY <1>3, ConnOfAssumption, SessionsAssumption
  DEF ReserveGlobal, Goes, AddLocal, LocalFull, StateTypes, InLocal, LocalHolders, LocalPCs, PCs, CounterMoves
<1>4. ASSUME NEW t \in Tasks, GlobalUndo(t) PROVE Moves(t)
  BY <1>4, ConnOfAssumption, SessionsAssumption
  DEF GlobalUndo, Goes, AddLocal, LocalFull, StateTypes, InLocal, LocalHolders, LocalPCs, PCs, CounterMoves
<1>5. ASSUME NEW t \in Tasks, LocalBack(t) PROVE Moves(t)
  BY <1>5, ConnOfAssumption, SessionsAssumption
  DEF LocalBack, Goes, AddLocal, LocalFull, StateTypes, InLocal, LocalHolders, LocalPCs, PCs, CounterMoves
<1>6. ASSUME NEW t \in Tasks, ReserveSession(t) PROVE Moves(t)
  BY <1>6, ConnOfAssumption, SessionsAssumption
  DEF ReserveSession, Goes, AddLocal, LocalFull, StateTypes, InLocal, LocalHolders, LocalPCs, PCs, CounterMoves
<1>7. ASSUME NEW t \in Tasks, SessionUndo(t) PROVE Moves(t)
  BY <1>7, ConnOfAssumption, SessionsAssumption
  DEF SessionUndo, Goes, AddLocal, LocalFull, StateTypes, InLocal, LocalHolders, LocalPCs, PCs, CounterMoves
<1>8. ASSUME NEW t \in Tasks, Close(t) PROVE Moves(t)
  BY <1>8, ConnOfAssumption, SessionsAssumption
  DEF Close, Goes, AddLocal, LocalFull, StateTypes, InLocal, LocalHolders, LocalPCs, PCs, CounterMoves
<1>9. ASSUME NEW t \in Tasks, ReleaseSession(t) PROVE Moves(t)
  BY <1>9, ConnOfAssumption, SessionsAssumption
  DEF ReleaseSession, Goes, AddLocal, LocalFull, StateTypes, InLocal, LocalHolders, LocalPCs, PCs, CounterMoves
<1>10. ASSUME NEW t \in Tasks, ReleaseLocal(t) PROVE Moves(t)
  BY <1>10, ConnOfAssumption, SessionsAssumption
  DEF ReleaseLocal, Goes, AddLocal, LocalFull, StateTypes, InLocal, LocalHolders, LocalPCs, PCs, CounterMoves
<1>11. ASSUME NEW t \in Tasks, ReleaseGlobal(t) PROVE Moves(t)
  BY <1>11, ConnOfAssumption, SessionsAssumption
  DEF ReleaseGlobal, Goes, AddLocal, LocalFull, StateTypes, InLocal, LocalHolders, LocalPCs, PCs, CounterMoves
<1> QED
  BY <1>a, <1>b, <1>1, <1>2, <1>3, <1>4, <1>5, <1>6, <1>7, <1>8, <1>9, <1>10, <1>11 DEF Next

\* Every step keeps the global counters exact and within their limit.
LEMMA GlobalNext == StateTypes /\ GlobalExact /\ [Next]_vars => GlobalExact'
<1> SUFFICES ASSUME StateTypes, GlobalExact, [Next]_vars, GlobalLimit > 0
             PROVE  global' = Cardinality(InGlobal') /\ Cardinality(GlobalHolders') <= GlobalLimit
  BY DEF GlobalExact
<1> DEFINE Moves(t) == CounterMoves(t, InGlobal, InGlobal', GlobalHolders, GlobalHolders', global, global', GlobalLimit)
<1>a. ASSUME NEW t \in Tasks, Moves(t)
      PROVE  global' = Cardinality(InGlobal') /\ Cardinality(GlobalHolders') <= GlobalLimit
  <2>1. /\ InGlobal \subseteq Tasks /\ InGlobal' \subseteq Tasks
        /\ GlobalHolders \subseteq InGlobal /\ GlobalHolders' \subseteq InGlobal'
    BY SessionsAssumption DEF InGlobal, GlobalHolders
  <2>2. global = Cardinality(InGlobal) /\ Cardinality(GlobalHolders) <= GlobalLimit
    BY DEF GlobalExact
  <2> QED
    BY <1>a, <2>1, <2>2, CounterStep, LimitsAssumption
<1>b. CASE UNCHANGED vars
  <2>1. InGlobal' = InGlobal /\ GlobalHolders' = GlobalHolders /\ global' = global
    BY <1>b DEF vars, InGlobal, GlobalHolders
  <2> QED
    BY <2>1 DEF GlobalExact
<1>1. ASSUME NEW t \in Tasks, ReserveLocal(t) PROVE Moves(t)
  BY <1>1, ConnOfAssumption, SessionsAssumption
  DEF ReserveLocal, Goes, AddGlobal, GlobalFull, StateTypes, InGlobal, GlobalHolders, GlobalPCs, PCs, CounterMoves
<1>2. ASSUME NEW t \in Tasks, LocalUndo(t) PROVE Moves(t)
  BY <1>2, ConnOfAssumption, SessionsAssumption
  DEF LocalUndo, Goes, AddGlobal, GlobalFull, StateTypes, InGlobal, GlobalHolders, GlobalPCs, PCs, CounterMoves
<1>3. ASSUME NEW t \in Tasks, ReserveGlobal(t) PROVE Moves(t)
  <2> USE <1>3 DEF ReserveGlobal, Goes, AddGlobal, StateTypes
  <2>1. t \notin InGlobal /\ InGlobal' = InGlobal \cup {t}
    BY DEF InGlobal, GlobalPCs, PCs
  <2>2. global' = global + 1
    OBVIOUS
  <2>3. CASE GlobalFull
    <3>1. GlobalHolders' \subseteq GlobalHolders
      BY <2>3 DEF InGlobal, GlobalHolders, GlobalPCs, PCs
    <3> QED
      BY <2>1, <2>2, <3>1 DEF CounterMoves
  <2>4. CASE ~GlobalFull
    <3>1. global' <= GlobalLimit
      BY <2>2, <2>4, LimitsAssumption DEF GlobalFull
    <3>2. GlobalHolders' \subseteq InGlobal'
      BY DEF GlobalHolders
    <3> QED
      BY <2>1, <2>2, <3>1, <3>2 DEF CounterMoves
  <2> QED
    BY <2>3, <2>4
<1>4. ASSUME NEW t \in Tasks, GlobalUndo(t) PROVE Moves(t)
  BY <1>4, ConnOfAssumption, SessionsAssumption
  DEF GlobalUndo, Goes, AddGlobal, GlobalFull, StateTypes, InGlobal, GlobalHolders, GlobalPCs, PCs, CounterMoves
<1>5. ASSUME NEW t \in Tasks, LocalBack(t) PROVE Moves(t)
  BY <1>5, ConnOfAssumption, SessionsAssumption
  DEF LocalBack, Goes, AddGlobal, GlobalFull, StateTypes, InGlobal, GlobalHolders, GlobalPCs, PCs, CounterMoves
<1>6. ASSUME NEW t \in Tasks, ReserveSession(t) PROVE Moves(t)
  BY <1>6, ConnOfAssumption, SessionsAssumption
  DEF ReserveSession, Goes, AddGlobal, GlobalFull, StateTypes, InGlobal, GlobalHolders, GlobalPCs, PCs, CounterMoves
<1>7. ASSUME NEW t \in Tasks, SessionUndo(t) PROVE Moves(t)
  BY <1>7, ConnOfAssumption, SessionsAssumption
  DEF SessionUndo, Goes, AddGlobal, GlobalFull, StateTypes, InGlobal, GlobalHolders, GlobalPCs, PCs, CounterMoves
<1>8. ASSUME NEW t \in Tasks, Close(t) PROVE Moves(t)
  BY <1>8, ConnOfAssumption, SessionsAssumption
  DEF Close, Goes, AddGlobal, GlobalFull, StateTypes, InGlobal, GlobalHolders, GlobalPCs, PCs, CounterMoves
<1>9. ASSUME NEW t \in Tasks, ReleaseSession(t) PROVE Moves(t)
  BY <1>9, ConnOfAssumption, SessionsAssumption
  DEF ReleaseSession, Goes, AddGlobal, GlobalFull, StateTypes, InGlobal, GlobalHolders, GlobalPCs, PCs, CounterMoves
<1>10. ASSUME NEW t \in Tasks, ReleaseLocal(t) PROVE Moves(t)
  BY <1>10, ConnOfAssumption, SessionsAssumption
  DEF ReleaseLocal, Goes, AddGlobal, GlobalFull, StateTypes, InGlobal, GlobalHolders, GlobalPCs, PCs, CounterMoves
<1>11. ASSUME NEW t \in Tasks, ReleaseGlobal(t) PROVE Moves(t)
  BY <1>11, ConnOfAssumption, SessionsAssumption
  DEF ReleaseGlobal, Goes, AddGlobal, GlobalFull, StateTypes, InGlobal, GlobalHolders, GlobalPCs, PCs, CounterMoves
<1> QED
  BY <1>a, <1>b, <1>1, <1>2, <1>3, <1>4, <1>5, <1>6, <1>7, <1>8, <1>9, <1>10, <1>11 DEF Next

\* Every step keeps the session counters exact and within their limit.
LEMMA SessionNext == StateTypes /\ SessionExact /\ [Next]_vars => SessionExact'
<1> SUFFICES ASSUME StateTypes, SessionExact, [Next]_vars, SessionLimit > 0, NEW k \in Conns
             PROVE  sessions'[k] = Cardinality(InSession(k)') /\ Cardinality(SessionHolders(k)') <= SessionLimit
  BY DEF SessionExact
<1> DEFINE Moves(t) == CounterMoves(t, InSession(k), InSession(k)', SessionHolders(k), SessionHolders(k)', sessions[k], sessions'[k], SessionLimit)
<1>a. ASSUME NEW t \in Tasks, Moves(t)
      PROVE  sessions'[k] = Cardinality(InSession(k)') /\ Cardinality(SessionHolders(k)') <= SessionLimit
  <2>1. /\ InSession(k) \subseteq Tasks /\ InSession(k)' \subseteq Tasks
        /\ SessionHolders(k) \subseteq InSession(k) /\ SessionHolders(k)' \subseteq InSession(k)'
    BY SessionsAssumption DEF InSession, SessionHolders
  <2>2. sessions[k] = Cardinality(InSession(k)) /\ Cardinality(SessionHolders(k)) <= SessionLimit
    BY DEF SessionExact
  <2> QED
    BY <1>a, <2>1, <2>2, CounterStep, LimitsAssumption
<1>b. CASE UNCHANGED vars
  <2>1. InSession(k)' = InSession(k) /\ SessionHolders(k)' = SessionHolders(k) /\ sessions'[k] = sessions[k]
    BY <1>b DEF vars, InSession, SessionHolders
  <2> QED
    BY <2>1 DEF SessionExact
<1>1. ASSUME NEW t \in Tasks, ReserveLocal(t) PROVE Moves(t)
  BY <1>1, ConnOfAssumption, SessionsAssumption
  DEF ReserveLocal, Goes, AddSession, SessionFull, Counted, StateTypes, InSession, SessionHolders, SessionPCs, PCs, CounterMoves
<1>2. ASSUME NEW t \in Tasks, LocalUndo(t) PROVE Moves(t)
  BY <1>2, ConnOfAssumption, SessionsAssumption
  DEF LocalUndo, Goes, AddSession, SessionFull, Counted, StateTypes, InSession, SessionHolders, SessionPCs, PCs, CounterMoves
<1>3. ASSUME NEW t \in Tasks, ReserveGlobal(t) PROVE Moves(t)
  BY <1>3, ConnOfAssumption, SessionsAssumption
  DEF ReserveGlobal, Goes, AddSession, SessionFull, Counted, StateTypes, InSession, SessionHolders, SessionPCs, PCs, CounterMoves
<1>4. ASSUME NEW t \in Tasks, GlobalUndo(t) PROVE Moves(t)
  BY <1>4, ConnOfAssumption, SessionsAssumption
  DEF GlobalUndo, Goes, AddSession, SessionFull, Counted, StateTypes, InSession, SessionHolders, SessionPCs, PCs, CounterMoves
<1>5. ASSUME NEW t \in Tasks, LocalBack(t) PROVE Moves(t)
  BY <1>5, ConnOfAssumption, SessionsAssumption
  DEF LocalBack, Goes, AddSession, SessionFull, Counted, StateTypes, InSession, SessionHolders, SessionPCs, PCs, CounterMoves
<1>6. ASSUME NEW t \in Tasks, ReserveSession(t) PROVE Moves(t)
  <2> USE <1>6, ConnOfAssumption, SessionsAssumption DEF ReserveSession, Goes, AddSession, Counted, StateTypes
  <2>1. CASE ConnOf[t] # k \/ t \notin Sessions
    BY <2>1 DEF InSession, SessionHolders, SessionPCs, PCs, CounterMoves
  <2>2. CASE ConnOf[t] = k /\ t \in Sessions
    <3>1. t \notin InSession(k) /\ InSession(k)' = InSession(k) \cup {t}
      BY <2>2 DEF InSession, SessionPCs, PCs
    <3>2. sessions'[k] = sessions[k] + 1
      BY <2>2
    <3>3. CASE SessionFull(t)
      <4>1. SessionHolders(k)' \subseteq SessionHolders(k)
        BY <3>3 DEF InSession, SessionHolders, SessionPCs, PCs
      <4> QED
        BY <3>1, <3>2, <4>1 DEF CounterMoves
    <3>4. CASE ~SessionFull(t)
      <4>1. sessions'[k] <= SessionLimit
        BY <2>2, <3>2, <3>4, LimitsAssumption DEF SessionFull
      <4>2. SessionHolders(k)' \subseteq InSession(k)'
        BY DEF SessionHolders
      <4> QED
        BY <3>1, <3>2, <4>1, <4>2 DEF CounterMoves
    <3> QED
      BY <3>3, <3>4
  <2> QED
    BY <2>1, <2>2
<1>7. ASSUME NEW t \in Tasks, SessionUndo(t) PROVE Moves(t)
  BY <1>7, ConnOfAssumption, SessionsAssumption
  DEF SessionUndo, Goes, AddSession, SessionFull, Counted, StateTypes, InSession, SessionHolders, SessionPCs, PCs, CounterMoves
<1>8. ASSUME NEW t \in Tasks, Close(t) PROVE Moves(t)
  BY <1>8, ConnOfAssumption, SessionsAssumption
  DEF Close, Goes, AddSession, SessionFull, Counted, StateTypes, InSession, SessionHolders, SessionPCs, PCs, CounterMoves
<1>9. ASSUME NEW t \in Tasks, ReleaseSession(t) PROVE Moves(t)
  BY <1>9, ConnOfAssumption, SessionsAssumption
  DEF ReleaseSession, Goes, AddSession, SessionFull, Counted, StateTypes, InSession, SessionHolders, SessionPCs, PCs, CounterMoves
<1>10. ASSUME NEW t \in Tasks, ReleaseLocal(t) PROVE Moves(t)
  BY <1>10, ConnOfAssumption, SessionsAssumption
  DEF ReleaseLocal, Goes, AddSession, SessionFull, Counted, StateTypes, InSession, SessionHolders, SessionPCs, PCs, CounterMoves
<1>11. ASSUME NEW t \in Tasks, ReleaseGlobal(t) PROVE Moves(t)
  BY <1>11, ConnOfAssumption, SessionsAssumption
  DEF ReleaseGlobal, Goes, AddSession, SessionFull, Counted, StateTypes, InSession, SessionHolders, SessionPCs, PCs, CounterMoves
<1> QED
  BY <1>a, <1>b, <1>1, <1>2, <1>3, <1>4, <1>5, <1>6, <1>7, <1>8, <1>9, <1>10, <1>11 DEF Next

\* A level whose limit is zero is skipped by every step.
LEMMA DisabledNext == StateTypes /\ DisabledZero /\ [Next]_vars => DisabledZero'
<1> SUFFICES ASSUME StateTypes, DisabledZero, [Next]_vars PROVE DisabledZero'
  OBVIOUS
<1>1. /\ LocalLimit = 0 => local' = local
      /\ GlobalLimit = 0 => global' = global
      /\ SessionLimit = 0 => sessions' = sessions
  BY DEF Next, vars, ReserveLocal, LocalUndo, ReserveGlobal, GlobalUndo, LocalBack, ReserveSession,
     SessionUndo, Close, ReleaseSession, ReleaseLocal, ReleaseGlobal, AddLocal, AddGlobal, AddSession, Counted
<1> QED
  BY <1>1 DEF DisabledZero

\* Every counter starts at zero, with no task counted.
LEMMA InitInv == Init => Inv
<1> SUFFICES ASSUME Init PROVE Inv
  OBVIOUS
<1>1. \A k \in Conns : /\ InLocal(k) = {} /\ LocalHolders(k) = {}
                       /\ InSession(k) = {} /\ SessionHolders(k) = {}
  BY SessionsAssumption DEF Init, InLocal, LocalHolders, InSession, SessionHolders, LocalPCs, SessionPCs, PCs
<1>2. InGlobal = {} /\ GlobalHolders = {}
  BY DEF Init, InGlobal, GlobalHolders, GlobalPCs
<1>3. Cardinality({}) = 0
  BY FS_EmptySet
<1>4. LocalExact
  BY <1>1, <1>3, LimitsAssumption DEF LocalExact, Init
<1>5. GlobalExact
  BY <1>2, <1>3, LimitsAssumption DEF GlobalExact, Init
<1>6. SessionExact
  BY <1>1, <1>3, LimitsAssumption DEF SessionExact, Init
<1>7. StateTypes /\ DisabledZero
  BY DEF StateTypes, DisabledZero, Init, PCs
<1> QED
  BY <1>4, <1>5, <1>6, <1>7 DEF Inv

\* The inductive invariant holds of every reachable state of the limiters.
THEOREM Invariance == Spec => []Inv
<1>1. Inv /\ [Next]_vars => Inv'
  BY TypesNext, LocalNext, GlobalNext, SessionNext, DisabledNext DEF Inv
<1> QED
  BY InitInv, <1>1, PTL DEF Spec

\* Every counter of connectionChannelLimiter and resourceLimiter is exact.
THEOREM CountersAreExact == Spec => []CountersExact
<1>1. Inv => CountersExact
  BY LimitsAssumption DEF Inv, LocalExact, GlobalExact, SessionExact, DisabledZero, CountersExact
<1> QED
  BY Invariance, <1>1, PTL

\* The variables keep their types and no counter is ever negative.
THEOREM TypeCorrect == Spec => []TypeOK
<1>1. Inv => TypeOK
  <2> SUFFICES ASSUME Inv PROVE TypeOK
    OBVIOUS
  <2>1. \A k \in Conns : Cardinality(InLocal(k)) \in Nat /\ Cardinality(InSession(k)) \in Nat
    BY TaskSets, SessionsAssumption DEF InLocal, InSession
  <2>2. Cardinality(InGlobal) \in Nat
    BY TaskSets DEF InGlobal
  <2>3. /\ \A k \in Conns : local[k] \in Nat /\ sessions[k] \in Nat
        /\ global \in Nat
    BY <2>1, <2>2, LimitsAssumption DEF Inv, LocalExact, GlobalExact, SessionExact, DisabledZero
  <2> QED
    BY <2>3 DEF Inv, StateTypes, TypeOK
<1> QED
  BY Invariance, <1>1, PTL

\* No more channels, forwards or sessions than each limit allows hold a slot, although
\* the counters themselves overshoot while rejected attempts are taken back.
THEOREM LimitsSafe == Spec => []LimitsHold
<1>1. Inv => LimitsHold
  BY DEF Inv, LocalExact, GlobalExact, SessionExact, LimitsHold
<1> QED
  BY Invariance, <1>1, PTL

================================================================================
