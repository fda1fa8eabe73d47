-------------------------- MODULE ResilientStoreProofs --------------------------
(***************************************************************************)
(* Proofs about ResilientStore, for any keys, values and calls: its        *)
(* invariants, that SQLite is frozen after the switch, and that the active *)
(* store is a SessionStore.                                                *)
(***************************************************************************)
EXTENDS ResilientStore, TLAPS

\* Nothing was ever written to the fallback before the switch.
FallbackFresh == ~usingFallback => fallback = Empty

IInv == TypeOK /\ FailuresAreRaces /\ FallbackFresh

\* An operation is one of three, and leaves a content.
LEMMA OpKinds ==
    ASSUME NEW op \in Op
    PROVE  \/ op.type = "save" /\ op.key \in Keys /\ op.value \in Values
           \/ op.type = "load"
           \/ op.type = "delete"
BY DEF Op, SaveOf, LoadOf, DeleteAll

LEMMA EffectType ==
    ASSUME NEW store \in Content, NEW op \in Op
    PROVE  /\ Effect(store, op) \in Content
           /\ \/ Effect(store, op) = store
              \/ Effect(store, op) = Empty
              \/ \E k \in Keys, v \in Values : Effect(store, op) = [store EXCEPT ![k] = v]
<1>1. CASE op.type = "save" /\ op.key \in Keys /\ op.value \in Values
  BY <1>1 DEF Effect, Content
<1>2. CASE op.type = "load"
  BY <1>2 DEF Effect
<1>3. CASE op.type = "delete"
  BY <1>3 DEF Effect, Content, Empty
<1> QED
  BY <1>1, <1>2, <1>3, OpKinds

LEMMA InitIInv == Init => IInv
<1> SUFFICES ASSUME Init PROVE IInv
  OBVIOUS
<1> USE DEF Init
<1>1. DeleteAll \in Op
  BY DEF Op
<1>2. call \in [Calls -> Call] /\ \A c \in Calls : call[c].pc = "new"
  BY <1>1 DEF Call
<1>3. Empty \in Content
  BY DEF Empty, Content
<1>4. TypeOK
  BY <1>2, <1>3, StoreAssumption DEF TypeOK
<1>5. FailuresAreRaces /\ FallbackFresh
  BY <1>2 DEF FailuresAreRaces, FallbackFresh
<1> QED
  BY <1>4, <1>5 DEF IInv

\* How a call ends or moves on changes the state of this call only.
LEMMA CallMoves ==
    ASSUME TypeOK, NEW c \in Calls,
           NEW p \in {"fallback", "ok", "error"}, call' = [call EXCEPT ![c].pc = p]
    PROVE  /\ call' \in [Calls -> Call]
           /\ call'[c].pc = p
           /\ \A d \in Calls : d # c => call'[d] = call[d]
<1>1. call[c] \in Call
  BY DEF TypeOK
<1> DEFINE moved == [call[c] EXCEPT !.pc = p]
<1>2. moved \in Call /\ moved.pc = p
  BY <1>1 DEF Call
<1>3. call' = [call EXCEPT ![c] = moved]
  OBVIOUS
<1> HIDE DEF moved
<1> QED
  BY <1>2, <1>3 DEF TypeOK

LEMMA ReturnedType ==
    ASSUME TypeOK, NEW c \in Calls, Returned(c)
    PROVE  deleted' \subseteq Keys
BY DEF TypeOK, Returned

-----------------------------------------------------------------------------
LEMMA StartStep ==
    ASSUME IInv, NEW c \in Calls, NEW op \in Op, Start(c, op)
    PROVE  IInv'
<1> USE DEF IInv
<1> DEFINE started == [pc |-> IF usingFallback THEN "fallback" ELSE "primary", op |-> op]
<1>1. started \in Call
  BY DEF Call
<1>2. /\ call' \in [Calls -> Call] /\ call'[c] = started
      /\ \A d \in Calls : d # c => call'[d] = call[d]
  BY <1>1 DEF Start, TypeOK
<1>3. TypeOK'
  BY <1>2 DEF Start, TypeOK
<1>4. FailuresAreRaces'
  BY <1>2 DEF Start, FailuresAreRaces
<1>5. FallbackFresh'
  BY DEF Start, FallbackFresh
<1> QED
  BY <1>3, <1>4, <1>5

LEMMA PrimaryServesStep ==
    ASSUME IInv, NEW c \in Calls, PrimaryServes(c)
    PROVE  IInv'
<1> USE DEF IInv
<1>1. /\ call' \in [Calls -> Call] /\ call'[c].pc = "ok"
      /\ \A d \in Calls : d # c => call'[d] = call[d]
  BY CallMoves DEF PrimaryServes
<1>2. call[c].op \in Op
  BY DEF TypeOK, Call
<1>3. primary' \in Content
  BY <1>2, EffectType DEF PrimaryServes, TypeOK
<1>4. TypeOK'
  BY <1>1, <1>3, ReturnedType DEF PrimaryServes, TypeOK
<1>5. FailuresAreRaces' /\ FallbackFresh'
  BY <1>1 DEF PrimaryServes, FailuresAreRaces, FallbackFresh
<1> QED
  BY <1>4, <1>5

LEMMA PrimaryFailsStep ==
    ASSUME IInv, NEW c \in Calls, PrimaryFails(c)
    PROVE  IInv'
<1> USE DEF IInv
<1> DEFINE p == IF usingFallback THEN "error" ELSE "fallback"
<1>1. /\ call' \in [Calls -> Call] /\ call'[c].pc = p
      /\ \A d \in Calls : d # c => call'[d] = call[d]
  BY CallMoves DEF PrimaryFails
<1>2. TypeOK'
  BY <1>1 DEF PrimaryFails, TypeOK
<1>3. FailuresAreRaces'
  BY <1>1 DEF PrimaryFails, FailuresAreRaces
<1>4. FallbackFresh'
  BY DEF PrimaryFails, FallbackFresh
<1> QED
  BY <1>2, <1>3, <1>4

LEMMA FallbackServesStep ==
    ASSUME IInv, NEW c \in Calls, FallbackServes(c)
    PROVE  IInv'
<1> USE DEF IInv
<1>1. /\ call' \in [Calls -> Call] /\ call'[c].pc = "ok"
      /\ \A d \in Calls : d # c => call'[d] = call[d]
  BY CallMoves DEF FallbackServes
<1>2. call[c].op \in Op
  BY DEF TypeOK, Call
<1>3. fallback' \in Content
  BY <1>2, EffectType DEF FallbackServes, TypeOK
<1>4. TypeOK'
  BY <1>1, <1>3, ReturnedType DEF FallbackServes, TypeOK
<1>5. FailuresAreRaces'
  BY <1>1 DEF FallbackServes, FailuresAreRaces
<1>6. usingFallback
  BY DEF FallbackServes, FailuresAreRaces, TypeOK
<1>7. FallbackFresh'
  BY <1>6 DEF FallbackServes, FallbackFresh
<1> QED
  BY <1>4, <1>5, <1>7

LEMMA RestartStep ==
    ASSUME IInv, Restart
    PROVE  IInv'
<1> USE DEF IInv
<1>1. \A c \in Calls : /\ call'[c] \in Call
                       /\ call'[c].pc # "fallback"
  BY DEF Restart, InFlight, TypeOK, Call
<1>2. call' \in [Calls -> Call]
  BY <1>1 DEF Restart
<1>3. Empty \in Content
  BY DEF Empty, Content
<1>4. TypeOK'
  <2>1. restarts' \in Nat /\ primary' \in Content /\ fallback' \in Content
    BY <1>3 DEF Restart, TypeOK
  <2>2. usingFallback' \in BOOLEAN /\ overtaken' \subseteq Calls /\ deleted' \subseteq Keys
    BY DEF Restart, TypeOK
  <2> QED
    BY <1>2, <2>1, <2>2 DEF TypeOK
<1>5. FailuresAreRaces' /\ FallbackFresh'
  BY <1>1 DEF Restart, FailuresAreRaces, FallbackFresh, Empty
<1> QED
  BY <1>4, <1>5

LEMMA BeginIsStart ==
    ASSUME NEW c \in Calls, Begin(c)
    PROVE  \E op \in Op : Start(c, op)
<1>1. DeleteAll \in Op /\ \A k \in Keys : LoadOf(k) \in Op
  BY DEF Op
<1>2. \A k \in Keys, v \in Values : SaveOf(k, v) \in Op
  BY DEF Op
<1> QED
  BY <1>1, <1>2 DEF Begin

LEMMA NextIInv == IInv /\ [Next]_vars => IInv'
<1> SUFFICES ASSUME IInv, [Next]_vars PROVE IInv'
  OBVIOUS
<1>1. ASSUME NEW c \in Calls, Begin(c) PROVE IInv'
  BY <1>1, BeginIsStart, StartStep
<1>2. ASSUME NEW c \in Calls, Serve(c) PROVE IInv'
  BY <1>2, PrimaryServesStep, PrimaryFailsStep, FallbackServesStep DEF Serve
<1>3. CASE Restart
  BY <1>3, RestartStep
<1>4. CASE UNCHANGED vars
  BY <1>4 DEF vars, IInv, TypeOK, FailuresAreRaces, FallbackFresh, Empty
<1> QED
  BY <1>1, <1>2, <1>3, <1>4 DEF Next

LEMMA AlwaysIInv == Spec => []IInv
BY InitIInv, NextIInv, PTL DEF Spec

\* The state keeps its types (ResilientLocalStore).
THEOREM TypeCorrect == Spec => []TypeOK
<1>1. IInv => TypeOK
  BY DEF IInv
<1> QED
  BY <1>1, AlwaysIInv, PTL

\* A call can fail for its caller only if it was in flight when another call
\* switched the stores (_run's catch block).
THEOREM OnlyRacesFail == Spec => []FailuresAreRaces
<1>1. IInv => FailuresAreRaces
  BY DEF IInv
<1> QED
  BY <1>1, AlwaysIInv, PTL

\* After the switch SQLite changes only by calls in flight at it (_activeStore).
THEOREM PrimaryIsFrozen == Spec => PrimaryFrozen
<1> DEFINE Frozen == usingFallback /\ primary' # primary =>
               \E c \in overtaken : call[c].pc = "primary" /\ call'[c].pc = "ok"
<1>1. ASSUME IInv, [Next]_vars PROVE Frozen
  <2> SUFFICES ASSUME usingFallback, primary' # primary
               PROVE  \E c \in overtaken : call[c].pc = "primary" /\ call'[c].pc = "ok"
    OBVIOUS
  <2>1. PICK c \in Calls : PrimaryServes(c)
    BY <1>1 DEF Next, Begin, Serve, Start, PrimaryFails, FallbackServes, Restart, vars
  <2>2. call[c].pc = "primary" /\ call'[c].pc = "ok"
    BY <1>1, <2>1, CallMoves DEF PrimaryServes, IInv
  <2>3. c \in overtaken
    BY <1>1, <2>2 DEF IInv, FailuresAreRaces
  <2> QED
    BY <2>2, <2>3
<1> QED
  BY <1>1, AlwaysIInv, PTL DEF Spec, PrimaryFrozen

-----------------------------------------------------------------------------
\* Serving an operation on the active store is a step of the session store;
\* a late call on SQLite after the switch is none.
LEMMA StepRefines ==
    ASSUME IInv, [Next]_vars
    PROVE  [Session!Next]_<<View, usingFallback, restarts>>
<1> USE DEF IInv
<1>1. ASSUME NEW c \in Calls, Begin(c)
      PROVE  UNCHANGED <<View, usingFallback, restarts>>
  BY <1>1, BeginIsStart DEF Start, View
<1>2. ASSUME NEW c \in Calls, PrimaryServes(c)
      PROVE  [Session!Next]_<<View, usingFallback, restarts>>
  <2>1. CASE usingFallback
    BY <1>2, <2>1 DEF PrimaryServes, View
  <2>2. CASE ~usingFallback
    <3>1. primary \in Content /\ call[c].op \in Op
      BY DEF TypeOK, Call
    <3>2. View = primary /\ View' = Effect(primary, call[c].op)
      BY <1>2, <2>2 DEF PrimaryServes, View
    <3> QED
      BY <1>2, <3>1, <3>2, EffectType
         DEF PrimaryServes, Session!Next, Session!Save, Session!DeleteAll, Session!Empty, Empty
  <2> QED
    BY <2>1, <2>2
<1>3. ASSUME NEW c \in Calls, PrimaryFails(c)
      PROVE  [Session!Next]_<<View, usingFallback, restarts>>
  <2>1. CASE usingFallback
    BY <1>3, <2>1 DEF PrimaryFails, View
  <2>2. CASE ~usingFallback
    <3>1. View' = Empty /\ usingFallback' = TRUE /\ restarts' = restarts
      BY <1>3, <2>2 DEF PrimaryFails, View, FallbackFresh
    <3> QED
      BY <2>2, <3>1 DEF Session!Next, Session!Forget, Session!Empty, Empty
  <2> QED
    BY <2>1, <2>2
<1>4. ASSUME NEW c \in Calls, FallbackServes(c)
      PROVE  [Session!Next]_<<View, usingFallback, restarts>>
  <2>1. usingFallback
    BY <1>4 DEF FallbackServes, FailuresAreRaces, TypeOK
  <2>2. fallback \in Content /\ call[c].op \in Op
    BY DEF TypeOK, Call
  <2>3. View = fallback /\ View' = Effect(fallback, call[c].op)
    BY <1>4, <2>1 DEF FallbackServes, View
  <2> QED
    BY <1>4, <2>2, <2>3, EffectType
       DEF FallbackServes, Session!Next, Session!Save, Session!DeleteAll, Session!Empty, Empty
<1>5. CASE Restart
  <2>1. View' = primary /\ usingFallback' = FALSE /\ restarts' = restarts + 1
    BY <1>5 DEF Restart, View
  <2>2. ~usingFallback => View' = View
    BY <2>1 DEF View
  <2>3. View' \in Session!Content
    BY <2>1 DEF TypeOK, Content, Session!Content
  <2> QED
    BY <2>1, <2>2, <2>3 DEF Session!Next, Session!NewSession
<1>6. CASE UNCHANGED vars
  BY <1>6 DEF vars, View
<1> QED
  BY <1>1, <1>2, <1>3, <1>4, <1>5, <1>6 DEF Next, Serve

\* The active store implements SessionStore (ResilientLocalStore._run).
THEOREM ImplementsSessionStore == Spec => IsSessionStore
<1>1. Init => Session!Init
  BY DEF Init, View, Content, Session!Init, Session!Content
<1> QED
  BY <1>1, AlwaysIInv, StepRefines, PTL DEF Spec, IsSessionStore, Session!Spec
=============================================================================
