---------------------------- MODULE ResilientStore ----------------------------
(***************************************************************************)
(* The mobile app's ResilientLocalStore: every operation runs on the       *)
(* encrypted SQLite store until one of them fails; that operation and all  *)
(* later ones of the session run on a store in memory.  Operations are     *)
(* futures, so several can be in flight, on either store, at the switch.   *)
(***************************************************************************)
EXTENDS Naturals

CONSTANTS
    Keys,         \* kinds of data, each loaded and saved as a whole
    Values,
    None,         \* the default a load returns when nothing is saved
    Calls,        \* operations the app starts, each once
    MaxRestarts   \* bound: restarts of the app

VARIABLES
    primary,        \* what SQLite holds: survives a restart
    fallback,       \* what the store in memory holds
    usingFallback,  \* _usingFallback
    call,           \* the operations: how far they are and what they do
    restarts,
    overtaken,      \* history: calls in flight on the primary at the switch
    deleted         \* history: keys deleted with success and not saved since

vars == <<primary, fallback, usingFallback, call, restarts, overtaken, deleted>>

ASSUME StoreAssumption == None \notin Values /\ MaxRestarts \in Nat

Content == [Keys -> Values \cup {None}]
Empty   == [k \in Keys |-> None]

\* The operations of the LocalStore interface.
SaveOf(k, v) == [type |-> "save", key |-> k, value |-> v]
LoadOf(k)    == [type |-> "load", key |-> k]
DeleteAll    == [type |-> "delete"]
Op == {SaveOf(k, v) : k \in Keys, v \in Values} \cup {LoadOf(k) : k \in Keys}
          \cup {DeleteAll}

Call == [pc : {"new", "primary", "fallback", "ok", "error", "dead"}, op : Op]

\* What an operation leaves in the store it runs on.  Saves and deleteAllData
\* are single statements or transactions.
Effect(store, op) ==
    CASE op.type = "save"   -> [store EXCEPT ![op.key] = op.value]
      [] op.type = "delete" -> Empty
      [] OTHER              -> store

Saving(c, k) == call[c].op.type = "save" /\ call[c].op.key = k
InFlight(c)  == call[c].pc \in {"primary", "fallback"}

-----------------------------------------------------------------------------
\* A deletion that returns covers every key with no save still in flight.
Returned(c) ==
    deleted' = IF call[c].op.type = "delete"
               THEN deleted \cup {k \in Keys : ~ \E d \in Calls : InFlight(d) /\ Saving(d, k)}
               ELSE deleted

\* Mutant: the operation goes to the primary whatever happened before.
StartOnPrimary(c, op) ==
    /\ call[c].pc = "new"
    /\ call' = [call EXCEPT ![c] = [pc |-> "primary", op |-> op]]
    /\ deleted' = IF op.type = "save" THEN deleted \ {op.key} ELSE deleted
    /\ UNCHANGED <<primary, fallback, usingFallback, restarts, overtaken>>

\* action(_activeStore)
Start(c, op) ==
    /\ call[c].pc = "new"
    /\ call' = [call EXCEPT ![c] = [pc |-> IF usingFallback THEN "fallback" ELSE "primary",
                                    op |-> op]]
    /\ deleted' = IF op.type = "save" THEN deleted \ {op.key} ELSE deleted
    /\ UNCHANGED <<primary, fallback, usingFallback, restarts, overtaken>>

PrimaryServes(c) ==
    /\ call[c].pc = "primary"
    /\ primary' = Effect(primary, call[c].op)
    /\ call' = [call EXCEPT ![c].pc = "ok"]
    /\ Returned(c)
    /\ UNCHANGED <<fallback, usingFallback, restarts, overtaken>>

\* Mutant: every failure changes sides.
PrimaryFailsToggles(c) ==
    /\ call[c].pc = "primary"
    /\ call' = [call EXCEPT ![c].pc = IF usingFallback THEN "error" ELSE "fallback"]
    /\ usingFallback' = ~usingFallback
    /\ overtaken' = {d \in Calls : d # c /\ call[d].pc = "primary"}
    /\ UNCHANGED <<primary, fallback, restarts, deleted>>

\* The catch block: the first failure of the session switches and runs the
\* operation again on the fallback, a later one is rethrown.
PrimaryFails(c) ==
    /\ call[c].pc = "primary"
    /\ call' = [call EXCEPT ![c].pc = IF usingFallback THEN "error" ELSE "fallback"]
    /\ usingFallback' = TRUE
    /\ overtaken' = IF usingFallback THEN overtaken
                    ELSE {d \in Calls : d # c /\ call[d].pc = "primary"}
    /\ UNCHANGED <<primary, fallback, restarts, deleted>>

\* Mutant: the fallback writes through to SQLite.
FallbackServesThrough(c) ==
    /\ call[c].pc = "fallback"
    /\ fallback' = Effect(fallback, call[c].op)
    /\ primary' = Effect(primary, call[c].op)
    /\ call' = [call EXCEPT ![c].pc = "ok"]
    /\ Returned(c)
    /\ UNCHANGED <<usingFallback, restarts, overtaken>>

FallbackServes(c) ==
    /\ call[c].pc = "fallback"
    /\ fallback' = Effect(fallback, call[c].op)
    /\ call' = [call EXCEPT ![c].pc = "ok"]
    /\ Returned(c)
    /\ UNCHANGED <<primary, usingFallback, restarts, overtaken>>

\* The process ends and starts again, with a new ResilientLocalStore.
Restart ==
    /\ restarts < MaxRestarts
    /\ restarts' = restarts + 1
    /\ usingFallback' = FALSE /\ fallback' = Empty /\ overtaken' = {}
    /\ call' = [c \in Calls |-> IF InFlight(c) THEN [call[c] EXCEPT !.pc = "dead"]
                                ELSE call[c]]
    /\ UNCHANGED <<primary, deleted>>

-----------------------------------------------------------------------------
Init ==
    /\ primary \in Content
    /\ fallback = Empty /\ usingFallback = FALSE
    /\ call = [c \in Calls |-> [pc |-> "new", op |-> DeleteAll]]
    /\ restarts = 0 /\ overtaken = {} /\ deleted = {}

Begin(c) == \/ Start(c, DeleteAll)
            \/ \E k \in Keys : Start(c, LoadOf(k)) \/ \E v \in Values : Start(c, SaveOf(k, v))

Serve(c) == PrimaryServes(c) \/ PrimaryFails(c) \/ FallbackServes(c)

Next == (\E c \in Calls : Begin(c) \/ Serve(c)) \/ Restart

Spec == Init /\ [][Next]_vars

-----------------------------------------------------------------------------
(* Properties.                                                             *)

\* The state has its types.
TypeOK ==
    /\ primary \in Content /\ fallback \in Content
    /\ usingFallback \in BOOLEAN
    /\ call \in [Calls -> Call]
    /\ restarts \in Nat
    /\ overtaken \subseteq Calls
    /\ deleted \subseteq Keys

\* While the session is on SQLite nothing fails and nothing is on the fallback;
\* a call that fails lost a race: it was in flight when another one switched.
FailuresAreRaces ==
    /\ ~usingFallback => \A c \in Calls : call[c].pc # "fallback"
    /\ usingFallback => \A c \in Calls : call[c].pc = "primary" => c \in overtaken

\* After the switch SQLite changes only by calls that were in flight at it, so
\* once they return the device keeps what it has until the app restarts.
PrimaryFrozen ==
    [][usingFallback /\ primary' # primary =>
           \E c \in overtaken : call[c].pc = "primary" /\ call'[c].pc = "ok"]_vars

\* The active store is a SessionStore: one atomic map that keeps its data over a
\* restart unless it forgot everything, at most once in the session (_run switches
\* at most once, to an empty store).
View == IF usingFallback THEN fallback ELSE primary
Session == INSTANCE SessionStore WITH view <- View, forgot <- usingFallback,
                                         session <- restarts
IsSessionStore == Session!Spec

\* docs/legal/PRIVACY_POLICY.md:52, "Delete all removes local app data from the
\* device": what was deleted with success and not saved since is nowhere.  It
\* fails when the deletion runs on the fallback.
DeletedIsGone == \A k \in deleted : primary[k] = None /\ fallback[k] = None
=============================================================================
