------------------------------ MODULE LifeGraph ------------------------------
(***************************************************************************)
(* The event log of the mobile app: LifeGraphRepository over the resilient *)
(* store over SQLite.  The repository keeps the list in memory and has the *)
(* whole list saved after each change.  A save is one transaction that     *)
(* walks the LIVE list, one awaited insert per event; transactions exclude *)
(* one another, but the list can change at every await.  A save that fails *)
(* makes the store leave SQLite for a store in memory until the app stops. *)
(***************************************************************************)
EXTENDS Naturals, Sequences

CONSTANTS
    Ids,     \* events the user can record; ids are timestamps, never reused
    Seeds,   \* ids of the demo events, in order
    Calls,   \* changes that can be under way at once
    None     \* no id

VARIABLES
    app,            \* down; seeding: bootstrap saves the demo events; up
    events,         \* LifeGraphRepository._events
    disk,           \* rows of life_events in SQLite
    seedOff,        \* demo_seed_enabled is 'false' in SQLite
    usingFallback,  \* ResilientLocalStore._usingFallback
    call,           \* the changes under way
    used,           \* history: ids recorded so far
    stored,         \* history: ids whose addEvent returned from SQLite
    revoking,       \* history: <<call, id>>, updates to local_only not undone since
    revoked,        \* history: ids such an update returned from SQLite for
    wiped,          \* history: ids there were when a deletion emptied a list
    gone,           \* history: wiped ids whose deletion returned from SQLite
    broken          \* history: SQLite really failed since the app started

persistent == <<disk, seedOff>>
history    == <<used, stored, revoking, revoked, wiped, gone, broken>>
vars       == <<app, events, persistent, usingFallback, call, history>>

\* The third level, sync_allowed, keeps an event from the AI as local_only does.
Levels  == {"local_only", "ai_allowed"}
SeedIds == {Seeds[i] : i \in 1..Len(Seeds)}
Entry   == [id : Ids \cup SeedIds, level : Levels]
IdsOf(list) == {list[i].id : i \in 1..Len(list)}
SeedEvents  == [i \in 1..Len(Seeds) |-> [id |-> Seeds[i], level |-> "local_only"]]

\* The demo events are five, with an id each.
ASSUME LifeGraphAssumption ==
    /\ Ids \cap SeedIds = {} /\ None \notin Ids \cup SeedIds
    /\ Seeds \in Seq(SeedIds)
    /\ \A i, j \in 1..Len(Seeds) : Seeds[i] = Seeds[j] => i = j

Idle == [pc |-> "idle", op |-> "none", id |-> None, len |-> 0, rows |-> <<>>]

\* `len` is the length the iterator of the list was created with, `rows` what the
\* open transaction has inserted.
Call == [pc   : {"idle", "queued", "writing", "committing", "unseeding", "deleting", "deleted"},
         op   : {"none", "seed", "add", "level", "clear"},
         id   : Ids \cup SeedIds \cup {None},
         len  : Nat,
         rows : Seq(Entry)]

\* Mutant: saves are not transactions.
UnlockedAlways == TRUE

\* Only one transaction is open.
Unlocked == \A c \in Calls : call[c].pc \notin {"writing", "committing"}

Init ==
    /\ app = "down" /\ events = <<>> /\ disk = <<>> /\ seedOff = FALSE
    /\ usingFallback = FALSE
    /\ call = [c \in Calls |-> Idle]
    /\ used = {} /\ stored = {} /\ revoking = {} /\ revoked = {}
    /\ wiped = {} /\ gone = {}
    /\ broken = FALSE

-----------------------------------------------------------------------------
(* Changes to the list.  Each one ends by having the list saved.            *)

\* saveLifeEvents through _run: the store in memory saves at once.
Save(c, op, id) ==
    call' = IF usingFallback
            THEN [call EXCEPT ![c] = Idle]
            ELSE [call EXCEPT ![c] = [Idle EXCEPT !.pc = "queued", !.op = op, !.id = id]]

\* _recordEvent, addEvent; the level is the permission of the event's domain.
Record(c, e, level) ==
    /\ app = "up" /\ call[c].pc = "idle" /\ e \notin used
    /\ events' = Append(events, [id |-> e, level |-> level])
    /\ used' = used \cup {e}
    /\ Save(c, "add", e)
    /\ UNCHANGED <<app, persistent, usingFallback, stored, revoking, revoked, wiped, gone, broken>>

\* Mutant: the level changes and nobody saves it.
UpdatePrivacyUnsaved(c, i) ==
    /\ app = "up" /\ call[c].pc = "idle" /\ i \in 1..Len(events)
    /\ \E level \in Levels : events' = [events EXCEPT ![i].level = level]
    /\ UNCHANGED <<app, persistent, usingFallback, call, history>>

\* updateEventPrivacy, replaceAll with the list of the same length.
UpdatePrivacy(c, i) ==
    /\ app = "up" /\ call[c].pc = "idle" /\ i \in 1..Len(events)
    /\ LET e == events[i]
       IN  \E level \in Levels \ {e.level} :
              /\ events' = [events EXCEPT ![i] = [e EXCEPT !.level = level]]
              /\ Save(c, "level", e.id)
              /\ IF level = "local_only"
                 THEN /\ revoking' = IF usingFallback THEN revoking
                                     ELSE revoking \cup {<<c, e.id>>}
                      /\ UNCHANGED revoked
                 ELSE /\ revoking' = {p \in revoking : p[2] # e.id}
                      /\ revoked' = revoked \ {e.id}
    /\ UNCHANGED <<app, persistent, usingFallback, used, stored, wiped, gone, broken>>

\* deleteAllLocalData: no demo events any more, then the store is emptied, SQLite
\* in one transaction, ...  (Bound: one deletion at a time.)
Deleting(c) == call[c].op = "clear" \/ call[c].pc \in {"unseeding", "deleting", "deleted"}

Delete(c) ==
    /\ app = "up" /\ call[c].pc = "idle"
    /\ \A d \in Calls : ~Deleting(d)
    /\ call' = [call EXCEPT ![c] =
           [Idle EXCEPT !.pc = IF usingFallback THEN "deleted" ELSE "unseeding"]]
    /\ UNCHANGED <<app, events, persistent, usingFallback, history>>

Unseed(c) ==
    /\ call[c].pc = "unseeding" /\ Unlocked
    /\ seedOff' = TRUE
    /\ call' = [call EXCEPT ![c].pc = IF usingFallback THEN "deleted" ELSE "deleting"]
    /\ UNCHANGED <<app, events, disk, usingFallback, history>>

DeleteRows(c) ==
    /\ call[c].pc = "deleting" /\ Unlocked
    /\ disk' = <<>> /\ seedOff' = TRUE
    /\ call' = [call EXCEPT ![c].pc = "deleted"]
    /\ wiped' = wiped \cup used \cup SeedIds
    /\ UNCHANGED <<app, events, usingFallback, used, stored, revoking, revoked, gone, broken>>

\* ... and then the list.
Clear(c) ==
    /\ call[c].pc = "deleted"
    /\ events' = <<>>
    /\ Save(c, "clear", None)
    /\ wiped' = wiped \cup used \cup SeedIds
    /\ UNCHANGED <<app, persistent, usingFallback, used, stored, revoking, revoked, gone, broken>>

-----------------------------------------------------------------------------
(* A save in SQLite.                                                        *)

\* Mutant: the table is emptied before the transaction.
BeginEmptied(c) ==
    /\ call[c].pc = "queued" /\ Unlocked
    /\ disk' = <<>>
    /\ call' = [call EXCEPT ![c].pc = "writing", ![c].len = Len(events)]
    /\ UNCHANGED <<app, events, seedOff, usingFallback, history>>

\* The transaction has emptied the table and creates the iterator.
Begin(c) ==
    /\ call[c].pc = "queued" /\ Unlocked
    /\ call' = [call EXCEPT ![c].pc = "writing", ![c].len = Len(events)]
    /\ UNCHANGED <<app, events, persistent, usingFallback, history>>

\* The iterator moves; it notices that the list has another length, nothing else.
Insert(c) ==
    /\ call[c].pc = "writing" /\ call[c].len = Len(events)
    /\ Len(call[c].rows) < Len(events)
    /\ call' = [call EXCEPT ![c].rows = Append(call[c].rows, events[Len(call[c].rows) + 1])]
    /\ UNCHANGED <<app, events, persistent, usingFallback, history>>

LoopEnds(c) ==
    /\ call[c].pc = "writing" /\ call[c].len = Len(events)
    /\ Len(call[c].rows) = Len(events)
    /\ call' = [call EXCEPT ![c].pc = "committing"]
    /\ UNCHANGED <<app, events, persistent, usingFallback, history>>

\* bootstrap goes on when the demo events are saved, there or in memory.
AfterCall(c) == IF call[c].op = "seed" THEN "up" ELSE app
RevokingBy(c) == {p \in revoking : p[1] = c}

\* The save returns to its caller.
Commit(c) ==
    /\ call[c].pc = "committing"
    /\ disk' = call[c].rows
    /\ call' = [call EXCEPT ![c] = Idle]
    /\ stored'  = IF call[c].op = "add" THEN stored \cup {call[c].id} ELSE stored
    /\ revoked' = revoked \cup {p[2] : p \in RevokingBy(c)}
    /\ revoking' = revoking \ RevokingBy(c)
    /\ gone'    = IF call[c].op = "clear" THEN wiped ELSE gone
    /\ app' = AfterCall(c)
    /\ UNCHANGED <<events, seedOff, usingFallback, used, wiped, broken>>

\* _run after an error: the first one moves to the store in memory and saves or
\* deletes there, a later one is passed on to the caller.  SQLite rolls back.
Fails(c) ==
    /\ usingFallback' = TRUE
    /\ call' = [call EXCEPT ![c] =
           IF call[c].pc \in {"unseeding", "deleting"} /\ ~usingFallback
           THEN [Idle EXCEPT !.pc = "deleted"] ELSE Idle]
    /\ revoking' = revoking \ RevokingBy(c)
    /\ app' = AfterCall(c)
    /\ UNCHANGED <<events, persistent, used, stored, revoked, wiped, gone>>

\* ConcurrentModificationError
Conflict(c) ==
    /\ call[c].pc = "writing" /\ call[c].len # Len(events)
    /\ Fails(c)
    /\ UNCHANGED broken

\* Secure storage or the disk is not available.
Breaks(c) ==
    /\ call[c].pc \in {"queued", "writing", "committing", "unseeding", "deleting"}
    /\ Fails(c)
    /\ broken' = TRUE

\* Another collection of the store fails.
BreaksElsewhere ==
    /\ app # "down" /\ ~usingFallback
    /\ usingFallback' = TRUE /\ broken' = TRUE
    /\ UNCHANGED <<app, events, persistent, call, used, stored, revoking, revoked, wiped, gone>>

-----------------------------------------------------------------------------
(* Start and stop.                                                          *)

\* Mutant: an empty store is always seeded.
BootSeeded ==
    /\ app = "down"
    /\ events' = IF disk # <<>> THEN disk ELSE SeedEvents
    /\ IF disk = <<>> /\ events' # <<>>
       THEN /\ app' = "seeding"
            /\ \E c \in Calls : call' =
                   [call EXCEPT ![c] = [Idle EXCEPT !.pc = "queued", !.op = "seed"]]
       ELSE app' = "up" /\ UNCHANGED call
    /\ UNCHANGED <<persistent, usingFallback, history>>

\* LifeGraphRepository.bootstrap
Boot ==
    /\ app = "down"
    /\ events' = IF disk # <<>> THEN disk ELSE IF seedOff THEN <<>> ELSE SeedEvents
    /\ IF disk = <<>> /\ events' # <<>>
       THEN /\ app' = "seeding"
            /\ \E c \in Calls : call' =
                   [call EXCEPT ![c] = [Idle EXCEPT !.pc = "queued", !.op = "seed"]]
       ELSE app' = "up" /\ UNCHANGED call
    /\ UNCHANGED <<persistent, usingFallback, history>>

\* A load fails, of the events or of the flag: the store in memory asks for the
\* demo events.
BootBroken ==
    /\ app = "down" /\ app' = "up"
    /\ events' = SeedEvents \/ (disk # <<>> /\ events' = disk)
    /\ usingFallback' = TRUE /\ broken' = TRUE
    /\ UNCHANGED <<persistent, call, used, stored, revoking, revoked, wiped, gone>>

Stop ==
    /\ app # "down" /\ app' = "down"
    /\ events' = <<>> /\ usingFallback' = FALSE /\ broken' = FALSE
    /\ call' = [c \in Calls |-> Idle] /\ revoking' = {}
    /\ UNCHANGED <<persistent, used, stored, revoked, wiped, gone>>

-----------------------------------------------------------------------------
Change(c) ==
    \/ \E e \in Ids, level \in Levels : Record(c, e, level)
    \/ \E i \in 1..Len(events) : UpdatePrivacy(c, i)
    \/ Delete(c)

Progress(c) ==
    \/ Unseed(c) \/ DeleteRows(c) \/ Clear(c)
    \/ Begin(c) \/ Insert(c) \/ LoopEnds(c) \/ Commit(c) \/ Conflict(c) \/ Breaks(c)

Next ==
    \/ \E c \in Calls : Change(c) \/ Progress(c)
    \/ BreaksElsewhere \/ Boot \/ BootBroken \/ Stop

Spec == Init /\ [][Next]_vars

-----------------------------------------------------------------------------
TypeOK ==
    /\ app \in {"down", "seeding", "up"}
    /\ events \in Seq(Entry) /\ disk \in Seq(Entry)
    /\ seedOff \in BOOLEAN /\ usingFallback \in BOOLEAN /\ broken \in BOOLEAN
    /\ call \in [Calls -> Call]
    /\ used \subseteq Ids /\ stored \subseteq Ids
    /\ revoking \subseteq Calls \X (Ids \cup SeedIds)
    /\ revoked \subseteq Ids \cup SeedIds
    /\ wiped \subseteq Ids \cup SeedIds /\ gone \subseteq Ids \cup SeedIds

\* An event whose addEvent returned from SQLite is in SQLite from then on, until
\* a deletion: no other save, failover, restart or seeding loses it
\* (addEvent, saveLifeEvents, bootstrap).
StoredStays == stored \ wiped \subseteq IdsOf(disk)

\* An event made local_only stays so in SQLite once updateEventPrivacy returned,
\* unless the user allows it again: a save that began before the change and
\* walks a list changing under it never brings the old level back.
RevokedStays ==
    \A i \in 1..Len(disk) : disk[i].id \in revoked => disk[i].level = "local_only"

\* Once a deletion returned from SQLite, nothing there was is in SQLite again,
\* whatever was being saved meanwhile and however often the app starts
\* (deleteAllLocalData, the demo_seed_enabled flag).
GoneStays == gone \cap IdsOf(disk) = {}

\* When no change is under way, the app is up and on SQLite, SQLite holds the
\* list in memory, levels and order included.
SettledIsSaved ==
    app = "up" /\ ~usingFallback /\ (\A c \in Calls : call[c].pc = "idle")
        => disk = events

\* A save is disturbed only by another change that is itself under way: one
\* change at a time never meets a list of another length.
LoneSavesSucceed ==
    \A c \in Calls :
        call[c].pc = "writing" /\ call[c].len # Len(events) /\ ~usingFallback
            => \E d \in Calls \ {c} : call[d].pc # "idle"

\* "a resilient mobile local-store wrapper that falls back safely instead of
\* crashing when secure storage is unavailable": docs/operations/
\* QUALITY_SECURITY_AUDIT_2026-04-25.md:21.  Two events recorded at nearly the
\* same time make it leave a SQLite that works.
FallsBackOnlyWhenBroken == usingFallback => broken
=============================================================================
