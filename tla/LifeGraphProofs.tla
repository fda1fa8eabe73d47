--------------------------- MODULE LifeGraphProofs ---------------------------
(***************************************************************************)
(* Proofs about LifeGraph, for any events, any demo events and any number  *)
(* of changes at once: no save, failover, restart or deletion loses an     *)
(* event that SQLite has stored, brings back a level the user took away or *)
(* an event the user deleted; with nothing under way SQLite holds the list *)
(* in memory; and a change alone is never disturbed.                       *)
(***************************************************************************)
EXTENDS LifeGraph, TLAPS

Writing(c)  == call[c].pc \in {"writing", "committing"}
InFlight(c) == call[c].pc = "queued" \/ Writing(c)
Kept        == stored \ wiped

\* One transaction at a time, and no call while the app is down.
OneWriter  == \A c, d \in Calls : Writing(c) /\ Writing(d) => c = d
DownIsIdle == app = "down" => ~usingFallback /\ \A c \in Calls : call[c].pc = "idle"

\* What was stored was recorded, and so was what an addEvent is about to store.
WereUsed ==
    /\ stored \subseteq used
    /\ \A c \in Calls : call[c].op = "add" => call[c].id \in used

\* The list in memory has all that a save must not lose.
MemoryHolds ==
    /\ (app # "down" /\ ~usingFallback) \/ (\E c \in Calls : InFlight(c))
          => Kept \subseteq IdsOf(events)
    /\ \A c \in Calls : call[c].op = "add" => call[c].id \in wiped \cup IdsOf(events)

\* The rows written so far are the list's first ones, unless the list was
\* emptied meanwhile; then there is nothing to lose.
RowsFollow ==
    \A c \in Calls : call[c].pc = "writing" =>
        \/ /\ Len(call[c].rows) <= call[c].len /\ call[c].len <= Len(events)
           /\ \A i \in 1..Len(call[c].rows) : call[c].rows[i].id = events[i].id
        \/ Kept = {} /\ (call[c].op = "add" => call[c].id \in wiped)

\* An idle call changes nothing, and a save that has not begun has written nothing.
Fresh ==
    \A c \in Calls :
        /\ call[c].pc = "idle" => call[c].op = "none"
        /\ call[c].pc = "queued" => call[c].rows = <<>>

\* Rows about to be committed have all that was stored, and the event to store.
RowsHold ==
    \A c \in Calls : call[c].pc = "committing" =>
        /\ Kept \subseteq IdsOf(call[c].rows)
        /\ call[c].op = "add" => call[c].id \in wiped \cup IdsOf(call[c].rows)

IInv ==
    /\ TypeOK /\ OneWriter /\ DownIsIdle /\ WereUsed
    /\ MemoryHolds /\ Fresh /\ RowsFollow /\ RowsHold
    /\ StoredStays /\ LoneSavesSucceed

-----------------------------------------------------------------------------
(* Lists of events.                                                         *)

LEMMA EntryType ==
    ASSUME NEW e \in Entry
    PROVE  e.id \in Ids \cup SeedIds /\ e.level \in Levels
BY DEF Entry

LEMMA IdsAppend ==
    ASSUME NEW s \in Seq(Entry), NEW e \in Entry
    PROVE  /\ Append(s, e) \in Seq(Entry)
           /\ Len(Append(s, e)) = Len(s) + 1
           /\ \A i \in 1..Len(s) : Append(s, e)[i] = s[i]
           /\ Append(s, e)[Len(s) + 1] = e
           /\ IdsOf(s) \subseteq IdsOf(Append(s, e))
           /\ e.id \in IdsOf(Append(s, e))
<1> DEFINE t == Append(s, e)
<1>1. /\ t \in Seq(Entry) /\ Len(t) = Len(s) + 1 /\ Len(s) \in Nat
      /\ \A i \in 1..Len(s) : t[i] = s[i]
      /\ t[Len(s) + 1] = e
  OBVIOUS
<1> HIDE DEF t
<1>2. IdsOf(s) \subseteq IdsOf(t)
  <2> SUFFICES ASSUME NEW i \in 1..Len(s) PROVE s[i].id \in IdsOf(t)
    BY DEF IdsOf
  <2>1. i \in 1..Len(t) /\ t[i].id = s[i].id
    BY <1>1
  <2> QED
    BY <2>1 DEF IdsOf
<1>3. e.id \in IdsOf(t)
  <2>1. Len(s) + 1 \in 1..Len(t) /\ t[Len(s) + 1].id = e.id
    BY <1>1
  <2> QED
    BY <2>1 DEF IdsOf
<1> QED
  BY <1>1, <1>2, <1>3 DEF t

\* Lists with the same ids in the same places have the same ids.
LEMMA IdsAligned ==
    ASSUME NEW s \in Seq(Entry), NEW t \in Seq(Entry), Len(s) = Len(t),
           \A i \in 1..Len(s) : s[i].id = t[i].id
    PROVE  IdsOf(s) = IdsOf(t)
BY DEF IdsOf

LEMMA IdsEmpty == IdsOf(<<>>) = {} /\ <<>> \in Seq(Entry) /\ Len(<<>>) = 0
BY DEF IdsOf

LEMMA SeedEventsType == SeedEvents \in Seq(Entry)
<1>1. Seeds \in Seq(SeedIds) /\ Len(Seeds) \in Nat
  BY LifeGraphAssumption
<1>2. \A i \in 1..Len(Seeds) : [id |-> Seeds[i], level |-> "local_only"] \in Entry
  BY <1>1 DEF Entry, Levels
<1> QED
  BY <1>1, <1>2 DEF SeedEvents

-----------------------------------------------------------------------------
(* Calls.                                                                   *)

LEMMA CallSet ==
    ASSUME call \in [Calls -> Call], NEW c \in Calls, NEW new \in Call,
           call' = [call EXCEPT ![c] = new]
    PROVE  /\ call' \in [Calls -> Call]
           /\ call'[c] = new
           /\ \A d \in Calls : d # c => call'[d] = call[d]
OBVIOUS

LEMMA IdleType ==
    /\ Idle \in Call /\ Idle.pc = "idle" /\ Idle.op = "none"
    /\ Idle.len = 0 /\ Idle.rows = <<>>
BY IdsEmpty DEF Idle, Call

\* A change asks for a save: queued in SQLite, done at once in memory.
LEMMA SaveStep ==
    ASSUME call \in [Calls -> Call], NEW c \in Calls,
           NEW op \in {"add", "level", "clear"}, NEW id \in Ids \cup SeedIds \cup {None},
           Save(c, op, id)
    PROVE  /\ call' \in [Calls -> Call]
           /\ \A d \in Calls : d # c => call'[d] = call[d]
           /\ usingFallback  => call'[c] = Idle
           /\ ~usingFallback => call'[c].pc = "queued" /\ call'[c].op = op /\ call'[c].id = id
           /\ call'[c].rows = <<>>
<1>1. CASE usingFallback
  BY <1>1, CallSet, IdleType DEF Save
<1>2. CASE ~usingFallback
  <2> DEFINE new == [Idle EXCEPT !.pc = "queued", !.op = op, !.id = id]
  <2>1. new \in Call /\ new.pc = "queued" /\ new.op = op /\ new.id = id /\ new.rows = <<>>
    BY IdsEmpty DEF Idle, Call
  <2>2. call' = [call EXCEPT ![c] = new]
    BY <1>2 DEF Save
  <2> HIDE DEF new
  <2> QED
    BY <1>2, <2>1, <2>2, CallSet
<1> QED
  BY <1>1, <1>2

-----------------------------------------------------------------------------
LEMMA InitIInv == Init => IInv
<1> SUFFICES ASSUME Init PROVE IInv
  OBVIOUS
<1>1. call \in [Calls -> Call] /\ \A c \in Calls : call[c] = Idle
  BY IdleType DEF Init
<1>2. TypeOK
  BY <1>1, IdsEmpty DEF Init, TypeOK
<1>3. OneWriter /\ DownIsIdle /\ WereUsed /\ MemoryHolds /\ Fresh /\ RowsFollow /\ RowsHold
  BY <1>1, IdleType DEF Init, OneWriter, DownIsIdle, WereUsed, MemoryHolds, Fresh, RowsFollow, RowsHold,
     Writing, InFlight, Kept
<1>4. StoredStays /\ LoneSavesSucceed
  BY <1>1, IdleType DEF Init, StoredStays, LoneSavesSucceed
<1> QED
  BY <1>2, <1>3, <1>4 DEF IInv

-----------------------------------------------------------------------------
(* One lemma per action.                                                    *)

\* What a step does to the calls other than its own, and to the shape of its own.
LEMMA PcStep ==
    ASSUME call \in [Calls -> Call], NEW c \in Calls,
           NEW pc \in {"idle", "queued", "writing", "committing",
                        "unseeding", "deleting", "deleted"},
           call' = [call EXCEPT ![c].pc = pc]
    PROVE  /\ call' \in [Calls -> Call]
           /\ call'[c].pc = pc /\ call'[c].op = call[c].op /\ call'[c].id = call[c].id
           /\ call'[c].len = call[c].len /\ call'[c].rows = call[c].rows
           /\ \A d \in Calls : d # c => call'[d] = call[d]
<1> PICK old \in Call : old = call[c]
  OBVIOUS
<1> DEFINE new == [old EXCEPT !.pc = pc]
<1>1. /\ new \in Call /\ new.pc = pc /\ new.op = old.op /\ new.id = old.id
      /\ new.len = old.len /\ new.rows = old.rows
  BY DEF Call
<1>2. call' = [call EXCEPT ![c] = new]
  OBVIOUS
<1> HIDE DEF new
<1> QED
  BY <1>1, <1>2, CallSet

LEMMA RecordIInv ==
    ASSUME IInv, NEW c \in Calls, NEW e \in Ids, NEW level \in Levels, Record(c, e, level)
    PROVE  IInv'
<1> DEFINE new == [id |-> e, level |-> level]
<1>1. new \in Entry /\ new.id = e
  BY DEF Entry
<1>2. /\ TypeOK /\ app = "up" /\ call[c].pc = "idle" /\ e \notin used
      /\ events' = Append(events, new) /\ used' = used \cup {e}
      /\ Save(c, "add", e)
      /\ UNCHANGED <<app, disk, seedOff, usingFallback, stored, revoking, revoked, wiped, gone, broken>>
  BY DEF IInv, Record, persistent
<1> HIDE DEF new
<1>3. /\ call' \in [Calls -> Call]
      /\ \A d \in Calls : d # c => call'[d] = call[d]
      /\ usingFallback  => call'[c].pc = "idle" /\ call'[c].op = "none"
      /\ ~usingFallback => call'[c].pc = "queued" /\ call'[c].op = "add" /\ call'[c].id = e
      /\ call'[c].rows = <<>>
  BY <1>2, SaveStep, IdleType DEF TypeOK
<1>4. /\ events' \in Seq(Entry) /\ Len(events') = Len(events) + 1 /\ Len(events) \in Nat
      /\ \A i \in 1..Len(events) : events'[i] = events[i]
      /\ IdsOf(events) \subseteq IdsOf(events') /\ e \in IdsOf(events')
  BY <1>1, <1>2, IdsAppend DEF TypeOK
<1>5. TypeOK'
  BY <1>2, <1>3, <1>4 DEF TypeOK
<1>6. OneWriter' /\ DownIsIdle' /\ WereUsed' /\ Fresh' /\ RowsHold'
  BY <1>2, <1>3 DEF IInv, OneWriter, DownIsIdle, WereUsed, Fresh, RowsHold, Writing, Kept
<1>7. MemoryHolds'
  <2>1. Kept \subseteq IdsOf(events')
        \/ (usingFallback /\ ~\E d \in Calls : InFlight(d))
    BY <1>2, <1>4 DEF IInv, MemoryHolds
  <2>2. \A d \in Calls : InFlight(d)' => ~usingFallback \/ InFlight(d)
    BY <1>3 DEF InFlight, Writing
  <2>3. \A d \in Calls : call'[d].op = "add" => call'[d].id \in wiped' \cup IdsOf(events')
    BY <1>2, <1>3, <1>4 DEF IInv, MemoryHolds
  <2> QED
    BY <1>2, <2>1, <2>2, <2>3 DEF MemoryHolds, Kept
<1>8. RowsFollow'
  <2> SUFFICES ASSUME NEW d \in Calls, call'[d].pc = "writing"
               PROVE  \/ /\ Len(call'[d].rows) <= call'[d].len /\ call'[d].len <= Len(events')
                         /\ \A i \in 1..Len(call'[d].rows) : call'[d].rows[i].id = events'[i].id
                      \/ Kept' = {} /\ (call'[d].op = "add" => call'[d].id \in wiped')
    BY DEF RowsFollow
  <2>1. d # c /\ call'[d] = call[d] /\ call[d] \in Call
    BY <1>2, <1>3 DEF TypeOK
  <2>2. Len(call[d].rows) \in Nat /\ call[d].len \in Nat
    BY <2>1 DEF Call
  <2> QED
    BY <1>2, <1>4, <2>1, <2>2 DEF IInv, RowsFollow, Kept
<1>9. StoredStays'
  BY <1>2 DEF IInv, StoredStays
<1>10. LoneSavesSucceed'
  BY <1>2, <1>3 DEF IInv, LoneSavesSucceed
<1> QED
  BY <1>5, <1>6, <1>7, <1>8, <1>9, <1>10 DEF IInv

LEMMA UpdatePrivacyIInv ==
    ASSUME IInv, NEW c \in Calls, NEW i \in 1..Len(events), UpdatePrivacy(c, i)
    PROVE  IInv'
<1>1. /\ TypeOK /\ app = "up" /\ call[c].pc = "idle" /\ events[i] \in Entry
      /\ UNCHANGED <<app, disk, seedOff, usingFallback, used, stored, wiped, gone, broken>>
  BY DEF IInv, TypeOK, UpdatePrivacy, persistent
<1> PICK old \in Entry : old = events[i]
  BY <1>1
<1> PICK level \in Levels :
      /\ events' = [events EXCEPT ![i] = [old EXCEPT !.level = level]]
      /\ Save(c, "level", old.id)
      /\ revoking' \subseteq revoking \cup {<<c, old.id>>}
      /\ revoked' \subseteq revoked
  BY DEF UpdatePrivacy
<1>2. old.id \in Ids \cup SeedIds
  BY EntryType
<1>3. PICK new \in Entry : new.id = old.id /\ events' = [events EXCEPT ![i] = new]
  <2>1. [old EXCEPT !.level = level] \in Entry /\ [old EXCEPT !.level = level].id = old.id
    BY DEF Entry
  <2> QED
    BY <2>1
<1>4. /\ call' \in [Calls -> Call]
      /\ \A d \in Calls : d # c => call'[d] = call[d]
      /\ usingFallback  => call'[c].pc = "idle" /\ call'[c].op = "none"
      /\ ~usingFallback => call'[c].pc = "queued" /\ call'[c].op = "level"
      /\ call'[c].rows = <<>>
  BY <1>1, <1>2, SaveStep, IdleType DEF TypeOK
<1>5. /\ events' \in Seq(Entry) /\ Len(events') = Len(events) /\ Len(events) \in Nat
      /\ \A j \in 1..Len(events) : events'[j].id = events[j].id
      /\ IdsOf(events') = IdsOf(events)
  <2>1. events \in Seq(Entry) /\ new.id = events[i].id
    BY <1>1, <1>3 DEF TypeOK
  <2>2. i \in 1..Len(events) /\ new \in Entry /\ events' = [events EXCEPT ![i] = new]
    BY <1>3
  <2>3. events' \in Seq(Entry) /\ Len(events') = Len(events) /\ Len(events) \in Nat
    BY <2>1, <2>2
  <2>4. \A j \in 1..Len(events) : events'[j].id = events[j].id
    BY <2>1, <2>2
  <2>5. IdsOf(events') = IdsOf(events)
    BY <2>1, <2>3, <2>4, IdsAligned
  <2> QED
    BY <2>3, <2>4, <2>5
<1>6. TypeOK'
  <2>1. revoking' \subseteq Calls \X (Ids \cup SeedIds) /\ revoked' \subseteq Ids \cup SeedIds
    BY <1>1, <1>2 DEF TypeOK
  <2> QED
    BY <1>1, <1>4, <1>5, <2>1 DEF TypeOK
<1>7. OneWriter' /\ DownIsIdle' /\ WereUsed' /\ Fresh' /\ RowsHold'
  BY <1>1, <1>4 DEF IInv, OneWriter, DownIsIdle, WereUsed, Fresh, RowsHold, Writing, Kept
<1>8. MemoryHolds'
  <2>1. \A d \in Calls : InFlight(d)' => ~usingFallback \/ InFlight(d)
    BY <1>4 DEF InFlight, Writing
  <2>2. \A d \in Calls : call'[d].op = "add" => call[d].op = "add" /\ call'[d] = call[d]
    BY <1>4
  <2> QED
    BY <1>1, <1>5, <2>1, <2>2 DEF IInv, MemoryHolds, Kept
<1>9. RowsFollow'
  <2> SUFFICES ASSUME NEW d \in Calls, call'[d].pc = "writing"
               PROVE  \/ /\ Len(call'[d].rows) <= call'[d].len /\ call'[d].len <= Len(events')
                         /\ \A j \in 1..Len(call'[d].rows) : call'[d].rows[j].id = events'[j].id
                      \/ Kept' = {} /\ (call'[d].op = "add" => call'[d].id \in wiped')
    BY DEF RowsFollow
  <2>1. d # c /\ call'[d] = call[d] /\ call[d] \in Call
    BY <1>1, <1>4 DEF TypeOK
  <2>2. Len(call[d].rows) \in Nat /\ call[d].len \in Nat
    BY <2>1 DEF Call
  <2> QED
    BY <1>1, <1>5, <2>1, <2>2 DEF IInv, RowsFollow, Kept
<1>10. StoredStays' /\ LoneSavesSucceed'
  BY <1>1, <1>4, <1>5 DEF IInv, StoredStays, LoneSavesSucceed
<1> QED
  BY <1>6, <1>7, <1>8, <1>9, <1>10 DEF IInv

\* A step that leaves the list, the rows and the histories alone, and takes one
\* call from a state without a save to another: Delete and Unseed.
LEMMA DeletionBeginsIInv ==
    ASSUME IInv, NEW c \in Calls, Delete(c) \/ Unseed(c)
    PROVE  IInv'
<1>1. /\ TypeOK
      /\ UNCHANGED <<app, events, disk, usingFallback, history>> /\ seedOff' \in BOOLEAN
      /\ call[c].pc \in {"idle", "unseeding"}
  BY DEF IInv, TypeOK, Delete, Unseed, persistent
<1>2. /\ call' \in [Calls -> Call]
      /\ call'[c].pc \in {"unseeding", "deleting", "deleted"}
      /\ call'[c].op = "add" => call[c].op = "add" /\ call'[c].id = call[c].id
      /\ \A d \in Calls : d # c => call'[d] = call[d]
  <2>1. CASE Delete(c)
    <3> PICK pc \in {"deleted", "unseeding"} : call' = [call EXCEPT ![c] = [Idle EXCEPT !.pc = pc]]
      BY <2>1 DEF Delete
    <3> DEFINE new == [Idle EXCEPT !.pc = pc]
    <3>1. new \in Call /\ new.pc = pc /\ new.op = "none"
      BY IdsEmpty DEF Idle, Call
    <3>2. call' = [call EXCEPT ![c] = new]
      OBVIOUS
    <3> HIDE DEF new
    <3> QED
      BY <1>1, <3>1, <3>2, CallSet DEF TypeOK
  <2>2. CASE Unseed(c)
    <3> PICK pc \in {"deleted", "deleting"} : call' = [call EXCEPT ![c].pc = pc]
      BY <2>2 DEF Unseed
    <3> QED
      BY <1>1, PcStep DEF TypeOK
  <2> QED
    BY <2>1, <2>2
<1>3. TypeOK'
  BY <1>1, <1>2 DEF TypeOK, history
<1>4. app # "down"
  BY <1>1 DEF IInv, DownIsIdle, Delete, Unseed
<1>5. OneWriter' /\ DownIsIdle' /\ WereUsed' /\ Fresh' /\ RowsHold'
  BY <1>1, <1>2, <1>4 DEF IInv, OneWriter, DownIsIdle, WereUsed, Fresh, RowsHold, Writing, Kept, history
<1>6. MemoryHolds'
  <2>1. \A d \in Calls : InFlight(d)' => InFlight(d)
    BY <1>2 DEF InFlight, Writing
  <2> QED
    BY <1>1, <1>2, <2>1 DEF IInv, MemoryHolds, Kept, history
<1>7. RowsFollow'
  BY <1>1, <1>2 DEF IInv, RowsFollow, Kept, history
<1>8. StoredStays' /\ LoneSavesSucceed'
  BY <1>1, <1>2 DEF IInv, StoredStays, LoneSavesSucceed, history
<1> QED
  BY <1>3, <1>5, <1>6, <1>7, <1>8 DEF IInv

LEMMA DeleteRowsIInv ==
    ASSUME IInv, NEW c \in Calls, DeleteRows(c)
    PROVE  IInv'
<1>1. /\ TypeOK /\ call[c].pc = "deleting" /\ Unlocked
      /\ disk' = <<>> /\ seedOff' = TRUE /\ wiped' = wiped \cup used \cup SeedIds
      /\ call' = [call EXCEPT ![c].pc = "deleted"]
      /\ UNCHANGED <<app, events, usingFallback, used, stored, revoking, revoked, gone, broken>>
  BY DEF IInv, DeleteRows
<1>2. /\ call' \in [Calls -> Call]
      /\ call'[c].pc = "deleted" /\ call'[c].op = call[c].op /\ call'[c].id = call[c].id
      /\ \A d \in Calls : d # c => call'[d] = call[d]
  BY <1>1, PcStep DEF TypeOK
<1>3. TypeOK'
  BY <1>1, <1>2, IdsEmpty DEF TypeOK
<1>4. Kept' = {}
  BY <1>1 DEF IInv, WereUsed, Kept
<1>5. \A d \in Calls : ~Writing(d)'
  BY <1>1, <1>2 DEF Unlocked, Writing
<1>6. OneWriter' /\ DownIsIdle' /\ WereUsed' /\ Fresh' /\ RowsFollow' /\ RowsHold'
  BY <1>1, <1>2, <1>5 DEF IInv, OneWriter, DownIsIdle, WereUsed, Fresh, RowsFollow, RowsHold, Writing
<1>7. MemoryHolds'
  BY <1>1, <1>2, <1>4 DEF IInv, MemoryHolds
<1>8. StoredStays' /\ LoneSavesSucceed'
  BY <1>1, <1>4, <1>5 DEF StoredStays, LoneSavesSucceed, Kept, Writing
<1> QED
  BY <1>3, <1>6, <1>7, <1>8 DEF IInv

LEMMA ClearIInv ==
    ASSUME IInv, NEW c \in Calls, Clear(c)
    PROVE  IInv'
<1>1. /\ TypeOK /\ call[c].pc = "deleted" /\ app # "down"
      /\ events' = <<>> /\ Save(c, "clear", None) /\ wiped' = wiped \cup used \cup SeedIds
      /\ UNCHANGED <<app, disk, seedOff, usingFallback, used, stored, revoking, revoked, gone, broken>>
  BY DEF IInv, DownIsIdle, Clear, persistent
<1>2. /\ call' \in [Calls -> Call]
      /\ \A d \in Calls : d # c => call'[d] = call[d]
      /\ usingFallback  => call'[c].pc = "idle" /\ call'[c].op = "none"
      /\ ~usingFallback => call'[c].pc = "queued" /\ call'[c].op = "clear"
      /\ call'[c].rows = <<>>
  BY <1>1, SaveStep, IdleType DEF TypeOK
<1>3. TypeOK'
  BY <1>1, <1>2, IdsEmpty DEF TypeOK
<1>4. Kept' = {}
  BY <1>1 DEF IInv, WereUsed, Kept
<1>5. \A d \in Calls : call'[d].op = "add" => call'[d].id \in wiped'
  BY <1>1, <1>2 DEF IInv, WereUsed
<1>6. OneWriter' /\ DownIsIdle' /\ WereUsed' /\ Fresh'
  BY <1>1, <1>2 DEF IInv, OneWriter, DownIsIdle, WereUsed, Fresh, Writing
<1>7. MemoryHolds' /\ RowsFollow' /\ RowsHold'
  BY <1>4, <1>5 DEF MemoryHolds, RowsFollow, RowsHold
<1>8. StoredStays'
  BY <1>4 DEF StoredStays, Kept
<1>9. LoneSavesSucceed'
  BY <1>1, <1>2 DEF LoneSavesSucceed
<1> QED
  BY <1>3, <1>6, <1>7, <1>8, <1>9 DEF IInv

LEMMA BeginIInv ==
    ASSUME IInv, NEW c \in Calls, Begin(c)
    PROVE  IInv'
<1>1. /\ TypeOK /\ call[c].pc = "queued" /\ Unlocked /\ app # "down"
      /\ UNCHANGED <<app, events, disk, seedOff, usingFallback, history>>
  BY DEF IInv, DownIsIdle, Begin, persistent
<1> PICK old \in Call : old = call[c]
  BY <1>1 DEF TypeOK
<1> DEFINE n   == Len(events)
           new == [old EXCEPT !.pc = "writing", !.len = n]
<1>2. n \in Nat
  BY <1>1 DEF TypeOK
<1>3. call' = [call EXCEPT ![c] = new]
  BY DEF Begin
<1> HIDE DEF n
<1>4. /\ new \in Call /\ new.pc = "writing" /\ new.len = n
      /\ new.op = old.op /\ new.id = old.id /\ new.rows = old.rows
  BY <1>2 DEF Call
<1> HIDE DEF new
<1>5. /\ call' \in [Calls -> Call] /\ call'[c] = new
      /\ \A d \in Calls : d # c => call'[d] = call[d] /\ ~Writing(d)
  BY <1>1, <1>3, <1>4, CallSet DEF TypeOK, Unlocked, Writing
<1>6. TypeOK'
  BY <1>1, <1>5 DEF TypeOK, history
<1>7. OneWriter' /\ DownIsIdle' /\ WereUsed' /\ RowsHold'
  BY <1>1, <1>4, <1>5 DEF IInv, OneWriter, DownIsIdle, WereUsed, RowsHold, Writing, history
<1>8. MemoryHolds'
  <2>1. \A d \in Calls : InFlight(d)' => InFlight(d)
    BY <1>1, <1>5 DEF InFlight, Writing
  <2> QED
    BY <1>1, <1>4, <1>5, <2>1 DEF IInv, MemoryHolds, Kept, history
<1>9. RowsFollow'
  <2>1. call[c].rows = <<>>
    BY <1>1 DEF IInv, Fresh
  <2>2. \A d \in Calls : call'[d].pc = "writing" => d = c
    BY <1>5 DEF Writing
  <2>3. Len(new.rows) = 0 /\ new.len = Len(events')
    BY <1>1, <1>4, <2>1, IdsEmpty DEF n, history
  <2>4. events' \in Seq(Entry) /\ Len(events') \in Nat
    BY <1>6 DEF TypeOK
  <2> QED
    BY <1>5, <2>2, <2>3, <2>4 DEF RowsFollow
<1>10. Fresh'
  BY <1>1, <1>4, <1>5 DEF IInv, Fresh
<1>11. StoredStays' /\ LoneSavesSucceed'
  BY <1>1, <1>4, <1>5 DEF IInv, StoredStays, LoneSavesSucceed, Writing, n, history
<1> QED
  BY <1>6, <1>7, <1>8, <1>9, <1>10, <1>11 DEF IInv

LEMMA InsertIInv ==
    ASSUME IInv, NEW c \in Calls, Insert(c)
    PROVE  IInv'
<1> PICK old \in Call : old = call[c]
  BY DEF IInv, TypeOK
<1> DEFINE n    == Len(old.rows)
           e    == events[n + 1]
           rows == Append(old.rows, e)
           new  == [old EXCEPT !.rows = rows]
<1>1. /\ TypeOK /\ old.pc = "writing" /\ old.len = Len(events) /\ n < Len(events)
      /\ old.rows \in Seq(Entry) /\ events \in Seq(Entry) /\ n \in Nat /\ Len(events) \in Nat
      /\ UNCHANGED <<app, events, disk, seedOff, usingFallback, history>>
  BY DEF IInv, TypeOK, Insert, Call, persistent
<1>2. e \in Entry /\ n + 1 \in 1..Len(events)
  BY <1>1
<1>3. call' = [call EXCEPT ![c] = new]
  BY DEF Insert
<1> HIDE DEF e
<1>4. /\ rows \in Seq(Entry) /\ Len(rows) = n + 1
      /\ \A i \in 1..n : rows[i] = old.rows[i]
      /\ rows[n + 1] = e
  BY <1>1, <1>2, IdsAppend
<1> HIDE DEF rows
<1>5. /\ new \in Call /\ new.pc = "writing" /\ new.len = old.len
      /\ new.op = old.op /\ new.id = old.id /\ new.rows = rows
  BY <1>1, <1>4 DEF Call
<1> HIDE DEF new, n
<1>6. /\ call' \in [Calls -> Call] /\ call'[c] = new
      /\ \A d \in Calls : d # c => call'[d] = call[d] /\ ~Writing(d)
  BY <1>1, <1>3, <1>5, CallSet DEF IInv, TypeOK, OneWriter, Writing
<1>7. TypeOK'
  BY <1>1, <1>6 DEF TypeOK, history
<1>8. OneWriter' /\ DownIsIdle' /\ WereUsed' /\ Fresh' /\ RowsHold'
  BY <1>1, <1>5, <1>6 DEF IInv, OneWriter, DownIsIdle, WereUsed, Fresh, RowsHold, Writing, history
<1>9. MemoryHolds'
  <2>1. \A d \in Calls : InFlight(d)' => InFlight(d)
    BY <1>1, <1>6 DEF InFlight, Writing
  <2> QED
    BY <1>1, <1>5, <1>6, <2>1 DEF IInv, MemoryHolds, Kept, history
<1>10. RowsFollow'
  <2> SUFFICES \/ /\ Len(rows) <= old.len /\ old.len <= Len(events)
                  /\ \A i \in 1..Len(rows) : rows[i].id = events[i].id
               \/ Kept = {} /\ (old.op = "add" => old.id \in wiped)
    BY <1>1, <1>5, <1>6 DEF RowsFollow, Kept, Writing, history
  <2>1. CASE \A i \in 1..n : old.rows[i].id = events[i].id
    <3>1. \A i \in 1..Len(rows) : i \in 1..n \/ i = n + 1
      BY <1>1, <1>4
    <3>2. \A i \in 1..Len(rows) : rows[i].id = events[i].id
      BY <1>4, <2>1, <3>1 DEF e
    <3> QED
      BY <1>1, <1>4, <3>2
  <2> QED
    BY <1>1, <2>1 DEF IInv, RowsFollow, n
<1>11. StoredStays' /\ LoneSavesSucceed'
  BY <1>1, <1>5, <1>6 DEF IInv, StoredStays, LoneSavesSucceed, Writing, history
<1> QED
  BY <1>7, <1>8, <1>9, <1>10, <1>11 DEF IInv

LEMMA LoopEndsIInv ==
    ASSUME IInv, NEW c \in Calls, LoopEnds(c)
    PROVE  IInv'
<1>1. /\ TypeOK /\ call[c] \in Call /\ call[c].pc = "writing"
      /\ Len(call[c].rows) = Len(events)
      /\ call' = [call EXCEPT ![c].pc = "committing"]
      /\ UNCHANGED <<app, events, disk, seedOff, usingFallback, history>>
  BY DEF IInv, TypeOK, LoopEnds, persistent
<1>2. /\ call' \in [Calls -> Call]
      /\ call'[c].pc = "committing" /\ call'[c].op = call[c].op
      /\ call'[c].id = call[c].id /\ call'[c].rows = call[c].rows
      /\ \A d \in Calls : d # c => call'[d] = call[d] /\ ~Writing(d)
  BY <1>1, PcStep DEF IInv, TypeOK, OneWriter, Writing
<1>3. TypeOK'
  BY <1>1, <1>2 DEF TypeOK, history
<1>4. OneWriter' /\ DownIsIdle' /\ WereUsed' /\ Fresh' /\ RowsFollow'
  BY <1>1, <1>2 DEF IInv, OneWriter, DownIsIdle, WereUsed, Fresh, RowsFollow, Writing, history
<1>5. MemoryHolds'
  <2>1. \A d \in Calls : InFlight(d)' => InFlight(d)
    BY <1>1, <1>2 DEF InFlight, Writing
  <2> QED
    BY <1>1, <1>2, <2>1 DEF IInv, MemoryHolds, Kept, history
<1>6. RowsHold'
  <2> SUFFICES /\ Kept \subseteq IdsOf(call[c].rows)
               /\ call[c].op = "add" => call[c].id \in wiped \cup IdsOf(call[c].rows)
    BY <1>1, <1>2 DEF RowsHold, Kept, Writing, history
  <2>1. CASE Kept = {} /\ (call[c].op = "add" => call[c].id \in wiped)
    BY <2>1
  <2>2. CASE \A i \in 1..Len(call[c].rows) : call[c].rows[i].id = events[i].id
    <3>1. call[c].rows \in Seq(Entry) /\ events \in Seq(Entry)
      BY <1>1 DEF Call, TypeOK
    <3>2. IdsOf(call[c].rows) = IdsOf(events)
      BY <1>1, <2>2, <3>1, IdsAligned
    <3>3. InFlight(c)
      BY <1>1 DEF InFlight, Writing
    <3> QED
      BY <3>2, <3>3 DEF IInv, MemoryHolds
  <2> QED
    BY <1>1, <2>1, <2>2 DEF IInv, RowsFollow
<1>7. StoredStays' /\ LoneSavesSucceed'
  BY <1>1, <1>2 DEF IInv, StoredStays, LoneSavesSucceed, Writing, history
<1> QED
  BY <1>3, <1>4, <1>5, <1>6, <1>7 DEF IInv

LEMMA CommitIInv ==
    ASSUME IInv, NEW c \in Calls, Commit(c)
    PROVE  IInv'
<1>1. /\ TypeOK /\ call[c] \in Call /\ call[c].pc = "committing"
      /\ disk' = call[c].rows /\ call' = [call EXCEPT ![c] = Idle]
      /\ stored' = IF call[c].op = "add" THEN stored \cup {call[c].id} ELSE stored
      /\ UNCHANGED <<events, seedOff, usingFallback, used, wiped, broken>>
  BY DEF IInv, TypeOK, Commit
<1>2. /\ call' \in [Calls -> Call] /\ call'[c].pc = "idle" /\ call'[c].op = "none"
      /\ \A d \in Calls : d # c => call'[d] = call[d] /\ ~Writing(d)
  BY <1>1, CallSet, IdleType DEF IInv, TypeOK, OneWriter, Writing
<1>3. app # "down" /\ app' \in {"seeding", "up"}
  BY <1>1 DEF IInv, DownIsIdle, TypeOK, Commit, AfterCall
<1>4. stored' \subseteq used
  BY <1>1 DEF IInv, WereUsed
<1>5. revoked' \subseteq Ids \cup SeedIds /\ revoking' \subseteq revoking
  BY <1>1 DEF TypeOK, Commit, RevokingBy
<1>6. gone' \subseteq Ids \cup SeedIds
  BY <1>1 DEF TypeOK, Commit
<1>7. TypeOK'
  <2>1. disk' \in Seq(Entry)
    BY <1>1 DEF Call
  <2>2. stored' \subseteq Ids
    BY <1>1, <1>4 DEF TypeOK
  <2> QED
    BY <1>1, <1>2, <1>3, <1>5, <1>6, <2>1, <2>2 DEF TypeOK
<1>8. \A d \in Calls : ~Writing(d)'
  BY <1>2 DEF Writing
<1>9. OneWriter' /\ DownIsIdle' /\ WereUsed' /\ Fresh' /\ RowsFollow' /\ RowsHold'
  BY <1>1, <1>2, <1>3, <1>4, <1>8
     DEF IInv, OneWriter, DownIsIdle, WereUsed, Fresh, RowsFollow, RowsHold, Writing
<1>10. MemoryHolds'
  <2>1. Kept \subseteq IdsOf(events)
    BY <1>1 DEF IInv, MemoryHolds, InFlight, Writing
  <2>2. Kept' \subseteq IdsOf(events')
    BY <1>1, <2>1 DEF IInv, MemoryHolds, Kept
  <2> QED
    BY <1>1, <1>2, <2>2 DEF IInv, MemoryHolds
<1>11. StoredStays'
  BY <1>1 DEF IInv, RowsHold, StoredStays, Kept
<1>12. LoneSavesSucceed'
  BY <1>8 DEF LoneSavesSucceed, Writing
<1> QED
  BY <1>7, <1>9, <1>10, <1>11, <1>12 DEF IInv

LEMMA FailsIInv ==
    ASSUME IInv, NEW c \in Calls, Fails(c), call[c].pc # "idle", broken' \in BOOLEAN
    PROVE  IInv'
<1>1. /\ TypeOK /\ app # "down" /\ usingFallback' = TRUE /\ revoking' \subseteq revoking
      /\ app' \in {"seeding", "up"}
      /\ UNCHANGED <<events, disk, seedOff, used, stored, revoked, wiped, gone>>
  BY DEF IInv, DownIsIdle, TypeOK, Fails, AfterCall, RevokingBy, persistent
<1>2. /\ call' \in [Calls -> Call] /\ call'[c].pc \in {"idle", "deleted"} /\ call'[c].op = "none"
      /\ \A d \in Calls : d # c => call'[d] = call[d]
  <2> DEFINE deleted == [Idle EXCEPT !.pc = "deleted"]
  <2>1. deleted \in Call /\ deleted.pc = "deleted" /\ deleted.op = "none"
    BY IdsEmpty DEF Idle, Call
  <2>2. \/ call' = [call EXCEPT ![c] = Idle]
        \/ call' = [call EXCEPT ![c] = deleted]
    BY DEF Fails
  <2> HIDE DEF deleted
  <2>3. CASE call' = [call EXCEPT ![c] = Idle]
    BY <1>1, <2>3, CallSet, IdleType DEF TypeOK
  <2>4. CASE call' = [call EXCEPT ![c] = deleted]
    BY <1>1, <2>1, <2>4, CallSet DEF TypeOK
  <2> QED
    BY <2>2, <2>3, <2>4
<1>3. TypeOK'
  BY <1>1, <1>2 DEF TypeOK
<1>4. /\ OneWriter' /\ DownIsIdle' /\ WereUsed' /\ Fresh' /\ RowsFollow' /\ RowsHold'
  BY <1>1, <1>2
     DEF IInv, OneWriter, DownIsIdle, WereUsed, Fresh, RowsFollow, RowsHold, Writing, Kept
<1>5. MemoryHolds'
  <2>1. \A d \in Calls : InFlight(d)' => InFlight(d)
    BY <1>2 DEF InFlight, Writing
  <2> QED
    BY <1>1, <1>2, <2>1 DEF IInv, MemoryHolds, Kept
<1>6. StoredStays' /\ LoneSavesSucceed'
  BY <1>1 DEF IInv, StoredStays, LoneSavesSucceed
<1> QED
  BY <1>3, <1>4, <1>5, <1>6 DEF IInv

LEMMA BreaksElsewhereIInv ==
    ASSUME IInv, BreaksElsewhere
    PROVE  IInv'
<1>1. /\ TypeOK /\ app # "down" /\ usingFallback' = TRUE /\ broken' = TRUE
      /\ UNCHANGED <<app, events, disk, seedOff, call, used, stored, revoking, revoked, wiped, gone>>
  BY DEF IInv, BreaksElsewhere, persistent
<1>2. TypeOK'
  BY <1>1 DEF TypeOK
<1>3. /\ OneWriter' /\ DownIsIdle' /\ WereUsed' /\ MemoryHolds' /\ Fresh'
      /\ RowsFollow' /\ RowsHold'
  BY <1>1 DEF IInv, OneWriter, DownIsIdle, WereUsed, MemoryHolds, Fresh, RowsFollow, RowsHold,
              InFlight, Writing, Kept
<1>4. StoredStays' /\ LoneSavesSucceed'
  BY <1>1 DEF IInv, StoredStays, LoneSavesSucceed
<1> QED
  BY <1>2, <1>3, <1>4 DEF IInv

LEMMA BootIInv ==
    ASSUME IInv, Boot
    PROVE  IInv'
<1>1. /\ TypeOK /\ app = "down" /\ ~usingFallback /\ \A c \in Calls : call[c].pc = "idle"
      /\ UNCHANGED <<disk, seedOff, usingFallback, used, stored, revoking, revoked, wiped, gone, broken>>
  BY DEF IInv, DownIsIdle, Boot, persistent, history
<1>2. events' \in Seq(Entry)
  BY <1>1, SeedEventsType, IdsEmpty DEF Boot, TypeOK
<1>3. /\ call' \in [Calls -> Call] /\ app' \in {"seeding", "up"}
      /\ \A d \in Calls : /\ call'[d].pc \in {"idle", "queued"} /\ call'[d].op # "add"
                          /\ call'[d].pc = "idle" => call'[d].op = "none"
                          /\ call'[d].pc = "queued" => call'[d].rows = <<>>
  <2>1. CASE UNCHANGED call /\ app' = "up"
    BY <1>1, <2>1 DEF IInv, Fresh, TypeOK
  <2>2. CASE app' = "seeding" /\ \E c \in Calls : call' =
               [call EXCEPT ![c] = [Idle EXCEPT !.pc = "queued", !.op = "seed"]]
    <3> DEFINE new == [Idle EXCEPT !.pc = "queued", !.op = "seed"]
    <3>1. new \in Call /\ new.pc = "queued" /\ new.op = "seed" /\ new.rows = <<>>
      BY IdsEmpty DEF Idle, Call
    <3>2. PICK c \in Calls : call' = [call EXCEPT ![c] = new]
      BY <2>2
    <3> HIDE DEF new
    <3>3. /\ call' \in [Calls -> Call] /\ call'[c] = new
          /\ \A d \in Calls : d # c => call'[d] = call[d]
      BY <1>1, <3>1, <3>2, CallSet DEF TypeOK
    <3>4. \A d \in Calls : call[d].pc = "idle" /\ call[d].op = "none"
      BY <1>1 DEF IInv, Fresh
    <3> QED
      BY <2>2, <3>1, <3>3, <3>4
  <2> QED
    BY <2>1, <2>2 DEF Boot
<1>4. \A d \in Calls : ~Writing(d)'
  BY <1>3 DEF Writing
<1>5. TypeOK'
  BY <1>1, <1>2, <1>3 DEF TypeOK
<1>6. OneWriter' /\ DownIsIdle' /\ WereUsed' /\ Fresh' /\ RowsFollow' /\ RowsHold'
  <2>1. OneWriter' /\ RowsFollow' /\ RowsHold'
    BY <1>4 DEF OneWriter, RowsFollow, RowsHold, Writing
  <2>2. DownIsIdle' /\ Fresh'
    BY <1>3 DEF DownIsIdle, Fresh
  <2>3. WereUsed'
    BY <1>1, <1>3 DEF IInv, WereUsed
  <2> QED
    BY <2>1, <2>2, <2>3
<1>7. MemoryHolds'
  <2>1. Kept \subseteq IdsOf(disk)
    BY DEF IInv, StoredStays, Kept
  <2>2. Kept \subseteq IdsOf(events')
    BY <2>1, IdsEmpty DEF Boot
  <2> QED
    BY <1>1, <1>3, <2>2 DEF MemoryHolds, Kept
<1>8. StoredStays'
  BY <1>1 DEF IInv, StoredStays
<1>9. LoneSavesSucceed'
  BY <1>4 DEF LoneSavesSucceed, Writing
<1> QED
  BY <1>5, <1>6, <1>7, <1>8, <1>9 DEF IInv

LEMMA BootBrokenIInv ==
    ASSUME IInv, BootBroken
    PROVE  IInv'
<1>1. /\ TypeOK /\ \A c \in Calls : call[c].pc = "idle" /\ call[c].op = "none"
      /\ app' = "up" /\ events' \in {SeedEvents, disk} /\ usingFallback' = TRUE /\ broken' = TRUE
      /\ UNCHANGED <<disk, seedOff, call, used, stored, revoking, revoked, wiped, gone>>
  BY DEF IInv, DownIsIdle, Fresh, BootBroken, persistent
<1>2. TypeOK'
  BY <1>1, SeedEventsType DEF TypeOK
<1>3. /\ OneWriter' /\ DownIsIdle' /\ WereUsed' /\ MemoryHolds' /\ Fresh'
      /\ RowsFollow' /\ RowsHold'
  BY <1>1 DEF IInv, OneWriter, DownIsIdle, WereUsed, MemoryHolds, Fresh, RowsFollow, RowsHold,
              InFlight, Writing
<1>4. StoredStays' /\ LoneSavesSucceed'
  BY <1>1 DEF IInv, StoredStays, LoneSavesSucceed
<1> QED
  BY <1>2, <1>3, <1>4 DEF IInv

LEMMA StopIInv ==
    ASSUME IInv, Stop
    PROVE  IInv'
<1>1. /\ TypeOK /\ app' = "down" /\ events' = <<>> /\ usingFallback' = FALSE /\ broken' = FALSE
      /\ call' = [c \in Calls |-> Idle] /\ revoking' = {}
      /\ UNCHANGED <<disk, seedOff, used, stored, revoked, wiped, gone>>
  BY DEF IInv, Stop, persistent
<1>2. /\ call' \in [Calls -> Call]
      /\ \A c \in Calls : call'[c].pc = "idle" /\ call'[c].op = "none"
  BY <1>1, IdleType
<1>3. TypeOK'
  BY <1>1, <1>2, IdsEmpty DEF TypeOK
<1>4. /\ OneWriter' /\ DownIsIdle' /\ WereUsed' /\ MemoryHolds' /\ Fresh'
      /\ RowsFollow' /\ RowsHold'
  BY <1>1, <1>2 DEF IInv, OneWriter, DownIsIdle, WereUsed, MemoryHolds, Fresh, RowsFollow,
                    RowsHold, InFlight, Writing
<1>5. StoredStays' /\ LoneSavesSucceed'
  BY <1>1, <1>2 DEF IInv, StoredStays, LoneSavesSucceed
<1> QED
  BY <1>3, <1>4, <1>5 DEF IInv

LEMMA StutterIInv ==
    ASSUME IInv, UNCHANGED vars
    PROVE  IInv'
<1>1. UNCHANGED <<app, events, disk, seedOff, usingFallback, call, history>>
  BY DEF vars, persistent
<1>2. TypeOK' /\ StoredStays' /\ LoneSavesSucceed'
  BY <1>1 DEF IInv, TypeOK, StoredStays, LoneSavesSucceed, history
<1>3. /\ OneWriter' /\ DownIsIdle' /\ WereUsed' /\ MemoryHolds' /\ Fresh'
      /\ RowsFollow' /\ RowsHold'
  BY <1>1 DEF IInv, OneWriter, DownIsIdle, WereUsed, MemoryHolds, Fresh, RowsFollow, RowsHold,
              InFlight, Writing, Kept, history
<1> QED
  BY <1>2, <1>3 DEF IInv

LEMMA NextIInv == IInv /\ [Next]_vars => IInv'
<1> SUFFICES ASSUME IInv, [Next]_vars PROVE IInv'
  OBVIOUS
<1>1. ASSUME NEW c \in Calls, Change(c) PROVE IInv'
  BY <1>1, RecordIInv, UpdatePrivacyIInv, DeletionBeginsIInv DEF Change
<1>2. ASSUME NEW c \in Calls, Conflict(c) \/ Breaks(c) PROVE IInv'
  <2>1. Fails(c) /\ call[c].pc # "idle" /\ broken' \in BOOLEAN
    BY <1>2 DEF Conflict, Breaks, IInv, TypeOK
  <2> QED
    BY <2>1, FailsIInv
<1>3. ASSUME NEW c \in Calls, Progress(c) PROVE IInv'
  BY <1>2, <1>3, DeletionBeginsIInv, DeleteRowsIInv, ClearIInv, BeginIInv, InsertIInv,
     LoopEndsIInv, CommitIInv DEF Progress
<1> QED
  BY <1>1, <1>3, BreaksElsewhereIInv, BootIInv, BootBrokenIInv, StopIInv, StutterIInv DEF Next

LEMMA Inductive == Spec => []IInv
BY InitIInv, NextIInv, PTL DEF Spec

-----------------------------------------------------------------------------
\* The list, the store and the changes under way are well typed in every
\* reachable state, for any number of events and of overlapping changes.
THEOREM TypeCorrect == Spec => []TypeOK
<1>1. IInv => TypeOK
  BY DEF IInv
<1> QED
  BY <1>1, Inductive, PTL

\* For any events, demo events and overlapping changes: an event that addEvent
\* stored in SQLite is there until a deletion, although each save replaces the
\* whole table from a list that changes while the save walks it (saveLifeEvents,
\* _run, bootstrap).
THEOREM StoredIsKept == Spec => []StoredStays
<1>1. IInv => StoredStays
  BY DEF IInv
<1> QED
  BY <1>1, Inductive, PTL

\* A save meets a list of another length only while another change is under way:
\* changes made one at a time never leave SQLite (saveLifeEvents, addEvent).
THEOREM LoneSaves == Spec => []LoneSavesSucceed
<1>1. IInv => LoneSavesSucceed
  BY DEF IInv
<1> QED
  BY <1>1, Inductive, PTL

-----------------------------------------------------------------------------
(* What a revocation, a deletion and a quiet moment leave in SQLite.        *)

Known       == used \cup SeedIds
RevokingIds == {p[2] : p \in revoking}

Distinct(list) == \A i, j \in 1..Len(list) : list[i].id = list[j].id => i = j
Secret(list, ids) ==
    \A i \in 1..Len(list) : list[i].id \in ids => list[i].level = "local_only"

\* No list names an id twice, or one that was never recorded; only an open
\* transaction has rows.
Lists ==
    /\ Distinct(events) /\ IdsOf(events) \subseteq Known
    /\ Distinct(disk) /\ IdsOf(disk) \subseteq Known
    /\ \A c \in Calls : /\ Distinct(call[c].rows) /\ IdsOf(call[c].rows) \subseteq Known
                        /\ ~Writing(c) => call[c].rows = <<>>
    /\ revoked \cup RevokingIds \subseteq Known
    /\ wiped \subseteq Known /\ gone \subseteq wiped

\* What is still to be written is not among the rows written.
RowsApart ==
    \A c \in Calls : call[c].pc = "writing" =>
        \A j \in 1..Len(call[c].rows), i \in Len(call[c].rows) + 1 .. Len(events) :
            call[c].rows[j].id # events[i].id

\* A revoked event is local_only wherever it is, one being revoked is so in memory
\* and in the rows of the save that will make it revoked.
Private ==
    /\ Secret(events, revoked \cup RevokingIds)
    /\ \A c \in Calls : Secret(call[c].rows, revoked \cup {p[2] : p \in RevokingBy(c)})
    /\ Secret(disk, revoked)
    /\ app = "down" => revoking = {}

\* One deletion at a time; it reaches SQLite only after it turned the demo off.
DeletionOrder ==
    /\ \A c, d \in Calls : Deleting(c) /\ Deleting(d) => c = d
    /\ \A c \in Calls :
        /\ call[c].pc \in {"unseeding", "deleting", "deleted"} => call[c].op = "none"
        /\ call[c].op = "clear" => InFlight(c) /\ seedOff
        /\ call[c].pc = "deleting" => seedOff
        /\ call[c].pc = "deleted" => seedOff \/ usingFallback
    /\ gone # {} => seedOff

\* What is gone is in no list that SQLite can get, and what a deletion wiped is
\* not in the list it has saved.
Removed ==
    /\ GoneStays
    /\ (app # "down" /\ ~usingFallback) \/ (\E c \in Calls : InFlight(c))
          => gone \cap IdsOf(events) = {}
    /\ \A c \in Calls :
        /\ gone \cap IdsOf(call[c].rows) = {}
        /\ call[c].op = "clear" => wiped \cap (IdsOf(call[c].rows) \cup IdsOf(events)) = {}

\* A save will still begin, or is copying the list as it is, or SQLite holds it.
Copying(c) ==
    /\ call[c].pc = "writing" /\ call[c].len = Len(events)
    /\ Len(call[c].rows) <= Len(events)
    /\ \A i \in 1..Len(call[c].rows) : call[c].rows[i] = events[i]

Pending(c) == call[c].pc \in {"queued", "unseeding", "deleting", "deleted"}

Saved ==
    app # "down" /\ ~usingFallback =>
        \/ \E c \in Calls : Pending(c)
        \/ \E c \in Calls : Copying(c)
        \/ \E c \in Calls : call[c].pc = "committing" /\ call[c].rows = events
        \/ disk = events /\ \A c \in Calls : call[c].pc = "idle"

Strong == Lists /\ RowsApart /\ Private /\ DeletionOrder /\ Removed /\ Saved
JInv   == IInv /\ Strong

-----------------------------------------------------------------------------
LEMMA EmptyList ==
    /\ Distinct(<<>>) /\ IdsOf(<<>>) = {}
    /\ \A ids : Secret(<<>>, ids)
BY DEF Distinct, IdsOf, Secret

LEMMA SeedList ==
    /\ Distinct(SeedEvents) /\ IdsOf(SeedEvents) \subseteq SeedIds
    /\ \A ids : Secret(SeedEvents, ids)
    /\ Len(SeedEvents) = Len(Seeds)
<1>1. Seeds \in Seq(SeedIds) /\ Len(Seeds) \in Nat
  BY LifeGraphAssumption
<1>2. /\ Len(SeedEvents) = Len(Seeds)
      /\ \A i \in 1..Len(Seeds) : SeedEvents[i].id = Seeds[i] /\ SeedEvents[i].level = "local_only"
  BY <1>1 DEF SeedEvents
<1>3. IdsOf(SeedEvents) \subseteq SeedIds
  BY <1>2 DEF IdsOf, SeedIds
<1>4. Distinct(SeedEvents)
  BY <1>2, LifeGraphAssumption DEF Distinct
<1> QED
  BY <1>2, <1>3, <1>4 DEF Secret

\* A list with another entry at its end.
LEMMA ListAppend ==
    ASSUME NEW s \in Seq(Entry), NEW e \in Entry, Distinct(s), e.id \notin IdsOf(s),
           NEW ids, Secret(s, ids), e.id \in ids => e.level = "local_only"
    PROVE  /\ Distinct(Append(s, e)) /\ Secret(Append(s, e), ids)
           /\ IdsOf(Append(s, e)) = IdsOf(s) \cup {e.id}
<1> DEFINE t == Append(s, e)
<1>1. /\ Len(t) = Len(s) + 1 /\ Len(s) \in Nat
      /\ \A i \in 1..Len(s) : t[i] = s[i]
      /\ t[Len(s) + 1] = e
  OBVIOUS
<1> HIDE DEF t
<1>2. \A i \in 1..Len(t) : (i \in 1..Len(s) /\ t[i] = s[i]) \/ (i = Len(s) + 1 /\ t[i] = e)
  BY <1>1
<1>3. \A i \in 1..Len(s) : s[i].id # e.id
  BY DEF IdsOf
<1>4. Distinct(t)
  BY <1>2, <1>3 DEF Distinct
<1>5. Secret(t, ids)
  BY <1>2 DEF Secret
<1>6. IdsOf(t) = IdsOf(s) \cup {e.id}
  <2>1. IdsOf(t) \subseteq IdsOf(s) \cup {e.id}
    BY <1>2 DEF IdsOf
  <2> QED
    BY <2>1, IdsAppend DEF t
<1> QED
  BY <1>4, <1>5, <1>6 DEF t

LEMMA SecretLess ==
    ASSUME NEW s, NEW ids, NEW fewer \in SUBSET ids, Secret(s, ids)
    PROVE  Secret(s, fewer)
BY DEF Secret

\* Steps that write no entry anywhere.
LEMMA ListsQuiet ==
    ASSUME JInv, UNCHANGED <<used, revoked, gone>>, revoking' \subseteq revoking,
           disk' \in {disk, <<>>}, wiped' \subseteq Known, wiped \subseteq wiped',
           \/ events' \in {events, <<>>}
           \/ events' \in {disk, SeedEvents} /\ revoking' = {} /\ \A d \in Calls : ~Writing(d)',
           app' = "down" => revoking' = {},
           \A d \in Calls : \/ call'[d].rows = <<>>
                            \/ /\ call'[d].rows = call[d].rows /\ Writing(d)'
                               /\ call'[d].pc = "writing" => call[d].pc = "writing"
    PROVE  Lists' /\ RowsApart' /\ Private'
<1>1. Lists /\ RowsApart /\ Private
  BY DEF JInv, Strong
<1>2. Known' = Known /\ RevokingIds' \subseteq RevokingIds
  BY DEF Known, RevokingIds
<1>3. \A d \in Calls : {p[2] : p \in RevokingBy(d)}' \subseteq {p[2] : p \in RevokingBy(d)}
  BY DEF RevokingBy
<1>4. /\ Distinct(events') /\ IdsOf(events') \subseteq Known
      /\ Secret(events', revoked \cup RevokingIds')
  <2>1. CASE events' = disk /\ revoking' = {}
    <3>1. revoked \cup RevokingIds' = revoked
      BY <2>1 DEF RevokingIds
    <3> QED
      BY <1>1, <2>1, <3>1 DEF Lists, Private
  <2>2. CASE events' = SeedEvents
    BY <2>2, SeedList DEF Known
  <2>3. CASE events' \in {events, <<>>}
    <3>1. revoked \cup RevokingIds' \subseteq revoked \cup RevokingIds
      BY <1>2
    <3> QED
      BY <1>1, <2>3, <3>1, EmptyList, SecretLess DEF Lists, Private
  <2> QED
    BY <2>1, <2>2, <2>3
<1>5. Distinct(disk') /\ IdsOf(disk') \subseteq Known /\ Secret(disk', revoked)
  BY <1>1, EmptyList DEF Lists, Private
<1>6. ASSUME NEW d \in Calls
      PROVE  /\ Distinct(call'[d].rows) /\ IdsOf(call'[d].rows) \subseteq Known
             /\ ~Writing(d)' => call'[d].rows = <<>>
             /\ Secret(call'[d].rows, revoked \cup {p[2] : p \in RevokingBy(d)}')
  <2>1. {p[2] : p \in RevokingBy(d)}' \subseteq {p[2] : p \in RevokingBy(d)}
    BY DEF RevokingBy
  <2>2. CASE call'[d].rows = <<>>
    BY <2>2, EmptyList
  <2>3. CASE call'[d].rows = call[d].rows /\ Writing(d)'
    <3>1. Secret(call[d].rows, revoked \cup {p[2] : p \in RevokingBy(d)}')
      BY <1>1, <2>1 DEF Private, Secret
    <3> QED
      BY <1>1, <2>3, <3>1 DEF Lists
  <2> QED
    BY <2>2, <2>3
<1>7. Lists'
  <2>1. revoked' \cup RevokingIds' \subseteq Known
    BY <1>1, <1>2 DEF Lists
  <2>2. gone' \subseteq wiped'
    BY <1>1 DEF Lists
  <2> QED
    BY <1>2, <1>4, <1>5, <1>6, <2>1, <2>2 DEF Lists
<1>8. Private'
  BY <1>4, <1>5, <1>6 DEF Private
<1>9. RowsApart'
  <2> SUFFICES ASSUME NEW d \in Calls, call'[d].pc = "writing",
                      NEW j \in 1..Len(call'[d].rows),
                      NEW i \in Len(call'[d].rows) + 1 .. Len(events')
               PROVE  call'[d].rows[j].id # events'[i].id
    BY DEF RowsApart
  <2>1. CASE call'[d].rows = <<>>
    BY <2>1
  <2>2. CASE events' = <<>>
    <3>1. Len(call'[d].rows) \in Nat
      BY <2>2
    <3> QED
      BY <2>2, <3>1
  <2>3. CASE events' = events /\ call'[d].rows # <<>>
    <3>1. call[d].pc = "writing" /\ call'[d].rows = call[d].rows
      BY <2>3
    <3> QED
      BY <1>1, <2>3, <3>1 DEF RowsApart
  <2> QED
    BY <2>1, <2>2, <2>3 DEF Writing
<1> QED
  BY <1>7, <1>8, <1>9

LEMMA RecordStrong ==
    ASSUME JInv, NEW c \in Calls, NEW e \in Ids, NEW level \in Levels, Record(c, e, level)
    PROVE  Strong'
<1> DEFINE new == [id |-> e, level |-> level]
<1>1. /\ IInv /\ Lists /\ RowsApart /\ Private /\ DeletionOrder /\ Removed /\ Saved /\ TypeOK
  BY DEF JInv, Strong, IInv
<1>2. /\ app = "up" /\ call[c].pc = "idle" /\ call[c].op = "none" /\ e \notin used
      /\ events' = Append(events, new) /\ used' = used \cup {e}
      /\ Save(c, "add", e)
      /\ UNCHANGED <<app, disk, seedOff, usingFallback, stored, revoking, revoked, wiped, gone, broken>>
  BY <1>1 DEF IInv, Fresh, Record, persistent
<1>3. new \in Entry /\ new.id = e /\ e \notin Known /\ events \in Seq(Entry)
  BY <1>1, <1>2, LifeGraphAssumption DEF Entry, Known, TypeOK
<1> HIDE DEF new
<1>4. /\ \A d \in Calls : d # c => call'[d] = call[d]
      /\ usingFallback  => call'[c].pc = "idle" /\ call'[c].op = "none"
      /\ ~usingFallback => call'[c].pc = "queued" /\ call'[c].op = "add"
      /\ call'[c].rows = <<>>
  BY <1>1, <1>2, SaveStep, IdleType DEF TypeOK
<1>5. /\ Distinct(events') /\ IdsOf(events') = IdsOf(events) \cup {e}
      /\ Secret(events', revoked \cup RevokingIds)
  BY <1>1, <1>2, <1>3, ListAppend DEF Lists, Private
<1>6. Known' = Known \cup {e} /\ RevokingIds' = RevokingIds
        /\ \A d \in Calls : RevokingBy(d)' = RevokingBy(d)
  BY <1>2 DEF Known, RevokingIds, RevokingBy
<1>7. \A d \in Calls : call'[d].rows = <<>> \/ (call'[d] = call[d] /\ d # c)
  BY <1>4
<1>8. Lists'
  <2>1. ASSUME NEW d \in Calls
        PROVE  /\ Distinct(call'[d].rows) /\ IdsOf(call'[d].rows) \subseteq Known'
               /\ ~Writing(d)' => call'[d].rows = <<>>
    BY <1>1, <1>6, <1>7, EmptyList DEF Lists, Writing
  <2>2. Distinct(disk') /\ IdsOf(disk') \subseteq Known'
    BY <1>1, <1>2, <1>6 DEF Lists
  <2> QED
    BY <1>1, <1>2, <1>5, <1>6, <2>1, <2>2 DEF Lists
<1>9. Private'
  <2>1. ASSUME NEW d \in Calls
        PROVE  Secret(call'[d].rows, revoked \cup {p[2] : p \in RevokingBy(d)}')
    BY <1>1, <1>6, <1>7, EmptyList DEF Private
  <2> QED
    BY <1>1, <1>2, <1>5, <1>6, <2>1 DEF Private
<1>10. RowsApart'
  <2> SUFFICES ASSUME NEW d \in Calls, call'[d].pc = "writing",
                      NEW j \in 1..Len(call'[d].rows),
                      NEW i \in Len(call'[d].rows) + 1 .. Len(events')
               PROVE  call'[d].rows[j].id # events'[i].id
    BY DEF RowsApart
  <2>1. d # c /\ call'[d] = call[d] /\ call[d].rows \in Seq(Entry)
    BY <1>1, <1>2, <1>4 DEF TypeOK, Call
  <2>2. /\ Len(events') = Len(events) + 1 /\ Len(events) \in Nat
        /\ \A m \in 1..Len(events) : events'[m] = events[m]
        /\ events'[Len(events) + 1] = new
    BY <1>2, <1>3, IdsAppend
  <2>3. CASE i = Len(events) + 1
    <3>1. call[d].rows[j].id \in Known
      BY <1>1, <2>1 DEF Lists, IdsOf
    <3> QED
      BY <1>3, <2>1, <2>2, <2>3, <3>1
  <2>4. CASE i # Len(events) + 1
    <3>1. Len(call[d].rows) \in Nat
      BY <2>1
    <3>2. i \in Len(call[d].rows) + 1 .. Len(events) /\ i \in 1..Len(events)
      BY <2>1, <2>2, <2>4, <3>1
    <3> QED
      BY <1>1, <2>1, <2>2, <3>2 DEF RowsApart
  <2> QED
    BY <2>3, <2>4
<1>11. DeletionOrder'
  BY <1>1, <1>2, <1>4 DEF DeletionOrder, Deleting, InFlight, Writing
<1>12. Removed'
  <2>1. e \notin wiped /\ e \notin gone
    BY <1>1, <1>3 DEF Lists
  <2>2. \A d \in Calls : InFlight(d)' => ~usingFallback \/ InFlight(d)
    BY <1>4 DEF InFlight, Writing
  <2>3. (app' # "down" /\ ~usingFallback') \/ (\E d \in Calls : InFlight(d)')
           => gone' \cap IdsOf(events') = {}
    BY <1>1, <1>2, <1>5, <2>1, <2>2 DEF Removed
  <2>4. \A d \in Calls : /\ gone' \cap IdsOf(call'[d].rows) = {}
                         /\ call'[d].op = "clear" =>
                               wiped' \cap (IdsOf(call'[d].rows) \cup IdsOf(events')) = {}
    BY <1>1, <1>2, <1>4, <1>5, <2>1, EmptyList DEF Removed
  <2> QED
    BY <1>1, <1>2, <2>3, <2>4 DEF Removed, GoneStays
<1>13. Saved'
  BY <1>2, <1>4 DEF Saved, Pending
<1> QED
  BY <1>8, <1>9, <1>10, <1>11, <1>12, <1>13 DEF Strong

LEMMA UpdatePrivacyStrong ==
    ASSUME JInv, NEW c \in Calls, NEW n \in 1..Len(events), UpdatePrivacy(c, n)
    PROVE  Strong'
<1>1. /\ IInv /\ Lists /\ RowsApart /\ Private /\ DeletionOrder /\ Removed /\ Saved /\ TypeOK
  BY DEF JInv, Strong, IInv
<1>2. /\ app = "up" /\ call[c].pc = "idle" /\ call[c].op = "none" /\ events[n] \in Entry
      /\ UNCHANGED <<app, disk, seedOff, usingFallback, used, stored, wiped, gone, broken>>
  BY <1>1 DEF IInv, Fresh, TypeOK, UpdatePrivacy, persistent
<1> PICK old \in Entry : old = events[n]
  BY <1>2
<1> DEFINE id == old.id
<1> PICK level \in Levels :
      /\ events' = [events EXCEPT ![n] = [old EXCEPT !.level = level]]
      /\ Save(c, "level", id)
      /\ IF level = "local_only"
         THEN revoking' \in {revoking, revoking \cup {<<c, id>>}} /\ revoked' = revoked
         ELSE revoking' = {p \in revoking : p[2] # id} /\ revoked' = revoked \ {id}
  BY DEF UpdatePrivacy
<1>3. id \in Ids \cup SeedIds /\ id \in IdsOf(events)
  BY EntryType DEF IdsOf
<1>4. /\ \A d \in Calls : d # c => call'[d] = call[d]
      /\ usingFallback  => call'[c].pc = "idle" /\ call'[c].op = "none"
      /\ ~usingFallback => call'[c].pc = "queued" /\ call'[c].op = "level"
      /\ call'[c].rows = <<>>
  BY <1>1, <1>3, SaveStep, IdleType DEF TypeOK
<1>5. /\ Len(events') = Len(events) /\ Len(events) \in Nat
      /\ \A j \in 1..Len(events) : events'[j].id = events[j].id
      /\ \A j \in 1..Len(events) : j # n => events'[j].level = events[j].level
      /\ events'[n].level = level
      /\ IdsOf(events') = IdsOf(events)
  <2>1. events \in Seq(Entry) /\ events[n] = old /\ n \in 1..Len(events)
    BY <1>1 DEF TypeOK
  <2>2. PICK new \in Entry : /\ new.id = id /\ new.level = level
                             /\ events' = [events EXCEPT ![n] = new]
    <3>1. /\ [old EXCEPT !.level = level] \in Entry
          /\ [old EXCEPT !.level = level].id = id /\ [old EXCEPT !.level = level].level = level
      BY DEF Entry
    <3> QED
      BY <3>1
  <2>3. events' \in Seq(Entry) /\ Len(events') = Len(events) /\ Len(events) \in Nat
    BY <2>1, <2>2
  <2>4. \A j \in 1..Len(events) : events'[j].id = events[j].id
    BY <2>1, <2>2
  <2>5. /\ \A j \in 1..Len(events) : j # n => events'[j].level = events[j].level
        /\ events'[n].level = level
    BY <2>1, <2>2
  <2>6. IdsOf(events') = IdsOf(events)
    BY <2>1, <2>3, <2>4, IdsAligned
  <2> QED
    BY <2>3, <2>4, <2>5, <2>6
<1> HIDE DEF id
<1>6. Known' = Known /\ \A d \in Calls : d # c => RevokingBy(d)' \subseteq RevokingBy(d)
  <2>1. ASSUME NEW d \in Calls, d # c PROVE RevokingBy(d)' \subseteq RevokingBy(d)
    BY <2>1 DEF RevokingBy
  <2> QED
    BY <1>2, <2>1 DEF Known
<1>7. /\ revoked' \cup RevokingIds' \subseteq revoked \cup RevokingIds \cup {id}
      /\ id \in revoked' \cup RevokingIds' => level = "local_only"
      /\ revoked' \subseteq revoked
  <2>1. CASE level = "local_only"
    BY <2>1 DEF RevokingIds
  <2>2. CASE level # "local_only"
    BY <2>2 DEF RevokingIds
  <2> QED
    BY <2>1, <2>2
<1>8. \A d \in Calls : call'[d].rows = <<>> \/ (call'[d] = call[d] /\ d # c)
  BY <1>4
<1>9. Lists'
  <2>1. ASSUME NEW d \in Calls
        PROVE  /\ Distinct(call'[d].rows) /\ IdsOf(call'[d].rows) \subseteq Known'
               /\ ~Writing(d)' => call'[d].rows = <<>>
    BY <1>1, <1>6, <1>8, EmptyList DEF Lists, Writing
  <2>2. Distinct(events') /\ IdsOf(events') \subseteq Known'
    BY <1>1, <1>5, <1>6 DEF Lists, Distinct
  <2>3. revoked' \cup RevokingIds' \subseteq Known'
    BY <1>1, <1>3, <1>6, <1>7 DEF Lists
  <2> QED
    BY <1>1, <1>2, <1>6, <2>1, <2>2, <2>3 DEF Lists
<1>10. Private'
  <2>1. ASSUME NEW d \in Calls
        PROVE  Secret(call'[d].rows, revoked' \cup {p[2] : p \in RevokingBy(d)}')
    <3>1. CASE call'[d].rows = <<>>
      BY <3>1, EmptyList
    <3>2. CASE call'[d] = call[d] /\ d # c
      <4>1. revoked' \cup {p[2] : p \in RevokingBy(d)}' \subseteq revoked \cup {p[2] : p \in RevokingBy(d)}
        BY <1>6, <1>7, <3>2
      <4> QED
        BY <1>1, <3>2, <4>1 DEF Private, Secret
    <3> QED
      BY <1>8, <3>1, <3>2
  <2>2. Secret(events', revoked' \cup RevokingIds')
    <3> SUFFICES ASSUME NEW j \in 1..Len(events), events[j].id \in revoked' \cup RevokingIds'
                 PROVE  events'[j].level = "local_only"
      BY <1>5 DEF Secret
    <3>1. CASE j = n
      BY <1>5, <1>7, <3>1 DEF id
    <3>2. CASE j # n
      <4>1. events[j].id # id
        BY <1>1, <3>2 DEF Lists, Distinct, id
      <4> QED
        BY <1>1, <1>5, <1>7, <3>2, <4>1 DEF Private, Secret
    <3> QED
      BY <3>1, <3>2
  <2>3. Secret(disk', revoked')
    BY <1>1, <1>2, <1>7 DEF Private, Secret
  <2> QED
    BY <1>2, <2>1, <2>2, <2>3 DEF Private
<1>11. RowsApart'
  <2> SUFFICES ASSUME NEW d \in Calls, call'[d].pc = "writing",
                      NEW j \in 1..Len(call'[d].rows),
                      NEW i \in Len(call'[d].rows) + 1 .. Len(events')
               PROVE  call'[d].rows[j].id # events'[i].id
    BY DEF RowsApart
  <2>1. d # c /\ call'[d] = call[d] /\ call[d].rows \in Seq(Entry)
    BY <1>1, <1>2, <1>4 DEF TypeOK, Call
  <2>2. i \in 1..Len(events) /\ i \in Len(call[d].rows) + 1 .. Len(events)
    BY <1>5, <2>1
  <2> QED
    BY <1>1, <1>5, <2>1, <2>2 DEF RowsApart
<1>12. DeletionOrder'
  BY <1>1, <1>2, <1>4 DEF DeletionOrder, Deleting, InFlight, Writing
<1>13. Removed'
  <2>1. \A d \in Calls : InFlight(d)' => ~usingFallback \/ InFlight(d)
    BY <1>4 DEF InFlight, Writing
  <2>2. (app' # "down" /\ ~usingFallback') \/ (\E d \in Calls : InFlight(d)')
           => gone' \cap IdsOf(events') = {}
    BY <1>1, <1>2, <1>5, <2>1 DEF Removed
  <2>3. \A d \in Calls : /\ gone' \cap IdsOf(call'[d].rows) = {}
                         /\ call'[d].op = "clear" =>
                               wiped' \cap (IdsOf(call'[d].rows) \cup IdsOf(events')) = {}
    BY <1>1, <1>2, <1>4, <1>5, EmptyList DEF Removed
  <2> QED
    BY <1>1, <1>2, <2>2, <2>3 DEF Removed, GoneStays
<1>14. Saved'
  BY <1>2, <1>4 DEF Saved, Pending
<1> QED
  BY <1>9, <1>10, <1>11, <1>12, <1>13, <1>14 DEF Strong

LEMMA DeletionBeginsStrong ==
    ASSUME JInv, NEW c \in Calls, Delete(c) \/ Unseed(c)
    PROVE  Strong'
<1>1. /\ IInv /\ Lists /\ RowsApart /\ Private /\ DeletionOrder /\ Removed /\ Saved /\ TypeOK
  BY DEF JInv, Strong, IInv
<1>2. /\ UNCHANGED <<app, events, disk, usingFallback, history>> /\ (seedOff => seedOff')
      /\ call[c].pc \in {"idle", "unseeding"} /\ app # "down"
      /\ ~Writing(c) /\ call[c].rows = <<>>
  BY <1>1 DEF IInv, TypeOK, DownIsIdle, Delete, Unseed, persistent, Lists, Writing
<1>3. /\ call'[c].pc \in {"unseeding", "deleting", "deleted"} /\ call'[c].op = "none"
      /\ call'[c].rows = <<>>
      /\ call'[c].pc = "deleting" => seedOff'
      /\ call'[c].pc = "deleted" => seedOff' \/ usingFallback'
      /\ \A d \in Calls : d # c => call'[d] = call[d] /\ ~Deleting(d)
  <2>1. CASE Delete(c)
    <3> PICK pc \in {"deleted", "unseeding"} :
             /\ call' = [call EXCEPT ![c] = [Idle EXCEPT !.pc = pc]]
             /\ pc = "deleted" => usingFallback
      BY <2>1 DEF Delete
    <3> DEFINE new == [Idle EXCEPT !.pc = pc]
    <3>1. new \in Call /\ new.pc = pc /\ new.op = "none" /\ new.rows = <<>>
      BY IdsEmpty DEF Idle, Call
    <3>2. call' = [call EXCEPT ![c] = new]
      OBVIOUS
    <3> HIDE DEF new
    <3>3. call'[c] = new /\ \A d \in Calls : d # c => call'[d] = call[d]
      BY <1>1, <3>1, <3>2, CallSet DEF TypeOK
    <3>4. \A d \in Calls : ~Deleting(d)
      BY <2>1 DEF Delete
    <3>5. pc = "deleted" => usingFallback'
      BY <1>2
    <3> QED
      BY <3>1, <3>3, <3>4, <3>5
  <2>2. CASE Unseed(c)
    <3> PICK pc \in {"deleted", "deleting"} : call' = [call EXCEPT ![c].pc = pc]
      BY <2>2 DEF Unseed
    <3>1. call[c].op = "none" /\ \A d \in Calls : d # c => ~Deleting(d)
      BY <1>1, <2>2 DEF DeletionOrder, Deleting, Unseed
    <3>2. seedOff'
      BY <2>2 DEF Unseed
    <3> QED
      BY <1>1, <1>2, <3>1, <3>2, PcStep DEF TypeOK
  <2> QED
    BY <2>1, <2>2
<1>4. Lists' /\ RowsApart' /\ Private'
  <2>1. \A d \in Calls : call'[d].rows = <<>> \/ (call'[d] = call[d] /\ Writing(d)')
    BY <1>1, <1>3 DEF Lists, Writing
  <2> QED
    BY <1>1, <1>2, <2>1, ListsQuiet DEF history, Lists
<1>5. DeletionOrder'
  BY <1>1, <1>2, <1>3 DEF DeletionOrder, Deleting, InFlight, Writing, history
<1>6. Removed'
  <2>1. \A d \in Calls : InFlight(d)' => InFlight(d)
    BY <1>3 DEF InFlight, Writing
  <2> QED
    BY <1>1, <1>2, <1>3, <2>1, EmptyList DEF Removed, GoneStays, history
<1>7. Saved'
  BY <1>3 DEF Saved, Pending
<1> QED
  BY <1>4, <1>5, <1>6, <1>7 DEF Strong

LEMMA DeleteRowsStrong ==
    ASSUME JInv, NEW c \in Calls, DeleteRows(c)
    PROVE  Strong'
<1>1. /\ IInv /\ Lists /\ RowsApart /\ Private /\ DeletionOrder /\ Removed /\ Saved /\ TypeOK
  BY DEF JInv, Strong, IInv
<1>2. /\ call[c].pc = "deleting" /\ call[c].op = "none" /\ Unlocked
      /\ disk' = <<>> /\ seedOff' = TRUE /\ wiped' = wiped \cup Known
      /\ call' = [call EXCEPT ![c].pc = "deleted"]
      /\ UNCHANGED <<app, events, usingFallback, used, stored, revoking, revoked, gone, broken>>
  BY <1>1 DEF DeleteRows, DeletionOrder, Known
<1>3. /\ call'[c].pc = "deleted" /\ call'[c].op = "none" /\ call'[c].rows = call[c].rows
      /\ \A d \in Calls : d # c => call'[d] = call[d] /\ ~Deleting(d)
  BY <1>1, <1>2, PcStep DEF TypeOK, DeletionOrder, Deleting
<1>4. \A d \in Calls : call'[d].rows = <<>>
  BY <1>1, <1>2, <1>3 DEF Lists, Writing, Unlocked
<1>5. Lists' /\ RowsApart' /\ Private'
  <2>1. wiped' \subseteq Known
    BY <1>1, <1>2 DEF Lists
  <2>2. app' = "down" => revoking' = {}
    BY <1>1, <1>2 DEF Private
  <2> QED
    BY <1>1, <1>2, <1>4, <2>1, <2>2, ListsQuiet
<1>6. DeletionOrder'
  BY <1>1, <1>2, <1>3 DEF DeletionOrder, Deleting, InFlight, Writing
<1>7. Removed'
  <2>1. \A d \in Calls : InFlight(d)' => InFlight(d)
    BY <1>3 DEF InFlight, Writing
  <2>2. \A d \in Calls : call'[d].op # "clear"
    BY <1>3 DEF Deleting
  <2>3. (app' # "down" /\ ~usingFallback') \/ (\E d \in Calls : InFlight(d)')
           => gone' \cap IdsOf(events') = {}
    BY <1>1, <1>2, <2>1 DEF Removed
  <2> QED
    BY <1>2, <1>4, <2>2, <2>3, EmptyList DEF Removed, GoneStays
<1>8. Saved'
  BY <1>3 DEF Saved, Pending
<1> QED
  BY <1>5, <1>6, <1>7, <1>8 DEF Strong

LEMMA ClearStrong ==
    ASSUME JInv, NEW c \in Calls, Clear(c)
    PROVE  Strong'
<1>1. /\ IInv /\ Lists /\ RowsApart /\ Private /\ DeletionOrder /\ Removed /\ Saved /\ TypeOK
  BY DEF JInv, Strong, IInv
<1>2. /\ call[c].pc = "deleted" /\ (seedOff \/ usingFallback) /\ app # "down"
      /\ events' = <<>> /\ Save(c, "clear", None) /\ wiped' = wiped \cup Known
      /\ UNCHANGED <<app, disk, seedOff, usingFallback, used, stored, revoking, revoked, gone, broken>>
  BY <1>1 DEF IInv, DownIsIdle, Clear, persistent, DeletionOrder, Known
<1>3. /\ usingFallback  => call'[c].pc = "idle" /\ call'[c].op = "none"
      /\ ~usingFallback => call'[c].pc = "queued" /\ call'[c].op = "clear"
      /\ call'[c].rows = <<>>
      /\ \A d \in Calls : d # c => call'[d] = call[d] /\ ~Deleting(d)
  BY <1>1, <1>2, SaveStep, IdleType DEF TypeOK, DeletionOrder, Deleting
<1>4. Lists' /\ RowsApart' /\ Private'
  <2>1. \A d \in Calls : call'[d].rows = <<>> \/ (call'[d] = call[d] /\ Writing(d)')
    BY <1>1, <1>3 DEF Lists, Writing
  <2>2. wiped' \subseteq Known
    BY <1>1, <1>2 DEF Lists
  <2>3. app' = "down" => revoking' = {}
    BY <1>1, <1>2 DEF Private
  <2> QED
    BY <1>1, <1>2, <2>1, <2>2, <2>3, ListsQuiet
<1>5. DeletionOrder'
  BY <1>1, <1>2, <1>3 DEF DeletionOrder, Deleting, InFlight, Writing
<1>6. Removed'
  <2>1. ASSUME NEW d \in Calls
        PROVE  /\ gone' \cap IdsOf(call'[d].rows) = {}
               /\ call'[d].op = "clear" => call'[d].rows = <<>>
    BY <1>1, <1>2, <1>3, EmptyList DEF Removed, Deleting
  <2> QED
    BY <1>1, <1>2, <2>1, EmptyList DEF Removed, GoneStays
<1>7. Saved'
  BY <1>2, <1>3 DEF Saved, Pending
<1> QED
  BY <1>4, <1>5, <1>6, <1>7 DEF Strong

LEMMA BeginStrong ==
    ASSUME JInv, NEW c \in Calls, Begin(c)
    PROVE  Strong'
<1>1. /\ IInv /\ Lists /\ RowsApart /\ Private /\ DeletionOrder /\ Removed /\ Saved /\ TypeOK
  BY DEF JInv, Strong, IInv
<1>2. /\ call[c].pc = "queued" /\ call[c].rows = <<>> /\ Unlocked
      /\ UNCHANGED <<app, events, disk, seedOff, usingFallback, history>>
  BY <1>1 DEF IInv, Fresh, Begin, persistent
<1> PICK old \in Call : old = call[c]
  BY <1>1 DEF TypeOK
<1> DEFINE n   == Len(events)
           new == [old EXCEPT !.pc = "writing", !.len = n]
<1>3. n \in Nat
  BY <1>1 DEF TypeOK
<1>4. call' = [call EXCEPT ![c] = new]
  BY DEF Begin
<1> HIDE DEF n
<1>5. new \in Call /\ new.pc = "writing" /\ new.len = n /\ new.op = old.op /\ new.rows = old.rows
  BY <1>3 DEF Call
<1> HIDE DEF new
<1>6. /\ call'[c].pc = "writing" /\ call'[c].len = Len(events)
      /\ call'[c].op = call[c].op /\ call'[c].rows = <<>>
      /\ \A d \in Calls : d # c => call'[d] = call[d]
  BY <1>1, <1>2, <1>4, <1>5, CallSet DEF TypeOK, n
<1>7. \A d \in Calls : call'[d].rows = <<>>
  BY <1>1, <1>2, <1>6 DEF Lists, Writing, Unlocked
<1>8. Lists' /\ RowsApart' /\ Private'
  <2>1. wiped' \subseteq Known /\ (app' = "down" => revoking' = {})
    BY <1>1, <1>2 DEF Lists, Private, history
  <2> QED
    BY <1>1, <1>2, <1>7, <2>1, ListsQuiet DEF history
<1>9. DeletionOrder'
  BY <1>1, <1>2, <1>6 DEF DeletionOrder, Deleting, InFlight, Writing, history
<1>10. Removed'
  <2>1. \A d \in Calls : InFlight(d)' => InFlight(d)
    BY <1>2, <1>6 DEF InFlight, Writing
  <2>2. \A d \in Calls : call'[d].op = call[d].op
    BY <1>6
  <2>3. \A d \in Calls : call'[d].op = "clear" => wiped' \cap IdsOf(events') = {}
    BY <1>1, <1>2, <2>2 DEF Removed, history
  <2> QED
    BY <1>1, <1>2, <1>7, <2>1, <2>3, EmptyList DEF Removed, GoneStays, history
<1>11. Saved'
  <2>1. Len(events) \in Nat /\ Len(<<>>) = 0
    BY <1>1, IdsEmpty DEF TypeOK
  <2>2. Copying(c)'
    BY <1>2, <1>6, <2>1 DEF Copying
  <2> QED
    BY <2>2 DEF Saved
<1> QED
  BY <1>8, <1>9, <1>10, <1>11 DEF Strong

LEMMA InsertStrong ==
    ASSUME JInv, NEW c \in Calls, Insert(c)
    PROVE  Strong'
<1>1. /\ IInv /\ Lists /\ RowsApart /\ Private /\ DeletionOrder /\ Removed /\ Saved /\ TypeOK
  BY DEF JInv, Strong, IInv
<1> PICK old \in Call : old = call[c]
  BY <1>1 DEF TypeOK
<1> DEFINE n    == Len(old.rows)
           e    == events[n + 1]
           rows == Append(old.rows, e)
           new  == [old EXCEPT !.rows = rows]
<1>2. /\ old.pc = "writing" /\ old.len = Len(events) /\ n < Len(events)
      /\ old.rows \in Seq(Entry) /\ events \in Seq(Entry) /\ n \in Nat /\ Len(events) \in Nat
      /\ UNCHANGED <<app, events, disk, seedOff, usingFallback, history>>
  BY <1>1 DEF TypeOK, Insert, Call, persistent
<1>3. e \in Entry /\ n + 1 \in 1..Len(events)
  BY <1>2
<1>4. call' = [call EXCEPT ![c] = new]
  BY DEF Insert
<1>5. /\ Len(rows) = n + 1
      /\ \A i \in 1..n : rows[i] = old.rows[i]
      /\ rows[n + 1] = e
  BY <1>2, <1>3, IdsAppend
<1>6. e.id \notin IdsOf(old.rows)
  <2>1. n + 1 \in Len(call[c].rows) + 1 .. Len(events)
    BY <1>2
  <2>2. \A j \in 1..Len(call[c].rows) : call[c].rows[j].id # events[n + 1].id
    BY <1>1, <1>2, <2>1 DEF RowsApart
  <2> QED
    BY <2>2 DEF IdsOf
<1>7. e.id \in IdsOf(events)
  BY <1>3 DEF IdsOf
<1> DEFINE ids == revoked \cup {p[2] : p \in RevokingBy(c)}
<1>8. e.id \in ids => e.level = "local_only"
  <2>1. ids \subseteq revoked \cup RevokingIds
    BY DEF RevokingBy, RevokingIds
  <2> QED
    BY <1>1, <1>3, <2>1 DEF Private, Secret
<1>9. Secret(old.rows, ids) /\ Distinct(old.rows)
  BY <1>1 DEF Private, Lists
<1> HIDE DEF e, ids
<1>10. /\ Distinct(rows) /\ Secret(rows, ids) /\ IdsOf(rows) = IdsOf(old.rows) \cup {e.id}
  BY <1>2, <1>3, <1>6, <1>8, <1>9, ListAppend
<1>11. rows \in Seq(Entry)
  BY <1>2, <1>3
<1> HIDE DEF rows
<1>12. /\ new \in Call /\ new.pc = "writing" /\ new.len = old.len
       /\ new.op = old.op /\ new.rows = rows
  BY <1>2, <1>11 DEF Call
<1> HIDE DEF new, n
<1>13. /\ call'[c] = new
       /\ \A d \in Calls : d # c => call'[d] = call[d] /\ ~Writing(d) /\ call[d].rows = <<>>
  BY <1>1, <1>2, <1>4, <1>12, CallSet DEF IInv, TypeOK, OneWriter, Writing, Lists
<1>14. Known' = Known /\ RevokingIds' = RevokingIds /\ \A d \in Calls : RevokingBy(d)' = RevokingBy(d)
  BY <1>2 DEF Known, RevokingIds, RevokingBy, history
<1>15. Lists'
  <2>1. ASSUME NEW d \in Calls
        PROVE  /\ Distinct(call'[d].rows) /\ IdsOf(call'[d].rows) \subseteq Known
               /\ ~Writing(d)' => call'[d].rows = <<>>
    <3>1. CASE d = c
      BY <1>1, <1>7, <1>10, <1>12, <1>13, <3>1 DEF Lists, Writing
    <3>2. CASE d # c
      BY <1>13, <3>2, EmptyList
    <3> QED
      BY <3>1, <3>2
  <2> QED
    BY <1>1, <1>2, <1>14, <2>1 DEF Lists, history
<1>16. Private'
  <2>1. ASSUME NEW d \in Calls
        PROVE  Secret(call'[d].rows, revoked' \cup {p[2] : p \in RevokingBy(d)}')
    <3>1. CASE d = c
      <4>1. revoked' \cup {p[2] : p \in RevokingBy(c)}' = ids
        BY <1>2, <1>14 DEF ids, history
      <4> QED
        BY <1>10, <1>12, <1>13, <3>1, <4>1
    <3>2. CASE d # c
      BY <1>13, <3>2, EmptyList
    <3> QED
      BY <3>1, <3>2
  <2> QED
    BY <1>1, <1>2, <1>14, <2>1 DEF Private, history
<1>17. RowsApart'
  <2> SUFFICES ASSUME NEW d \in Calls, call'[d].pc = "writing",
                      NEW j \in 1..Len(call'[d].rows),
                      NEW i \in Len(call'[d].rows) + 1 .. Len(events)
               PROVE  call'[d].rows[j].id # events[i].id
    BY <1>2 DEF RowsApart
  <2>1. d = c /\ call'[d].rows = rows
    BY <1>12, <1>13 DEF Writing
  <2>2. j \in 1..n + 1 /\ i \in n + 1 .. Len(events) /\ i # n + 1 /\ i \in 1..Len(events)
    BY <1>2, <1>5, <2>1
  <2>3. CASE j = n + 1
    <3>1. rows[j].id = events[n + 1].id
      BY <1>5, <2>3 DEF e
    <3>2. events[n + 1].id # events[i].id
      BY <1>1, <1>3, <2>2 DEF Lists, Distinct
    <3> QED
      BY <2>1, <3>1, <3>2
  <2>4. CASE j # n + 1
    <3>1. j \in 1..n /\ rows[j] = old.rows[j]
      BY <1>2, <1>5, <2>2, <2>4
    <3> QED
      BY <1>1, <1>2, <2>1, <2>2, <3>1 DEF RowsApart, n
  <2> QED
    BY <2>3, <2>4
<1>18. DeletionOrder'
  BY <1>1, <1>2, <1>12, <1>13 DEF DeletionOrder, Deleting, InFlight, Writing, history
<1>19. Removed'
  <2>1. \A d \in Calls : InFlight(d)' => InFlight(d)
    BY <1>2, <1>13 DEF InFlight, Writing
  <2>2. InFlight(c)
    BY <1>2 DEF InFlight, Writing
  <2>3. gone \cap IdsOf(events) = {}
    BY <1>1, <2>2 DEF Removed
  <2>4. gone \cap IdsOf(rows) = {}
    BY <1>1, <1>7, <1>10, <2>3 DEF Removed
  <2>5. ASSUME NEW d \in Calls
        PROVE  /\ gone \cap IdsOf(call'[d].rows) = {}
               /\ call'[d].op = "clear" => wiped \cap (IdsOf(call'[d].rows) \cup IdsOf(events)) = {}
    <3>1. CASE d = c
      BY <1>1, <1>7, <1>10, <1>12, <1>13, <2>4, <3>1 DEF Removed
    <3>2. CASE d # c
      BY <1>1, <1>13, <3>2 DEF Removed
    <3> QED
      BY <3>1, <3>2
  <2> QED
    BY <1>1, <1>2, <2>3, <2>5 DEF Removed, GoneStays, history
<1>20. Saved'
  <2> SUFFICES ASSUME app # "down", ~usingFallback
               PROVE  (\E d \in Calls : Pending(d)') \/ Copying(c)'
    BY <1>2 DEF Saved
  <2>1. CASE \E d \in Calls : Pending(d)
    BY <1>2, <1>13, <2>1 DEF Pending
  <2>2. CASE \E d \in Calls : Copying(d)
    <3>1. Copying(c)
      BY <1>13, <2>2 DEF Copying, Writing
    <3>2. \A i \in 1..n + 1 : rows[i] = events[i]
      <4> SUFFICES ASSUME NEW i \in 1..n + 1 PROVE rows[i] = events[i]
        OBVIOUS
      <4>1. CASE i = n + 1
        BY <1>5, <4>1 DEF e
      <4>2. CASE i # n + 1
        BY <1>2, <1>5, <3>1, <4>2 DEF Copying, n
      <4> QED
        BY <4>1, <4>2
    <3> QED
      BY <1>2, <1>5, <1>12, <1>13, <3>2 DEF Copying
  <2>3. ~\E d \in Calls : call[d].pc = "committing"
    BY <1>2, <1>13 DEF Writing
  <2> QED
    BY <1>1, <1>2, <2>1, <2>2, <2>3 DEF Saved
<1> QED
  BY <1>15, <1>16, <1>17, <1>18, <1>19, <1>20 DEF Strong

LEMMA LoopEndsStrong ==
    ASSUME JInv, NEW c \in Calls, LoopEnds(c)
    PROVE  Strong'
<1>1. /\ IInv /\ Lists /\ RowsApart /\ Private /\ DeletionOrder /\ Removed /\ Saved /\ TypeOK
  BY DEF JInv, Strong, IInv
<1>2. /\ call[c] \in Call /\ call[c].pc = "writing" /\ Len(call[c].rows) = Len(events)
      /\ call' = [call EXCEPT ![c].pc = "committing"]
      /\ UNCHANGED <<app, events, disk, seedOff, usingFallback, history>>
  BY <1>1 DEF TypeOK, LoopEnds, persistent
<1>3. /\ call'[c].pc = "committing" /\ call'[c].op = call[c].op /\ call'[c].rows = call[c].rows
      /\ \A d \in Calls : d # c => call'[d] = call[d] /\ ~Writing(d) /\ call[d].rows = <<>>
  BY <1>1, <1>2, PcStep DEF IInv, TypeOK, OneWriter, Writing, Lists
<1>4. Lists' /\ RowsApart' /\ Private'
  <2>1. wiped' \subseteq Known /\ (app' = "down" => revoking' = {})
    BY <1>1, <1>2 DEF Lists, Private, history
  <2>2. ASSUME NEW d \in Calls
        PROVE  \/ call'[d].rows = <<>>
               \/ call'[d].rows = call[d].rows /\ Writing(d)' /\ call'[d].pc # "writing"
    BY <1>3 DEF Writing
  <2> QED
    BY <1>1, <1>2, <2>1, <2>2, ListsQuiet DEF history
<1>5. DeletionOrder'
  BY <1>1, <1>2, <1>3 DEF DeletionOrder, Deleting, InFlight, Writing, history
<1>6. Removed'
  <2>1. \A d \in Calls : InFlight(d)' => InFlight(d)
    BY <1>2, <1>3 DEF InFlight, Writing
  <2>2. \A d \in Calls : call'[d].op = call[d].op /\ call'[d].rows = call[d].rows
    BY <1>3
  <2> QED
    BY <1>1, <1>2, <2>1, <2>2 DEF Removed, GoneStays, history
<1>7. Saved'
  <2> SUFFICES ASSUME app # "down", ~usingFallback
               PROVE  (\E d \in Calls : Pending(d)') \/ (call'[c].pc = "committing" /\ call'[c].rows = events)
    BY <1>2 DEF Saved
  <2>1. CASE \E d \in Calls : Pending(d)
    BY <1>2, <1>3, <2>1 DEF Pending
  <2>2. CASE Copying(c)
    <3>1. call[c].rows \in Seq(Entry) /\ events \in Seq(Entry)
      BY <1>1, <1>2 DEF Call, TypeOK
    <3>2. call[c].rows = events
      BY <1>2, <2>2, <3>1 DEF Copying
    <3> QED
      BY <1>3, <3>2
  <2>3. ~\E d \in Calls : call[d].pc = "committing"
    BY <1>2, <1>3 DEF Writing
  <2>4. \A d \in Calls : Copying(d) => d = c
    BY <1>3 DEF Copying, Writing
  <2> QED
    BY <1>1, <1>2, <2>1, <2>2, <2>3, <2>4 DEF Saved
<1> QED
  BY <1>4, <1>5, <1>6, <1>7 DEF Strong

LEMMA CommitStrong ==
    ASSUME JInv, NEW c \in Calls, Commit(c)
    PROVE  Strong'
<1>1. /\ IInv /\ Lists /\ RowsApart /\ Private /\ DeletionOrder /\ Removed /\ Saved /\ TypeOK
  BY DEF JInv, Strong, IInv
<1>2. /\ call[c].pc = "committing" /\ disk' = call[c].rows /\ call' = [call EXCEPT ![c] = Idle]
      /\ UNCHANGED <<events, seedOff, usingFallback, used, wiped, broken>>
      /\ app # "down" /\ app' # "down"
  BY <1>1 DEF IInv, DownIsIdle, Commit, AfterCall
<1> DEFINE ids == {p[2] : p \in RevokingBy(c)}
<1>3. revoked' = revoked \cup ids /\ revoking' = revoking \ RevokingBy(c)
  BY DEF Commit
<1>4. /\ call'[c].pc = "idle" /\ call'[c].op = "none" /\ call'[c].rows = <<>>
      /\ \A d \in Calls : d # c => call'[d] = call[d] /\ ~Writing(d)
  BY <1>1, <1>2, CallSet, IdleType DEF IInv, TypeOK, OneWriter, Writing
<1>5. \A d \in Calls : ~Writing(d)' /\ call'[d].rows = <<>>
  BY <1>1, <1>4 DEF Lists, Writing
<1>6. /\ revoked' \cup RevokingIds' \subseteq revoked \cup RevokingIds
      /\ Known' = Known
  BY <1>2, <1>3 DEF RevokingIds, RevokingBy, Known
<1>7. gone' = IF call[c].op = "clear" THEN wiped ELSE gone
  BY DEF Commit
<1>8. Lists'
  <2>1. Distinct(disk') /\ IdsOf(disk') \subseteq Known
    BY <1>1, <1>2 DEF Lists
  <2>2. gone' \subseteq wiped'
    BY <1>1, <1>2, <1>7 DEF Lists
  <2> QED
    BY <1>1, <1>2, <1>5, <1>6, <2>1, <2>2, EmptyList DEF Lists
<1>9. Private'
  <2>1. Secret(disk', revoked')
    BY <1>1, <1>2, <1>3 DEF Private
  <2>2. Secret(events', revoked' \cup RevokingIds')
    BY <1>1, <1>2, <1>6, SecretLess DEF Private
  <2> QED
    BY <1>2, <1>5, <2>1, <2>2, EmptyList DEF Private
<1>10. RowsApart'
  BY <1>5 DEF RowsApart, Writing
<1>11. DeletionOrder'
  <2>1. gone' # {} => seedOff
    BY <1>1, <1>7 DEF DeletionOrder
  <2> QED
    BY <1>1, <1>2, <1>4, <2>1 DEF DeletionOrder, Deleting, InFlight, Writing
<1>12. Removed'
  <2>1. InFlight(c)
    BY <1>2 DEF InFlight, Writing
  <2>2. gone' \cap IdsOf(events') = {} /\ gone' \cap IdsOf(disk') = {}
    BY <1>1, <1>2, <1>7, <2>1 DEF Removed
  <2>3. ASSUME NEW d \in Calls, call'[d].op = "clear"
        PROVE  wiped \cap IdsOf(events) = {}
    BY <1>1, <1>4, <2>3 DEF Removed
  <2> QED
    BY <1>2, <1>5, <2>2, <2>3, EmptyList DEF Removed, GoneStays
<1>13. Saved'
  <2> SUFFICES ASSUME ~usingFallback, ~\E d \in Calls : Pending(d)'
               PROVE  disk' = events /\ \A d \in Calls : call'[d].pc = "idle"
    BY <1>2 DEF Saved
  <2>1. ~\E d \in Calls : Pending(d)
    BY <1>2, <1>4 DEF Pending
  <2>2. call[c].rows = events
    BY <1>1, <1>2, <1>4, <2>1 DEF Saved, Copying, Writing
  <2>3. \A d \in Calls : call[d].pc \in {"idle", "writing", "committing"}
    BY <1>1, <2>1 DEF Pending, TypeOK, Call
  <2> QED
    BY <1>2, <1>4, <2>2, <2>3 DEF Writing
<1> QED
  BY <1>8, <1>9, <1>10, <1>11, <1>12, <1>13 DEF Strong

LEMMA FailsStrong ==
    ASSUME JInv, NEW c \in Calls, Fails(c), call[c].pc # "idle"
    PROVE  Strong'
<1>1. /\ IInv /\ Lists /\ RowsApart /\ Private /\ DeletionOrder /\ Removed /\ Saved /\ TypeOK
  BY DEF JInv, Strong, IInv
<1>2. /\ app # "down" /\ app' # "down" /\ usingFallback' = TRUE /\ revoking' \subseteq revoking
      /\ UNCHANGED <<events, disk, seedOff, used, stored, revoked, wiped, gone>>
  BY <1>1 DEF IInv, DownIsIdle, Fails, AfterCall, persistent
<1>3. /\ call'[c].pc \in {"idle", "deleted"} /\ call'[c].op = "none" /\ call'[c].rows = <<>>
      /\ call'[c].pc = "deleted" => Deleting(c)
      /\ \A d \in Calls : d # c => call'[d] = call[d]
  <2> DEFINE deleted == [Idle EXCEPT !.pc = "deleted"]
  <2>1. /\ deleted \in Call /\ deleted.pc = "deleted" /\ deleted.op = "none"
        /\ deleted.rows = <<>>
    BY IdsEmpty DEF Idle, Call
  <2>2. \/ call' = [call EXCEPT ![c] = Idle]
        \/ call' = [call EXCEPT ![c] = deleted] /\ call[c].pc \in {"unseeding", "deleting"}
    BY DEF Fails
  <2> HIDE DEF deleted
  <2>3. CASE call' = [call EXCEPT ![c] = Idle]
    BY <1>1, <2>3, CallSet, IdleType DEF TypeOK
  <2>4. CASE call' = [call EXCEPT ![c] = deleted] /\ call[c].pc \in {"unseeding", "deleting"}
    <3>1. Deleting(c)
      BY <2>4 DEF Deleting
    <3> QED
      BY <1>1, <2>1, <2>4, <3>1, CallSet DEF TypeOK
  <2> QED
    BY <2>2, <2>3, <2>4
<1>4. Lists' /\ RowsApart' /\ Private'
  <2>1. ASSUME NEW d \in Calls
        PROVE  call'[d].rows = <<>> \/ (call'[d] = call[d] /\ Writing(d)')
    BY <1>1, <1>3 DEF Lists, Writing
  <2>2. wiped' \subseteq Known
    BY <1>1, <1>2 DEF Lists
  <2> QED
    BY <1>1, <1>2, <2>1, <2>2, ListsQuiet
<1>5. DeletionOrder'
  <2>1. \A d \in Calls : Deleting(d)' => Deleting(d)
    BY <1>3 DEF Deleting
  <2>2. ASSUME NEW d \in Calls
        PROVE  /\ call'[d].pc \in {"unseeding", "deleting", "deleted"} => call'[d].op = "none"
               /\ call'[d].op = "clear" => InFlight(d)' /\ seedOff'
               /\ call'[d].pc = "deleting" => seedOff'
    BY <1>1, <1>2, <1>3 DEF DeletionOrder, InFlight, Writing
  <2> QED
    BY <1>1, <1>2, <2>1, <2>2 DEF DeletionOrder
<1>6. Removed'
  <2>1. \A d \in Calls : InFlight(d)' => InFlight(d)
    BY <1>3 DEF InFlight, Writing
  <2>2. ASSUME NEW d \in Calls
        PROVE  /\ gone \cap IdsOf(call'[d].rows) = {}
               /\ call'[d].op = "clear" => wiped \cap (IdsOf(call'[d].rows) \cup IdsOf(events)) = {}
    BY <1>1, <1>3, EmptyList DEF Removed
  <2> QED
    BY <1>1, <1>2, <2>1, <2>2 DEF Removed, GoneStays
<1>7. Saved'
  BY <1>2 DEF Saved
<1> QED
  BY <1>4, <1>5, <1>6, <1>7 DEF Strong

LEMMA BreaksElsewhereStrong ==
    ASSUME JInv, BreaksElsewhere
    PROVE  Strong'
<1>1. /\ IInv /\ Lists /\ RowsApart /\ Private /\ DeletionOrder /\ Removed /\ Saved
  BY DEF JInv, Strong
<1>2. /\ app # "down" /\ usingFallback' = TRUE
      /\ UNCHANGED <<app, events, disk, seedOff, call, used, revoking, revoked, wiped, gone>>
  BY DEF BreaksElsewhere, persistent
<1>3. Lists' /\ RowsApart' /\ Private'
  <2>1. wiped' \subseteq Known
    BY <1>1, <1>2 DEF Lists
  <2>2. ASSUME NEW d \in Calls
        PROVE  call'[d].rows = <<>> \/ (call'[d] = call[d] /\ Writing(d)')
    BY <1>1, <1>2 DEF Lists, Writing
  <2> QED
    BY <1>1, <1>2, <2>1, <2>2, ListsQuiet
<1>4. DeletionOrder' /\ Saved'
  BY <1>1, <1>2 DEF DeletionOrder, Deleting, InFlight, Writing, Saved
<1>5. Removed'
  BY <1>1, <1>2 DEF Removed, GoneStays, InFlight, Writing
<1> QED
  BY <1>3, <1>4, <1>5 DEF Strong

LEMMA BootStrong ==
    ASSUME JInv, Boot
    PROVE  Strong'
<1>1. /\ IInv /\ Lists /\ RowsApart /\ Private /\ DeletionOrder /\ Removed /\ Saved /\ TypeOK
  BY DEF JInv, Strong, IInv
<1>2. /\ app = "down" /\ ~usingFallback /\ revoking = {}
      /\ \A c \in Calls : call[c].pc = "idle" /\ call[c].op = "none" /\ call[c].rows = <<>>
      /\ UNCHANGED <<disk, seedOff, usingFallback, used, stored, revoking, revoked, wiped, gone, broken>>
  BY <1>1 DEF IInv, DownIsIdle, Fresh, Boot, persistent, history, Private, Lists, Writing
<1>3. /\ \A d \in Calls : /\ call'[d].pc \in {"idle", "queued"} /\ call'[d].op \in {"none", "seed"}
                          /\ call'[d].rows = <<>>
      /\ \/ app' = "seeding" /\ \E d \in Calls : call'[d].pc = "queued"
         \/ app' = "up" /\ disk = events' /\ \A d \in Calls : call'[d].pc = "idle"
  <2>1. CASE ~(disk = <<>> /\ events' # <<>>)
    <3>1. call' = call /\ app' = "up" /\ disk = events'
      BY <2>1 DEF Boot
    <3> QED
      BY <1>2, <3>1
  <2>2. CASE disk = <<>> /\ events' # <<>>
    <3> DEFINE new == [Idle EXCEPT !.pc = "queued", !.op = "seed"]
    <3>1. new \in Call /\ new.pc = "queued" /\ new.op = "seed" /\ new.rows = <<>>
      BY IdsEmpty DEF Idle, Call
    <3>2. PICK c \in Calls : call' = [call EXCEPT ![c] = new] /\ app' = "seeding"
      BY <2>2 DEF Boot
    <3> HIDE DEF new
    <3>3. call'[c] = new /\ \A d \in Calls : d # c => call'[d] = call[d]
      BY <1>1, <3>1, <3>2, CallSet DEF TypeOK
    <3> QED
      BY <1>2, <3>1, <3>2, <3>3
  <2> QED
    BY <2>1, <2>2
<1>4. \/ events' \in {disk, <<>>}
      \/ events' = SeedEvents /\ ~seedOff
  BY DEF Boot
<1>5. Lists' /\ RowsApart' /\ Private'
  <2>1. wiped' \subseteq Known
    BY <1>1, <1>2 DEF Lists
  <2>2. \A d \in Calls : ~Writing(d)'
    BY <1>3 DEF Writing
  <2> QED
    BY <1>2, <1>3, <1>4, <2>1, <2>2, ListsQuiet
<1>6. DeletionOrder'
  BY <1>1, <1>2, <1>3 DEF DeletionOrder, Deleting
<1>7. Removed'
  <2>1. gone \cap IdsOf(events') = {}
    BY <1>1, <1>4, EmptyList DEF DeletionOrder, Removed, GoneStays
  <2> QED
    BY <1>1, <1>2, <1>3, <2>1, EmptyList DEF Removed, GoneStays
<1>8. Saved'
  BY <1>2, <1>3 DEF Saved, Pending
<1> QED
  BY <1>5, <1>6, <1>7, <1>8 DEF Strong

LEMMA BootBrokenStrong ==
    ASSUME JInv, BootBroken
    PROVE  Strong'
<1>1. /\ IInv /\ Lists /\ RowsApart /\ Private /\ DeletionOrder /\ Removed /\ Saved
  BY DEF JInv, Strong
<1>2. /\ app = "down" /\ app' = "up" /\ usingFallback' = TRUE /\ revoking = {}
      /\ \A c \in Calls : call[c].pc = "idle" /\ call[c].op = "none" /\ call[c].rows = <<>>
      /\ events' \in {SeedEvents, disk}
      /\ UNCHANGED <<disk, seedOff, call, used, revoking, revoked, wiped, gone>>
  BY <1>1 DEF IInv, DownIsIdle, Fresh, BootBroken, persistent, Private, Lists, Writing
<1>3. Lists' /\ RowsApart' /\ Private'
  <2>1. wiped' \subseteq Known
    BY <1>1, <1>2 DEF Lists
  <2>2. \A d \in Calls : ~Writing(d)' /\ call'[d].rows = <<>>
    BY <1>2 DEF Writing
  <2> QED
    BY <1>2, <2>1, <2>2, ListsQuiet
<1>4. DeletionOrder' /\ Saved'
  BY <1>1, <1>2 DEF DeletionOrder, Deleting, Saved
<1>5. Removed'
  BY <1>1, <1>2, EmptyList DEF Removed, GoneStays, InFlight, Writing
<1> QED
  BY <1>3, <1>4, <1>5 DEF Strong

LEMMA StopStrong ==
    ASSUME JInv, Stop
    PROVE  Strong'
<1>1. /\ IInv /\ Lists /\ RowsApart /\ Private /\ DeletionOrder /\ Removed /\ Saved
  BY DEF JInv, Strong
<1>2. /\ app' = "down" /\ events' = <<>> /\ call' = [c \in Calls |-> Idle] /\ revoking' = {}
      /\ UNCHANGED <<disk, seedOff, used, revoked, wiped, gone>>
  BY DEF Stop, persistent
<1>3. \A c \in Calls : call'[c].pc = "idle" /\ call'[c].op = "none" /\ call'[c].rows = <<>>
  BY <1>2, IdleType
<1>4. Lists' /\ RowsApart' /\ Private'
  <2>1. wiped' \subseteq Known
    BY <1>1, <1>2 DEF Lists
  <2> QED
    BY <1>2, <1>3, <2>1, ListsQuiet
<1>5. DeletionOrder' /\ Saved'
  BY <1>1, <1>2, <1>3 DEF DeletionOrder, Deleting, Saved
<1>6. Removed'
  BY <1>1, <1>2, <1>3, EmptyList DEF Removed, GoneStays, InFlight, Writing
<1> QED
  BY <1>4, <1>5, <1>6 DEF Strong

LEMMA StutterStrong ==
    ASSUME JInv, UNCHANGED vars
    PROVE  Strong'
<1>1. /\ Lists /\ RowsApart /\ Private /\ DeletionOrder /\ Removed /\ Saved
  BY DEF JInv, Strong
<1>2. UNCHANGED <<app, events, disk, seedOff, usingFallback, call,
                  used, stored, revoking, revoked, wiped, gone, broken>>
  BY DEF vars, persistent, history
<1>3. Lists' /\ RowsApart' /\ Private'
  <2>1. wiped' \subseteq Known
    BY <1>1, <1>2 DEF Lists
  <2>2. ASSUME NEW d \in Calls
        PROVE  call'[d].rows = <<>> \/ (call'[d] = call[d] /\ Writing(d)')
    BY <1>1, <1>2 DEF Lists, Writing
  <2>3. app' = "down" => revoking' = {}
    BY <1>1, <1>2 DEF Private
  <2> QED
    BY <1>2, <2>1, <2>2, <2>3, ListsQuiet
<1>4. DeletionOrder' /\ Removed'
  BY <1>1, <1>2 DEF DeletionOrder, Deleting, Removed, GoneStays, InFlight, Writing
<1>5. Saved'
  BY <1>1, <1>2 DEF Saved, Pending, Copying
<1> QED
  BY <1>3, <1>4, <1>5 DEF Strong

LEMMA InitJInv == Init => JInv
<1> SUFFICES ASSUME Init PROVE Strong
  BY InitIInv DEF JInv
<1>1. /\ app = "down" /\ events = <<>> /\ disk = <<>>
      /\ revoking = {} /\ revoked = {} /\ wiped = {} /\ gone = {}
  BY DEF Init
<1>2. \A c \in Calls : call[c].pc = "idle" /\ call[c].op = "none" /\ call[c].rows = <<>>
  BY IdleType DEF Init
<1>3. Lists /\ Private
  BY <1>1, <1>2, EmptyList DEF Lists, Private, RevokingIds, RevokingBy
<1>4. RowsApart /\ DeletionOrder /\ Saved
  BY <1>1, <1>2 DEF RowsApart, DeletionOrder, Deleting, Saved
<1>5. Removed
  BY <1>1, <1>2, EmptyList DEF Removed, GoneStays
<1> QED
  BY <1>3, <1>4, <1>5 DEF Strong

LEMMA NextJInv == JInv /\ [Next]_vars => JInv'
<1> SUFFICES ASSUME JInv, [Next]_vars PROVE Strong'
  BY NextIInv DEF JInv
<1>1. ASSUME NEW c \in Calls, Change(c) PROVE Strong'
  BY <1>1, RecordStrong, UpdatePrivacyStrong, DeletionBeginsStrong DEF Change
<1>2. ASSUME NEW c \in Calls, Conflict(c) \/ Breaks(c) PROVE Strong'
  <2>1. Fails(c) /\ call[c].pc # "idle"
    BY <1>2 DEF Conflict, Breaks
  <2> QED
    BY <2>1, FailsStrong
<1>3. ASSUME NEW c \in Calls, Progress(c) PROVE Strong'
  BY <1>2, <1>3, DeletionBeginsStrong, DeleteRowsStrong, ClearStrong, BeginStrong, InsertStrong,
     LoopEndsStrong, CommitStrong DEF Progress
<1> QED
  BY <1>1, <1>3, BreaksElsewhereStrong, BootStrong, BootBrokenStrong, StopStrong, StutterStrong DEF Next

LEMMA StrongInductive == Spec => []JInv
BY InitJInv, NextJInv, PTL DEF Spec

-----------------------------------------------------------------------------
\* Once updateEventPrivacy returned from SQLite with local_only the event stays
\* local_only there, for any number of saves that began before and after the
\* change: a row is read from the live list when it is inserted, and a save that
\* could bring the old level back is never the last one (updateEventPrivacy,
\* replaceAll, saveLifeEvents).
THEOREM RevocationHolds == Spec => []RevokedStays
<1>1. JInv => RevokedStays
  BY DEF JInv, Strong, Private, Secret, RevokedStays
<1> QED
  BY <1>1, StrongInductive, PTL

\* Once deleteAllLocalData returned from SQLite, no event there was comes back to
\* SQLite: not through a save that was under way, not at a restart, not with the
\* demo events (deleteAllLocalData, replaceAll, demo_seed_enabled).
THEOREM DeletionHolds == Spec => []GoneStays
<1>1. JInv => GoneStays
  BY DEF JInv, Strong, Removed
<1> QED
  BY <1>1, StrongInductive, PTL

\* With no change under way SQLite holds the list in memory exactly, after any
\* overlapping changes, although each save copies a list that others change
\* (saveLifeEvents, _run).
THEOREM QuietIsSaved == Spec => []SettledIsSaved
<1>1. JInv => SettledIsSaved
  BY DEF JInv, Strong, Saved, Copying, Pending, SettledIsSaved
<1> QED
  BY <1>1, StrongInductive, PTL
=============================================================================
