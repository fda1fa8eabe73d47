------------------------- MODULE GatewayRoutingProofs -------------------------
(***************************************************************************)
(* Proofs about the key registry and about the gateway as its client, for  *)
(* any keys, telemetry, requests and releases.                             *)
(*                                                                         *)
(* First KeyRegistry alone: the invariants of the run MCKeyRegistry are    *)
(* proved from IInv, which adds where the rows of openrouter_key_events    *)
(* come from and what the handler in progress has committed so far.        *)
(*                                                                         *)
(* Then GatewayRouting: the registry keeps its invariants with the gateway *)
(* as its client, every config in use is one the registry published,       *)
(* failover asks the keys in order and tells its outcome truly, and the    *)
(* health of a key, its failure counter included, was earned at the        *)
(* provider.                                                               *)
(***************************************************************************)
EXTENDS GatewayRouting, WellFoundedInduction, FiniteSetTheorems, TLAPS


\* Every event row is a payload the endpoint can receive or carries the uuid of
\* an admin write.
EventsGenuine ==
    \A r \in keyEvents : r \in Telemetry \/ \E w \in 1..writes : r.id = AdminEventId(w)

\* The event of the write in progress exists exactly when its step has passed.
EventOf(w, k, type) == [id |-> AdminEventId(w), key |-> k, type |-> type]

EventPending ==
    \/ handler.op \in {"disable", "create"} /\ handler.step = "event"
    \/ handler.op = "create" /\ handler.step = "snapshots"

EventWhenDue ==
    /\ EventPending => \A r \in keyEvents : r.id # AdminEventId(writes)
    /\ handler.op = "disable" /\ handler.step # "event" =>
           EventOf(writes, handler.key, "disabled") \in keyEvents
    /\ handler.op = "create" /\ handler.step = "audit" =>
           EventOf(writes, handler.key, "created") \in keyEvents

\* The steps a handler can be at, and the record it will answer and audit with.
HandlerConsistent ==
    /\ handler.op = "patch" => handler.step \in {"snapshots", "audit"}
    /\ handler.op = "telemetry" => handler.step = "snapshots"
    /\ handler.op \in AdminOp =>
           /\ handler.key \in registered
           /\ handler.result = Shown(keys[handler.key])
    /\ handler.op = "disable" => handler.result.enabled = 0 /\ handler.result.status = "disabled"

IInv ==
    /\ TypeOK
    /\ EventsGenuine
    /\ EventWhenDue
    /\ HandlerConsistent
    /\ HealthWitnessed
    /\ TrailAccounted
    /\ AuditBackedByEvent

-----------------------------------------------------------------------------
\* Upserting a payload whose id is new, or whose row is already there, only adds
\* the payload: no row is rewritten (record_openrouter_key_event's ON CONFLICT).
LEMMA UpsertAdds ==
    ASSUME NEW rows, NEW I, NEW m \in [id : I, key : Keys, type : EventType],
           \A r \in rows : r.id = m.id => r = m
    PROVE  UpsertEvent(rows, m) = rows \cup {m}
<1>1. CASE \E r \in rows : r.id = m.id
  <2>1. (CHOOSE r \in rows : r.id = m.id) = m
    BY <1>1
  <2>2. [m EXCEPT !.type = m.type] = m
    OBVIOUS
  <2>3. UpsertEvent(rows, m) = {r \in rows : r.id # m.id} \cup {m}
    BY <1>1, <2>1, <2>2 DEF UpsertEvent
  <2> QED
    BY <2>3
<1>2. CASE ~ \E r \in rows : r.id = m.id
  <2>1. {r \in rows : r.id # m.id} = rows
    BY <1>2
  <2> QED
    BY <1>2, <2>1 DEF UpsertEvent
<1> QED
  BY <1>1, <1>2

\* The row an event leaves is a row, and its counter moves as its status says.
LEMMA RowAfterEventType ==
    ASSUME NEW row \in KeyRow, NEW type \in EventType
    PROVE  /\ RowAfterEvent(row, type) \in KeyRow
           /\ type = "success" => /\ RowAfterEvent(row, type).status = "healthy"
                                  /\ RowAfterEvent(row, type).failures = 0
                                  /\ RowAfterEvent(row, type).enabled = row.enabled
           /\ type = "failure" => /\ RowAfterEvent(row, type).status = "degraded"
                                  /\ RowAfterEvent(row, type).failures = row.failures + 1
                                  /\ RowAfterEvent(row, type).enabled = row.enabled
           /\ type = "disabled" => /\ RowAfterEvent(row, type).status = "disabled"
                                   /\ RowAfterEvent(row, type).failures = row.failures
                                   /\ RowAfterEvent(row, type).enabled = 0
           /\ type = "enabled" => /\ RowAfterEvent(row, type).status = "unknown"
                                  /\ RowAfterEvent(row, type).failures = row.failures
                                  /\ RowAfterEvent(row, type).enabled = 1
           /\ type = "created" => RowAfterEvent(row, type) = row
<1>1. CASE type = "success"
  <2> DEFINE r == [row EXCEPT !.status = "healthy", !.failures = 0]
  <2>1. RowAfterEvent(row, type) = r
    BY <1>1 DEF RowAfterEvent
  <2>2. r \in KeyRow /\ r.status = "healthy" /\ r.failures = 0 /\ r.enabled = row.enabled
    BY DEF KeyRow, Flag, Status
  <2> QED
    BY <1>1, <2>1, <2>2
<1>2. CASE type = "failure"
  <2>1. PICK n \in Nat : n = row.failures + 1
    BY DEF KeyRow
  <2> DEFINE r == [row EXCEPT !.status = "degraded", !.failures = n]
  <2>2. RowAfterEvent(row, type) = r
    BY <1>2, <2>1 DEF RowAfterEvent
  <2>3. r \in KeyRow /\ r.status = "degraded" /\ r.failures = n /\ r.enabled = row.enabled
    BY DEF KeyRow, Flag, Status
  <2> QED
    BY <1>2, <2>1, <2>2, <2>3
<1>3. CASE type = "disabled"
  <2> DEFINE r == [row EXCEPT !.enabled = 0, !.status = "disabled"]
  <2>1. RowAfterEvent(row, type) = r
    BY <1>3 DEF RowAfterEvent
  <2>2. r \in KeyRow /\ r.status = "disabled" /\ r.failures = row.failures /\ r.enabled = 0
    BY DEF KeyRow, Flag, Status
  <2> QED
    BY <1>3, <2>1, <2>2
<1>4. CASE type = "enabled"
  <2> DEFINE r == [row EXCEPT !.enabled = 1, !.status = "unknown"]
  <2>1. RowAfterEvent(row, type) = r
    BY <1>4 DEF RowAfterEvent
  <2>2. r \in KeyRow /\ r.status = "unknown" /\ r.failures = row.failures /\ r.enabled = 1
    BY DEF KeyRow, Flag, Status
  <2> QED
    BY <1>4, <2>1, <2>2
<1>5. CASE type = "created"
  BY <1>5 DEF RowAfterEvent
<1> QED
  BY <1>1, <1>2, <1>3, <1>4, <1>5 DEF EventType

\* Recording an event keeps the health of every key witnessed by its events.
LEMMA RecordEventStep ==
    ASSUME TypeOK, HealthWitnessed, NEW m \in EventRow,
           \A r \in keyEvents : r.id = m.id => r = m,
           RecordEvent(m), registered' = registered
    PROVE  /\ keyEvents' = keyEvents \cup {m}
           /\ keys' \in [Keys -> KeyRow]
           /\ keys'[m.key] = IF m.key \in registered
                             THEN RowAfterEvent(keys[m.key], m.type) ELSE keys[m.key]
           /\ \A k \in Keys : k # m.key => keys'[k] = keys[k]
           /\ HealthWitnessed'
<1>1. keyEvents' = keyEvents \cup {m}
  BY UpsertAdds DEF RecordEvent, EventRow
<1>2. m.key \in Keys /\ m.type \in EventType
  BY DEF EventRow
<1>3. keys[m.key] \in KeyRow
  BY <1>2 DEF TypeOK
<1> DEFINE after == RowAfterEvent(keys[m.key], m.type)
<1>4. after \in KeyRow
  BY <1>2, <1>3, RowAfterEventType
<1>5. keys' = IF m.key \in registered THEN [keys EXCEPT ![m.key] = after] ELSE keys
  BY DEF RecordEvent
<1>6. keys' \in [Keys -> KeyRow]
  <2> HIDE DEF after
  <2> QED
    BY <1>2, <1>4, <1>5 DEF TypeOK
<1>7. keys'[m.key] = IF m.key \in registered THEN after ELSE keys[m.key]
  BY <1>2, <1>5 DEF TypeOK
<1>8. \A k \in Keys : k # m.key => keys'[k] = keys[k]
  BY <1>2, <1>5 DEF TypeOK
<1>9. HealthWitnessed'
  <2> SUFFICES ASSUME NEW k \in registered
               PROVE  /\ keys'[k].status = "healthy" =>
                             keys'[k].failures = 0 /\ HasEvent(k, "success")'
                      /\ keys'[k].status = "degraded" => keys'[k].failures > 0
                      /\ keys'[k].failures > 0 => HasEvent(k, "failure")'
    BY DEF HealthWitnessed
  <2>1. k \in Keys
    BY DEF TypeOK
  <2>2. \A t : HasEvent(k, t) => HasEvent(k, t)'
    BY <1>1 DEF HasEvent
  <2>3. CASE k # m.key
    BY <1>8, <2>1, <2>2, <2>3 DEF HealthWitnessed
  <2>4. CASE k = m.key
    <3>1. keys'[k] = after /\ HasEvent(k, m.type)'
      BY <1>1, <1>7, <2>4 DEF HasEvent
    <3>2. /\ keys[k].status = "healthy" => keys[k].failures = 0 /\ HasEvent(k, "success")
          /\ keys[k].status = "degraded" => keys[k].failures > 0
          /\ keys[k].failures > 0 => HasEvent(k, "failure")
      BY DEF HealthWitnessed
    <3>3. keys[k].failures \in Nat
      BY <1>3, <2>4 DEF KeyRow
    <3> HIDE DEF after
    <3>4. CASE m.type = "success"
      <4>1. after.status = "healthy" /\ after.failures = 0
        BY <1>2, <1>3, <3>4, RowAfterEventType DEF after
      <4> QED
        BY <3>1, <3>4, <4>1
    <3>5. CASE m.type = "failure"
      <4>1. after.status = "degraded" /\ after.failures = keys[k].failures + 1
        BY <1>2, <1>3, <2>4, <3>5, RowAfterEventType DEF after
      <4> QED
        BY <3>1, <3>3, <3>5, <4>1
    <3>6. CASE m.type \in {"disabled", "enabled"}
      <4>1. after.status \in {"disabled", "unknown"} /\ after.failures = keys[k].failures
        BY <1>2, <1>3, <2>4, <3>6, RowAfterEventType DEF after
      <4> QED
        BY <2>2, <3>1, <3>2, <4>1
    <3>7. CASE m.type = "created"
      <4>1. after = keys[k]
        BY <1>2, <1>3, <2>4, <3>7, RowAfterEventType DEF after
      <4> QED
        BY <2>2, <3>1, <3>2, <4>1
    <3> QED
      BY <1>2, <3>4, <3>5, <3>6, <3>7 DEF EventType
  <2> QED
    BY <2>3, <2>4
<1> QED
  BY <1>1, <1>6, <1>7, <1>8, <1>9

-----------------------------------------------------------------------------
LEMMA InitIInv == Init => IInv
<1> SUFFICES ASSUME Init PROVE IInv
  OBVIOUS
<1> USE RegistryAssumption
<1>1. PICK s \in Secrets : keys = [k \in Keys |-> NewRow(0, s)]
  BY DEF Init
<1>2. NewRow(0, s) \in KeyRow
  BY DEF NewRow, KeyRow, Flag, Status
<1>3. TypeOK
  BY <1>1, <1>2 DEF Init, TypeOK, IdleHandler, AdminOp
<1>4. handler.op = "none"
  BY DEF Init, IdleHandler
<1>5. EventsGenuine /\ EventWhenDue /\ HandlerConsistent
  BY <1>4 DEF Init, EventsGenuine, EventWhenDue, EventPending, HandlerConsistent, AdminOp
<1>6. HealthWitnessed /\ AuditBackedByEvent
  BY DEF Init, HealthWitnessed, AuditBackedByEvent
<1>7. TrailAccounted
  BY <1>4 DEF Init, TrailAccounted, AuditedWrites, InProgress, AdminOp
<1> QED
  BY <1>3, <1>5, <1>6, <1>7 DEF IInv

-----------------------------------------------------------------------------
\* The uuid of the next admin write is not in the table.
LEMMA FreshAdminId ==
    ASSUME IInv, writes < MaxWrites
    PROVE  \A r \in keyEvents : r.id # AdminEventId(writes + 1)
<1>1. writes \in Nat /\ writes + 1 \in 1..MaxWrites
  BY RegistryAssumption DEF IInv, TypeOK
<1> SUFFICES ASSUME NEW r \in keyEvents PROVE r.id # AdminEventId(writes + 1)
  OBVIOUS
<1>2. CASE r \in Telemetry
  BY <1>1, <1>2, RegistryAssumption
<1>3. CASE \E w \in 1..writes : r.id = AdminEventId(w)
  BY <1>1, <1>3 DEF AdminEventId
<1> QED
  BY <1>2, <1>3 DEF IInv, EventsGenuine

\* The first commit of an admin handler opens a write that is in progress.
LEMMA BeginWrite ==
    ASSUME TypeOK, TrailAccounted, Idle, writes' = writes + 1,
           audit' = audit, lost' = lost, handler'.op \in AdminOp
    PROVE  TrailAccounted'
<1>1. InProgress = {} /\ InProgress' = {writes + 1}
  BY DEF InProgress, Idle, IdleHandler, AdminOp
<1>2. AuditedWrites' = AuditedWrites
  BY DEF AuditedWrites
<1>3. writes \in Nat /\ 1..(writes + 1) = (1..writes) \cup {writes + 1}
        /\ writes + 1 \notin 1..writes
  BY RegistryAssumption DEF TypeOK
<1> QED
  BY <1>1, <1>2, <1>3 DEF TrailAccounted

\* A handler that stops, or goes on, without writing leaves the trail as it was.
LEMMA SameWrite ==
    ASSUME TrailAccounted, writes' = writes, audit' = audit, lost' = lost,
           handler'.op \in AdminOp <=> handler.op \in AdminOp
    PROVE  TrailAccounted'
  BY DEF TrailAccounted, AuditedWrites, InProgress

LEMMA CreateKeyIInv ==
    ASSUME IInv, NEW k \in Keys, NEW en \in Flag, NEW s \in Secrets, CreateKey(k, en, s)
    PROVE  IInv'
<1> DEFINE row == NewRow(en, s)
<1>1. row \in KeyRow /\ row.status \in {"unknown", "disabled"} /\ row.failures = 0
  BY DEF NewRow, KeyRow, Flag, Status
<1> HIDE DEF row
<1>2. /\ Idle /\ writes < MaxWrites
      /\ registered' = registered \cup {k} /\ keys' = [keys EXCEPT ![k] = row]
      /\ writes' = writes + 1 /\ UNCHANGED <<keyEvents, audit, lost, aborts>>
      /\ handler' = [op |-> "create", key |-> k, step |-> "snapshots", result |-> Shown(row)]
  BY DEF CreateKey, Begin, row
<1>3. keys'[k] = row /\ \A j \in Keys : j # k => keys'[j] = keys[j]
  BY <1>2 DEF IInv, TypeOK
<1>4. Shown(row) \in [enabled : Flag, status : Status]
  BY <1>1 DEF Shown, KeyRow
<1>5. handler' \in Running
  BY <1>2, <1>4 DEF Running, AdminOp, Step
<1>6. TypeOK'
  BY <1>1, <1>2, <1>5, RegistryAssumption DEF IInv, TypeOK
<1>7. EventsGenuine'
  BY <1>2, RegistryAssumption DEF IInv, TypeOK, EventsGenuine
<1>8. EventWhenDue'
  BY <1>2, FreshAdminId DEF EventWhenDue, EventPending
<1>9. HandlerConsistent'
  BY <1>2, <1>3 DEF HandlerConsistent
<1>10. HealthWitnessed'
  BY <1>1, <1>2, <1>3 DEF IInv, TypeOK, HealthWitnessed, HasEvent
<1>11. TrailAccounted'
  BY <1>2, BeginWrite DEF IInv, AdminOp
<1>12. AuditBackedByEvent'
  BY <1>2 DEF IInv, AuditBackedByEvent
<1> QED
  BY <1>6, <1>7, <1>8, <1>9, <1>10, <1>11, <1>12 DEF IInv

\* A patched row is a row; a patch keeps the counter and sets or keeps the status.
LEMMA PatchedRowType ==
    ASSUME NEW row \in KeyRow, NEW en \in Flag, NEW s \in Secrets
    PROVE  /\ PatchedRow(row, en, s) \in KeyRow
           /\ PatchedRow(row, en, s).failures = row.failures
           /\ PatchedRow(row, en, s).status \in {row.status, "disabled"}
           /\ en = 0 => PatchedRow(row, en, s).status = "disabled"
           /\ PatchedRow(row, en, s).enabled = en
<1>1. PICK st \in {row.status, "disabled"} :
            st = IF en = 1 THEN row.status ELSE "disabled"
  OBVIOUS
<1>2. st \in Status /\ (en = 0 => st = "disabled")
  BY <1>1 DEF KeyRow, Status
<1> DEFINE r == [row EXCEPT !.enabled = en, !.status = st, !.secret = s]
<1>3. PatchedRow(row, en, s) = r
  BY <1>1 DEF PatchedRow
<1>4. r \in KeyRow /\ r.failures = row.failures /\ r.status = st /\ r.enabled = en
  BY <1>2 DEF KeyRow
<1> QED
  BY <1>1, <1>2, <1>3, <1>4

LEMMA UpdateRowIInv ==
    ASSUME IInv, NEW k \in Keys, NEW en \in Flag, NEW s \in Secrets,
           NEW op, NEW step, UpdateRow(op, k, en, s, step),
           \/ op = "patch" /\ step = "snapshots"
           \/ op = "disable" /\ step = "event" /\ en = 0
    PROVE  IInv'
<1>1. keys[k] \in KeyRow
  BY DEF IInv, TypeOK
<1> DEFINE row == PatchedRow(keys[k], en, s)
<1>2. /\ row \in KeyRow /\ row.failures = keys[k].failures
      /\ row.status \in {keys[k].status, "disabled"}
      /\ en = 0 => row.status = "disabled"
      /\ row.enabled = en
  BY <1>1, PatchedRowType
<1> HIDE DEF row
<1>3. /\ Idle /\ writes < MaxWrites /\ k \in registered
      /\ keys' = [keys EXCEPT ![k] = row]
      /\ writes' = writes + 1 /\ UNCHANGED <<registered, keyEvents, audit, lost, aborts>>
      /\ handler' = [op |-> op, key |-> k, step |-> step, result |-> Shown(row)]
  BY DEF UpdateRow, Begin, row
<1>4. keys'[k] = row /\ \A j \in Keys : j # k => keys'[j] = keys[j]
  BY <1>3 DEF IInv, TypeOK
<1>5. /\ Shown(row) \in [enabled : Flag, status : Status]
      /\ Shown(row).enabled = row.enabled /\ Shown(row).status = row.status
  BY <1>2 DEF Shown, KeyRow
<1>6. handler' \in Running
  BY <1>3, <1>5 DEF Running, AdminOp, Step
<1>7. TypeOK'
  BY <1>2, <1>3, <1>6, RegistryAssumption DEF IInv, TypeOK
<1>8. EventsGenuine'
  BY <1>3, RegistryAssumption DEF IInv, TypeOK, EventsGenuine
<1>9. EventWhenDue'
  BY <1>3, FreshAdminId DEF EventWhenDue, EventPending
<1>10. HandlerConsistent'
  BY <1>2, <1>3, <1>4, <1>5 DEF HandlerConsistent
<1>11. HealthWitnessed'
  BY <1>2, <1>3, <1>4 DEF IInv, TypeOK, HealthWitnessed, HasEvent
<1>12. TrailAccounted'
  BY <1>3, BeginWrite DEF IInv, AdminOp
<1>13. AuditBackedByEvent'
  BY <1>3 DEF IInv, AuditBackedByEvent
<1> QED
  BY <1>7, <1>8, <1>9, <1>10, <1>11, <1>12, <1>13 DEF IInv

LEMMA ReceiveTelemetryIInv ==
    ASSUME IInv, NEW m \in Telemetry, ReceiveTelemetry(m)
    PROVE  IInv'
<1>1. m \in EventRow
  BY RegistryAssumption DEF EventRow, EventId
<1>2. \A r \in keyEvents : r.id = m.id => r = m
  <2>1. 1..writes \subseteq 1..MaxWrites
    BY RegistryAssumption DEF IInv, TypeOK
  <2> QED
    BY <2>1, RegistryAssumption DEF IInv, EventsGenuine
<1>3. /\ Idle /\ RecordEvent(m)
      /\ UNCHANGED <<registered, audit, writes, lost, aborts>>
      /\ handler' = [op |-> "telemetry", key |-> m.key, step |-> "snapshots",
                     result |-> Shown(keys[m.key])]
  BY DEF ReceiveTelemetry, Begin
<1>4. m.key \in Keys /\ keys[m.key] \in KeyRow
  BY <1>1 DEF IInv, TypeOK, EventRow
<1>5. Shown(keys[m.key]) \in [enabled : Flag, status : Status]
  BY <1>4 DEF Shown, KeyRow
<1>6. /\ keyEvents' = keyEvents \cup {m} /\ keys' \in [Keys -> KeyRow] /\ HealthWitnessed'
  BY <1>1, <1>2, <1>3, RecordEventStep DEF IInv
<1>7. handler' \in Running
  BY <1>3, <1>4, <1>5 DEF Running, Step
<1>8. TypeOK'
  BY <1>1, <1>3, <1>6, <1>7 DEF IInv, TypeOK, AdminOp
<1>9. EventsGenuine'
  BY <1>3, <1>6 DEF IInv, EventsGenuine
<1>10. EventWhenDue' /\ HandlerConsistent'
  BY <1>3 DEF EventWhenDue, EventPending, HandlerConsistent, AdminOp
<1>11. TrailAccounted'
  BY <1>3, SameWrite DEF IInv, AdminOp, Idle, IdleHandler
<1>12. AuditBackedByEvent'
  BY <1>3, <1>6 DEF IInv, AuditBackedByEvent
<1> QED
  BY <1>6, <1>8, <1>9, <1>10, <1>11, <1>12 DEF IInv

\* What is known of a handler that still has a commit to make.
LEMMA RunningHandler ==
    ASSUME IInv, ~Idle
    PROVE  /\ handler \in Running /\ writes \in 0..MaxWrites
           /\ handler.key \in Keys /\ keys[handler.key] \in KeyRow
           /\ handler.op \in AdminOp =>
                  writes \in 1..MaxWrites /\ writes \in 1..writes
  BY RegistryAssumption DEF IInv, TypeOK, Idle, Running

LEMMA RecordAdminEventIInv ==
    ASSUME IInv, RecordAdminEvent
    PROVE  IInv'
<1>1. ~Idle /\ handler.step = "event" /\ handler.op \in {"create", "disable"}
  BY DEF RecordAdminEvent, Idle, IdleHandler, IInv, HandlerConsistent, TypeOK, Running, AdminOp
<1>2. /\ handler \in Running /\ handler.key \in Keys /\ keys[handler.key] \in KeyRow
      /\ writes \in 1..MaxWrites /\ writes \in 1..writes
  BY <1>1, RunningHandler DEF AdminOp
<1> DEFINE type == IF handler.op = "create" THEN "created" ELSE "disabled"
           m == EventOf(writes, handler.key, type)
<1>3. m \in EventRow /\ m.id = AdminEventId(writes) /\ m.key = handler.key /\ m.type = type
  BY <1>2 DEF EventOf, EventRow, EventId, EventType
<1>4. RecordEvent(m) /\ UNCHANGED <<registered, audit, writes, lost, aborts>>
  BY DEF RecordAdminEvent, EventOf
<1>5. handler' = [handler EXCEPT !.step = IF handler.op = "create" THEN "audit"
                                          ELSE "snapshots"]
  BY <1>1 DEF RecordAdminEvent, Advance, NextStep
<1>6. \A r \in keyEvents : r.id # m.id
  BY <1>1, <1>3 DEF IInv, EventWhenDue, EventPending
<1> HIDE DEF m
<1>7. /\ keyEvents' = keyEvents \cup {m} /\ keys' \in [Keys -> KeyRow] /\ HealthWitnessed'
      /\ keys'[handler.key] = IF handler.key \in registered
                              THEN RowAfterEvent(keys[handler.key], type)
                              ELSE keys[handler.key]
  BY <1>3, <1>4, <1>6, RecordEventStep DEF IInv
<1>8. handler' \in Running /\ handler'.op = handler.op /\ handler'.key = handler.key
        /\ handler'.result = handler.result
        /\ handler'.step = IF handler.op = "create" THEN "audit" ELSE "snapshots"
  BY <1>2, <1>5 DEF Running, Step
<1>9. TypeOK'
  BY <1>2, <1>3, <1>4, <1>7, <1>8 DEF IInv, TypeOK
<1>10. EventsGenuine'
  BY <1>2, <1>3, <1>4, <1>7 DEF IInv, EventsGenuine
<1>11. EventWhenDue'
  BY <1>1, <1>4, <1>7, <1>8 DEF EventWhenDue, EventPending, m
<1>12. HandlerConsistent'
  <2>1. /\ handler.key \in registered /\ handler.result = Shown(keys[handler.key])
        /\ handler.op = "disable" => handler.result.enabled = 0
                                      /\ handler.result.status = "disabled"
    BY <1>1 DEF IInv, HandlerConsistent, AdminOp
  <2>2. Shown(keys'[handler.key]) = handler.result
    <3>1. CASE handler.op = "create"
      BY <1>2, <1>7, <2>1, <3>1, RowAfterEventType DEF EventType
    <3>2. CASE handler.op = "disable"
      <4>1. keys'[handler.key].enabled = 0 /\ keys'[handler.key].status = "disabled"
        BY <1>2, <1>7, <2>1, <3>2, RowAfterEventType DEF EventType
      <4>2. handler.result = [enabled |-> 0, status |-> "disabled"]
        BY <1>2, <2>1, <3>2 DEF Running
      <4> QED
        BY <4>1, <4>2 DEF Shown
    <3> QED
      BY <1>1, <3>1, <3>2
  <2> QED
    BY <1>1, <1>4, <1>8, <2>1, <2>2 DEF HandlerConsistent
<1>13. TrailAccounted'
  BY <1>4, <1>8, SameWrite DEF IInv
<1>14. AuditBackedByEvent'
  BY <1>4, <1>7 DEF IInv, AuditBackedByEvent
<1> QED
  BY <1>7, <1>9, <1>10, <1>11, <1>12, <1>13, <1>14 DEF IInv

LEMMA RefreshSnapshotsIInv ==
    ASSUME IInv, RefreshSnapshots
    PROVE  IInv'
<1>1. ~Idle /\ handler.step = "snapshots"
      /\ UNCHANGED <<registered, keys, keyEvents, audit, writes, lost, aborts>>
  BY DEF RefreshSnapshots, Idle, IdleHandler
<1>2. handler \in Running
  BY <1>1, RunningHandler
<1>3. HealthWitnessed' /\ AuditBackedByEvent' /\ EventsGenuine'
  BY <1>1 DEF IInv, HealthWitnessed, HasEvent, AuditBackedByEvent, EventsGenuine
<1>4. CASE handler.op = "telemetry"
  <2>1. handler' = IdleHandler
    BY <1>1, <1>4 DEF RefreshSnapshots, Advance, NextStep
  <2>2. handler'.op = "none" /\ handler.op \notin AdminOp
    BY <1>4, <2>1 DEF IdleHandler, AdminOp
  <2>3. TypeOK' /\ EventWhenDue' /\ HandlerConsistent' /\ TrailAccounted'
    BY <1>1, <2>1, <2>2, SameWrite
    DEF IInv, TypeOK, EventWhenDue, EventPending, HandlerConsistent, AdminOp
  <2> QED
    BY <1>3, <2>3 DEF IInv
<1>5. CASE handler.op # "telemetry"
  <2>1. handler.op \in AdminOp
    BY <1>2, <1>5 DEF Running
  <2>2. handler' = [handler EXCEPT !.step = IF handler.op = "create" THEN "event"
                                            ELSE "audit"]
    BY <1>1, <1>5 DEF RefreshSnapshots, Advance, NextStep
  <2>3. handler' \in Running /\ handler'.op = handler.op /\ handler'.key = handler.key
          /\ handler'.result = handler.result
          /\ handler'.step = IF handler.op = "create" THEN "event" ELSE "audit"
    BY <1>2, <2>2 DEF Running, Step
  <2>4. TypeOK'
    BY <1>1, <2>3 DEF IInv, TypeOK
  <2>5. EventWhenDue'
    BY <1>1, <2>1, <2>3 DEF IInv, EventWhenDue, EventPending, AdminOp
  <2>6. HandlerConsistent'
    BY <1>1, <2>1, <2>3 DEF IInv, HandlerConsistent, AdminOp
  <2>7. TrailAccounted'
    BY <1>1, <2>3, SameWrite DEF IInv
  <2> QED
    BY <1>3, <2>4, <2>5, <2>6, <2>7 DEF IInv
<1> QED
  BY <1>4, <1>5

LEMMA WriteAuditIInv ==
    ASSUME IInv, WriteAudit
    PROVE  IInv'
<1>1. ~Idle /\ handler.step = "audit" /\ handler' = IdleHandler
      /\ UNCHANGED <<registered, keys, keyEvents, writes, lost, aborts>>
  BY DEF WriteAudit, Idle, IdleHandler, Advance, NextStep
<1>2. handler \in Running /\ handler.op \in AdminOp
      /\ writes \in 1..MaxWrites /\ handler.key \in Keys
  BY <1>1, RunningHandler DEF IInv, HandlerConsistent, Running
<1> DEFINE row == [write |-> writes, op |-> handler.op, key |-> handler.key,
                   enabled |-> handler.result.enabled, status |-> handler.result.status]
<1>3. audit' = audit \cup {row}
  BY DEF WriteAudit
<1>4. row \in AuditRow /\ row.write = writes /\ row.op = handler.op /\ row.key = handler.key
  BY <1>2 DEF AuditRow, Running
<1> HIDE DEF row
<1>5. handler'.op = "none"
  BY <1>1 DEF IdleHandler
<1>6. TypeOK'
  BY <1>1, <1>3, <1>4, <1>5 DEF IInv, TypeOK, AdminOp
<1>7. HealthWitnessed' /\ EventsGenuine'
  BY <1>1 DEF IInv, HealthWitnessed, HasEvent, EventsGenuine
<1>8. EventWhenDue' /\ HandlerConsistent'
  BY <1>5 DEF EventWhenDue, EventPending, HandlerConsistent, AdminOp
<1>9. TrailAccounted'
  <2>1. InProgress = {writes} /\ InProgress' = {}
    BY <1>2, <1>5 DEF InProgress, AdminOp
  <2>2. AuditedWrites' = AuditedWrites \cup {writes}
    BY <1>3, <1>4 DEF AuditedWrites
  <2> QED
    BY <1>1, <2>1, <2>2 DEF IInv, TrailAccounted
<1>10. AuditBackedByEvent'
  BY <1>1, <1>3, <1>4 DEF IInv, AuditBackedByEvent, EventWhenDue, EventOf
<1> QED
  BY <1>6, <1>7, <1>8, <1>9, <1>10 DEF IInv

LEMMA AbortIInv ==
    ASSUME IInv, Abort
    PROVE  IInv'
<1>1. ~Idle /\ handler' = IdleHandler /\ aborts < MaxAborts /\ aborts' = aborts + 1
      /\ UNCHANGED <<registered, keys, keyEvents, audit, writes>>
      /\ lost' = IF handler.op \in AdminOp THEN lost \cup {writes} ELSE lost
  BY DEF Abort
<1>2. writes \in 0..MaxWrites /\ (handler.op \in AdminOp => writes \in 1..MaxWrites)
  BY <1>1, RunningHandler
<1>3. handler'.op = "none"
  BY <1>1 DEF IdleHandler
<1>4. TypeOK'
  BY <1>1, <1>2, <1>3, RegistryAssumption DEF IInv, TypeOK, AdminOp
<1>5. HealthWitnessed' /\ EventsGenuine' /\ AuditBackedByEvent'
  BY <1>1 DEF IInv, HealthWitnessed, HasEvent, EventsGenuine, AuditBackedByEvent
<1>6. EventWhenDue' /\ HandlerConsistent'
  BY <1>3 DEF EventWhenDue, EventPending, HandlerConsistent, AdminOp
<1>7. TrailAccounted'
  <2>1. InProgress' = {} /\ lost' = lost \cup InProgress
    BY <1>1, <1>3 DEF InProgress, AdminOp
  <2>2. AuditedWrites' = AuditedWrites
    BY <1>1 DEF AuditedWrites
  <2> QED
    BY <1>1, <2>1, <2>2 DEF IInv, TrailAccounted
<1> QED
  BY <1>4, <1>5, <1>6, <1>7 DEF IInv

-----------------------------------------------------------------------------
LEMMA NextIInv == IInv /\ [Next]_vars => IInv'
<1> SUFFICES ASSUME IInv, [Next]_vars PROVE IInv'
  OBVIOUS
<1>1. ASSUME NEW k \in Keys, NEW en \in Flag, NEW s \in Secrets, CreateKey(k, en, s)
      PROVE  IInv'
  BY <1>1, CreateKeyIInv
<1>2. ASSUME NEW k \in Keys, NEW en \in Flag, NEW s \in Secrets, PatchKey(k, en, s)
      PROVE  IInv'
  BY <1>2, UpdateRowIInv DEF PatchKey
<1>3. ASSUME NEW k \in Keys, DisableKey(k) PROVE IInv'
  <2>1. keys[k].secret \in Secrets /\ 0 \in Flag
    BY DEF IInv, TypeOK, KeyRow, Flag
  <2> QED
    BY <1>3, <2>1, UpdateRowIInv DEF DisableKey
<1>4. ASSUME NEW m \in Telemetry, ReceiveTelemetry(m) PROVE IInv'
  BY <1>4, ReceiveTelemetryIInv
<1>5. CASE RecordAdminEvent
  BY <1>5, RecordAdminEventIInv
<1>6. CASE RefreshSnapshots
  BY <1>6, RefreshSnapshotsIInv
<1>7. CASE WriteAudit
  BY <1>7, WriteAuditIInv
<1>8. CASE Abort
  BY <1>8, AbortIInv
<1>9. CASE UNCHANGED vars
  <2>1. /\ registered' = registered /\ keys' = keys /\ keyEvents' = keyEvents
        /\ audit' = audit /\ handler' = handler /\ writes' = writes
        /\ lost' = lost /\ aborts' = aborts
    BY <1>9 DEF vars
  <2> QED
    BY <2>1 DEF IInv, TypeOK, EventsGenuine, EventWhenDue, EventPending,
                HandlerConsistent, HealthWitnessed, HasEvent, TrailAccounted,
                AuditedWrites, InProgress, AuditBackedByEvent
<1> QED
  BY <1>1, <1>2, <1>3, <1>4, <1>5, <1>6, <1>7, <1>8, <1>9
  DEF Next, AdminRequest, Continue

THEOREM Invariance == Spec => []IInv
  BY InitIInv, NextIInv, PTL DEF Spec

\* Every reachable state of the registry is well typed.
THEOREM TypeCorrect == Spec => []TypeOK
<1>1. IInv => TypeOK
  BY DEF IInv
<1> QED
  BY <1>1, Invariance, PTL

\* For any keys and any telemetry, duplicated, late or reordered, and however the
\* handlers are cut: a "healthy" or "degraded" status is backed by events.
THEOREM HealthIsWitnessed == Spec => []HealthWitnessed
<1>1. IInv => HealthWitnessed
  BY DEF IInv
<1> QED
  BY <1>1, Invariance, PTL

\* Every admin write is audited, in progress, or was cut between two commits.
THEOREM TrailIsAccounted == Spec => []TrailAccounted
<1>1. IInv => TrailAccounted
  BY DEF IInv
<1> QED
  BY <1>1, Invariance, PTL

\* The audit log is true: a row shows the key row as it is when the row is
\* written, and an audited create or disable has its event.
THEOREM AuditIsTruthful == Spec => []AuditIsTrue
<1>1. IInv => AuditShowsRow
  BY DEF IInv, HandlerConsistent, AuditShowsRow, TypeOK, Running, IdleHandler
<1>2. IInv => AuditBackedByEvent
  BY DEF IInv
<1>3. IInv => AuditIsTrue
  BY <1>1, <1>2 DEF AuditIsTrue
<1> QED
  BY <1>3, Invariance, PTL

\* An event leaves every key out of rotation that was out of it, except the key
\* that an "enabled" event names.
LEMMA EventReactivates ==
    ASSUME TypeOK, NEW m \in EventRow, RecordEvent(m), registered' = registered,
           NEW k \in Keys, Reactivated(k)
    PROVE  m.key = k /\ m.type = "enabled"
<1>1. k \in registered /\ keys[k].enabled # 1 /\ keys'[k].enabled = 1
  BY DEF Reactivated, ActiveKeys
<1>2. m.key = k /\ k \in registered
  BY <1>1 DEF RecordEvent, TypeOK
<1>3. keys'[k] = RowAfterEvent(keys[k], m.type)
  BY <1>2 DEF RecordEvent, TypeOK
<1>4. keys[k] \in KeyRow /\ m.type \in EventType
  BY DEF TypeOK, EventRow
<1>5. m.type # "success"
  BY <1>1, <1>3, <1>4, RowAfterEventType
<1>6. m.type # "failure"
  BY <1>1, <1>3, <1>4, RowAfterEventType
<1>7. m.type # "disabled"
  BY <1>1, <1>3, <1>4, RowAfterEventType
<1>8. m.type # "created"
  BY <1>1, <1>3, <1>4, RowAfterEventType
<1> QED
  BY <1>2, <1>4, <1>5, <1>6, <1>7, <1>8 DEF EventType

LEMMA ReactivationStep ==
    ASSUME IInv, Next, NEW k \in Keys, Reactivated(k)
    PROVE  ExplicitlyReactivated(k)
<1>1. ASSUME NEW j \in Keys, NEW en \in Flag, NEW s \in Secrets, CreateKey(j, en, s)
      PROVE  ExplicitlyReactivated(k)
  <2>1. j = k
    BY <1>1 DEF CreateKey, Reactivated, ActiveKeys, IInv, TypeOK
  <2> QED
    BY <1>1, <2>1 DEF CreateKey, Begin, ExplicitlyReactivated
<1>2. ASSUME NEW op, NEW j \in Keys, NEW en, NEW s, NEW step, UpdateRow(op, j, en, s, step)
      PROVE  ExplicitlyReactivated(k)
  <2>1. j = k
    BY <1>2 DEF UpdateRow, Reactivated, ActiveKeys, IInv, TypeOK
  <2> QED
    BY <1>2, <2>1 DEF UpdateRow, Begin, ExplicitlyReactivated
<1>3. ASSUME NEW m \in Telemetry, ReceiveTelemetry(m)
      PROVE  ExplicitlyReactivated(k)
  <2>1. m \in EventRow /\ RecordEvent(m) /\ registered' = registered
    BY <1>3, RegistryAssumption DEF EventRow, EventId, ReceiveTelemetry
  <2>2. m.key = k /\ m.type = "enabled"
    BY <2>1, EventReactivates DEF IInv
  <2> QED
    BY <2>1, <2>2 DEF ExplicitlyReactivated, RecordEvent
<1>4. CASE RecordAdminEvent
  <2> DEFINE m == EventOf(writes, handler.key,
                          IF handler.op = "create" THEN "created" ELSE "disabled")
  <2>1. ~Idle /\ handler.op \in {"create", "disable"}
    BY <1>4 DEF RecordAdminEvent, Idle, IdleHandler, IInv, HandlerConsistent, TypeOK,
                Running, AdminOp
  <2>2. handler.key \in Keys /\ writes \in 1..MaxWrites
    BY <2>1, RunningHandler DEF AdminOp
  <2>3. m \in EventRow /\ m.type # "enabled"
    BY <2>2 DEF EventOf, EventRow, EventId, EventType
  <2>4. RecordEvent(m) /\ registered' = registered
    BY <1>4 DEF RecordAdminEvent, EventOf
  <2> HIDE DEF m
  <2> QED
    BY <2>3, <2>4, EventReactivates DEF IInv
<1>5. CASE RefreshSnapshots \/ WriteAudit \/ Abort
  BY <1>5 DEF RefreshSnapshots, WriteAudit, Abort, Reactivated, ActiveKeys
<1> QED
  BY <1>1, <1>2, <1>3, <1>4, <1>5
  DEF Next, AdminRequest, Continue, PatchKey, DisableKey

\* However late or often usage reports arrive, and wherever handlers are cut, a
\* key is back in rotation only after an admin write on it or an "enabled" event.
THEOREM ReactivationNeedsIntent == Spec => ReactivationIsExplicit
<1>1. IInv /\ [Next]_vars =>
        [\A k \in Keys : Reactivated(k) => ExplicitlyReactivated(k)]_vars
  BY ReactivationStep
<1> QED
  BY <1>1, Invariance, PTL DEF Spec, ReactivationIsExplicit

-----------------------------------------------------------------------------
(* The gateway as a client of the registry. *)


\* Nothing was published for a request that has not begun.
Unstarted == \A r \in Requests :
    req[r].pc = "new" => published[r] = {} /\ req[r].source = "fallback"

\* What the registry would publish now was published for every request under way.
UnderWay(r) == req[r].pc \notin {"new", "done", "lost"}
UpToDate == \A r \in Requests : UnderWay(r) => Published \in published[r]

\* The body of a GET was published while its request waited.
Delivered == \A r \in Requests : req[r].pc = "replied" => req[r].reply \in published[r]

\* A request that tries keys has one to try, of the config it resolved.
Trying == \A r \in Requests :
    req[r].pc \in {"trying", "reporting"} => 
        req[r].left # {} /\ req[r].left \subseteq req[r].config.keys

\* A success is posted, and stored, only after a completion.
Completed(e) == e.type = "success" => \E r \in Requests : <<r, e.key>> \in answered

SuccessesReal ==
    /\ \A p \in inbox : Completed(p.event)
    /\ \A e \in keyEvents : Completed(e)
    /\ \A r \in Requests : req[r].pc = "reporting" /\ req[r].verdict = "ok" =>
           <<r, Current(r).key>> \in answered

GIInv ==
    /\ IInv /\ GTypeOK /\ Unstarted /\ UpToDate /\ Delivered /\ Trying
    /\ ConfigsAreGenuine /\ SuccessesReal

-----------------------------------------------------------------------------
\* The priorities of a config that is not empty have a least one.
LEMMA HeadType ==
    ASSUME NEW entries \in SUBSET Entry, entries # {}
    PROVE  /\ Head(entries) \in entries
           /\ \A f \in entries : Rank[Head(entries).key] <= Rank[f.key]
<1> DEFINE R == OpToRel(<, Nat)
           T == {Rank[e.key] : e \in entries}
<1>1. \A e \in entries : e.key \in Keys /\ Rank[e.key] \in Nat
  BY RoutingAssumption DEF Entry
<1>2. IsWellFoundedOn(R, Nat)
  BY NatLessThanWellFounded
<1>3. T \subseteq Nat /\ T # {}
  BY <1>1
<1>4. \A a, b \in Nat : <<a, b>> \in R <=> a < b
  BY DEF OpToRel
<1> HIDE DEF R, T
<1>5. PICK x \in T : \A y \in T : ~ (<<y, x>> \in R)
  BY <1>2, <1>3, WFMin
<1>6. ASSUME NEW y \in T PROVE x <= y
  <2>1. x \in Nat /\ y \in Nat
    BY <1>3
  <2>2. ~ (<<y, x>> \in R)
    BY <1>5
  <2>3. ~ (y < x)
    BY <1>4, <2>1, <2>2
  <2> QED
    BY <2>1, <2>3
<1>7. \E e \in entries : \A f \in entries : Rank[e.key] <= Rank[f.key]
  <2>1. PICK e \in entries : x = Rank[e.key]
    BY <1>5 DEF T
  <2> QED
    BY <1>6, <2>1 DEF T
<1> QED
  BY <1>7 DEF Head

LEMMA PublishedType ==
    ASSUME TypeOK, release \in Releases, selected \in SUBSET release
    PROVE  Published \in Config
<1> DEFINE ks == {[key |-> k, secret |-> keys[k].secret] : k \in ActiveKeys}
<1>1. ks \in SUBSET Entry
  <2>1. \A k \in ActiveKeys : k \in Keys /\ keys[k].secret \in Secrets
    BY DEF TypeOK, ActiveKeys, KeyRow
  <2> QED
    BY <2>1 DEF Entry
<1>2. selected \in SUBSET UNION Releases /\ release \in SUBSET UNION Releases
  OBVIOUS
<1> HIDE DEF ks
<1>3. Published = [keys |-> ks, models |-> selected, profiles |-> release]
  BY DEF Published, ks
<1> QED
  BY <1>1, <1>2, <1>3 DEF Config

LEMMA NoRoutesType == NoRoutes \in Config /\ \A r \in Requests : ~Usable(r, NoRoutes)
  BY DEF NoRoutes, Config, Usable

LEMMA EverPublishedType ==
    ASSUME GTypeOK
    PROVE  EverPublished \subseteq Config
BY DEF GTypeOK, EverPublished

\* How one request changes: the others stay as they are.
LEMMA RequestSet ==
    ASSUME GTypeOK, NEW r \in Requests, NEW new \in Request,
           req' = [req EXCEPT ![r] = new]
    PROVE  /\ req' \in [Requests -> Request]
           /\ req'[r] = new
           /\ \A q \in Requests : q # r => req'[q] = req[q]
BY DEF GTypeOK

\* A step of the gateway leaves the registry as it is.
LEMMA RegistryKept ==
    ASSUME IInv, UNCHANGED vars
    PROVE  IInv'
BY NextIInv

LEMMA GInitIInv == GInit => GIInv
<1> SUFFICES ASSUME GInit PROVE GIInv
  OBVIOUS
<1> USE RegistryAssumption, RoutingAssumption
<1>1. PICK s \in Secrets : keys = [k \in Keys |-> NewRow(1, s)]
  BY DEF GInit
<1>2. NewRow(1, s) \in KeyRow /\ NewRow(1, s).status = "unknown" /\ NewRow(1, s).failures = 0
  BY DEF NewRow, KeyRow, Flag, Status
<1>3. TypeOK
  BY <1>1, <1>2 DEF GInit, TypeOK, IdleHandler, AdminOp
<1>4. handler.op = "none"
  BY DEF GInit, IdleHandler
<1>5. EventsGenuine /\ EventWhenDue /\ HandlerConsistent
  BY <1>4 DEF GInit, EventsGenuine, EventWhenDue, EventPending, HandlerConsistent, AdminOp
<1>6. HealthWitnessed /\ AuditBackedByEvent
  BY <1>1, <1>2 DEF GInit, HealthWitnessed, AuditBackedByEvent
<1>7. TrailAccounted
  BY <1>4 DEF GInit, TrailAccounted, AuditedWrites, InProgress, AdminOp
<1>8. IInv
  BY <1>3, <1>5, <1>6, <1>7 DEF IInv
<1>9. NewRequest \in Request /\ NewRequest.pc = "new" /\ NewRequest.source = "fallback"
  BY NoRoutesType DEF NewRequest, Request, Pc, Fetch, Source, Verdict, Outcome
<1>10. GTypeOK
  BY <1>9 DEF GInit, GTypeOK
<1>11. Unstarted /\ UpToDate /\ Delivered /\ Trying /\ ConfigsAreGenuine /\ SuccessesReal
  BY <1>9 DEF GInit, Unstarted, UpToDate, UnderWay, Delivered, Trying, ConfigsAreGenuine,
              SuccessesReal
<1> QED
  BY <1>8, <1>10, <1>11 DEF GIInv

-----------------------------------------------------------------------------
(* Steps of the gateway.                                                    *)

\* One request moves on with what it may know: a config that was published, keys
\* of it left to try, and reports of what the provider said.
LEMMA RequestStep ==
    ASSUME GIInv, NEW r \in Requests, UnderWay(r), NEW new \in Request,
           req' = [req EXCEPT ![r] = new],
           UNCHANGED <<vars, published, serving, crashes, release, selected>>,
           new.pc \notin {"new", "replied"},
           new.pc \in {"trying", "reporting"} => 
               new.left # {} /\ new.left \subseteq new.config.keys,
           new.source = "live" => new.config \in published[r],
           new.source = "cached" => new.config \in EverPublished,
           {memory', file'} \subseteq EverPublished \cup {NoConfig},
           served' \subseteq served,
           answered \subseteq answered', answered' \subseteq Requests \X Keys,
           rejected' \subseteq Requests \X Keys,
           inbox' \subseteq Post,
           \A p \in inbox' : p \in inbox \/ Completed(p.event)',
           new.pc = "reporting" /\ new.verdict = "ok" => <<r, Head(new.left).key>> \in answered'
    PROVE  GIInv'
<1>1. /\ req' \in [Requests -> Request]
      /\ req'[r] = new
      /\ \A q \in Requests : q # r => req'[q] = req[q]
  BY RequestSet DEF GIInv
<1>2. IInv'
  BY RegistryKept DEF GIInv
<1>3. GTypeOK'
  BY <1>1, EverPublishedType DEF GIInv, GTypeOK
<1>4. Unstarted' /\ Delivered' /\ Trying'
  BY <1>1 DEF GIInv, Unstarted, Delivered, Trying
<1>7. UpToDate'
  <2>1. Published' = Published
    BY DEF vars, Published, ActiveKeys
  <2> QED
    BY <1>1, <2>1 DEF GIInv, UpToDate, UnderWay
<1>5. ConfigsAreGenuine'
  <2>1. EverPublished' = EverPublished
    BY DEF EverPublished
  <2> QED
    BY <1>1, <2>1 DEF GIInv, ConfigsAreGenuine
<1>6. SuccessesReal'
  <2>1. \A e : Completed(e) => Completed(e)'
    BY DEF Completed
  <2>2. keyEvents' = keyEvents
    BY DEF vars
  <2>3. \A q \in Requests : req'[q].pc = "reporting" /\ req'[q].verdict = "ok" =>
            <<q, Current(q)'.key>> \in answered'
    BY <1>1 DEF GIInv, SuccessesReal, Current
  <2> QED
    BY <2>1, <2>2, <2>3 DEF GIInv, SuccessesReal
<1> QED
  BY <1>2, <1>3, <1>4, <1>5, <1>6, <1>7 DEF GIInv

\* Resolving with a config that was published, or with none.
LEMMA ResolveStep ==
    ASSUME GIInv, NEW r \in Requests, UnderWay(r), NEW config \in Config, NEW source \in Source,
           NEW fetch \in Fetch, Resolve(r, config, source, fetch),
           UNCHANGED <<vars, inbox, serving, served, crashes, release, selected, historyVars>>,
           source = "live" => config \in published[r],
           source = "cached" => config \in EverPublished,
           {memory', file'} \subseteq EverPublished \cup {NoConfig}
    PROVE  GIInv'
<1> DEFINE pc      == IF ~Usable(r, config) THEN "local"
                      ELSE IF Unprofiled(r, config) THEN "done" ELSE "trying"
           left    == IF pc = "trying" THEN config.keys ELSE {}
           outcome == IF pc = "done" THEN "unavailable" ELSE "none"
           new     == [req[r] EXCEPT !.pc = pc, !.fetch = fetch, !.reply = NoRoutes,
                                     !.source = source, !.config = config, !.left = left,
                                     !.outcome = outcome]
<1>1. req[r] \in Request /\ NoRoutes \in Config /\ config.keys \in SUBSET Entry
  BY NoRoutesType DEF GIInv, GTypeOK, Config
<1>6. pc \in Pc /\ pc \notin {"new", "replied", "reporting"} /\ outcome \in Outcome
  BY DEF Pc, Outcome
<1>7. left \in SUBSET Entry /\ (pc = "trying" => left # {} /\ left \subseteq config.keys)
  BY <1>1 DEF Usable
<1>3. req' = [req EXCEPT ![r] = new]
  BY <1>1 DEF Resolve, GIInv, GTypeOK, Request
<1> HIDE DEF pc, left, outcome
<1>2. new \in Request /\ new.pc = pc /\ new.left = left /\ new.config = config
        /\ new.source = source
  BY <1>1, <1>6, <1>7 DEF Request
<1>4. /\ UNCHANGED <<vars, published, serving, crashes, release, selected>>
      /\ answered' = answered /\ rejected' = rejected /\ inbox' = inbox /\ served' = served
  BY DEF historyVars
<1>5. inbox \subseteq Post /\ answered \subseteq Requests \X Keys
        /\ rejected \subseteq Requests \X Keys
  BY DEF GIInv, GTypeOK
<1> HIDE DEF new
<1> QED
  BY <1>2, <1>3, <1>4, <1>5, <1>6, <1>7, RequestStep

LEMMA FetchStep ==
    ASSUME GIInv, NEW r \in Requests, FetchReturns(r)
    PROVE  GIInv'
<1>0. UnderWay(r)
  BY DEF FetchReturns, FetchAccepted, FetchRefused, FetchFails, UnderWay
<1>1. req[r] \in Request /\ memory \in Config \cup {NoConfig} /\ file \in Config \cup {NoConfig}
        /\ {memory, file} \subseteq EverPublished \cup {NoConfig}
  BY DEF GIInv, GTypeOK, ConfigsAreGenuine
<1>2. /\ {"accepted", "refused", "failed"} \subseteq Fetch
      /\ {"live", "cached", "fallback"} \subseteq Source
      /\ NoRoutes \in Config
  BY NoRoutesType DEF Fetch, Source
<1>3. CASE FetchAccepted(r)
  <2>1. req[r].reply \in Config /\ req[r].reply \in published[r]
    BY <1>1, <1>3 DEF FetchAccepted, GIInv, Delivered, Request
  <2>2. req[r].reply \in EverPublished
    BY <2>1 DEF EverPublished
  <2> QED
    BY <1>0, <1>2, <1>3, <2>1, <2>2, ResolveStep DEF FetchAccepted
<1>4. ASSUME NEW fetch \in Fetch, UseCache(r, fetch) PROVE GIInv'
  <2> DEFINE cached == IF memory # NoConfig THEN memory ELSE file
  <2>1. /\ UNCHANGED <<vars, inbox, serving, served, crashes, release, selected, historyVars>>
        /\ file' = file
    BY <1>4 DEF UseCache
  <2>2. CASE cached = NoConfig
    <3>1. Resolve(r, NoRoutes, "fallback", fetch) /\ memory' = memory
      BY <1>4, <2>2 DEF UseCache
    <3> QED
      BY <1>0, <1>1, <1>2, <2>1, <3>1, ResolveStep
  <2>3. CASE cached # NoConfig
    <3>1. Resolve(r, cached, "cached", fetch) /\ memory' = cached
      BY <1>4, <2>3 DEF UseCache
    <3>2. cached \in Config /\ cached \in EverPublished
      BY <1>1, <2>3
    <3> HIDE DEF cached
    <3> QED
      BY <1>0, <1>1, <1>2, <2>1, <3>1, <3>2, ResolveStep
  <2> QED
    BY <2>2, <2>3
<1> QED
  BY <1>2, <1>3, <1>4 DEF FetchReturns, FetchRefused, FetchFails

\* The key a request works with is one of its config.
LEMMA CurrentType ==
    ASSUME GIInv, NEW r \in Requests, req[r].pc \in {"trying", "reporting"}
    PROVE  Current(r) \in req[r].left /\ Current(r).key \in Keys /\ Current(r) = Head(req[r].left)
<1>1. req[r].left \in SUBSET Entry /\ req[r].left # {}
  BY DEF GIInv, GTypeOK, Trying, Request
<1>2. Head(req[r].left) \in req[r].left
  BY <1>1, HeadType
<1> QED
  BY <1>1, <1>2 DEF Current, Entry

\* What a request that is trying or reporting knows of its config.
LEMMA ConfigKnown ==
    ASSUME GIInv, NEW r \in Requests
    PROVE  /\ req[r] \in Request
           /\ req[r].source = "live" => req[r].config \in published[r]
           /\ req[r].source = "cached" => req[r].config \in EverPublished
           /\ {memory, file} \subseteq EverPublished \cup {NoConfig}
           /\ inbox \subseteq Post /\ answered \subseteq Requests \X Keys
           /\ rejected \subseteq Requests \X Keys
BY DEF GIInv, GTypeOK, ConfigsAreGenuine

\* A report begins: its event tells what the provider has just said.
LEMMA ReportStep ==
    ASSUME GIInv, NEW r \in Requests, NEW verdict \in Verdict, req[r].pc = "trying",
           Report(r, verdict), answered \subseteq answered',
           answered' \subseteq Requests \X Keys, rejected' \subseteq Requests \X Keys,
           verdict = "ok" => <<r, Current(r).key>> \in answered'
    PROVE  GIInv'
<1> DEFINE new  == [req[r] EXCEPT !.pc = "reporting", !.verdict = verdict, !.attempt = 1]
           type == IF verdict = "ok" THEN "success" ELSE "failure"
           k    == Current(r).key
           post == [event |-> Event(r, k, type), attempt |-> 1]
<1>1. k \in Keys /\ Current(r) = Head(req[r].left)
  BY CurrentType
<1>2. req[r] \in Request /\ 1 \in 0..2 /\ 1 \in 1..2
  BY ConfigKnown
<1>3. new \in Request /\ new.pc = "reporting" /\ new.verdict = verdict
        /\ new.left = req[r].left /\ new.config = req[r].config /\ new.source = req[r].source
  BY <1>2 DEF Request, Pc
<1>4. req' = [req EXCEPT ![r] = new]
  BY <1>2 DEF Report, GIInv, GTypeOK, Request
<1>5. inbox' = inbox \cup {post}
  BY DEF Report
<1>6. post \in Post /\ (post.event.type = "success" => <<r, post.event.key>> \in answered')
  <2>1. type \in {"success", "failure"} /\ (type = "success" => verdict = "ok")
    OBVIOUS
  <2> HIDE DEF type, k
  <2>2. Event(r, k, type).key = k /\ Event(r, k, type).type = type
    BY DEF Event
  <2>3. post \in Post
    BY <1>1, <1>2, <2>1 DEF Post
  <2>4. verdict = "ok" => <<r, k>> \in answered'
    BY DEF k
  <2>5. post.event.type = type /\ post.event.key = k
    BY <2>2
  <2> QED
    BY <2>1, <2>3, <2>4, <2>5
<1>7. /\ UNCHANGED <<vars, published, serving, crashes, release, selected>>
      /\ memory' = memory /\ file' = file /\ served' = served
  BY DEF Report
<1>8. req[r].left # {} /\ req[r].left \subseteq req[r].config.keys
  BY DEF GIInv, Trying
<1>9. inbox' \subseteq Post /\ \A p \in inbox' : p \in inbox \/ Completed(p.event)'
  <2>1. inbox' \subseteq Post
    BY <1>5, <1>6, ConfigKnown
  <2>2. ASSUME NEW p \in inbox', p \notin inbox PROVE Completed(p.event)'
    BY <1>5, <1>6, <2>2 DEF Completed
  <2> QED
    BY <2>1, <2>2
<1>10. verdict = "ok" => <<r, Head(new.left).key>> \in answered'
  BY <1>1, <1>3
<1> HIDE DEF new, post, k
<1> QED
  BY <1>3, <1>4, <1>7, <1>8, <1>9, <1>10, ConfigKnown, RequestStep DEF UnderWay

LEMMA ProviderStep ==
    ASSUME GIInv, NEW r \in Requests, ProviderReturns(r)
    PROVE  GIInv'
<1>1. CASE ProviderAnswers(r)
  <2>1. req[r].pc = "trying" /\ Report(r, "ok") /\ rejected' = rejected
          /\ answered' = answered \cup {<<r, Current(r).key>>}
    BY <1>1 DEF ProviderAnswers
  <2>2. <<r, Current(r).key>> \in Requests \X Keys
    BY <2>1, CurrentType
  <2>3. answered \subseteq answered' /\ answered' \subseteq Requests \X Keys
          /\ rejected' \subseteq Requests \X Keys
    BY <2>1, <2>2, ConfigKnown
  <2>4. "ok" \in Verdict /\ <<r, Current(r).key>> \in answered'
    BY <2>1 DEF Verdict
  <2> QED
    BY <2>1, <2>3, <2>4, ReportStep
<1>2. ASSUME NEW verdict \in {"rotate", "refuse"}, ProviderRejects(r, verdict) PROVE GIInv'
  <2>1. req[r].pc = "trying" /\ Report(r, verdict) /\ answered' = answered
          /\ rejected' = rejected \cup {<<r, Current(r).key>>}
    BY <1>2 DEF ProviderRejects
  <2>2. <<r, Current(r).key>> \in Requests \X Keys
    BY <2>1, CurrentType
  <2>3. answered \subseteq answered' /\ answered' \subseteq Requests \X Keys
          /\ rejected' \subseteq Requests \X Keys
    BY <2>1, <2>2, ConfigKnown
  <2>4. verdict \in Verdict /\ verdict # "ok"
    BY DEF Verdict
  <2> QED
    BY <2>1, <2>3, <2>4, ReportStep
<1>3. CASE ProviderBreaks(r)
  <2> DEFINE new == [req[r] EXCEPT !.pc = "done", !.outcome = "error"]
  <2>1. new \in Request /\ new.pc = "done" /\ new.config = req[r].config
          /\ new.source = req[r].source
    BY ConfigKnown DEF Request, Pc, Outcome
  <2>2. req' = [req EXCEPT ![r] = new]
    BY <1>3, ConfigKnown DEF ProviderBreaks, GIInv, GTypeOK, Request
  <2>3. /\ UNCHANGED <<vars, published, serving, crashes, release, selected>>
        /\ memory' = memory /\ file' = file /\ served' = served /\ inbox' = inbox
        /\ answered' = answered /\ rejected' = rejected
    BY <1>3 DEF ProviderBreaks, historyVars
  <2>4. UnderWay(r)
    BY <1>3 DEF ProviderBreaks, UnderWay
  <2> HIDE DEF new
  <2> QED
    BY <2>1, <2>2, <2>3, <2>4, ConfigKnown, RequestStep
<1> QED
  BY <1>1, <1>2, <1>3 DEF ProviderReturns

\* After a report the loop over the keys ends, or goes on with one key fewer.
LEMMA AfterReportStep ==
    ASSUME GIInv, NEW r \in Requests, req[r].pc = "reporting", AfterReport(r),
           UNCHANGED <<vars, memory, file, inbox, serving, crashes, release, selected,
                       historyVars>>,
           served' \subseteq served
    PROVE  GIInv'
<1> DEFINE left    == IF req[r].verdict = "rotate" THEN req[r].left \ {Current(r)}
                      ELSE req[r].left
           outcome == CASE req[r].verdict = "ok"     -> "ok"
                        [] req[r].verdict = "refuse" -> "error"
                        [] OTHER -> IF left = {} THEN "unavailable" ELSE "none"
           pc      == IF outcome = "none" THEN "trying" ELSE "done"
           rest    == IF outcome = "none" THEN left ELSE {}
           new     == [req[r] EXCEPT !.pc = pc, !.left = rest, !.verdict = "ok",
                                     !.attempt = 0, !.outcome = outcome]
<1>1. req[r] \in Request /\ 0 \in 0..2
  BY ConfigKnown
<1>2. req[r].verdict \in Verdict /\ req[r].left \in SUBSET Entry
        /\ req[r].left \subseteq req[r].config.keys
  BY <1>1 DEF GIInv, Trying, Request
<1>3. left \in SUBSET Entry /\ left \subseteq req[r].config.keys /\ rest \in SUBSET Entry
  BY <1>2
<1>4. outcome \in Outcome /\ (outcome = "none" => left # {})
  BY <1>2 DEF Outcome, Verdict
<1>5. pc \in Pc /\ pc \in {"trying", "done"} /\ "ok" \in Verdict
        /\ (pc = "trying" => rest # {} /\ rest \subseteq req[r].config.keys)
  BY <1>3, <1>4 DEF Pc, Verdict
<1>6. req' = [req EXCEPT ![r] = new]
  BY <1>1 DEF AfterReport, GIInv, GTypeOK, Request
<1> HIDE DEF left, outcome, pc, rest
<1>7. new \in Request /\ new.pc = pc /\ new.left = rest /\ new.config = req[r].config
        /\ new.source = req[r].source
  BY <1>1, <1>3, <1>4, <1>5 DEF Request
<1>8. /\ UNCHANGED <<vars, published, serving, crashes, release, selected>>
      /\ memory' = memory /\ file' = file /\ inbox' = inbox
      /\ answered' = answered /\ rejected' = rejected
  BY DEF historyVars
<1> HIDE DEF new
<1>9. UnderWay(r)
  BY DEF UnderWay
<1> QED
  BY <1>5, <1>6, <1>7, <1>8, <1>9, ConfigKnown, RequestStep

\* The second post says what the first one said.
LEMMA RetryStep ==
    ASSUME GIInv, NEW r \in Requests, ReportTimesOut(r), req[r].attempt = 1
    PROVE  GIInv'
<1> DEFINE new  == [req[r] EXCEPT !.attempt = 2]
           post == [CurrentPost(r) EXCEPT !.attempt = 2]
           type == IF req[r].verdict = "ok" THEN "success" ELSE "failure"
           k    == Current(r).key
<1>1. req[r] \in Request /\ req[r].pc = "reporting" /\ 2 \in 0..2 /\ 2 \in 1..2
  BY ConfigKnown DEF ReportTimesOut
<1>2. k \in Keys /\ Current(r) = Head(req[r].left)
  BY <1>1, CurrentType
<1>3. req' = [req EXCEPT ![r] = new] /\ inbox' = inbox \cup {post}
  BY <1>1 DEF ReportTimesOut, GIInv, GTypeOK, Request
<1>4. new \in Request /\ new.pc = "reporting" /\ new.verdict = req[r].verdict
        /\ new.left = req[r].left /\ new.config = req[r].config /\ new.source = req[r].source
  BY <1>1 DEF Request
<1>5. post = [event |-> Event(r, k, type), attempt |-> 2]
  BY DEF CurrentPost
<1>6. type \in {"success", "failure"} /\ (type = "success" => <<r, k>> \in answered)
  BY <1>1 DEF GIInv, SuccessesReal
<1> HIDE DEF type, k, post, new
<1>7. post \in Post /\ post.event.type = type /\ post.event.key = k
  BY <1>1, <1>2, <1>5, <1>6 DEF Post, Event
<1>8. /\ UNCHANGED <<vars, published, serving, crashes, release, selected>>
      /\ memory' = memory /\ file' = file /\ served' \subseteq served
      /\ answered' = answered /\ rejected' = rejected
  BY DEF ReportTimesOut, historyVars
<1>9. inbox' \subseteq Post /\ \A p \in inbox' : p \in inbox \/ Completed(p.event)'
  <2>1. inbox' \subseteq Post
    BY <1>3, <1>7, ConfigKnown
  <2>2. ASSUME NEW p \in inbox', p \notin inbox PROVE Completed(p.event)'
    BY <1>3, <1>6, <1>7, <1>8, <2>2 DEF Completed
  <2> QED
    BY <2>1, <2>2
<1>10. new.verdict = "ok" => <<r, Head(new.left).key>> \in answered'
  BY <1>1, <1>2, <1>4, <1>8 DEF GIInv, SuccessesReal
<1>11. new.left # {} /\ new.left \subseteq new.config.keys
  BY <1>1, <1>4 DEF GIInv, Trying
<1>12. UnderWay(r)
  BY <1>1 DEF UnderWay
<1> QED
  BY <1>3, <1>4, <1>8, <1>9, <1>10, <1>11, <1>12, ConfigKnown, RequestStep

LEMMA ReportReturnsStep ==
    ASSUME GIInv, NEW r \in Requests, ReportReturns(r)
    PROVE  GIInv'
<1>1. CASE ReportAcked(r)
  BY <1>1, AfterReportStep DEF ReportAcked
<1>2. CASE ReportTimesOut(r) /\ req[r].attempt = 1
  BY <1>2, RetryStep
<1>3. CASE ReportTimesOut(r) /\ req[r].attempt # 1
  BY <1>3, AfterReportStep DEF ReportTimesOut
<1> QED
  BY <1>1, <1>2, <1>3 DEF ReportReturns

LEMMA LocalKeyStep ==
    ASSUME GIInv, NEW r \in Requests, LocalKey(r)
    PROVE  GIInv'
<1>1. PICK outcome \in {"ok", "error"} :
          req' = [req EXCEPT ![r].pc = "done", ![r].outcome = outcome]
  BY DEF LocalKey
<1> DEFINE new == [req[r] EXCEPT !.pc = "done", !.outcome = outcome]
<1>2. new \in Request /\ new.pc = "done" /\ new.config = req[r].config
        /\ new.source = req[r].source
  BY ConfigKnown DEF Request, Pc, Outcome
<1>3. req' = [req EXCEPT ![r] = new]
  BY <1>1, ConfigKnown DEF GIInv, GTypeOK, Request
<1>4. /\ UNCHANGED <<vars, published, serving, crashes, release, selected>>
      /\ memory' = memory /\ file' = file /\ served' = served /\ inbox' = inbox
      /\ answered' = answered /\ rejected' = rejected
  BY DEF LocalKey, historyVars
<1>5. UnderWay(r)
  BY DEF LocalKey, UnderWay
<1>6. {memory', file'} \subseteq EverPublished \cup {NoConfig} /\ served' \subseteq served
  BY <1>4, ConfigKnown
<1>7. /\ answered \subseteq answered' /\ answered' \subseteq Requests \X Keys
      /\ rejected' \subseteq Requests \X Keys
  BY <1>4, ConfigKnown
<1>8. new.source = "live" => new.config \in published[r]
  BY <1>2, ConfigKnown
<1>9. new.source = "cached" => new.config \in EverPublished
  BY <1>2, ConfigKnown
<1>10. inbox' \subseteq Post /\ \A p \in inbox' : p \in inbox \/ Completed(p.event)'
  BY <1>4, ConfigKnown
<1> HIDE DEF new
<1> QED
  BY <1>2, <1>3, <1>4, <1>5, <1>6, <1>7, <1>8, <1>9, <1>10, RequestStep

\* A request begins: from now on what the registry publishes is noted for it.
LEMMA StartFetchStep ==
    ASSUME GIInv, NEW r \in Requests, StartFetch(r)
    PROVE  GIInv'
<1> DEFINE new == [req[r] EXCEPT !.pc = "fetching"]
<1>1. req[r] \in Request /\ req[r].pc = "new" /\ published[r] = {} /\ req[r].source = "fallback"
  BY ConfigKnown DEF StartFetch, GIInv, Unstarted
<1>2. new \in Request /\ new.pc = "fetching" /\ new.source = "fallback"
  BY <1>1 DEF Request, Pc
<1>3. req' = [req EXCEPT ![r] = new]
  BY <1>1 DEF StartFetch, GIInv, GTypeOK, Request
<1> HIDE DEF new
<1>4. /\ req' \in [Requests -> Request]
      /\ req'[r] = new
      /\ \A q \in Requests : q # r => req'[q] = req[q]
  BY <1>2, <1>3, RequestSet DEF GIInv
<1>5. /\ UNCHANGED <<vars, memory, file, inbox, serving, served, crashes, release, selected,
                     answered, rejected>>
      /\ published' = [published EXCEPT ![r] = {Published}]
  BY DEF StartFetch
<1>6. Published \in Config /\ Published' = Published /\ keyEvents' = keyEvents
  BY <1>5, PublishedType DEF GIInv, GTypeOK, IInv, vars, Published, ActiveKeys
<1>7. /\ published' \in [Requests -> SUBSET Config]
      /\ published'[r] = {Published}
      /\ \A q \in Requests : q # r => published'[q] = published[q]
  BY <1>5, <1>6 DEF GIInv, GTypeOK
<1>8. EverPublished \subseteq EverPublished'
  BY <1>1, <1>7 DEF EverPublished
<1>9. IInv'
  BY <1>5, RegistryKept DEF GIInv
<1>10. GTypeOK'
  BY <1>4, <1>5, <1>7 DEF GIInv, GTypeOK
<1>11. Unstarted' /\ UpToDate' /\ Delivered' /\ Trying'
  BY <1>2, <1>4, <1>6, <1>7 DEF GIInv, Unstarted, UpToDate, UnderWay, Delivered, Trying
<1>12. ConfigsAreGenuine'
  BY <1>2, <1>4, <1>5, <1>7, <1>8 DEF GIInv, ConfigsAreGenuine
<1>13. SuccessesReal'
  BY <1>2, <1>4, <1>5, <1>6 DEF GIInv, SuccessesReal, Completed, Current
<1> QED
  BY <1>9, <1>10, <1>11, <1>12, <1>13 DEF GIInv

\* The body that leaves the backend was published while the request waits.
LEMMA BackendRepliesStep ==
    ASSUME GIInv, NEW r \in Requests, BackendReplies(r)
    PROVE  GIInv'
<1> DEFINE new == [req[r] EXCEPT !.pc = "replied", !.reply = Published]
<1>1. req[r] \in Request /\ req[r].pc = "fetching" /\ Published \in published[r]
        /\ Published \in Config
  BY ConfigKnown, PublishedType DEF BackendReplies, GIInv, GTypeOK, IInv, UpToDate, UnderWay
<1>2. new \in Request /\ new.pc = "replied" /\ new.reply = Published
        /\ new.source = req[r].source /\ new.config = req[r].config
  BY <1>1 DEF Request, Pc
<1>3. req' = [req EXCEPT ![r] = new]
  BY <1>1 DEF BackendReplies, GIInv, GTypeOK, Request
<1> HIDE DEF new
<1>4. /\ req' \in [Requests -> Request]
      /\ req'[r] = new
      /\ \A q \in Requests : q # r => req'[q] = req[q]
  BY <1>2, <1>3, RequestSet DEF GIInv
<1>5. UNCHANGED <<vars, memory, file, inbox, serving, served, crashes, release, selected,
                  published, answered, rejected>>
  BY DEF BackendReplies, historyVars
<1>6. Published' = Published /\ keyEvents' = keyEvents /\ EverPublished' = EverPublished
  BY <1>5 DEF vars, Published, ActiveKeys, EverPublished
<1>7. IInv'
  BY <1>5, RegistryKept DEF GIInv
<1>8. GTypeOK'
  BY <1>4, <1>5 DEF GIInv, GTypeOK
<1>9. Unstarted' /\ UpToDate' /\ Delivered' /\ Trying'
  BY <1>1, <1>2, <1>4, <1>5, <1>6 DEF GIInv, Unstarted, UpToDate, UnderWay, Delivered, Trying
<1>10. ConfigsAreGenuine'
  BY <1>2, <1>4, <1>5, <1>6 DEF GIInv, ConfigsAreGenuine
<1>11. SuccessesReal'
  BY <1>2, <1>4, <1>5, <1>6 DEF GIInv, SuccessesReal, Completed, Current
<1> QED
  BY <1>7, <1>8, <1>9, <1>10, <1>11 DEF GIInv

\* A crash loses requests, memory and perhaps the file; the rest stays true.
LEMMA CrashStep ==
    ASSUME GIInv, GatewayCrash
    PROVE  GIInv'
<1>1. \A q \in Requests : req[q] \in Request
  BY ConfigKnown
<1>2. /\ req' \in [Requests -> Request]
      /\ \A q \in Requests : \/ req'[q] = req[q] /\ req[q].pc \in {"new", "done"}
                             \/ /\ req'[q].pc = "lost" /\ req'[q].source = req[q].source
                                /\ req'[q].config = req[q].config
  BY <1>1 DEF GatewayCrash, Request, Pc
<1>3. /\ UNCHANGED <<vars, inbox, serving, release, selected, published, answered, rejected>>
      /\ memory' = NoConfig /\ file' \in {file, NoConfig} /\ served' = {}
      /\ crashes \in 0..MaxCrashes /\ crashes < MaxCrashes /\ crashes' = crashes + 1
  BY DEF GatewayCrash, historyVars, GIInv, GTypeOK
<1>4. Published' = Published /\ keyEvents' = keyEvents /\ EverPublished' = EverPublished
  BY <1>3 DEF vars, Published, ActiveKeys, EverPublished
<1>5. crashes' \in 0..MaxCrashes
  BY <1>3, RoutingAssumption
<1>6. IInv'
  BY <1>3, RegistryKept DEF GIInv
<1>7. GTypeOK'
  BY <1>2, <1>3, <1>5 DEF GIInv, GTypeOK
<1>8. Unstarted' /\ UpToDate' /\ Delivered' /\ Trying'
  BY <1>2, <1>3, <1>4 DEF GIInv, Unstarted, UpToDate, UnderWay, Delivered, Trying
<1>9. ConfigsAreGenuine'
  BY <1>2, <1>3, <1>4 DEF GIInv, ConfigsAreGenuine
<1>10. SuccessesReal'
  BY <1>2, <1>3, <1>4 DEF GIInv, SuccessesReal, Completed, Current
<1> QED
  BY <1>6, <1>7, <1>8, <1>9, <1>10 DEF GIInv

-----------------------------------------------------------------------------
(* Steps of the backend.                                                    *)

LEMMA BackendStep ==
    ASSUME GIInv, [Next]_vars,
           UNCHANGED <<req, memory, file, crashes, release, answered, rejected>>,
           selected' \in SUBSET release,
           Publish \/ UNCHANGED <<published, keys, registered, selected>>,
           inbox' \subseteq inbox, serving' \in Post \cup {NoPost}, served' \subseteq Post,
           \A e \in keyEvents' : Completed(e)
    PROVE  GIInv'
<1>1. IInv'
  BY NextIInv DEF GIInv
<1>2. Published' \in Config
  <2>1. TypeOK' /\ release' \in Releases /\ selected' \in SUBSET release'
    BY <1>1 DEF IInv, GIInv, GTypeOK
  <2>2. Published' = [keys     |-> {[key |-> k, secret |-> keys'[k].secret] : k \in ActiveKeys'},
                      models   |-> selected',
                      profiles |-> release']
    BY DEF Published
  <2> DEFINE ks == {[key |-> k, secret |-> keys'[k].secret] : k \in ActiveKeys'}
  <2>3. ks \in SUBSET Entry
    <3>1. \A k \in ActiveKeys' : k \in Keys /\ keys'[k].secret \in Secrets
      BY <2>1 DEF TypeOK, ActiveKeys, KeyRow
    <3> QED
      BY <3>1 DEF Entry
  <2>4. selected' \in SUBSET UNION Releases /\ release' \in SUBSET UNION Releases
    BY <2>1
  <2> HIDE DEF ks
  <2> QED
    BY <2>2, <2>3, <2>4 DEF Config, ks
<1>0. req' = req /\ memory' = memory /\ file' = file
  OBVIOUS
<1>3. /\ published' \in [Requests -> SUBSET Config]
      /\ \A q \in Requests : /\ published[q] \subseteq published'[q]
                             /\ req[q].pc = "new" => published'[q] = published[q]
                             /\ UnderWay(q) => Published' \in published'[q]
  <2>1. CASE Publish
    <3>1. published' = [q \in Requests |->
              IF req[q].pc \in {"new", "done", "lost"} THEN published[q]
              ELSE published[q] \cup {Published'}]
      BY <2>1 DEF Publish
    <3>2. \A q \in Requests : published[q] \in SUBSET Config
      BY DEF GIInv, GTypeOK
    <3> QED
      BY <1>2, <3>1, <3>2 DEF UnderWay
  <2>2. CASE UNCHANGED <<published, keys, registered, selected>>
    <3>1. Published' = Published
      BY <2>2 DEF Published, ActiveKeys
    <3> QED
      BY <2>2, <3>1 DEF GIInv, GTypeOK, UpToDate
  <2> QED
    BY <2>1, <2>2
<1>4. EverPublished \subseteq EverPublished'
  <2> SUFFICES ASSUME NEW c \in EverPublished PROVE c \in EverPublished'
    OBVIOUS
  <2>1. PICK q \in Requests : c \in published[q]
    BY DEF EverPublished
  <2>2. c \in published'[q]
    BY <1>3, <2>1
  <2> QED
    BY <2>2 DEF EverPublished
<1>5. GTypeOK'
  BY <1>3 DEF GIInv, GTypeOK
<1>6. Unstarted' /\ UpToDate' /\ Delivered' /\ Trying'
  <2>1. Unstarted'
    BY <1>0, <1>3 DEF GIInv, Unstarted
  <2>2. UpToDate'
    BY <1>0, <1>3 DEF UpToDate, UnderWay
  <2>3. Delivered'
    BY <1>0, <1>3 DEF GIInv, Delivered
  <2>4. Trying'
    BY <1>0 DEF GIInv, Trying
  <2> QED
    BY <2>1, <2>2, <2>3, <2>4
<1>7. ConfigsAreGenuine'
  <2>1. ASSUME NEW q \in Requests
        PROVE  /\ req[q].source = "live" => req[q].config \in published'[q]
               /\ req[q].source = "cached" => req[q].config \in EverPublished'
    BY <1>3, <1>4 DEF GIInv, ConfigsAreGenuine
  <2>2. {memory, file} \subseteq EverPublished' \cup {NoConfig}
    BY <1>4 DEF GIInv, ConfigsAreGenuine
  <2> QED
    BY <1>0, <2>1, <2>2 DEF ConfigsAreGenuine
<1>8. SuccessesReal'
  BY DEF GIInv, SuccessesReal, Completed, Current
<1> QED
  BY <1>1, <1>5, <1>6, <1>7, <1>8 DEF GIInv

\* A rebuilt selection covers capabilities of the release.
LEMMA RefreshType ==
    ASSUME Refresh
    PROVE  selected' \in SUBSET release
BY DEF Refresh

LEMMA BackendSelectsStep ==
    ASSUME GIInv, BackendSelects
    PROVE  GIInv'
<1>1. /\ selected' \in SUBSET release /\ Publish
      /\ UNCHANGED <<vars, memory, file, req, inbox, serving, served, crashes, release,
                     answered, rejected>>
  BY RefreshType DEF BackendSelects
<1>2. [Next]_vars /\ keyEvents' = keyEvents
  BY <1>1 DEF vars
<1> QED
  BY <1>1, <1>2, BackendStep DEF GIInv, GTypeOK, SuccessesReal

LEMMA BackendAdminStep ==
    ASSUME GIInv, BackendAdmin
    PROVE  GIInv'
<1>1. AdminRequest /\ Publish /\ UNCHANGED <<gatewayVars, answered, rejected>>
  BY DEF BackendAdmin
<1>2. [Next]_vars
  BY <1>1 DEF Next
<1>3. keyEvents' = keyEvents
  BY <1>1 DEF AdminRequest, CreateKey, PatchKey, DisableKey, UpdateRow
<1> QED
  BY <1>1, <1>2, <1>3, BackendStep DEF gatewayVars, GIInv, GTypeOK, SuccessesReal

\* A post is stored as it was sent: its event is already there or is added.
LEMMA BackendReceivesStep ==
    ASSUME GIInv, NEW p \in inbox, BackendReceives(p)
    PROVE  GIInv'
<1>1. p \in Post /\ Completed(p.event)
  BY DEF GIInv, GTypeOK, SuccessesReal
<1>2. p.event \in Telemetry
  BY <1>1, RoutingAssumption DEF Post
<1>3. /\ ReceiveTelemetry(p.event) /\ Publish /\ inbox' = inbox \ {p} /\ serving' = p
      /\ UNCHANGED <<memory, file, req, served, crashes, release, selected, answered, rejected>>
  BY DEF BackendReceives
<1>4. [Next]_vars
  BY <1>2, <1>3 DEF Next
<1>5. keyEvents' = UpsertEvent(keyEvents, p.event)
  BY <1>3 DEF ReceiveTelemetry, RecordEvent
<1>6. \A e \in keyEvents : e.id = p.event.id => e = p.event
  BY <1>2, RegistryAssumption DEF GIInv, IInv, TypeOK, EventsGenuine
<1>7. p.event \in [id : {m.id : m \in Telemetry}, key : Keys, type : EventType]
  BY <1>2, RegistryAssumption DEF EventType
<1>8. keyEvents' = keyEvents \cup {p.event}
  BY <1>5, <1>6, <1>7, UpsertAdds
<1>9. \A e \in keyEvents' : Completed(e)
  BY <1>1, <1>8 DEF GIInv, SuccessesReal
<1> QED
  BY <1>1, <1>3, <1>4, <1>9, BackendStep DEF GIInv, GTypeOK

LEMMA BackendContinuesStep ==
    ASSUME GIInv, BackendContinues
    PROVE  GIInv'
<1>1. /\ Continue /\ Publish /\ selected' \in SUBSET release
      /\ UNCHANGED <<memory, file, req, inbox, crashes, release, answered, rejected>>
  BY RefreshType DEF BackendContinues, GIInv, GTypeOK
<1>2. [Next]_vars
  BY <1>1 DEF Next
<1>3. serving' \in Post \cup {NoPost}
  BY DEF BackendContinues, GIInv, GTypeOK
<1>4. served' \subseteq Post
  <2>1. ASSUME Awaited(serving) PROVE serving \in Post
    <3>1. PICK r \in Requests : CurrentPost(r) = serving
      BY <2>1 DEF Awaited
    <3>2. "event" \in DOMAIN serving
      BY <3>1 DEF CurrentPost
    <3>3. serving # NoPost
      BY <3>2 DEF NoPost
    <3> QED
      BY <3>3 DEF GIInv, GTypeOK
  <2> QED
    BY <2>1 DEF BackendContinues, GIInv, GTypeOK
<1>5. \A e \in keyEvents' : Completed(e)
  <2>1. CASE RecordAdminEvent
    <3> DEFINE m == [id   |-> AdminEventId(writes), key |-> handler.key,
                     type |-> IF handler.op = "create" THEN "created" ELSE "disabled"]
    <3>1. keyEvents' = UpsertEvent(keyEvents, m)
      BY <2>1 DEF RecordAdminEvent, RecordEvent
    <3>2. m.type # "success"
      OBVIOUS
    <3> HIDE DEF m
    <3>3. ASSUME NEW e \in keyEvents' PROVE e \in keyEvents \/ e.type = m.type
      BY <3>1 DEF UpsertEvent, GIInv, IInv, TypeOK, EventRow
    <3> QED
      BY <3>2, <3>3 DEF GIInv, SuccessesReal, Completed
  <2>2. CASE RefreshSnapshots \/ WriteAudit
    BY <2>2 DEF RefreshSnapshots, WriteAudit, GIInv, SuccessesReal
  <2> QED
    BY <1>1, <2>1, <2>2 DEF Continue
<1> QED
  BY <1>1, <1>2, <1>3, <1>4, <1>5, BackendStep

LEMMA BackendAbortsStep ==
    ASSUME GIInv, BackendAborts
    PROVE  GIInv'
<1>1. /\ Abort /\ serving' = NoPost
      /\ UNCHANGED <<memory, file, req, inbox, served, crashes, release, selected, historyVars>>
  BY DEF BackendAborts
<1>2. [Next]_vars
  BY <1>1 DEF Next
<1>3. keyEvents' = keyEvents /\ UNCHANGED <<published, keys, registered, selected>>
  BY <1>1 DEF Abort, historyVars
<1> QED
  BY <1>1, <1>2, <1>3, BackendStep DEF historyVars, GIInv, GTypeOK, SuccessesReal

-----------------------------------------------------------------------------
LEMMA GNextIInv == GIInv /\ [GNext]_allVars => GIInv'
<1> SUFFICES ASSUME GIInv, [GNext]_allVars PROVE GIInv'
  OBVIOUS
<1>1. CASE Backend
  BY <1>1, BackendAdminStep, BackendSelectsStep, BackendReceivesStep, BackendContinuesStep,
     BackendAbortsStep
  DEF Backend
<1>2. ASSUME NEW r \in Requests,
             StartFetch(r) \/ BackendReplies(r) \/ FetchReturns(r)
               \/ ProviderReturns(r) \/ ReportReturns(r) \/ LocalKey(r)
      PROVE  GIInv'
  BY <1>2, StartFetchStep, BackendRepliesStep, FetchStep, ProviderStep, ReportReturnsStep,
     LocalKeyStep
<1>3. CASE GatewayCrash
  BY <1>3, CrashStep
<1>4. CASE UNCHANGED allVars
  <2>1. UNCHANGED <<vars, gatewayVars, historyVars>>
    BY <1>4 DEF allVars
  <2> QED
    BY <2>1, BackendStep
    DEF vars, gatewayVars, historyVars, GIInv, GTypeOK, SuccessesReal
<1> QED
  BY <1>1, <1>2, <1>3, <1>4 DEF GNext

LEMMA GInvariance == GSpec => []GIInv
  BY GInitIInv, GNextIInv, PTL DEF GSpec

\* Every reachable state of the gateway and the registry is well typed.
THEOREM RoutingTypeCorrect == GSpec => []GTypeOK
<1>1. GIInv => GTypeOK
  BY DEF GIInv
<1> QED
  BY <1>1, GInvariance, PTL

\* For any number of concurrent requests, replies that overtake each other and
\* crashes: a live request uses one config that was published since it began, and
\* memory and the cache file hold only configs that were (get_config).
THEOREM ConfigsGenuine == GSpec => []ConfigsAreGenuine
<1>1. GIInv => ConfigsAreGenuine
  BY DEF GIInv
<1> QED
  BY <1>1, GInvariance, PTL

\* With the gateway as its client, lost, late and repeated posts included, the
\* registry keeps the health of every key witnessed by its events.
THEOREM RegistryHealthKept == GSpec => []HealthWitnessed
<1>1. GIInv => HealthWitnessed
  BY DEF GIInv, IInv
<1> QED
  BY <1>1, GInvariance, PTL

-----------------------------------------------------------------------------
(* What the provider said against what the requests and the registry hold.   *)

GivenUp(r)    == {e.key : e \in req[r].config.keys \ req[r].left}

\* The verdicts a request remembers: none before it tries, one failure for each key
\* it gave up, and the verdict it is reporting.
Verdicts(r) ==
    /\ req[r].pc \in {"new", "fetching", "replied", "local"} =>
           AnsweredBy(r) = {} /\ RejectedBy(r) = {}
    /\ req[r].pc = "local" => ~Usable(r, req[r].config)
    /\ req[r].pc \in {"trying", "reporting"} => Usable(r, req[r].config)
    /\ req[r].pc = "trying" => AnsweredBy(r) = {} /\ RejectedBy(r) = GivenUp(r)
    /\ req[r].pc = "reporting" =>
           IF req[r].verdict = "ok"
           THEN AnsweredBy(r) = {Current(r).key} /\ RejectedBy(r) = GivenUp(r)
           ELSE AnsweredBy(r) = {} /\ RejectedBy(r) = GivenUp(r) \cup {Current(r).key}

\* The keys given up are the most urgent ones.
Urgent(r) == req[r].pc \in {"trying", "reporting"} =>
    \A e \in req[r].config.keys \ req[r].left, f \in req[r].left : Rank[e.key] <= Rank[f.key]

HonestOf(r) ==
    req[r].pc = "done" =>
        IF Usable(r, req[r].config)
        THEN /\ req[r].outcome = "ok" <=> AnsweredBy(r) # {}
             /\ req[r].outcome = "unavailable" =>
                   {e.key : e \in req[r].config.keys} \subseteq RejectedBy(r)
        ELSE AnsweredBy(r) \cup RejectedBy(r) = {} /\ req[r].outcome # "unavailable"

InOrderOf(r) ==
    \A k \in Keys : (<<r, k>> \in answered \cup rejected) =>
        \A e \in req[r].config.keys : Rank[e.key] < Rank[k] =>
            <<r, e.key>> \in rejected \ answered

FailoverOf(r) == Verdicts(r) /\ Urgent(r) /\ HonestOf(r) /\ InOrderOf(r)
Failover      == \A r \in Requests : FailoverOf(r)

\* A config names a key once, so a request reports it once, and it has a profile of
\* each capability it has models for, so a request that can use it has keys to try.
Whole(c) == /\ \A e, f \in c.keys : e.key = f.key => e = f
            /\ c.models \subseteq c.profiles
WholeConfigs ==
    /\ \A c \in EverPublished : Whole(c)
    /\ \A r \in Requests : Whole(req[r].config)

\* The requests that owe or sent a first, and a second, report of a failure with
\* the key, and the reports still on their way.
Rejections(k) == {r \in Requests : <<r, k>> \in rejected}
Repeated(k)   == {r \in Rejections(k) :
    ~ (req[r].pc = "reporting" /\ req[r].attempt = 1 /\ Current(r).key = k)}
Waiting(k)    == {p \in inbox : p.event.key = k /\ p.event.type = "failure"}

\* A failure that is counted or on its way used up one of two reports.
CountOf(k) ==
    /\ IsFiniteSet(Waiting(k)) /\ IsFiniteSet(Rejections(k))
    /\ keys[k].failures + Cardinality(Waiting(k))
         <= Cardinality(Rejections(k)) + Cardinality(Repeated(k))
Counted == \A k \in Keys : CountOf(k)

FIInv == GIInv /\ Failover /\ registered = Keys /\ WholeConfigs /\ Counted

-----------------------------------------------------------------------------
\* A request whose verdicts, keys and progress stay as they are.
LEMMA FailoverKept ==
    ASSUME NEW r \in Requests, FailoverOf(r),
           req'[r].pc = req[r].pc, req'[r].left = req[r].left,
           req'[r].config = req[r].config, req'[r].source = req[r].source,
           req'[r].verdict = req[r].verdict, req'[r].outcome = req[r].outcome,
           \A k : <<r, k>> \in answered' <=> <<r, k>> \in answered,
           \A k : <<r, k>> \in rejected' <=> <<r, k>> \in rejected
    PROVE  FailoverOf(r)'
<1>1. AnsweredBy(r)' = AnsweredBy(r) /\ RejectedBy(r)' = RejectedBy(r)
  BY DEF AnsweredBy, RejectedBy
<1>2. Current(r)' = Current(r) /\ GivenUp(r)' = GivenUp(r)
  BY DEF Current, GivenUp
<1>3. Verdicts(r)'
  BY <1>1, <1>2 DEF FailoverOf, Verdicts
<1>4. Urgent(r)'
  BY DEF FailoverOf, Urgent
<1>5. HonestOf(r)'
  BY <1>1 DEF FailoverOf, HonestOf
<1>6. InOrderOf(r)'
  BY DEF FailoverOf, InOrderOf
<1> QED
  BY <1>3, <1>4, <1>5, <1>6 DEF FailoverOf

\* A request that has tried no key yet.
LEMMA FailoverFresh ==
    ASSUME NEW r \in Requests, AnsweredBy(r) = {}, RejectedBy(r) = {},
           req'[r].pc \in {"fetching", "replied", "local", "trying"},
           req'[r].pc = "local" => ~Usable(r, req'[r].config),
           req'[r].pc = "trying" =>
               Usable(r, req'[r].config) /\ req'[r].left = req'[r].config.keys,
           answered' = answered, rejected' = rejected
    PROVE  FailoverOf(r)'
<1>1. AnsweredBy(r)' = {} /\ RejectedBy(r)' = {}
  BY DEF AnsweredBy, RejectedBy
<1>2. req'[r].pc = "trying" => GivenUp(r)' = {}
  BY DEF GivenUp
<1>3. Verdicts(r)' /\ Urgent(r)'
  BY <1>1, <1>2 DEF Verdicts, Urgent
<1>4. HonestOf(r)'
  BY DEF HonestOf
<1>5. InOrderOf(r)'
  BY <1>1 DEF InOrderOf, AnsweredBy, RejectedBy
<1> QED
  BY <1>3, <1>4, <1>5 DEF FailoverOf

\* A step of one request leaves the verdicts of the others alone.
LEMMA FailoverStep ==
    ASSUME Failover, NEW r \in Requests, FailoverOf(r)',
           \A q \in Requests : q # r => req'[q] = req[q],
           \A q, k : q # r => (<<q, k>> \in answered' <=> <<q, k>> \in answered),
           \A q, k : q # r => (<<q, k>> \in rejected' <=> <<q, k>> \in rejected)
    PROVE  Failover'
<1> SUFFICES ASSUME NEW q \in Requests, q # r PROVE FailoverOf(q)'
  BY DEF Failover
<1>1. FailoverOf(q) /\ req'[q] = req[q]
  BY DEF Failover
<1> QED
  BY <1>1, FailoverKept

LEMMA StartFetchFailover ==
    ASSUME FIInv, NEW r \in Requests, StartFetch(r) \/ BackendReplies(r)
    PROVE  Failover'
<1>1. FailoverOf(r) /\ req \in [Requests -> Request] /\ req[r] \in Request
  BY DEF FIInv, Failover, GIInv, GTypeOK
<1>2. AnsweredBy(r) = {} /\ RejectedBy(r) = {}
  BY <1>1 DEF FailoverOf, Verdicts, StartFetch, BackendReplies
<1>3. answered' = answered /\ rejected' = rejected
  BY DEF StartFetch, BackendReplies, historyVars
<1>4. req'[r].pc \in {"fetching", "replied"} /\ \A q \in Requests : q # r => req'[q] = req[q]
  BY <1>1 DEF StartFetch, BackendReplies, Request
<1>5. FailoverOf(r)'
  BY <1>2, <1>3, <1>4, FailoverFresh
<1> QED
  BY <1>3, <1>4, <1>5, FailoverStep DEF FIInv

LEMMA ResolveFailover ==
    ASSUME FIInv, NEW r \in Requests, req[r].pc \in {"fetching", "replied"},
           NEW config, NEW source, NEW fetch, Resolve(r, config, source, fetch), Whole(config),
           answered' = answered, rejected' = rejected
    PROVE  Failover'
<1>1. FailoverOf(r) /\ req \in [Requests -> Request] /\ req[r] \in Request
  BY DEF FIInv, Failover, GIInv, GTypeOK
<1>2. AnsweredBy(r) = {} /\ RejectedBy(r) = {}
  BY <1>1 DEF FailoverOf, Verdicts
<1>3. /\ req'[r].pc = IF ~Usable(r, config) THEN "local" ELSE "trying"
      /\ req'[r].config = config
      /\ req'[r].pc = "trying" => req'[r].left = config.keys
      /\ \A q \in Requests : q # r => req'[q] = req[q]
  <2>1. ~Unprofiled(r, config)
    BY DEF Unprofiled, Usable, Whole
  <2> QED
    BY <1>1, <2>1 DEF Resolve, Request
<1>4. FailoverOf(r)'
  BY <1>2, <1>3, FailoverFresh
<1> QED
  BY <1>3, <1>4, FailoverStep DEF FIInv

LEMMA FetchFailover ==
    ASSUME FIInv, NEW r \in Requests, FetchReturns(r)
    PROVE  Failover'
<1>1. answered' = answered /\ rejected' = rejected /\ req[r].pc \in {"fetching", "replied"}
  BY DEF FetchReturns, FetchAccepted, FetchRefused, FetchFails, UseCache, historyVars
<1>4. /\ {memory, file} \subseteq EverPublished \cup {NoConfig}
      /\ req[r].pc = "replied" => req[r].reply \in EverPublished
      /\ \A c \in EverPublished \cup {NoRoutes} : Whole(c)
  <2>1. Whole(NoRoutes)
    BY DEF Whole, NoRoutes
  <2> QED
    BY <2>1 DEF FIInv, WholeConfigs, GIInv, ConfigsAreGenuine, Delivered, EverPublished
<1>2. CASE FetchAccepted(r)
  BY <1>1, <1>2, <1>4, ResolveFailover DEF FetchAccepted
<1>3. ASSUME NEW fetch, UseCache(r, fetch) PROVE Failover'
  <2> DEFINE cached == IF memory # NoConfig THEN memory ELSE file
  <2>1. CASE cached = NoConfig
    BY <1>1, <1>3, <1>4, <2>1, ResolveFailover DEF UseCache
  <2>2. CASE cached # NoConfig
    <3>1. Resolve(r, cached, "cached", fetch) /\ Whole(cached)
      BY <1>3, <1>4, <2>2 DEF UseCache
    <3> HIDE DEF cached
    <3> QED
      BY <1>1, <3>1, ResolveFailover
  <2> QED
    BY <2>1, <2>2
<1> QED
  BY <1>2, <1>3 DEF FetchReturns, FetchRefused, FetchFails

\* A request that ends without a verdict: with the local key, for want of a usable
\* config, or with an error of its own.
LEMMA EndFailover ==
    ASSUME FIInv, NEW r \in Requests, LocalKey(r) \/ ProviderBreaks(r)
    PROVE  Failover'
<1>1. FailoverOf(r) /\ req \in [Requests -> Request] /\ req[r] \in Request
  BY DEF FIInv, Failover, GIInv, GTypeOK
<1>2. answered' = answered /\ rejected' = rejected
  BY DEF LocalKey, ProviderBreaks, historyVars
<1>3. /\ req'[r].pc = "done" /\ req'[r].config = req[r].config
      /\ \A q \in Requests : q # r => req'[q] = req[q]
      /\ req'[r].outcome \in {"ok", "error"}
      /\ req[r].pc = "local" \/ (req[r].pc = "trying" /\ req'[r].outcome = "error")
  BY <1>1 DEF LocalKey, ProviderBreaks, Request
<1>4. /\ AnsweredBy(r)' = {} /\ RejectedBy(r)' = RejectedBy(r)
      /\ \/ req'[r].outcome = "error" /\ Usable(r, req[r].config)
         \/ RejectedBy(r) = {} /\ ~Usable(r, req[r].config)
  BY <1>1, <1>2, <1>3 DEF AnsweredBy, RejectedBy, FailoverOf, Verdicts
<1>6. Verdicts(r)' /\ Urgent(r)' /\ InOrderOf(r)'
  BY <1>1, <1>2, <1>3 DEF FailoverOf, Verdicts, Urgent, InOrderOf
<1>7. HonestOf(r)'
  BY <1>3, <1>4 DEF HonestOf
<1>5. FailoverOf(r)'
  BY <1>6, <1>7 DEF FailoverOf
<1> QED
  BY <1>2, <1>3, <1>5, FailoverStep DEF FIInv

-----------------------------------------------------------------------------
\* The current key is the most urgent one left, and none of those given up.
LEMMA CurrentFacts ==
    ASSUME FIInv, NEW r \in Requests, req[r].pc \in {"trying", "reporting"}
    PROVE  /\ Current(r) \in req[r].left /\ req[r].left \subseteq req[r].config.keys
           /\ Current(r).key \in Keys /\ Rank[Current(r).key] \in Nat
           /\ \A f \in req[r].left : Rank[Current(r).key] <= Rank[f.key]
           /\ \A e \in req[r].config.keys : e.key \in Keys /\ Rank[e.key] \in Nat
           /\ Current(r).key \notin GivenUp(r)
<1>1. req[r].left \in SUBSET Entry /\ req[r].left # {} /\ req[r].left \subseteq req[r].config.keys
        /\ req[r].config.keys \in SUBSET Entry
  BY DEF FIInv, GIInv, GTypeOK, Trying, Request, Config
<1>2. Current(r) = Head(req[r].left)
  BY DEF Current
<1>3. Current(r) \in req[r].left /\ \A f \in req[r].left : Rank[Current(r).key] <= Rank[f.key]
  BY <1>1, <1>2, HeadType
<1>4. \A e \in req[r].config.keys : e.key \in Keys /\ Rank[e.key] \in Nat
  BY <1>1, RoutingAssumption DEF Entry
<1>5. Whole(req[r].config)
  BY DEF FIInv, WholeConfigs
<1>6. Current(r).key \notin GivenUp(r)
  BY <1>1, <1>3, <1>5 DEF Whole, GivenUp
<1> QED
  BY <1>1, <1>3, <1>4, <1>6

\* What the provider says of the current key joins what it said of those given up.
LEMMA ReportFailover ==
    ASSUME FIInv, NEW r \in Requests, req[r].pc = "trying", NEW verdict \in Verdict,
           Report(r, verdict),
           answered' = IF verdict = "ok" THEN answered \cup {<<r, Current(r).key>>} ELSE answered,
           rejected' = IF verdict = "ok" THEN rejected ELSE rejected \cup {<<r, Current(r).key>>}
    PROVE  Failover'
<1> DEFINE k == Current(r).key
<1>1. FailoverOf(r) /\ req \in [Requests -> Request] /\ req[r] \in Request
  BY DEF FIInv, Failover, GIInv, GTypeOK
<1>2. /\ req'[r].pc = "reporting" /\ req'[r].verdict = verdict
      /\ req'[r].config = req[r].config /\ req'[r].left = req[r].left
      /\ \A q \in Requests : q # r => req'[q] = req[q]
  BY <1>1 DEF Report, Request
<1>3. /\ k \in Keys /\ Rank[k] \in Nat /\ Current(r) \in req[r].left
      /\ req[r].left \subseteq req[r].config.keys
      /\ \A f \in req[r].left : Rank[k] <= Rank[f.key]
      /\ \A e \in req[r].config.keys : e.key \in Keys /\ Rank[e.key] \in Nat
      /\ k \notin GivenUp(r)
  BY CurrentFacts
<1>4. Current(r)'.key = k /\ GivenUp(r)' = GivenUp(r)
  BY <1>2 DEF Current, GivenUp
<1>5. AnsweredBy(r) = {} /\ RejectedBy(r) = GivenUp(r) /\ Usable(r, req[r].config)
  BY <1>1 DEF FailoverOf, Verdicts
<1> HIDE DEF k
<1>6. /\ AnsweredBy(r)' = IF verdict = "ok" THEN {k} ELSE {}
      /\ RejectedBy(r)' = IF verdict = "ok" THEN GivenUp(r) ELSE GivenUp(r) \cup {k}
  BY <1>3, <1>5 DEF AnsweredBy, RejectedBy, k
<1>7. Verdicts(r)'
  BY <1>2, <1>4, <1>5, <1>6 DEF Verdicts
<1>8. Urgent(r)'
  BY <1>1, <1>2 DEF FailoverOf, Urgent
<1>9. HonestOf(r)'
  BY <1>2 DEF HonestOf
<1>10. InOrderOf(r)'
  <2> SUFFICES ASSUME NEW j \in Keys, (<<r, j>> \in answered \cup rejected)',
                      NEW e \in req[r].config.keys, Rank[e.key] < Rank[j]
               PROVE  e.key \in RejectedBy(r)' /\ e.key \notin AnsweredBy(r)'
    BY <1>2, <1>3 DEF InOrderOf, RejectedBy, AnsweredBy
  <2>1. j = k \/ j \in GivenUp(r)
    BY <1>6 DEF RejectedBy, AnsweredBy
  <2>2. e \notin req[r].left
    <3>1. CASE j = k
      BY <1>3, <3>1
    <3>2. ASSUME j \in GivenUp(r), e \in req[r].left PROVE FALSE
      <4>1. PICK d \in req[r].config.keys \ req[r].left : j = d.key
        BY <3>2 DEF GivenUp
      <4>2. Rank[d.key] <= Rank[e.key]
        BY <1>1, <3>2, <4>1 DEF FailoverOf, Urgent
      <4> QED
        BY <1>3, <4>1, <4>2
    <3> QED
      BY <2>1, <3>1, <3>2
  <2>3. e.key \in GivenUp(r)
    BY <2>2 DEF GivenUp
  <2> QED
    BY <1>3, <1>6, <2>3
<1>11. FailoverOf(r)'
  BY <1>7, <1>8, <1>9, <1>10 DEF FailoverOf
<1>12. \A q, j : q # r => /\ <<q, j>> \in answered' <=> <<q, j>> \in answered
                          /\ <<q, j>> \in rejected' <=> <<q, j>> \in rejected
  OBVIOUS
<1> QED
  BY <1>2, <1>11, <1>12, FailoverStep DEF FIInv

LEMMA ProviderFailover ==
    ASSUME FIInv, NEW r \in Requests, ProviderReturns(r)
    PROVE  Failover'
<1>1. CASE ProviderAnswers(r)
  <2>1. "ok" \in Verdict
    BY DEF Verdict
  <2> QED
    BY <1>1, <2>1, ReportFailover DEF ProviderAnswers
<1>2. ASSUME NEW verdict \in {"rotate", "refuse"}, ProviderRejects(r, verdict) PROVE Failover'
  <2>1. verdict \in Verdict /\ verdict # "ok"
    BY DEF Verdict
  <2> QED
    BY <1>2, <2>1, ReportFailover DEF ProviderRejects
<1>3. CASE ProviderBreaks(r)
  BY <1>3, EndFailover
<1> QED
  BY <1>1, <1>2, <1>3 DEF ProviderReturns

\* Once its report returned a request ends as its verdict says, or gives the
\* current key up.
LEMMA AfterReportFailover ==
    ASSUME FIInv, NEW r \in Requests, req[r].pc = "reporting", AfterReport(r),
           answered' = answered, rejected' = rejected
    PROVE  Failover'
<1> DEFINE k    == Current(r).key
           left == IF req[r].verdict = "rotate" THEN req[r].left \ {Current(r)} ELSE req[r].left
           outcome == CASE req[r].verdict = "ok"     -> "ok"
                        [] req[r].verdict = "refuse" -> "error"
                        [] OTHER -> IF left = {} THEN "unavailable" ELSE "none"
<1>1. FailoverOf(r) /\ req \in [Requests -> Request] /\ req[r] \in Request
  BY DEF FIInv, Failover, GIInv, GTypeOK
<1>2. /\ req'[r].pc = IF outcome = "none" THEN "trying" ELSE "done"
      /\ req'[r].left = IF outcome = "none" THEN left ELSE {}
      /\ req'[r].outcome = outcome
      /\ req'[r].config = req[r].config
      /\ \A q \in Requests : q # r => req'[q] = req[q]
  BY <1>1 DEF AfterReport, Request
<1>3. /\ Current(r) \in req[r].left /\ req[r].left \subseteq req[r].config.keys
      /\ k \in Keys /\ Rank[k] \in Nat
      /\ \A f \in req[r].left : Rank[k] <= Rank[f.key]
      /\ \A e \in req[r].config.keys : e.key \in Keys /\ Rank[e.key] \in Nat
  BY CurrentFacts
<1>4. AnsweredBy(r)' = AnsweredBy(r) /\ RejectedBy(r)' = RejectedBy(r)
  BY DEF AnsweredBy, RejectedBy
<1>5. req[r].verdict \in Verdict /\ Usable(r, req[r].config)
  BY <1>1 DEF Request, FailoverOf, Verdicts
<1>6. InOrderOf(r)'
  BY <1>1, <1>2 DEF FailoverOf, InOrderOf
<1>7. CASE req[r].verdict = "ok"
  <2>1. outcome = "ok"
    BY <1>7
  <2>2. AnsweredBy(r) # {}
    BY <1>1, <1>7 DEF FailoverOf, Verdicts
  <2>3. Verdicts(r)' /\ Urgent(r)'
    BY <1>2, <2>1 DEF Verdicts, Urgent
  <2>4. HonestOf(r)'
    BY <1>2, <1>4, <1>5, <2>1, <2>2 DEF HonestOf
  <2> QED
    BY <1>2, <1>6, <2>3, <2>4, FailoverStep DEF FIInv, FailoverOf
<1>8. CASE req[r].verdict = "refuse"
  <2>1. outcome = "error"
    BY <1>8
  <2>2. AnsweredBy(r) = {}
    BY <1>1, <1>8 DEF FailoverOf, Verdicts
  <2>3. Verdicts(r)' /\ Urgent(r)'
    BY <1>2, <2>1 DEF Verdicts, Urgent
  <2>4. HonestOf(r)'
    BY <1>2, <1>4, <1>5, <2>1, <2>2 DEF HonestOf
  <2> QED
    BY <1>2, <1>6, <2>3, <2>4, FailoverStep DEF FIInv, FailoverOf
<1>9. CASE req[r].verdict = "rotate"
  <2>1. left = req[r].left \ {Current(r)}
          /\ outcome = IF left = {} THEN "unavailable" ELSE "none"
    BY <1>9
  <2>2. AnsweredBy(r) = {} /\ RejectedBy(r) = GivenUp(r) \cup {k}
    BY <1>1, <1>9 DEF FailoverOf, Verdicts
  <2>3. \A e \in req[r].config.keys \ left : e.key \in RejectedBy(r)
    BY <1>3, <2>1, <2>2 DEF GivenUp
  <2>4. \A e \in req[r].config.keys \ left, f \in left : Rank[e.key] <= Rank[f.key]
    <3>1. SUFFICES ASSUME NEW e \in req[r].config.keys \ left, NEW f \in left
                   PROVE  Rank[e.key] <= Rank[f.key]
      OBVIOUS
    <3>2. f \in req[r].left
      BY <2>1
    <3>3. CASE e = Current(r)
      BY <1>3, <3>2, <3>3
    <3>4. CASE e # Current(r)
      <4>1. e \in req[r].config.keys \ req[r].left
        BY <2>1, <3>4
      <4> QED
        BY <1>1, <3>2, <4>1 DEF FailoverOf, Urgent
    <3> QED
      BY <3>3, <3>4
  <2>5. CASE left = {}
    <3>1. outcome = "unavailable"
      BY <2>1, <2>5
    <3>2. Verdicts(r)' /\ Urgent(r)'
      BY <1>2, <3>1 DEF Verdicts, Urgent
    <3>3. {e.key : e \in req[r].config.keys} \subseteq RejectedBy(r)
      BY <2>3, <2>5
    <3>4. HonestOf(r)'
      BY <1>2, <1>4, <1>5, <2>2, <3>1, <3>3 DEF HonestOf
    <3> QED
      BY <1>2, <1>6, <3>2, <3>4, FailoverStep DEF FIInv, FailoverOf
  <2>6. CASE left # {}
    <3>1. outcome = "none"
      BY <2>1, <2>6
    <3>2. req'[r].pc = "trying" /\ req'[r].left = left
      BY <1>2, <3>1
    <3>3. GivenUp(r)' = GivenUp(r) \cup {k}
      <4>1. req[r].config.keys \ left = (req[r].config.keys \ req[r].left) \cup {Current(r)}
        BY <1>3, <2>1
      <4> QED
        BY <1>2, <3>2, <4>1 DEF GivenUp
    <3>4. Verdicts(r)'
      BY <1>2, <1>4, <1>5, <2>2, <3>2, <3>3 DEF Verdicts
    <3>5. Urgent(r)' /\ HonestOf(r)'
      BY <1>2, <2>4, <3>2 DEF Urgent, HonestOf
    <3> QED
      BY <1>2, <1>6, <3>4, <3>5, FailoverStep DEF FIInv, FailoverOf
  <2> QED
    BY <2>5, <2>6
<1> QED
  BY <1>5, <1>7, <1>8, <1>9 DEF Verdict

LEMMA ReportReturnsFailover ==
    ASSUME FIInv, NEW r \in Requests, ReportReturns(r)
    PROVE  Failover'
<1>1. answered' = answered /\ rejected' = rejected /\ req[r].pc = "reporting"
  BY DEF ReportReturns, ReportAcked, ReportTimesOut, historyVars
<1>2. CASE AfterReport(r)
  BY <1>1, <1>2, AfterReportFailover
<1>3. CASE req' = [req EXCEPT ![r].attempt = 2]
  <2>1. FailoverOf(r) /\ req \in [Requests -> Request] /\ req[r] \in Request
    BY DEF FIInv, Failover, GIInv, GTypeOK
  <2>2. /\ req'[r].pc = req[r].pc /\ req'[r].left = req[r].left
        /\ req'[r].config = req[r].config /\ req'[r].source = req[r].source
        /\ req'[r].verdict = req[r].verdict /\ req'[r].outcome = req[r].outcome
        /\ \A q \in Requests : q # r => req'[q] = req[q]
    BY <1>3, <2>1 DEF Request
  <2>3. FailoverOf(r)'
    BY <1>1, <2>1, <2>2, FailoverKept
  <2> QED
    BY <1>1, <2>2, <2>3, FailoverStep DEF FIInv
<1> QED
  BY <1>2, <1>3 DEF ReportReturns, ReportAcked, ReportTimesOut

LEMMA CrashFailover ==
    ASSUME FIInv, GatewayCrash
    PROVE  Failover'
<1> SUFFICES ASSUME NEW r \in Requests PROVE FailoverOf(r)'
  BY DEF Failover
<1>1. FailoverOf(r) /\ req[r] \in Request
  BY DEF FIInv, Failover, GIInv, GTypeOK
<1>2. answered' = answered /\ rejected' = rejected
  BY DEF GatewayCrash, historyVars
<1>3. req'[r] = req[r] \/ (req'[r].pc = "lost" /\ req'[r].config = req[r].config)
  BY <1>1 DEF GatewayCrash, Request
<1>4. CASE req'[r] = req[r]
  BY <1>1, <1>2, <1>4, FailoverKept
<1>5. CASE req'[r].pc = "lost" /\ req'[r].config = req[r].config
  BY <1>1, <1>2, <1>5 DEF FailoverOf, Verdicts, Urgent, HonestOf, InOrderOf
<1> QED
  BY <1>3, <1>4, <1>5

LEMMA FailoverQuiet ==
    ASSUME Failover, UNCHANGED <<req, answered, rejected>>
    PROVE  Failover'
<1> SUFFICES ASSUME NEW r \in Requests PROVE FailoverOf(r)'
  BY DEF Failover
<1>1. FailoverOf(r) /\ req'[r] = req[r]
  BY DEF Failover
<1> QED
  BY <1>1, FailoverKept

LEMMA GNextFailover ==
    ASSUME FIInv, [GNext]_allVars
    PROVE  Failover'
<1>1. CASE Backend
  <2>1. UNCHANGED <<req, answered, rejected>>
    BY <1>1 DEF Backend, BackendAdmin, BackendSelects, BackendReceives, BackendContinues,
           BackendAborts,
                gatewayVars, historyVars
  <2> QED
    BY <2>1, FailoverQuiet DEF FIInv
<1>2. ASSUME NEW r \in Requests,
             StartFetch(r) \/ BackendReplies(r) \/ FetchReturns(r)
               \/ ProviderReturns(r) \/ ReportReturns(r) \/ LocalKey(r)
      PROVE  Failover'
  BY <1>2, StartFetchFailover, FetchFailover, ProviderFailover, ReportReturnsFailover, EndFailover
<1>3. CASE GatewayCrash
  BY <1>3, CrashFailover
<1>4. CASE UNCHANGED allVars
  <2>1. UNCHANGED <<req, answered, rejected>>
    BY <1>4 DEF allVars, gatewayVars, historyVars
  <2> QED
    BY <2>1, FailoverQuiet DEF FIInv
<1> QED
  BY <1>1, <1>2, <1>3, <1>4 DEF GNext

-----------------------------------------------------------------------------
(* Every config names a key once and has the profiles of its models.        *)

LEMMA PublishedWhole ==
    ASSUME GIInv, GIInv'
    PROVE  Whole(Published) /\ Whole(Published') /\ Whole(NoRoutes)
<1>1. selected \subseteq release /\ selected' \subseteq release'
  BY DEF GIInv, GTypeOK
<1>2. Whole(Published)
  BY <1>1 DEF Whole, Published
<1>3. Whole(Published')
  BY <1>1 DEF Whole, Published
<1> QED
  BY <1>2, <1>3 DEF Whole, NoRoutes

\* A step adds to the history no config but the one the registry publishes.
LEMMA EverPublishedStep ==
    ASSUME FIInv, [GNext]_allVars
    PROVE  \A c \in EverPublished' : Whole(c)
<1>1. \A c \in EverPublished : Whole(c)
  BY DEF FIInv, WholeConfigs
<1>2. published \in [Requests -> SUBSET Config]
  BY DEF FIInv, GIInv, GTypeOK
<1>3. \A r \in Requests : \A c \in published'[r] : c \in published[r] \/ c = Published \/ c = Published'
  <2>1. CASE published' = published
    BY <2>1
  <2>2. CASE Publish
    BY <2>2 DEF Publish
  <2>3. ASSUME NEW q \in Requests, StartFetch(q)
        PROVE  \A r \in Requests : \A c \in published'[r] : c \in published[r] \/ c = Published
    BY <1>2, <2>3 DEF StartFetch
  <2>4. \/ published' = published \/ Publish
        \/ \E q \in Requests : StartFetch(q)
    BY DEF GNext, Backend, BackendAdmin, BackendSelects, BackendReceives, BackendContinues,
           BackendAborts,
           BackendReplies, FetchReturns, FetchAccepted, FetchRefused, FetchFails, UseCache,
           ProviderReturns, ProviderAnswers, ProviderRejects, ProviderBreaks, Report,
           ReportReturns, ReportAcked, ReportTimesOut, LocalKey, GatewayCrash,
           historyVars, allVars
  <2> QED
    BY <2>1, <2>2, <2>3, <2>4
<1>4. ASSUME NEW c \in EverPublished' PROVE c \in EverPublished \/ c = Published \/ c = Published'
  BY <1>3 DEF EverPublished
<1>5. Whole(Published) /\ Whole(Published')
  BY GNextIInv, PublishedWhole DEF FIInv
<1> QED
  BY <1>1, <1>4, <1>5

\* A request keeps its config, or takes one that was published, or none.
LEMMA ConfigStep ==
    ASSUME FIInv, [GNext]_allVars, NEW r \in Requests
    PROVE  req'[r].config = req[r].config \/ req'[r].config \in EverPublished \cup {NoRoutes}
<1>1. req \in [Requests -> Request] /\ \A q \in Requests : req[q] \in Request
  BY DEF FIInv, GIInv, GTypeOK
<1>2. {memory, file} \subseteq EverPublished \cup {NoConfig}
        /\ \A q \in Requests : req[q].pc = "replied" => req[q].reply \in EverPublished
  BY DEF FIInv, GIInv, ConfigsAreGenuine, Delivered, EverPublished
<1>3. ASSUME NEW q \in Requests, FetchReturns(q)
      PROVE  req'[r].config = req[r].config \/ req'[r].config \in EverPublished \cup {NoRoutes}
  <2>1. ASSUME NEW config, NEW source, NEW fetch, Resolve(q, config, source, fetch),
               config \in EverPublished \cup {NoRoutes}
        PROVE  req'[r].config = req[r].config \/ req'[r].config \in EverPublished \cup {NoRoutes}
    BY <1>1, <2>1 DEF Resolve, Request
  <2>2. CASE FetchAccepted(q)
    BY <1>2, <2>1, <2>2 DEF FetchAccepted
  <2>3. ASSUME NEW fetch, UseCache(q, fetch)
        PROVE  req'[r].config = req[r].config \/ req'[r].config \in EverPublished \cup {NoRoutes}
    BY <1>2, <2>1, <2>3 DEF UseCache
  <2> QED
    BY <1>3, <2>2, <2>3 DEF FetchReturns, FetchRefused, FetchFails
<1>4. CASE UNCHANGED req
  BY <1>4
<1>5. CASE GatewayCrash
  BY <1>1, <1>5 DEF GatewayCrash, Request
<1>6. ASSUME NEW q \in Requests,
             StartFetch(q) \/ BackendReplies(q) \/ ProviderReturns(q) \/ ReportReturns(q) \/ LocalKey(q)
      PROVE  req'[r].config = req[r].config
  <2>1. CASE StartFetch(q) \/ BackendReplies(q) \/ LocalKey(q)
    BY <1>1, <2>1 DEF Request, StartFetch, BackendReplies, LocalKey
  <2>2. CASE ProviderReturns(q)
    <3>1. CASE req' = [req EXCEPT ![q].pc = "done", ![q].outcome = "error"]
      BY <1>1, <3>1 DEF Request
    <3>2. ASSUME NEW verdict, Report(q, verdict) PROVE req'[r].config = req[r].config
      <4>1. req'[q].config = req[q].config /\ (r # q => req'[r] = req[r])
        BY <1>1, <3>2 DEF Report, Request
      <4> QED
        BY <4>1
    <3> QED
      BY <2>2, <3>1, <3>2 DEF ProviderReturns, ProviderAnswers, ProviderRejects, ProviderBreaks
  <2>3. CASE ReportReturns(q)
    <3>1. CASE AfterReport(q)
      <4>1. req'[q].config = req[q].config /\ (r # q => req'[r] = req[r])
        BY <1>1, <3>1 DEF AfterReport, Request
      <4> QED
        BY <4>1
    <3>2. CASE req' = [req EXCEPT ![q].attempt = 2]
      BY <1>1, <3>2 DEF Request
    <3> QED
      BY <2>3, <3>1, <3>2 DEF ReportReturns, ReportAcked, ReportTimesOut
  <2> QED
    BY <1>6, <2>1, <2>2, <2>3
<1>7. Backend \/ UNCHANGED allVars => UNCHANGED req
  BY DEF Backend, BackendAdmin, BackendSelects, BackendReceives, BackendContinues,
           BackendAborts,
         gatewayVars, allVars
<1> QED
  BY <1>3, <1>4, <1>5, <1>6, <1>7 DEF GNext

LEMMA WholeConfigsStep ==
    ASSUME FIInv, [GNext]_allVars
    PROVE  WholeConfigs'
<1>1. \A r \in Requests : Whole(req'[r].config)
  BY ConfigStep, GNextIInv, PublishedWhole DEF FIInv, WholeConfigs
<1> QED
  BY <1>1, EverPublishedStep DEF WholeConfigs

\* No key is created while the behaviour runs: all are there from the start.
LEMMA RegisteredStep ==
    ASSUME FIInv, [GNext]_allVars
    PROVE  registered' = Keys
<1>1. registered = Keys
  BY DEF FIInv
<1>2. CASE Backend
  BY <1>1, <1>2
  DEF Backend, BackendAdmin, BackendSelects, BackendReceives, BackendContinues,
           BackendAborts,
      vars, AdminRequest, CreateKey, PatchKey, DisableKey, UpdateRow, ReceiveTelemetry, Continue,
     RecordAdminEvent, RefreshSnapshots, WriteAudit, Abort
<1>3. Backend \/ UNCHANGED vars
  BY DEF GNext, StartFetch, BackendReplies, FetchReturns, FetchAccepted, FetchRefused,
         FetchFails, UseCache, ProviderReturns, ProviderAnswers, ProviderRejects,
         ProviderBreaks, Report, ReportReturns, ReportAcked, ReportTimesOut, LocalKey,
         GatewayCrash, allVars
<1> QED
  BY <1>1, <1>2, <1>3 DEF vars

-----------------------------------------------------------------------------
(* Counting the reports of failures.                                        *)

\* Adding at most one element to a finite set, and removing one.
LEMMA AtMostOneMore ==
    ASSUME NEW S, IsFiniteSet(S), NEW x, NEW T \in SUBSET (S \cup {x})
    PROVE  IsFiniteSet(T) /\ Cardinality(T) <= Cardinality(S) + 1
             /\ Cardinality(S) \in Nat /\ Cardinality(T) \in Nat
<1>1. /\ IsFiniteSet(S \cup {x}) /\ Cardinality(S) \in Nat
      /\ Cardinality(S \cup {x}) \in {Cardinality(S), Cardinality(S) + 1}
  BY FS_AddElement, FS_CardinalityType
<1>2. IsFiniteSet(T) /\ Cardinality(T) <= Cardinality(S \cup {x})
  BY <1>1, FS_Subset
<1>3. Cardinality(T) \in Nat
  BY <1>2, FS_CardinalityType
<1> QED
  BY <1>1, <1>2, <1>3

LEMMA OneMore ==
    ASSUME NEW S, NEW T, IsFiniteSet(T), NEW x \in T, S \subseteq T, x \notin S
    PROVE  Cardinality(S) + 1 <= Cardinality(T) /\ Cardinality(S) \in Nat /\ Cardinality(T) \in Nat
<1>1. IsFiniteSet(S) /\ S \cup {x} \in SUBSET T
  BY FS_Subset
<1>2. Cardinality(S \cup {x}) = Cardinality(S) + 1
  BY <1>1, FS_AddElement
<1>3. Cardinality(S \cup {x}) <= Cardinality(T)
  BY <1>1, FS_Subset
<1> QED
  BY <1>1, <1>2, <1>3, FS_CardinalityType

\* The numbers the count is made of.
LEMMA CountType ==
    ASSUME FIInv, NEW k \in Keys
    PROVE  /\ CountOf(k) /\ keys[k].failures \in Nat
           /\ IsFiniteSet(Repeated(k)) /\ Repeated(k) \subseteq Rejections(k)
           /\ Cardinality(Waiting(k)) \in Nat /\ Cardinality(Rejections(k)) \in Nat
           /\ Cardinality(Repeated(k)) \in Nat
<1>1. CountOf(k) /\ keys[k] \in KeyRow
  BY DEF FIInv, Counted, GIInv, IInv, TypeOK
<1>2. keys[k].failures \in Nat
  BY <1>1 DEF KeyRow
<1>3. IsFiniteSet(Waiting(k)) /\ IsFiniteSet(Rejections(k)) /\ Repeated(k) \subseteq Rejections(k)
  BY <1>1 DEF CountOf, Repeated
<1>4. IsFiniteSet(Repeated(k))
  BY <1>3, FS_Subset
<1> QED
  BY <1>1, <1>2, <1>3, <1>4, FS_CardinalityType

\* No report is sent and no failure counted.
LEMMA CountKept ==
    ASSUME FIInv, NEW k \in Keys,
           keys'[k].failures \in Nat, keys'[k].failures <= keys[k].failures,
           Waiting(k)' \subseteq Waiting(k),
           Rejections(k)' = Rejections(k), Repeated(k) \subseteq Repeated(k)'
    PROVE  CountOf(k)'
<1>1. IsFiniteSet(Waiting(k)') /\ Cardinality(Waiting(k)') <= Cardinality(Waiting(k))
  BY CountType, FS_Subset DEF CountOf
<1>2. IsFiniteSet(Repeated(k)') /\ Cardinality(Repeated(k)) <= Cardinality(Repeated(k)')
  <2>1. Repeated(k)' \subseteq Rejections(k)
    BY DEF Repeated
  <2>2. IsFiniteSet(Repeated(k)')
    BY <2>1, CountType, FS_Subset DEF CountOf
  <2> QED
    BY <2>2, FS_Subset
<1>3. Cardinality(Waiting(k)') \in Nat /\ Cardinality(Repeated(k)') \in Nat
  BY <1>1, <1>2, FS_CardinalityType
<1>4. keys'[k].failures + Cardinality(Waiting(k)') <= Cardinality(Rejections(k)) + Cardinality(Repeated(k)')
  BY <1>1, <1>2, <1>3, CountType DEF CountOf
<1> QED
  BY <1>1, <1>4, CountType DEF CountOf

\* The first report of a failure is sent.
LEMMA CountFirst ==
    ASSUME FIInv, NEW k \in Keys, NEW r \in Requests, NEW p,
           keys'[k].failures = keys[k].failures,
           Waiting(k)' \subseteq Waiting(k) \cup {p},
           r \notin Rejections(k), Rejections(k)' = Rejections(k) \cup {r},
           Repeated(k) \subseteq Repeated(k)'
    PROVE  CountOf(k)'
<1>1. IsFiniteSet(Waiting(k)') /\ Cardinality(Waiting(k)') <= Cardinality(Waiting(k)) + 1
        /\ Cardinality(Waiting(k)') \in Nat
  BY CountType, AtMostOneMore DEF CountOf
<1>2. IsFiniteSet(Rejections(k)') /\ Cardinality(Rejections(k)') = Cardinality(Rejections(k)) + 1
  BY CountType, FS_AddElement DEF CountOf
<1>3. Cardinality(Repeated(k)) <= Cardinality(Repeated(k)') /\ Cardinality(Repeated(k)') \in Nat
  <2>1. Repeated(k)' \subseteq Rejections(k)'
    BY DEF Repeated
  <2>2. IsFiniteSet(Repeated(k)')
    BY <1>2, <2>1, FS_Subset
  <2> QED
    BY <2>2, FS_Subset, FS_CardinalityType
<1>4. keys'[k].failures + Cardinality(Waiting(k)')
        <= Cardinality(Rejections(k)') + Cardinality(Repeated(k)')
  BY <1>1, <1>2, <1>3, CountType DEF CountOf
<1> QED
  BY <1>1, <1>2, <1>4 DEF CountOf

\* The second report of a failure is sent.
LEMMA CountSecond ==
    ASSUME FIInv, NEW k \in Keys, NEW r, NEW p,
           keys'[k].failures = keys[k].failures,
           Waiting(k)' \subseteq Waiting(k) \cup {p},
           Rejections(k)' = Rejections(k), r \notin Repeated(k), r \in Repeated(k)',
           Repeated(k) \subseteq Repeated(k)'
    PROVE  CountOf(k)'
<1>1. IsFiniteSet(Waiting(k)') /\ Cardinality(Waiting(k)') <= Cardinality(Waiting(k)) + 1
        /\ Cardinality(Waiting(k)') \in Nat
  BY CountType, AtMostOneMore DEF CountOf
<1>2. Cardinality(Repeated(k)) + 1 <= Cardinality(Repeated(k)') /\ Cardinality(Repeated(k)') \in Nat
  <2>1. Repeated(k)' \subseteq Rejections(k)
    BY DEF Repeated
  <2>2. IsFiniteSet(Repeated(k)')
    BY <2>1, CountType, FS_Subset DEF CountOf
  <2> QED
    BY <2>2, OneMore
<1>3. keys'[k].failures + Cardinality(Waiting(k)')
        <= Cardinality(Rejections(k)) + Cardinality(Repeated(k)')
  BY <1>1, <1>2, CountType DEF CountOf
<1> QED
  BY <1>1, <1>3, CountType DEF CountOf

\* A report of a failure arrives and is counted.
LEMMA CountArrives ==
    ASSUME FIInv, NEW k \in Keys, NEW p \in Waiting(k),
           keys'[k].failures = keys[k].failures + 1,
           Waiting(k)' \subseteq Waiting(k) \ {p},
           Rejections(k)' = Rejections(k), Repeated(k)' = Repeated(k)
    PROVE  CountOf(k)'
<1>1. IsFiniteSet(Waiting(k)') /\ Cardinality(Waiting(k)') + 1 <= Cardinality(Waiting(k))
        /\ Cardinality(Waiting(k)') \in Nat
  <2>1. IsFiniteSet(Waiting(k)) /\ Waiting(k)' \subseteq Waiting(k) /\ p \notin Waiting(k)'
    BY CountType DEF CountOf
  <2> QED
    BY <2>1, FS_Subset, OneMore
<1>2. keys'[k].failures + Cardinality(Waiting(k)')
        <= Cardinality(Rejections(k)) + Cardinality(Repeated(k))
  BY <1>1, CountType DEF CountOf
<1> QED
  BY <1>1, <1>2, CountType DEF CountOf

\* A step of requests that sends no report and rejects nothing.
LEMMA CountQuiet ==
    ASSUME FIInv, keys' = keys, inbox' \subseteq inbox, rejected' = rejected,
           \A q \in Requests : req'[q] = req[q] \/ req'[q].pc # "reporting"
    PROVE  Counted'
<1> SUFFICES ASSUME NEW k \in Keys PROVE CountOf(k)'
  BY DEF Counted
<1>1. Waiting(k)' \subseteq Waiting(k) /\ Rejections(k)' = Rejections(k)
  BY DEF Waiting, Rejections
<1>2. ASSUME NEW q \in Requests, q \in Repeated(k) PROVE q \in Repeated(k)'
  <2>1. req'[q] = req[q] => Current(q)' = Current(q)
    BY DEF Current
  <2> QED
    BY <1>1, <1>2, <2>1 DEF Repeated
<1>3. Repeated(k) \subseteq Repeated(k)'
  BY <1>2 DEF Repeated, Rejections
<1> QED
  BY <1>1, <1>3, CountType, CountKept

\* The provider's verdict is posted for the first time.
LEMMA ReportCounted ==
    ASSUME FIInv, NEW r \in Requests, req[r].pc = "trying", NEW verdict \in Verdict,
           Report(r, verdict),
           rejected' = IF verdict = "ok" THEN rejected ELSE rejected \cup {<<r, Current(r).key>>}
    PROVE  Counted'
<1> DEFINE k    == Current(r).key
           type == IF verdict = "ok" THEN "success" ELSE "failure"
           post == [event |-> Event(r, k, type), attempt |-> 1]
<1>1. FailoverOf(r) /\ req \in [Requests -> Request] /\ req[r] \in Request
  BY DEF FIInv, Failover, GIInv, GTypeOK
<1>2. /\ req'[r].left = req[r].left
      /\ \A q \in Requests : q # r => req'[q] = req[q]
  BY <1>1 DEF Report, Request
<1>3. keys' = keys /\ inbox' = inbox \cup {post}
  BY DEF Report, vars
<1>4. post.event.key = k /\ post.event.type = type /\ (type = "failure" => verdict # "ok")
  BY DEF Event
<1>5. r \notin Rejections(k)
  <2>1. k \notin RejectedBy(r) /\ k \in Keys
    BY <1>1, CurrentFacts DEF FailoverOf, Verdicts
  <2> QED
    BY <2>1 DEF RejectedBy, Rejections
<1>6. \A q \in Requests : Current(q)' = Current(q)
  BY <1>2 DEF Current
<1> HIDE DEF k, type, post
<1>7. SUFFICES ASSUME NEW j \in Keys PROVE CountOf(j)'
  BY DEF Counted
<1>8. Rejections(j) \subseteq Rejections(j)'
  BY DEF Rejections
<1>9. Repeated(j) \subseteq Repeated(j)'
  <2>1. ASSUME NEW q \in Repeated(j), q # r PROVE q \in Repeated(j)'
    BY <1>2, <1>6, <1>8, <2>1 DEF Repeated, Rejections
  <2>2. r \in Repeated(j) => j # k
    BY <1>5 DEF Repeated
  <2>3. r \in Repeated(j) => r \in Repeated(j)'
    BY <1>6, <1>8, <2>2 DEF Repeated, k
  <2> QED
    BY <2>1, <2>3
<1>10. CASE j = k /\ verdict # "ok"
  <2>1. Rejections(j)' = Rejections(j) \cup {r}
    BY <1>10 DEF Rejections, k
  <2>2. Waiting(j)' \subseteq Waiting(j) \cup {post}
    BY <1>3 DEF Waiting
  <2> QED
    BY <1>3, <1>5, <1>9, <1>10, <2>1, <2>2, CountFirst
<1>11. CASE j # k \/ verdict = "ok"
  <2>1. Rejections(j)' = Rejections(j)
    BY <1>11 DEF Rejections, k
  <2>2. Waiting(j)' \subseteq Waiting(j)
    BY <1>3, <1>4, <1>11 DEF Waiting
  <2> QED
    BY <1>3, <1>9, <2>1, <2>2, CountType, CountKept
<1> QED
  BY <1>10, <1>11

LEMMA ProviderCounted ==
    ASSUME FIInv, NEW r \in Requests, ProviderReturns(r)
    PROVE  Counted'
<1>1. CASE ProviderAnswers(r)
  <2>1. "ok" \in Verdict
    BY DEF Verdict
  <2> QED
    BY <1>1, <2>1, ReportCounted DEF ProviderAnswers
<1>2. ASSUME NEW verdict \in {"rotate", "refuse"}, ProviderRejects(r, verdict) PROVE Counted'
  <2>1. verdict \in Verdict /\ verdict # "ok"
    BY DEF Verdict
  <2> QED
    BY <1>2, <2>1, ReportCounted DEF ProviderRejects
<1>3. CASE ProviderBreaks(r)
  <2>1. req \in [Requests -> Request] /\ req[r] \in Request
    BY DEF FIInv, GIInv, GTypeOK
  <2>2. \A q \in Requests : req'[q] = req[q] \/ req'[q].pc # "reporting"
    BY <1>3, <2>1 DEF ProviderBreaks, Request
  <2> QED
    BY <1>3, <2>2, CountQuiet DEF ProviderBreaks, vars, historyVars
<1> QED
  BY <1>1, <1>2, <1>3 DEF ProviderReturns

\* The second post of a verdict.
LEMMA RetryCounted ==
    ASSUME FIInv, NEW r \in Requests, ReportTimesOut(r), req[r].attempt = 1
    PROVE  Counted'
<1> DEFINE k    == Current(r).key
           type == IF req[r].verdict = "ok" THEN "success" ELSE "failure"
           post == [event |-> Event(r, k, type), attempt |-> 2]
<1>1. FailoverOf(r) /\ req \in [Requests -> Request] /\ req[r] \in Request /\ req[r].pc = "reporting"
  BY DEF FIInv, Failover, GIInv, GTypeOK, ReportTimesOut
<1>2. /\ req'[r].left = req[r].left /\ req'[r].attempt = 2
      /\ \A q \in Requests : q # r => req'[q] = req[q]
  BY <1>1 DEF ReportTimesOut, Request
<1>3. keys' = keys /\ inbox' = inbox \cup {post} /\ rejected' = rejected
  BY DEF ReportTimesOut, CurrentPost, vars, historyVars
<1>4. post.event.key = k /\ post.event.type = type
  BY DEF Event
<1>5. type = "failure" => r \in Rejections(k)
  <2>1. type = "failure" => k \in RejectedBy(r)
    BY <1>1 DEF FailoverOf, Verdicts
  <2> QED
    BY <2>1 DEF RejectedBy, Rejections
<1>6. \A q \in Requests : Current(q)' = Current(q)
  BY <1>2 DEF Current
<1> HIDE DEF type, post
<1>7. SUFFICES ASSUME NEW j \in Keys PROVE CountOf(j)'
  BY DEF Counted
<1>8. Rejections(j)' = Rejections(j)
  BY <1>3 DEF Rejections
<1>9. Repeated(j) \subseteq Repeated(j)'
  <2>1. ASSUME NEW q \in Repeated(j), q # r PROVE q \in Repeated(j)'
    BY <1>2, <1>6, <1>8, <2>1 DEF Repeated, Rejections
  <2>2. r \in Repeated(j) => r \in Repeated(j)'
    BY <1>2, <1>8 DEF Repeated
  <2> QED
    BY <2>1, <2>2
<1>10. CASE j = k /\ type = "failure"
  <2>1. r \notin Repeated(j) /\ r \in Repeated(j)'
    BY <1>1, <1>2, <1>5, <1>8, <1>10 DEF Repeated
  <2>2. Waiting(j)' \subseteq Waiting(j) \cup {post}
    BY <1>3 DEF Waiting
  <2> QED
    BY <1>3, <1>8, <1>9, <2>1, <2>2, CountSecond
<1>11. CASE j # k \/ type # "failure"
  <2>1. Waiting(j)' \subseteq Waiting(j)
    BY <1>3, <1>4, <1>11 DEF Waiting
  <2> QED
    BY <1>3, <1>8, <1>9, <2>1, CountType, CountKept
<1> QED
  BY <1>10, <1>11

LEMMA ReportReturnsCounted ==
    ASSUME FIInv, NEW r \in Requests, ReportReturns(r)
    PROVE  Counted'
<1>1. req \in [Requests -> Request] /\ req[r] \in Request
  BY DEF FIInv, GIInv, GTypeOK
<1>2. CASE AfterReport(r) /\ inbox' = inbox
  <2>1. \A q \in Requests : q # r => req'[q] = req[q]
    BY <1>1, <1>2 DEF AfterReport
  <2>2. req'[r].pc # "reporting"
    BY <1>1, <1>2 DEF AfterReport, Request
  <2>3. keys' = keys /\ rejected' = rejected
    BY DEF ReportReturns, ReportAcked, ReportTimesOut, vars, historyVars
  <2> QED
    BY <1>2, <2>1, <2>2, <2>3, CountQuiet
<1>3. CASE ReportTimesOut(r) /\ req[r].attempt = 1
  BY <1>3, RetryCounted
<1> QED
  BY <1>2, <1>3 DEF ReportReturns, ReportAcked, ReportTimesOut

\* The steps of a request that neither ask the provider nor report.
LEMMA OtherStepsCounted ==
    ASSUME FIInv, NEW r \in Requests,
           StartFetch(r) \/ BackendReplies(r) \/ FetchReturns(r) \/ LocalKey(r)
    PROVE  Counted'
<1>1. req \in [Requests -> Request] /\ req[r] \in Request
  BY DEF FIInv, GIInv, GTypeOK
<1>2. keys' = keys /\ inbox' = inbox /\ rejected' = rejected
  BY DEF StartFetch, BackendReplies, FetchReturns, FetchAccepted, FetchRefused, FetchFails,
         UseCache, LocalKey, vars, historyVars
<1>3. CASE StartFetch(r) \/ BackendReplies(r) \/ LocalKey(r)
  <2>1. \A q \in Requests : req'[q] = req[q] \/ req'[q].pc # "reporting"
    BY <1>1, <1>3 DEF StartFetch, BackendReplies, LocalKey, Request
  <2> QED
    BY <1>2, <2>1, CountQuiet
<1>4. ASSUME NEW config, NEW source, NEW fetch, Resolve(r, config, source, fetch) PROVE Counted'
  <2>1. \A q \in Requests : req'[q] = req[q] \/ req'[q].pc # "reporting"
    BY <1>1, <1>4 DEF Resolve, Request
  <2> QED
    BY <1>2, <2>1, CountQuiet
<1>5. FetchReturns(r) => \E config, source, fetch : Resolve(r, config, source, fetch)
  BY DEF FetchReturns, FetchAccepted, FetchRefused, FetchFails, UseCache
<1> QED
  BY <1>3, <1>4, <1>5

LEMMA CrashCounted ==
    ASSUME FIInv, GatewayCrash
    PROVE  Counted'
<1>1. \A q \in Requests : req[q] \in Request
  BY DEF FIInv, GIInv, GTypeOK
<1>2. keys' = keys /\ inbox' = inbox /\ rejected' = rejected
  BY DEF GatewayCrash, vars, historyVars
<1>3. \A q \in Requests : req'[q] = req[q] \/ req'[q].pc # "reporting"
  BY <1>1 DEF GatewayCrash, Request
<1> QED
  BY <1>2, <1>3, CountQuiet

\* What a step of the registry does to the failure counters.
LEMMA EventFailures ==
    ASSUME NEW row \in KeyRow, NEW type
    PROVE  /\ RowAfterEvent(row, type).failures \in Nat
           /\ type = "failure" => RowAfterEvent(row, type).failures = row.failures + 1
           /\ type # "failure" => RowAfterEvent(row, type).failures <= row.failures
BY DEF RowAfterEvent, KeyRow

LEMMA RegistryStepCounted ==
    ASSUME FIInv, UNCHANGED <<req, rejected>>, inbox' \subseteq inbox,
           \A k \in Keys : keys'[k].failures \in Nat /\ keys'[k].failures <= keys[k].failures
    PROVE  Counted'
<1> SUFFICES ASSUME NEW k \in Keys PROVE CountOf(k)'
  BY DEF Counted
<1>1. Waiting(k)' \subseteq Waiting(k) /\ Rejections(k)' = Rejections(k)
  BY DEF Waiting, Rejections
<1>2. Repeated(k)' = Repeated(k)
  BY DEF Repeated, Rejections, Current
<1> QED
  BY <1>1, <1>2, CountKept

LEMMA ReceivesCounted ==
    ASSUME FIInv, NEW p \in inbox, BackendReceives(p)
    PROVE  Counted'
<1> DEFINE e == p.event
<1>1. /\ inbox' = inbox \ {p} /\ req' = req /\ rejected' = rejected
      /\ keys' = IF e.key \in registered
                 THEN [keys EXCEPT ![e.key] = RowAfterEvent(keys[e.key], e.type)] ELSE keys
  BY DEF BackendReceives, ReceiveTelemetry, RecordEvent
<1>2. keys \in [Keys -> KeyRow]
  BY DEF FIInv, GIInv, IInv, TypeOK
<1>3. SUFFICES ASSUME NEW k \in Keys PROVE CountOf(k)'
  BY DEF Counted
<1>4. Rejections(k)' = Rejections(k)
  BY <1>1 DEF Rejections
<1>5. Repeated(k)' = Repeated(k)
  BY <1>1 DEF Repeated, Rejections, Current
<1> HIDE DEF e
<1>6. CASE e.key = k /\ e.type = "failure"
  <2>1. keys'[k] = RowAfterEvent(keys[k], e.type)
    BY <1>1, <1>2, <1>6 DEF FIInv
  <2>2. keys'[k].failures = keys[k].failures + 1
    BY <1>2, <1>6, <2>1, EventFailures
  <2>3. p \in Waiting(k) /\ Waiting(k)' \subseteq Waiting(k) \ {p}
    BY <1>1, <1>6 DEF Waiting, e
  <2> QED
    BY <1>4, <1>5, <2>2, <2>3, CountArrives
<1>7. CASE e.key # k \/ e.type # "failure"
  <2>1. keys'[k] = keys[k] \/ (keys'[k] = RowAfterEvent(keys[k], e.type) /\ e.type # "failure")
    BY <1>1, <1>2, <1>7
  <2>2. keys'[k].failures \in Nat /\ keys'[k].failures <= keys[k].failures
    BY <1>2, <2>1, CountType, EventFailures
  <2>3. Waiting(k)' \subseteq Waiting(k)
    BY <1>1 DEF Waiting
  <2> QED
    BY <1>4, <1>5, <2>2, <2>3, CountKept
<1> QED
  BY <1>6, <1>7

LEMMA BackendCounted ==
    ASSUME FIInv, Backend
    PROVE  Counted'
<1>1. keys \in [Keys -> KeyRow] /\ \A k \in Keys : keys[k] \in KeyRow /\ keys[k].failures \in Nat
  BY CountType DEF FIInv, GIInv, IInv, TypeOK
<1>2. CASE BackendAdmin
  <2>1. UNCHANGED <<req, rejected, inbox>>
    BY <1>2 DEF BackendAdmin, gatewayVars
  <2>2. ASSUME NEW k \in Keys, NEW op, NEW en, NEW s, NEW step, UpdateRow(op, k, en, s, step),
               NEW j \in Keys
        PROVE  keys'[j].failures = keys[j].failures
    <3>1. PatchedRow(keys[k], en, s).failures = keys[k].failures
      BY <1>1 DEF PatchedRow, KeyRow
    <3>2. keys' = [keys EXCEPT ![k] = PatchedRow(keys[k], en, s)]
      BY <2>2 DEF UpdateRow
    <3> QED
      BY <1>1, <3>1, <3>2
  <2>3. ASSUME NEW k \in Keys, NEW en, NEW s, CreateKey(k, en, s) PROVE FALSE
    BY <2>3 DEF CreateKey, FIInv
  <2>4. \A j \in Keys : keys'[j].failures = keys[j].failures
    BY <1>2, <2>2, <2>3 DEF BackendAdmin, AdminRequest, PatchKey, DisableKey
  <2> QED
    BY <1>1, <2>1, <2>4, RegistryStepCounted
<1>3. CASE BackendContinues
  <2>1. UNCHANGED <<req, rejected, inbox>> /\ Continue
    BY <1>3 DEF BackendContinues
  <2>2. CASE RecordAdminEvent
    <3> DEFINE type == IF handler.op = "create" THEN "created" ELSE "disabled"
    <3>1. keys' = IF handler.key \in registered
                  THEN [keys EXCEPT ![handler.key] = RowAfterEvent(keys[handler.key], type)]
                  ELSE keys
      BY <2>2 DEF RecordAdminEvent, RecordEvent
    <3>2. type # "failure"
      OBVIOUS
    <3> HIDE DEF type
    <3>3. \A k \in Keys : keys'[k] = keys[k] \/ keys'[k] = RowAfterEvent(keys[k], type)
      BY <1>1, <3>1
    <3>4. \A k \in Keys : keys'[k].failures \in Nat /\ keys'[k].failures <= keys[k].failures
      BY <1>1, <3>2, <3>3, EventFailures
    <3> QED
      BY <2>1, <3>4, RegistryStepCounted
  <2>3. CASE RefreshSnapshots \/ WriteAudit
    BY <1>1, <2>1, <2>3, RegistryStepCounted DEF RefreshSnapshots, WriteAudit
  <2> QED
    BY <2>1, <2>2, <2>3 DEF Continue
<1>4. CASE BackendAborts
  BY <1>1, <1>4, RegistryStepCounted DEF BackendAborts, Abort, historyVars
<1>5. CASE BackendSelects
  BY <1>1, <1>5, RegistryStepCounted DEF BackendSelects, vars
<1> QED
  BY <1>2, <1>3, <1>4, <1>5, ReceivesCounted DEF Backend

-----------------------------------------------------------------------------
LEMMA FInit == GInit => FIInv
<1> SUFFICES ASSUME GInit PROVE FIInv
  OBVIOUS
<1>1. GIInv
  BY GInitIInv
<1>2. /\ answered = {} /\ rejected = {} /\ inbox = {} /\ registered = Keys
      /\ \A r \in Requests : req[r] = NewRequest /\ published[r] = {}
  BY DEF GInit
<1>3. NewRequest.pc = "new" /\ NewRequest.config = NoRoutes /\ Whole(NoRoutes)
  BY DEF NewRequest, Whole, NoRoutes
<1>4. Failover
  BY <1>2, <1>3
  DEF Failover, FailoverOf, Verdicts, Urgent, HonestOf, InOrderOf, AnsweredBy, RejectedBy
<1>5. WholeConfigs
  BY <1>2, <1>3 DEF WholeConfigs, EverPublished
<1>6. ASSUME NEW k \in Keys PROVE CountOf(k)
  <2>1. PICK s \in Secrets : keys = [j \in Keys |-> NewRow(1, s)]
    BY DEF GInit
  <2>2. keys[k].failures = 0
    BY <2>1 DEF NewRow
  <2>3. Waiting(k) = {} /\ Rejections(k) = {} /\ Repeated(k) = {}
    BY <1>2 DEF Waiting, Rejections, Repeated
  <2> QED
    BY <2>2, <2>3, FS_EmptySet DEF CountOf
<1> QED
  BY <1>1, <1>2, <1>4, <1>5, <1>6 DEF FIInv, Counted

LEMMA FNext == FIInv /\ [GNext]_allVars => FIInv'
<1> SUFFICES ASSUME FIInv, [GNext]_allVars PROVE FIInv'
  OBVIOUS
<1>1. GIInv'
  BY GNextIInv DEF FIInv
<1>2. Counted'
  <2>1. CASE Backend
    BY <2>1, BackendCounted
  <2>2. ASSUME NEW r \in Requests,
               StartFetch(r) \/ BackendReplies(r) \/ FetchReturns(r)
                 \/ ProviderReturns(r) \/ ReportReturns(r) \/ LocalKey(r)
        PROVE  Counted'
    BY <2>2, OtherStepsCounted, ProviderCounted, ReportReturnsCounted
  <2>3. CASE GatewayCrash
    BY <2>3, CrashCounted
  <2>4. CASE UNCHANGED allVars
    <3>1. keys' = keys /\ inbox' = inbox /\ rejected' = rejected /\ req' = req
      BY <2>4 DEF allVars, vars, gatewayVars, historyVars
    <3> QED
      BY <3>1, CountQuiet
  <2> QED
    BY <2>1, <2>2, <2>3, <2>4 DEF GNext
<1> QED
  BY <1>1, <1>2, GNextFailover, WholeConfigsStep, RegisteredStep DEF FIInv

LEMMA FInvariance == GSpec => []FIInv
  BY FInit, FNext, PTL DEF GSpec

\* Whatever the backend, the network and the other requests do, a request with a
\* config it can use ended "ok" exactly if it had a completion, and "temporarily
\* unavailable" only after every key failed, since no config that was published lacks
\* the profile of a selected capability; any other request asked no key of the
\* registry (complete_json, _complete_with_remote_routing).
THEOREM OutcomesHonest == GSpec => []OutcomesAreHonest
<1>1. FIInv => OutcomesAreHonest
  BY DEF FIInv, Failover, FailoverOf, HonestOf, OutcomesAreHonest
<1> QED
  BY <1>1, FInvariance, PTL

\* For any number of keys with distinct priorities: no key is asked after one
\* answered, and none is asked before a more urgent one failed
\* (_complete_with_remote_routing).
THEOREM FailoverOrdered == GSpec => []FailoverInOrder
<1>1. FIInv => FailoverInOrder
  BY DEF FIInv, Failover, FailoverOf, InOrderOf, FailoverInOrder
<1> QED
  BY <1>1, FInvariance, PTL

\* With any number of requests, lost, late and repeated posts included, a key is
\* healthy only after a completion and its failure counter never exceeds twice the
\* failed completions (record_key_event, record_openrouter_key_event).
THEOREM HealthEarned == GSpec => []HealthIsEarned
<1>1. ASSUME FIInv PROVE HealthIsEarned
  <2> SUFFICES ASSUME NEW k \in Keys
               PROVE  /\ keys[k].status = "healthy" => \E r \in Requests : <<r, k>> \in answered
                      /\ keys[k].failures <= 2 * Cardinality({r \in Requests : <<r, k>> \in rejected})
    BY DEF HealthIsEarned
  <2>1. keys[k].status = "healthy" => \E r \in Requests : <<r, k>> \in answered
    BY <1>1 DEF FIInv, GIInv, IInv, HealthWitnessed, HasEvent, SuccessesReal, Completed
  <2>2. Cardinality(Repeated(k)) <= Cardinality(Rejections(k))
    BY <1>1, CountType, FS_Subset DEF CountOf
  <2>3. keys[k].failures <= 2 * Cardinality(Rejections(k))
    BY <1>1, <2>2, CountType DEF CountOf
  <2> QED
    BY <2>1, <2>3 DEF Rejections
<1> QED
  BY <1>1, FInvariance, PTL
=============================================================================
