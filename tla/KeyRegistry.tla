------------------------------ MODULE KeyRegistry ------------------------------
(***************************************************************************)
(* The OpenRouter key registry of services/web_backend: the table          *)
(* openrouter_api_keys, the table openrouter_key_events and the admin      *)
(* audit log, with the HTTP handlers that write them.                      *)
(*                                                                         *)
(* A handler is an `async def` that never awaits while it works on the     *)
(* repository, so two handlers never interleave; but it commits several    *)
(* times, and an exception or a process crash between two commits leaves   *)
(* the earlier ones in place.  `handler` is the handler on the event loop, *)
(* and each action below is one of its commits.                            *)
(***************************************************************************)
EXTENDS Naturals

CONSTANTS
    Keys,         \* key ids
    Secrets,      \* provider secrets an operator can store in a key
    Telemetry,    \* payloads that POST /internal/openrouter-key-events can carry
    MaxWrites,    \* bound: admin writes in a behaviour
    MaxFailures,  \* bound: consecutive_failures of one key
    MaxAborts     \* bound: handlers cut short between two commits

VARIABLES
    registered,   \* key ids that have a row in openrouter_api_keys
    keys,         \* the rows; the row of an unregistered id is meaningless
    keyEvents,    \* rows of openrouter_key_events
    audit,        \* rows of admin_audit_log that concern keys
    handler,      \* the handler in progress, or Idle
    writes,       \* history: number of admin writes committed so far
    lost,         \* history: writes whose handler was cut before its audit row
    aborts        \* history: number of handlers cut short

vars == <<registered, keys, keyEvents, audit, handler, writes, lost, aborts>>

EventType == {"success", "failure", "created", "disabled", "enabled"}
Status    == {"unknown", "healthy", "degraded", "disabled"}
AdminOp   == {"create", "patch", "disable"}
Flag      == {0, 1}   \* the integer column `enabled`
Step      == {"event", "snapshots", "audit"}

\* The id of the key event an admin handler writes: a fresh uuid4 per write.
AdminEventId(w) == <<"admin", w>>

KeyRow  == [enabled : Flag, status : Status, failures : Nat, secret : Secrets]
EventId == {m.id : m \in Telemetry} \cup {AdminEventId(w) : w \in 1..MaxWrites}

EventRow == [id : EventId, key : Keys, type : EventType]
AuditRow == [write : 1..MaxWrites, op : AdminOp, key : Keys,
             enabled : Flag, status : Status]

Running == [op : AdminOp \cup {"telemetry"}, key : Keys, step : Step,
            result : [enabled : Flag, status : Status]]

ASSUME RegistryAssumption ==
    /\ MaxWrites \in Nat /\ MaxFailures \in Nat /\ MaxAborts \in Nat
    /\ Telemetry \subseteq [id : {m.id : m \in Telemetry}, key : Keys, type : EventType]
    /\ \A m, n \in Telemetry : m.id = n.id => m = n
    /\ \A m \in Telemetry, w \in 1..MaxWrites : m.id # AdminEventId(w)

-----------------------------------------------------------------------------
(* The handler on the event loop.                                          *)

Shown(row) == [enabled |-> row.enabled, status |-> row.status]

IdleHandler == [op |-> "none", step |-> "done"]

Idle == handler = IdleHandler

\* Mutant: a patch ends after its snapshots and writes no audit row.
NextStepUnaudited(op, step) ==
    CASE step = "event"     -> IF op = "create" THEN "audit" ELSE "snapshots"
      [] step = "snapshots" -> IF op = "create" THEN "event"
                               ELSE IF op \in {"telemetry", "patch"} THEN "done" ELSE "audit"
      [] OTHER              -> "done"

\* What a handler still has to commit, in the order of main.py.
NextStep(op, step) ==
    CASE step = "event"     -> IF op = "create" THEN "audit" ELSE "snapshots"
      [] step = "snapshots" -> IF op = "create" THEN "event"
                               ELSE IF op = "telemetry" THEN "done" ELSE "audit"
      [] OTHER              -> "done"

Begin(op, k, step, row) ==
    handler' = [op |-> op, key |-> k, step |-> step, result |-> Shown(row)]

Advance ==
    LET next == NextStep(handler.op, handler.step)
    IN  handler' = IF next = "done" THEN IdleHandler ELSE [handler EXCEPT !.step = next]

-----------------------------------------------------------------------------
(* Repository operations on a row.                                         *)

NewRow(en, s) ==
    [enabled  |-> en,
     status   |-> IF en = 1 THEN "unknown" ELSE "disabled",
     failures |-> 0,
     secret   |-> s]

\* An UPDATE with the optional fields of the payload: a missing field is the
\* row's own value.  Re-enabling a key does not touch its status.
PatchedRow(row, en, s) ==
    [row EXCEPT !.enabled = en,
                !.status  = IF en = 1 THEN row.status ELSE "disabled",
                !.secret  = s]

\* Mutant: the failure branch forgets the counter.
RowAfterEventNoCount(row, type) ==
    CASE type = "success"  -> [row EXCEPT !.status = "healthy", !.failures = 0]
      [] type = "failure"  -> [row EXCEPT !.status = "degraded"]
      [] type = "disabled" -> [row EXCEPT !.enabled = 0, !.status = "disabled"]
      [] type = "enabled"  -> [row EXCEPT !.enabled = 1, !.status = "unknown"]
      [] OTHER             -> row

\* Mutant: a success also puts the key back in rotation.
RowAfterEventRevives(row, type) ==
    CASE type = "success"  -> [row EXCEPT !.enabled = 1, !.status = "healthy",
                                          !.failures = 0]
      [] type = "failure"  -> [row EXCEPT !.status = "degraded", !.failures = @ + 1]
      [] type = "disabled" -> [row EXCEPT !.enabled = 0, !.status = "disabled"]
      [] type = "enabled"  -> [row EXCEPT !.enabled = 1, !.status = "unknown"]
      [] OTHER             -> row

\* What recording an event of this type does to the key's row.
RowAfterEvent(row, type) ==
    CASE type = "success"  -> [row EXCEPT !.status = "healthy", !.failures = 0]
      [] type = "failure"  -> [row EXCEPT !.status = "degraded", !.failures = @ + 1]
      [] type = "disabled" -> [row EXCEPT !.enabled = 0, !.status = "disabled"]
      [] type = "enabled"  -> [row EXCEPT !.enabled = 1, !.status = "unknown"]
      [] OTHER             -> row

\* INSERT ... ON CONFLICT(event_id): a repeated id keeps the key of the first row.
UpsertEvent(rows, m) ==
    {r \in rows : r.id # m.id} \cup
    {IF \E r \in rows : r.id = m.id
     THEN [(CHOOSE r \in rows : r.id = m.id) EXCEPT !.type = m.type]
     ELSE m}

\* One commit: the event row and, if the key exists, the key row.
RecordEvent(m) ==
    /\ keyEvents' = UpsertEvent(keyEvents, m)
    /\ keys' = IF m.key \in registered
               THEN [keys EXCEPT ![m.key] = RowAfterEvent(@, m.type)]
               ELSE keys

ActiveKeys == {k \in registered : keys[k].enabled = 1}

-----------------------------------------------------------------------------
(* Handlers.                                                               *)

TypeOK ==
    /\ registered \subseteq Keys
    /\ keys \in [Keys -> KeyRow]
    /\ keyEvents \subseteq EventRow
    /\ audit \subseteq AuditRow
    /\ handler \in Running \cup {IdleHandler}
    /\ writes \in 0..MaxWrites
    /\ lost \subseteq 1..MaxWrites
    /\ aborts \in 0..MaxAborts
    /\ handler.op \in AdminOp => writes > 0

Init ==
    /\ registered = {}
    /\ \E s \in Secrets : keys = [k \in Keys |-> NewRow(0, s)]
    /\ keyEvents = {}
    /\ audit = {}
    /\ handler = IdleHandler
    /\ writes = 0
    /\ lost = {}
    /\ aborts = 0

\* POST /admin/openrouter/keys, first commit: the INSERT.
CreateKey(k, en, s) ==
    /\ Idle /\ writes < MaxWrites
    /\ k \notin registered
    /\ registered' = registered \cup {k}
    /\ keys' = [keys EXCEPT ![k] = NewRow(en, s)]
    /\ writes' = writes + 1
    /\ Begin("create", k, "snapshots", NewRow(en, s))
    /\ UNCHANGED <<keyEvents, audit, lost, aborts>>

\* Mutant: the handler answers and audits with the row it read before the UPDATE.
UpdateRowStale(op, k, en, s, step) ==
    /\ Idle /\ writes < MaxWrites
    /\ k \in registered
    /\ keys' = [keys EXCEPT ![k] = PatchedRow(@, en, s)]
    /\ writes' = writes + 1
    /\ Begin(op, k, step, keys[k])
    /\ UNCHANGED <<registered, keyEvents, audit, lost, aborts>>

\* First commit shared by PATCH /admin/openrouter/keys/{id} and .../disable.
UpdateRow(op, k, en, s, step) ==
    /\ Idle /\ writes < MaxWrites
    /\ k \in registered
    /\ keys' = [keys EXCEPT ![k] = PatchedRow(@, en, s)]
    /\ writes' = writes + 1
    /\ Begin(op, k, step, PatchedRow(keys[k], en, s))
    /\ UNCHANGED <<registered, keyEvents, audit, lost, aborts>>

PatchKey(k, en, s) == UpdateRow("patch", k, en, s, "snapshots")

\* Mutant: disabling a key records no event.
DisableKeyQuiet(k) == UpdateRow("disable", k, 0, keys[k].secret, "snapshots")

DisableKey(k) == UpdateRow("disable", k, 0, keys[k].secret, "event")

\* POST /internal/openrouter-key-events, first commit: the event.
ReceiveTelemetry(m) ==
    /\ Idle
    /\ m.type = "failure" => keys[m.key].failures < MaxFailures
    /\ RecordEvent(m)
    /\ Begin("telemetry", m.key, "snapshots", keys[m.key])
    /\ UNCHANGED <<registered, audit, writes, lost, aborts>>

\* The "created" or "disabled" event an admin handler records itself.
RecordAdminEvent ==
    /\ handler.step = "event"
    /\ RecordEvent([id   |-> AdminEventId(writes),
                    key  |-> handler.key,
                    type |-> IF handler.op = "create" THEN "created" ELSE "disabled"])
    /\ Advance
    /\ UNCHANGED <<registered, audit, writes, lost, aborts>>

\* refresh_selection_snapshots(): rewrites another table (it ranks models, not
\* keys), but it is a commit of its own at which the handler can be cut.
RefreshSnapshots ==
    /\ handler.step = "snapshots"
    /\ Advance
    /\ UNCHANGED <<registered, keys, keyEvents, audit, writes, lost, aborts>>

\* record_admin_audit(): the last commit; safe_diff shows the handler's result.
WriteAudit ==
    /\ handler.step = "audit"
    /\ audit' = audit \cup {[write |-> writes, op |-> handler.op, key |-> handler.key,
                             enabled |-> handler.result.enabled,
                             status  |-> handler.result.status]}
    /\ Advance
    /\ UNCHANGED <<registered, keys, keyEvents, writes, lost, aborts>>

\* An exception or a crash between two commits: what is committed stays.
Abort ==
    /\ ~Idle /\ aborts < MaxAborts
    /\ handler' = IdleHandler
    /\ lost' = IF handler.op \in AdminOp THEN lost \cup {writes} ELSE lost
    /\ aborts' = aborts + 1
    /\ UNCHANGED <<registered, keys, keyEvents, audit, writes>>

Continue == RecordAdminEvent \/ RefreshSnapshots \/ WriteAudit

AdminRequest ==
    \E k \in Keys :
        \/ \E en \in Flag, s \in Secrets : CreateKey(k, en, s) \/ PatchKey(k, en, s)
        \/ DisableKey(k)

Next ==
    \/ AdminRequest
    \/ \E m \in Telemetry : ReceiveTelemetry(m)
    \/ Continue
    \/ Abort

Spec == Init /\ [][Next]_vars

-----------------------------------------------------------------------------
(* Properties.                                                             *)

HasEvent(k, type) == \E r \in keyEvents : r.key = k /\ r.type = type

\* The health an operator sees is earned: a key is "healthy" only if a success
\* was recorded for it and no failure counts since, "degraded" only if a failure
\* was recorded and still counts; duplicates, late reports, patches and cut
\* handlers included (record_openrouter_key_event, patch_openrouter_key).
HealthWitnessed ==
    \A k \in registered :
        /\ keys[k].status = "healthy" => keys[k].failures = 0 /\ HasEvent(k, "success")
        /\ keys[k].status = "degraded" => keys[k].failures > 0
        /\ keys[k].failures > 0 => HasEvent(k, "failure")

\* Every committed admin write is in the audit log, or is still in progress, or
\* was cut by a failure: no run of a handler that completes skips its audit row
\* and none writes two (main.py's handlers for create, patch and disable).
AuditedWrites == {row.write : row \in audit}
InProgress    == IF handler.op \in AdminOp THEN {writes} ELSE {}

TrailAccounted ==
    /\ 1..writes = AuditedWrites \cup lost \cup InProgress
    /\ AuditedWrites \cap lost = {}
    /\ InProgress \cap (AuditedWrites \cup lost) = {}

\* The audit row tells what the registry holds at the moment it is written: the
\* record the handler read back before its later commits is still the row's.
AuditShowsRow ==
    handler.step = "audit" => handler.result = Shown(keys[handler.key])

\* An audited "disable" left its "disabled" event, an audited "create" its
\* "created" event, and the events are about the audited key.
AuditBackedByEvent ==
    \A row \in audit :
        /\ row.op = "disable" => [id |-> AdminEventId(row.write), key |-> row.key,
                                  type |-> "disabled"] \in keyEvents
        /\ row.op = "create"  => [id |-> AdminEventId(row.write), key |-> row.key,
                                  type |-> "created"] \in keyEvents

\* What the audit log says happened: both of the above.
AuditIsTrue == AuditShowsRow /\ AuditBackedByEvent

\* A key returns to rotation only by an admin write on it or an explicit
\* "enabled" event: usage reports, however late or repeated, never undo a disable.
Reactivated(k) == k \notin ActiveKeys /\ k \in ActiveKeys'

ExplicitlyReactivated(k) ==
    \/ writes' = writes + 1 /\ handler'.key = k
    \/ \E m \in Telemetry : /\ m.key = k /\ m.type = "enabled"
                           /\ keyEvents' = UpsertEvent(keyEvents, m)

ReactivationIsExplicit ==
    [][\A k \in Keys : Reactivated(k) => ExplicitlyReactivated(k)]_vars
=============================================================================
