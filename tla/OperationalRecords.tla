-------------------------- MODULE OperationalRecords --------------------------
(***************************************************************************)
(* The operational records of the backend and the privacy requests over    *)
(* them: the gateway's OperationalEventsClient posts records with retries, *)
(* the ingestion handlers store them commit by commit, and the admin       *)
(* handlers export a user's records, resolve a request or execute a        *)
(* delete.  Handlers await nothing, so they run one at a time.  Every one   *)
(* of their statements can fail, and nothing rolls back what a handler had *)
(* written by then: it stays on the connection for the next commit.        *)
(***************************************************************************)
EXTENDS Naturals, Sequences

CONSTANTS
    Users,        \* user ids
    Ids,          \* primary keys of the records
    Posts,        \* bodies the gateway posts
    Items,        \* [Posts -> Seq(Row)]: the records of a body
    Tickets,      \* rows of support_requests, which only the seeding writes
    TicketUser,   \* [Tickets -> Users]
    TicketType,   \* [Tickets -> {"export", "delete"}]
    TableOf,      \* [Ids -> 1..RecordTables]: the table of a record
    MaxTime,      \* bound: timestamps
    MaxAttempts,  \* max_retries + 1 of the client
    MaxAudits,    \* bound: audit rows per operation and ticket
    MaxCuts       \* bound: handlers cut by a statement that fails

VARIABLES
    lastSeen,   \* admin_users: last_seen_at per user, 0 when there is no row
    rows,       \* the per-user tables: usage, invocations, missions, feedback, safety
    status,     \* support_requests.status
    audit,      \* rows of admin_audit_log per operation and ticket
    durable,    \* the same four as they are committed
    client,     \* the gateway's _post() calls
    inbox,      \* attempts on their way to the backend
    handler,    \* the handler the event loop is running
    bundles,    \* history: bundles handed out, per ticket
    gone,       \* history: records that were erased or overwritten
    unseen,     \* history: records whose handler was cut before last_seen_at
    cutClosings, \* history: tickets whose closing was cut before its audit row
    executed,   \* history: tickets whose records were erased
    cuts        \* number of cut handlers

tableVars == <<lastSeen, rows, status, audit, durable>>
vars == <<tableVars, client, inbox, handler,
          bundles, gone, unseen, cutClosings, executed, cuts>>
historyVars == <<bundles, gone, unseen, cutClosings, executed, cuts>>

Time == 1..MaxTime
Row  == [id : Ids, user : Users, at : Time]

\* The tables of records by user, in the order in which a delete empties them.
RecordTables == 6

\* The admin operations on a ticket; a closing makes it "done".
Closing  == {"resolve", "execute"}
TicketOp == Closing \cup {"bundle"}

ASSUME RecordsAssumption ==
    /\ MaxTime \in Nat /\ MaxAttempts \in Nat \ {0}
    /\ MaxAudits \in Nat /\ MaxCuts \in Nat
    /\ Items \in [Posts -> Seq(Row)]
    /\ \A p \in Posts : Len(Items[p]) > 0
    /\ TicketUser \in [Tickets -> Users]
    /\ TicketType \in [Tickets -> {"export", "delete"}]
    /\ TableOf \in [Ids -> 1..RecordTables]

\* One call of _post(): `attempt` is the attempt it waits on.
Call == [pc : {"new", "waiting", "true", "false", "dead"}, attempt : 0..MaxAttempts]

Ingesting == [op : {"ingest"}, post : Posts, attempt : 1..MaxAttempts,
              item : Nat \ {0}, step : {"ensure", "insert", "seen", "answer"}]
Serving   == [op : TicketOp, ticket : Tickets, step : {"audit", "answer"}]
IdleHandler == [op |-> "none", step |-> "none"]
Idle        == handler = IdleHandler

\* The record the ingestion handler is at.
Item == Items[handler.post][handler.item]

KnownIn(seen) == {u \in Users : seen[u] > 0}
Known == KnownIn(lastSeen)

\* What a commit makes durable.
Contents == [lastSeen |-> lastSeen, rows |-> rows, status |-> status, audit |-> audit]

-----------------------------------------------------------------------------
(* The gateway's client.                                                   *)

\* The first attempt of a call.
Send(p) ==
    /\ client[p].pc = "new"
    /\ client' = [client EXCEPT ![p] = [pc |-> "waiting", attempt |-> 1]]
    /\ inbox' = inbox \cup {<<p, 1>>}
    /\ UNCHANGED <<tableVars, handler>> /\ UNCHANGED historyVars

\* An attempt fails for the client: a timeout (the backend may still handle it),
\* a refused connection or an error status.  After the last one it returns False.
Retry(p) ==
    LET n == client[p].attempt + 1
    IN  /\ client[p].pc = "waiting" /\ client[p].attempt < MaxAttempts
        /\ client' = [client EXCEPT ![p].attempt = n]
        /\ inbox' = inbox \cup {<<p, n>>}
        /\ UNCHANGED <<tableVars, handler>> /\ UNCHANGED historyVars

GiveUp(p) ==
    /\ client[p].pc = "waiting" /\ client[p].attempt = MaxAttempts
    /\ client' = [client EXCEPT ![p].pc = "false"]
    /\ UNCHANGED <<tableVars, inbox, handler>> /\ UNCHANGED historyVars

\* The gateway stops: its background tasks are nowhere stored.
GatewayDies(p) ==
    /\ client[p].pc \in {"new", "waiting"}
    /\ client' = [client EXCEPT ![p].pc = "dead"]
    /\ UNCHANGED <<tableVars, inbox, handler>> /\ UNCHANGED historyVars

Lose(m) ==
    /\ m \in inbox
    /\ inbox' = inbox \ {m}
    /\ UNCHANGED <<tableVars, client, handler>> /\ UNCHANGED historyVars

-----------------------------------------------------------------------------
(* The connection.  A statement changes what it sees; a commit makes all   *)
(* of that durable, what an earlier handler left behind included.          *)

\* Any statement, or the commit after it, may fail: the handler ends with a 500
\* and nothing is rolled back.
Interrupts ==
    /\ cuts < MaxCuts
    /\ handler' = IdleHandler
    /\ cuts' = cuts + 1
    /\ UNCHANGED durable

\* The commit of a step, after which the handler is at `next`.
Commits(next) ==
    \/ handler' = next /\ durable' = Contents' /\ UNCHANGED cuts
    \/ Interrupts

Interrupted == handler' = IdleHandler

\* A statement that fails before it changes anything, or an answer that does.
Cut ==
    /\ ~Idle /\ Interrupts
    /\ unseen' = IF handler.step = "seen" THEN unseen \cup {Item} ELSE unseen
    /\ cutClosings' = IF handler.op \in Closing /\ handler.step = "audit"
                      THEN cutClosings \cup {handler.ticket} ELSE cutClosings
    /\ UNCHANGED <<lastSeen, rows, status, audit, client, inbox, bundles, gone, executed>>

\* The backend starts again on what is durable: after a cut, this is a crash.
\* It is also how PostgreSQL, which refuses every statement after one that
\* failed, is used again, and SQLite when an error has rolled the rest back.
Reopen ==
    /\ Idle
    /\ lastSeen' = durable.lastSeen /\ rows' = durable.rows
    /\ status' = durable.status /\ audit' = durable.audit
    /\ UNCHANGED <<durable, client, inbox, handler>> /\ UNCHANGED historyVars

\* Some other handler commits on the same connection.
OtherCommit ==
    /\ Idle
    /\ durable' = Contents
    /\ UNCHANGED <<lastSeen, rows, status, audit, client, inbox, handler>>
    /\ UNCHANGED historyVars

-----------------------------------------------------------------------------
(* The ingestion handlers: up to three commits for each record of the body. *)

\* Mutant: the handler inserts without looking for the user first.
ReceiveUnensured(m) ==
    /\ Idle /\ m \in inbox
    /\ inbox' = inbox \ {m}
    /\ handler' = [op |-> "ingest", post |-> m[1], attempt |-> m[2],
                   item |-> 1, step |-> "insert"]
    /\ UNCHANGED <<tableVars, client>> /\ UNCHANGED historyVars

Receive(m) ==
    /\ Idle /\ m \in inbox
    /\ inbox' = inbox \ {m}
    /\ handler' = [op |-> "ingest", post |-> m[1], attempt |-> m[2],
                   item |-> 1, step |-> "ensure"]
    /\ UNCHANGED <<tableVars, client>> /\ UNCHANGED historyVars

\* _ensure_user(): a missing user is inserted, last seen now.
FindUser ==
    /\ handler.step = "ensure" /\ Item.user \in Known
    /\ handler' = [handler EXCEPT !.step = "insert"]
    /\ UNCHANGED <<tableVars, client, inbox>> /\ UNCHANGED historyVars

InsertUser ==
    /\ handler.step = "ensure" /\ Item.user \notin Known
    /\ \E now \in Time : lastSeen' = [lastSeen EXCEPT ![Item.user] = now]
    /\ UNCHANGED <<rows, status, audit, client, inbox,
                   bundles, gone, unseen, cutClosings, executed>>
    /\ Commits([handler EXCEPT !.step = "insert"])

\* INSERT ... ON CONFLICT DO UPDATE, the user_id of the row included.
InsertRow ==
    /\ handler.step = "insert"
    /\ rows' = {r \in rows : r.id # Item.id} \cup {Item}
    /\ gone' = gone \cup {r \in rows : r.id = Item.id /\ r # Item}
    /\ UNCHANGED <<lastSeen, status, audit, client, inbox, bundles, cutClosings, executed>>
    /\ Commits([handler EXCEPT !.step = "seen"])
    /\ unseen' = IF Interrupted THEN unseen \cup {Item} ELSE unseen

\* Mutant: the handler answers after the first record of the body.
NextItemFirstOnly == [handler EXCEPT !.step = "answer"]

\* After a record: the next one of the body, or the answer.
NextItem == IF handler.item < Len(Items[handler.post])
            THEN [handler EXCEPT !.item = @ + 1, !.step = "ensure"]
            ELSE [handler EXCEPT !.step = "answer"]

\* Mutant: the last delivery wins, however old it is.
LaterBlind(seen, at) == at

\* last_seen_at never moves back.
Later(seen, at) == IF seen > at THEN seen ELSE at

\* _update_last_seen()
UpdateLastSeen ==
    /\ handler.step = "seen"
    /\ lastSeen' = [lastSeen EXCEPT ![Item.user] = Later(@, Item.at)]
    /\ UNCHANGED <<rows, status, audit, client, inbox, bundles, gone, cutClosings, executed>>
    /\ Commits(NextItem)
    /\ unseen' = IF Interrupted THEN unseen \cup {Item} ELSE unseen \ {Item}

\* 202: it counts only if the client still waits on this attempt.
Accepted ==
    /\ handler.op = "ingest" /\ handler.step = "answer"
    /\ client' = IF client[handler.post] = [pc |-> "waiting", attempt |-> handler.attempt]
                 THEN [client EXCEPT ![handler.post].pc = "true"] ELSE client
    /\ handler' = IdleHandler
    /\ UNCHANGED <<tableVars, inbox>> /\ UNCHANGED historyVars

-----------------------------------------------------------------------------
(* The admin handlers: what they do, then the audit row.                   *)

\* Bound: each operation is asked for while its audit count has room.
MayServe(op, t) == Idle /\ audit[op][t] < MaxAudits

Served(op, t) == [op |-> op, ticket |-> t, step |-> "audit"]

\* Mutant: the bundle is handed out first and audited afterwards.
BundleEarly(t) ==
    /\ MayServe("bundle", t) /\ TicketType[t] = "export"
    /\ bundles' = [bundles EXCEPT ![t] = @ + 1]
    /\ handler' = Served("bundle", t)
    /\ UNCHANGED <<tableVars, client, inbox, gone, unseen, cutClosings, executed, cuts>>

\* support_request_bundle(): only reads before its audit row.
Bundle(t) ==
    /\ MayServe("bundle", t) /\ TicketType[t] = "export"
    /\ handler' = Served("bundle", t)
    /\ UNCHANGED <<tableVars, client, inbox>> /\ UNCHANGED historyVars

\* A closing that is interrupted before its audit row is durable.
CutClosing(t) == cutClosings' = IF Interrupted THEN cutClosings \cup {t} ELSE cutClosings

\* resolve_support_request(): a ticket of either type, its records untouched.
Resolve(t) ==
    /\ MayServe("resolve", t) /\ status[t] = "open"
    /\ status' = [status EXCEPT ![t] = "done"]
    /\ UNCHANGED <<lastSeen, rows, audit, client, inbox, bundles, gone, unseen, executed>>
    /\ Commits(Served("resolve", t))
    /\ CutClosing(t)

\* Mutant: a ticket that is done can be executed again.
ErasableAgain(t) == TicketType[t] = "delete"

Erasable(t) == TicketType[t] = "delete" /\ status[t] = "open"

\* Mutant: the user's own rows go first, then the records.
EraseUserFirst(u, k) ==
    /\ rows' = {r \in rows : r.user = u => TableOf[r.id] + 2 > k}
    /\ lastSeen' = IF k >= 1 THEN [lastSeen EXCEPT ![u] = 0] ELSE lastSeen

\* The first k DELETEs: the tables of records one by one, the profile, the user.
Erase(u, k) ==
    /\ rows' = {r \in rows : r.user = u => TableOf[r.id] > k}
    /\ lastSeen' = IF k >= RecordTables + 2 THEN [lastSeen EXCEPT ![u] = 0] ELSE lastSeen

\* execute_support_delete_request(): after the DELETEs the status, and one
\* commit for all of them.  It may end after any of the statements.
Execute(t) ==
    \E k \in 1..RecordTables + 3 :
        /\ MayServe("execute", t) /\ Erasable(t)
        /\ Erase(TicketUser[t], k)
        /\ status' = IF k = RecordTables + 3 THEN [status EXCEPT ![t] = "done"] ELSE status
        /\ executed' = IF k = RecordTables + 3 THEN executed \cup {t} ELSE executed
        /\ UNCHANGED <<audit, client, inbox, bundles, unseen>>
        /\ gone' = gone \cup (rows \ rows')
        /\ IF k = RecordTables + 3 THEN Commits(Served("execute", t)) ELSE Interrupts
        /\ CutClosing(t)

\* record_admin_audit(): the last commit of each of the three.
WriteAudit ==
    /\ handler.step = "audit"
    /\ audit' = [audit EXCEPT ![handler.op][handler.ticket] = @ + 1]
    /\ UNCHANGED <<lastSeen, rows, status, client, inbox, bundles, gone, unseen, executed>>
    /\ Commits([handler EXCEPT !.step = "answer"])
    /\ IF handler.op \in Closing THEN CutClosing(handler.ticket) ELSE UNCHANGED cutClosings

Answer ==
    /\ handler.op \in TicketOp /\ handler.step = "answer"
    /\ bundles' = IF handler.op = "bundle"
                  THEN [bundles EXCEPT ![handler.ticket] = @ + 1] ELSE bundles
    /\ handler' = IdleHandler
    /\ UNCHANGED <<tableVars, client, inbox, gone, unseen, cutClosings, executed, cuts>>

-----------------------------------------------------------------------------
\* The users of the tickets are seeded, the tickets open.
Init ==
    /\ lastSeen = [u \in Users |-> IF \E t \in Tickets : TicketUser[t] = u
                                   THEN MaxTime ELSE 0]
    /\ rows = {}
    /\ status = [t \in Tickets |-> "open"]
    /\ audit = [op \in TicketOp |-> [t \in Tickets |-> 0]]
    /\ durable = Contents
    /\ client = [p \in Posts |-> [pc |-> "new", attempt |-> 0]]
    /\ inbox = {} /\ handler = IdleHandler
    /\ bundles = [t \in Tickets |-> 0]
    /\ gone = {} /\ unseen = {} /\ cutClosings = {} /\ executed = {} /\ cuts = 0

Client == \/ \E p \in Posts : Send(p) \/ Retry(p) \/ GiveUp(p) \/ GatewayDies(p)
          \/ \E m \in inbox : Lose(m)

Ingest == \/ \E m \in inbox : Receive(m)
          \/ FindUser \/ InsertUser \/ InsertRow \/ UpdateLastSeen \/ Accepted

Admin == \/ \E t \in Tickets : Bundle(t) \/ Resolve(t) \/ Execute(t)
         \/ WriteAudit \/ Answer

Next == Client \/ Ingest \/ Admin \/ Cut \/ Reopen \/ OtherCommit

Spec == Init /\ [][Next]_vars

-----------------------------------------------------------------------------
(* Properties.  They are about what the connection sees and about what is  *)
(* durable, which is what a restart goes on with.                          *)

Stored == [lastSeen : [Users -> 0..MaxTime],
           rows     : SUBSET Row,
           status   : [Tickets -> {"open", "done"}],
           audit    : [TicketOp -> [Tickets -> Nat]]]

\* The state has its types, and every handler is at a step of its own.
TypeOK ==
    /\ lastSeen \in [Users -> 0..MaxTime]
    /\ rows \subseteq Row
    /\ status \in [Tickets -> {"open", "done"}]
    /\ audit \in [TicketOp -> [Tickets -> Nat]]
    /\ durable \in Stored
    /\ client \in [Posts -> Call]
    /\ inbox \subseteq Posts \X (1..MaxAttempts)
    /\ handler \in Ingesting \cup Serving \cup {IdleHandler}
    /\ bundles \in [Tickets -> Nat]
    /\ gone \subseteq Row /\ unseen \subseteq Row
    /\ cutClosings \subseteq Tickets /\ executed \subseteq Tickets
    /\ cuts \in Nat

\* A ticket is closed once: a done ticket has exactly one closing audit row, or
\* none if its closing is about to be audited or was cut before; an open one has
\* none (the 409 of the resolve and execute-delete handlers).
Closings(log, t) == log["resolve"][t] + log["execute"][t]
Auditing(t) == handler.op \in Closing /\ handler.step = "audit" /\ handler.ticket = t

ClosedOnceIn(states, log) ==
    \A t \in Tickets :
        /\ states[t] = "open" => Closings(log, t) = 0 /\ ~Auditing(t)
        /\ states[t] = "done" =>
               \/ Closings(log, t) = 1 /\ ~Auditing(t)
               \/ Closings(log, t) = 0 /\ (Auditing(t) \/ t \in cutClosings)

ClosedOnce == ClosedOnceIn(status, audit) /\ ClosedOnceIn(durable.status, durable.audit)

\* No bundle leaves the backend without its audit row on disk
\* (support_request_bundle records the download before it returns).
BundlesAudited == \A t \in Tickets : bundles[t] <= durable.audit["bundle"][t]

\* When _post() returns True, every record of the body is durable, and leaves
\* the store only erased with its user or overwritten by a record with its id.
AcceptedIsStored ==
    \A p \in Posts : client[p].pc = "true" =>
        \A i \in 1..Len(Items[p]) : Items[p][i] \in durable.rows \cup gone

\* A user was seen no earlier than the latest record stored for the user, in
\* whatever order records arrive, unless a handler was cut in between.
SeenCovers(seen, records) ==
    \A r \in records : \/ seen[r.user] >= r.at
                       \/ r \in unseen
                       \/ handler.step = "seen" /\ r = Item

LastSeenCovers ==
    SeenCovers(lastSeen, rows) /\ SeenCovers(durable.lastSeen, durable.rows)

\* The records are a RecordStore.  A delete may take a user's records in parts
\* and any commit may make a part of it durable, but no record is left without
\* its user in admin_users: the user goes only when no record remains.
Store == INSTANCE RecordStore
         WITH known <- Known, rows <- rows,
              saved <- [known |-> KnownIn(durable.lastSeen), rows |-> durable.rows]
KeepsRecordStore == Store!Spec

\* docs/api/WEB_BACKEND_API.md:62, the resolve route is to "mark an `export`
\* request as completed": a delete ticket is done only when its records were
\* erased.  It fails because the resolve handler takes a ticket of either type.
DeletesAreExecuted ==
    \A t \in Tickets : TicketType[t] = "delete" /\ status[t] = "done" => t \in executed
=============================================================================
