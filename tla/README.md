# GoLife AI: TLA+ models, checks and proofs

GoLife AI is a local-first mobile app with two services behind it: an AI gateway
that asks a model provider, and a control-plane backend that keeps provider keys,
operational records, privacy requests and billing decisions. This directory models
the control logic of the three: what each keeps, which handler or method changes
it in which steps, and what a cut, a lost or late message, a failed store or an
overlapping call can do between two steps. TLC checks the models on small
instances; TLAPS proves the most important results for every instance.
`PROJECT.json` holds the same project for tools: components, runs, the mutant that
breaks each property, the source lines of each definition, hazards, findings and
theorems.

1. [Inventory](#1-inventory)
2. [Modules and the code](#2-modules-and-the-code)
3. [Runs, bounds, fairness](#3-runs-bounds-fairness)
4. [Findings](#4-findings)
5. [Proofs](#5-proofs)
6. [What is not modelled, and the plan](#6-what-is-not-modelled-and-the-plan)

## 1. Inventory

### Processes and how they talk

    mobile app  --HTTP-->  AI gateway  --HTTP-->  model provider (OpenRouter)
        |                      |
        |                      |  routing config (GET), key events (POST, 2 tries),
        |                      |  operational records (POST, max_retries + 1 tries)
        |                      v
        +----HTTP---->  control-plane backend  <--HTTP--  admin console
        |   runtime config,     |
        |   purchase validation +--HTTP--> Google Play Developer API
        |
        +-- plugin -->  Google Play billing on the device (purchase stream)

* **Backend** (`services/web_backend`): FastAPI over one SQLite or PostgreSQL
  connection. Handlers are `async def` functions that await nothing while they
  use the repository, so two handlers never interleave. Each repository call
  commits on its own, so a handler is a *sequence of commits* that an exception or a
  crash can cut. Purchase validation (`main.py:360`) and the catalog refresh
  (`main.py:1065`) also await another service, the refresh before its first statement.
* **Gateway** (`services/ai_gateway`): FastAPI, many requests at once, each a
  coroutine that awaits the config, the provider and the report. Shared state: the
  config in memory, the config file, the feedback file.
* **Mobile app** (`apps/mobile_flutter`): one isolate; methods of one controller
  interleave at every `await`. State in memory is a copy of SQLite, written
  collection by collection. SQLite can fail, and the app can be stopped at any
  moment.

### Components

Backend

| component | state | operations | hard part | what makes it correct |
|---|---|---|---|---|
| OpenRouter key registry, audit log | `openrouter_api_keys`, `openrouter_key_events`, `admin_audit_log` | create, patch, disable, key events | several commits per handler; events repeated, late, reordered | health is earned by events, each write is audited, a disabled key stays so |
| operational records, tickets | usage, invocation, mission, feedback, safety rows; `support_requests` | ingest, bundle, resolve, execute-delete | retried and late posts against an erasure; statements that fail with others before them written | accepted means stored, no record without its user, a ticket closes once |
| routing profiles, catalog, snapshots | `routing_profiles`, `model_catalog_cache`, selection snapshots | rank, refresh, expire after six hours | eight handlers rebuild; stops between the commits; a list with repeated ids | what is served follows every change that was answered |
| Google Play validation | none (a decision per call) | validate | Google's states and errors | only an entitling state is verified |
| connection and schema | one shared connection | execute, commit | no rollback after an error; PostgreSQL aborts the transaction | what was answered is what is stored, whatever failed before |
| flags, model settings, BYOK, organisations | one row per key | upsert, audit | cut before the audit row | as for keys |
| dashboards, reads | none | aggregate | none | totals agree with rows |
| authentication, settings | environment | compare a token | none | none beyond a comparison |

Gateway

| component | state | operations | hard part | what makes it correct |
|---|---|---|---|---|
| routing config and key failover | memory copy, file, each request | get config, try keys, report | overlapping fetches, stale cache, retried reports, crash | config genuine, outcome honest, order kept, request ends |
| operational events client | calls in flight | post with retries | timed-out first copies | True means stored |
| feedback store, learning memory | one JSON file | append, rewrite, summarise | unreadable file read as empty | feedback survives a restart |
| LangGraph pipelines | a request in flight | filter, ask, repair, review, rank, fill up | provider fails, answers late or with junk | a fallback for every failure, a reviewed answer |
| guardrails, consent, policy | reports to do | gate inputs, filter events, check answers | combinations of permission and level; reports before and after the answer | a local event never reaches a prompt, a refusal is told |
| parsers, locales, mock provider | none | heuristics over text | none | well-formed output |
| settings, contracts | environment | validate | literal sets that must agree with the backend | same literals on both sides |

Mobile

| component | state | operations | hard part | what makes it correct |
|---|---|---|---|---|
| resilient local store | SQLite, a store in memory, a switch | load, save, delete all | calls in flight at the switch | one atomic map, at most one loss a session |
| preferences store, cipher | plugin values | encode, decode | none | decode inverts encode |
| billing and entitlement | entitlement, stored purchase, config, in memory and on disk | buy, restore, validate, boot, delete | overlapping validations, two saves, a stop or a failing SQLite between them, billing turned off | paid only if entitled, ended stops paying |
| plans, privacy, AI history | plans, permissions | refresh, revoke, clear | answer applied after a revoke or a delete | nothing revoked or cleared comes back |
| analytics, quotas | list of at most 500 events | append, count per day | read before await, write after | no event lost, quota not exceeded |
| LifeGraph and collections | list of events, table | record, change level, delete, seed | a save walks the live list | stored stays, deleted stays deleted |
| capture parser, AI client, mappers | none | heuristics, JSON | none | fallback on every error |
| export, submission vault | files | write | files and collections disagree | a file per entry |
| screens, shell, texts | none | show | none | none |

Around them: the admin console (`apps/admin_next`, a front end without state), the
JSON schemas (`packages/contracts`), the control-tower launcher (`golife_ai.py`,
local processes and ports) and scripts for release and performance.

Each behaviour that is hard to test is a row of `hazards` in `PROJECT.json`, with its
line and the properties that would catch it.

## 2. Modules and the code

    KeyRegistry <--EXTENDS-- GatewayRouting          (backend registry + gateway)
    RecordStore <--INSTANCE- OperationalRecords      (abstract spec, refinement)
    SessionStore <-INSTANCE- ResilientStore          (abstract spec, refinement)
    MobileBilling            LifeGraph               (LifeGraph contains the store's switch)
    LearningMemory <-EXTENDS- MissionGraph <-EXTENDS- MissionLearning   (feedback loop)
    CaptureText <-EXTENDS- RequestGraphs <-EXTENDS- GatewayRequests     (request handlers)
    Lists <-EXTENDS- LearningMemory, CaptureText, ControlPlane   (selecting, sorting, summing)
    ControlPlane                                     (profiles, catalog, snapshots, flags, BYOK)
    X <--EXTENDS-- MCX, XProofs                      (of KeyRegistry: in GatewayRoutingProofs;
                       of OperationalRecords and ControlPlane: in BackendProofs)

Conventions. An action is one *atomic step of the code*: in the backend one commit, in
the gateway and the app the code between two awaits. Variables marked `history` in
their declaration are written and never read by the actions; they exist for the
properties. A definition whose comment begins with "Mutant:" is a plausible bug of the
definition below it and is used by no specification; it shows that the property it
belongs to can fail.

### KeyRegistry (backend: `main.py`, `repository.py`)

`keys`, `registered`, `keyEvents`, `audit` are the tables; `handler` is the handler the
event loop is running and the commit it is at. `CreateKey`, `PatchKey`, `DisableKey` and
`ReceiveTelemetry` are the first commits of the four handlers; `RecordAdminEvent`,
`RefreshSnapshots` and `WriteAudit` are the later ones, in the order `NextStep` takes from
`main.py`; `Abort` cuts a handler between two of them. `RowAfterEvent` is the effect of
an event on the row (a success also on a disabled key, which stays disabled), `UpsertEvent`
the `ON CONFLICT(event_id)` that keeps the key of the first row. The selection snapshots
written in between are another table; here they only are a commit to be cut at.
GatewayRouting lets that commit change which capabilities have a selection.

### GatewayRouting (gateway: `routing_config_client.py`, `providers/openrouter.py`, composed with KeyRegistry)

EXTENDS KeyRegistry, so every registry handler runs as it is, commit by commit,
concurrently with the gateway. `req[r].pc` is the await a request is at: `fetching` and
`replied` (the body of the GET travels), `trying` (provider), `reporting` (key event),
`local` (the local key), `done`, or `lost` with the process. `memory` and `file` are the
two caches; `inbox`, `serving`, `served` are posts on the wire, being handled, and
answered in time. A config is its keys, the capabilities it has ranked models for and those it
has a profile of. `Accepts` is the pydantic validation of the capability literal; `release` says
which profiles the deployed backend has, `selected` which of those capabilities its snapshots
cover: any handler that rebuilds them may change that (`BackendSelects`; ControlPlane says to
what). `Resolve` is the decision of `complete_json`: without a key or without a model for the
capability of the request the local key is used (`Usable`), without a profile the request
ends as unavailable before any key is tried (`Unprofiled`), and otherwise the keys are tried. No
config of this backend takes the second way, since it ranks models of its profiles only and
deletes none; `OutcomesHonest` proves that, whatever was selected when the config was
cached.
The number of posts per event (two), the verdicts that rotate to another key and those
that do not, and the rule that a report which fails does not fail the request are those
of the code. Priorities are distinct and fixed; the two tries with one key are one step,
since only their common verdict is used.

### RecordStore and OperationalRecords (gateway: `operational_client.py`; backend: ingestion and ticket handlers)

`RecordStore` is the promise, of the tables as they are seen and as they are saved: a record
belongs to a known user, an id names one record, and a user goes only when no record of
the user remains. `OperationalRecords` has the code: `client` (the `_post` calls with their
attempts), `inbox` (attempts that arrive late, or never), the commits of a record
(`InsertUser`, or none for a known one in `FindUser`; `InsertRow`; `UpdateLastSeen`), the answer,
and the ticket handlers `Bundle`, `Resolve`, `Execute`, each followed by `WriteAudit` and
`Answer`.

`lastSeen`, `rows`, `status` and `audit` are what the repository's one connection sees,
`durable` is what is committed. Any statement may fail (`Cut`), and so may the commit after
it (`Commits`): the handler ends, nothing is rolled back (`repository.py:208-218`), and what was
written stays on the connection until somebody commits, a handler of the module or any other
(`OtherCommit`), or until the backend starts again (`Reopen`). `Execute` is the
loop of `execute_support_delete_request`: eight `DELETE`s (`Erase`: six tables of records,
the profile, the user), the status, one commit, and it may end after each of them, so an
erasure can be committed in part, under a ticket that is still open. On
PostgreSQL, a statement that fails leaves nothing to do but `Reopen`.

The six tables per user are one set of rows; `TableOf` says which `DELETE` takes a row, and the
ids are fresh per post or repeated (missions), both among the bodies. Rows of
`user_profiles` are not modelled, only the statement that deletes one.

### SessionStore and ResilientStore (app: `resilient_local_store.dart`)

`SessionStore` is the promise: one atomic map that may forget everything once a session and
otherwise is durable. `ResilientStore` has the two stores, the switch, and one future
per call: `Start` chooses the store, `PrimaryServes`, `PrimaryFails` (the catch block of
`_run`: first failure switches and runs again, a later one is rethrown),
`FallbackServes`, `Restart`. A key stands for one collection.

### MobileBilling (app: `golife_controller.dart`, entitlement service; backend: `google_play_billing.py` as a decision)

`google` is what Google says of a purchase, `backendOn` whether the deployed backend bills
(`BackendMode` turns `mobile_billing_mode` off and on). The app's part is memory (`ent`, `sub`,
`billingOn`, `listening`), SQLite (`disk`, `cfgDisk`), the map the resilient store works on
after SQLite failed (`fallback`, `switched`) and validations under
way, each in the steps between the awaits of `_validateBillingPurchase` and
`_applyBillingValidationDecision`: asked, answered, entitlement saved, read back,
purchase saved. Every load and save uses the store of the moment (`Store`, `SaveRecords`);
`Switch` is SQLite failing between any two steps, also between the two saves of a validation, with
what it does to operations already in SQLite (they are rethrown, and a bootstrap among them leaves
the app `stuck`). `Open`, `BootEntitlement`, `BootSubscription` are `bootstrap`;
`RefreshRuntimeConfig` is the six-hour timer: a config with billing turned off is saved as any
other and leaves no package name to validate with. `DeleteDisk` and `DeleteMemory` are the two
halves of `deleteAllLocalData`, `DeleteBreaks` an exception between them. `Verdict` is the backend's decision from Google's state,
`AnswerError` a decision without it. Of an entitlement the plan is kept (`PlanOf`).

### LifeGraph (app: `lifegraph_repository.dart`, `sqlite_local_store.dart`, `golife_controller.dart`)

`events` is the live list, `disk` the table, `call` the changes under way. A save is the
transaction of `saveLifeEvents`: `Begin` (the lock and the iterator, which remembers the
length), one `Insert` per event, `LoopEnds`, `Commit`. `Conflict` is Dart's
`ConcurrentModificationError`, raised when the list's *length* changed; a change of an
element goes unnoticed and is inserted as it is then. `Fails` is `_run`
seen from a save: the switch to memory. `Record`, `UpdatePrivacy`, `Delete`/`Unseed`/
`DeleteRows`/`Clear` are the changes, `Boot` and `BootBroken` the start with demo events.

### LearningMemory, MissionGraph, MissionLearning (gateway: `learning_memory.py`, `golife_graph.py`, `feedback_store.py`)

`LearningMemory` and `MissionGraph` are pure: the first is what a list of feedback items
teaches (patterns, weights in hundredths, the summaries), the second the nodes of the
mission graph in order: `AllowedEvents` (consent and level), `Prompt`, `Normalised` (the
repair of what the provider answered), `Reviewed`, `Ranked` by `Score`, `FilledUp`,
`BuildResponse`. `MissionLearning` is the loop around them: `items` is the list of
`MissionFeedbackStore`, `file` its JSON, `screen[u]` the request in flight or the plan on
a user's device. `Ask` ends where `run_suggestions` awaits the provider, with the feedback
summary it took *before*; `Answer` is all of the pipeline after it; `Feedback` is a device
that returns a suggestion with the pattern map of its whole plan; `Start(readable)` and
`Stop` are the process. `Lists` has what the gateway does with lists, and what the
proofs have lemmas for: `Those` (the entries at a set of places), `SortedBy` (a stable sort by
score), `SumSeq`, `FirstOf`, `Earliest`. Titles and reasons are left out; a flaw the policies look for is a
field of the candidate.

### CaptureText, RequestGraphs, GatewayRequests (gateway: `main.py`, the parsers and the other graphs, `operational_payloads.py`)

`CaptureText` reads a text: how a note is cut into clauses, which domain a clause is about,
which proof parser wins, which policy a term hits, where a phrase is its connector, its
signals and what it looks like. `RequestGraphs` says what a request is answered, for
each endpoint, as a function of the query and of what the provider returned.
An answer is kept as what the provider returned; its body is `Body` of the query and of
that, since nothing is awaited in between. `GatewayRequests` is the handler: `Receive` (input gate, up to the first await), `Flags`,
`Complete` or `Fail`, then `Report`, one post of the handler's list at a time, awaited
before a refusal is sent (`refusing`) and in the background after an answer (`answered`).
`backend[c]` is what reached the backend. The result of a suggestion only has the two numbers
its reports use; the plan itself is `MissionLearning`'s.

### ControlPlane (backend: `main.py`, `repository.py`, `routing.py`)

`txn` is the tables as the connection sees them, `db` as they are stored, `conn` what is
left of the connection. A handler is a *run*, the sequence of pairs of the two after each of
its statements (`Write`, `Writes`, `Commit`, composed to `Audit`, `Refreshed`, `Ensured`,
`Catalogued`), and an action either goes to its end (`Done`), breaks after the k-th
statement with an error that nothing rolls back (`Breaks`), or stops there with the process
(`Stops`). Handlers need no program counter for this: none awaits between its first and
last statement. `want` (history) is what each table may hold by what callers were told.
Ranking is `Score` and `Ranked`; shares of the calls are integers in units of 1/300, rounded
down where the code has doubles. `today` is the date that decides which models are still offered
(`Unexpired`). `EraseCalls` is what an erasure does to these tables: it deletes calls and
ranks nothing again.
`CInit`, `CNext` and `CSpec` are its specification; `ServeConfig` is both readers of the
snapshots, which first refresh them if they are missing or expired.

## 3. Runs, bounds, fairness

| run | distinct states | instance |
|---|---|---|
| `key_registry` | 397 thousand | 2 keys, 4 payloads delivered any number of times in any order, 3 admin writes, 1 cut |
| `gateway_cache` | 2.25 million | 2 requests, 1 key, 2 secrets, one selection, 1 admin write, 1 cut, 1 crash |
| `gateway_failover` | 502 thousand | 1 request, 2 keys, backend of either release, a selection that covers the capability or not, 1 admin write, 1 cut, 1 crash, fairness |
| `operational_records` | 2.58 million | 2 users, a body of 1 record and one of 2, in two tables, an export and a delete ticket, 2 attempts, 1 cut at any statement or commit, any number of restarts |
| `resilient_store` | 50 thousand | 3 calls, 2 keys, 2 values, 1 restart |
| `mobile_billing` | 249 thousand | 1 purchase, 2 validations at once, any number of restarts, deletions, failures of SQLite and changes of the backend's mode, fairness |
| `life_graph` | 2.0 million | 2 events, 1 demo event, 2 changes at once, any number of restarts |
| `mission_learning` | 188 thousand | 2 users, 3 requests, 3 provider answers of 3 candidates, 2 reactions, 2 items on top of an old file, 1 stop |
| `gateway_requests` | 17.4 thousand | 1 call out of all queries: every endpoint, policy term, consent; 2 lost reports, fairness |
| `control_plane` | 550 thousand | 2 capabilities, 4 models of which one expires, 3 provider lists, 2 changes or erasures, 2 invocations, 1 day, 1 fault, both databases |
| `gateway_mode_b`, `life_graph_failover` | counterexamples | as above or smaller |

What each passing run shows

* `key_registry`: `HealthWitnessed` (a status rests on recorded events and on the counter,
  through duplicates, late reports and cuts), `TrailAccounted` (every committed write is
  audited once, in progress, or was cut), `AuditIsTrue` (the audit row shows the row that
  was stored, and an audited disable has its event), and the action property
  `ReactivationIsExplicit` (a late success never turns a disabled key on).
  `TrailAccounted` counts the cut writes in `lost`: a handler cut between the
  write and the audit row leaves a change that
  `docs/admin/DDD_WEB_MANAGEMENT_SCOPE.md:168` wants audited. The model says
  exactly how many such writes there can be, one per cut.
* `gateway_cache`: `ConfigsAreGenuine` (a live request works with one config that was
  published after it began, whatever overlapping requests write to the caches; caches
  hold only published configs, also after a crash inside the file write),
  `HealthIsEarned` (end to end: healthy at the registry needs a completion at the
  provider, the counter is at most twice the failures). It runs with a backend whose
  configs the gateway accepts, one from before the MindFlow profiles.
* `gateway_failover`: `OutcomesAreHonest` (with a usable config *ok* means a completion by a key
  of the registry and *temporarily unavailable* means every key failed; without one
  no key of the registry is asked), `FailoverInOrder`, and the liveness `RequestsEnd`.
* `operational_records`: `AcceptedIsStored`, `LastSeenCovers`, `ClosedOnce`,
  `BundlesAudited`, and the refinement `KeepsRecordStore`, each of what is durable and, but for
  what was accepted or handed out, of what the connection sees. An erasure is not
  all or nothing; the order of its statements is what `KeepsRecordStore` rests on.
* `resilient_store`: `FailuresAreRaces`, `PrimaryFrozen`, and the refinement
  `IsSessionStore`.
* `mobile_billing`: `PaidWasEntitled`, `PaidIsRefreshable`, and the liveness
  `EndedStopsPaying`, which asks that in the end the backend bills and SQLite works: with billing
  turned off for good nothing is validated, and with a SQLite that fails in every session no
  decision is stored, so that plans stay as they are.
* `life_graph`: `StoredStays`, `RevokedStays`, `GoneStays`, `SettledIsSaved`.
* `mission_learning`: `AckedIsDurable` (feedback answered with success is in the file
  through failed writes and restarts), `PlanKnowsFeedback` (and is in every later plan of its
  user, nobody else's is), `PromptIsConsented`, `PlanIsSound` (what is shown is reviewed,
  in the order of its scores, and *live* only when all of it is the provider's), and two
  action properties: `LearnedAsShown` (a pattern that was shown with the id is learned) and
  `RejectionSinks` (a rejection never lifts what it rejects, a sum of seven terms).
* `gateway_requests`: `UnsafeIsRefusedAndTold` (a text with a term of a policy in a
  spelling the policies know gets to no await, and the backend has its one safety event by
  the time the caller reads the refusal), `ConsentHolds`, `FallbackNeverFails`,
  `AnswersAreReviewed` (decision plans and claims; shopping decisions have no review, and
  only wait for a confirmation), `InvocationsAreTrue`, and the liveness `CallsSettle`.
* `control_plane`: `AnsweredIsDurable` (each table holds the last change that was answered
  with success or one that failed later, over statements that are never rolled back, on both
  databases), `ServedIsCurrent` (nothing served is expired, of a profile turned off or of a
  model that left the list), and the action properties `SelectionsFollow` (without a fault a
  change of what is ranked leaves snapshots that follow it, and snapshots that follow are left behind only by an
  erasure of calls or a model's date) and `FallbackSinks`.

Type invariants are not among the properties of the runs: where a module states one, it is a
theorem of section 5.

Why these bounds are enough. The hazards are races of two actors, so each instance has two
of what races: two requests, two validations, two changes, two attempts of one post, two
bodies about one user, and three calls where a switch needs one that fails, one in flight and
one later. Two keys are what an order of failover needs. One crash, one cut or one
restart can come at every state, and what happens after it starts from each of them. Bounds
on restarts are absent where the state is finite without them (billing, life graph).
`MaxFailures` is at the number of failures the requests can report, so it cuts no
behaviour of the gateway runs (2 requests or 2 keys, two posts each); in `key_registry` it is 2, enough for
a counter that grows and is reset. Where the proofs of section 5 apply, the bounds do not
matter. `gateway_requests` has one call because calls share nothing but the process and the
bound on lost reports: two calls have no step that one has not; the proofs are for any
number. `control_plane` has one fault, which can be at each statement of each handler and leave
half of its work to the next one, and two changes, the one that fails and the one that follows; a list with a
repeated id fails by itself and costs no fault. Three models are ranked, so four are listed.
`mission_learning` has two items, since a failed write shows in the next one. `CHECK_DEADLOCK FALSE` stands in the configurations whose requests, posts or calls
are each used once, so that the system comes to rest when all are done.

Symmetry is used where the permuted constants occur in no ordered or named position
(requests and secrets, calls, store keys and values, recorded events) and never with a
liveness property.

Fairness. *Gateway*: every await of a request has a timeout
(`routing_config_timeout_seconds`, `request_timeout_seconds`), so the step that follows
each is weakly fair; nothing is assumed of the backend or the wire. *Billing*: the app
is opened again (WF on `Open \/ BootEntitlement`), each session ends (WF on `Stop`), the start is completed and the timer
fires in some of the sessions (SF, since a stop can come first), and validations asked over and over
are answered and saved some time (SF), some of them, not each. Nothing is assumed of purchases, restores or
buttons. *Requests*: the flags and the provider are awaited with a timeout, so one of the steps
that follow is taken (WF on `Flags` and on `Fail`, which are enabled as long as the call
waits, whatever comes back), and reports are tried (WF on `Report`); nothing is assumed of
what the provider or the backend does. The other specifications have safety properties only and no fairness; of
`ControlPlane` nothing more could be promised, since after a fault on PostgreSQL it waits for a
restart nobody owes it.

## 4. Findings

Two are runs that TLC ends with a counterexample; the quoted documents are in `PROJECT.json`.

| run | what the code does |
|---|---|
| `gateway_mode_b` | the backend publishes profiles of eight capabilities, the gateway's literal knows four, and so it refuses every config of the shipped backend and always uses its cache or local key |
| `life_graph_failover` | two events recorded close together make a save fail and the app leave a working SQLite for the rest of the session |

Four more are definitions of the modules that state what a document says and that the code
does not keep. Each gives its counterexample when it is named as the only INVARIANT
(`CancellationUpdates`: PROPERTY) of the configuration beside it.

| definition | configuration | what the code does |
|---|---|---|
| `DeletesAreExecuted` | `MCOperationalRecords.cfg` | the resolve route closes a *delete* ticket with every record in place, and the delete can then not be executed |
| `DeletedIsGone` | `MCResilientStore.cfg` | delete-all after the switch empties the store in memory; what SQLite holds is back at the next start |
| `CancellationUpdates` | `MCMobileBilling.cfg` | the app stopped, or left SQLite for its fallback, between the save of the entitlement and the save of the purchase keeps a plan nothing will ever validate again; so does an app whose backend has billing turned off |
| `OutageIsInvoked` | `MCGatewayRequests.cfg` | the reports on a 503 for suggestions are background tasks of a response that the exception replaces, so the invocation `docs/api/AI_GATEWAY_API.md:89` promises never reaches the backend |

Five observations have no property, because no document says otherwise. On PostgreSQL a
failed statement makes the backend refuse everything until it is restarted, and so does the
first patch of a feature flag, whose `with self._connection` closes the connection
(`ControlPlane.PatchFlag`, `Breaks`). Error invocations never name a model
(`operational_payloads.py:714`), so the share of successes in a model's score never
sinks. A term of a policy that is cut otherwise than the policy has it and stands right next
to a single letter or a `!` is not found (`my self!` reads `my selfi`, a sentence of single
letters is one token; `policy_engine.py:177-225`, `CaptureText.Hit`). A test of a customer's key marks it healthy without asking anybody, and a rotation
turns a disabled one on (`ControlPlane.ByokAfter`). An erasure that fails half-way
answers with a 500 and leaves its ticket open, but on SQLite the next commit of any handler
makes durable what it has erased (`OperationalRecords.Execute`); asked for again, it erases the rest.
Neither the erasure of a user's calls
(`main.py:896-924`) nor the date of a model (`routing.py:186`) makes the snapshots anew, so they
stay behind until the next handler that ranks, six hours at most if configs are asked for
(`SelectionsFollow` names both).

The findings do not feed back into the passing runs: where a property cannot hold because
of one, it says so in its own words (`cut` in `PaidIsRefreshable` and `EndedStopsPaying`, and
the mode of the backend and the state of SQLite in the latter,
`lost` in `TrailAccounted` and `UnsafeIsRefusedAndTold`, `forgot` in `AckedIsDurable`), and nothing else
of the code's behaviour is excluded.

## 5. Proofs

Each `XProofs` module EXTENDS its component and proves, for every value of the constants
allowed by the named ASSUME of the component, that an invariant `IInv` holds initially,
is kept by every step (one lemma per action) and implies the property. The bounds
(`MaxWrites`, `MaxCuts`, ...) are constants too, so the results hold for all of them.
The assumptions are these: bounds are natural numbers; special values (`None`, `Free`) are
not members of the sets they stand beside; ids of telemetry differ from the uuids of
admin writes and name one payload each (`RegistryAssumption`); priorities are distinct and
the gateway's reports are payloads the endpoint takes (`RoutingAssumption`); bodies are
non-empty sequences of records (`RecordsAssumption`); the demo events have ids of their
own (`LifeGraphAssumption`, `lifegraph_repository.dart:16`); requests, answers of the provider
before any repair, reactions and old feedback files have the fields and types their
schemas admit (MissionLearning: `OldFilesAssumption` and the ones beside it), and so have
the queries of the gateway and what the provider returns (`QueriesAssumption`,
`ResultsAssumption`). None of them says what a provider answers, which texts a user writes
or what a file holds. In the control plane (`ControlPlaneAssumption`) there are finitely many
capabilities and "none" is not one of them; a model has an integer for its quality; a reported
latency is not negative (`schemas.py:510`); and a reported call that names a model has
succeeded, since the gateway reports an error without one (`operational_payloads.py:714`).
The provider's lists may be in any order, empty, or name an id twice. `MaxCalls` is at most
the 200 invocations that `list_ai_invocations_for_capability` reads: beyond them an old call
leaves the history when a new one comes, which the model does not have.

| module | proved | why the properties are not inductive alone: what `IInv` adds |
|---|---|---|
| `GatewayRoutingProofs`, of KeyRegistry | `TypeCorrect`, `HealthIsWitnessed`, `TrailIsAccounted`, `AuditIsTruthful`, `ReactivationNeedsIntent` | `EventsGenuine`: an upsert must not change the type of the event that witnesses a status, so every stored event is a known payload or an admin event. `EventWhenDue`: which event the handler has already committed. `HandlerConsistent`: the record read back is still the row, because nothing interleaves |
| `GatewayRoutingProofs` | `RoutingTypeCorrect`, `ConfigsGenuine`, `RegistryHealthKept`, `OutcomesHonest`, `FailoverOrdered`, `HealthEarned` | the registry's whole `IInv` (its client is the gateway now), `UpToDate`: what the registry would publish now is among what each running request may see; `Delivered`: a reply was such a config; what one request has given up is what it was refused, in the order of priority, and the key it tries is the most urgent one left (`Failover`); `SuccessesReal`: success events anywhere, on the wire or stored, follow a completion; every config names a key once and has the profiles of its models (`WholeConfigs`); and a count of reports (`Counted`), below |
| `BackendProofs`, of OperationalRecords | `TypeCorrect`, `TicketsClosedOnce`, `EveryBundleAudited`, `AcceptedMeansStored`, `SeenCoversRecords`, and the refinement `ImplementsRecordStore` | where the handler is in its body (`ItemInBody`, `UserEnsured`, `PassedStored`), that a bundle handed out next is audited (`BundleDue`), and `SeenHolds` with `DurableHolds`: the properties, and that records have users (`RowsKnown`), of the tables as they are seen and as they are durable, because what is left on the connection may be committed next and what is durable may be seen again. `Committing` says once what a step that commits or breaks owes to both; `EraseKeeps` says what any beginning of a delete leaves |
| `BackendProofs`, of ControlPlane | `AnsweredStays`, `ServedIsFresh`, `SelectionsAreFollowed`, and of single steps `FallbacksSink` | `CInv`: the properties look at what is stored or served, but what is stored next is what the connection sees now, with the leftovers of any handler that broke. So the tables that the connection sees and those that are stored both `Meet` what is wanted, and their snapshots are selections of profiles and catalogs that may be wanted (`Selected`), three of a capability at most |
| `ResilientStoreProofs` | `TypeCorrect`, `OnlyRacesFail`, `PrimaryIsFrozen`, and the refinement `ImplementsSessionStore` | `FallbackFresh`: before the switch the store in memory is empty, so switching is forgetting |
| `MobileBillingProofs` | `TypeCorrect`, `PlansAreEntitled`, `PlansAreRefreshable` | `AnswersEntitled`: a verified answer, however old, was read from an entitling state; `DownIsIdle`: nothing is under way in an app that is not running, so that a start which leaves SQLite cuts no validation |
| `LifeGraphProofs` | `TypeCorrect`, `StoredIsKept`, `LoneSaves`, `RevocationHolds`, `DeletionHolds`, `QuietIsSaved` | why replacing the whole table never loses a row: what is stored is in the list while anybody saves (`MemoryHolds`), the rows written so far are the list's first ones or the list was emptied meanwhile (`RowsFollow`), and rows about to be committed have everything stored (`RowsHold`); with `OneWriter`, `DownIsIdle`, `WereUsed`, `Fresh` for the steps between. For revocation, deletion and what SQLite holds when nobody saves, a second layer `Strong`: no list names an id twice and the rows behind the iterator are apart from those before it (`Lists`, `RowsApart`); a revoked event is local wherever it is, one being revoked already in memory and in the rows of its save (`Private`); what is gone is in no list that SQLite can get (`DeletionOrder`, `Removed`); a save will begin, is copying the list as it is, or SQLite holds it (`Saved`) |
| `MissionLearningProofs` | `FeedbackIsDurable`, `NotesAreGone`, `DiskIsAPrefix`, `PlansKnowFeedback`, `PromptsAreConsented`, `PlansAreSound`, and of single steps `LearningIsTrue`, `RejectionsSink` | the list holds every acknowledged item as the file does, and the file is a beginning of it (`Starts`): so the next write that succeeds loses nothing, although failed ones lie between. `Screens` says of every request in flight that it was asked as the user's consent and the list of then demand, and of every plan that it is what the pipeline makes of some answer to it; that such a plan is sound is then a fact about the pipeline, proved node by node |
| `GatewayRequestsProofs` | `TypeCorrect`, `UnsafeNeverPasses`, `InvocationsTell`, `ConsentIsKept`, `ReviewIsComplete`, `FallbacksHold` | `Sound`, of one handler with what the backend has of it: what was sent, what was lost and what is to do are together the reports of its query and answer, in order. The properties count in that list. At the provider it has the prompt of its query and a consent (`Waiting`), after an answer what the provider returned (`Replied`): the three properties of contents are then facts about the graphs, for any query and any result |

A refinement is proved as usual: initial states map to initial states, and under `IInv`
every step maps to a step or a stutter of the abstract specification (`StepRefines`).

**Counting reports** (`HealthEarned`). The failure counter of a key is at most twice its
failed completions, because a completion is reported by at most two posts and a post is
counted at most once. The invariant (`CountOf`) says it of what is not counted yet as well:
the counter plus the failure reports on the wire is at most the requests the key failed
plus those among them that are past their first report. A lost post lowers the left side,
and a step that posts raises both by one;
`FiniteSetTheorems` carries the cardinalities. It needs that a config names a key
once (`SingleConfigs`).

**Lists.** `ListProofs` has what the others need of lists: that an induction over the
places of a list is one over a set (`UpTo`), that a recursive function on 0..n exists and
is unique (`Recursion`), and from the two what `Those` selects (`ThoseFacts`,
`ThoseAppend`), that `SortedBy` is a permutation in falling order (`SortedFacts`), that a sum
of larger terms is larger (`SumMonotone`). The tie-breaking of the sort makes its places
distinct, so the CHOOSE in it exists: a count of the entries before each one.

**The mission pipeline** (`PlansAreSound`, `RejectionsSink`). A node keeps what the nodes before
it established: what `Normalised` repairs has the fields of a candidate, `Reviewed`
removes what the policies flag and adds nothing, `Ranked` permutes, `FilledUp` appends
reviewed local entries up to the limit, and the state shown (*live*, *mixed*, *fallback*) is
decided on the final list. `RejectionsSink` compares the seven terms of two scores, with
and without one more rejection: three fall or stay, the others do not look at feedback.

**The request graphs** (`ConsentIsKept`, `ReviewIsComplete`, `FallbacksHold`). The chain for an inbox goes
from the phrases of a note to its pieces (`CutRecursion`, `PiecesFacts`: a cut never
drops a phrase), to its clauses (`AllPiecesFacts`, `ClausesFacts`: a note with a phrase has a
clause), to its items (`InboxFacts`) and to those that are shared (`SharedFacts`, `PrivateClause`: a clause
with a private phrase is a journal entry whatever else it mentions). The review is
`SanitizedFacts` for decision plans and `CheckedFacts` for claims, each of *any* card, so what
the provider returned does not matter. The decisions of a shopping plan pass through no
review (`shopping_graph.py:145-170`): `ShoppingCardFacts` says what is left, that they wait
for a confirmation whoever made them, and that only the provider's can reach outside. `DecisionFacts` says that a plan of decisions can only be
empty if every safe local card is, and `ProofFacts` that the parser of the user's own
language, tried first, decides.

**Handlers as runs** (`AnsweredStays`, `ServedIsFresh`, `SelectionsAreFollowed`). A handler of the
control plane is a sequence of statements any of which may be the last, so the lemmas are
about runs and not about steps: `Through` says that every entry of a run meets what is
wanted, and each way to prolong a run keeps it (`WritesThrough`, `CommitThrough`,
`AuditThrough`, `RefreshedThrough`, `CataloguedThrough`). `Settles` then ends every handler,
whether it is done, broken or stopped, and what is left of a handler is three facts: what its last entry
is, that its intermediate entries are wanted if it fails (`Wider`), and that its last one is if
it is answered. That a beginning of the snapshots is wanted as the whole is (`SelectedPrefix`) is
what makes a refresh that breaks after any `INSERT` harmless, and that a beginning of the
provider's list may be wanted is what a catalog that broke leaves. What the selections are is one
recursion over the capabilities (`SelectionsRecursion`, `SelectionRows`); that a call without
a capability changes none of them is `SelectionsIgnore`, and that is why
`record_ai_invocation` need not refresh after it. `SelectionsFollow` speaks of steps, so each
handler adds which tables it lands on unless something failed (`Lands`): those of
`SelectOf` (`RebuiltFollows`), or with all that is ranked as it was (`SameFollows`). An
erasure lands on neither; what is left of the calls is never the calls with one more
(`SomeCalls`).

**Scores** (`FallbacksSink`). The score is a sum of integer shares, each rounded
down (`Quotient`, `ShareMonotone`). One more fallback raises the share of fallbacks, of
any history (`FallbackShareGrows`), lowers that of speed if it was no faster than the average
(`SpeedShareFalls`), and leaves the share of successes at its most. A model
without history is a case apart, because one success is worth more than its default
reliability: a first fallback that is no faster than preferred earns no speed, and its full
share of fallbacks outweighs that gain.

Only model-checked:

* liveness (`RequestsEnd`, `EndedStopsPaying`, `CallsSettle`): TLAPS proves no liveness under fairness
  and knows no `ENABLED`;
* the counterexamples, by their nature.

No module uses RECURSIVE operators. What a recursive function computes is proved through
`Recursion` and `UpTo`, which are statements about sets and not about operators.

## 6. What is not modelled, and the plan

Left out for good, because there is no state or order to get wrong, or because it is
input and output of a machine: dashboards and reads, authentication by a static token,
keyword tables and regular expressions, JSON schemas, screens, the admin console, the launcher and
the scripts. Left out of modelled components: messages to the user, audit entries of the
phone, product queries, the SQL and the cipher under a store call, model settings,
organisations and plans (further tables behind handlers of the shape `ControlPlane.Byok` has), the
titles and texts of suggestions, the terms within a policy's list.

Two assumptions about what lies outside the repository: SQLite transactions are atomic and exclude
one another (`LifeGraph.Unlocked`), and the event loops of Python and Dart switch
only at an `await`.

Known crossings that no property covers yet are the hazards with an empty
`properties` list. The plan answers them in this order.

1. `PlanRefresh` (app): a plan fetched with the permissions and events of the call and
   applied after the answer, against a revoked permission, *clear AI history*, delete-all
   and restarts. Abstract specification: what is shown was allowed at the time of showing,
   or why not. The gateway's half, what reaches a prompt, is in `MissionLearning`.
2. `CaptureQuota` (app): the analytics list, read before an await and written after,
   cut at 500 events, from which the daily quotas are counted.
3. `PurchaseDecision`: the chain of `google_play_billing.py` from a subscription
   payload to plan, renewal state and quota, as operators compared with the table of
   states, then as the `Verdict` of `MobileBilling`. Deletion crossing a validation
   becomes a property of `MobileBilling` at the same time.
4. `SubmissionVault` (app): the files of proofs against the collections that name them,
   over stops between the two.

Every invariant that a passing run checks is a theorem, and so is each of its action
properties. Proofs planned: the modules above as they come, each with its own inductive
invariant. Abstract specifications planned: the config caches as a register that holds some published config, and key events as taking
effect at least once and, on the row's status, as if once.
