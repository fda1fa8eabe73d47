---------------------------- MODULE GatewayRouting ----------------------------
(***************************************************************************)
(* The AI gateway's multi-key routing composed with the backend's key      *)
(* registry (KeyRegistry): requests fetch the routing config, fall back to *)
(* the config cached in memory or on disk and then to the local key, try   *)
(* the provider key by key, and report every outcome to the backend with   *)
(* up to two posts of the same event.  The two services run concurrently,  *)
(* requests of one gateway interleave at every await, posts can be lost,   *)
(* delayed past their timeout or handled twice, and the gateway can crash. *)
(***************************************************************************)
EXTENDS KeyRegistry, FiniteSets

CONSTANTS
    Requests,             \* AI requests the gateway serves
    Rank,                 \* [Keys -> Nat]: the priority of a key, here fixed
    Releases,             \* of the backend: the capabilities each publishes profiles of
    Selections,           \* capabilities a rebuilt selection of models can cover
    GatewayCapabilities,  \* the RoutingCapability literal of the gateway
    Capability,           \* [Requests -> GatewayCapabilities]: what each request asks for
    MaxCrashes            \* bound: gateway crashes

VARIABLES
    memory,     \* RoutingConfigClient._cached_config
    file,       \* what _read_cache() would return
    req,        \* per request: where its coroutine is and what it holds
    inbox,      \* posts of key events on their way to the backend
    serving,    \* the post the backend's handler is working on
    served,     \* posts answered with 202 to a request that still waits
    crashes,    \* number of gateway crashes
    release,    \* the deployed release of the backend
    selected,   \* the capabilities with a row in model_selection_snapshots
    published,  \* history: the configs published since each request began
    answered,   \* history: <<r, k>> whose completion the provider returned
    rejected    \* history: <<r, k>> whose completion failed

gatewayVars == <<memory, file, req, inbox, serving, served, crashes, release,
                 selected>>
historyVars == <<published, answered, rejected>>
allVars     == <<vars, gatewayVars, historyVars>>

\* What a config says of a key, its id and its secret, and the capabilities it has
\* ranked models and a profile for: models_for() and profile_for() find nothing
\* of the others.
Entry  == [key : Keys, secret : Secrets]
Config == [keys : SUBSET Entry, models : SUBSET UNION Releases,
           profiles : SUBSET UNION Releases]

\* No config: None in memory, no readable cache file.
NoConfig == [nothing |-> 0]

\* What a request holds that resolved without a config.
NoRoutes == [keys |-> {}, models |-> {}, profiles |-> {}]

Event(r, k, type) == [id |-> <<r, k, type>>, key |-> k, type |-> type]

\* The gateway's reports are payloads the backend's endpoint can receive.
ASSUME RoutingAssumption ==
    /\ Rank \in [Keys -> Nat]
    /\ \A j, k \in Keys : Rank[j] = Rank[k] => j = k
    /\ MaxCrashes \in Nat
    /\ Capability \in [Requests -> GatewayCapabilities]
    /\ \A r \in Requests, k \in Keys, t \in {"success", "failure"} : Event(r, k, t) \in Telemetry

Post == [event : {Event(r, k, t) : r \in Requests, k \in Keys, t \in {"success", "failure"}},
         attempt : 1..2]
NoPost == [attempt |-> 0]

\* The body of GET /internal/ai-routing/config, as far as routing depends on it: the
\* enabled keys, the stored selection, and every profile, also a disabled one.
Published == [keys     |-> {[key |-> k, secret |-> keys[k].secret] : k \in ActiveKeys},
              models   |-> selected,
              profiles |-> release]

\* RoutingConfig.model_validate(): a profile or snapshot of a capability outside
\* the gateway's literal makes the whole payload invalid.
Accepts(config) == config.models \cup config.profiles \subseteq GatewayCapabilities

\* _has_usable_control_plane_config(): a key, and a model for what is asked.
Usable(r, config) == config.keys # {} /\ Capability[r] \in config.models

\* _complete_with_remote_routing() gives up at once when a profile is missing.
Unprofiled(r, config) == Usable(r, config) /\ Capability[r] \notin config.profiles

Pc      == {"new", "fetching", "replied", "trying", "local", "reporting", "done", "lost"}
Fetch   == {"pending", "accepted", "refused", "failed"}
Source  == {"live", "cached", "fallback"}
Verdict == {"ok", "rotate", "refuse"}
Outcome == {"none", "ok", "unavailable", "error"}

\* `reply` is the body of the GET, `config` the resolved config, `left` its
\* entries not given up yet, `verdict` what the provider said of the current one.
Request == [pc : Pc, fetch : Fetch, reply : Config, source : Source, config : Config,
            left : SUBSET Entry, verdict : Verdict, attempt : 0..2, outcome : Outcome]

NewRequest == [pc |-> "new", fetch |-> "pending", reply |-> NoRoutes, source |-> "fallback",
               config |-> NoRoutes, left |-> {}, verdict |-> "ok", attempt |-> 0,
               outcome |-> "none"]

\* Mutant: keys sorted the other way.
HeadLast(entries) == CHOOSE e \in entries : \A f \in entries : Rank[e.key] >= Rank[f.key]

\* The key a request tries next: sorted(config.openrouter_keys, key=priority).
Head(entries) == CHOOSE e \in entries : \A f \in entries : Rank[e.key] <= Rank[f.key]
Current(r) == Head(req[r].left)

\* The post a reporting request is waiting on.
CurrentPost(r) ==
    [event   |-> Event(r, Current(r).key, IF req[r].verdict = "ok" THEN "success" ELSE "failure"),
     attempt |-> req[r].attempt]

-----------------------------------------------------------------------------
GTypeOK ==
    /\ memory \in Config \cup {NoConfig}
    /\ file \in Config \cup {NoConfig}
    /\ req \in [Requests -> Request]
    /\ inbox \subseteq Post
    /\ serving \in Post \cup {NoPost}
    /\ served \subseteq Post
    /\ crashes \in 0..MaxCrashes
    /\ release \in Releases
    /\ selected \in SUBSET release
    /\ published \in [Requests -> SUBSET Config]
    /\ answered \subseteq Requests \X Keys
    /\ rejected \subseteq Requests \X Keys

\* Every key was created, enabled, before the behaviour begins.
GInit ==
    /\ registered = Keys
    /\ \E s \in Secrets : keys = [k \in Keys |-> NewRow(1, s)]
    /\ keyEvents = {} /\ audit = {} /\ handler = IdleHandler
    /\ writes = 0 /\ lost = {} /\ aborts = 0
    /\ memory = NoConfig /\ file = NoConfig
    /\ req = [r \in Requests |-> NewRequest]
    /\ inbox = {} /\ serving = NoPost /\ served = {} /\ crashes = 0
    /\ release \in Releases
    /\ \E s \in Selections : selected = s \cap release
    /\ published = [r \in Requests |-> {}]
    /\ answered = {} /\ rejected = {}

-----------------------------------------------------------------------------
(* The backend's steps.                                                    *)

\* Every request in progress sees the configs published while it runs.
Publish == published' = [r \in Requests |->
    IF req[r].pc \in {"new", "done", "lost"} THEN published[r]
    ELSE published[r] \cup {Published'}]

\* refresh_selection_snapshots() covers some of the capabilities it has profiles of:
\* which ones is what ControlPlane models.
Refresh == \E s \in Selections : selected' = s \cap release

BackendAdmin ==
    /\ AdminRequest
    /\ UNCHANGED <<gatewayVars, answered, rejected>>
    /\ Publish

\* Any other handler that rebuilds the selection: of profiles, of the catalog, of an
\* invocation, or a read that finds it empty or expired.
BackendSelects ==
    /\ Idle
    /\ Refresh
    /\ UNCHANGED <<vars, memory, file, req, inbox, serving, served, crashes, release,
                   answered, rejected>>
    /\ Publish

\* A post reaches the backend, in time or after its client gave up.
BackendReceives(p) ==
    /\ p \in inbox
    /\ ReceiveTelemetry(p.event)
    /\ inbox' = inbox \ {p}
    /\ serving' = p
    /\ UNCHANGED <<memory, file, req, served, crashes, release, selected, answered, rejected>>
    /\ Publish

\* The handler's next commit.  A telemetry handler that finishes answers 202, to
\* whom still waits for that post.
Awaited(p) == \E r \in Requests : req[r].pc = "reporting" /\ CurrentPost(r) = p

BackendContinues ==
    /\ Continue
    /\ served' = IF handler' = IdleHandler /\ Awaited(serving)
                 THEN served \cup {serving} ELSE served
    /\ serving' = IF handler' = IdleHandler THEN NoPost ELSE serving
    /\ IF handler.step = "snapshots" THEN Refresh ELSE UNCHANGED selected
    /\ UNCHANGED <<memory, file, req, inbox, crashes, release, answered, rejected>>
    /\ Publish

BackendAborts ==
    /\ Abort
    /\ serving' = NoPost
    /\ UNCHANGED <<memory, file, req, inbox, served, crashes, release, selected, historyVars>>

-----------------------------------------------------------------------------
(* The gateway: resolving the config.                                      *)

\* complete_json(): await routing_client.get_config(), which issues the GET.
StartFetch(r) ==
    /\ req[r].pc = "new"
    /\ req' = [req EXCEPT ![r].pc = "fetching"]
    /\ published' = [published EXCEPT ![r] = {Published}]
    /\ UNCHANGED <<vars, memory, file, inbox, serving, served, crashes, release, selected,
                   answered, rejected>>

\* The backend handles the GET between two handlers; the body then travels.
BackendReplies(r) ==
    /\ req[r].pc = "fetching"
    /\ Idle
    /\ req' = [req EXCEPT ![r].pc = "replied", ![r].reply = Published]
    /\ UNCHANGED <<vars, memory, file, inbox, serving, served, crashes, release, selected,
                   historyVars>>

\* complete_json(): a config that is not usable leaves the request to the local key,
\* one without a profile ends it, any other gives it keys to try.
Resolve(r, config, source, fetch) ==
    LET pc == IF ~Usable(r, config) THEN "local"
              ELSE IF Unprofiled(r, config) THEN "done" ELSE "trying"
    IN  req' = [req EXCEPT ![r].pc      = pc,
                           ![r].fetch   = fetch,
                           ![r].reply   = NoRoutes,
                           ![r].source  = source,
                           ![r].config  = config,
                           ![r].left    = IF pc = "trying" THEN config.keys ELSE {},
                           ![r].outcome = IF pc = "done" THEN "unavailable" ELSE "none"]

\* Mutant: the request resolves with the shared cache, not with its own body.
FetchAcceptedShared(r) ==
    /\ req[r].pc = "replied" /\ Accepts(req[r].reply)
    /\ memory' = IF memory = NoConfig THEN req[r].reply ELSE memory
    /\ file' = req[r].reply
    /\ Resolve(r, memory', "live", "accepted")
    /\ UNCHANGED <<vars, inbox, serving, served, crashes, release, selected, historyVars>>

\* The body is valid: keep it in memory, write the cache file, go live.
FetchAccepted(r) ==
    /\ req[r].pc = "replied" /\ Accepts(req[r].reply)
    /\ memory' = req[r].reply
    /\ file' = req[r].reply
    /\ Resolve(r, req[r].reply, "live", "accepted")
    /\ UNCHANGED <<vars, inbox, serving, served, crashes, release, selected, historyVars>>

\* _fetch_live_config() returned None: memory, then the file, then no config.
UseCache(r, fetch) ==
    LET cached == IF memory # NoConfig THEN memory ELSE file
    IN  /\ IF cached = NoConfig
           THEN Resolve(r, NoRoutes, "fallback", fetch) /\ UNCHANGED memory
           ELSE Resolve(r, cached, "cached", fetch) /\ memory' = cached
        /\ UNCHANGED <<vars, file, inbox, serving, served, crashes, release, selected,
                       historyVars>>

\* Mutant: the GET has no timeout of its own.
FetchFailsReplied(r) == req[r].pc = "replied" /\ UseCache(r, "failed")

\* A timeout, a refused connection, a 5xx: at any moment before the body is read.
FetchFails(r) == req[r].pc \in {"fetching", "replied"} /\ UseCache(r, "failed")

\* A body that does not validate.
FetchRefused(r) ==
    req[r].pc = "replied" /\ ~Accepts(req[r].reply) /\ UseCache(r, "refused")

-----------------------------------------------------------------------------
(* The gateway: trying keys and reporting.                                 *)

\* Mutant: every error that does not rotate is reported as a success.
ReportRefusalAsSuccess(r, verdict) ==
    LET k == Current(r).key
        e == Event(r, k, IF verdict = "rotate" THEN "failure" ELSE "success")
    IN  /\ req' = [req EXCEPT ![r].pc = "reporting", ![r].verdict = verdict, ![r].attempt = 1]
        /\ inbox' = inbox \cup {[event |-> e, attempt |-> 1]}
        /\ UNCHANGED <<vars, memory, file, serving, served, crashes, release, selected,
                       published>>

\* record_key_event(): the first of two posts of the event.
Report(r, verdict) ==
    LET k == Current(r).key
        e == Event(r, k, IF verdict = "ok" THEN "success" ELSE "failure")
    IN  /\ req' = [req EXCEPT ![r].pc = "reporting", ![r].verdict = verdict, ![r].attempt = 1]
        /\ inbox' = inbox \cup {[event |-> e, attempt |-> 1]}
        /\ UNCHANGED <<vars, memory, file, serving, served, crashes, release, selected,
                       published>>

\* _request_completion() with the current key: a completion, an error that
\* rotates to the next key (401, 402, 408, 409, 429, 5xx, transport), or one
\* that does not (other 4xx, no JSON after two tries).
ProviderAnswers(r) ==
    /\ req[r].pc = "trying"
    /\ answered' = answered \cup {<<r, Current(r).key>>}
    /\ Report(r, "ok")
    /\ UNCHANGED rejected

ProviderRejects(r, verdict) ==
    /\ req[r].pc = "trying"
    /\ rejected' = rejected \cup {<<r, Current(r).key>>}
    /\ Report(r, verdict)
    /\ UNCHANGED answered

\* An exception that is not an OpenRouterRequestError leaves the loop unreported.
ProviderBreaks(r) ==
    /\ req[r].pc = "trying"
    /\ req' = [req EXCEPT ![r].pc = "done", ![r].outcome = "error"]
    /\ UNCHANGED <<vars, memory, file, inbox, serving, served, crashes, release, selected,
                   historyVars>>

\* What the loop over keys does once the report returned, True or False.
AfterReport(r) ==
    LET left    == IF req[r].verdict = "rotate" THEN req[r].left \ {Current(r)} ELSE req[r].left
        outcome == CASE req[r].verdict = "ok"     -> "ok"
                     [] req[r].verdict = "refuse" -> "error"
                     [] OTHER -> IF left = {} THEN "unavailable" ELSE "none"
    IN  req' = [req EXCEPT ![r].pc      = IF outcome = "none" THEN "trying" ELSE "done",
                           ![r].left    = IF outcome = "none" THEN left ELSE {},
                           ![r].verdict = "ok",
                           ![r].attempt = 0,
                           ![r].outcome = outcome]

ReportAcked(r) ==
    /\ req[r].pc = "reporting"
    /\ CurrentPost(r) \in served
    /\ AfterReport(r)
    /\ served' = served \ {CurrentPost(r)}
    /\ UNCHANGED <<vars, memory, file, inbox, serving, crashes, release, selected, historyVars>>

\* Mutant: a report that cannot be delivered fails the request.
ReportTimesOutFails(r) ==
    /\ req[r].pc = "reporting"
    /\ req' = [req EXCEPT ![r].pc = "done", ![r].outcome = "error"]
    /\ served' = served \ {CurrentPost(r)}
    /\ UNCHANGED <<vars, memory, file, inbox, serving, crashes, release, selected, historyVars>>

\* No 202 in time: the first failure retries the same event, the second gives up.
ReportTimesOut(r) ==
    /\ req[r].pc = "reporting"
    /\ IF req[r].attempt = 1
       THEN /\ req' = [req EXCEPT ![r].attempt = 2]
            /\ inbox' = inbox \cup {[CurrentPost(r) EXCEPT !.attempt = 2]}
       ELSE AfterReport(r) /\ UNCHANGED inbox
    /\ served' = served \ {CurrentPost(r)}
    /\ UNCHANGED <<vars, memory, file, serving, crashes, release, selected, historyVars>>

\* _complete_with_local_key(): no key of the registry, no report.
LocalKey(r) ==
    /\ req[r].pc = "local"
    /\ \E outcome \in {"ok", "error"} :
           req' = [req EXCEPT ![r].pc = "done", ![r].outcome = outcome]
    /\ UNCHANGED <<vars, memory, file, inbox, serving, served, crashes, release, selected,
                   historyVars>>

\* The gateway process dies: coroutines and memory are gone, and the cache file is
\* truncated if it was being written.  Posts already sent stay on the wire.
GatewayCrash ==
    /\ crashes < MaxCrashes
    /\ crashes' = crashes + 1
    /\ memory' = NoConfig
    /\ \/ file' = file
       \/ /\ file' = NoConfig
          /\ \E r \in Requests : req[r].pc = "replied" /\ Accepts(req[r].reply)
    /\ req' = [r \in Requests |-> IF req[r].pc \in {"new", "done"} THEN req[r]
                                  ELSE [req[r] EXCEPT !.pc = "lost"]]
    /\ served' = {}
    /\ UNCHANGED <<vars, inbox, serving, release, selected, historyVars>>

-----------------------------------------------------------------------------
FetchReturns(r)  == FetchAccepted(r) \/ FetchRefused(r) \/ FetchFails(r)
ProviderReturns(r) ==
    \/ ProviderAnswers(r)
    \/ \E verdict \in {"rotate", "refuse"} : ProviderRejects(r, verdict)
    \/ ProviderBreaks(r)
ReportReturns(r) == ReportAcked(r) \/ ReportTimesOut(r)

Backend ==
    \/ BackendAdmin
    \/ BackendSelects
    \/ \E p \in inbox : BackendReceives(p)
    \/ BackendContinues
    \/ BackendAborts

GNext ==
    \/ Backend
    \/ \E r \in Requests :
        \/ StartFetch(r) \/ BackendReplies(r) \/ FetchReturns(r)
        \/ ProviderReturns(r) \/ ReportReturns(r) \/ LocalKey(r)
    \/ GatewayCrash

GSpec == GInit /\ [][GNext]_allVars

\* Every await of a request has a timeout (routing_config_timeout_seconds and
\* request_timeout_seconds), so each of its steps is eventually taken.  Nothing is
\* assumed of the backend.
Fairness ==
    \A r \in Requests :
        /\ WF_allVars(FetchReturns(r))
        /\ WF_allVars(ProviderReturns(r))
        /\ WF_allVars(ReportReturns(r))
        /\ WF_allVars(LocalKey(r))

FairGSpec == GSpec /\ Fairness

-----------------------------------------------------------------------------
(* Properties.                                                             *)

\* A request that resolved live works from one config the registry published
\* after the request began: a key disabled, or a secret rotated, before the GET is
\* never used, whatever other requests do to the shared cache.  A request served
\* from the cache, and the cache itself, hold a config that some request really
\* fetched, never a mixture (get_config, _write_cache, _read_cache).
EverPublished == UNION {published[r] : r \in Requests}

ConfigsAreGenuine ==
    /\ \A r \in Requests :
        /\ req[r].source = "live" => req[r].config \in published[r]
        /\ req[r].source = "cached" => req[r].config \in EverPublished
    /\ {memory, file} \subseteq EverPublished \cup {NoConfig}

\* A request that ends says truly what happened.  With a config that has a key and
\* a model for its capability, live or cached, it is "ok" only after a completion
\* of a key of the registry, a completion is never thrown away because its report
\* failed, and "temporarily unavailable" means every key of its config was tried
\* and failed: a config that was published with a model for a capability has its
\* profile too, whatever was selected since.  With any other config no key of the
\* registry is asked (complete_json, _complete_with_remote_routing).
AnsweredBy(r) == {k \in Keys : <<r, k>> \in answered}
RejectedBy(r) == {k \in Keys : <<r, k>> \in rejected}

OutcomesAreHonest ==
    \A r \in Requests : req[r].pc = "done" =>
        IF Usable(r, req[r].config)
        THEN /\ req[r].outcome = "ok" <=> AnsweredBy(r) # {}
             /\ req[r].outcome = "unavailable" =>
                   {e.key : e \in req[r].config.keys} \subseteq RejectedBy(r)
        ELSE AnsweredBy(r) \cup RejectedBy(r) = {} /\ req[r].outcome # "unavailable"

\* Failover stops at the first answer: no key is asked again once one answered,
\* and keys are asked in priority order, skipping none that is more urgent.
FailoverInOrder ==
    \A r \in Requests, k \in Keys :
        (<<r, k>> \in answered \cup rejected) =>
            \A e \in req[r].config.keys : Rank[e.key] < Rank[k] =>
                <<r, e.key>> \in rejected \ answered

\* The health the registry shows was earned at the provider: "healthy" needs a
\* completion with the key, and the failure counter never exceeds twice the
\* failed completions, since each is reported by at most two posts.
HealthIsEarned ==
    \A k \in Keys :
        /\ keys[k].status = "healthy" => \E r \in Requests : <<r, k>> \in answered
        /\ keys[k].failures <= 2 * Cardinality({r \in Requests : <<r, k>> \in rejected})

\* docs/operations/DEPLOYMENT_RUNBOOK.md:28, "AI Gateway fetches routing config from
\* `services/web_backend`": a config the backend delivered is one the gateway uses.
DeliveredConfigIsUsed == \A r \in Requests : req[r].fetch # "refused"

\* Every request that starts ends, or dies with the process, even if the backend
\* never answers and the provider fails with every key.
RequestsEnd ==
    \A r \in Requests : req[r].pc = "fetching" ~> req[r].pc \in {"done", "lost"}
=============================================================================
