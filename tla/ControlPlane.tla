------------------------------ MODULE ControlPlane ------------------------------
(***************************************************************************)
(* The control plane of the backend: routing profiles, model catalog,      *)
(* model selection snapshots, feature flags and customers' own keys, as    *)
(* its handlers read and write them through the one database connection    *)
(* of the repository.  A statement that fails ends its handler with a 500  *)
(* and is not rolled back: SQLite keeps what was written before it for the *)
(* next commit, PostgreSQL refuses everything until a restart.             *)
(*                                                                         *)
(* Handlers do not interleave: the only await, for the provider's catalog, *)
(* comes before the first statement of its handler.  What one does is its  *)
(* run: the sequence of what the connection sees and what is durable,      *)
(* statement by statement.                                                 *)
(***************************************************************************)
EXTENDS Lists, FiniteSetsExt, SequencesExt

CONSTANTS
    Caps,          \* capabilities; each has a routing profile
    Catalogs,      \* what the provider may list: sequences of
                   \* [id, quality, context, until], by falling name; a
                   \* model is offered until that day, or for good if it is 0
    Patches,       \* profile patches [on, min]; a min of 0 is none
    Invocations,   \* [cap, model, ok, fallback, latency] the gateway reports:
                   \* an error names no model ("none"), and cap is "none" for
                   \* endpoints without a profile
    Preferred,     \* the latency a profile prefers
    MaxChanges,    \* bound: changes by an operator
    MaxCalls,      \* bound: invocations kept, up to the 200 the ranking reads
    MaxDays,       \* bound: days that pass
    MaxFaults      \* bound: statements that fail and processes that stop

Model(m) ==
    /\ m = [id |-> m.id, quality |-> m.quality, context |-> m.context, until |-> m.until]
    /\ m.quality \in Int /\ m.until \in Nat
\* A reported call: one that names a model has got its answer.
Invocation(i) ==
    /\ i.cap \in Caps \cup {"none"} /\ {i.ok, i.fallback} \subseteq BOOLEAN
    /\ i.latency \in Nat /\ (i.model # "none" => i.ok)

ASSUME ControlPlaneAssumption ==
    /\ IsFiniteSet(Caps) /\ "none" \notin Caps
    /\ \A entries \in Catalogs : IsList(entries) /\ \A n \in DOMAIN entries : Model(entries[n])
    /\ \A p \in Patches : p.on \in BOOLEAN /\ p.min \in Nat
    /\ \A i \in Invocations : Invocation(i)
    /\ Preferred \in Nat \ {0} /\ {MaxChanges, MaxFaults, MaxDays} \subseteq Nat
    /\ MaxCalls \in Nat /\ MaxCalls <= 200

VARIABLES
    dialect,       \* "sqlite" or "postgres"
    conn,          \* "open", "aborted" or "closed"
    txn,           \* the tables as the connection sees them
    db,            \* the tables as they are stored
    want,          \* history: what each table may hold, by what was answered
    served,        \* history: the last config served, and what was wanted then
    today,         \* the day
    changes, faults

cvars == <<dialect, conn, txn, db, want, served, today, changes, faults>>

(* Ranking. *)

\* A part of a number of calls, in units of 1/300.
Share(part, calls) == (300 * part) \div calls
Of(calls, cap, id) == Those(calls, {n \in DOMAIN calls : calls[n].cap = cap /\ calls[n].model = id})
TotalLatency(calls) == SumSeq([n \in DOMAIN calls |-> calls[n].latency])

\* build_model_history(), with the default, 0.84, for a model without history.
Reliability(calls) ==
    IF calls = <<>> THEN 252 ELSE Share(Cardinality({n \in DOMAIN calls : calls[n].ok}), Len(calls))
Fallbacks(calls) ==
    IF calls = <<>> THEN 0 ELSE Share(Cardinality({n \in DOMAIN calls : calls[n].fallback}), Len(calls))
Speed(calls) ==
    LET worst == Len(calls) * Preferred IN
    IF calls = <<>> \/ TotalLatency(calls) >= worst THEN 0
    ELSE Share(worst - TotalLatency(calls), worst)

\* Mutant: a fallback costs nothing.
ScoreLenient(quality, calls) == 50 * quality + 25 * Reliability(calls) + 15 * Speed(calls)

\* The terms of rank_models_for_capability(); `quality` is the vendor's and
\* the price's.
Score(quality, calls) ==
    50 * quality + 25 * Reliability(calls) + 15 * Speed(calls) - 10 * Fallbacks(calls)

\* filter_models_for_capability(): the models that are still offered.  Those
\* with enough context for the profile are Ranked's.
Unexpired(catalog, day) ==
    Those(catalog, {n \in DOMAIN catalog : catalog[n].until = 0 \/ catalog[n].until > day})

\* filter_models_for_capability() and rank_models_for_capability(): stable,
\* the best three of those with enough context.
Ranked(profile, catalog, calls, cap) ==
    LET fits == Those(catalog, {n \in DOMAIN catalog : catalog[n].context >= profile.min})
        scored == {<<n, Score(fits[n].quality, Of(calls, cap, fits[n].id))>> : n \in DOMAIN fits}
        score == [n \in DOMAIN fits |-> (CHOOSE p \in scored : p[1] = n)[2]]
        best == FirstOf(SortedBy(fits, score), 3)
    IN  [n \in DOMAIN best |-> [cap |-> cap, model |-> best[n].id, old |-> FALSE]]

\* refresh_selection_snapshots(), for the enabled profiles.
Selections(profiles, catalog, calls) ==
    LET order == SetToSeq(Caps)
        Rows(cap) == IF profiles[cap].on THEN Ranked(profiles[cap], catalog, calls, cap) ELSE <<>>
        upto[n \in 0..Len(order)] == IF n = 0 THEN <<>> ELSE upto[n - 1] \o Rows(order[n])
    IN  upto[Len(order)]
Generated(tables, day) ==
    Selections(tables.profiles, Unexpired(tables.catalog, day), tables.calls)

(* Runs.  `ends` is how a run ends when nothing goes wrong from outside:   *)
(* "done", or with a statement that fails of itself.                       *)

Begin == [at |-> <<[txn |-> txn, db |-> db]>>, ends |-> "done"]
Now(run) == Last(run.at).txn
Writes(run, tables) ==
    IF run.ends # "done" THEN run
    ELSE [run EXCEPT !.at =
            @ \o [n \in DOMAIN tables |-> [txn |-> tables[n], db |-> Last(run.at).db]]]
Write(run, tables) == Writes(run, <<tables>>)
Commit(run) ==
    IF run.ends # "done" THEN run
    ELSE [run EXCEPT !.at = Append(@, [txn |-> Last(@).txn, db |-> Last(@).txn])]
Ends(run, how) == IF run.ends = "done" THEN [run EXCEPT !.ends = how] ELSE run

\* Mutant: the row is left to the next commit.
AuditUncommitted(run) == Write(run, [Now(run) EXCEPT !.audit = @ + 1])

\* record_admin_audit()
Audit(run) == Commit(Write(run, [Now(run) EXCEPT !.audit = @ + 1]))

\* replace_selection_snapshots(): one DELETE, an INSERT per row, one commit.
Refreshed(run) ==
    LET now == Now(run)
        rows == Generated(now, today)
    IN  Commit(Writes(run, [n \in 1..(Len(rows) + 1) |->
                              [now EXCEPT !.snaps = SubSeq(rows, 1, n - 1)]]))

\* Mutant: snapshots are only made when there are none.
EnsuredIfEmpty(run) == IF Now(run).snaps = <<>> THEN Refreshed(run) ELSE run

\* ensure_selection_snapshots()
Ensured(run) ==
    IF Now(run).snaps = <<>> \/ \E i \in DOMAIN Now(run).snaps : Now(run).snaps[i].old
    THEN Refreshed(run) ELSE run

\* replace_model_catalog(): a model listed twice breaks the primary key.
Catalogued(run, entries) ==
    LET now == Now(run)
        Unique(n) == Cardinality({entries[i].id : i \in 1..n}) = n
        kept == Max({n \in 0..Len(entries) : Unique(n)})
        inserted == Writes(run, [n \in 1..(kept + 1) |->
                                   [now EXCEPT !.catalog = SubSeq(entries, 1, n - 1)]])
    IN  IF kept = Len(entries) THEN Commit(inserted) ELSE Ends(inserted, "failed")

(* How a handler ends: with an answer, with a statement that fails after   *)
(* the k-th, or with the process, which starts again on what is durable.   *)

Done(run) ==
    /\ conn = "open" /\ run.ends = "done"
    /\ txn' = Last(run.at).txn /\ db' = Last(run.at).db
    /\ UNCHANGED <<dialect, conn, faults>>

Breaks(run, k) ==
    /\ conn = "open" /\ k \in DOMAIN run.at
    /\ IF k = Len(run.at) /\ run.ends # "done"
       THEN UNCHANGED faults
       ELSE k < Len(run.at) /\ faults < MaxFaults /\ faults' = faults + 1
    /\ txn' = run.at[k].txn /\ db' = run.at[k].db
    /\ conn' = IF dialect = "sqlite" THEN "open"
               ELSE IF k = Len(run.at) /\ run.ends = "closed" THEN "closed" ELSE "aborted"
    /\ UNCHANGED dialect

Stops(run, k) ==
    /\ k \in DOMAIN run.at /\ faults < MaxFaults
    /\ faults' = faults + 1
    /\ db' = run.at[k].db /\ txn' = run.at[k].db /\ conn' = "open"
    /\ UNCHANGED dialect

Fails(run) == conn = "open" /\ \E k \in DOMAIN run.at : Breaks(run, k) \/ Stops(run, k)

\* A handler that changes nothing an operator asked for.
Handle(run) == (Done(run) \/ Fails(run)) /\ UNCHANGED <<want, today, changes>>

\* A change: answered, its table holds one of `new`; else, one of these, of
\* `partly`, or what it may have held before.
Change(run, table, old, new, partly) ==
    /\ changes < MaxChanges /\ changes' = changes + 1
    /\ \/ Done(run) /\ want' = [want EXCEPT ![table] = new, !.audit = @ + 1]
       \/ Fails(run) /\ want' = [want EXCEPT ![table] = old \cup new \cup partly]
    /\ UNCHANGED <<served, today>>

(* Handlers. *)

\* Mutant: the snapshots are left as they are.
PatchedQuiet(run, cap, profile) ==
    Audit(Commit(Write(run, [Now(run) EXCEPT !.profiles[cap] = profile])))

\* patch_routing_profile()
Patched(run, cap, profile) ==
    Audit(Refreshed(Commit(Write(run, [Now(run) EXCEPT !.profiles[cap] = profile]))))

\* update_routing_profile(): a length of 0 counts as not given.
PatchProfile(cap, patch) ==
    LET current == txn.profiles[cap]
        profile == [on |-> patch.on, min |-> IF patch.min = 0 THEN current.min ELSE patch.min]
        new == {[p EXCEPT ![cap] = profile] : p \in want.profiles}
    IN  Change(Patched(Begin, cap, profile), "profiles", want.profiles, new, {})

\* refresh_model_catalog(); a fetch that fails changes nothing.
RefreshCatalog(entries) ==
    Change(Audit(Refreshed(Catalogued(Begin, entries))), "catalogs", want.catalogs, {entries},
           {SubSeq(entries, 1, n) : n \in 0..Len(entries)})

\* patch_feature_flag().  The `with` of the connection commits in SQLite, and
\* closes the connection of PostgreSQL.
PatchFlag(on) ==
    LET set == Commit(Write(Begin, [txn EXCEPT !.flag = on]))
        run == IF dialect = "sqlite" THEN Audit(Commit(set)) ELSE Ends(set, "closed")
    IN  Change(run, "flags", want.flags, {on}, {})

\* create_, patch_, rotate_, test_ and disable_openrouter_byok(), of one key: a
\* rotation turns a disabled key on again, and a test asks nobody.
ByokAfter(op) ==
    CASE op \in {"create", "rotate"} -> "unknown"
      [] op = "disable" -> "disabled"
      [] op = "test"    -> "healthy"
      [] op = "rename"  -> txn.byok

Byok(op) ==
    /\ op = "create" <=> txn.byok = "none"
    /\ op = "test" => txn.byok # "disabled"
    /\ Change(Audit(Commit(Write(Begin, [txn EXCEPT !.byok = ByokAfter(op)]))), "byok", want.byok,
              IF op = "rename" THEN want.byok ELSE {ByokAfter(op)}, {})

\* record_ai_invocation(): the endpoints without a capability need no refresh.
Invoked(i) ==
    /\ Len(txn.calls) < MaxCalls
    /\ LET stored == Commit(Write(Begin, [txn EXCEPT !.calls = Append(@, i)]))
       IN  Handle(IF i.cap = "none" THEN stored ELSE Refreshed(stored))
    /\ UNCHANGED served

\* record_openrouter_key_event(), internal_selection_refresh()
KeyEvent == Handle(Refreshed(Commit(Begin))) /\ UNCHANGED served

\* execute_support_delete(): a user's calls are deleted, those of any models,
\* and nothing is ranked again.  The other tables it deletes from are those of
\* OperationalRecords; of what is wanted here, only the log has one more.
EraseCalls ==
    \E keep \in SUBSET DOMAIN txn.calls :
      Change(Audit(Commit(Write(Begin, [txn EXCEPT !.calls = Those(txn.calls, keep)]))),
             "flags", want.flags, want.flags, {})

\* Every other handler that writes, to none of these tables: its commit takes
\* all with it.
OtherWrite == Handle(Commit(Begin)) /\ UNCHANGED served

\* build_internal_config() and build_runtime_config()
ServeConfig ==
    LET run == Ensured(Begin) IN
    /\ \/ Done(run) /\ served' = [rows |-> Now(run).snaps, want |-> want]
       \/ Fails(run) /\ UNCHANGED served
    /\ UNCHANGED <<want, today, changes>>

\* Six hours pass.
Expire ==
    LET Aged(tables) ==
          [tables EXCEPT !.snaps = [i \in DOMAIN @ |-> [tables.snaps[i] EXCEPT !.old = TRUE]]]
    IN  /\ \E i \in DOMAIN txn.snaps : ~txn.snaps[i].old
        /\ txn' = Aged(txn) /\ db' = Aged(db)
        /\ UNCHANGED <<dialect, conn, want, served, today, changes, faults>>

\* A day passes, and with it the date of a model.
DayPasses ==
    /\ today < MaxDays /\ today' = today + 1
    /\ UNCHANGED <<dialect, conn, txn, db, want, served, changes, faults>>

\* Somebody starts the backend again.
Restart ==
    /\ faults < MaxFaults /\ faults' = faults + 1
    /\ conn' = "open" /\ txn' = db
    /\ UNCHANGED <<dialect, db, want, served, today, changes>>

Seed ==
    [profiles |-> [c \in Caps |-> [on |-> TRUE, min |-> 0]], catalog |-> <<>>, snaps |-> <<>>,
     calls |-> <<>>, flag |-> FALSE, byok |-> "none", audit |-> 0]

\* _ensure_defaults()
CInit ==
    /\ dialect \in {"sqlite", "postgres"} /\ conn = "open"
    /\ txn = Seed /\ db = Seed
    /\ want = [profiles |-> {Seed.profiles}, catalogs |-> {<<>>}, flags |-> {FALSE},
               byok |-> {"none"}, audit |-> 0]
    /\ served = [rows |-> <<>>, want |-> want]
    /\ today = 0 /\ changes = 0 /\ faults = 0

CNext ==
    \/ \E cap \in Caps, patch \in Patches : PatchProfile(cap, patch)
    \/ \E entries \in Catalogs : RefreshCatalog(entries)
    \/ \E on \in BOOLEAN : PatchFlag(on)
    \/ \E op \in {"create", "disable", "test", "rotate", "rename"} : Byok(op)
    \/ \E i \in Invocations : Invoked(i)
    \/ KeyEvent \/ EraseCalls \/ OtherWrite \/ ServeConfig \/ Expire \/ DayPasses \/ Restart

CSpec == CInit /\ [][CNext]_cvars

(* Properties. *)

\* Whatever failed or stopped in between, each table holds the last change
\* that was answered with success or one that failed after it, no more than
\* a beginning of a catalog that failed, and the log has every change
\* answered.
AnsweredIsDurable ==
    /\ db.profiles \in want.profiles
    /\ db.catalog \in want.catalogs
    /\ db.flag \in want.flags
    /\ db.byok \in want.byok
    /\ db.audit >= want.audit

\* A config served after a change that was answered has no expired snapshot,
\* none of a profile that was turned off and none of a model that left the
\* catalog, and at most three of each capability.
ServedIsCurrent ==
    LET Mine(cap) == {i \in DOMAIN served.rows : served.rows[i].cap = cap}
        Listed(catalog) == {catalog[n].id : n \in DOMAIN catalog}
    IN  \A i \in DOMAIN served.rows :
          LET row == served.rows[i] IN
          /\ ~row.old
          /\ \E p \in served.want.profiles : p[row.cap].on
          /\ \E catalog \in served.want.catalogs : row.model \in Listed(catalog)
          /\ Cardinality(Mine(row.cap)) <= 3

\* A fallback that was no faster than its model had been does not lift it.
FallbackSinks ==
    [][\A i \in Invocations :
         LET before == Of(txn.calls, i.cap, i.model)
             slower == IF before = <<>> THEN i.latency >= Preferred
                       ELSE i.latency * Len(before) >= TotalLatency(before)
         IN  txn'.calls = Append(txn.calls, i) /\ i.model # "none" /\ i.fallback /\ slower =>
               Score(0, Of(txn'.calls, i.cap, i.model)) <= Score(0, before)]_txn

\* The snapshots, whatever their age, are what the profiles, the catalog and
\* the calls rank on that day.
Follow(tables, day) ==
    [i \in DOMAIN tables.snaps |-> [tables.snaps[i] EXCEPT !.old = FALSE]] = Generated(tables, day)

\* A profile, the catalog or the calls of a capability change.
Rebuilds ==
    \/ txn'.profiles # txn.profiles \/ txn'.catalog # txn.catalog
    \/ \E i \in Invocations : i.cap # "none" /\ txn'.calls = Append(txn.calls, i)
Erased == txn'.calls # txn.calls /\ \E keep \in SUBSET DOMAIN txn.calls :
                                      txn'.calls = Those(txn.calls, keep)

\* As long as nothing failed, a step that changes a profile, the catalog or
\* the calls of a capability leaves snapshots that follow all of them, and
\* snapshots that follow keep following through every other step but two: an
\* erasure of calls and the date of a model leave them behind, until they are
\* next made.
SelectionsFollow ==
    [][faults' = 0 /\ Cardinality(want'.catalogs) = 1 =>
         /\ Rebuilds => Follow(txn', today')
         /\ Follow(txn, today) => Follow(txn', today') \/ today' # today \/ Erased]_cvars
=============================================================================
