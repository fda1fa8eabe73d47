---------------------------- MODULE MobileBilling ----------------------------
(***************************************************************************)
(* Google Play purchases in the mobile app.  The store reports purchases   *)
(* on a stream; the app asks the backend, which asks Google, and applies   *)
(* the decision in steps separated by awaits: entitlement to SQLite,       *)
(* entitlement back to memory, stored purchase to memory, stored purchase  *)
(* to SQLite.  Several validations can be under way (purchases, restores,  *)
(* the start of the app, the six-hour timer, a button); the process can be *)
(* killed between any two steps and all local data can be deleted.  Every  *)
(* load and save goes through the resilient store: after a failure of      *)
(* SQLite it works on a map in memory until the process ends.  The backend *)
(* can be redeployed with billing turned off, and on again.                *)
(***************************************************************************)
EXTENDS FiniteSets

CONSTANTS
    Tokens,   \* purchase tokens; each stands for the plan it bought
    Calls,    \* validations that can be under way at once
    Free,     \* the plan of nobody
    None      \* no stored purchase

VARIABLES
    google,     \* what Google Play says of each token
    backendOn,  \* mobile_billing_mode of the backend is a Google Play mode
    app,        \* how far the app is: down, opened, halfway, up, or stuck
    listening,  \* _billingPurchaseSubscription is set
    billingOn,  \* _billingRuntimeState.config is enabled
    ent,        \* the plan of _entitlement
    sub,        \* token of _billingSubscriptionState
    cfgDisk,    \* the enabled config in SQLite; the fallback's is never loaded
    disk,       \* entitlement and purchase in SQLite
    fallback,   \* the same in the fallback store
    switched,   \* the resilient store has left SQLite for the fallback
    updates,    \* purchase updates on the stream
    call,       \* the validations under way
    deleting,   \* deleteAllLocalData has emptied SQLite and not yet memory
    entitled,   \* history: tokens the backend read an entitling state for
    cut         \* history: the two saves of a validation did not both reach SQLite

world   == <<google, backendOn>>
memory  == <<app, listening, billingOn, ent, sub>>
stores  == <<cfgDisk, disk, fallback, switched>>
history == <<entitled, cut>>
vars    == <<world, memory, stores, updates, call, deleting, history>>

ASSUME BillingAssumption == Free \notin Tokens /\ None \notin Tokens

Plans   == Tokens \cup {Free}
Records == [ent : Plans, sub : Tokens \cup {None}]
Fresh   == [ent |-> Free, sub |-> None]

\* A validation: asked, answered one way or the other, first save done, memory
\* set, and idle again after the second save.
Resting == [pc |-> "idle", token |-> None]
Call == [pc : {"idle", "asked", "verified", "refused", "saved", "loaded"},
         token : Tokens \cup {None}]

Running == app # "down"

\* ResilientLocalStore._activeStore, and saves in it.
Store == IF switched THEN fallback ELSE disk
SaveRecords(s) ==
    /\ UNCHANGED switched
    /\ IF switched THEN fallback' = s /\ UNCHANGED disk
                   ELSE disk' = s /\ UNCHANGED fallback
SaveConfig(on) == cfgDisk' = IF switched THEN cfgDisk ELSE on

\* Validations with one of their two saves behind them.
BetweenSaves == \E c \in Calls : call[c].pc \in {"saved", "loaded"}

-----------------------------------------------------------------------------
(* What the backend and the services of the app compute.                    *)

\* Mutant: a purchase whose payment is pending counts as paid.
VerdictPending(t) == IF google[t] \in {"pending", "active"} THEN "verified" ELSE "refused"

\* GooglePlayBillingValidator.validate when Google answers and the backend runs
\* in a Google Play mode.
Verdict(t) == IF google[t] = "active" THEN "verified" ELSE "refused"

\* The plan an entitlement made of the answer keeps through
\* EntitlementService._normalize, on its save and on every load: a verified
\* answer names the provider google_play, any other one makes the plan free.
PlanOf(v) == IF v.pc = "verified" THEN v.token ELSE Free

Init ==
    /\ google = [t \in Tokens |-> "none"] /\ backendOn = TRUE
    /\ app = "down" /\ listening = FALSE /\ billingOn = FALSE
    /\ ent = Free /\ sub = None
    /\ cfgDisk = FALSE /\ disk = Fresh /\ fallback = Fresh /\ switched = FALSE
    /\ updates = {}
    /\ call = [c \in Calls |-> Resting]
    /\ deleting = FALSE
    /\ entitled = {} /\ cut = FALSE

-----------------------------------------------------------------------------
(* Google Play, and the deployment of the backend.                          *)

\* What can become of a purchase.  "active" includes grace, on hold and paused;
\* "ended" is cancelled, expired or refunded.
Follows == [none |-> {}, pending |-> {"active", "ended"},
            active |-> {"ended"}, ended |-> {}]

GoogleMoves(t) ==
    /\ \E s \in Follows[google[t]] : google' = [google EXCEPT ![t] = s]
    /\ UNCHANGED <<backendOn, memory, stores, updates, call, deleting, history>>

BackendMode ==
    /\ backendOn' = ~backendOn
    /\ UNCHANGED <<google, memory, stores, updates, call, deleting, history>>

-----------------------------------------------------------------------------
(* The app asks for validations.                                            *)

\* The start of _validateBillingPurchase: without a package name, which only
\* an enabled config has, the client gives up and nothing changes.
Ask(t, on) ==
    IF on
    THEN \E c \in Calls :
            /\ call[c].pc = "idle"
            /\ call' = [call EXCEPT ![c] = [Resting EXCEPT !.pc = "asked", !.token = t]]
    ELSE UNCHANGED call

\* Mutant: the stored purchase is never asked about again.
AskStoredNever(t, on)  == UNCHANGED call

\* _refreshStoredBillingEntitlement
AskStored(t, on) == IF t = None THEN UNCHANGED call ELSE Ask(t, on)

\* buyBillingCatalogProduct and what Google makes of it: the flow ends in an
\* update on the stream, which a dead process never sees.
Buy(t) ==
    /\ app = "up" /\ billingOn /\ google[t] = "none"
    /\ \E s \in {"pending", "active"} : google' = [google EXCEPT ![t] = s]
    /\ updates' = IF listening THEN updates \cup {t} ELSE updates
    /\ UNCHANGED <<backendOn, memory, stores, call, deleting, history>>

\* restoreBillingPurchases: Google reports every purchase that has not ended.
Restore ==
    /\ app = "up" /\ billingOn
    /\ updates' = IF listening
                  THEN updates \cup {t \in Tokens : google[t] \notin {"none", "ended"}}
                  ELSE updates
    /\ UNCHANGED <<world, memory, stores, call, deleting, history>>

\* _handleBillingPurchaseUpdate for a purchased or restored purchase.  (Other
\* updates change messages only.)  completePurchase, after the validation,
\* tells Google and is not read back.
PurchaseUpdate(t) ==
    /\ Running /\ t \in updates
    /\ updates' = updates \ {t}
    /\ Ask(t, billingOn)
    /\ UNCHANGED <<world, memory, stores, deleting, history>>

\* refreshBillingEntitlement, the button
RefreshEntitlement ==
    /\ app = "up" /\ sub # None /\ billingOn
    /\ Ask(sub, billingOn)
    /\ UNCHANGED <<world, memory, stores, updates, deleting, history>>

\* refreshRuntimeConfig when the backend answers: after the start, every six
\* hours, also in an app whose bootstrap threw.  It ends with the validation
\* of the stored purchase, for which a config with billing turned off has no
\* package name; a subscription to the stream is never cancelled.
RefreshRuntimeConfig ==
    /\ app \in {"up", "stuck"}
    /\ billingOn' = backendOn /\ SaveConfig(backendOn)
    /\ listening' = (listening \/ backendOn)
    /\ AskStored(sub, backendOn)
    /\ UNCHANGED <<world, app, ent, sub, disk, fallback, switched, updates, deleting, history>>

-----------------------------------------------------------------------------
(* A validation, step by step.                                              *)

\* The backend reads Google's state and decides; the answer travels.
Answer(c) ==
    /\ call[c].pc = "asked" /\ backendOn
    /\ call' = [call EXCEPT ![c].pc = Verdict(call[c].token)]
    /\ entitled' = IF google[call[c].token] = "active"
                   THEN entitled \cup {call[c].token} ELSE entitled
    /\ UNCHANGED <<world, memory, stores, updates, deleting, cut>>

\* Google answers with an error, or the backend has billing turned off: a
\* decision all the same.
AnswerError(c) ==
    /\ call[c].pc = "asked"
    /\ call' = [call EXCEPT ![c].pc = "refused"]
    /\ UNCHANGED <<world, memory, stores, updates, deleting, history>>

\* Timeout, no connection, or an answer other than 200.
Unreachable(c) ==
    /\ call[c].pc = "asked"
    /\ call' = [call EXCEPT ![c] = Resting]
    /\ UNCHANGED <<world, memory, stores, updates, deleting, history>>

SaveEntitlement(c) ==
    /\ call[c].pc \in {"verified", "refused"}
    /\ SaveRecords([Store EXCEPT !.ent = PlanOf(call[c])])
    /\ call' = [call EXCEPT ![c].pc = "saved"]
    /\ UNCHANGED <<world, memory, cfgDisk, updates, deleting, history>>

LoadEntitlement(c) ==
    /\ call[c].pc = "saved"
    /\ ent' = Store.ent
    /\ sub' = call[c].token
    /\ call' = [call EXCEPT ![c].pc = "loaded"]
    /\ UNCHANGED <<world, app, listening, billingOn, stores, updates, deleting, history>>

\* Mutant: what is saved is the purchase in memory by then.
SaveSubscriptionLate(c) ==
    /\ call[c].pc = "loaded"
    /\ SaveRecords([Store EXCEPT !.sub = sub])
    /\ call' = [call EXCEPT ![c] = Resting]
    /\ UNCHANGED <<world, memory, cfgDisk, updates, deleting, history>>

SaveSubscription(c) ==
    /\ call[c].pc = "loaded"
    /\ SaveRecords([Store EXCEPT !.sub = call[c].token])
    /\ call' = [call EXCEPT ![c] = Resting]
    /\ UNCHANGED <<world, memory, cfgDisk, updates, deleting, history>>

-----------------------------------------------------------------------------
(* Start, stop, deletion.                                                   *)

\* bootstrap, up to _refreshBillingRuntime: the stream is listened to before
\* the entitlement and the stored purchase are loaded.  SQLite may fail its
\* first loads.
Open ==
    /\ app = "down"
    /\ app' = "opened"
    /\ switched' \in BOOLEAN
    /\ billingOn' = (cfgDisk /\ ~switched') /\ listening' = billingOn'
    /\ UNCHANGED <<world, ent, sub, cfgDisk, disk, fallback, updates, call, deleting, history>>

BootEntitlement ==
    /\ app = "opened"
    /\ app' = "halfway" /\ ent' = Store.ent
    /\ UNCHANGED <<world, listening, billingOn, sub, stores, updates, call, deleting, history>>

BootSubscription ==
    /\ app = "halfway"
    /\ app' = "up" /\ sub' = Store.sub
    /\ AskStored(Store.sub, billingOn)
    /\ UNCHANGED <<world, listening, billingOn, ent, stores, updates, deleting, history>>

\* SQLite fails an operation: the store works on its empty fallback from now
\* on, and the operation is run again there, which the step after this one is.
\* An operation that was under way in SQLite and fails too is rethrown: the
\* validation, the purchase update or the bootstrap it belonged to ends there.
Switch ==
    /\ Running /\ ~switched /\ switched' = TRUE
    /\ \E R \in SUBSET {c \in Calls : call[c].pc \notin {"idle", "asked"}} :
           call' = [c \in Calls |-> IF c \in R THEN Resting ELSE call[c]]
    /\ updates' \in SUBSET updates
    /\ app' \in IF app \in {"opened", "halfway"} THEN {app, "stuck"} ELSE {app}
    /\ cut' = (cut \/ BetweenSaves)
    /\ UNCHANGED <<world, listening, billingOn, ent, sub, cfgDisk, disk, fallback,
                   deleting, entitled>>

\* The process ends, whatever is under way.
Stop ==
    /\ Running
    /\ app' = "down" /\ listening' = FALSE /\ billingOn' = FALSE
    /\ ent' = Free /\ sub' = None
    /\ fallback' = Fresh /\ switched' = FALSE
    /\ updates' = {} /\ call' = [c \in Calls |-> Resting] /\ deleting' = FALSE
    /\ cut' = (cut \/ (~switched /\ BetweenSaves))
    /\ UNCHANGED <<world, cfgDisk, disk, entitled>>

\* deleteAllLocalData: one transaction empties the store in use, ...
DeleteDisk ==
    /\ app = "up" /\ ~deleting
    /\ SaveConfig(FALSE) /\ SaveRecords(Fresh)
    /\ deleting' = TRUE
    /\ UNCHANGED <<world, memory, updates, call, history>>

\* ... and after two more awaits memory is reset.
DeleteMemory ==
    /\ deleting
    /\ billingOn' = FALSE /\ ent' = Free /\ sub' = None
    /\ deleting' = FALSE
    /\ UNCHANGED <<world, app, listening, stores, updates, call, history>>

\* ... unless one of them throws: the life graph's clear, which SQLite fails
\* under the switch of another operation, or the files of the vault.
DeleteBreaks ==
    /\ deleting /\ deleting' = FALSE
    /\ UNCHANGED <<world, memory, stores, updates, call, history>>

-----------------------------------------------------------------------------
Next ==
    \/ \E t \in Tokens : GoogleMoves(t) \/ Buy(t) \/ PurchaseUpdate(t)
    \/ \E c \in Calls : \/ Answer(c) \/ AnswerError(c) \/ Unreachable(c)
                        \/ SaveEntitlement(c) \/ LoadEntitlement(c) \/ SaveSubscription(c)
    \/ Restore \/ RefreshEntitlement \/ RefreshRuntimeConfig
    \/ Open \/ BootEntitlement \/ BootSubscription \/ Switch \/ Stop
    \/ DeleteDisk \/ DeleteMemory \/ DeleteBreaks \/ BackendMode

Spec == Init /\ [][Next]_vars

\* The app is used again and again, each session ends, the timer fires, and of
\* validations repeated for ever some are answered and applied, not each one.
Fairness ==
    /\ WF_vars(Open \/ BootEntitlement) /\ SF_vars(BootSubscription)
    /\ WF_vars(Stop) /\ SF_vars(RefreshRuntimeConfig)
    /\ SF_vars(\E c \in Calls : Answer(c)) /\ SF_vars(\E c \in Calls : SaveEntitlement(c))
    /\ WF_vars(\E c \in Calls : LoadEntitlement(c) \/ SaveSubscription(c))
FairSpec == Spec /\ Fairness

-----------------------------------------------------------------------------
TypeOK ==
    /\ google \in [Tokens -> {"none", "pending", "active", "ended"}]
    /\ app \in {"down", "opened", "halfway", "up", "stuck"}
    /\ listening \in BOOLEAN /\ billingOn \in BOOLEAN /\ backendOn \in BOOLEAN
    /\ ent \in Plans /\ sub \in Tokens \cup {None}
    /\ cfgDisk \in BOOLEAN /\ disk \in Records /\ fallback \in Records /\ switched \in BOOLEAN
    /\ updates \subseteq Tokens
    /\ call \in [Calls -> Call]
    /\ \A c \in Calls : call[c].pc # "idle" => call[c].token \in Tokens
    /\ deleting \in BOOLEAN /\ cut \in BOOLEAN
    /\ entitled \subseteq Tokens

\* No path through validations, restarts, deletions and failures of SQLite
\* gives a plan, in memory or in a store, for a purchase the backend has not
\* found entitling:
\* docs/operations/BILLING_SANDBOX_DECISION.md, "do not activate premium
\* without backend verification".
PaidWasEntitled ==
    {ent, disk.ent, fallback.ent} \subseteq entitled \cup {Free}

\* A plan in SQLite can be taken back: the purchase to ask about again is
\* stored with it, or a validation under way is about to store one.  Without
\* it no later start would validate anything, and the plan would be for life.
\* The exception is `cut`: between the two saves of a validation the app was
\* stopped, or SQLite failed and the second save went to the fallback.
PaidIsRefreshable ==
    disk.ent # Free /\ ~cut => disk.sub # None \/ (~switched /\ BetweenSaves)

\* A purchase that has ended stops paying for the plan for good, provided that
\* the backend's billing is not turned off for good, which leaves every plan
\* as it is, and that SQLite does not fail session after session; and unless
\* only the first save of a validation has reached SQLite (`cut`).
EndedStopsPaying ==
    <>[]backendOn /\ <>[]~switched =>
        \A t \in Tokens : <>[](google[t] = "ended" /\ ~cut => ent # t)

\* "Cancellation/refund updates entitlement": docs/
\* golife_ai_commercialization_implementation_pack/07_SPEC_BILLING_IMPLEMENTATION.md.
\* The app stopped between saveEntitlement and saveBillingSubscriptionState
\* keeps the plan and has no purchase to ask about; a backend whose billing
\* was turned off takes no plan back either.
CancellationUpdates ==
    \A t \in Tokens : google[t] = "ended" ~> [](ent # t)
=============================================================================
