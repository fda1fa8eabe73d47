---------------------------- MODULE GatewayRequests ----------------------------
(***************************************************************************)
(* The request handlers of the gateway (main.py) around the graphs: the    *)
(* input gate, the runtime flags and the provider they await, the answer,  *)
(* and the reports on it to the backend (operational_payloads.py): awaited *)
(* before a refusal, run in the background after an answer, lost when the  *)
(* process stops or the backend cannot be reached.                         *)
(***************************************************************************)
EXTENDS RequestGraphs

CONSTANTS
    Calls,        \* the requests made: each is one call of one endpoint
    Queries,      \* what may be asked
    Results(_),   \* what the provider may return for a query, failures apart
    MaxLost       \* bound: reports that do not get through

\* A term is known by its category and by how the text holds it (CaptureText).
Term == [category : {"crisis", "clinical", "injection", "secret"},
         kept : BOOLEAN, pieces : Nat, glued : BOOLEAN]

\* A query as the schema of its endpoint admits it.
Query(q) ==
    /\ q.ai \in BOOLEAN /\ q.terms \subseteq Term
    /\ q.kind \in {"classify", "parse", "mindflow"} =>
         IsList(q.note) /\ \A i \in DOMAIN q.note : IsList(q.note[i])
    /\ q.kind = "proof" => q.proof.fields \subseteq AnyOrder \cup {"product", "merchant"}
    /\ q.kind = "decide" =>
         /\ q.max \in Nat /\ IsList(q.items)
         /\ \A i \in DOMAIN q.items :
              {q.items[i].urgency, q.items[i].effort, q.items[i].conf} \subseteq Int
    /\ q.kind \in {"shop", "needs"} =>
         IsList(q.needs) /\ \A e \in q.context : {"domain", "keys"} \subseteq DOMAIN e

ASSUME QueriesAssumption == \A q \in Queries : Query(q)

\* A provider's answer of the expected shape has a list of entries.
ASSUME ResultsAssumption ==
    \A q \in Queries : q.kind \in {"classify", "parse", "mindflow", "decide"} =>
        \A raw \in Results(q) : raw.form = "good" => IsList(raw.items)

ASSUME MaxLostAssumption == MaxLost \in Nat

VARIABLES
    call,         \* Calls -> the state of its handler
    backend,      \* Calls -> the reports on it that reached the backend
    lost,         \* number of reports that did not
    running       \* does the gateway process run

vars == <<call, backend, lost, running>>

Gated    == {"classify", "parse", "proof", "mindflow", "rewrite"}
Flagged  == {"classify", "parse", "proof", "mindflow", "decide", "shop", "needs", "evidence"}
Reported == {"classify", "parse", "proof", "rewrite"}

(* Reports. *)

Usage == [type |-> "usage"]
Settings == [type |-> "settings"]
Invocation(by, status) == [type |-> "invocation", by |-> by, status |-> status]
Safety(category) ==
    [type |-> "safety", category |-> category,
     severity |-> IF category = "crisis" THEN "high" ELSE "medium"]
If(holds, report) == IF holds THEN <<report>> ELSE <<>>

\* Mutant: a fallback of the semantic parser is reported as its answer.
InvokedByFlag(q, answer) ==
    IF q.kind \in {"parse", "proof"} THEN "semantic"
    ELSE IF q.kind = "classify" THEN "deterministic" ELSE "provider"

\* The provider an invocation is counted for.  Classification always counts
\* for the rules, suggestions and rewrites for the configured provider.
InvokedBy(q, answer) ==
    IF q.kind \in {"parse", "proof"}
    THEN IF answer.by = "provider" THEN "semantic" ELSE "deterministic"
    ELSE IF q.kind = "classify" THEN "deterministic" ELSE "provider"

CaptureReports(q, answer) == <<Usage, Invocation(InvokedBy(q, answer), "success"), Settings>>

SuggestionReports(q, answer) ==
    <<Usage, Invocation(InvokedBy(q, answer), "success")>>
      \o If(answer.body.shown > 0, [type |-> "audits", n |-> answer.body.shown])
      \o If(answer.body.rejected > 0, Safety("ai_output"))
      \o <<Settings>>

FeedbackReports == <<Usage, [type |-> "feedback"]>>
ReflectionReports(verdict) == <<Usage>> \o If(verdict # "supportive", Safety(verdict))

\* The reports on an answer; the graph endpoints have none.
AnswerReports(q, answer) ==
    CASE q.kind \in Reported -> CaptureReports(q, answer)
      [] q.kind = "suggest"  -> SuggestionReports(q, answer)
      [] q.kind = "feedback" -> FeedbackReports
      [] q.kind = "reflect"  -> ReflectionReports(answer.body)
      [] OTHER               -> <<>>

\* Mutant: a refusal is counted, its safety event is left out.
RefusalReportsQuiet(q, category) == <<Usage, Invocation("guardrail", "error"), Settings>>

\* The reports on a refusal, awaited before it is sent.
RefusalReports(q, category) ==
    IF q.kind \in Reported
    THEN <<Usage, Invocation("guardrail", "error"), Safety(category), Settings>> ELSE <<>>

\* build_ai_unavailable_operation_payload().  For suggestions the reports are
\* background tasks of a response that is never sent.
UnavailableReports(q) ==
    IF q.kind = "rewrite" THEN <<Usage, Invocation("provider", "error"), Settings>> ELSE <<>>

(* Handlers.  A call is idle, waits for the flags or the provider, reports *)
(* before it refuses, or is answered with reports still to do.             *)

Idle == [pc |-> "idle"]

\* The body of an answer is made of the request and of what the provider
\* returned, without a further await: the state keeps the latter.
Answered(q, by, result, todo) ==
    [pc |-> "answered", q |-> q, answer |-> [code |-> 200, by |-> by, result |-> result], todo |-> todo]
Refusing(q, code, category, todo) ==
    [pc |-> IF todo = <<>> THEN "answered" ELSE "refusing", q |-> q,
     answer |-> [code |-> code, by |-> "gateway", category |-> category], todo |-> todo]

\* The provider's answer that stands for not having asked it.
NotAsked == [ok |-> FALSE, error |-> "not asked"]

Body(q, result) ==
    CASE q.kind = "classify" -> ClassifiedDomain(q, result)
      [] q.kind = "parse"    -> ParsedDomains(q, result)
      [] q.kind = "proof"    -> ParsedProof(q, result)
      [] q.kind = "mindflow" -> MindflowItems(q, result)
      [] q.kind = "decide"   -> Decisions(q, result)
      [] q.kind = "shop"     -> Shopping(q, result)
      [] q.kind = "needs"    -> ShoppingNeeds(q, result)
      [] q.kind = "evidence" -> Evidence(q, result)
      [] q.kind = "rewrite"  -> RewriteSteps(result.raw)
      [] q.kind = "suggest"  -> IF q.ai THEN result.raw.plan ELSE [shown |-> 1, rejected |-> 0]
      [] q.kind = "reflect"  -> ReflectionVerdict(q.terms)
      [] q.kind = "feedback" -> "stored"

Reply(q, result) ==
    LET semantic == q.kind \in {"classify", "parse", "proof"} => SemanticUsed(q, result)
        by == IF result.ok /\ semantic THEN "provider" ELSE "rules"
    IN  Answered(q, by, result, AnswerReports(q, [by |-> by, body |-> Body(q, result)]))

\* What of the query the provider is sent: its text or its reviewed entries.
Prompt(q) ==
    CASE q.kind = "mindflow"          -> AllowedItems(LocalItems(q), q)
      [] q.kind = "decide"            -> AllowedItems(q.items, q)
      [] q.kind \in {"shop", "needs"} -> [needs |-> AllowedNeeds(q), context |-> SafeContext(q)]
      [] OTHER                        -> q.terms

\* Is there anything to ask the provider for.
HasInput(q) ==
    CASE q.kind = "mindflow"          -> AllowedItems(LocalItems(q), q) # <<>>
      [] q.kind = "decide"            -> AllowedItems(q.items, q) # <<>>
      [] q.kind \in {"shop", "needs"} -> AllowedNeeds(q) # <<>>
      [] OTHER                        -> TRUE

Asking(q) == [pc |-> "provider", q |-> q, prompt |-> Prompt(q)]

\* Mutant: the privacy level of a task is not looked at.
ReceivedAnyLevel(q) ==
    IF q.kind \in Gated /\ InputVerdict(q.terms) # "allow"
    THEN Refusing(q, 422, InputVerdict(q.terms), RefusalReports(q, InputVerdict(q.terms)))
    ELSE IF q.kind \in Flagged THEN [pc |-> "flags", q |-> q]
    ELSE IF q.kind = "rewrite" THEN Asking(q)
    ELSE IF q.kind = "suggest" /\ q.ai THEN Asking(q)
    ELSE Reply(q, NotAsked)

\* A handler up to its first await.
Received(q) ==
    IF q.kind \in Gated /\ InputVerdict(q.terms) # "allow"
    THEN Refusing(q, 422, InputVerdict(q.terms), RefusalReports(q, InputVerdict(q.terms)))
    ELSE IF q.kind \in Flagged THEN [pc |-> "flags", q |-> q]
    ELSE IF q.kind = "rewrite" THEN IF q.level = "ai_allowed" THEN Asking(q)
                                    ELSE Refusing(q, 403, "privacy", RefusalReports(q, "privacy"))
    ELSE IF q.kind = "suggest" /\ q.ai THEN Asking(q)
    ELSE Reply(q, NotAsked)

Receive(c, q) ==
    /\ running /\ call[c] = Idle
    /\ call' = [call EXCEPT ![c] = Received(q)]
    /\ UNCHANGED <<backend, lost, running>>

\* Mutant: the flag decides alone.
AsksOnFlag(q, on) == on /\ HasInput(q)

Asks(q, on) == on /\ q.ai /\ HasInput(q)

\* runtime_flags() returned.
Flags(c, on) ==
    /\ running /\ call[c].pc = "flags"
    /\ LET q == call[c].q
       IN  call' = [call EXCEPT ![c] = IF Asks(q, on) THEN Asking(q) ELSE Reply(q, NotAsked)]
    /\ UNCHANGED <<backend, lost, running>>

\* complete_json() returned.
Complete(c, raw) ==
    /\ running /\ call[c].pc = "provider"
    /\ call[c].q.kind \in {"rewrite", "suggest"} => raw.form # "breaks"
    /\ call' = [call EXCEPT ![c] = Reply(call[c].q, [ok |-> TRUE, raw |-> raw])]
    /\ UNCHANGED <<backend, lost, running>>

\* Mutant: the provider is asked again until it answers.
FailedRetries(q, error) == Asking(q)

\* Mutant: a handler that has a fallback does not use it.
FailedHard(q, error) ==
    IF error = "unavailable" THEN Refusing(q, 503, error, UnavailableReports(q))
    ELSE Refusing(q, 500, error, <<>>)

\* Rewrites and suggestions cannot do without the provider.
Failed(q, error) ==
    IF q.kind \in Flagged THEN Reply(q, [ok |-> FALSE, error |-> error])
    ELSE IF error = "unavailable" THEN Refusing(q, 503, error, UnavailableReports(q))
    ELSE Refusing(q, 500, error, <<>>)

\* complete_json() raised AITemporarilyUnavailableError or another error, or
\* the answer of a rewrite or a suggestion broke its schema.
Fail(c, error) ==
    /\ running /\ call[c].pc = "provider"
    /\ call' = [call EXCEPT ![c] = Failed(call[c].q, error)]
    /\ UNCHANGED <<backend, lost, running>>

\* The next report, awaited or in the background; its failure is swallowed.
Report(c, through) ==
    /\ running /\ call[c].pc \in {"refusing", "answered"} /\ call[c].todo # <<>>
    /\ through \/ lost < MaxLost
    /\ backend' = IF through THEN [backend EXCEPT ![c] = Append(@, Head(call[c].todo))] ELSE backend
    /\ lost' = IF through THEN lost ELSE lost + 1
    /\ call' = [call EXCEPT ![c].todo = Tail(@),
                            ![c].pc = IF Len(call[c].todo) = 1 THEN "answered" ELSE @]
    /\ UNCHANGED running

\* The process stops: open calls get no answer, open reports are gone.
Stop ==
    /\ running /\ running' = FALSE
    /\ call' = [c \in Calls |-> IF call[c].pc = "answered" THEN [call[c] EXCEPT !.todo = <<>>]
                                ELSE IF call[c] = Idle THEN Idle ELSE [pc |-> "dropped"]]
    /\ UNCHANGED <<backend, lost>>

Init ==
    /\ call = [c \in Calls |-> Idle]
    /\ backend = [c \in Calls |-> <<>>]
    /\ lost = 0 /\ running = TRUE

Next ==
    \/ \E c \in Calls :
        \/ \E q \in Queries : Receive(c, q)
        \/ \E on \in BOOLEAN : Flags(c, on)
        \/ call[c].pc = "provider" /\ \E raw \in Results(call[c].q) : Complete(c, raw)
        \/ \E error \in {"unavailable", "error"} : Fail(c, error)
        \/ \E through \in BOOLEAN : Report(c, through)
    \/ Stop

\* Every awaited call has a timeout: what a handler waits for comes back, if
\* only as a failure, and reports are tried.  Each of these is enabled as long
\* as its call waits, whatever it comes back with.
Spec ==
    /\ Init /\ [][Next]_vars
    /\ \A c \in Calls : /\ WF_vars(Flags(c, FALSE))
                        /\ WF_vars(Fail(c, "unavailable"))
                        /\ WF_vars(Report(c, TRUE))

(* Properties. *)

AnsweredBody(c) == Body(call[c].q, call[c].answer.result)
HasQuery(c) == call[c].pc \in {"flags", "provider", "refusing", "answered"}
Asked(c, kinds) == call[c].pc = "provider" /\ call[c].q.kind \in kinds
Done(c, kinds) == call[c].pc = "answered" /\ call[c].q.kind \in kinds /\ call[c].answer.code = 200
Told(c, type) == {i \in DOMAIN backend[c] : backend[c][i].type = type}

\* The types of the variables; only rewrites and suggestions can be refused
\* for their privacy level or for what the provider did.
TypeOK ==
    /\ running \in BOOLEAN /\ lost \in 0..MaxLost
    /\ \A c \in Calls :
        /\ call[c].pc \in {"idle", "flags", "provider", "refusing", "answered", "dropped"}
        /\ HasQuery(c) => call[c].q \in Queries
        /\ call[c].pc = "answered" =>
             call[c].answer.code \in IF call[c].q.kind \in {"rewrite", "suggest"}
                                     THEN {200, 403, 422, 500, 503} ELSE {200, 422}

\* Is a term in a spelling the policies know: with the policy's blanks, or cut
\* into at most four tokens that hold nothing else; a secret as its pattern is.
Recognized(t) == t.kept \/ (t.category # "secret" /\ t.pieces <= 4 /\ ~t.glued)

\* A text with a crisis, clinical or injection term or a secret in a spelling
\* the policies know never gets to the flags, the provider or an answer
\* through the gated endpoints.  (Others pass: a term cut otherwise than the
\* policy has it, into more than four tokens or with a letter or a "!" right
\* next to it.)  When the caller of a reporting endpoint reads the refusal,
\* and no report of it was lost, the backend already has exactly one safety
\* event, of high severity for a crisis, even if the process stops.
UnsafeIsRefusedAndTold ==
    \A c \in Calls : HasQuery(c) /\ call[c].q.kind \in Gated =>
        LET q == call[c].q
            unsafe == \E t \in q.terms : Recognized(t)
            crisis == \E t \in q.terms : Recognized(t) /\ t.category = "crisis"
        IN  unsafe =>
              /\ call[c].pc \in {"refusing", "answered"} /\ call[c].answer.code = 422
              /\ call[c].pc = "answered" /\ q.kind \in Reported /\ lost = 0 =>
                   \E i \in DOMAIN backend[c] :
                      /\ Told(c, "safety") = {i}
                      /\ backend[c][i].severity = "high" <=> crisis

\* Nothing waits at the provider without the user's consent to AI, and what
\* the MindFlow, decision and shopping graphs send is entries of the consented
\* domains, those that must stay local and unsafe keys left out.
PromptIsConsented ==
    \A c \in Calls : call[c].pc = "provider" =>
        LET q == call[c].q
            prompt == call[c].prompt
        IN  /\ IF q.kind = "rewrite" THEN q.level = "ai_allowed" ELSE q.ai
            /\ q.kind \in {"mindflow", "decide"} =>
                 \A i \in DOMAIN prompt : /\ prompt[i].level = "ai_allowed"
                                          /\ q.consent # {} => prompt[i].domain \in q.consent
            /\ q.kind \in {"shop", "needs"} =>
                 /\ \A i \in DOMAIN prompt.needs : q.consent # {} => prompt.needs[i].domain \in q.consent
                 /\ \A e \in prompt.context : /\ q.consent # {} => e.domain \in q.consent
                                               /\ e.keys \subseteq {"name", "amount"}

\* A phrase that reads as a private note leaves the inbox for the provider
\* only if the consent covers the journal, whatever else is in its clause.
PrivateNotesStay ==
    \A c \in Calls : Asked(c, {"mindflow"}) =>
        \A i \in DOMAIN call[c].prompt :
            \/ Consents(call[c].q, "journal")
            \/ \A k \in DOMAIN call[c].prompt[i].text : "journal" \notin call[c].prompt[i].text[k].looks

\* What the provider makes of an inbox stays within the consent, and the
\* clauses of an inbox that is not shared are all kept, as local items.
InboxKeepsConsent ==
    \A c \in Calls : Done(c, {"mindflow"}) =>
        LET q == call[c].q
            items == AnsweredBody(c)
        IN  IF q.ai THEN \A i \in DOMAIN items : Consents(q, items[i].domain)
            ELSE /\ Len(items) = Len(Clauses(q.note))
                 /\ \A i \in DOMAIN items : items[i].level = "local_only"

\* Whatever the provider is sent, and whatever is made of its answer, stays
\* within what the user consented to.
ConsentHolds == PromptIsConsented /\ PrivateNotesStay /\ InboxKeepsConsent

\* No failure of the provider and none of its answers fails an endpoint that
\* has a fallback, or leaves a capture without a domain, a shared inbox
\* without its clauses, a plan empty while a safe item is among the most urgent
\* ones, or a proof written in the user's language without a field it has.
FallbackNeverFails ==
    \A c \in Calls : call[c].pc = "answered" /\ call[c].q.kind \in Flagged =>
        LET q == call[c].q
            body == AnsweredBody(c)
        IN  /\ call[c].answer.code \in {200, 422}
            /\ call[c].answer.code = 200 =>
                 /\ q.kind = "parse" /\ q.note # <<>> => body # <<>>
                 /\ q.kind = "mindflow" /\ AllowedItems(LocalItems(q), q) # <<>> => body # <<>>
                 /\ q.kind = "decide" /\ body = <<>> =>
                      \A i \in DOMAIN LocalCards(q) : LocalCards(q)[i].unsafe
                 /\ q.kind = "proof" /\ call[c].answer.by = "rules" /\ q.proof.sentence = q.proof.locale =>
                      q.proof.fields \subseteq body

\* Every decision of a decision plan, the provider's too, waits for a
\* confirmation, reaches nothing outside and passed the review, and there are
\* no more than were asked for.
PlansAreReviewed ==
    \A c \in Calls : Done(c, {"decide"}) =>
        LET cards == AnsweredBody(c) IN
        /\ Len(cards) <= call[c].q.max
        /\ \A i \in DOMAIN cards : cards[i].confirm /\ ~cards[i].external /\ ~cards[i].unsafe

\* The decisions of a shopping plan are not reviewed: the provider's may reach
\* outside and say anything.  They all wait for a confirmation, and those of
\* the rules are at most three, each for a consented need, and stay inside.
ShoppingWaits ==
    \A c \in Calls : Done(c, {"shop"}) =>
        LET q == call[c].q
            cards == AnsweredBody(c).cards
        IN  /\ \A i \in DOMAIN cards : cards[i].confirm
            /\ ~Usable(call[c].answer.result) =>
                 /\ Len(cards) <= 3
                 /\ \A i \in DOMAIN cards :
                      /\ ~cards[i].external /\ ~cards[i].unsafe
                      /\ \E j \in DOMAIN q.needs : /\ Consents(q, q.needs[j].domain)
                                                  /\ cards[i].sources = <<q.needs[j].id>>

\* No evidence card claims a price without a price, a merchant, a source and
\* the time of the check, or sustainability without a source.
ClaimsAreVerified ==
    \A c \in Calls : Done(c, {"shop", "evidence"}) =>
        LET body == AnsweredBody(c)
            cards == IF call[c].q.kind = "shop" THEN ToSet(body.evidence) ELSE {body}
        IN  \A card \in cards :
              /\ "price" \in card.claims => {"price", "merchant", "source", "checked"} \subseteq card.facts
              /\ "green" \in card.claims => "source" \in card.facts

\* No answer of the provider gets past the review of decision plans and of
\* claims, and no decision, a shopping decision included, is acted on without
\* the confirmation of the user.
AnswersAreReviewed == PlansAreReviewed /\ ShoppingWaits /\ ClaimsAreVerified

\* The invocations the backend counts are true: one that is a success belongs
\* to a request that was answered, and the semantic parser is named exactly
\* when its answer was used.
InvocationsAreTrue ==
    \A c \in Calls : HasQuery(c) =>
        \A i \in Told(c, "invocation") :
            LET told == backend[c][i] IN
            /\ told.status = "success" <=> (call[c].pc = "answered" /\ call[c].answer.code = 200)
            /\ told.status = "success" /\ call[c].q.kind \in {"parse", "proof"} =>
                 (told.by = "semantic" <=> call[c].answer.by = "provider")

\* What AI_GATEWAY_API.md says of missions: a 503 is an invocation that the
\* backend counts.  The code builds its reports, but as background tasks of a
\* response that the exception replaces.
OutageIsInvoked ==
    \A c \in Calls :
        running /\ lost = 0 /\ call[c].pc = "answered" /\ call[c].answer.code = 503 /\ call[c].todo = <<>>
            => Told(c, "invocation") # {}

\* Every call is answered and all its reports are tried, unless the process
\* stops: a refusal does not wait for the backend forever.
CallsSettle ==
    \A c \in Calls :
        call[c] # Idle ~> (call[c].pc = "dropped" \/ (call[c].pc = "answered" /\ call[c].todo = <<>>))
=============================================================================
