----------------------------- MODULE RequestGraphs -----------------------------
(***************************************************************************)
(* What the gateway answers to one request, as a function of the request   *)
(* and of what the provider returned: captures, proofs, the MindFlow inbox *)
(* and its decisions, shopping, product evidence and task rewrites         *)
(* (use_cases.py, mindflow_graph.py, shopping_graph.py, guardrails.py).    *)
(* Pure operators; scores are in percent.                                  *)
(*                                                                         *)
(* A query is a record with its `kind`, `ai` (privacy setting), `consent`  *)
(* (allowed domains, none for all), `terms`, and what its kind adds.  The  *)
(* result of the provider is [ok |-> FALSE, error] or [ok |-> TRUE, raw],  *)
(* where raw.form is "good", "odd" (an object or list of another shape) or *)
(* "breaks" (a value the response schema refuses), and raw.items are its   *)
(* entries, each with a form of its own: "good" or "junk".                 *)
(***************************************************************************)
EXTENDS CaptureText

Consents(q, domain) == q.consent = {} \/ domain \in q.consent
Good(raw) == Those(raw.items, {i \in DOMAIN raw.items : raw.items[i].form = "good"})
Usable(result) == result.ok /\ result.raw.form = "good"

(* MindFlow inbox. *)

Urgency(domain, due) ==
    LET base == CASE domain = "finance" -> 78 [] domain = "pantry" -> 72 [] domain = "task" -> 70
                  [] domain = "week" -> 62 [] domain = "habit" -> 54 [] domain = "wardrobe" -> 50
                  [] OTHER -> 56
    IN  IF due THEN Least(94, base + 12) ELSE base

EffortOf(domain) ==
    CASE domain = "task" -> 58 [] domain = "finance" -> 42 [] domain = "pantry" -> 34
      [] domain = "week" -> 46 [] domain = "habit" -> 28
      [] domain \in {"wardrobe", "shopping"} -> 40 [] domain = "homememory" -> 52 [] OTHER -> 48

Confidence(domain) ==
    CASE domain = "journal" -> 90 [] domain = "finance" -> 88 [] domain = "pantry" -> 86
      [] domain = "wardrobe" -> 82 [] domain = "habit" -> 80 [] domain = "week" -> 76 [] OTHER -> 72

\* _mental_load_from_parsed_item(), for each parsed clause.
InboxItem(q, i, p) ==
    [id |-> <<"inbox", i>>, domain |-> p.domain, text |-> p.text,
     level |-> IF q.ai /\ Consents(q, p.domain) THEN "ai_allowed" ELSE "local_only",
     urgency |-> Urgency(p.domain, p.due), effort |-> EffortOf(p.domain),
     conf |-> Confidence(p.domain), unsafe |-> FALSE]

InboxItems(q, parsed) == [i \in DOMAIN parsed |-> InboxItem(q, i, parsed[i])]
LocalItems(q) == InboxItems(q, Parsed(q.note))

\* Mutant: the level of an item is enough.
AllowedItemsByLevel(items, q) ==
    Those(items, {i \in DOMAIN items : items[i].level = "ai_allowed"})

\* _filter_allowed_mindflow_items() and _filter_ai_allowed_items()
AllowedItems(items, q) ==
    Those(items, {i \in DOMAIN items : items[i].level = "ai_allowed" /\ Consents(q, items[i].domain)})

\* _normalize_provider_mindflow_items()
ProviderItems(raw) ==
    LET good == Good(raw) IN
    [i \in DOMAIN good |->
        [id |-> <<"provider", i>>, domain |-> good[i].domain, level |-> "ai_allowed"]]

\* Without consent every item, with consent the provider's items or the local
\* ones, both without what the consent leaves out.
SharedItems(local, theirs) == IF local # <<>> /\ theirs # <<>> THEN theirs ELSE local

MindflowItems(q, result) ==
    IF ~q.ai THEN LocalItems(q)
    ELSE SharedItems(AllowedItems(LocalItems(q), q),
                     IF Usable(result) THEN AllowedItems(ProviderItems(result.raw), q) ELSE <<>>)

(* Decisions. *)

\* _build_local_decisions(): stable, by falling urgency less a third of the
\* effort, then by confidence.
ByUrgency(items) ==
    SortedBy(items, [i \in DOMAIN items |->
        (100 * items[i].urgency - 35 * items[i].effort) * 1000 + items[i].conf])

LocalCards(q) ==
    LET top == FirstOf(ByUrgency(AllowedItems(q.items, q)), q.max) IN
    [i \in DOMAIN top |-> [by |-> "local", sources |-> <<top[i].id>>, unsafe |-> top[i].unsafe,
                           confirm |-> TRUE, external |-> FALSE, score |->
                             70 * top[i].urgency + 20 * top[i].conf + 10 * (100 - top[i].effort)]]

\* _normalize_provider_decisions() and _normalize_shopping_decision()
ProviderCards(raw) ==
    LET good == Good(raw) IN
    [i \in DOMAIN good |-> [by |-> "provider", sources |-> good[i].sources,
                            unsafe |-> good[i].unsafe, confirm |-> good[i].confirm,
                            external |-> good[i].external, score |-> 5400]]

\* Mutant: what the provider says about confirmation and reach is kept.
SanitizedAsGiven(cards, max) == FirstOf(Those(cards, {i \in DOMAIN cards : ~cards[i].unsafe}), max)

\* sanitize_decision_cards()
Sanitized(cards, max) ==
    LET kept == FirstOf(Those(cards, {i \in DOMAIN cards : ~cards[i].unsafe}), max)
    IN  [i \in DOMAIN kept |-> [kept[i] EXCEPT !.confirm = TRUE, !.external = FALSE]]

\* run_decision_plan_graph(): when the review leaves nothing, the local cards
\* are built again and reviewed.
Decisions(q, result) ==
    LET theirs == IF Usable(result) THEN Sanitized(ProviderCards(result.raw), q.max) ELSE <<>>
    IN  IF AllowedItems(q.items, q) = <<>> THEN <<>>
        ELSE IF theirs # <<>> THEN theirs ELSE Sanitized(LocalCards(q), q.max)

(* Shopping.  A need is [id, domain, item], a context entry [domain, item, *)
(* keys]: where it comes from, what it names and the kinds of its keys.    *)

AllowedNeeds(q) == Those(q.needs, {i \in DOMAIN q.needs : Consents(q, q.needs[i].domain)})

\* Mutant: the entries are passed on as they come.
SafeContextRaw(q) == {c \in q.context : Consents(q, c.domain)}

\* build_privacy_safe_shopping_context(): the safe keys of allowed domains.
SafeContext(q) ==
    {c \in {[e EXCEPT !.keys = @ \cap {"name", "amount"}] :
              e \in {e \in q.context : Consents(q, e.domain)}} : c.keys # {}}

\* _matches_existing_item(), for the pantry names of the safe context.
Owned(q, need) ==
    \E c \in SafeContext(q) : c.domain = "pantry" /\ c.item = need.item /\ "name" \in c.keys

\* A product evidence card: which facts it shows, and what its summary claims.
LocalEvidence(merchant) ==
    [facts |-> IF merchant THEN {"merchant"} ELSE {}, claims |-> {}, status |-> "insufficient"]

\* _normalize_product_evidence_from_dict(): the time of the check defaults to
\* now, the merchant to the one of the request.
ProviderEvidence(r, merchant) ==
    [facts |-> r.facts \cup {"checked"} \cup (IF merchant THEN {"merchant"} ELSE {}),
     claims |-> r.claims, status |-> r.status]

\* Mutant: a price claim is believed when there is a price.
CheckedEvidenceByPrice(card) ==
    IF "price" \in card.claims /\ "price" \notin card.facts
    THEN [card EXCEPT !.facts = {}, !.claims = {}] ELSE card

\* sanitize_product_evidence_cards()
CheckedEvidence(card) ==
    LET sold == IF "price" \in card.claims /\ ~({"source", "checked", "merchant", "price"} \subseteq card.facts)
                THEN [card EXCEPT !.facts = {}, !.claims = {}] ELSE card
    IN  IF "green" \in card.claims /\ "source" \notin sold.facts
        THEN [sold EXCEPT !.claims = {}, !.status = "insufficient"] ELSE sold

LocalShopping(q) ==
    LET needs == AllowedNeeds(q) IN
    [needs |-> needs,
     evidence |-> [i \in DOMAIN needs |-> LocalEvidence(FALSE)],
     cards |-> [i \in DOMAIN FirstOf(needs, 3) |->
                  [by |-> "local", sources |-> <<needs[i].id>>, unsafe |-> FALSE, confirm |-> TRUE,
                   external |-> FALSE, score |-> 5000, owned |-> Owned(q, needs[i])]]]

\* Mutant: a shopping decision keeps what the provider says of confirmation.
ProviderShoppingAsGiven(q, raw) ==
    [needs |-> AllowedNeeds(q),
     evidence |-> [i \in DOMAIN raw.evidence |-> ProviderEvidence(raw.evidence[i], FALSE)],
     cards |-> ProviderCards(raw)]

\* _normalize_provider_shopping_response(): `raw.needs` name their domain,
\* or the one of the need they stand for.
ProviderShopping(q, raw) ==
    LET allowed == AllowedNeeds(q)
        Need(i) == LET n == allowed[Least(i, Len(allowed))] IN
                   IF raw.needs[i] = "same" THEN n ELSE [n EXCEPT !.domain = raw.needs[i]]
        cards == ProviderCards(raw)
    IN  [needs |-> [i \in DOMAIN raw.needs |-> Need(i)],
         evidence |-> [i \in DOMAIN raw.evidence |-> ProviderEvidence(raw.evidence[i], FALSE)],
         cards |-> [i \in DOMAIN cards |-> [cards[i] EXCEPT !.confirm = TRUE]]]

\* run_shopping_plan_graph(); the decisions are not reviewed, only the evidence.
Shopping(q, result) ==
    LET found == IF Usable(result) THEN ProviderShopping(q, result.raw) ELSE LocalShopping(q)
        none  == [needs |-> <<>>, evidence |-> <<>>, cards |-> <<>>]
    IN  IF AllowedNeeds(q) = <<>> THEN none
        ELSE [found EXCEPT !.evidence = [i \in DOMAIN @ |-> CheckedEvidence(@[i])]]

\* run_extract_shopping_needs_graph()
ShoppingNeeds(q, result) == [Shopping(q, result) EXCEPT !.evidence = <<>>, !.cards = <<>>]

\* run_product_evidence_graph()
Evidence(q, result) ==
    CheckedEvidence(IF Usable(result) THEN ProviderEvidence(result.raw, q.merchant)
                    ELSE LocalEvidence(q.merchant))

(* Captures, proofs and rewrites. *)

\* run_event_classification_semantic(), run_event_parse_semantic() and
\* run_proof_parse_semantic() raise when nothing usable is left, and the
\* caller falls back to the rules.
SemanticItems(raw) == LET good == Good(raw) IN [i \in DOMAIN good |-> good[i].domain]
SemanticUsed(q, result) ==
    Usable(result) /\ (q.kind = "proof" \/ SemanticItems(result.raw) # <<>>)

DomainsOf(items) == [i \in DOMAIN items |-> items[i].domain]
RuleDomains(note) == DomainsOf(Parsed(note))

ParsedDomains(q, result) ==
    IF SemanticUsed(q, result) THEN SemanticItems(result.raw) ELSE RuleDomains(q.note)

ClassifiedDomain(q, result) ==
    IF SemanticUsed(q, result) THEN SemanticItems(result.raw)[1] ELSE Classified(q.note).domain

ParsedProof(q, result) ==
    IF SemanticUsed(q, result) THEN result.raw.fields ELSE ProofFields(q.proof)

\* _normalize_task_rewrite_steps(): entries that are no objects are skipped.
RewriteSteps(raw) == IF raw.form = "odd" THEN <<>> ELSE Good(raw)
=============================================================================
