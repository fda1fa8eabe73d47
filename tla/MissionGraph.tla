----------------------------- MODULE MissionGraph -----------------------------
(***************************************************************************)
(* The pipeline behind the five suggestion endpoints (golife_graph.py with *)
(* guardrails.py and policy_engine.py): consent filter, day state, risks,  *)
(* the provider's candidates, feedback learning, output review, ranking    *)
(* and the local suggestions that fill the answer up.  Pure operators.     *)
(* Scores are integers in units of 1/10000, the four decimals the code     *)
(* rounds to; where a product has more decimals the model rounds down.     *)
(*                                                                         *)
(* A request is [user, ai, consent, cross, events, summaries, max,         *)
(* required, extra]: `consent` are the allowed domains of its privacy      *)
(* settings, `extra` the allowed domains beside them, `required` the       *)
(* domain of a domain endpoint or "none", and an event is                  *)
(* [domain, type, level].                                                  *)
(***************************************************************************)
EXTENDS LearningMemory

UnitScore(x) == IF x < 0 THEN 0 ELSE Least(x, 10000)

\* The allowed domains of the privacy settings, or those of the request when
\* the settings name none; no domain at all allows every domain.
Allowed(req) == IF req.consent # {} THEN req.consent ELSE req.extra
Consents(req, domain) == Allowed(req) = {} \/ domain \in Allowed(req)

\* run_domain_suggestions(): a domain endpoint adds its own domain, and those
\* of the request, to what the privacy settings allow.
AsDomainRequest(req) ==
    IF req.required = "none" THEN req
    ELSE [req EXCEPT !.consent = req.consent \cup req.extra \cup {req.required}]

\* Mutant: the privacy level of an event is not looked at.
AllowedEventsAnyLevel(req) ==
    {e \in req.events : req.ai /\ Consents(req, e.domain)}
AllowedEvents(req) ==
    {e \in req.events : req.ai /\ e.level = "ai_allowed" /\ Consents(req, e.domain)}

ActiveDomains(req) == {e.domain : e \in AllowedEvents(req)}

DayState(req) ==
    LET d == ActiveDomains(req) IN
    IF ~req.ai                              THEN "unknown"
    ELSE IF {"task", "habit"} \subseteq d     THEN "steady"
    ELSE IF {"finance", "pantry"} \subseteq d THEN "recovery"
    ELSE IF Cardinality(d) >= 3               THEN "overloaded"
    ELSE IF d # {}                            THEN "unstructured"
    ELSE                                           "unknown"

\* Severities carry the weight the urgency score gives them.
Risks(req) ==
    LET d == ActiveDomains(req)
        buys == \E e \in AllowedEvents(req) : e.type = "purchase_intention"
        Risk(holds, severity, domains) ==
            IF holds THEN <<[severity |-> severity, domains |-> domains]>> ELSE <<>>
    IN  FirstOf(Risk({"finance", "pantry"} \subseteq d, 1800, <<"finance", "pantry">>)
             \o Risk({"task", "habit"} \subseteq d, 1800, <<"task", "habit">>)
             \o Risk(buys, 800, <<"wardrobe">>)
             \o Risk(DayState(req) = "overloaded", 2800, SetToSeq(d)), 3)

\* Patterns are named by their domains.
Patterns(req) ==
    LET d == ActiveDomains(req) IN
    {p \in {{"task", "habit"}, {"finance", "pantry"}} : p \subseteq d}
      \cup {p \in {{"wardrobe"}} : /\ p \subseteq d
                                  /\ \E e \in AllowedEvents(req) : e.type = "purchase_intention"}

\* The summaries of the client as they come, or one for each active domain.
Summaries(req) ==
    IF req.summaries # <<>> THEN req.summaries ELSE SetToSeq(ActiveDomains(req))

\* The user payload of the provider's request.
Prompt(req, mine) ==
    [events |-> AllowedEvents(req), day |-> DayState(req), risks |-> Risks(req),
     patterns |-> Patterns(req), summaries |-> Summaries(req), memory |-> MemoryProfile(mine)]

GraphDomains == {"task", "habit", "week", "finance", "pantry", "wardrobe", "mission", "system"}
CoerceDomain(d) == IF d \in GraphDomains THEN d ELSE "system"
CoerceDomains(ds) == [i \in DOMAIN ds |-> CoerceDomain(ds[i])]

\* A raw item of the provider's answer is "valid" under the schema, a
\* "legacy" object the normaliser repairs, "junk" that is skipped, or an
\* object whose repair "breaks" the handler.
Normalised(raw) ==
    LET Repair(r) ==
            IF r.form = "valid" THEN r
            ELSE [r EXCEPT !.targets = IF r.targets = <<>> THEN <<"system">>
                                       ELSE CoerceDomains(r.targets)]
        kept == Those(raw, {i \in DOMAIN raw : raw[i].form # "junk"})
    IN  [i \in DOMAIN kept |-> Repair(kept[i])]

Breaks(raw) == \E i \in DOMAIN raw : raw[i].form = "breaks"

\* Mutant: a suggestion without evidence passes.
SafeBare(c) == c.flaw = "none"

\* evaluate_suggestion(): `flaw` is the first policy the text runs into.
Safe(c) == c.evidence # <<>> /\ c.flaw = "none"

\* sanitize_suggestions() stops at the max-th safe candidate.
Reviewed(cands, max) ==
    LET safe == FirstOf(Those(cands, {i \in DOMAIN cands : Safe(cands[i])}), max)
    IN  [i \in DOMAIN safe |-> [safe[i] EXCEPT !.confirm = TRUE]]

Rejected(cands, max) ==
    {i \in DOMAIN cands : /\ ~Safe(cands[i])
                          /\ Cardinality({j \in 1..i : Safe(cands[j])}) < max}

KeyOf(c) == LearningKey(c.targets, c.type)

\* _feedback_delta(): `mine` is the feedback of the requesting user.
FeedbackDelta(c, mine) ==
    LET onId  == OfSuggestion(mine, c.id)
        onKey == OfKey(mine, KeyOf(c))
        onType == OfType(mine, c.type)
        OnDomain(d) == LET items == OfDomain(mine, d) IN
            100 * (CountStatus(items, "useful") + CountStatus(items, "completed"))
              - 200 * CountStatus(items, "rejected")
    IN  500 * CountStatus(onId, "useful") + 600 * CountStatus(onId, "completed")
          + 300 * CountStatus(onId, "accepted") - 800 * CountStatus(onId, "rejected")
      + 600 * Positive(onKey) - 700 * Negative(onKey) + 5 * NetScore(onKey)
      + SumSeq([i \in DOMAIN c.targets |-> OnDomain(c.targets[i])])
      + 100 * Positive(onType) - 150 * Negative(onType) + NetScore(onType)

\* The deltas are kept by suggestion id: the last candidate of an id wins.
BiasOf(cands, id, mine) ==
    LET last == CHOOSE i \in DOMAIN cands :
                  cands[i].id = id /\ \A j \in DOMAIN cands : cands[j].id = id => j <= i
    IN  FeedbackDelta(cands[last], mine)

\* Mutant: the scores of a new and of a just rejected pattern are swapped.
NoveltySwapped(c, mine) ==
    LET known == OfKey(mine, KeyOf(c)) IN
    IF known = <<>> THEN 1600
    ELSE IF \E i \in DOMAIN Recent(mine) : /\ Recent(mine)[i].key = KeyOf(c)
                                           /\ Recent(mine)[i].status = "rejected"
         THEN 8200 ELSE 7200

Novelty(c, mine) ==
    LET known == OfKey(mine, KeyOf(c)) IN
    IF known = <<>> THEN 8200
    ELSE IF \E i \in DOMAIN Recent(mine) : /\ Recent(mine)[i].key = KeyOf(c)
                                           /\ Recent(mine)[i].status = "rejected"
         THEN 1600
    ELSE IF Negative(known) > Positive(known) THEN 2400
    ELSE IF Repeated(known) > 0 THEN 3400
    ELSE IF Negative(known) = 0 THEN 7200
    ELSE 6200

Effort(c) ==
    UnitScore((CASE c.type \in {"reflection", "warning"} -> 8600
            [] c.type = "plan_adjustment" -> 7800
            [] c.type = "task_rewrite"    -> 7200
            [] OTHER                      -> 7400)
        - (IF Len(c.targets) >= 3 THEN 2000 ELSE IF Len(c.targets) = 2 THEN 1000 ELSE 0)
        - (IF Len(c.evidence) >= 3 THEN 300 ELSE 0))

Privacy(c, req) ==
    LET targets  == ToSet(c.targets)
        cross    == Cardinality(targets) > 1
        outside  == \E i \in DOMAIN c.evidence : c.evidence[i].domain \notin req.consent
        filtered == {e.domain : e \in req.events \ AllowedEvents(req)}
    IN  IF cross /\ ~req.cross THEN 1800
        ELSE IF outside THEN 0
        ELSE IF cross /\ filtered \cap targets # {} THEN 5800
        ELSE IF cross THEN 7600
        ELSE 9200

\* _score_suggestion(), with the bias of the candidate's id.
Score(c, bias, req, mine) ==
    LET risks    == Risks(req)
        matched  == Those(risks, {i \in DOMAIN risks :
                                    ToSet(risks[i].domains) \cap ToSet(c.targets) # {}})
        strength == IF c.evidence = <<>> THEN 0
                    ELSE SumSeq([i \in DOMAIN c.evidence |-> c.evidence[i].conf]) \div Len(c.evidence)
        day      == DayState(req)
        impact   == UnitScore(4200 + (strength * 22) \div 100
                        + (Least(Len(c.targets), 3) - 1) * 800 + Least(Len(matched), 3) * 800)
        urgency  == UnitScore(3200 + SumSeq([i \in DOMAIN matched |-> matched[i].severity])
                        + (IF day = "overloaded" THEN 1200 ELSE IF day = "recovery" THEN 800 ELSE 0))
        feedback == UnitScore(5000 + (bias * 5) \div 4)
    IN  UnitScore((25 * impact + 20 * urgency + 15 * UnitScore(c.conf) + 15 * feedback
              + 10 * Novelty(c, mine) + 10 * Privacy(c, req)
              - 5 * (10000 - Effort(c))) \div 100)

\* Mutant: the provider's order is kept.
RankedAsGiven(reviewed, cands, req, mine) == reviewed

\* A stable sort by falling score.
Ranked(reviewed, cands, req, mine) ==
    SortedBy(reviewed, [i \in DOMAIN reviewed |->
        Score(reviewed[i], BiasOf(cands, reviewed[i].id, mine), req, mine)])

\* _build_fallback_suggestion(): made here, never reviewed.
Synthesised(targets, index) ==
    [form |-> "synth", id |-> <<"synth", targets[1], index>>, targets |-> targets,
     type |-> "mission", evidence |-> <<[domain |-> targets[1], conf |-> 6600]>>,
     conf |-> 6200, flaw |-> "none", confirm |-> TRUE]

\* The targets _ensure_suggestion_count() tries: those of the risks, of the
\* summaries and of the consent, and the system.
Targets(req) ==
    LET risks     == Risks(req)
        summaries == Summaries(req)
        consent   == SetToSeq(req.consent)
    IN  [i \in DOMAIN risks |-> CoerceDomains(risks[i].domains)]
          \o [i \in DOMAIN summaries |-> <<CoerceDomain(summaries[i])>>]
          \o [i \in DOMAIN consent |-> <<CoerceDomain(consent[i])>>]
          \o <<<<"system">>>>

\* _ensure_suggestion_count(): targets not yet present, until there are max.
FilledUp(req, ranked) ==
    LET more == Targets(req)
        Add(plan, targets) ==
            IF Len(plan) >= req.max \/ \E i \in DOMAIN plan : plan[i].targets = targets
            THEN plan ELSE Append(plan, Synthesised(targets, Len(plan) + 1))
        filled[n \in 0..Len(more)] == IF n = 0 THEN ranked ELSE Add(filled[n - 1], more[n])
    IN  FirstOf(filled[Len(more)], req.max)

\* learning_keys_by_suggestion_id: the last suggestion of an id wins.
LearningKeys(plan) ==
    [id \in {plan[i].id : i \in DOMAIN plan} |->
        LET last == CHOOSE i \in DOMAIN plan :
                      plan[i].id = id /\ \A j \in DOMAIN plan : plan[j].id = id => j <= i
        IN  KeyOf(plan[last])]

\* Mutant: local fill-up is not reported.
SourceStateBlind(req, filled, mock) == IF mock \/ ~req.ai THEN "local" ELSE "live"

\* Without consent the provider's answer is the mock one.
SourceState(req, filled, mock) ==
    IF mock \/ ~req.ai THEN "local" ELSE IF filled THEN "degraded" ELSE "live"

\* generate_candidates() to build_response(), for a provider's answer `raw`.
BuildResponse(req, raw, mine, mock) ==
    LET cands  == IF req.ai THEN Normalised(raw) ELSE <<>>
        ranked == Ranked(Reviewed(cands, req.max), cands, req, mine)
        plan   == FilledUp(req, ranked)
    IN  [plan     |-> plan,
         keys     |-> LearningKeys(plan),
         rejected |-> Rejected(cands, req.max),
         source   |-> SourceState(req, Len(plan) > Len(ranked), mock)]
=============================================================================
