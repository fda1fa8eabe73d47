---------------------------- MODULE LearningMemory ----------------------------
(***************************************************************************)
(* learning_memory.py: what the gateway learns from the feedback on its    *)
(* missions.  Pure operators over a sequence of stored feedback items, in  *)
(* the order they were recorded.  Weights and scores are integers in units *)
(* of one hundredth.                                                       *)
(***************************************************************************)
EXTENDS Lists, SequencesExt

Statuses == {"useful", "accepted", "completed", "edited", "rejected"}

\* STATUS_WEIGHTS, times 100.
Weight(status) ==
    CASE status = "useful"    -> 80
      [] status = "accepted"  -> 65
      [] status = "completed" -> 100
      [] status = "edited"    -> 35
      [] status = "rejected"  -> -90

\* The domains of a pattern, sorted and without repetition: a set.
NormalDomains(targets) == IF targets = <<>> THEN {"system"} ELSE ToSet(targets)

LearningKey(targets, type) == [type |-> type, domains |-> NormalDomains(targets)]

\* derive_rejection_reason_category(): the reason the client names, or the one
\* its note hints at; only a rejection has one.
RejectionReason(status, named, hinted) ==
    IF status # "rejected" THEN "none" ELSE IF named # "unknown" THEN named ELSE hinted

EffortFeedback(status, named, reason) ==
    CASE named # "unknown"                          -> named
      [] named = "unknown" /\ status = "completed"  -> "balanced"
      [] named = "unknown" /\ status \in {"useful", "accepted", "edited"} -> "low"
      [] named = "unknown" /\ status = "rejected"   ->
            IF reason = "too_hard" THEN "high" ELSE "unknown"

\* Mutant: the first key of the trace is taken.
ResolveKeyFirst(id, targets, type, keys) ==
    IF DOMAIN keys # {} THEN keys[CHOOSE k \in DOMAIN keys : TRUE] ELSE LearningKey(targets, type)

\* The client echoes the trace of the plan it shows.  `keys` is its map
\* learning_keys_by_suggestion_id, a partial function.
ResolveKey(id, targets, type, keys) ==
    IF id \in DOMAIN keys THEN keys[id] ELSE LearningKey(targets, type)

\* Mutant: everybody's feedback is summed up.
OfAnyUser(items, user) == items

OfUser(items, user) == Those(items, {i \in DOMAIN items : items[i].user = user})
OfKey(items, key)   == Those(items, {i \in DOMAIN items : items[i].key = key})
OfType(items, type) == Those(items, {i \in DOMAIN items : items[i].type = type})
OfDomain(items, d)  == Those(items, {i \in DOMAIN items : d \in NormalDomains(items[i].targets)})
OfSuggestion(items, id) == Those(items, {i \in DOMAIN items : items[i].id = id})

CountStatus(items, status) == Cardinality({i \in DOMAIN items : items[i].status = status})

Positive(items) == Cardinality({i \in DOMAIN items : Weight(items[i].status) > 0})
Negative(items) == Cardinality({i \in DOMAIN items : Weight(items[i].status) < 0})
Repeated(items) == Cardinality({i \in DOMAIN items : items[i].repeated})
NetScore(items) == SumSeq([i \in DOMAIN items |-> Weight(items[i].status)])

\* The last five items: memory_profile.recent_feedback.
Recent(items) == SubSeq(items, IF Len(items) > 5 THEN Len(items) - 4 ELSE 1, Len(items))

\* _build_memory_profile(): the three patterns, and the three domains, with
\* the strongest scores of a sign, and the recent feedback.  Ties are broken
\* by the size and the name of a pattern, here by any order.
TopThree(candidates, strength) ==
    {c \in candidates : Cardinality({o \in candidates : strength[o] > strength[c]}) < 3}

MemoryProfile(items) ==
    LET keys    == {items[i].key : i \in DOMAIN items}
        domains == UNION {NormalDomains(items[i].targets) : i \in DOMAIN items}
        pattern == [k \in keys |-> NetScore(OfKey(items, k))]
        domain  == [d \in domains |-> NetScore(OfDomain(items, d))]
    IN  [reinforce |-> TopThree({k \in keys : pattern[k] > 0}, pattern),
         avoid     |-> TopThree({k \in keys : pattern[k] < 0}, [k \in keys |-> -pattern[k]]),
         liked     |-> TopThree({d \in domains : domain[d] > 0}, domain),
         disliked  |-> TopThree({d \in domains : domain[d] < 0}, [d \in domains |-> -domain[d]]),
         recent    |-> Recent(items)]
=============================================================================
