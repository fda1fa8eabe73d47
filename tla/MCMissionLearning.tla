--------------------------- MODULE MCMissionLearning ---------------------------
\* Two users, a provider that answers with reviewed, flawed, repeated and
\* legacy candidates, and a feedback file with an item of an older version.
EXTENDS MissionLearning

CONSTANTS ann, bob

Event(domain, type, level) == [domain |-> domain, type |-> type, level |-> level]

Open == [user |-> ann, ai |-> TRUE, consent |-> {"task", "habit"}, cross |-> FALSE, max |-> 2,
         summaries |-> <<>>, required |-> "none", extra |-> {},
         events |-> {Event("task", "task", "ai_allowed"), Event("habit", "habit", "local_only"),
                     Event("wardrobe", "purchase_intention", "ai_allowed")}]
Closet == [Open EXCEPT !.required = "wardrobe"]
Closed == [Open EXCEPT !.user = bob, !.ai = FALSE, !.max = 1]
MCPlanRequests == {Open, Closet, Closed}

Evidence == <<[domain |-> "task", conf |-> 7000]>>
Candidate(form, id, targets, conf, flaw) ==
    [form |-> form, id |-> id, targets |-> targets, type |-> "mission", evidence |-> Evidence,
     conf |-> conf, flaw |-> flaw, confirm |-> FALSE]
Walk   == Candidate("valid", <<"walk">>, <<"task">>, 7000, "none")
Sleep  == Candidate("valid", <<"sleep">>, <<"habit">>, 7200, "none")
Unsafe == Candidate("valid", <<"dose">>, <<"habit">>, 9000, "medical")
Bare   == [Walk EXCEPT !.id = <<"bare">>, !.evidence = <<>>]
Legacy == Candidate("legacy", <<"walk">>, <<>>, 6000, "none")
Junk   == [Walk EXCEPT !.form = "junk"]
Broken == [Walk EXCEPT !.form = "breaks"]
MCRawAnswers == {<<Legacy, Unsafe, Walk>>, <<Bare, Sleep, Junk>>, <<Broken>>}

MCReactions ==
    {[status |-> "rejected", repeated |-> FALSE, reason |-> "unknown", hint |-> "too_hard", effort |-> "unknown"],
     [status |-> "useful", repeated |-> TRUE, reason |-> "unknown", hint |-> "unknown", effort |-> "unknown"]}

OldItem == [n |-> 0, user |-> bob, id |-> <<"walk">>, status |-> "rejected", repeated |-> FALSE,
            targets |-> <<"task">>, type |-> "mission",
            key |-> LearningKey(<<"task">>, "mission"), 
            reason |-> "unknown", effort |-> "unknown", note |-> TRUE]
MCOldFiles == {<<OldItem>>}
=============================================================================
