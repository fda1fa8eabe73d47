--------------------------- MODULE MCGatewayRequests ---------------------------
EXTENDS GatewayRequests

P(by, looks, words, due, expires) ==
    [by |-> by, looks |-> looks, words |-> words, due |-> due, expires |-> expires]
\* "diary entry and gaste 5, spinach expires" and "my diary and 20 minutes".
Diary   == P("none", {"journal"}, {"diary"}, FALSE, FALSE)
Spent   == P("and", {"finance"}, {"gaste"}, FALSE, FALSE)
Spinach == P("none", {"pantry"}, {"expires"}, FALSE, TRUE)
Minutes == P("and", {"finance"}, {}, TRUE, FALSE)
Notes == {<< <<Diary, Spent>>, <<Spinach>> >>, << <<Diary, Minutes>>, <<>> >>}
TermOf(category, kept, pieces, glued) ==
    {[category |-> category, kept |-> kept, pieces |-> pieces, glued |-> glued]}
Plain(category) == TermOf(category, TRUE, 2, TRUE)
Cut(category, pieces) == TermOf(category, FALSE, pieces, FALSE)

Item(n, domain, level, urgency, unsafe) ==
    [id |-> <<"item", n>>, domain |-> domain, level |-> level, urgency |-> urgency,
     effort |-> 40, conf |-> 70, unsafe |-> unsafe]
Items == <<Item(1, "task", "ai_allowed", 60, FALSE), Item(2, "finance", "ai_allowed", 80, TRUE),
           Item(3, "task", "local_only", 90, FALSE), Item(4, "finance", "ai_allowed", 50, FALSE)>>

Needs == <<[id |-> 1, domain |-> "pantry", item |-> "rice"], [id |-> 2, domain |-> "finance", item |-> "lamp"]>>
Context == {[domain |-> "pantry", item |-> "rice", keys |-> {"name", "note"}],
            [domain |-> "wardrobe", item |-> "coat", keys |-> {"name"}],
            [domain |-> "finance", item |-> "rent", keys |-> {"note"}]}

Ask(kind, ai, consent, terms, more) ==
    [kind |-> kind, ai |-> ai, consent |-> consent, terms |-> terms] @@ more
ProofOf(locale, sentence, fields) ==
    [proof |-> [locale |-> locale, sentence |-> sentence, fields |-> fields]]

\* Every policy term: as the policy has it next to a "!", in one token, cut into
\* four and into five, and cut into three with a "!" after it.
Texts == {{}} \cup UNION {{Plain(c), Cut(c, 1), Cut(c, 4), Cut(c, 5), TermOf(c, FALSE, 3, TRUE)} :
                           c \in {"crisis", "clinical", "injection", "secret"}}
         \cup {Cut("crisis", 4) \cup Plain("secret"), Cut("injection", 2) \cup Cut("clinical", 5)}
Consent == {{}, {"task"}, {"journal"}, {"finance", "pantry"}}

MCQueries ==
    {Ask(k, ai, {"task"}, {}, [note |-> n]) :
       k \in {"classify", "parse"}, ai \in BOOLEAN, n \in Notes \cup {<<>>, << <<>> >>}}
    \cup {Ask(k, TRUE, {}, t, [note |-> << <<Spinach>> >>]) :
            k \in {"classify", "parse", "mindflow"}, t \in Texts}
    \cup {Ask("mindflow", ai, d, {}, [note |-> n]) : ai \in BOOLEAN, d \in Consent, n \in Notes}
    \cup {Ask("proof", ai, {}, {}, ProofOf(l, s, {"product", "merchant"} \cup f)) :
            ai \in BOOLEAN, l \in {"en", "pt-BR"}, s \in {"en", "es", "pt-BR", "none"},
            f \in {{}, {"amount"}, {"warranty", "date"}}}
    \cup {Ask("proof", TRUE, {}, t, ProofOf("en", "none", {"date"})) : t \in Texts}
    \cup {Ask("decide", ai, d, {}, [items |-> Items, max |-> m]) :
            ai \in BOOLEAN, d \in Consent, m \in 1..3}
    \cup {Ask(k, ai, d, {}, [needs |-> Needs, context |-> Context]) :
            k \in {"shop", "needs"}, ai \in BOOLEAN, d \in Consent}
    \cup {Ask("evidence", ai, {}, {}, [merchant |-> m]) : ai, m \in BOOLEAN}
    \cup {Ask("rewrite", TRUE, {}, t, [level |-> l]) : t \in Texts, l \in {"ai_allowed", "local_only"}}
    \cup {Ask("suggest", ai, {}, {}, [max |-> 2]) : ai \in BOOLEAN}
    \cup {Ask("feedback", TRUE, {}, {}, [max |-> 1])}
    \cup {Ask("reflect", TRUE, {}, t, [max |-> 1]) : t \in Texts}

Odd == [form |-> "odd", items |-> <<>>]
Broken == [form |-> "breaks", items |-> <<>>]
Entries(items) == [form |-> "good", items |-> items]
Of(domain) == [form |-> "good", domain |-> domain]
Junk == [form |-> "junk"]
Card(unsafe, external) ==
    [form |-> "good", sources |-> <<"other">>, unsafe |-> unsafe, confirm |-> FALSE, external |-> external]
Seen(facts, claims) == [facts |-> facts, claims |-> claims, status |-> "verified"]

MCResults(q) ==
    {f @@ [plan |-> [shown |-> 1, rejected |-> 0]] : f \in {Odd, Broken}} \cup
    CASE q.kind \in {"classify", "parse", "mindflow"} ->
           {Entries(<<Junk>>), Entries(<<Of("finance"), Junk, Of("journal")>>)}
      [] q.kind = "proof" -> {Entries(<<>>) @@ [fields |-> {"product"}]}
      [] q.kind = "decide" -> {Entries(<<Junk, Card(TRUE, FALSE)>>),
                               Entries(<<Card(FALSE, TRUE), Card(TRUE, FALSE), Card(FALSE, FALSE)>>)}
      [] q.kind \in {"shop", "needs"} ->
           {[form |-> "good", needs |-> n, items |-> <<Card(FALSE, TRUE)>>,
             evidence |-> <<Seen({"price"}, {"price", "green"}), Seen({"source"}, {"green"})>>] :
               n \in {<<>>, <<"same", "journal">>}}
      [] q.kind = "evidence" ->
           {[form |-> "good"] @@ Seen(f, c) : f \in {{"price"}, {"price", "source"}}, c \in {{"price"}, {"green"}}}
      [] q.kind = "rewrite" -> {Entries(<<Junk, Of("task")>>)}
      [] q.kind = "suggest" -> {[form |-> "good", items |-> <<>>, plan |-> [shown |-> 2, rejected |-> r]] : r \in {0, 1}}
=============================================================================
