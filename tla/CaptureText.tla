------------------------------ MODULE CaptureText ------------------------------
(***************************************************************************)
(* What the gateway reads out of a text without any AI: the clauses of a   *)
(* captured note (capture_parser.py), the fields of a proof of purchase    *)
(* (proof_parser.py) and the verdict of the input policies                 *)
(* (policy_engine.py, guardrails.py).  Pure operators.                     *)
(*                                                                         *)
(* A note is a sequence of parts, what commas and line ends separate; a    *)
(* part is a sequence of phrases, and a phrase is                          *)
(* [by, looks, words, due, expires, id]: the connector in front of it, the *)
(* domains whose wording it has, its capture signals, whether it names a   *)
(* day, whether it says that food expires.  The terms of a text are the    *)
(* policy terms somebody wrote into it, as the normalized text holds them: *)
(* [category, kept, pieces, glued].  That text has no accents, letters for *)
(* digits and for @ $ !, one blank for all else, and neighbouring single   *)
(* letters joined.  A term is `kept` if it has the blanks of the policy's  *)
(* spelling, else it lies in `pieces` tokens; it is `glued` if the first   *)
(* or the last of them holds more: "my self!" is (my, selfi), and in       *)
(* "I k i l l m y s e l f" everything is one token.                        *)
(***************************************************************************)
EXTENDS Lists, SequencesExt

(* Notes. *)

\* _split_on_connector() tries "y" first, then "e", then "and".
Connector(part) ==
    Earliest(<<"y", "e", "and", "none">>, {"none"} \cup {part[i].by : i \in 2..Len(part)})

Signals(part) == UNION {part[i].words : i \in DOMAIN part}

CutAt(part, c) ==
    LET Add(pieces, phrase) ==
            IF pieces = <<>> \/ (phrase.by = c /\ c # "none") THEN Append(pieces, <<phrase>>)
            ELSE [pieces EXCEPT ![Len(pieces)] = Append(@, phrase)]
        cut[n \in 0..Len(part)] == IF n = 0 THEN <<>> ELSE Add(cut[n - 1], part[n])
    IN  cut[Len(part)]

\* A part is cut at its connector when it holds two capture signals.
Pieces(part) ==
    IF Cardinality(Signals(part)) < 2 THEN <<part>>
    ELSE CutAt(part, Connector(part))

AllPieces(note) ==
    LET pieces[n \in 0..Len(note)] ==
            IF n = 0 THEN <<>> ELSE pieces[n - 1] \o Pieces(note[n])
    IN  pieces[Len(note)]

\* _split_into_clauses(): blank clauses are dropped, a text of nothing but
\* separators is one clause.
Clauses(note) ==
    IF note = <<>> THEN <<>>
    ELSE IF \A i \in DOMAIN note : note[i] = <<>> THEN << <<>> >>
    ELSE Those(AllPieces(note), {i \in DOMAIN AllPieces(note) : AllPieces(note)[i] # <<>>})

Looks(clause) == UNION {clause[i].looks : i \in DOMAIN clause}

\* Mutant: spending wins over private notes.
DomainSpendFirst(clause) ==
    Earliest(<<"finance", "journal", "pantry", "wardrobe", "habit", "week", "task">>,
             Looks(clause) \cup {"task"})

\* _classify_clause(): the first domain whose wording is found.
Domain(clause) ==
    Earliest(<<"journal", "finance", "pantry", "wardrobe", "habit", "week", "task">>,
             Looks(clause) \cup {"task"})

\* _extract_hints(): is there a time or an expiry hint.
HasDueHint(clause, domain) ==
    \E i \in DOMAIN clause : clause[i].due \/ (domain = "pantry" /\ clause[i].expires)

ParsedItem(clause, domain) ==
    [domain |-> domain, due |-> HasDueHint(clause, domain), text |-> clause]

ParsedItems(clauses) == [i \in DOMAIN clauses |-> ParsedItem(clauses[i], Domain(clauses[i]))]
Parsed(note) == ParsedItems(Clauses(note))

\* classify_capture_request(): the first item, or a task.
Classified(note) ==
    IF note = <<>> THEN [domain |-> "task", due |-> FALSE, text |-> <<>>]
    ELSE Head(Parsed(note))

(* Proofs of purchase: [locale, sentence, fields], where `sentence` is the *)
(* language of the purchase sentence in the text, or "none".               *)

Locales == <<"en", "es", "pt-BR", "ja", "zh-Hans">>
AnyOrder == {"amount", "warranty", "date"}

\* _build_result(): amount, warranty and date are found in any language.
ParsedAs(proof, locale) ==
    {f \in proof.fields : f \in AnyOrder \/ proof.sentence = locale}

\* _generic_parse() takes what is left of the text for the product.
ParsedGeneric(proof) == {f \in proof.fields : f \in AnyOrder} \cup {"product"}

\* The parsers among `locales` that find a product, a merchant or an amount.
Finding(proof, locales) ==
    {l \in ToSet(locales) : ParsedAs(proof, l) \cap {"product", "merchant", "amount"} # {}}

\* Mutant: the locale of the user is not tried first.
ProofFieldsInOrder(proof) ==
    IF Finding(proof, Locales) = {} THEN ParsedGeneric(proof)
    ELSE ParsedAs(proof, Earliest(Locales, Finding(proof, Locales)))

\* _parse_with_locale(): the first parser that finds something, the one of
\* the user's locale before all others.
ProofFields(proof) ==
    LET tried == <<proof.locale>> \o Locales
    IN  IF Finding(proof, tried) = {} THEN ParsedGeneric(proof)
        ELSE ParsedAs(proof, Earliest(tried, Finding(proof, tried)))

(* Policies. *)

\* Mutant: the windows of joined tokens are one token short.
HitShortWindows(terms, category) ==
    \E t \in terms : t.category = category /\ (t.kept \/ (t.pieces <= 3 /\ ~t.glued))

\* _match_terms(): a term is searched for anywhere in the normalized text, and
\* without its blanks it must equal up to four neighbouring tokens joined.
Hit(terms, category) ==
    \E t \in terms : t.category = category /\ (t.kept \/ (t.pieces <= 4 /\ ~t.glued))

\* Secrets are matched in the text as it is written: `kept` says one is.
SecretHit(terms) == \E t \in terms : t.category = "secret" /\ t.kept

ReflectionVerdict(terms) ==
    IF Hit(terms, "crisis") THEN "crisis"
    ELSE IF Hit(terms, "clinical") THEN "clinical" ELSE "supportive"

\* Mutant: only the reflection policies are asked.
InputVerdictMild(terms) ==
    IF ReflectionVerdict(terms) = "supportive" THEN "allow" ELSE ReflectionVerdict(terms)

\* evaluate_input_text()
InputVerdict(terms) ==
    IF ReflectionVerdict(terms) # "supportive" THEN ReflectionVerdict(terms)
    ELSE IF Hit(terms, "injection") THEN "injection"
    ELSE IF SecretHit(terms) THEN "secret" ELSE "allow"
=============================================================================
