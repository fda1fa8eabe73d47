------------------------- MODULE GatewayRequestsProofs -------------------------
(***************************************************************************)
(* Proofs about GatewayRequests, for any calls, queries, answers of the    *)
(* provider and number of lost reports: an unsafe text is refused, the     *)
(* backend knows of the refusal before its caller does, and the            *)
(* invocations it counts are true; what the provider is sent and what is   *)
(* made of its answer stay within the consent; no answer passes the        *)
(* review; and a fallback is never empty where there is something to say.  *)
(*                                                                         *)
(* The invariant says what a handler holds at each await: at the provider  *)
(* the prompt of its query and a consent to it, after an answer what the   *)
(* provider returned, and the reports that got through and those to do.    *)
(* The rest are lemmas about what the graphs make of a query and a result. *)
(***************************************************************************)
EXTENDS GatewayRequests, ListProofs, SequenceTheorems

Refused(q) == q.kind \in Gated /\ InputVerdict(q.terms) # "allow"

\* A report tells of the answer of its handler s.
Honest(s, r) ==
    r.type = "invocation" =>
        /\ r.status = "success" <=> s.answer.code = 200
        /\ r.status = "success" /\ s.q.kind \in {"parse", "proof"} =>
             (r.by = "semantic" <=> s.answer.by = "provider")
HonestAll(s, reports) == IsList(reports) /\ \A i \in DOMAIN reports : Honest(s, reports[i])

\* What the provider is sent was asked for with the user's consent to AI.
Consenting(q) == IF q.kind = "rewrite" THEN q.level = "ai_allowed" ELSE q.ai

\* An answer goes by the provider's result, if it can be used.
Replied(q, a) ==
    /\ a.result.ok => a.result.raw \in Results(q)
    /\ a.by = IF a.result.ok /\ (q.kind \in {"classify", "parse", "proof"} => SemanticUsed(q, a.result))
              THEN "provider" ELSE "rules"

Codes(q) == IF q.kind \in {"rewrite", "suggest"} THEN {200, 403, 422, 500, 503} ELSE {200, 422}

\* The reports that got through and those still to do are, in this order, all
\* of `reports`.
ToldSoFar(sent, todo, reports) ==
    /\ Len(sent) + Len(todo) = Len(reports)
    /\ \A i \in 1..Len(sent) : sent[i] = reports[i]
    /\ \A i \in 1..Len(todo) : todo[i] = reports[Len(sent) + i]

Waiting(s, sent) ==
    /\ sent = <<>>
    /\ s.q \in Queries /\ ~Refused(s.q)
    /\ s.q.kind \in Flagged \cup (IF s.pc = "provider" THEN {"rewrite", "suggest"} ELSE {})
    /\ s.pc = "provider" => s.prompt = Prompt(s.q) /\ Consenting(s.q)

Answering(s, sent, misses) ==
    /\ s = [pc |-> s.pc, q |-> s.q, answer |-> s.answer, todo |-> s.todo]
    /\ s.q \in Queries /\ s.answer.code \in Codes(s.q)
    /\ s.answer.code = 200 => Replied(s.q, s.answer)
    /\ HonestAll(s, s.todo) /\ HonestAll(s, sent)
    /\ s.pc = "refusing" => s.answer.code # 200 /\ s.todo # <<>>
    /\ s.pc = "answered" /\ s.answer.code # 200 => s.todo = <<>>
    /\ Refused(s.q) <=> s.answer.code = 422
    /\ s.answer.code = 422 /\ s.q.kind \in Reported /\ misses = 0 =>
         ToldSoFar(sent, s.todo, RefusalReports(s.q, InputVerdict(s.q.terms)))

\* What holds of a handler, of the reports on it that got through and of the
\* number of all that did not.
Sound(s, sent, misses) ==
    /\ s.pc \in {"idle", "flags", "provider", "refusing", "answered", "dropped"}
    /\ s.pc = "idle" => sent = <<>>
    /\ s.pc \in {"flags", "provider"} => Waiting(s, sent)
    /\ s.pc \in {"refusing", "answered"} => Answering(s, sent, misses)

IInv ==
    /\ running \in BOOLEAN /\ lost \in 0..MaxLost
    /\ call = [c \in Calls |-> call[c]] /\ backend = [c \in Calls |-> backend[c]]
    /\ \A c \in Calls : Sound(call[c], backend[c], lost)

-----------------------------------------------------------------------------
(* Sequences. *)

LEMMA EmptyList == IsList(<<>>) /\ DOMAIN <<>> = {} /\ Len(<<>>) = 0
  BY DEF IsList

LEMMA TailList ==
    ASSUME NEW s, IsList(s), s # <<>>
    PROVE  /\ IsList(Tail(s)) /\ Len(s) \in Nat \ {0}
           /\ Len(Tail(s)) = Len(s) - 1 /\ Head(s) = s[1]
           /\ DOMAIN s = 1..Len(s) /\ DOMAIN Tail(s) = 1..(Len(s) - 1)
           /\ \A i \in 1..(Len(s) - 1) : Tail(s)[i] = s[i + 1]
           /\ Len(s) = 1 => Tail(s) = <<>>
<1> DEFINE S == {s[i] : i \in DOMAIN s}
           t == Tail(s)
           T == {t[i] : i \in DOMAIN t}
<1>1. s \in Seq(S)
  BY DEF IsList
<1>2. /\ t \in Seq(S) /\ Len(s) \in Nat \ {0}
      /\ Len(t) = Len(s) - 1 /\ Head(s) = s[1]
      /\ DOMAIN s = 1..Len(s) /\ DOMAIN t = 1..(Len(s) - 1)
      /\ \A i \in 1..(Len(s) - 1) : t[i] = s[i + 1]
      /\ Len(s) = 1 => t = <<>>
  <2> HIDE DEF S
  <2> QED
    BY <1>1
<1>3. t \in Seq(T)
  <2>1. \A i \in 1..Len(t) : t[i] \in T
    BY <1>2
  <2>2. t = [i \in 1..Len(t) |-> t[i]] /\ Len(t) \in Nat
    <3> HIDE DEF S, t
    <3> QED
      BY <1>2
  <2> HIDE DEF t, T
  <2> QED
    BY <2>1, <2>2
<1> QED
  BY <1>2, <1>3 DEF IsList

LEMMA ConcatHonest ==
    ASSUME NEW s, NEW u, NEW v, HonestAll(s, u), HonestAll(s, v)
    PROVE  HonestAll(s, u \o v)
<1> DEFINE S == {u[i] : i \in DOMAIN u} \cup {v[i] : i \in DOMAIN v}
           t == u \o v
           T == {t[i] : i \in DOMAIN t}
<1>1. u \in Seq(S) /\ v \in Seq(S)
  BY DEF IsList, HonestAll
<1>2. /\ t \in Seq(S)
      /\ DOMAIN t = 1..Len(t) /\ Len(t) \in Nat
      /\ \A i \in 1..Len(t) : t[i] \in S
  <2> HIDE DEF S
  <2> QED
    BY <1>1
<1>3. t \in Seq(T)
  <2>1. \A i \in 1..Len(t) : t[i] \in T
    BY <1>2
  <2>2. t = [i \in 1..Len(t) |-> t[i]]
    <3> HIDE DEF S, t
    <3> QED
      BY <1>2
  <2> HIDE DEF t, T
  <2> QED
    BY <2>1, <2>2, <1>2
<1>4. \A x \in S : Honest(s, x)
  BY DEF HonestAll
<1>5. \A i \in DOMAIN t : Honest(s, t[i])
  <2> HIDE DEF S, t
  <2> QED
    BY <1>2, <1>4
<1> QED
  BY <1>3, <1>5 DEF IsList, HonestAll

LEMMA ShortHonest ==
    ASSUME NEW s
    PROVE  /\ HonestAll(s, <<>>)
           /\ \A x : Honest(s, x) => HonestAll(s, <<x>>)
           /\ \A x, y : Honest(s, x) /\ Honest(s, y) => HonestAll(s, <<x, y>>)
           /\ \A x, y, z : Honest(s, x) /\ Honest(s, y) /\ Honest(s, z) => HonestAll(s, <<x, y, z>>)
           /\ \A w, x, y, z : Honest(s, w) /\ Honest(s, x) /\ Honest(s, y) /\ Honest(s, z)
                => HonestAll(s, <<w, x, y, z>>)
  BY EmptyList DEF HonestAll, IsList

-----------------------------------------------------------------------------
(* What each kind of step makes of a handler. *)

\* An answer with 200, of a query that was not refused, is sound.
LEMMA ReplySound ==
    ASSUME NEW q \in Queries, ~Refused(q), NEW result, NEW misses,
           result.ok => result.raw \in Results(q)
    PROVE  Sound(Reply(q, result), <<>>, misses)
<1> DEFINE s == Reply(q, result)
           a == [by |-> s.answer.by, body |-> Body(q, result)]
<1>1. /\ s = [pc |-> s.pc, q |-> s.q, answer |-> s.answer, todo |-> s.todo]
      /\ s.pc = "answered" /\ s.q = q /\ s.answer.code = 200 /\ s.todo = AnswerReports(q, a)
      /\ a.by = s.answer.by /\ a.by \in {"provider", "rules"} /\ Replied(q, s.answer)
  BY DEF Reply, Answered, Replied
<1>2. \A r : r.type # "invocation" => Honest(s, r)
  BY DEF Honest
<1>3. Honest(s, Invocation(InvokedBy(q, a), "success"))
  <2> HIDE DEF s
  <2> QED
    BY <1>1 DEF Honest, Invocation, InvokedBy
<1> HIDE DEF s, a
<1>6. Honest(s, Usage) /\ Honest(s, Settings) /\ \A category : Honest(s, Safety(category))
  BY <1>2 DEF Usage, Settings, Safety
<1>7. HonestAll(s, s.todo)
  <2>1. CASE q.kind \in Reported
    <3>1. HonestAll(s, CaptureReports(q, a))
      BY <1>3, <1>6, ShortHonest DEF CaptureReports
    <3> QED
      BY <1>1, <2>1, <3>1 DEF AnswerReports, Reported
  <2>2. CASE q.kind = "suggest"
    <3> DEFINE audits == [type |-> "audits", n |-> a.body.shown]
    <3>1. HonestAll(s, <<Usage, Invocation(InvokedBy(q, a), "success")>>)
      BY <1>3, <1>6, ShortHonest
    <3>2. HonestAll(s, If(a.body.shown > 0, audits))
      BY <1>2, ShortHonest DEF If
    <3>3. HonestAll(s, If(a.body.rejected > 0, Safety("ai_output")))
      BY <1>6, ShortHonest DEF If
    <3>4. HonestAll(s, <<Settings>>)
      BY <1>6, ShortHonest
    <3>5. HonestAll(s, SuggestionReports(q, a))
      BY <3>1, <3>2, <3>3, <3>4, ConcatHonest DEF SuggestionReports
    <3> QED
      BY <1>1, <2>2, <3>5 DEF AnswerReports, Reported
  <2>3. CASE q.kind = "feedback"
    <3>1. Honest(s, [type |-> "feedback"])
      BY <1>2
    <3>2. HonestAll(s, FeedbackReports)
      BY <1>6, <3>1, ShortHonest DEF FeedbackReports
    <3> QED
      BY <1>1, <2>3, <3>2 DEF AnswerReports, Reported
  <2>4. CASE q.kind = "reflect"
    <3>1. HonestAll(s, <<Usage>>)
      BY <1>6, ShortHonest
    <3>2. HonestAll(s, If(a.body # "supportive", Safety(a.body)))
      BY <1>6, ShortHonest DEF If
    <3>3. HonestAll(s, ReflectionReports(a.body))
      BY <3>1, <3>2, ConcatHonest DEF ReflectionReports
    <3> QED
      BY <1>1, <2>4, <3>3 DEF AnswerReports, Reported
  <2>5. CASE q.kind \notin Reported \cup {"suggest", "feedback", "reflect"}
    <3>1. AnswerReports(q, a) = <<>>
      BY <2>5 DEF AnswerReports
    <3> QED
      BY <1>1, <3>1, ShortHonest
  <2> QED
    BY <2>1, <2>2, <2>3, <2>4, <2>5
<1>8. HonestAll(s, <<>>)
  BY ShortHonest
<1>9. Refused(s.q) <=> s.answer.code = 422
  BY <1>1
<1>10. s.q \in Queries /\ s.answer.code \in Codes(s.q)
  BY <1>1 DEF Codes
<1>11. Answering(s, <<>>, misses)
  BY <1>1, <1>7, <1>8, <1>9, <1>10 DEF Answering
<1>12. Sound(s, <<>>, misses)
  BY <1>1, <1>11 DEF Sound
<1> QED
  BY <1>12 DEF s

\* A refusal by the gate or for the privacy level, and a failure without a
\* fallback, is sound: what it reports is an error.
LEMMA RefusingSound ==
    ASSUME NEW q \in Queries, NEW category, NEW code \in {403, 422, 500, 503}, NEW todo, NEW misses,
           HonestAll(Refusing(q, code, category, todo), todo), code \in Codes(q),
           Refused(q) <=> code = 422,
           code = 422 => category = InputVerdict(q.terms) /\ todo = RefusalReports(q, category)
    PROVE  Sound(Refusing(q, code, category, todo), <<>>, misses)
<1> DEFINE s == Refusing(q, code, category, todo)
<1>1. /\ s = [pc |-> s.pc, q |-> s.q, answer |-> s.answer, todo |-> s.todo]
      /\ s.pc = (IF todo = <<>> THEN "answered" ELSE "refusing")
      /\ s.q = q /\ s.answer.code = code /\ s.todo = todo
  BY DEF Refusing
<1>2. code = 422 /\ q.kind \in Reported => ToldSoFar(<<>>, todo, RefusalReports(q, category))
  <2> SUFFICES ASSUME code = 422, q.kind \in Reported
               PROVE  ToldSoFar(<<>>, todo, RefusalReports(q, category))
    OBVIOUS
  <2>1. todo = <<Usage, Invocation("guardrail", "error"), Safety(category), Settings>>
    BY DEF RefusalReports
  <2>2. Len(todo) = 4 /\ todo = RefusalReports(q, category)
    BY <2>1
  <2> QED
    BY <2>2, EmptyList DEF ToldSoFar
<1>3. HonestAll(s, todo)
  OBVIOUS
<1> HIDE DEF s
<1>4. HonestAll(s, <<>>)
  BY ShortHonest
<1>5. Refused(s.q) <=> s.answer.code = 422
  BY <1>1
<1>6. s.answer.code = 422 /\ s.q.kind \in Reported /\ misses = 0 =>
        ToldSoFar(<<>>, s.todo, RefusalReports(s.q, InputVerdict(s.q.terms)))
  BY <1>1, <1>2
<1>7. s.pc \in {"refusing", "answered"} /\ s.answer.code # 200
  BY <1>1
<1>8. Answering(s, <<>>, misses)
  BY <1>1, <1>3, <1>4, <1>5, <1>6, <1>7 DEF Answering
<1>9. Sound(s, <<>>, misses)
  BY <1>7, <1>8 DEF Sound
<1> QED
  BY <1>9 DEF s

\* The reports on a refusal or a failure are honest.
LEMMA ErrorsHonest ==
    ASSUME NEW s, s.answer.code # 200, NEW q, NEW category
    PROVE  HonestAll(s, RefusalReports(q, category)) /\ HonestAll(s, UnavailableReports(q))
<1>1. \A r : r.type # "invocation" \/ r.status = "error" => Honest(s, r)
  BY DEF Honest
<1>2. Honest(s, Usage) /\ Honest(s, Settings) /\ Honest(s, Safety(category))
  BY <1>1 DEF Usage, Settings, Safety
<1>3. \A by : Honest(s, Invocation(by, "error"))
  BY <1>1 DEF Invocation
<1> QED
  BY <1>2, <1>3, ShortHonest DEF RefusalReports, UnavailableReports

LEMMA ReceivedSound ==
    ASSUME NEW q \in Queries, NEW misses
    PROVE  Sound(Received(q), <<>>, misses)
<1>1. CASE Refused(q)
  <2> DEFINE v == InputVerdict(q.terms)
             s == Refusing(q, 422, v, RefusalReports(q, v))
  <2>1. Received(q) = s
    BY <1>1 DEF Received, Refused
  <2>2. s.answer.code = 422
    BY DEF Refusing
  <2>3. HonestAll(s, RefusalReports(q, v))
    BY <2>2, ErrorsHonest
  <2> QED
    BY <1>1, <2>1, <2>3, RefusingSound DEF Codes
<1>2. CASE ~Refused(q) /\ q.kind \in Flagged
  BY <1>2 DEF Received, Refused, Sound, Waiting
<1>3. CASE ~Refused(q) /\ q.kind = "rewrite" /\ q.level = "ai_allowed"
  BY <1>3 DEF Received, Refused, Asking, Sound, Waiting, Flagged, Consenting
<1>4. CASE ~Refused(q) /\ q.kind = "rewrite" /\ q.level # "ai_allowed"
  <2> DEFINE s == Refusing(q, 403, "privacy", RefusalReports(q, "privacy"))
  <2>1. Received(q) = s
    BY <1>4 DEF Received, Refused, Flagged
  <2>2. s.answer.code = 403
    BY DEF Refusing
  <2>3. HonestAll(s, RefusalReports(q, "privacy"))
    BY <2>2, ErrorsHonest
  <2> QED
    BY <1>4, <2>1, <2>3, RefusingSound DEF Codes
<1>5. CASE ~Refused(q) /\ q.kind = "suggest" /\ q.ai
  BY <1>5 DEF Received, Refused, Asking, Sound, Waiting, Flagged, Consenting
<1>6. CASE ~Refused(q) /\ q.kind \notin Flagged \cup {"rewrite"} /\ ~(q.kind = "suggest" /\ q.ai)
  <2>1. Received(q) = Reply(q, NotAsked)
    BY <1>6 DEF Received, Refused
  <2> QED
    BY <1>6, <2>1, ReplySound DEF NotAsked
<1> QED
  BY <1>1, <1>2, <1>3, <1>4, <1>5, <1>6

LEMMA FailedSound ==
    ASSUME NEW q \in Queries, ~Refused(q), q.kind \in Flagged \cup {"rewrite", "suggest"},
           NEW error, NEW misses
    PROVE  Sound(Failed(q, error), <<>>, misses)
<1>1. CASE q.kind \in Flagged
  BY <1>1, ReplySound DEF Failed
<1>2. CASE q.kind \notin Flagged /\ error = "unavailable"
  <2> DEFINE s == Refusing(q, 503, error, UnavailableReports(q))
  <2>1. s.answer.code = 503
    BY DEF Refusing
  <2>2. HonestAll(s, UnavailableReports(q))
    BY <2>1, ErrorsHonest
  <2>3. Failed(q, error) = s
    BY <1>2 DEF Failed
  <2> QED
    BY <1>2, <2>2, <2>3, RefusingSound DEF Codes
<1>3. CASE q.kind \notin Flagged /\ error # "unavailable"
  <2> DEFINE s == Refusing(q, 500, error, <<>>)
  <2>1. HonestAll(s, <<>>)
    BY ShortHonest
  <2>2. Failed(q, error) = s
    BY <1>3 DEF Failed
  <2> QED
    BY <1>3, <2>1, <2>2, RefusingSound, SMTT(60) DEF Codes
<1> QED
  BY <1>1, <1>2, <1>3

\* A report that gets through leaves what is to do and joins what was told.
LEMMA ToldMoves ==
    ASSUME NEW sent, NEW todo, NEW more, NEW rest, NEW f, ToldSoFar(sent, todo, f),
           Len(todo) \in Nat \ {0}, Len(rest) = Len(todo) - 1,
           \A i \in 1..(Len(todo) - 1) : rest[i] = todo[i + 1],
           Len(sent) \in Nat, Len(more) = Len(sent) + 1, more[Len(sent) + 1] = todo[1],
           \A i \in 1..Len(sent) : more[i] = sent[i]
    PROVE  ToldSoFar(more, rest, f)
<1> DEFINE l == Len(sent)
           n == Len(todo)
           k == Len(f)
           m == Len(more)
           r == Len(rest)
<1>1. l \in Nat /\ n \in Nat \ {0} /\ l + n = k
  BY DEF ToldSoFar
<1>2. m = l + 1 /\ r = n - 1
  OBVIOUS
<1>3. /\ \A i \in 1..l : more[i] = sent[i] /\ sent[i] = f[i]
      /\ more[l + 1] = todo[1] /\ todo[1] = f[l + 1]
  BY <1>1 DEF ToldSoFar
<1>4. \A i \in 1..(n - 1) : rest[i] = todo[i + 1] /\ todo[i + 1] = f[l + (i + 1)]
  BY <1>1 DEF ToldSoFar
<1> HIDE DEF l, n, k, m, r
<1>5. m + r = k
  BY <1>1, <1>2
<1>6. \A i \in 1..m : more[i] = f[i]
  BY <1>1, <1>2, <1>3
<1>7. \A i \in 1..r : rest[i] = f[m + i]
  <2> TAKE i \in 1..r
  <2>1. i \in 1..(n - 1) /\ l + (i + 1) = m + i
    BY <1>1, <1>2
  <2> QED
    BY <2>1, <1>4
<1> QED
  BY <1>5, <1>6, <1>7 DEF ToldSoFar, k, m, r

\* One more report, got through or lost, leaves a handler sound.
LEMMA ReportSound ==
    ASSUME NEW s, NEW sent, NEW misses \in Nat, Sound(s, sent, misses),
           s.pc \in {"refusing", "answered"}, s.todo # <<>>, NEW t,
           t = [s EXCEPT !.todo = Tail(s.todo),
                         !.pc = IF Len(s.todo) = 1 THEN "answered" ELSE s.pc]
    PROVE  Sound(t, Append(sent, Head(s.todo)), misses) /\ Sound(t, sent, misses + 1)
<1>1. Answering(s, sent, misses)
  BY DEF Sound
<1>2. IsList(s.todo) /\ IsList(sent)
  BY <1>1 DEF Answering, HonestAll
<1> DEFINE r == Head(s.todo)
           more == Append(sent, r)
           rest == Tail(s.todo)
<1>3. /\ IsList(rest) /\ Len(s.todo) \in Nat \ {0} /\ Len(rest) = Len(s.todo) - 1 /\ r = s.todo[1]
      /\ DOMAIN s.todo = 1..Len(s.todo) /\ DOMAIN rest = 1..(Len(s.todo) - 1)
      /\ \A i \in 1..(Len(s.todo) - 1) : rest[i] = s.todo[i + 1]
      /\ Len(s.todo) = 1 => rest = <<>>
  BY <1>2, TailList
<1>4. /\ IsList(more) /\ Len(more) = Len(sent) + 1 /\ Len(sent) \in Nat
      /\ DOMAIN sent = 1..Len(sent) /\ DOMAIN more = 1..(Len(sent) + 1)
      /\ more[Len(sent) + 1] = r /\ \A i \in 1..Len(sent) : more[i] = sent[i]
  BY <1>2, AppendFacts
<1>5. /\ t = [pc |-> t.pc, q |-> t.q, answer |-> t.answer, todo |-> t.todo]
      /\ t.q = s.q /\ t.answer = s.answer /\ t.todo = rest
      /\ t.pc = IF Len(s.todo) = 1 THEN "answered" ELSE s.pc
  BY <1>1 DEF Answering
<1> HIDE DEF r, more, rest
<1>6. \A x : Honest(s, x) <=> Honest(t, x)
  BY <1>5 DEF Honest
<1>7. \A i \in DOMAIN s.todo : Honest(s, s.todo[i])
  BY <1>1 DEF Answering, HonestAll
<1>8. \A i \in DOMAIN sent : Honest(s, sent[i])
  BY <1>1 DEF Answering, HonestAll
<1>9. HonestAll(t, rest)
  <2>1. \A i \in DOMAIN rest : i + 1 \in DOMAIN s.todo /\ rest[i] = s.todo[i + 1]
    BY <1>3
  <2> QED
    BY <2>1, <1>3, <1>6, <1>7 DEF HonestAll
<1>10. HonestAll(t, sent)
  BY <1>2, <1>6, <1>8 DEF HonestAll
<1>11. HonestAll(t, more)
  <2>1. \A i \in DOMAIN more : (i \in DOMAIN sent /\ more[i] = sent[i]) \/ more[i] = r
    BY <1>4
  <2>2. Honest(t, r)
    BY <1>3, <1>6, <1>7
  <2> QED
    BY <2>1, <2>2, <1>4, <1>6, <1>8 DEF HonestAll
<1>12. t.pc \in {"refusing", "answered"}
  BY <1>5
<1>13. t.pc = "refusing" => t.answer.code # 200 /\ t.todo # <<>>
  <2> SUFFICES ASSUME t.pc = "refusing" PROVE t.answer.code # 200 /\ t.todo # <<>>
    OBVIOUS
  <2>1. Len(s.todo) # 1 /\ s.pc = "refusing"
    BY <1>5
  <2>2. Len(rest) # 0
    BY <2>1, <1>3
  <2> QED
    BY <2>1, <2>2, <1>1, <1>5, EmptyList DEF Answering
<1>14. t.pc = "answered" /\ t.answer.code # 200 => t.todo = <<>>
  BY <1>1, <1>3, <1>5 DEF Answering
<1>15. /\ t.q \in Queries /\ t.answer.code \in Codes(t.q) /\ (Refused(t.q) <=> t.answer.code = 422)
       /\ t.answer.code = 200 => Replied(t.q, t.answer)
  BY <1>1, <1>5 DEF Answering
<1>16. t.answer.code = 422 /\ t.q.kind \in Reported /\ misses = 0 =>
         ToldSoFar(more, rest, RefusalReports(t.q, InputVerdict(t.q.terms)))
  <2> DEFINE f == RefusalReports(t.q, InputVerdict(t.q.terms))
  <2> SUFFICES ASSUME t.answer.code = 422, t.q.kind \in Reported, misses = 0
               PROVE  ToldSoFar(more, rest, f)
    OBVIOUS
  <2>1. ToldSoFar(sent, s.todo, f)
    BY <1>1, <1>5 DEF Answering
  <2> HIDE DEF f
  <2> QED
    BY <2>1, <1>3, <1>4, ToldMoves
<1>17. Answering(t, more, misses)
  BY <1>5, <1>9, <1>11, <1>13, <1>14, <1>15, <1>16 DEF Answering
<1>18. Answering(t, sent, misses + 1)
  <2>1. misses + 1 # 0
    OBVIOUS
  <2> QED
    BY <2>1, <1>5, <1>9, <1>10, <1>13, <1>14, <1>15 DEF Answering
<1>19. Sound(t, more, misses) /\ Sound(t, sent, misses + 1)
  BY <1>12, <1>17, <1>18 DEF Sound
<1> QED
  BY <1>19 DEF more, r

-----------------------------------------------------------------------------
(* The invariant. *)

LEMMA InitInv == Init => IInv
  BY MaxLostAssumption DEF Init, IInv, Idle, Sound

\* A step of one handler, with what became of its report.
LEMMA HandlerStep ==
    ASSUME IInv, NEW c \in Calls, NEW s, NEW sent, NEW misses \in lost..MaxLost,
           Sound(s, sent, misses), misses = lost \/ misses = lost + 1,
           call' = [call EXCEPT ![c] = s], backend' = [backend EXCEPT ![c] = sent],
           lost' = misses, running' = running
    PROVE  IInv'
<1>1. call'[c] = s /\ backend'[c] = sent
  BY DEF IInv
<1>2. \A d \in Calls : d # c => call'[d] = call[d] /\ backend'[d] = backend[d]
  BY DEF IInv
<1>3. \A d \in Calls : Sound(call[d], backend[d], lost) => Sound(call[d], backend[d], misses)
  <2>1. lost \in Nat /\ (misses = 0 => lost = 0)
    BY DEF IInv
  <2> QED
    BY <2>1 DEF Sound, Answering
<1>4. \A d \in Calls : Sound(call'[d], backend'[d], lost')
  BY <1>1, <1>2, <1>3 DEF IInv
<1>5. call' = [d \in Calls |-> call'[d]] /\ backend' = [d \in Calls |-> backend'[d]]
  BY DEF IInv
<1>6. running' \in BOOLEAN /\ lost' \in 0..MaxLost
  BY DEF IInv
<1> QED
  BY <1>4, <1>5, <1>6 DEF IInv

LEMMA StepInv ==
    ASSUME IInv, [Next]_vars
    PROVE  IInv'
<1>1. lost \in lost..MaxLost /\ lost \in Nat
  BY MaxLostAssumption DEF IInv
<1>2. \A c \in Calls : backend = [backend EXCEPT ![c] = backend[c]]
  BY DEF IInv
<1>3. ASSUME NEW c \in Calls, NEW q \in Queries, Receive(c, q) PROVE IInv'
  <2>1. backend[c] = <<>>
    BY <1>3 DEF IInv, Sound, Receive, Idle
  <2>2. Sound(Received(q), backend[c], lost)
    BY <2>1, ReceivedSound
  <2>3. call' = [call EXCEPT ![c] = Received(q)] /\ backend' = backend /\ lost' = lost /\ running' = running
    BY <1>3 DEF Receive
  <2> QED
    BY <1>1, <1>2, <2>2, <2>3, HandlerStep
<1>4. ASSUME NEW c \in Calls, NEW on \in BOOLEAN, Flags(c, on) PROVE IInv'
  <2> DEFINE q == call[c].q
             s == IF Asks(q, on) THEN Asking(q) ELSE Reply(q, NotAsked)
  <2>1. Waiting(call[c], backend[c]) /\ call[c].pc = "flags"
    BY <1>4 DEF Flags, IInv, Sound
  <2>2. q \in Queries /\ ~Refused(q) /\ q.kind \in Flagged /\ backend[c] = <<>>
    BY <2>1 DEF Waiting
  <2> HIDE DEF q
  <2>3. Asks(q, on) => Sound(Asking(q), <<>>, lost)
    BY <2>2 DEF Asking, Sound, Waiting, Asks, Consenting, Flagged
  <2>4. Sound(s, backend[c], lost)
    BY <2>2, <2>3, ReplySound DEF NotAsked
  <2>5. call' = [call EXCEPT ![c] = s] /\ backend' = backend /\ lost' = lost /\ running' = running
    BY <1>4 DEF Flags, q
  <2> HIDE DEF s
  <2> QED
    BY <1>1, <1>2, <2>4, <2>5, HandlerStep
<1>5. ASSUME NEW c \in Calls, call[c].pc = "provider", NEW s,
             \A q \in Queries : ~Refused(q) /\ q.kind \in Flagged \cup {"rewrite", "suggest"}
                                  /\ q = call[c].q => Sound(s, <<>>, lost),
             call' = [call EXCEPT ![c] = s], backend' = backend, lost' = lost, running' = running
      PROVE  IInv'
  <2>1. Waiting(call[c], backend[c])
    BY <1>5 DEF IInv, Sound
  <2>2. Sound(s, backend[c], lost)
    BY <1>5, <2>1 DEF Waiting
  <2> QED
    BY <1>1, <1>2, <1>5, <2>2, HandlerStep
<1>6. ASSUME NEW c \in Calls, NEW raw \in Results(call[c].q), Complete(c, raw) PROVE IInv'
  <2> DEFINE s == Reply(call[c].q, [ok |-> TRUE, raw |-> raw])
  <2>1. \A q \in Queries : ~Refused(q) /\ q = call[c].q => Sound(s, <<>>, lost)
    BY ReplySound
  <2>2. call' = [call EXCEPT ![c] = s] /\ backend' = backend /\ lost' = lost /\ running' = running
    BY <1>6 DEF Complete
  <2>3. call[c].pc = "provider"
    BY <1>6 DEF Complete
  <2> HIDE DEF s
  <2> QED
    BY <1>5, <2>1, <2>2, <2>3
<1>7. ASSUME NEW c \in Calls, NEW error, Fail(c, error) PROVE IInv'
  <2> DEFINE s == Failed(call[c].q, error)
  <2>1. \A q \in Queries : ~Refused(q) /\ q.kind \in Flagged \cup {"rewrite", "suggest"}
                             /\ q = call[c].q => Sound(s, <<>>, lost)
    BY FailedSound
  <2>2. call' = [call EXCEPT ![c] = s] /\ backend' = backend /\ lost' = lost /\ running' = running
    BY <1>7 DEF Fail
  <2>3. call[c].pc = "provider"
    BY <1>7 DEF Fail
  <2> HIDE DEF s
  <2> QED
    BY <1>5, <2>1, <2>2, <2>3
<1>8. ASSUME NEW c \in Calls, NEW through \in BOOLEAN, Report(c, through) PROVE IInv'
  <2> DEFINE s == call[c]
             t == [s EXCEPT !.todo = Tail(s.todo),
                            !.pc = IF Len(s.todo) = 1 THEN "answered" ELSE s.pc]
             more == Append(backend[c], Head(s.todo))
  <2>1. s.pc \in {"refusing", "answered"} /\ s.todo # <<>> /\ Sound(s, backend[c], lost)
    BY <1>8 DEF Report, IInv
  <2>2. Sound(t, more, lost) /\ Sound(t, backend[c], lost + 1)
    BY <1>1, <2>1, ReportSound
  <2>3. call' = [call EXCEPT ![c] = t] /\ running' = running
    BY <1>8 DEF Report, IInv
  <2>4. CASE through
    <3>1. backend' = [backend EXCEPT ![c] = more] /\ lost' = lost
      BY <1>8, <2>4 DEF Report
    <3> HIDE DEF s, t, more
    <3> QED
      BY <1>1, <2>2, <2>3, <3>1, HandlerStep
  <2>5. CASE ~through
    <3>1. backend' = backend /\ lost' = lost + 1 /\ lost + 1 \in lost..MaxLost
      BY <1>1, <1>8, <2>5, MaxLostAssumption DEF Report, IInv
    <3> HIDE DEF s, t, more
    <3> QED
      BY <1>1, <1>2, <2>2, <2>3, <3>1, HandlerStep
  <2> QED
    BY <2>4, <2>5
<1>9. ASSUME Stop PROVE IInv'
  <2>1. backend' = backend /\ lost' = lost /\ running' = FALSE
    BY <1>9 DEF Stop
  <2>2. call' = [c \in Calls |-> call'[c]]
    BY <1>9 DEF Stop
  <2>3. ASSUME NEW c \in Calls PROVE Sound(call'[c], backend[c], lost)
    <3>1. CASE call[c].pc = "answered"
      <4> DEFINE s == call[c]
                 t == [s EXCEPT !.todo = <<>>]
      <4>1. call'[c] = t
        BY <1>9, <3>1 DEF Stop
      <4>2. Answering(s, backend[c], lost)
        BY <3>1 DEF IInv, Sound
      <4>3. /\ t = [pc |-> t.pc, q |-> t.q, answer |-> t.answer, todo |-> t.todo]
            /\ t.pc = "answered" /\ t.q = s.q /\ t.answer = s.answer /\ t.todo = <<>>
            /\ s.answer.code # 200 => s.todo = t.todo
        BY <3>1, <4>2 DEF Answering
      <4>4. \A x : Honest(s, x) <=> Honest(t, x)
        BY <4>3 DEF Honest
      <4> HIDE DEF s, t
      <4>5. HonestAll(t, t.todo) /\ HonestAll(t, backend[c])
        BY <4>2, <4>3, <4>4, ShortHonest DEF Answering, HonestAll
      <4>6. Answering(t, backend[c], lost)
        BY <4>2, <4>3, <4>5 DEF Answering
      <4> QED
        BY <4>1, <4>3, <4>6 DEF Sound
    <3>2. CASE call[c].pc # "answered" /\ call[c] = Idle
      <4>1. call'[c] = Idle /\ backend[c] = <<>>
        BY <1>9, <3>2 DEF Stop, IInv, Sound, Idle
      <4> QED
        BY <4>1 DEF Sound, Idle
    <3>3. CASE call[c].pc # "answered" /\ call[c] # Idle
      <4>1. call'[c] = [pc |-> "dropped"]
        BY <1>9, <3>3 DEF Stop
      <4> QED
        BY <4>1 DEF Sound
    <3> QED
      BY <3>1, <3>2, <3>3
  <2> QED
    BY <2>1, <2>2, <2>3 DEF IInv
<1>10. CASE UNCHANGED vars
  BY <1>10 DEF vars, IInv
<1> QED
  BY <1>3, <1>4, <1>6, <1>7, <1>8, <1>9, <1>10 DEF Next

LEMMA Invariance == Spec => []IInv
<1>1. Init => IInv
  BY InitInv
<1>2. IInv /\ [Next]_vars => IInv'
  BY StepInv
<1> QED
  BY <1>1, <1>2, PTL DEF Spec

-----------------------------------------------------------------------------
(* Theorems. *)

\* Every reachable state of the handlers is well typed, and an endpoint with a
\* fallback answers with 200 or refuses with 422, whatever the provider does.
THEOREM TypeCorrect == Spec => []TypeOK
<1>1. IInv => TypeOK
  BY DEF IInv, Sound, Waiting, Answering, Codes, TypeOK, HasQuery
<1> QED
  BY <1>1, Invariance, PTL

\* A text of the user is refused by the gate exactly when it has a term that
\* is not let through, and as a crisis exactly when one of them is.
LEMMA Verdicts ==
    ASSUME NEW q \in Queries
    PROVE  /\ (\E t \in q.terms : Recognized(t)) => InputVerdict(q.terms) # "allow"
           /\ InputVerdict(q.terms) = "crisis" <=> Hit(q.terms, "crisis")
<1>1. ASSUME NEW t \in q.terms, Recognized(t)
      PROVE  InputVerdict(q.terms) # "allow"
  <2>1. t \in Term
    BY QueriesAssumption DEF Query
  <2>2. CASE t.category # "secret"
    <3>1. Hit(q.terms, t.category) /\ t.category \in {"crisis", "clinical", "injection"}
      BY <1>1, <2>1, <2>2 DEF Hit, Term, Recognized
    <3> QED
      BY <3>1 DEF InputVerdict, ReflectionVerdict
  <2>3. CASE t.category = "secret"
    <3>1. SecretHit(q.terms)
      BY <1>1, <2>3 DEF SecretHit, Recognized
    <3> QED
      BY <3>1 DEF InputVerdict, ReflectionVerdict
  <2> QED
    BY <2>2, <2>3
<1>2. InputVerdict(q.terms) = "crisis" <=> Hit(q.terms, "crisis")
  BY DEF InputVerdict, ReflectionVerdict
<1> QED
  BY <1>1, <1>2

\* All reports of a refusal arrived: exactly one of them is a safety event.
LEMMA ToldOnce ==
    ASSUME NEW sent, IsList(sent), NEW q, q.kind \in Reported, NEW category,
           ToldSoFar(sent, <<>>, RefusalReports(q, category))
    PROVE  /\ DOMAIN sent = 1..4
           /\ {i \in DOMAIN sent : sent[i].type = "safety"} = {3}
           /\ sent[3].severity = "high" <=> category = "crisis"
<1>1. RefusalReports(q, category)
        = <<Usage, Invocation("guardrail", "error"), Safety(category), Settings>>
  BY DEF RefusalReports
<1> DEFINE n == Len(sent)
<1>2. DOMAIN sent = 1..n /\ n \in Nat
  BY AppendFacts
<1>3. n + 0 = 4
  BY <1>1, EmptyList DEF ToldSoFar
<1>4. n = 4
  <2> HIDE DEF n
  <2> QED
    BY <1>2, <1>3
<1>5. /\ sent[1] = Usage /\ sent[2] = Invocation("guardrail", "error")
      /\ sent[3] = Safety(category) /\ sent[4] = Settings
  BY <1>1, <1>4 DEF ToldSoFar
<1>6. /\ sent[1].type # "safety" /\ sent[2].type # "safety" /\ sent[4].type # "safety"
      /\ sent[3].type = "safety" /\ (sent[3].severity = "high" <=> category = "crisis")
  BY <1>5 DEF Usage, Invocation, Safety, Settings
<1> QED
  BY <1>2, <1>4, <1>6

\* A crisis is a term of that category in a spelling the policies know.
LEMMA CrisisHit ==
    ASSUME NEW terms
    PROVE  (\E t \in terms : Recognized(t) /\ t.category = "crisis") <=> Hit(terms, "crisis")
  BY DEF Recognized, Hit

\* No text with a term in a spelling the policies know gets through the gated
\* endpoints, and the backend knows of a refusal before the caller does.
THEOREM UnsafeNeverPasses == Spec => []UnsafeIsRefusedAndTold
<1>1. IInv => UnsafeIsRefusedAndTold
  <2> SUFFICES ASSUME IInv, NEW c \in Calls, HasQuery(c), call[c].q.kind \in Gated,
                      \E t \in call[c].q.terms : Recognized(t)
               PROVE  /\ call[c].pc \in {"refusing", "answered"} /\ call[c].answer.code = 422
                      /\ call[c].pc = "answered" /\ call[c].q.kind \in Reported /\ lost = 0 =>
                           \E i \in DOMAIN backend[c] :
                              /\ Told(c, "safety") = {i}
                              /\ backend[c][i].severity = "high"
                                   <=> Hit(call[c].q.terms, "crisis")
    BY CrisisHit DEF UnsafeIsRefusedAndTold
  <2> DEFINE s == call[c]
             q == s.q
             v == InputVerdict(q.terms)
  <2>1. Sound(s, backend[c], lost) /\ q \in Queries
    BY DEF IInv, Sound, Waiting, Answering, HasQuery
  <2>2. Refused(q) /\ (v = "crisis" <=> Hit(q.terms, "crisis"))
    BY <2>1, Verdicts DEF Refused
  <2>3. Answering(s, backend[c], lost) /\ s.pc \in {"refusing", "answered"}
    BY <2>1, <2>2 DEF Sound, Waiting, HasQuery
  <2>4. s.answer.code = 422
    BY <2>2, <2>3 DEF Answering
  <2>5. ASSUME s.pc = "answered", q.kind \in Reported, lost = 0
        PROVE  \E i \in DOMAIN backend[c] :
                   /\ Told(c, "safety") = {i}
                   /\ backend[c][i].severity = "high" <=> Hit(q.terms, "crisis")
    <3>1. ToldSoFar(backend[c], <<>>, RefusalReports(q, v)) /\ IsList(backend[c])
      BY <2>3, <2>4, <2>5 DEF Answering, HonestAll
    <3>2. /\ DOMAIN backend[c] = 1..4
          /\ {i \in DOMAIN backend[c] : backend[c][i].type = "safety"} = {3}
          /\ backend[c][3].severity = "high" <=> v = "crisis"
      BY <2>5, <3>1, ToldOnce
    <3> QED
      BY <2>2, <3>2 DEF Told
  <2> QED
    BY <2>3, <2>4, <2>5
<1> QED
  BY <1>1, Invariance, PTL

\* The invocations that reach the backend tell what became of their requests.
THEOREM InvocationsTell == Spec => []InvocationsAreTrue
<1>1. IInv => InvocationsAreTrue
  <2> SUFFICES ASSUME IInv, NEW c \in Calls, HasQuery(c), NEW i \in Told(c, "invocation")
               PROVE  LET told == backend[c][i] IN
                      /\ told.status = "success" <=> (call[c].pc = "answered" /\ call[c].answer.code = 200)
                      /\ told.status = "success" /\ call[c].q.kind \in {"parse", "proof"} =>
                           (told.by = "semantic" <=> call[c].answer.by = "provider")
    BY DEF InvocationsAreTrue
  <2>1. i \in DOMAIN backend[c] /\ backend[c][i].type = "invocation"
    BY DEF Told
  <2>2. call[c].pc \notin {"flags", "provider"}
    BY <2>1, EmptyList DEF IInv, Sound, Waiting
  <2>3. Answering(call[c], backend[c], lost) /\ call[c].pc \in {"refusing", "answered"}
    BY <2>2 DEF IInv, Sound, HasQuery
  <2>4. Honest(call[c], backend[c][i])
    BY <2>1, <2>3 DEF Answering, HonestAll
  <2> QED
    BY <2>1, <2>3, <2>4 DEF Honest, Answering
<1> QED
  BY <1>1, Invariance, PTL

-----------------------------------------------------------------------------
(* Captured notes. *)

\* g[n] is how the first n phrases are cut.
Cutting(g, part, c, P) ==
    /\ g \in [0..Len(part) -> Seq(Seq(P))] /\ g[0] = <<>> /\ CutAt(part, c) = g[Len(part)]
    /\ \A n \in 1..Len(part) :
         g[n] = IF g[n - 1] = <<>> \/ (part[n].by = c /\ c # "none")
                THEN Append(g[n - 1], <<part[n]>>)
                ELSE [g[n - 1] EXCEPT ![Len(g[n - 1])] = Append(@, part[n])]

\* One more phrase is a piece of its own or joins the last one.
LEMMA OneMore ==
    ASSUME NEW P, NEW t \in Seq(Seq(P)), NEW x \in P
    PROVE  /\ Append(t, <<x>>) \in Seq(Seq(P))
           /\ t # <<>> => [t EXCEPT ![Len(t)] = Append(@, x)] \in Seq(Seq(P))
<1> DEFINE V == Seq(P)
<1>1. <<x>> \in V /\ \A p \in V : Append(p, x) \in V
  OBVIOUS
<1>2. t \in Seq(V)
  OBVIOUS
<1> HIDE DEF V
<1>3. Append(t, <<x>>) \in Seq(V)
  BY <1>1, <1>2
<1>4. ASSUME t # <<>> PROVE [t EXCEPT ![Len(t)] = Append(@, x)] \in Seq(V)
  <2>1. Len(t) \in 1..Len(t) /\ Len(t) \in Nat /\ t \in [1..Len(t) -> V]
    BY <1>2, <1>4
  <2>2. Append(t[Len(t)], x) \in V
    BY <1>1, <2>1
  <2> DEFINE w == Append(t[Len(t)], x)
  <2> HIDE DEF w
  <2> DEFINE n == Len(t)
             u == [t EXCEPT ![n] = w]
  <2>3. n \in Nat /\ u \in [1..n -> V]
    BY <2>1, <2>2 DEF w
  <2> HIDE DEF n, u
  <2>4. u \in Seq(V)
    BY <2>3
  <2> QED
    BY <2>4 DEF u, n, w
<1> QED
  BY <1>3, <1>4 DEF V

LEMMA CutRecursion ==
    ASSUME NEW P, NEW part \in Seq(P), NEW c
    PROVE  \E g : Cutting(g, part, c, P)
<1> DEFINE len == Len(part)
           V == Seq(Seq(P))
           Rule(n, t) == IF t = <<>> \/ (part[n].by = c /\ c # "none")
                         THEN Append(t, <<part[n]>>)
                         ELSE [t EXCEPT ![Len(t)] = Append(@, part[n])]
           Rec(f) == f = [n \in 0..len |-> IF n = 0 THEN <<>> ELSE Rule(n, f[n - 1])]
           F == [n \in 1..len |-> [t \in V |-> Rule(n, t)]]
           start == <<>>
<1>1. len \in Nat /\ start \in V /\ \A n \in 1..len : part[n] \in P
  OBVIOUS
<1>2. \A n \in 1..len, t \in V : Rule(n, t) \in V
  BY <1>1, OneMore
<1>3. \A f : Rec(f) <=> f = [n \in 0..len |-> IF n = 0 THEN start ELSE Rule(n, f[n - 1])]
  OBVIOUS
<1> DEFINE g == CHOOSE h : Rec(h)
<1>4. CutAt(part, c) = g[len]
  BY DEF CutAt
<1> HIDE DEF len, V, start, Rule, Rec
<1>5. F \in [1..len -> [V -> V]] /\ \A n \in 1..len, t \in V : F[n][t] = Rule(n, t)
  BY <1>2
<1> HIDE DEF F
<1>6. PICK f : Follows(f, len, V, start, F)
  BY <1>1, <1>5, Recursion
<1>7. /\ f \in [0..len -> V] /\ f[0] = start
      /\ \A n \in 1..len : f[n] = Rule(n, f[n - 1])
  BY <1>1, <1>5, <1>6 DEF Follows
<1>8. f = [n \in 0..len |-> IF n = 0 THEN start ELSE Rule(n, f[n - 1])]
  <2>1. f = [n \in 0..len |-> f[n]]
    BY <1>7
  <2>2. \A n \in 0..len : f[n] = IF n = 0 THEN start ELSE Rule(n, f[n - 1])
    BY <1>1, <1>7
  <2> QED
    BY <2>1, <2>2
<1>9. Rec(g)
  BY <1>3, <1>8
<1> HIDE DEF g
<1>10. g = [n \in 0..len |-> IF n = 0 THEN start ELSE Rule(n, g[n - 1])]
  BY <1>3, <1>9
<1>11. g[0] = start /\ \A n \in 1..len : g[n] = Rule(n, g[n - 1])
  BY <1>1, <1>10
<1> DEFINE I == {n \in 0..len : g[n] \in V}
<1>12. 0 \in I /\ \A n \in 1..len : n - 1 \in I => n \in I
  BY <1>1, <1>2, <1>11
<1>13. \A n \in 0..len : n \in I
  <2> HIDE DEF I
  <2> QED
    BY <1>1, <1>12, UpTo
<1>14. g \in [0..len -> V]
  BY <1>10, <1>13
<1> QED
  BY <1>4, <1>11, <1>14 DEF len, V, start, Rule, Cutting

\* A part with a phrase has a piece with one.
LEMMA PiecesFacts ==
    ASSUME NEW part, IsList(part)
    PROVE  /\ IsList(Pieces(part))
           /\ part # <<>> => \E j \in DOMAIN Pieces(part) : Pieces(part)[j] # <<>>
<1> DEFINE P == {part[i] : i \in DOMAIN part}
           len == Len(part)
           c == Connector(part)
<1>1. part \in Seq(P)
  BY DEF IsList
<1>2. CASE Pieces(part) = <<part>>
  <2>1. IsList(<<part>>) /\ DOMAIN <<part>> = 1..1 /\ <<part>>[1] = part
    BY DEF IsList
  <2> QED
    BY <1>2, <2>1
<1>3. CASE Pieces(part) = CutAt(part, c)
  <2> PICK g : Cutting(g, part, c, P)
    BY <1>1, CutRecursion
  <2> HIDE DEF P, c
  <2>1. len \in Nat /\ \A n \in 1..len : part[n] \in P
    BY <1>1
  <2>2. /\ g \in [0..len -> Seq(Seq(P))] /\ CutAt(part, c) = g[len]
        /\ \A n \in 1..len :
             g[n] = IF g[n - 1] = <<>> \/ (part[n].by = c /\ c # "none")
                    THEN Append(g[n - 1], <<part[n]>>)
                    ELSE [g[n - 1] EXCEPT ![Len(g[n - 1])] = Append(@, part[n])]
    BY DEF Cutting
  <2> DEFINE Full(t) == t # <<>> /\ t[Len(t)] # <<>>
  <2>3. ASSUME part # <<>> PROVE Full(g[len])
    <3>1. len \in 1..len /\ len - 1 \in 0..len
      BY <1>1, <2>3
    <3>2. g[len - 1] \in Seq(Seq(P)) /\ part[len] \in P
      BY <2>1, <2>2, <3>1
    <3> DEFINE t == g[len - 1]
               x == part[len]
    <3>3. g[len] = Append(t, <<x>>) \/ (t # <<>> /\ g[len] = [t EXCEPT ![Len(t)] = Append(@, x)])
      BY <2>2, <3>1
    <3> HIDE DEF t, x, len, Full
    <3>4. t \in Seq(Seq(P)) /\ x \in P
      BY <3>2 DEF t, x
    <3>5. Full(Append(t, <<x>>))
      <4> DEFINE y == <<x>>
                 u == Append(t, y)
      <4>1. y # <<>> /\ IsList(t)
        BY <3>4, SeqList
      <4> HIDE DEF y
      <4>2. Len(u) = Len(t) + 1 /\ Len(t) \in Nat /\ u[Len(t) + 1] = y
        BY <4>1, AppendFacts
      <4> HIDE DEF u
      <4>3. u # <<>> /\ u[Len(u)] = y
        BY <4>2, EmptyList
      <4> QED
        BY <4>1, <4>3 DEF Full, u, y
    <3>6. ASSUME t # <<>> PROVE Full([t EXCEPT ![Len(t)] = Append(@, x)])
      <4> DEFINE w == Append(t[Len(t)], x)
                 u == [t EXCEPT ![Len(t)] = w]
      <4>1. Len(t) \in 1..Len(t) /\ Len(t) \in Nat /\ DOMAIN t = 1..Len(t) /\ t[Len(t)] \in Seq(P)
        BY <3>4, <3>6
      <4>2. w # <<>> /\ w \in Seq(P)
        <5> DEFINE p == t[Len(t)]
        <5>1. p \in Seq(P) /\ IsList(p)
          BY <4>1, SeqList
        <5> HIDE DEF p
        <5>2. Append(p, x) \in Seq(P) /\ Len(Append(p, x)) = Len(p) + 1 /\ Len(p) \in Nat
          BY <3>4, <5>1
        <5>3. Append(p, x) # <<>>
          BY <5>2, EmptyList
        <5> QED
          BY <5>2, <5>3 DEF p
      <4> HIDE DEF w
      <4>3. u \in Seq(Seq(P)) /\ Len(u) = Len(t) /\ u[Len(t)] = w
        BY <3>4, <4>1, <4>2
      <4>4. Full(u)
        BY <4>1, <4>2, <4>3 DEF Full
      <4> QED
        BY <4>4 DEF w
    <3> QED
      BY <3>3, <3>5, <3>6
  <2>4. IsList(g[len]) /\ g[len] \in Seq(Seq(P))
    BY <2>1, <2>2, SeqList
  <2>5. \A t \in Seq(Seq(P)) : Full(t) => \E j \in DOMAIN t : t[j] # <<>>
    <3> SUFFICES ASSUME NEW t \in Seq(Seq(P)), Full(t) PROVE Len(t) \in DOMAIN t
      OBVIOUS
    <3> QED
      OBVIOUS
  <2> HIDE DEF Full, len
  <2> QED
    BY <1>3, <2>2, <2>3, <2>4, <2>5
<1> QED
  BY <1>2, <1>3 DEF Pieces

\* g[n] are the pieces of the first n parts.
Splitting(g, note, S) ==
    /\ g \in [0..Len(note) -> Seq(S)] /\ g[0] = <<>> /\ AllPieces(note) = g[Len(note)]
    /\ \A n \in 1..Len(note) : g[n] = g[n - 1] \o Pieces(note[n])

LEMMA SplitRecursion ==
    ASSUME NEW note, IsList(note), NEW S, \A n \in 1..Len(note) : Pieces(note[n]) \in Seq(S)
    PROVE  \E g : Splitting(g, note, S)
<1> DEFINE len == Len(note)
           V == Seq(S)
           Rule(n, t) == t \o Pieces(note[n])
           Rec(f) == f = [n \in 0..len |-> IF n = 0 THEN <<>> ELSE Rule(n, f[n - 1])]
           F == [n \in 1..len |-> [t \in V |-> Rule(n, t)]]
           start == <<>>
<1>1. len \in Nat /\ start \in V
  BY ListFacts
<1>2. \A n \in 1..len, t \in V : Rule(n, t) \in V
  OBVIOUS
<1>3. \A f : Rec(f) <=> f = [n \in 0..len |-> IF n = 0 THEN start ELSE Rule(n, f[n - 1])]
  OBVIOUS
<1> DEFINE g == CHOOSE h : Rec(h)
<1>4. AllPieces(note) = g[len]
  BY DEF AllPieces
<1> HIDE DEF len, V, start, Rule, Rec
<1>5. F \in [1..len -> [V -> V]] /\ \A n \in 1..len, t \in V : F[n][t] = Rule(n, t)
  BY <1>2
<1> HIDE DEF F
<1>6. PICK f : Follows(f, len, V, start, F)
  BY <1>1, <1>5, Recursion
<1>7. /\ f \in [0..len -> V] /\ f[0] = start
      /\ \A n \in 1..len : f[n] = Rule(n, f[n - 1])
  BY <1>1, <1>5, <1>6 DEF Follows
<1>8. f = [n \in 0..len |-> IF n = 0 THEN start ELSE Rule(n, f[n - 1])]
  <2>1. f = [n \in 0..len |-> f[n]]
    BY <1>7
  <2>2. \A n \in 0..len : f[n] = IF n = 0 THEN start ELSE Rule(n, f[n - 1])
    BY <1>1, <1>7
  <2> QED
    BY <2>1, <2>2
<1>9. Rec(g)
  BY <1>3, <1>8
<1> HIDE DEF g
<1>10. g = [n \in 0..len |-> IF n = 0 THEN start ELSE Rule(n, g[n - 1])]
  BY <1>3, <1>9
<1>11. g[0] = start /\ \A n \in 1..len : g[n] = Rule(n, g[n - 1])
  BY <1>1, <1>10
<1> DEFINE I == {n \in 0..len : g[n] \in V}
<1>12. 0 \in I /\ \A n \in 1..len : n - 1 \in I => n \in I
  BY <1>1, <1>2, <1>11
<1>13. \A n \in 0..len : n \in I
  <2> HIDE DEF I
  <2> QED
    BY <1>1, <1>12, UpTo
<1>14. g \in [0..len -> V]
  BY <1>10, <1>13
<1> QED
  BY <1>4, <1>11, <1>14 DEF len, V, start, Rule, Splitting

\* The pieces of a note with a phrase in it are not all blank.
LEMMA AllPiecesFacts ==
    ASSUME NEW note, IsList(note), \A i \in DOMAIN note : IsList(note[i])
    PROVE  /\ IsList(AllPieces(note))
           /\ (\E i \in DOMAIN note : note[i] # <<>>)
                => \E j \in DOMAIN AllPieces(note) : AllPieces(note)[j] # <<>>
<1> DEFINE len == Len(note)
           S == UNION {{Pieces(note[n])[j] : j \in DOMAIN Pieces(note[n])} : n \in 1..len}
<1>1. len \in Nat /\ DOMAIN note = 1..len
  BY ListFacts
<1>2. ASSUME NEW n \in 1..len PROVE Pieces(note[n]) \in Seq(S)
  <2> DEFINE p == Pieces(note[n])
  <2>1. IsList(p) /\ \A j \in DOMAIN p : p[j] \in S
    BY <1>1, PiecesFacts
  <2> HIDE DEF S, p
  <2>2. Len(p) \in Nat /\ p = [j \in 1..Len(p) |-> p[j]] /\ DOMAIN p = 1..Len(p)
    BY <2>1, ListFacts
  <2>3. p \in Seq(S)
    BY <2>1, <2>2
  <2> QED
    BY <2>3 DEF p
<1> HIDE DEF S
<1> PICK g : Splitting(g, note, S)
  BY <1>2, SplitRecursion
<1>3. /\ g \in [0..len -> Seq(S)] /\ g[0] = <<>> /\ AllPieces(note) = g[len]
      /\ \A n \in 1..len : g[n] = g[n - 1] \o Pieces(note[n])
  BY DEF Splitting
<1> DEFINE Full(t) == \E j \in 1..Len(t) : t[j] # <<>>
           I == {n \in 0..len : (\E i \in 1..n : note[i] # <<>>) => Full(g[n])}
<1>4. 0 \in I
  BY <1>1
<1>5. \A n \in 1..len : n - 1 \in I => n \in I
  <2> SUFFICES ASSUME NEW n \in 1..len, n - 1 \in I, NEW i \in 1..n, note[i] # <<>>
               PROVE  Full(g[n])
    BY <1>1
  <2> DEFINE t == g[n - 1]
             p == Pieces(note[n])
  <2>1. t \in Seq(S) /\ p \in Seq(S) /\ g[n] = t \o p /\ DOMAIN p = 1..Len(p)
    <3>1. p \in Seq(S)
      BY <1>2
    <3>2. t \in Seq(S) /\ g[n] = t \o p
      BY <1>1, <1>3
    <3> HIDE DEF p
    <3> QED
      BY <3>1, <3>2
  <2>2. Full(t) \/ Full(p)
    <3>1. CASE i = n
      BY <1>1, <2>1, <3>1, PiecesFacts
    <3>2. CASE i # n
      BY <1>1, <3>2
    <3> QED
      BY <3>1, <3>2
  <2> HIDE DEF t, p
  <2>3. /\ Len(t) \in Nat /\ Len(p) \in Nat /\ Len(g[n]) = Len(t) + Len(p)
        /\ \A j \in 1..Len(t) : g[n][j] = t[j] /\ j \in 1..Len(g[n])
        /\ \A j \in 1..Len(p) : g[n][Len(t) + j] = p[j] /\ Len(t) + j \in 1..Len(g[n])
    BY <2>1
  <2> QED
    BY <2>2, <2>3
<1> HIDE DEF I
<1>6. \A n \in 0..len : n \in I
  BY <1>1, <1>4, <1>5, UpTo
<1>7. g[len] \in Seq(S) /\ len \in 0..len
  BY <1>1, <1>3
<1> QED
  BY <1>1, <1>3, <1>6, <1>7, SeqList, ListFacts DEF I

\* No note is without a clause, and the clauses are a list.
LEMMA ClausesFacts ==
    ASSUME NEW note, IsList(note), \A i \in DOMAIN note : IsList(note[i])
    PROVE  IsList(Clauses(note)) /\ (note # <<>> => Clauses(note) # <<>>)
<1> DEFINE all == AllPieces(note)
           K == {i \in DOMAIN all : all[i] # <<>>}
<1>1. CASE note = <<>>
  BY <1>1, EmptyList DEF Clauses
<1>2. CASE note # <<>> /\ \A i \in DOMAIN note : note[i] = <<>>
  <2>1. Clauses(note) = << <<>> >>
    BY <1>2 DEF Clauses
  <2>2. IsList(<< <<>> >>) /\ << <<>> >> # <<>>
    BY DEF IsList
  <2> QED
    BY <2>1, <2>2
<1>3. CASE \E i \in DOMAIN note : note[i] # <<>>
  <2>1. note # <<>>
    BY <1>3, EmptyList
  <2>2. Clauses(note) = Those(all, K)
    BY <1>3, <2>1 DEF Clauses
  <2>3. IsList(all) /\ K # {}
    BY <1>3, AllPiecesFacts
  <2>4. IsList(Those(all, K)) /\ DOMAIN Those(all, K) # {}
    BY <2>3, ThoseList
  <2> QED
    BY <2>2, <2>4, EmptyList
<1> QED
  BY <1>1, <1>2, <1>3

-----------------------------------------------------------------------------
(* Consent. *)

\* The items of a captured note, and those of them that may be shared.
LEMMA InboxFacts ==
    ASSUME NEW q \in Queries, q.kind = "mindflow"
    PROVE  /\ IsList(LocalItems(q)) /\ Len(LocalItems(q)) = Len(Clauses(q.note))
           /\ DOMAIN LocalItems(q) = DOMAIN Clauses(q.note)
           /\ \A i \in DOMAIN LocalItems(q) :
                LET clause == Clauses(q.note)[i]
                    item   == LocalItems(q)[i]
                IN  /\ item.domain = Domain(clause) /\ item.text = clause
                    /\ item.level = IF q.ai /\ Consents(q, Domain(clause))
                                    THEN "ai_allowed" ELSE "local_only"
<1> DEFINE clauses == Clauses(q.note)
           n == Len(clauses)
           items == LocalItems(q)
           At(i) == InboxItem(q, i, ParsedItem(clauses[i], Domain(clauses[i])))
<1>1. IsList(clauses)
  BY QueriesAssumption, ClausesFacts DEF Query
<1>2. n \in Nat /\ DOMAIN clauses = 1..n
  <2> HIDE DEF clauses
  <2> QED
    BY <1>1, ListFacts
<1>3. items = [i \in DOMAIN clauses |-> At(i)]
  BY DEF LocalItems, InboxItems, Parsed, ParsedItems
<1>4. ASSUME NEW i
      PROVE  /\ At(i).domain = Domain(clauses[i]) /\ At(i).text = clauses[i]
             /\ At(i).level = IF q.ai /\ Consents(q, Domain(clauses[i]))
                              THEN "ai_allowed" ELSE "local_only"
  BY DEF InboxItem, ParsedItem
<1> HIDE DEF clauses, items, At
<1>5. items = [i \in 1..n |-> At(i)]
  BY <1>2, <1>3
<1> HIDE DEF n
<1>6. IsList(items) /\ Len(items) = n /\ DOMAIN items = 1..n
  BY <1>2, <1>5, FunctionList
<1>7. \A i \in DOMAIN items : items[i] = At(i)
  BY <1>5
<1> QED
  BY <1>2, <1>4, <1>6, <1>7 DEF clauses, items, n

\* What is selected for the provider is within the consent, and is the input.
LEMMA AllowedFacts ==
    ASSUME NEW items, IsList(items), NEW q
    PROVE  /\ IsList(AllowedItems(items, q)) /\ Len(AllowedItems(items, q)) \in Nat
           /\ DOMAIN AllowedItems(items, q) = 1..Len(AllowedItems(items, q))
           /\ \A j \in DOMAIN AllowedItems(items, q) :
                /\ AllowedItems(items, q)[j].level = "ai_allowed"
                /\ Consents(q, AllowedItems(items, q)[j].domain)
                /\ \E i \in DOMAIN items : AllowedItems(items, q)[j] = items[i]
<1> DEFINE K == {i \in DOMAIN items : items[i].level = "ai_allowed" /\ Consents(q, items[i].domain)}
<1>1. AllowedItems(items, q) = Those(items, K)
  BY DEF AllowedItems
<1>2. \A i \in K : items[i].level = "ai_allowed" /\ Consents(q, items[i].domain)
  OBVIOUS
<1> HIDE DEF K
<1> QED
  BY <1>1, <1>2, ThoseList

\* A clause with a private note in it is filed under the journal.
LEMMA PrivateClause ==
    ASSUME NEW clause, NEW k \in DOMAIN clause, "journal" \in clause[k].looks
    PROVE  Domain(clause) = "journal"
<1> DEFINE order == <<"journal", "finance", "pantry", "wardrobe", "habit", "week", "task">>
           S == Looks(clause) \cup {"task"}
<1>1. "journal" \in S
  BY DEF Looks
<1>2. IsList(order) /\ 1 \in DOMAIN order /\ order[1] = "journal"
  BY DEF IsList
<1>3. Domain(clause) = Earliest(order, S)
  BY DEF Domain
<1> HIDE DEF order, S
<1> QED
  BY <1>1, <1>2, <1>3, EarliestFacts

\* The provider's items of an inbox are a list of its entries of the right shape.
LEMMA GoodFacts ==
    ASSUME NEW raw, IsList(raw.items)
    PROVE  /\ IsList(Good(raw)) /\ Len(Good(raw)) \in Nat
           /\ DOMAIN Good(raw) = 1..Len(Good(raw))
  BY ThoseList DEF Good

LEMMA UsableFacts ==
    ASSUME NEW q \in Queries, NEW a, Replied(q, a), Usable(a.result),
           q.kind \in {"classify", "parse", "mindflow", "decide"}
    PROVE  /\ IsList(Good(a.result.raw)) /\ Len(Good(a.result.raw)) \in Nat
           /\ DOMAIN Good(a.result.raw) = 1..Len(Good(a.result.raw))
<1>1. IsList(a.result.raw.items)
  BY ResultsAssumption DEF Replied, Usable
<1> QED
  BY <1>1, GoodFacts

\* Every item of an answer to a shared inbox is within the consent, and there
\* is one if there was anything to share.
LEMMA SharedFacts ==
    ASSUME NEW q \in Queries, q.kind = "mindflow", q.ai, NEW a, Replied(q, a)
    PROVE  /\ \A i \in DOMAIN MindflowItems(q, a.result) :
                Consents(q, MindflowItems(q, a.result)[i].domain)
           /\ AllowedItems(LocalItems(q), q) # <<>> => MindflowItems(q, a.result) # <<>>
<1> DEFINE local == AllowedItems(LocalItems(q), q)
           given == ProviderItems(a.result.raw)
           theirs == IF Usable(a.result) THEN AllowedItems(given, q) ELSE <<>>
<1>1. \A i \in DOMAIN local : Consents(q, local[i].domain)
  BY InboxFacts, AllowedFacts
<1>2. \A i \in DOMAIN theirs : Consents(q, theirs[i].domain)
  <2>1. CASE Usable(a.result)
    <3> DEFINE good == Good(a.result.raw)
               n == Len(good)
               At(i) == [id |-> <<"provider", i>>, domain |-> good[i].domain, level |-> "ai_allowed"]
    <3>1. n \in Nat /\ DOMAIN good = 1..n
      BY <2>1, UsableFacts
    <3>2. given = [i \in DOMAIN good |-> At(i)]
      BY DEF ProviderItems
    <3> HIDE DEF good, n, At, given
    <3>3. IsList(given)
      BY <3>1, <3>2, FunctionList
    <3> QED
      BY <2>1, <3>3, AllowedFacts
  <2>2. CASE ~Usable(a.result)
    BY <2>2, EmptyList
  <2> QED
    BY <2>1, <2>2
<1>3. MindflowItems(q, a.result) = IF local # <<>> /\ theirs # <<>> THEN theirs ELSE local
  BY DEF MindflowItems, SharedItems
<1> HIDE DEF local, theirs
<1> QED
  BY <1>1, <1>2, <1>3 DEF local

\* What the shopping graph sends is of consented domains, and safe.
LEMMA NeedsFacts ==
    ASSUME NEW q \in Queries, q.kind \in {"shop", "needs"}
    PROVE  /\ IsList(AllowedNeeds(q))
           /\ \A i \in DOMAIN AllowedNeeds(q) : Consents(q, AllowedNeeds(q)[i].domain)
           /\ \A e \in SafeContext(q) : Consents(q, e.domain) /\ e.keys \subseteq {"name", "amount"}
<1>1. IsList(q.needs) /\ \A e \in q.context : {"domain", "keys"} \subseteq DOMAIN e
  BY QueriesAssumption DEF Query
<1> DEFINE K == {i \in DOMAIN q.needs : Consents(q, q.needs[i].domain)}
<1>2. AllowedNeeds(q) = Those(q.needs, K) /\ \A i \in K : Consents(q, q.needs[i].domain)
  BY DEF AllowedNeeds
<1>3. \A e \in SafeContext(q) : Consents(q, e.domain) /\ e.keys \subseteq {"name", "amount"}
  <2> SUFFICES ASSUME NEW e \in q.context, Consents(q, e.domain),
                      NEW f, f = [e EXCEPT !.keys = @ \cap {"name", "amount"}]
               PROVE  Consents(q, f.domain) /\ f.keys \subseteq {"name", "amount"}
    BY DEF SafeContext
  <2>1. f.domain = e.domain /\ f.keys = e.keys \cap {"name", "amount"}
    BY <1>1
  <2> QED
    BY <2>1
<1> HIDE DEF K
<1> QED
  BY <1>1, <1>2, <1>3, ThoseList

\* A prompt that is with the provider was consented to, and holds nothing of
\* another domain, no local item, no unsafe key and no private note.
LEMMA PromptFacts ==
    ASSUME IInv, NEW c \in Calls, call[c].pc = "provider"
    PROVE  /\ call[c].q \in Queries /\ call[c].prompt = Prompt(call[c].q) /\ Consenting(call[c].q)
           /\ call[c].q.kind = "mindflow" =>
                call[c].prompt = AllowedItems(LocalItems(call[c].q), call[c].q)
           /\ call[c].q.kind = "decide" => call[c].prompt = AllowedItems(call[c].q.items, call[c].q)
           /\ call[c].q.kind \in {"shop", "needs"} =>
                /\ call[c].prompt.needs = AllowedNeeds(call[c].q)
                /\ call[c].prompt.context = SafeContext(call[c].q)
<1> DEFINE s == call[c]
           q == s.q
<1>1. Waiting(s, backend[c])
  BY DEF IInv, Sound
<1>2. q \in Queries /\ s.prompt = Prompt(q) /\ Consenting(q)
  BY <1>1 DEF Waiting
<1> HIDE DEF s, q
<1>3. /\ q.kind = "mindflow" => Prompt(q) = AllowedItems(LocalItems(q), q)
      /\ q.kind = "decide" => Prompt(q) = AllowedItems(q.items, q)
      /\ q.kind \in {"shop", "needs"} =>
           Prompt(q) = [needs |-> AllowedNeeds(q), context |-> SafeContext(q)]
  BY DEF Prompt
<1> QED
  BY <1>2, <1>3 DEF s, q

\* What is sent to the provider, and what is answered of an inbox, is within
\* the consent of the user, for any notes, items, contexts and provider.
THEOREM ConsentIsKept == Spec => []ConsentHolds
<1>1. ASSUME IInv PROVE PromptIsConsented
  <2> SUFFICES ASSUME NEW c \in Calls, call[c].pc = "provider"
               PROVE  LET q == call[c].q
                          prompt == call[c].prompt
                      IN  /\ IF q.kind = "rewrite" THEN q.level = "ai_allowed" ELSE q.ai
                          /\ q.kind \in {"mindflow", "decide"} =>
                               \A i \in DOMAIN prompt : /\ prompt[i].level = "ai_allowed"
                                                        /\ q.consent # {} => prompt[i].domain \in q.consent
                          /\ q.kind \in {"shop", "needs"} =>
                               /\ \A i \in DOMAIN prompt.needs :
                                    q.consent # {} => prompt.needs[i].domain \in q.consent
                               /\ \A e \in prompt.context :
                                    /\ q.consent # {} => e.domain \in q.consent
                                    /\ e.keys \subseteq {"name", "amount"}
    BY DEF PromptIsConsented
  <2> DEFINE q == call[c].q
             prompt == call[c].prompt
  <2>1. /\ q \in Queries /\ Consenting(q)
        /\ q.kind = "mindflow" => prompt = AllowedItems(LocalItems(q), q)
        /\ q.kind = "decide" => prompt = AllowedItems(q.items, q)
        /\ q.kind \in {"shop", "needs"} =>
             prompt.needs = AllowedNeeds(q) /\ prompt.context = SafeContext(q)
    BY <1>1, PromptFacts
  <2> HIDE DEF q, prompt
  <2>2. q.kind \in {"mindflow", "decide"} =>
          \A i \in DOMAIN prompt : prompt[i].level = "ai_allowed" /\ Consents(q, prompt[i].domain)
    <3>1. CASE q.kind = "mindflow"
      BY <2>1, <3>1, InboxFacts, AllowedFacts
    <3>2. CASE q.kind = "decide"
      <4>1. IsList(q.items)
        BY <2>1, <3>2, QueriesAssumption DEF Query
      <4> QED
        BY <2>1, <3>2, <4>1, AllowedFacts
    <3> QED
      BY <3>1, <3>2
  <2>3. q.kind \in {"shop", "needs"} =>
          /\ \A i \in DOMAIN prompt.needs : Consents(q, prompt.needs[i].domain)
          /\ \A e \in prompt.context : Consents(q, e.domain) /\ e.keys \subseteq {"name", "amount"}
    BY <2>1, NeedsFacts
  <2> QED
    BY <2>1, <2>2, <2>3 DEF q, prompt, Consenting, Consents
<1>2. ASSUME IInv PROVE PrivateNotesStay
  <2> SUFFICES ASSUME NEW c \in Calls, Asked(c, {"mindflow"}), NEW i \in DOMAIN call[c].prompt,
                      NEW k \in DOMAIN call[c].prompt[i].text,
                      "journal" \in call[c].prompt[i].text[k].looks
               PROVE  Consents(call[c].q, "journal")
    BY DEF PrivateNotesStay
  <2> DEFINE q == call[c].q
             prompt == call[c].prompt
             text == prompt[i].text
  <2>1. q \in Queries /\ q.kind = "mindflow" /\ prompt = AllowedItems(LocalItems(q), q)
    BY <1>2, PromptFacts DEF Asked
  <2>2. i \in DOMAIN prompt /\ k \in DOMAIN text /\ "journal" \in text[k].looks
    OBVIOUS
  <2> HIDE DEF q, prompt, text
  <2>3. /\ Consents(q, prompt[i].domain)
        /\ \E l \in DOMAIN LocalItems(q) : prompt[i] = LocalItems(q)[l]
    BY <2>1, <2>2, InboxFacts, AllowedFacts
  <2>4. prompt[i].domain = Domain(text)
    BY <2>1, <2>3, InboxFacts DEF text
  <2>5. Domain(text) = "journal"
    BY <2>2, PrivateClause
  <2> QED
    BY <2>3, <2>4, <2>5 DEF q
<1>3. ASSUME IInv PROVE InboxKeepsConsent
  <2> SUFFICES ASSUME NEW c \in Calls, Done(c, {"mindflow"})
               PROVE  LET q == call[c].q
                          items == AnsweredBody(c)
                      IN  IF q.ai THEN \A i \in DOMAIN items : Consents(q, items[i].domain)
                          ELSE /\ Len(items) = Len(Clauses(q.note))
                               /\ \A i \in DOMAIN items : items[i].level = "local_only"
    BY DEF InboxKeepsConsent
  <2> DEFINE q == call[c].q
             a == call[c].answer
             items == AnsweredBody(c)
  <2>1. q \in Queries /\ q.kind = "mindflow" /\ Replied(q, a)
    BY <1>3 DEF IInv, Sound, Answering, Done
  <2>2. items = MindflowItems(q, a.result)
    BY <2>1 DEF AnsweredBody, Body
  <2> HIDE DEF q, a, items
  <2>3. CASE q.ai
    BY <2>1, <2>2, <2>3, SharedFacts DEF q, items
  <2>4. CASE ~q.ai
    <3>1. items = LocalItems(q)
      BY <2>2, <2>4 DEF MindflowItems
    <3>2. Len(items) = Len(Clauses(q.note)) /\ \A i \in DOMAIN items : items[i].level = "local_only"
      BY <2>1, <2>4, <3>1, InboxFacts
    <3> QED
      BY <2>4, <3>2 DEF q, items
  <2> QED
    BY <2>3, <2>4
<1>4. IInv => ConsentHolds
  BY <1>1, <1>2, <1>3 DEF ConsentHolds
<1> QED
  BY <1>4, Invariance, PTL

-----------------------------------------------------------------------------
(* Reviews. *)

\* The fields of a decision card that the review looks at.
Card(c) == {"unsafe", "confirm", "external"} \subseteq DOMAIN c

\* The review lets no more than the maximum through, nothing unsafe, nothing
\* without confirmation, and nothing at all only when there was nothing safe.
LEMMA SanitizedFacts ==
    ASSUME NEW cards, IsList(cards), \A i \in DOMAIN cards : Card(cards[i]), NEW max \in Nat
    PROVE  LET kept == Sanitized(cards, max) IN
           /\ Len(kept) <= max
           /\ \A i \in DOMAIN kept : kept[i].confirm /\ ~kept[i].external /\ ~kept[i].unsafe
           /\ kept = <<>> /\ max # 0 => \A i \in DOMAIN cards : cards[i].unsafe
<1> DEFINE K == {i \in DOMAIN cards : ~cards[i].unsafe}
           safe == Those(cards, K)
           first == FirstOf(safe, max)
           n == Len(first)
           At(i) == [first[i] EXCEPT !.confirm = TRUE, !.external = FALSE]
           kept == Sanitized(cards, max)
<1>1. kept = [i \in DOMAIN first |-> At(i)]
  BY DEF Sanitized
<1>2. \A i \in DOMAIN cards : i \in K <=> ~cards[i].unsafe
  OBVIOUS
<1> HIDE DEF K
<1>3. /\ IsList(safe)
      /\ \A j \in DOMAIN safe : \E i \in DOMAIN cards : i \in K /\ safe[j] = cards[i]
      /\ \A i \in DOMAIN cards : i \in K => \E j \in DOMAIN safe : safe[j] = cards[i]
  BY ThoseList
<1>4. \A j \in DOMAIN safe : Card(safe[j]) /\ ~safe[j].unsafe
  BY <1>3, <1>2
<1> HIDE DEF safe
<1>5. /\ IsList(first) /\ n <= max /\ DOMAIN first = 1..n
      /\ n = IF max < Len(safe) THEN max ELSE Len(safe)
      /\ \A i \in DOMAIN first : i \in DOMAIN safe /\ first[i] = safe[i]
  BY <1>3, FirstList
<1>6. n \in Nat /\ Len(safe) \in Nat /\ DOMAIN safe = 1..Len(safe)
  BY <1>3, <1>5, ListFacts
<1>7. \A i \in DOMAIN first : At(i).confirm /\ ~At(i).external /\ ~At(i).unsafe
  <2> SUFFICES ASSUME NEW i \in DOMAIN first PROVE At(i).confirm /\ ~At(i).external /\ ~At(i).unsafe
    OBVIOUS
  <2> DEFINE c == first[i]
  <2>1. Card(c) /\ ~c.unsafe
    BY <1>4, <1>5
  <2> HIDE DEF first, c
  <2> SUFFICES LET k == [c EXCEPT !.confirm = TRUE, !.external = FALSE]
               IN  k.confirm /\ ~k.external /\ ~k.unsafe
    BY DEF c
  <2> QED
    BY <2>1 DEF Card
<1> HIDE DEF first, n, At, kept
<1>8. kept = [i \in 1..n |-> At(i)]
  BY <1>1, <1>5
<1>9. Len(kept) = n /\ DOMAIN kept = 1..n
  BY <1>6, <1>8, FunctionList
<1>10. \A i \in DOMAIN kept : kept[i].confirm /\ ~kept[i].external /\ ~kept[i].unsafe
  BY <1>1, <1>7
<1>11. ASSUME kept = <<>>, max # 0 PROVE \A i \in DOMAIN cards : cards[i].unsafe
  <2>1. n = 0
    BY <1>9, <1>11, EmptyList
  <2>2. Len(safe) = 0
    BY <1>5, <1>6, <1>11, <2>1
  <2> QED
    BY <1>3, <1>2, <1>6, <2>2
<1> QED
  BY <1>5, <1>9, <1>10, <1>11 DEF kept

\* The local cards of a decision plan: at most the maximum, and none when no
\* item may be shared.
LEMMA LocalCardFacts ==
    ASSUME NEW q \in Queries, q.kind = "decide"
    PROVE  /\ IsList(LocalCards(q)) /\ \A i \in DOMAIN LocalCards(q) : Card(LocalCards(q)[i])
           /\ q.max = 0 \/ AllowedItems(q.items, q) = <<>> => DOMAIN LocalCards(q) = {}
<1> DEFINE items == AllowedItems(q.items, q)
           S == {items[i] : i \in DOMAIN items}
           score == [i \in DOMAIN items |->
                       (100 * items[i].urgency - 35 * items[i].effort) * 1000 + items[i].conf]
           sorted == SortedBy(items, score)
           top == FirstOf(sorted, q.max)
           At(i) == [by |-> "local", sources |-> <<top[i].id>>, unsafe |-> top[i].unsafe,
                     confirm |-> TRUE, external |-> FALSE, score |->
                       70 * top[i].urgency + 20 * top[i].conf + 10 * (100 - top[i].effort)]
           cards == LocalCards(q)
<1>1. /\ q.max \in Nat /\ IsList(q.items)
      /\ \A i \in DOMAIN q.items :
           q.items[i].urgency \in Int /\ q.items[i].effort \in Int /\ q.items[i].conf \in Int
  BY QueriesAssumption DEF Query
<1>2. /\ IsList(items) /\ Len(items) \in Nat /\ DOMAIN items = 1..Len(items)
      /\ \A j \in DOMAIN items : \E i \in DOMAIN q.items : items[j] = q.items[i]
  BY <1>1, AllowedFacts
<1>3. ASSUME NEW i \in 1..Len(items) PROVE score[i] \in Int
  <2>1. i \in DOMAIN items
    BY <1>2
  <2>2. items[i].urgency \in Int /\ items[i].effort \in Int /\ items[i].conf \in Int
    BY <1>1, <1>2, <2>1
  <2> DEFINE u == items[i].urgency
             e == items[i].effort
             f == items[i].conf
  <2>3. score[i] = (100 * u - 35 * e) * 1000 + f
    BY <2>1
  <2> HIDE DEF items, score, u, e, f
  <2> QED
    BY <2>2, <2>3 DEF u, e, f
<1>4. items \in Seq(S)
  BY <1>2 DEF IsList
<1>5. cards = [i \in DOMAIN top |-> At(i)]
  BY DEF LocalCards, ByUrgency
<1>6. \A i : Card(At(i))
  BY DEF Card
<1> HIDE DEF items, S, score, sorted, At, cards
<1> DEFINE len == Len(items)
<1>7. PICK p : Sorting(p, items, score)
  BY <1>3, <1>4, SortedFacts
<1>8. sorted = [k \in 1..len |-> items[p[k]]]
  BY <1>7 DEF Sorting, sorted
<1>9. len \in Nat
  BY <1>2
<1> HIDE DEF len
<1>10. IsList(sorted) /\ Len(sorted) = len
  <2>1. sorted = [k \in 1..len |-> sorted[k]]
    BY <1>8
  <2> QED
    BY <1>9, <2>1, FunctionList
<1>11. /\ DOMAIN top = 1..Len(top) /\ IsList(top)
       /\ Len(top) = IF q.max < len THEN q.max ELSE len
  <2> DEFINE max == q.max
             first == FirstOf(sorted, max)
  <2>1. max \in Nat
    BY <1>1
  <2> HIDE DEF max
  <2>2. /\ DOMAIN first = 1..Len(first) /\ IsList(first)
        /\ Len(first) = IF max < Len(sorted) THEN max ELSE Len(sorted)
    BY <1>10, <2>1, FirstList
  <2> QED
    BY <1>10, <2>2 DEF max
<1> DEFINE n == Len(top)
<1>12. n \in Nat
  BY <1>1, <1>9, <1>11
<1>13. q.max = 0 \/ len = 0 => n = 0
  BY <1>1, <1>9, <1>11
<1> HIDE DEF top
<1>14. cards = [i \in 1..n |-> At(i)]
  BY <1>5, <1>11
<1> HIDE DEF n
<1>15. IsList(cards) /\ DOMAIN cards = 1..n
  <2>1. cards = [i \in 1..n |-> cards[i]]
    BY <1>14
  <2> QED
    BY <1>12, <2>1, FunctionList
<1>16. \A i \in DOMAIN cards : Card(cards[i])
  BY <1>6, <1>14
<1>17. items = <<>> => len = 0
  BY EmptyList DEF len
<1> QED
  BY <1>13, <1>15, <1>16, <1>17 DEF items, cards

\* The cards of a decision plan that is answered.
LEMMA DecisionFacts ==
    ASSUME NEW q \in Queries, q.kind = "decide", NEW a, Replied(q, a)
    PROVE  LET cards == Decisions(q, a.result) IN
           /\ Len(cards) <= q.max
           /\ \A i \in DOMAIN cards : cards[i].confirm /\ ~cards[i].external /\ ~cards[i].unsafe
           /\ cards = <<>> => \A i \in DOMAIN LocalCards(q) : LocalCards(q)[i].unsafe
<1> DEFINE max == q.max
           theirs == IF Usable(a.result) THEN Sanitized(ProviderCards(a.result.raw), max) ELSE <<>>
           ours == Sanitized(LocalCards(q), max)
           Fine(cards) == /\ Len(cards) <= max
                          /\ \A i \in DOMAIN cards :
                               cards[i].confirm /\ ~cards[i].external /\ ~cards[i].unsafe
<1>1. max \in Nat
  BY QueriesAssumption DEF Query
<1>2. Fine(<<>>)
  BY <1>1, EmptyList
<1>3. Fine(theirs)
  <2>1. CASE Usable(a.result)
    <3> DEFINE cards == ProviderCards(a.result.raw)
               good == Good(a.result.raw)
               n == Len(good)
               At(i) == [by |-> "provider", sources |-> good[i].sources,
                         unsafe |-> good[i].unsafe, confirm |-> good[i].confirm,
                         external |-> good[i].external, score |-> 5400]
    <3>1. n \in Nat /\ DOMAIN good = 1..n
      BY <2>1, UsableFacts
    <3>2. cards = [i \in DOMAIN good |-> At(i)]
      BY DEF ProviderCards
    <3>3. \A i : Card(At(i))
      BY DEF Card
    <3> HIDE DEF good, n, At, cards
    <3>4. IsList(cards) /\ \A i \in DOMAIN cards : Card(cards[i])
      BY <3>1, <3>2, <3>3, FunctionList
    <3>5. Fine(Sanitized(cards, max))
      BY <1>1, <3>4, SanitizedFacts
    <3> QED
      BY <2>1, <3>5 DEF cards
  <2>2. CASE ~Usable(a.result)
    BY <1>2, <2>2
  <2> QED
    BY <2>1, <2>2
<1>4. Fine(ours) /\ (ours = <<>> /\ max # 0 => \A i \in DOMAIN LocalCards(q) : LocalCards(q)[i].unsafe)
  BY <1>1, LocalCardFacts, SanitizedFacts
<1>5. AllowedItems(q.items, q) = <<>> \/ max = 0 => DOMAIN LocalCards(q) = {}
  BY LocalCardFacts
<1>6. Decisions(q, a.result) = IF AllowedItems(q.items, q) = <<>> THEN <<>>
                               ELSE IF theirs # <<>> THEN theirs ELSE ours
  BY DEF Decisions
<1> HIDE DEF theirs, ours, max, Fine
<1>7. /\ Fine(Decisions(q, a.result))
      /\ Decisions(q, a.result) = <<>> => \A i \in DOMAIN LocalCards(q) : LocalCards(q)[i].unsafe
  BY <1>2, <1>3, <1>4, <1>5, <1>6
<1> QED
  BY <1>7 DEF Fine, max

\* An evidence card, and one whose claims its facts bear out.
Evident(card) == card = [facts |-> card.facts, claims |-> card.claims, status |-> card.status]
Verified(card) ==
    /\ "price" \in card.claims => {"price", "merchant", "source", "checked"} \subseteq card.facts
    /\ "green" \in card.claims => "source" \in card.facts

LEMMA CheckedFacts ==
    ASSUME NEW card, Evident(card)
    PROVE  Verified(CheckedEvidence(card))
<1> PICK f, g, s : card = [facts |-> f, claims |-> g, status |-> s]
  BY DEF Evident
<1> DEFINE bare == [card EXCEPT !.facts = {}, !.claims = {}]
           borne == {"source", "checked", "merchant", "price"} \subseteq f
           sold == IF "price" \in g /\ ~borne THEN bare ELSE card
           parts == {"facts", "claims", "status"}
<1>1. /\ DOMAIN card = parts /\ card.facts = f /\ card.claims = g
      /\ card = [p \in parts |-> card[p]]
  OBVIOUS
<1>2. /\ DOMAIN bare = parts /\ bare.claims = {}
      /\ bare = [p \in parts |-> bare[p]]
  BY <1>1
<1> HIDE DEF bare, parts
<1>3. CheckedEvidence(card) = IF "green" \in g /\ "source" \notin sold.facts
                              THEN [sold EXCEPT !.claims = {}, !.status = "insufficient"] ELSE sold
  BY <1>1 DEF CheckedEvidence, bare
<1>4. /\ DOMAIN sold = parts /\ sold = [p \in parts |-> sold[p]]
      /\ "price" \in sold.claims => {"price", "merchant", "source", "checked"} \subseteq sold.facts
      /\ sold.claims \subseteq g
  BY <1>1, <1>2
<1> HIDE DEF sold
<1>5. [sold EXCEPT !.claims = {}, !.status = "insufficient"].claims = {}
  BY <1>4 DEF parts
<1> QED
  BY <1>3, <1>4, <1>5 DEF Verified

\* Whatever the provider found, a shopping plan shows verified claims only.
LEMMA ShoppingFacts ==
    ASSUME NEW q, NEW result
    PROVE  \A card \in ToSet(Shopping(q, result).evidence) : Verified(card)
<1> DEFINE found == IF Usable(result) THEN ProviderShopping(q, result.raw) ELSE LocalShopping(q)
           none == [needs |-> <<>>, evidence |-> <<>>, cards |-> <<>>]
<1>1. /\ found = [needs |-> found.needs, evidence |-> found.evidence, cards |-> found.cards]
      /\ \A i \in DOMAIN found.evidence : Evident(found.evidence[i])
  <2>1. CASE Usable(result)
    <3> DEFINE raw == result.raw
               At(i) == ProviderEvidence(raw.evidence[i], FALSE)
    <3>1. /\ found.evidence = [i \in DOMAIN raw.evidence |-> At(i)]
          /\ found = [needs |-> found.needs, evidence |-> found.evidence, cards |-> found.cards]
      BY <2>1 DEF ProviderShopping
    <3>2. \A i : Evident(At(i))
      BY DEF ProviderEvidence, Evident
    <3> HIDE DEF found, At
    <3> QED
      BY <3>1, <3>2
  <2>2. CASE ~Usable(result)
    <3> DEFINE needs == AllowedNeeds(q)
    <3>1. /\ found.evidence = [i \in DOMAIN needs |-> LocalEvidence(FALSE)]
          /\ found = [needs |-> found.needs, evidence |-> found.evidence, cards |-> found.cards]
      BY <2>2 DEF LocalShopping
    <3>2. Evident(LocalEvidence(FALSE))
      BY DEF LocalEvidence, Evident
    <3> HIDE DEF found
    <3> QED
      BY <3>1, <3>2
  <2> QED
    BY <2>1, <2>2
<1>2. Shopping(q, result) =
        IF AllowedNeeds(q) = <<>> THEN none
        ELSE [found EXCEPT !.evidence = [i \in DOMAIN @ |-> CheckedEvidence(@[i])]]
  BY DEF Shopping
<1> HIDE DEF found
<1>3. CASE AllowedNeeds(q) = <<>>
  BY <1>2, <1>3, EmptyList DEF ToSet
<1>4. CASE AllowedNeeds(q) # <<>>
  <2>1. Shopping(q, result).evidence
          = [i \in DOMAIN found.evidence |-> CheckedEvidence(found.evidence[i])]
    BY <1>1, <1>2, <1>4
  <2>2. \A i \in DOMAIN found.evidence : Verified(CheckedEvidence(found.evidence[i]))
    BY <1>1, CheckedFacts
  <2> QED
    BY <2>1, <2>2 DEF ToSet
<1> QED
  BY <1>3, <1>4

\* The decisions of a shopping plan: whoever made them, they wait for a
\* confirmation, and those of the rules are a few, consented and internal.
LEMMA ShoppingCardFacts ==
    ASSUME NEW q \in Queries, q.kind = "shop", NEW result
    PROVE  LET cards == Shopping(q, result).cards IN
           /\ \A i \in DOMAIN cards : cards[i].confirm
           /\ ~Usable(result) =>
                /\ Len(cards) <= 3
                /\ \A i \in DOMAIN cards :
                     /\ ~cards[i].external /\ ~cards[i].unsafe
                     /\ \E j \in DOMAIN q.needs : /\ Consents(q, q.needs[j].domain)
                                                 /\ cards[i].sources = <<q.needs[j].id>>
<1> DEFINE needs == AllowedNeeds(q)
           first == FirstOf(needs, 3)
           found == IF Usable(result) THEN ProviderShopping(q, result.raw) ELSE LocalShopping(q)
           cards == Shopping(q, result).cards
           Made(i) == [by |-> "local", sources |-> <<needs[i].id>>, unsafe |-> FALSE,
                       confirm |-> TRUE, external |-> FALSE, score |-> 5000,
                       owned |-> Owned(q, needs[i])]
<1>1. /\ IsList(needs) /\ IsList(first) /\ DOMAIN first = 1..Len(first)
      /\ Len(first) \in Nat /\ Len(first) <= 3
      /\ \A i \in DOMAIN first : i \in DOMAIN needs
      /\ \A i \in DOMAIN needs : \E j \in DOMAIN q.needs :
           Consents(q, q.needs[j].domain) /\ needs[i] = q.needs[j]
  <2>1. IsList(q.needs)
    BY QueriesAssumption DEF Query
  <2> DEFINE K == {k \in DOMAIN q.needs : Consents(q, q.needs[k].domain)}
             s == q.needs
  <2>2. IsList(needs) /\ \A i \in DOMAIN needs : \E j \in DOMAIN s : j \in K /\ needs[i] = s[j]
    <3>1. needs = Those(s, K) /\ IsList(s)
      BY <2>1 DEF AllowedNeeds
    <3> HIDE DEF needs, K, s
    <3> QED
      BY <3>1, ThoseList
  <2> HIDE DEF needs
  <2>3. IsList(first)
    BY <2>2, FirstList
  <2> QED
    BY <2>2, <2>3, FirstList, ListFacts
<1>2. CASE needs = <<>>
  <2>1. cards = <<>>
    BY <1>2 DEF Shopping
  <2> QED
    BY <2>1, EmptyList
<1>3. CASE needs # <<>>
  <2>0. found = [needs |-> found.needs, evidence |-> found.evidence, cards |-> found.cards]
    <3>1. CASE Usable(result)
      BY <3>1 DEF ProviderShopping
    <3>2. CASE ~Usable(result)
      BY <3>2 DEF LocalShopping
    <3> QED
      BY <3>1, <3>2
  <2>1. Shopping(q, result)
          = [found EXCEPT !.evidence = [i \in DOMAIN @ |-> CheckedEvidence(@[i])]]
    BY <1>3 DEF Shopping
  <2>2. cards = found.cards
    <3> DEFINE seen == [i \in DOMAIN found.evidence |-> CheckedEvidence(found.evidence[i])]
    <3>1. Shopping(q, result) = [found EXCEPT !.evidence = seen]
      BY <2>1
    <3> HIDE DEF found, seen
    <3> QED
      BY <2>0, <3>1
  <2>3. CASE Usable(result)
    <3> DEFINE theirs == ProviderCards(result.raw)
               good == Good(result.raw)
               On(i) == [by |-> "provider", sources |-> good[i].sources,
                         unsafe |-> good[i].unsafe, confirm |-> good[i].confirm,
                         external |-> good[i].external, score |-> 5400]
               yes == TRUE
    <3>1. theirs = [i \in DOMAIN good |-> On(i)]
      BY DEF ProviderCards
    <3>2. cards = [i \in DOMAIN theirs |-> [theirs[i] EXCEPT !.confirm = yes]]
      BY <2>2, <2>3 DEF ProviderShopping
    <3>3. \A i : DOMAIN On(i) = {"by", "sources", "unsafe", "confirm", "external", "score"}
      OBVIOUS
    <3>4. yes
      OBVIOUS
    <3> HIDE DEF theirs, good, On, yes, cards
    <3>5. \A i \in DOMAIN theirs : [theirs[i] EXCEPT !.confirm = yes].confirm = yes
      BY <3>1, <3>3
    <3>6. \A i \in DOMAIN cards : cards[i].confirm
      BY <3>2, <3>4, <3>5
    <3> QED
      BY <2>3, <3>6 DEF cards
  <2>4. CASE ~Usable(result)
    <3>1. cards = [i \in DOMAIN first |-> Made(i)]
      BY <2>2, <2>4 DEF LocalShopping
    <3>2. \A i : /\ Made(i).confirm /\ ~Made(i).external /\ ~Made(i).unsafe
                 /\ Made(i).sources = <<needs[i].id>>
      OBVIOUS
    <3> HIDE DEF needs, first, Made, cards
    <3>3. Len(cards) <= 3 /\ DOMAIN cards = DOMAIN first
      BY <1>1, <3>1
    <3>4. \A i \in DOMAIN cards : cards[i].confirm /\ ~cards[i].external /\ ~cards[i].unsafe
      BY <3>1, <3>2
    <3>5. ASSUME NEW i \in DOMAIN cards
          PROVE  \E j \in DOMAIN q.needs : /\ Consents(q, q.needs[j].domain)
                                          /\ cards[i].sources = <<q.needs[j].id>>
      BY <1>1, <3>1, <3>2, <3>3
    <3> QED
      BY <3>3, <3>4, <3>5 DEF cards
  <2> QED
    BY <2>3, <2>4
<1> QED
  BY <1>2, <1>3

\* What the gateway answered of a query that was neither refused nor failed.
LEMMA AnsweredFacts ==
    ASSUME IInv, NEW c \in Calls, call[c].pc = "answered"
    PROVE  /\ call[c].q \in Queries /\ call[c].answer.code \in Codes(call[c].q)
           /\ call[c].answer.code = 200 => Replied(call[c].q, call[c].answer)
  BY DEF IInv, Sound, Answering

\* Whatever the provider answers, every card of a decision plan was reviewed,
\* every shopping decision waits for the user, and every claim of an evidence
\* card is borne out by its facts.
THEOREM ReviewIsComplete == Spec => []AnswersAreReviewed
<1>1. ASSUME IInv PROVE PlansAreReviewed
  <2> SUFFICES ASSUME NEW c \in Calls, Done(c, {"decide"})
               PROVE  LET cards == AnsweredBody(c) IN
                      /\ Len(cards) <= call[c].q.max
                      /\ \A i \in DOMAIN cards : cards[i].confirm /\ ~cards[i].external /\ ~cards[i].unsafe
    BY DEF PlansAreReviewed
  <2> DEFINE q == call[c].q
             a == call[c].answer
  <2>1. q \in Queries /\ q.kind = "decide" /\ Replied(q, a)
    BY <1>1, AnsweredFacts DEF Done
  <2>2. AnsweredBody(c) = Decisions(q, a.result)
    BY <2>1 DEF AnsweredBody, Body
  <2> HIDE DEF q, a
  <2> QED
    BY <2>1, <2>2, DecisionFacts DEF q
<1>2. ASSUME IInv PROVE ClaimsAreVerified
  <2> SUFFICES ASSUME NEW c \in Calls, Done(c, {"shop", "evidence"}),
                      NEW card \in IF call[c].q.kind = "shop" THEN ToSet(AnsweredBody(c).evidence)
                                   ELSE {AnsweredBody(c)}
               PROVE  Verified(card)
    BY DEF ClaimsAreVerified, Verified
  <2> DEFINE q == call[c].q
             result == call[c].answer.result
  <2>1. CASE q.kind = "shop"
    <3>1. AnsweredBody(c) = Shopping(q, result)
      BY <2>1 DEF AnsweredBody, Body
    <3> QED
      BY <2>1, <3>1, ShoppingFacts
  <2>2. CASE q.kind = "evidence"
    <3>1. card = Evidence(q, result)
      BY <2>2 DEF AnsweredBody, Body
    <3>2. Evident(IF Usable(result) THEN ProviderEvidence(result.raw, q.merchant)
                  ELSE LocalEvidence(q.merchant))
      BY DEF Evident, ProviderEvidence, LocalEvidence
    <3> QED
      BY <3>1, <3>2, CheckedFacts DEF Evidence
  <2> QED
    BY <2>1, <2>2 DEF Done
<1>3. ASSUME IInv PROVE ShoppingWaits
  <2> SUFFICES ASSUME NEW c \in Calls, Done(c, {"shop"})
               PROVE  LET q == call[c].q
                          cards == AnsweredBody(c).cards
                      IN  /\ \A i \in DOMAIN cards : cards[i].confirm
                          /\ ~Usable(call[c].answer.result) =>
                               /\ Len(cards) <= 3
                               /\ \A i \in DOMAIN cards :
                                    /\ ~cards[i].external /\ ~cards[i].unsafe
                                    /\ \E j \in DOMAIN q.needs :
                                         /\ Consents(q, q.needs[j].domain)
                                         /\ cards[i].sources = <<q.needs[j].id>>
    BY DEF ShoppingWaits
  <2> DEFINE q == call[c].q
             result == call[c].answer.result
  <2>1. q \in Queries /\ q.kind = "shop"
    BY <1>3, AnsweredFacts DEF Done
  <2>2. AnsweredBody(c) = Shopping(q, result)
    BY <2>1 DEF AnsweredBody, Body
  <2> HIDE DEF q, result
  <2> QED
    BY <2>1, <2>2, ShoppingCardFacts DEF q, result
<1>4. IInv => AnswersAreReviewed
  BY <1>1, <1>2, <1>3 DEF AnswersAreReviewed
<1> QED
  BY <1>4, Invariance, PTL

-----------------------------------------------------------------------------
(* Fallbacks. *)

\* A proof written in the language of the user is read with all its fields.
LEMMA ProofFacts ==
    ASSUME NEW proof, proof.fields \subseteq AnyOrder \cup {"product", "merchant"},
           proof.sentence = proof.locale
    PROVE  proof.fields \subseteq ProofFields(proof)
<1> DEFINE tried == <<proof.locale>> \o Locales
           hits == Finding(proof, tried)
           own == proof.locale
           Seen == {"product", "merchant", "amount"}
<1>1. ParsedAs(proof, own) = proof.fields
  BY DEF ParsedAs
<1>2. /\ IsList(tried) /\ 1 \in DOMAIN tried /\ tried[1] = own
  <2> DEFINE S == {own} \cup {Locales[i] : i \in 1..5}
             first == <<own>>
  <2>1. /\ first \in Seq(S) /\ Locales \in Seq(S)
        /\ Len(first) = 1 /\ first[1] = own /\ Len(Locales) = 5
    BY DEF Locales
  <2> HIDE DEF S, own, first
  <2> DEFINE all == Locales
  <2>2. tried = first \o all
    BY DEF own, first
  <2>3. all \in Seq(S) /\ Len(all) = 5
    BY <2>1
  <2> HIDE DEF all, tried
  <2>4. /\ tried \in Seq(S) /\ Len(tried) = Len(first) + Len(all)
        /\ \A i \in 1..Len(first) + Len(all) :
             tried[i] = IF i <= Len(first) THEN first[i] ELSE all[i - Len(first)]
    BY <2>1, <2>2, <2>3, ConcatProperties
  <2>5. tried \in Seq(S) /\ Len(tried) = 6 /\ tried[1] = own
    BY <2>1, <2>3, <2>4
  <2>6. IsList(tried) /\ DOMAIN tried = 1..6
    BY <2>5, SeqList
  <2> QED
    BY <2>5, <2>6
<1>3. \A l : l \in hits <=> l \in ToSet(tried) /\ ParsedAs(proof, l) \cap Seen # {}
  BY DEF Finding
<1>4. ProofFields(proof) = IF hits = {} THEN ParsedGeneric(proof)
                           ELSE ParsedAs(proof, Earliest(tried, hits))
  BY DEF ProofFields
<1> HIDE DEF tried, hits
<1>5. CASE proof.fields \cap Seen # {}
  <2>1. own \in hits
    BY <1>1, <1>2, <1>3, <1>5 DEF ToSet
  <2>2. Earliest(tried, hits) = own
    BY <1>2, <2>1, EarliestFacts
  <2> QED
    BY <1>1, <1>4, <2>1, <2>2
<1>6. CASE proof.fields \cap Seen = {}
  <2>1. \A l : ParsedAs(proof, l) \cap Seen = {}
    BY <1>6 DEF ParsedAs
  <2>2. hits = {}
    BY <1>3, <2>1
  <2>3. proof.fields \subseteq AnyOrder
    BY <1>6
  <2> QED
    BY <1>4, <2>2, <2>3 DEF ParsedGeneric
<1> QED
  BY <1>5, <1>6

\* No failure and no answer of the provider fails an endpoint that has a
\* fallback, nor makes it lose what the rules find.
THEOREM FallbacksHold == Spec => []FallbackNeverFails
<1>1. ASSUME IInv PROVE FallbackNeverFails
  <2> SUFFICES ASSUME NEW c \in Calls, call[c].pc = "answered", call[c].q.kind \in Flagged
               PROVE  LET q == call[c].q
                          body == AnsweredBody(c)
                      IN  /\ call[c].answer.code \in {200, 422}
                          /\ call[c].answer.code = 200 =>
                               /\ q.kind = "parse" /\ q.note # <<>> => body # <<>>
                               /\ q.kind = "mindflow" /\ AllowedItems(LocalItems(q), q) # <<>> => body # <<>>
                               /\ q.kind = "decide" /\ body = <<>> =>
                                    \A i \in DOMAIN LocalCards(q) : LocalCards(q)[i].unsafe
                               /\ q.kind = "proof" /\ call[c].answer.by = "rules"
                                    /\ q.proof.sentence = q.proof.locale => q.proof.fields \subseteq body
    BY DEF FallbackNeverFails
  <2> DEFINE q == call[c].q
             a == call[c].answer
             body == AnsweredBody(c)
  <2>1. q \in Queries /\ a.code \in {200, 422} /\ (a.code = 200 => Replied(q, a))
    BY <1>1, AnsweredFacts DEF Codes, Flagged
  <2>2. /\ q.kind = "parse" => body = ParsedDomains(q, a.result)
        /\ q.kind = "mindflow" => body = MindflowItems(q, a.result)
        /\ q.kind = "decide" => body = Decisions(q, a.result)
        /\ q.kind = "proof" => body = ParsedProof(q, a.result)
    BY DEF AnsweredBody, Body
  <2>3. Query(q)
    BY <2>1, QueriesAssumption
  <2> HIDE DEF q, a, body
  <2>4. ASSUME a.code = 200, q.kind = "parse", q.note # <<>> PROVE body # <<>>
    <3>1. CASE SemanticUsed(q, a.result)
      BY <2>2, <2>4, <3>1 DEF ParsedDomains, SemanticUsed
    <3>2. CASE ~SemanticUsed(q, a.result)
      <4> DEFINE clauses == Clauses(q.note)
                 n == Len(clauses)
      <4>1. IsList(clauses) /\ clauses # <<>>
        BY <2>3, <2>4, ClausesFacts DEF Query
      <4>2. DOMAIN body = DOMAIN clauses
        BY <2>2, <2>4, <3>2 DEF ParsedDomains, RuleDomains, DomainsOf, Parsed, ParsedItems
      <4> HIDE DEF clauses
      <4>3. n \in Nat /\ DOMAIN clauses = 1..n /\ clauses = [i \in 1..n |-> clauses[i]]
        BY <4>1, ListFacts
      <4>4. n # 0
        BY <4>1, <4>3
      <4>5. 1 \in DOMAIN body
        BY <4>2, <4>3, <4>4
      <4> QED
        BY <4>5, EmptyList
    <3> QED
      BY <3>1, <3>2
  <2>5. ASSUME a.code = 200, q.kind = "mindflow", AllowedItems(LocalItems(q), q) # <<>>
        PROVE  body # <<>>
    <3>1. CASE q.ai
      BY <2>1, <2>2, <2>5, <3>1, SharedFacts
    <3>2. CASE ~q.ai
      <4>1. body = LocalItems(q)
        BY <2>2, <2>5, <3>2 DEF MindflowItems
      <4> DEFINE items == LocalItems(q)
                 allowed == AllowedItems(items, q)
      <4>2. IsList(allowed) /\ DOMAIN allowed = {}
        <5>1. IsList(items) /\ \A i \in DOMAIN items : items[i].level = "local_only"
          BY <2>1, <2>5, <3>2, InboxFacts
        <5> HIDE DEF items
        <5>2. /\ IsList(allowed)
              /\ \A j \in DOMAIN allowed : /\ allowed[j].level = "ai_allowed"
                                           /\ \E i \in DOMAIN items : allowed[j] = items[i]
          BY <5>1, AllowedFacts
        <5> HIDE DEF allowed
        <5> QED
          BY <5>1, <5>2
      <4>3. \A s : IsList(s) /\ DOMAIN s = {} => s = <<>>
        BY DEF IsList
      <4> QED
        BY <2>5, <4>2, <4>3
    <3> QED
      BY <3>1, <3>2
  <2>6. ASSUME a.code = 200, q.kind = "decide", body = <<>>
        PROVE  \A i \in DOMAIN LocalCards(q) : LocalCards(q)[i].unsafe
    BY <2>1, <2>2, <2>6, DecisionFacts
  <2>7. ASSUME a.code = 200, q.kind = "proof", a.by = "rules", q.proof.sentence = q.proof.locale
        PROVE  q.proof.fields \subseteq body
    <3>1. ~SemanticUsed(q, a.result)
      BY <2>1, <2>7 DEF Replied, SemanticUsed, Usable
    <3>2. body = ProofFields(q.proof)
      BY <2>2, <2>7, <3>1 DEF ParsedProof
    <3> QED
      BY <2>3, <2>7, <3>2, ProofFacts DEF Query
  <2> QED
    BY <2>1, <2>4, <2>5, <2>6, <2>7 DEF q, a, body
<1> QED
  BY <1>1, Invariance, PTL
=============================================================================
