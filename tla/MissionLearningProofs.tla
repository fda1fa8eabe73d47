------------------------- MODULE MissionLearningProofs -------------------------
(***************************************************************************)
(* Proofs about MissionLearning, for any users, requests, candidates and   *)
(* numbers of items and stops.                                             *)
(*                                                                         *)
(* The invariant has two halves.  IInv is about the feedback: what was     *)
(* answered with 200 is in the file, the file is a beginning of the list   *)
(* in memory, and no raw note survives a start.  Screens is about the      *)
(* devices: the prompt with the provider and the plan on a screen are what *)
(* the pipeline makes of the request and of the user's feedback as it was  *)
(* when the plan was asked for.  What a prompt tells, that a plan is       *)
(* reviewed, sorted and honest about its source, under which key feedback  *)
(* is filed and what a rejection does to a score are then lemmas about the *)
(* operators of LearningMemory and MissionGraph, by way of ListProofs.     *)
(***************************************************************************)
EXTENDS MissionLearning, ListProofs

Holds(s) == \A a \in acked : \E i \in DOMAIN s : s[i].n = a.n /\ s[i].user = a.user
NoNotes(s) == \A i \in DOMAIN s : ~s[i].note
Starts(s, t) == Len(s) <= Len(t) /\ \A i \in 1..Len(s) : s[i] = t[i]

\* The file holds what was acknowledged even while the process is down; the
\* list in memory does while it runs, because it was loaded from that file.
IInv ==
    /\ ItemList(items) /\ ItemList(file)
    /\ up \in BOOLEAN /\ forgot \in BOOLEAN
    /\ ~forgot => Holds(file)
    /\ up /\ ~forgot => Holds(items) /\ Starts(file, items) /\ NoNotes(file)
    /\ up => NoNotes(items)

\* A plan asked for: a request, and the feedback it was prepared with, which
\* is its user's and has all of it that was acknowledged.
Prepared(s, u, forgets) ==
    /\ Request(s.req) /\ ItemList(s.mine)
    /\ \A i \in DOMAIN s.mine : s.mine[i].user = u
    /\ ~forgets => \A a \in s.known : a.user = u => \E i \in DOMAIN s.mine : s.mine[i].n = a.n

\* What a device may be at: no plan, one with the provider, or one answered.
OnScreen(s, u, forgets) ==
    \/ s.pc = "none"
    \/ s.pc = "waiting" /\ Prepared(s, u, forgets) /\ s.req.ai /\ s.prompt = Prompt(s.req, s.mine)
    \/ /\ s.pc = "shown" /\ Prepared(s, u, forgets) /\ RawAnswer(s.raw)
       /\ s.answer = BuildResponse(s.req, s.raw, s.mine, FALSE)

Screens == DOMAIN screen = Users /\ \A u \in Users : OnScreen(screen[u], u, forgot)

LInv == IInv /\ Screens

-----------------------------------------------------------------------------
LEMMA SetSeq ==
    ASSUME NEW S, IsFiniteSet(S)
    PROVE  SetToSeq(S) \in Seq(S)
<1> DEFINE n == Cardinality(S)
<1>1. n \in Nat /\ ExistsBijection(1..n, S)
  BY FS_CardinalityType
<1>2. PICK f : f \in [1..n -> S] /\ \A a, b \in 1..n : f[a] = f[b] => a = b
  BY <1>1 DEF ExistsBijection, Bijection, Injection, IsInjective
<1>3. IsInjective(f)
  BY <1>2 DEF IsInjective
<1>4. SetToSeq(S) \in [1..n -> S]
  BY <1>2, <1>3 DEF SetToSeq
<1> HIDE DEF n
<1> QED
  BY <1>1, <1>4

LEMMA ActiveFinite ==
    ASSUME NEW req, Request(req)
    PROVE  IsFiniteSet(ActiveDomains(req))
<1> DEFINE A == AllowedEvents(req)
           D == ActiveDomains(req)
           f == [e \in A |-> e.domain]
<1>1. IsFiniteSet(A)
  <2>1. A \subseteq req.events
    BY DEF AllowedEvents
  <2> HIDE DEF A
  <2> QED
    BY <2>1, FS_Subset DEF Request
<1>2. f \in Surjection(A, D)
  BY DEF Surjection, ActiveDomains
<1> HIDE DEF A, D, f
<1>3. IsFiniteSet(D)
  BY <1>1, <1>2, FS_Surjection
<1> QED
  BY <1>3 DEF D

\* The domains a risk may name.
RiskDomains(req) == {"finance", "pantry", "task", "habit", "wardrobe"} \cup ActiveDomains(req)
RiskSet(req) == [severity : Int, domains : Seq(RiskDomains(req))]

LEMMA RisksType ==
    ASSUME NEW req, Request(req)
    PROVE  Risks(req) \in Seq(RiskSet(req))
<1> DEFINE d == ActiveDomains(req)
           D == RiskDomains(req)
           R == RiskSet(req)
<1>1. SetToSeq(d) \in Seq(D)
  <2>1. SetToSeq(d) \in Seq(d)
    BY ActiveFinite, SetSeq
  <2>2. d \subseteq D
    BY DEF RiskDomains
  <2> HIDE DEF d, D
  <2> QED
    BY <2>1, <2>2
<1>2. R = [severity : Int, domains : Seq(D)]
  BY DEF RiskSet
<1> DEFINE Listed(holds, r) == IF holds THEN <<r>> ELSE <<>>
<1> DEFINE fp == <<"finance", "pantry">>
           th == <<"task", "habit">>
           w  == <<"wardrobe">>
<1>3. fp \in Seq(D) /\ th \in Seq(D) /\ w \in Seq(D)
  BY DEF RiskDomains
<1> DEFINE ra == [severity |-> 1800, domains |-> fp]
           rb == [severity |-> 1800, domains |-> th]
           rc == [severity |-> 800, domains |-> w]
           ro == [severity |-> 2800, domains |-> SetToSeq(d)]
           a == Listed({"finance", "pantry"} \subseteq d, ra)
           b == Listed({"task", "habit"} \subseteq d, rb)
           c == Listed(\E e \in AllowedEvents(req) : e.type = "purchase_intention", rc)
           o == Listed(DayState(req) = "overloaded", ro)
<1>4. \A x, r : r \in R => Listed(x, r) \in Seq(R)
  <2> HIDE DEF R
  <2> QED
    OBVIOUS
<1>5. a \in Seq(R) /\ b \in Seq(R) /\ c \in Seq(R) /\ o \in Seq(R)
  <2> HIDE DEF D, d, fp, th, w
  <2>1. ra \in R /\ rb \in R /\ rc \in R /\ ro \in R
    BY <1>1, <1>2, <1>3
  <2> HIDE DEF ra, rb, rc, ro, R
  <2> QED
    BY <2>1
<1> DEFINE all == a \o b \o c \o o
<1>6. Risks(req) = FirstOf(all, 3)
  BY DEF Risks
<1> HIDE DEF a, b, c, o, R
<1>7. all \in Seq(R)
  BY <1>5
<1> HIDE DEF all
<1>8. Risks(req) \in Seq(R)
  BY <1>6, <1>7, FirstFacts
<1> QED
  BY <1>8 DEF R

-----------------------------------------------------------------------------
LEMMA ThoseItems ==
    ASSUME NEW s, ItemList(s), NEW K
    PROVE  /\ ItemList(Those(s, K))
           /\ \A j \in DOMAIN Those(s, K) : \E i \in DOMAIN s : i \in K /\ Those(s, K)[j] = s[i]
           /\ \A i \in DOMAIN s : i \in K => \E j \in DOMAIN Those(s, K) : Those(s, K)[j] = s[i]
<1> DEFINE S == {s[i] : i \in DOMAIN s}
           t == Those(s, K)
<1>1. s \in Seq(S) /\ \A i \in DOMAIN s : Item(s[i])
  BY DEF ItemList, IsList
<1> HIDE DEF S
<1>2. /\ t \in Seq(S)
      /\ \A j \in DOMAIN t : \E i \in DOMAIN s : i \in K /\ t[j] = s[i]
      /\ \A i \in DOMAIN s : i \in K => \E j \in DOMAIN t : t[j] = s[i]
  BY <1>1, ThoseFacts
<1> HIDE DEF t
<1>3. IsList(t)
  BY <1>2, SeqList
<1>4. ItemList(t)
  BY <1>1, <1>2, <1>3 DEF ItemList
<1> QED
  BY <1>2, <1>4 DEF t

LEMMA WeightType == \A x \in Statuses : Weight(x) \in Int
BY DEF Statuses, Weight

LEMMA CountType ==
    ASSUME NEW s, IsList(s), NEW K \in SUBSET DOMAIN s
    PROVE  Cardinality(K) \in Nat
<1>1. Len(s) \in Nat /\ DOMAIN s = 1..Len(s)
  BY ListFacts
<1>2. IsFiniteSet(DOMAIN s)
  BY <1>1, FS_Interval
<1> QED
  BY <1>2, FS_Subset, FS_CardinalityType

\* The weights of a list of items.
Weights(s) == [i \in DOMAIN s |-> Weight(s[i].status)]

LEMMA WeightsType ==
    ASSUME NEW s, ItemList(s)
    PROVE  Weights(s) \in Seq(Int) /\ Len(Weights(s)) = Len(s) /\ NetScore(s) = SumSeq(Weights(s))
<1>1. Len(s) \in Nat /\ DOMAIN s = 1..Len(s) /\ \A i \in DOMAIN s : s[i].status \in Statuses
  BY ListFacts DEF ItemList, Item
<1>2. \A i \in DOMAIN s : Weight(s[i].status) \in Int
  BY <1>1, WeightType
<1>3. Weights(s) \in [1..Len(s) -> Int]
  BY <1>1, <1>2 DEF Weights
<1>4. Weights(s) \in Seq(Int) /\ Len(Weights(s)) = Len(s)
  BY <1>1, <1>3
<1> QED
  BY <1>4 DEF NetScore, Weights

LEMMA CountsType ==
    ASSUME NEW s, ItemList(s)
    PROVE  /\ \A x : CountStatus(s, x) \in Nat
           /\ Positive(s) \in Nat /\ Negative(s) \in Nat /\ Repeated(s) \in Nat
           /\ NetScore(s) \in Int
<1>1. IsList(s)
  BY DEF ItemList
<1>2. ASSUME NEW x PROVE CountStatus(s, x) \in Nat
  <2>1. {i \in DOMAIN s : s[i].status = x} \in SUBSET DOMAIN s
    OBVIOUS
  <2> QED
    BY <1>1, <2>1, CountType DEF CountStatus
<1>3. Positive(s) \in Nat
  <2>1. {i \in DOMAIN s : Weight(s[i].status) > 0} \in SUBSET DOMAIN s
    OBVIOUS
  <2> QED
    BY <1>1, <2>1, CountType DEF Positive
<1>4. Negative(s) \in Nat
  <2>1. {i \in DOMAIN s : Weight(s[i].status) < 0} \in SUBSET DOMAIN s
    OBVIOUS
  <2> QED
    BY <1>1, <2>1, CountType DEF Negative
<1>5. Repeated(s) \in Nat
  <2>1. {i \in DOMAIN s : s[i].repeated} \in SUBSET DOMAIN s
    OBVIOUS
  <2> QED
    BY <1>1, <2>1, CountType DEF Repeated
<1>6. NetScore(s) \in Int
  BY WeightsType, SumType
<1> QED
  BY <1>2, <1>3, <1>4, <1>5, <1>6

LEMMA AppendItem ==
    ASSUME NEW s, ItemList(s), NEW x, Item(x)
    PROVE  /\ ItemList(Append(s, x))
           /\ Len(Append(s, x)) = Len(s) + 1 /\ Len(s) \in Nat
           /\ DOMAIN s = 1..Len(s) /\ DOMAIN Append(s, x) = 1..(Len(s) + 1)
           /\ Append(s, x)[Len(s) + 1] = x
           /\ \A i \in 1..Len(s) : Append(s, x)[i] = s[i]
<1> DEFINE t == Append(s, x)
<1>1. /\ IsList(t) /\ Len(t) = Len(s) + 1 /\ Len(s) \in Nat
      /\ DOMAIN s = 1..Len(s) /\ DOMAIN t = 1..(Len(s) + 1)
      /\ t[Len(s) + 1] = x /\ \A i \in 1..Len(s) : t[i] = s[i]
  BY AppendFacts DEF ItemList
<1> HIDE DEF t
<1>2. \A i \in DOMAIN t : Item(t[i])
  <2> SUFFICES ASSUME NEW i \in 1..(Len(s) + 1) PROVE Item(t[i])
    BY <1>1
  <2>1. CASE i = Len(s) + 1
    BY <1>1, <2>1
  <2>2. CASE i \in 1..Len(s)
    BY <1>1, <2>2 DEF ItemList
  <2> QED
    BY <1>1, <2>1, <2>2
<1>3. ItemList(t)
  BY <1>1, <1>2 DEF ItemList
<1> QED
  BY <1>1, <1>3 DEF t

-----------------------------------------------------------------------------
\* The counts a score rises with are those of s, the others at least those.
Lower(s, t) ==
    /\ \A x \in {"useful", "accepted", "completed"} : CountStatus(t, x) = CountStatus(s, x)
    /\ CountStatus(t, "rejected") >= CountStatus(s, "rejected")
    /\ Positive(t) = Positive(s) /\ Negative(t) >= Negative(s)
    /\ NetScore(t) <= NetScore(s)

LEMMA LowerSelf == ASSUME NEW s, ItemList(s) PROVE Lower(s, s)
<1>1. /\ CountStatus(s, "rejected") \in Nat /\ Negative(s) \in Nat /\ NetScore(s) \in Int
  BY CountsType
<1> QED
  BY <1>1 DEF Lower

LEMMA AppendLowers ==
    ASSUME NEW s, ItemList(s), NEW x, Item(x), x.status = "rejected"
    PROVE  Lower(s, Append(s, x))
<1> DEFINE t == Append(s, x)
           n == Len(s)
<1>1. /\ ItemList(t) /\ n \in Nat /\ DOMAIN s = 1..n /\ DOMAIN t = 1..(n + 1)
      /\ t[n + 1] = x /\ \A i \in 1..n : t[i] = s[i]
  BY AppendItem
<1>2. Weights(t) = Append(Weights(s), -90)
  <2>1. Weights(s) \in Seq(Int) /\ Len(Weights(s)) = n
    BY WeightsType
  <2>2. \A i \in 1..n : Weights(t)[i] = Weights(s)[i]
    BY <1>1 DEF Weights
  <2>3. n + 1 \in 1..(n + 1) /\ Weights(t)[n + 1] = -90
    BY <1>1 DEF Weights, Weight
  <2>4. Weights(t) \in Seq(Int) /\ Len(Weights(t)) = n + 1
    <3> HIDE DEF t
    <3>1. Weights(t) \in Seq(Int) /\ Len(Weights(t)) = Len(t) /\ Len(t) = n + 1
      BY <1>1, WeightsType, ListFacts DEF ItemList
    <3> QED
      BY <3>1
  <2> HIDE DEF t, n
  <2>5. \A i \in 1..(n + 1) : Weights(t)[i] = Append(Weights(s), -90)[i]
    BY <1>1, <2>1, <2>2, <2>3
  <2> QED
    BY <1>1, <2>1, <2>4, <2>5
<1> HIDE DEF t, n
<1>3. NetScore(t) <= NetScore(s)
  <2>1. Weights(s) \in Seq(Int) /\ NetScore(s) = SumSeq(Weights(s)) /\ NetScore(t) = SumSeq(Weights(t))
    BY <1>1, WeightsType
  <2>2. SumSeq(Weights(t)) = SumSeq(Weights(s)) + (-90) /\ SumSeq(Weights(s)) \in Int
    BY <1>2, <2>1, SumAppend, SumType
  <2> QED
    BY <2>1, <2>2
<1>4. /\ n + 1 \in DOMAIN t /\ Weight(t[n + 1].status) = -90 /\ t[n + 1].status = "rejected"
      /\ \A i \in 1..n : i \in DOMAIN t
  BY <1>1 DEF Weight
<1>5. ASSUME NEW y
      PROVE  CountStatus(t, y) = CountStatus(s, y) + (IF y = "rejected" THEN 1 ELSE 0)
  <2> DEFINE K == {i \in DOMAIN s : s[i].status = y}
             L == {i \in DOMAIN t : t[i].status = y}
  <2>1. K \in SUBSET (1..n) /\ L \in SUBSET (1..(n + 1)) /\ \A i \in 1..n : i \in K <=> i \in L
    BY <1>1, <1>4
  <2>2. n + 1 \in L <=> y = "rejected"
    BY <1>4
  <2>3. CountStatus(t, y) = Cardinality(L) /\ CountStatus(s, y) = Cardinality(K)
    BY DEF CountStatus
  <2> HIDE DEF K, L
  <2>4. Cardinality(L) = Cardinality(K) + (IF n + 1 \in L THEN 1 ELSE 0)
    BY <1>1, <2>1, CountGrows
  <2> QED
    BY <2>2, <2>3, <2>4
<1>6. Positive(t) = Positive(s)
  <2> DEFINE K == {i \in DOMAIN s : Weight(s[i].status) > 0}
             L == {i \in DOMAIN t : Weight(t[i].status) > 0}
  <2>1. K \in SUBSET (1..n) /\ L \in SUBSET (1..(n + 1)) /\ \A i \in 1..n : i \in K <=> i \in L
    BY <1>1, <1>4
  <2>2. n + 1 \notin L
    BY <1>4
  <2>3. Positive(t) = Cardinality(L) /\ Positive(s) = Cardinality(K)
    BY DEF Positive
  <2> HIDE DEF K, L
  <2>4. Cardinality(K) \in Nat /\ Cardinality(L) = Cardinality(K) + (IF n + 1 \in L THEN 1 ELSE 0)
    BY <1>1, <2>1, CountGrows
  <2> QED
    BY <2>2, <2>3, <2>4
<1>7. Negative(t) = Negative(s) + 1
  <2> DEFINE K == {i \in DOMAIN s : Weight(s[i].status) < 0}
             L == {i \in DOMAIN t : Weight(t[i].status) < 0}
  <2>1. K \in SUBSET (1..n) /\ L \in SUBSET (1..(n + 1)) /\ \A i \in 1..n : i \in K <=> i \in L
    BY <1>1, <1>4
  <2>2. n + 1 \in L
    BY <1>4
  <2>3. Negative(t) = Cardinality(L) /\ Negative(s) = Cardinality(K)
    BY DEF Negative
  <2> HIDE DEF K, L
  <2>4. Cardinality(K) \in Nat /\ Cardinality(L) = Cardinality(K) + (IF n + 1 \in L THEN 1 ELSE 0)
    BY <1>1, <2>1, CountGrows
  <2> QED
    BY <2>2, <2>3, <2>4
<1>8. (\A y : CountStatus(s, y) \in Nat) /\ Negative(s) \in Nat
  BY CountsType
<1>9. Lower(s, t)
  <2>1. CountStatus(t, "rejected") = CountStatus(s, "rejected") + 1
    BY <1>5
  <2>2. \A y \in {"useful", "accepted", "completed"} : CountStatus(t, y) = CountStatus(s, y)
    BY <1>5, <1>8
  <2>3. CountStatus(t, "rejected") >= CountStatus(s, "rejected") /\ Negative(t) >= Negative(s)
    BY <1>7, <1>8, <2>1
  <2> QED
    BY <1>3, <1>6, <2>2, <2>3 DEF Lower
<1> QED
  BY <1>9 DEF t

LEMMA SelectionLowers ==
    ASSUME NEW m, ItemList(m), NEW x, Item(x), x.status = "rejected", NEW K, NEW L,
           \A i \in 1..Len(m) : i \in K <=> i \in L
    PROVE  Lower(Those(m, K), Those(Append(m, x), L))
<1> DEFINE s == Those(m, K)
           t == Those(Append(m, x), L)
<1>1. t = IF Len(m) + 1 \in L THEN Append(s, x) ELSE s
  <2> DEFINE R == {m[i] : i \in DOMAIN m}
             S == R \cup {x}
  <2>1. m \in Seq(R) /\ R \subseteq S /\ x \in S
    BY DEF ItemList, IsList
  <2> HIDE DEF R, S
  <2>2. m \in Seq(S)
    BY <2>1
  <2> QED
    BY <2>1, <2>2, ThoseAppend
<1>2. ItemList(s)
  BY ThoseItems
<1> HIDE DEF s, t
<1>3. Lower(s, s) /\ Lower(s, Append(s, x))
  BY <1>2, LowerSelf, AppendLowers
<1>4. Lower(s, t)
  BY <1>1, <1>3
<1> QED
  BY <1>4 DEF s, t

\* What the feedback on a domain adds to a score.
DomainTerm(m, d) ==
    100 * (CountStatus(OfDomain(m, d), "useful") + CountStatus(OfDomain(m, d), "completed"))
      - 200 * CountStatus(OfDomain(m, d), "rejected")
DomainTerms(c, m) == [i \in DOMAIN c.targets |-> DomainTerm(m, c.targets[i])]

IdTerm(s) ==
    500 * CountStatus(s, "useful") + 600 * CountStatus(s, "completed")
      + 300 * CountStatus(s, "accepted") - 800 * CountStatus(s, "rejected")
KeyTerm(s) == 600 * Positive(s) - 700 * Negative(s) + 5 * NetScore(s)
TypeTerm(s) == 100 * Positive(s) - 150 * Negative(s) + NetScore(s)

LEMMA DeltaForm ==
    ASSUME NEW c, NEW m, ItemList(m), Suggestion(c)
    PROVE  /\ FeedbackDelta(c, m) =
                IdTerm(OfSuggestion(m, c.id)) + KeyTerm(OfKey(m, KeyOf(c)))
                  + SumSeq(DomainTerms(c, m)) + TypeTerm(OfType(m, c.type))
           /\ IdTerm(OfSuggestion(m, c.id)) \in Int /\ KeyTerm(OfKey(m, KeyOf(c))) \in Int
           /\ TypeTerm(OfType(m, c.type)) \in Int
           /\ DomainTerms(c, m) \in Seq(Int) /\ Len(DomainTerms(c, m)) = Len(c.targets)
           /\ SumSeq(DomainTerms(c, m)) \in Int
<1>1. /\ ItemList(OfSuggestion(m, c.id)) /\ ItemList(OfKey(m, KeyOf(c))) /\ ItemList(OfType(m, c.type))
      /\ \A d : ItemList(OfDomain(m, d))
  BY ThoseItems DEF OfSuggestion, OfKey, OfType, OfDomain
<1>2. IdTerm(OfSuggestion(m, c.id)) \in Int
  <2>1. \A y : CountStatus(OfSuggestion(m, c.id), y) \in Nat
    BY <1>1, CountsType
  <2> QED
    BY <2>1 DEF IdTerm
<1>3. KeyTerm(OfKey(m, KeyOf(c))) \in Int
  <2>1. /\ Positive(OfKey(m, KeyOf(c))) \in Nat /\ Negative(OfKey(m, KeyOf(c))) \in Nat
        /\ NetScore(OfKey(m, KeyOf(c))) \in Int
    BY <1>1, CountsType
  <2> QED
    BY <2>1 DEF KeyTerm
<1>4. TypeTerm(OfType(m, c.type)) \in Int
  <2>1. /\ Positive(OfType(m, c.type)) \in Nat /\ Negative(OfType(m, c.type)) \in Nat
        /\ NetScore(OfType(m, c.type)) \in Int
    BY <1>1, CountsType
  <2> QED
    BY <2>1 DEF TypeTerm
<1>5. \A d : DomainTerm(m, d) \in Int
  <2> TAKE d
  <2>1. \A y : CountStatus(OfDomain(m, d), y) \in Nat
    BY <1>1, CountsType
  <2> QED
    BY <2>1 DEF DomainTerm
<1>6. DomainTerms(c, m) \in Seq(Int) /\ Len(DomainTerms(c, m)) = Len(c.targets)
  <2>1. Len(c.targets) \in Nat /\ DOMAIN c.targets = 1..Len(c.targets)
    BY ListFacts DEF Suggestion
  <2>2. DomainTerms(c, m) \in [1..Len(c.targets) -> Int]
    BY <1>5, <2>1 DEF DomainTerms
  <2> QED
    BY <2>1, <2>2
<1>7. SumSeq(DomainTerms(c, m)) \in Int
  BY <1>6, SumType
<1>8. FeedbackDelta(c, m) =
        500 * CountStatus(OfSuggestion(m, c.id), "useful") + 600 * CountStatus(OfSuggestion(m, c.id), "completed")
          + 300 * CountStatus(OfSuggestion(m, c.id), "accepted") - 800 * CountStatus(OfSuggestion(m, c.id), "rejected")
          + 600 * Positive(OfKey(m, KeyOf(c))) - 700 * Negative(OfKey(m, KeyOf(c))) + 5 * NetScore(OfKey(m, KeyOf(c)))
          + SumSeq(DomainTerms(c, m))
          + 100 * Positive(OfType(m, c.type)) - 150 * Negative(OfType(m, c.type)) + NetScore(OfType(m, c.type))
  BY DEF FeedbackDelta, DomainTerms, DomainTerm
<1>9. FeedbackDelta(c, m) =
        IdTerm(OfSuggestion(m, c.id)) + KeyTerm(OfKey(m, KeyOf(c)))
          + SumSeq(DomainTerms(c, m)) + TypeTerm(OfType(m, c.type))
  <2>1. \A y : CountStatus(OfSuggestion(m, c.id), y) \in Nat
    BY <1>1, CountsType
  <2>2. /\ Positive(OfKey(m, KeyOf(c))) \in Nat /\ Negative(OfKey(m, KeyOf(c))) \in Nat
        /\ NetScore(OfKey(m, KeyOf(c))) \in Int
    BY <1>1, CountsType
  <2>3. /\ Positive(OfType(m, c.type)) \in Nat /\ Negative(OfType(m, c.type)) \in Nat
        /\ NetScore(OfType(m, c.type)) \in Int
    BY <1>1, CountsType
  <2> QED
    BY <1>7, <1>8, <2>1, <2>2, <2>3 DEF IdTerm, KeyTerm, TypeTerm
<1> QED
  BY <1>2, <1>3, <1>4, <1>6, <1>7, <1>9

LEMMA DeltaType ==
    ASSUME NEW c, NEW m, ItemList(m), Suggestion(c)
    PROVE  FeedbackDelta(c, m) \in Int
BY DeltaForm

LEMMA TermsFall ==
    ASSUME NEW s, NEW t, ItemList(s), ItemList(t), Lower(s, t)
    PROVE  IdTerm(t) <= IdTerm(s) /\ KeyTerm(t) <= KeyTerm(s) /\ TypeTerm(t) <= TypeTerm(s)
<1>1. /\ (\A y : CountStatus(s, y) \in Nat /\ CountStatus(t, y) \in Nat)
      /\ Positive(s) \in Nat /\ Positive(t) \in Nat /\ Negative(s) \in Nat /\ Negative(t) \in Nat
      /\ NetScore(s) \in Int /\ NetScore(t) \in Int
  BY CountsType
<1>2. /\ CountStatus(t, "useful") = CountStatus(s, "useful")
      /\ CountStatus(t, "accepted") = CountStatus(s, "accepted")
      /\ CountStatus(t, "completed") = CountStatus(s, "completed")
      /\ CountStatus(t, "rejected") >= CountStatus(s, "rejected")
      /\ Positive(t) = Positive(s) /\ Negative(t) >= Negative(s) /\ NetScore(t) <= NetScore(s)
  BY DEF Lower
<1>3. IdTerm(t) <= IdTerm(s)
  BY <1>1, <1>2 DEF IdTerm
<1>4. KeyTerm(t) <= KeyTerm(s)
  BY <1>1, <1>2 DEF KeyTerm
<1>5. TypeTerm(t) <= TypeTerm(s)
  BY <1>1, <1>2 DEF TypeTerm
<1> QED
  BY <1>3, <1>4, <1>5

\* A rejection raises no suggestion's feedback delta.
LEMMA DeltaFalls ==
    ASSUME NEW c, NEW m, ItemList(m), Suggestion(c), NEW x, Item(x), x.status = "rejected"
    PROVE  FeedbackDelta(c, Append(m, x)) <= FeedbackDelta(c, m)
<1> DEFINE r == Append(m, x)
<1>1. /\ ItemList(r) /\ Len(m) \in Nat /\ DOMAIN m = 1..Len(m) /\ DOMAIN r = 1..(Len(m) + 1)
      /\ \A i \in 1..Len(m) : i \in DOMAIN r /\ r[i] = m[i]
  <2>1. \A i \in 1..Len(m) : i \in 1..(Len(m) + 1)
    BY AppendItem
  <2> QED
    BY <2>1, AppendItem
<1>2. /\ Lower(OfSuggestion(m, c.id), OfSuggestion(r, c.id))
      /\ Lower(OfKey(m, KeyOf(c)), OfKey(r, KeyOf(c)))
      /\ Lower(OfType(m, c.type), OfType(r, c.type))
      /\ \A d : Lower(OfDomain(m, d), OfDomain(r, d))
  <2>1. Lower(OfSuggestion(m, c.id), OfSuggestion(r, c.id))
    <3> DEFINE K == {i \in DOMAIN m : m[i].id = c.id}
               L == {i \in DOMAIN r : r[i].id = c.id}
    <3>1. \A i \in 1..Len(m) : i \in K <=> i \in L
      BY <1>1
    <3> HIDE DEF K, L
    <3>2. Lower(Those(m, K), Those(r, L))
      BY <3>1, SelectionLowers
    <3> QED
      BY <3>2 DEF OfSuggestion, K, L
  <2>2. Lower(OfKey(m, KeyOf(c)), OfKey(r, KeyOf(c)))
    <3> DEFINE K == {i \in DOMAIN m : m[i].key = KeyOf(c)}
               L == {i \in DOMAIN r : r[i].key = KeyOf(c)}
    <3>1. \A i \in 1..Len(m) : i \in K <=> i \in L
      BY <1>1
    <3> HIDE DEF K, L
    <3>2. Lower(Those(m, K), Those(r, L))
      BY <3>1, SelectionLowers
    <3> QED
      BY <3>2 DEF OfKey, K, L
  <2>3. Lower(OfType(m, c.type), OfType(r, c.type))
    <3> DEFINE K == {i \in DOMAIN m : m[i].type = c.type}
               L == {i \in DOMAIN r : r[i].type = c.type}
    <3>1. \A i \in 1..Len(m) : i \in K <=> i \in L
      BY <1>1
    <3> HIDE DEF K, L
    <3>2. Lower(Those(m, K), Those(r, L))
      BY <3>1, SelectionLowers
    <3> QED
      BY <3>2 DEF OfType, K, L
  <2>4. ASSUME NEW d PROVE Lower(OfDomain(m, d), OfDomain(r, d))
    <3> DEFINE K == {i \in DOMAIN m : d \in NormalDomains(m[i].targets)}
               L == {i \in DOMAIN r : d \in NormalDomains(r[i].targets)}
    <3>1. \A i \in 1..Len(m) : i \in K <=> i \in L
      BY <1>1
    <3> HIDE DEF K, L
    <3>2. Lower(Those(m, K), Those(r, L))
      BY <3>1, SelectionLowers
    <3> QED
      BY <3>2 DEF OfDomain, K, L
  <2> QED
    BY <2>1, <2>2, <2>3, <2>4
<1> HIDE DEF r
<1>3. /\ ItemList(OfSuggestion(m, c.id)) /\ ItemList(OfSuggestion(r, c.id))
      /\ ItemList(OfKey(m, KeyOf(c))) /\ ItemList(OfKey(r, KeyOf(c)))
      /\ ItemList(OfType(m, c.type)) /\ ItemList(OfType(r, c.type))
      /\ \A d : ItemList(OfDomain(m, d)) /\ ItemList(OfDomain(r, d))
  BY <1>1, ThoseItems DEF OfSuggestion, OfKey, OfType, OfDomain
<1>4. IdTerm(OfSuggestion(r, c.id)) <= IdTerm(OfSuggestion(m, c.id))
  BY <1>2, <1>3, TermsFall
<1>5. KeyTerm(OfKey(r, KeyOf(c))) <= KeyTerm(OfKey(m, KeyOf(c)))
  BY <1>2, <1>3, TermsFall
<1>6. TypeTerm(OfType(r, c.type)) <= TypeTerm(OfType(m, c.type))
  BY <1>2, <1>3, TermsFall
<1>7. ASSUME NEW d PROVE DomainTerm(r, d) <= DomainTerm(m, d)
  <2>1. /\ CountStatus(OfDomain(r, d), "useful") = CountStatus(OfDomain(m, d), "useful")
        /\ CountStatus(OfDomain(r, d), "completed") = CountStatus(OfDomain(m, d), "completed")
        /\ CountStatus(OfDomain(r, d), "rejected") >= CountStatus(OfDomain(m, d), "rejected")
    BY <1>2 DEF Lower
  <2>2. \A y : CountStatus(OfDomain(m, d), y) \in Nat /\ CountStatus(OfDomain(r, d), y) \in Nat
    BY <1>3, CountsType
  <2> QED
    BY <2>1, <2>2 DEF DomainTerm
<1>8. SumSeq(DomainTerms(c, r)) <= SumSeq(DomainTerms(c, m))
  <2>1. /\ DomainTerms(c, m) \in Seq(Int) /\ Len(DomainTerms(c, m)) = Len(c.targets)
        /\ DomainTerms(c, r) \in Seq(Int) /\ Len(DomainTerms(c, r)) = Len(c.targets)
    BY <1>1, DeltaForm
  <2>2. \A i \in 1..Len(c.targets) : DomainTerms(c, r)[i] <= DomainTerms(c, m)[i]
    <3>1. DOMAIN c.targets = 1..Len(c.targets)
      BY ListFacts DEF Suggestion
    <3> QED
      BY <1>7, <3>1 DEF DomainTerms
  <2> QED
    BY <2>1, <2>2, SumMonotone
<1>9. /\ FeedbackDelta(c, m) =
            IdTerm(OfSuggestion(m, c.id)) + KeyTerm(OfKey(m, KeyOf(c)))
              + SumSeq(DomainTerms(c, m)) + TypeTerm(OfType(m, c.type))
      /\ FeedbackDelta(c, r) =
            IdTerm(OfSuggestion(r, c.id)) + KeyTerm(OfKey(r, KeyOf(c)))
              + SumSeq(DomainTerms(c, r)) + TypeTerm(OfType(r, c.type))
  BY <1>1, DeltaForm
<1>10. /\ IdTerm(OfSuggestion(m, c.id)) \in Int /\ KeyTerm(OfKey(m, KeyOf(c))) \in Int
       /\ TypeTerm(OfType(m, c.type)) \in Int /\ SumSeq(DomainTerms(c, m)) \in Int
       /\ IdTerm(OfSuggestion(r, c.id)) \in Int /\ KeyTerm(OfKey(r, KeyOf(c))) \in Int
       /\ TypeTerm(OfType(r, c.type)) \in Int /\ SumSeq(DomainTerms(c, r)) \in Int
  BY <1>1, DeltaForm
<1>11. FeedbackDelta(c, r) <= FeedbackDelta(c, m)
  BY <1>4, <1>5, <1>6, <1>8, <1>9, <1>10
<1> QED
  BY <1>11 DEF r

-----------------------------------------------------------------------------
LEMMA NoveltyRange ==
    ASSUME NEW c, NEW m, ItemList(m)
    PROVE  Novelty(c, m) \in Int /\ Novelty(c, m) >= 1600
BY DEF Novelty

LEMMA UnitRange ==
    ASSUME NEW x \in Int
    PROVE  UnitScore(x) \in Int /\ \A y \in Int : x <= y => UnitScore(x) <= UnitScore(y)
BY DEF UnitScore, Least

\* What a score owes to the suggestion and the request alone.
Based(k, c, req) ==
    \A b \in Int : \A m : Novelty(c, m) \in Int =>
        Score(c, b, req, m) =
          UnitScore((k + 15 * UnitScore(5000 + (b * 5) \div 4) + 10 * Novelty(c, m)) \div 100)

LEMMA ScoreForm ==
    ASSUME NEW c, Suggestion(c), NEW req, Request(req)
    PROVE  \E k \in Int : Based(k, c, req)
<1> DEFINE risks == Risks(req)
           K == {i \in DOMAIN risks : ToSet(risks[i].domains) \cap ToSet(c.targets) # {}}
           matched == Those(risks, K)
           confs == [i \in DOMAIN c.evidence |-> c.evidence[i].conf]
           strength == IF c.evidence = <<>> THEN 0 ELSE SumSeq(confs) \div Len(c.evidence)
           severities == [i \in DOMAIN matched |-> matched[i].severity]
           day == DayState(req)
           impact == UnitScore(4200 + (strength * 22) \div 100
                        + (Least(Len(c.targets), 3) - 1) * 800 + Least(Len(matched), 3) * 800)
           urgency == UnitScore(3200 + SumSeq(severities)
                        + (IF day = "overloaded" THEN 1200 ELSE IF day = "recovery" THEN 800 ELSE 0))
<1>1. matched \in Seq(RiskSet(req))
  <2>1. risks \in Seq(RiskSet(req))
    BY RisksType
  <2> HIDE DEF risks, K
  <2> QED
    BY <2>1, ThoseFacts
<1>2. SumSeq(severities) \in Int /\ Len(matched) \in Nat
  <2> HIDE DEF matched
  <2>1. Len(matched) \in Nat /\ DOMAIN matched = 1..Len(matched)
    BY <1>1
  <2>2. \A i \in 1..Len(matched) : matched[i].severity \in Int
    <3>1. \A i \in 1..Len(matched) : matched[i] \in RiskSet(req)
      BY <1>1
    <3>2. \A r \in RiskSet(req) : r.severity \in Int
      BY DEF RiskSet
    <3> QED
      BY <3>1, <3>2
  <2>3. severities \in Seq(Int)
    BY <2>1, <2>2
  <2> HIDE DEF severities
  <2> QED
    BY <2>1, <2>3, SumType
<1>3. strength \in Int /\ Len(c.targets) \in Nat
  <2>1. Len(c.evidence) \in Nat /\ DOMAIN c.evidence = 1..Len(c.evidence) /\ Len(c.targets) \in Nat
    BY ListFacts DEF Suggestion
  <2>2. \A i \in 1..Len(c.evidence) : c.evidence[i].conf \in Int
    BY <2>1 DEF Suggestion
  <2>3. confs \in Seq(Int)
    BY <2>1, <2>2
  <2>4. c.evidence # <<>> => Len(c.evidence) # 0
    <3>1. c.evidence = [i \in 1..Len(c.evidence) |-> c.evidence[i]]
      BY ListFacts DEF Suggestion
    <3> QED
      BY <3>1
  <2> HIDE DEF confs
  <2>5. SumSeq(confs) \in Int
    BY <2>3, SumType
  <2> QED
    BY <2>1, <2>4, <2>5
<1>4. impact \in Int
  <2> HIDE DEF strength, matched
  <2>1. Least(Len(c.targets), 3) \in Int /\ Least(Len(matched), 3) \in Int
    BY <1>2, <1>3 DEF Least
  <2>2. 4200 + (strength * 22) \div 100 + (Least(Len(c.targets), 3) - 1) * 800 + Least(Len(matched), 3) * 800 \in Int
    BY <1>3, <2>1
  <2> QED
    BY <2>2, UnitRange
<1>5. urgency \in Int
  <2> HIDE DEF severities, day
  <2>1. 3200 + SumSeq(severities)
          + (IF day = "overloaded" THEN 1200 ELSE IF day = "recovery" THEN 800 ELSE 0) \in Int
    BY <1>2
  <2> QED
    BY <2>1, UnitRange
<1>6. UnitScore(c.conf) \in Int
  BY UnitRange DEF Suggestion
<1>7. Effort(c) \in Int
  <2> DEFINE e == (CASE c.type \in {"reflection", "warning"} -> 8600
                     [] c.type = "plan_adjustment" -> 7800
                     [] c.type = "task_rewrite"    -> 7200
                     [] OTHER                      -> 7400)
             x == (IF Len(c.targets) >= 3 THEN 2000 ELSE IF Len(c.targets) = 2 THEN 1000 ELSE 0)
             y == (IF Len(c.evidence) >= 3 THEN 300 ELSE 0)
  <2>1. e \in Int
    OBVIOUS
  <2>2. x \in Int /\ y \in Int
    OBVIOUS
  <2>3. Effort(c) = UnitScore(e - x - y)
    BY DEF Effort
  <2> HIDE DEF e, x, y
  <2> QED
    BY <2>1, <2>2, <2>3, UnitRange
<1>8. Privacy(c, req) \in Int
  BY DEF Privacy
<1> DEFINE k == 25 * impact + 20 * urgency + 15 * UnitScore(c.conf) + 10 * Privacy(c, req)
                  - 5 * (10000 - Effort(c))
<1>9. \A b, m : Score(c, b, req, m) =
        UnitScore((25 * impact + 20 * urgency + 15 * UnitScore(c.conf)
          + 15 * UnitScore(5000 + (b * 5) \div 4)
          + 10 * Novelty(c, m) + 10 * Privacy(c, req) - 5 * (10000 - Effort(c))) \div 100)
  BY DEF Score
<1> HIDE DEF impact, urgency
<1>10. k \in Int
  BY <1>4, <1>5, <1>6, <1>7, <1>8
<1>11. Based(k, c, req)
  <2> SUFFICES ASSUME NEW b \in Int, NEW m, Novelty(c, m) \in Int
               PROVE  Score(c, b, req, m) =
                        UnitScore((k + 15 * UnitScore(5000 + (b * 5) \div 4) + 10 * Novelty(c, m)) \div 100)
    BY DEF Based
  <2> DEFINE f == UnitScore(5000 + (b * 5) \div 4)
  <2>1. f \in Int
    BY UnitRange
  <2>2. Score(c, b, req, m) =
        UnitScore((25 * impact + 20 * urgency + 15 * UnitScore(c.conf)
          + 15 * f + 10 * Novelty(c, m) + 10 * Privacy(c, req) - 5 * (10000 - Effort(c))) \div 100)
    BY <1>9
  <2> HIDE DEF f
  <2>3. 25 * impact + 20 * urgency + 15 * UnitScore(c.conf)
          + 15 * f + 10 * Novelty(c, m) + 10 * Privacy(c, req) - 5 * (10000 - Effort(c))
          = k + 15 * f + 10 * Novelty(c, m)
    BY <1>4, <1>5, <1>6, <1>7, <1>8, <2>1
  <2>4. Score(c, b, req, m) = UnitScore((k + 15 * f + 10 * Novelty(c, m)) \div 100)
    BY <2>2, <2>3
  <2> QED
    BY <2>4 DEF f
<1> HIDE DEF k
<1> QED
  BY <1>10, <1>11

LEMMA ScoreType ==
    ASSUME NEW c, Suggestion(c), NEW req, Request(req), NEW b \in Int, NEW m, ItemList(m)
    PROVE  Score(c, b, req, m) \in Int
<1> PICK k \in Int : Based(k, c, req)
  BY ScoreForm
<1>1. Novelty(c, m) \in Int
  BY NoveltyRange
<1>2. Score(c, b, req, m) =
        UnitScore((k + 15 * UnitScore(5000 + (b * 5) \div 4) + 10 * Novelty(c, m)) \div 100)
  BY <1>1 DEF Based
<1> DEFINE f == UnitScore(5000 + (b * 5) \div 4)
<1>3. f \in Int
  BY UnitRange
<1> HIDE DEF f
<1>4. (k + 15 * f + 10 * Novelty(c, m)) \div 100 \in Int
  BY <1>1, <1>3
<1> QED
  BY <1>2, <1>4, UnitRange DEF f

\* A lower delta and a lower novelty give no higher score.
LEMMA ScoreFalls ==
    ASSUME NEW c, Suggestion(c), NEW req, Request(req), NEW a \in Int, NEW b \in Int, a <= b,
           NEW m, ItemList(m), NEW r, ItemList(r), Novelty(c, r) <= Novelty(c, m)
    PROVE  Score(c, a, req, r) <= Score(c, b, req, m)
<1> PICK k \in Int : Based(k, c, req)
  BY ScoreForm
<1>1. Novelty(c, m) \in Int /\ Novelty(c, r) \in Int
  BY NoveltyRange
<1> DEFINE f == UnitScore(5000 + (a * 5) \div 4)
           g == UnitScore(5000 + (b * 5) \div 4)
           x == (k + 15 * f + 10 * Novelty(c, r)) \div 100
           y == (k + 15 * g + 10 * Novelty(c, m)) \div 100
<1>2. Score(c, a, req, r) = UnitScore(x) /\ Score(c, b, req, m) = UnitScore(y)
  BY <1>1 DEF Based
<1>3. f \in Int /\ g \in Int /\ f <= g
  <2>1. 5000 + (a * 5) \div 4 \in Int /\ 5000 + (b * 5) \div 4 \in Int
        /\ 5000 + (a * 5) \div 4 <= 5000 + (b * 5) \div 4
    OBVIOUS
  <2> QED
    BY <2>1, UnitRange
<1> HIDE DEF f, g
<1>4. x \in Int /\ y \in Int /\ x <= y
  BY <1>1, <1>3
<1> HIDE DEF x, y
<1> QED
  BY <1>2, <1>4, UnitRange

-----------------------------------------------------------------------------
\* A list of suggestions.
Suggestions(s) == IsList(s) /\ \A i \in DOMAIN s : Suggestion(s[i])
Cleared(c) == c.confirm /\ c.evidence # <<>> /\ c.flaw = "none"

LEMMA NormalisedFacts ==
    ASSUME NEW raw, RawAnswer(raw)
    PROVE  /\ Suggestions(Normalised(raw))
           /\ \A i \in DOMAIN Normalised(raw) : Normalised(raw)[i].form # "synth"
<1> DEFINE Repair(r) ==
               IF r.form = "valid" THEN r
               ELSE [r EXCEPT !.targets = IF r.targets = <<>> THEN <<"system">>
                                          ELSE CoerceDomains(r.targets)]
           kept == Those(raw, {i \in DOMAIN raw : raw[i].form # "junk"})
           t == Normalised(raw)
           Raw(c) == Suggestion(c) /\ c.form \in {"valid", "legacy", "junk", "breaks"}
<1>1. t = [i \in DOMAIN kept |-> Repair(kept[i])]
  BY DEF Normalised
<1>2. IsList(kept) /\ \A i \in DOMAIN kept : Raw(kept[i])
  <2> DEFINE S == {raw[i] : i \in DOMAIN raw}
             K == {i \in DOMAIN raw : raw[i].form # "junk"}
  <2>1. raw \in Seq(S) /\ \A i \in DOMAIN raw : Raw(raw[i])
    BY DEF RawAnswer, IsList
  <2> HIDE DEF S, K, Raw
  <2>2. /\ Those(raw, K) \in Seq(S)
        /\ \A j \in DOMAIN Those(raw, K) : \E i \in DOMAIN raw : i \in K /\ Those(raw, K)[j] = raw[i]
    BY <2>1, ThoseFacts
  <2>3. IsList(Those(raw, K)) /\ \A j \in DOMAIN Those(raw, K) : Raw(Those(raw, K)[j])
    BY <2>1, <2>2, SeqList
  <2> QED
    BY <2>3 DEF K
<1> HIDE DEF kept
<1>3. Len(kept) \in Nat /\ DOMAIN kept = 1..Len(kept)
  BY <1>2, ListFacts
<1>4. ASSUME NEW r, Raw(r) PROVE Suggestion(Repair(r)) /\ Repair(r).form # "synth"
  <2> DEFINE new == IF r.targets = <<>> THEN <<"system">> ELSE CoerceDomains(r.targets)
  <2>1. IsList(new)
    <3>1. Len(r.targets) \in Nat /\ DOMAIN r.targets = 1..Len(r.targets)
      BY <1>4, ListFacts DEF Suggestion
    <3>2. CoerceDomains(r.targets) = [i \in 1..Len(r.targets) |-> CoerceDomain(r.targets[i])]
      BY <3>1 DEF CoerceDomains
    <3>3. CoerceDomains(r.targets) = [i \in 1..Len(r.targets) |-> CoerceDomains(r.targets)[i]]
      BY <3>2
    <3>4. IsList(CoerceDomains(r.targets))
      BY <3>1, <3>3, FunctionList
    <3>5. <<"system">> \in Seq({"system"})
      OBVIOUS
    <3>6. IsList(<<"system">>)
      BY <3>5, SeqList
    <3> QED
      BY <3>4, <3>6
  <2> HIDE DEF new
  <2>2. CASE r.form = "valid"
    BY <1>4, <2>2
  <2>3. CASE r.form # "valid"
    <3> DEFINE q == [r EXCEPT !.targets = new]
    <3>1. Suggestion(r) /\ r.form \in {"valid", "legacy", "junk", "breaks"}
      BY <1>4
    <3>2. /\ DOMAIN q = DOMAIN r /\ q.targets = new /\ q.form = r.form
          /\ q.conf = r.conf /\ q.evidence = r.evidence
      BY <3>1 DEF Suggestion
    <3>3. Repair(r) = q
      BY <2>3 DEF new
    <3> HIDE DEF q, Repair
    <3>4. Suggestion(q)
      BY <2>1, <3>1, <3>2 DEF Suggestion
    <3> QED
      BY <3>1, <3>2, <3>3, <3>4
  <2> QED
    BY <2>2, <2>3
<1> HIDE DEF Repair, t, Raw
<1>5. t = [i \in 1..Len(kept) |-> t[i]] /\ DOMAIN t = 1..Len(kept) /\ \A i \in 1..Len(kept) : t[i] = Repair(kept[i])
  BY <1>1, <1>3
<1>6. IsList(t)
  BY <1>3, <1>5, FunctionList
<1>7. \A i \in DOMAIN t : Suggestion(t[i]) /\ t[i].form # "synth"
  BY <1>2, <1>3, <1>4, <1>5
<1> QED
  BY <1>6, <1>7 DEF Suggestions, t

LEMMA ReviewedFacts ==
    ASSUME NEW s, Suggestions(s), NEW max \in Nat, \A i \in DOMAIN s : s[i].form # "synth"
    PROVE  /\ Suggestions(Reviewed(s, max)) /\ Len(Reviewed(s, max)) <= max
           /\ \A i \in DOMAIN Reviewed(s, max) :
                /\ Cleared(Reviewed(s, max)[i]) /\ Reviewed(s, max)[i].form # "synth"
                /\ \E j \in DOMAIN s : s[j].id = Reviewed(s, max)[i].id
<1> DEFINE K == {i \in DOMAIN s : Safe(s[i])}
           safe == FirstOf(Those(s, K), max)
           t == Reviewed(s, max)
           S == {s[i] : i \in DOMAIN s}
           Ok(c) == \E j \in DOMAIN s : c = s[j] /\ Safe(s[j])
<1>1. t = [i \in DOMAIN safe |-> [safe[i] EXCEPT !.confirm = TRUE]]
  BY DEF Reviewed
<1>2. s \in Seq(S) /\ \A i \in DOMAIN s : Suggestion(s[i])
  BY DEF Suggestions, IsList
<1> HIDE DEF S
<1>3. IsList(safe) /\ Len(safe) <= max /\ \A i \in DOMAIN safe : Ok(safe[i])
  <2> DEFINE all == Those(s, K)
  <2>1. /\ all \in Seq(S)
        /\ \A j \in DOMAIN all : \E i \in DOMAIN s : i \in K /\ all[j] = s[i]
    <3> HIDE DEF K
    <3> QED
      BY <1>2, ThoseFacts
  <2>2. \A j \in DOMAIN all : Ok(all[j])
    <3> HIDE DEF all
    <3> QED
      BY <2>1
  <2> HIDE DEF all, Ok
  <2>3. /\ FirstOf(all, max) \in Seq(S) /\ Len(FirstOf(all, max)) <= max
        /\ Len(FirstOf(all, max)) <= Len(all)
        /\ \A i \in 1..Len(FirstOf(all, max)) : FirstOf(all, max)[i] = all[i]
    <3>1. /\ FirstOf(all, max) \in Seq(S) /\ Len(FirstOf(all, max)) <= max
          /\ Len(FirstOf(all, max)) = IF max < Len(all) THEN max ELSE Len(all)
          /\ \A i \in 1..Len(FirstOf(all, max)) : FirstOf(all, max)[i] = all[i]
      BY <2>1, FirstFacts
    <3>2. Len(all) \in Nat
      BY <2>1
    <3> QED
      BY <3>1, <3>2
  <2> DEFINE first == FirstOf(all, max)
  <2>4. first \in Seq(S) /\ Len(first) <= max /\ Len(first) <= Len(all) /\ \A i \in 1..Len(first) : first[i] = all[i]
    BY <2>3
  <2> HIDE DEF first
  <2>5. IsList(first)
    BY <2>4, SeqList
  <2>6. \A i \in DOMAIN first : Ok(first[i])
    BY <2>1, <2>2, <2>4
  <2> QED
    BY <2>4, <2>5, <2>6 DEF all, first
<1> HIDE DEF safe, t
<1>4. Len(safe) \in Nat /\ DOMAIN safe = 1..Len(safe)
  BY <1>3, ListFacts
<1>5. /\ t = [i \in 1..Len(safe) |-> t[i]] /\ DOMAIN t = 1..Len(safe)
      /\ \A i \in 1..Len(safe) : t[i] = [safe[i] EXCEPT !.confirm = TRUE]
  BY <1>1, <1>4
<1>6. IsList(t) /\ Len(t) = Len(safe)
  BY <1>4, <1>5, FunctionList
<1>7. ASSUME NEW i \in DOMAIN t
      PROVE  Suggestion(t[i]) /\ Cleared(t[i]) /\ t[i].form # "synth" /\ \E j \in DOMAIN s : s[j].id = t[i].id
  <2>1. PICK j \in DOMAIN s : safe[i] = s[j] /\ Safe(s[j])
    BY <1>3, <1>4, <1>5
  <2>2. t[i] = [s[j] EXCEPT !.confirm = TRUE] /\ Suggestion(s[j]) /\ s[j].form # "synth"
    BY <1>2, <1>5, <2>1
  <2>3. /\ DOMAIN t[i] = DOMAIN s[j] /\ t[i].confirm /\ t[i].form = s[j].form /\ t[i].id = s[j].id
        /\ t[i].targets = s[j].targets /\ t[i].conf = s[j].conf
        /\ t[i].evidence = s[j].evidence /\ t[i].flaw = s[j].flaw
    BY <2>2 DEF Suggestion
  <2>4. Suggestion(t[i])
    BY <2>2, <2>3 DEF Suggestion
  <2>5. Cleared(t[i])
    BY <2>1, <2>3 DEF Cleared, Safe
  <2> QED
    BY <2>2, <2>3, <2>4, <2>5
<1> QED
  BY <1>3, <1>6, <1>7 DEF Suggestions, t

-----------------------------------------------------------------------------
LEMMA BiasType ==
    ASSUME NEW cands, Suggestions(cands), NEW id, \E j \in DOMAIN cands : cands[j].id = id,
           NEW m, ItemList(m)
    PROVE  BiasOf(cands, id, m) \in Int
<1> DEFINE K == {i \in DOMAIN cands : cands[i].id = id}
           n == Len(cands)
           IsLast(i) == cands[i].id = id /\ \A j \in DOMAIN cands : cands[j].id = id => j <= i
           last == CHOOSE i \in DOMAIN cands : IsLast(i)
<1>1. n \in Nat /\ DOMAIN cands = 1..n
  BY ListFacts DEF Suggestions
<1>2. K \in SUBSET (1..n) /\ K # {}
  BY <1>1
<1>3. PICK i \in K : \A j \in K : j <= i
  <2> HIDE DEF K, n
  <2> QED
    BY <1>1, <1>2, LastPlace
<1>4. i \in DOMAIN cands /\ IsLast(i)
  BY <1>3
<1> HIDE DEF IsLast
<1>5. last \in DOMAIN cands
  BY <1>4
<1>6. BiasOf(cands, id, m) = FeedbackDelta(cands[last], m)
  BY DEF BiasOf, IsLast
<1> HIDE DEF last
<1>7. Suggestion(cands[last])
  BY <1>5 DEF Suggestions
<1> QED
  BY <1>6, <1>7, DeltaType

LEMMA RankedFacts ==
    ASSUME NEW req, Request(req), NEW cands, Suggestions(cands), NEW m, ItemList(m),
           NEW s, Suggestions(s), \A i \in DOMAIN s : \E j \in DOMAIN cands : cands[j].id = s[i].id
    PROVE  LET r == Ranked(s, cands, req, m)
               At(i) == Score(r[i], BiasOf(cands, r[i].id, m), req, m)
           IN  /\ Suggestions(r) /\ Len(r) = Len(s)
               /\ \A i \in DOMAIN r : \E j \in DOMAIN s : r[i] = s[j]
               /\ \A i, j \in DOMAIN r : i < j => At(i) >= At(j)
<1> DEFINE n == Len(s)
           score == [i \in DOMAIN s |-> Score(s[i], BiasOf(cands, s[i].id, m), req, m)]
           r == Ranked(s, cands, req, m)
           At(i) == Score(r[i], BiasOf(cands, r[i].id, m), req, m)
           S == {s[i] : i \in DOMAIN s}
<1>1. n \in Nat /\ DOMAIN s = 1..n /\ s \in Seq(S) /\ \A i \in DOMAIN s : Suggestion(s[i])
  BY ListFacts DEF Suggestions, IsList
<1>2. \A i \in 1..n : score[i] \in Int
  <2> SUFFICES ASSUME NEW i \in 1..n PROVE Score(s[i], BiasOf(cands, s[i].id, m), req, m) \in Int
    BY <1>1
  <2>1. BiasOf(cands, s[i].id, m) \in Int
    BY <1>1, BiasType
  <2> QED
    BY <1>1, <2>1, ScoreType
<1>3. r = SortedBy(s, score)
  BY DEF Ranked
<1>4. \A i \in 1..n : score[i] = Score(s[i], BiasOf(cands, s[i].id, m), req, m)
  BY <1>1
<1> HIDE DEF score, S, r
<1> PICK p : Sorting(p, s, score)
  BY <1>1, <1>2, SortedFacts
<1>5. /\ p \in [1..n -> 1..n] /\ r = [k \in 1..n |-> s[p[k]]]
      /\ \A k, l \in 1..n : k < l => score[p[k]] >= score[p[l]]
  BY <1>3 DEF Sorting
<1>6. DOMAIN r = 1..n /\ r = [k \in 1..n |-> r[k]] /\ \A k \in 1..n : p[k] \in 1..n /\ r[k] = s[p[k]]
  BY <1>5
<1>7. IsList(r) /\ Len(r) = n
  BY <1>1, <1>6, FunctionList
<1>8. Suggestions(r) /\ \A i \in DOMAIN r : \E j \in DOMAIN s : r[i] = s[j]
  BY <1>1, <1>6, <1>7 DEF Suggestions
<1>9. \A k \in 1..n : score[p[k]] = At(k)
  BY <1>4, <1>6
<1>10. \A i, j \in DOMAIN r : i < j => At(i) >= At(j)
  BY <1>5, <1>6, <1>9
<1> QED
  BY <1>7, <1>8, <1>10 DEF r

-----------------------------------------------------------------------------
LEMMA TargetsType ==
    ASSUME NEW req, Request(req)
    PROVE  Targets(req) \in Seq(Seq(GraphDomains))
<1> DEFINE risks     == Risks(req)
           summaries == Summaries(req)
           consent   == SetToSeq(req.consent)
           a == [i \in DOMAIN risks |-> CoerceDomains(risks[i].domains)]
           b == [i \in DOMAIN summaries |-> <<CoerceDomain(summaries[i])>>]
           c == [i \in DOMAIN consent |-> <<CoerceDomain(consent[i])>>]
           e == <<<<"system">>>>
           L == Seq(GraphDomains)
<1>1. \A d : CoerceDomain(d) \in GraphDomains
  BY DEF CoerceDomain, GraphDomains
<1>2. \A d : <<CoerceDomain(d)>> \in L
  BY <1>1
<1>3. a \in Seq(L)
  <2>1. risks \in Seq(RiskSet(req))
    BY RisksType
  <2> HIDE DEF risks
  <2>2. Len(risks) \in Nat /\ DOMAIN risks = 1..Len(risks)
    BY <2>1
  <2>3. ASSUME NEW i \in 1..Len(risks) PROVE CoerceDomains(risks[i].domains) \in L
    <3>1. risks[i] \in RiskSet(req)
      BY <2>1
    <3> DEFINE x == risks[i].domains
    <3>2. x \in Seq(RiskDomains(req))
      BY <3>1 DEF RiskSet
    <3> HIDE DEF x
    <3>3. Len(x) \in Nat /\ DOMAIN x = 1..Len(x)
      BY <3>2
    <3>4. CoerceDomains(x) \in [1..Len(x) -> GraphDomains]
      BY <1>1, <3>3 DEF CoerceDomains
    <3>5. CoerceDomains(x) \in Seq(GraphDomains)
      BY <3>3, <3>4
    <3> QED
      BY <3>5 DEF x
  <2> HIDE DEF L
  <2>4. a \in [1..Len(risks) -> L]
    BY <2>2, <2>3
  <2> QED
    BY <2>2, <2>4
<1>4. b \in Seq(L)
  <2>1. IsList(summaries)
    <3>1. CASE req.summaries # <<>>
      BY <3>1 DEF Summaries, Request
    <3>2. CASE req.summaries = <<>>
      <4>1. SetToSeq(ActiveDomains(req)) \in Seq(ActiveDomains(req))
        BY ActiveFinite, SetSeq
      <4> QED
        BY <3>2, <4>1, SeqList DEF Summaries
    <3> QED
      BY <3>1, <3>2
  <2> HIDE DEF summaries
  <2>2. Len(summaries) \in Nat /\ DOMAIN summaries = 1..Len(summaries)
    BY <2>1, ListFacts
  <2> HIDE DEF L
  <2>3. b \in [1..Len(summaries) -> L]
    BY <1>2, <2>2
  <2> QED
    BY <2>2, <2>3
<1>5. c \in Seq(L)
  <2>1. consent \in Seq(req.consent)
    BY SetSeq DEF Request
  <2> HIDE DEF consent
  <2>2. Len(consent) \in Nat /\ DOMAIN consent = 1..Len(consent)
    BY <2>1
  <2> HIDE DEF L
  <2>3. c \in [1..Len(consent) -> L]
    BY <1>2, <2>2
  <2> QED
    BY <2>2, <2>3
<1>6. e \in Seq(L)
  <2>1. <<"system">> \in L
    BY DEF GraphDomains
  <2> HIDE DEF L
  <2> QED
    BY <2>1
<1>7. Targets(req) = a \o b \o c \o e
  BY DEF Targets
<1> HIDE DEF a, b, c, e, L
<1>8. a \o b \o c \o e \in Seq(L)
  BY <1>3, <1>4, <1>5, <1>6
<1> QED
  BY <1>7, <1>8 DEF L

\* A suggestion made here.
Made(c) == \E d \in Seq(GraphDomains), n \in Nat : c = Synthesised(d, n)

LEMMA MadeFacts ==
    ASSUME NEW c, Made(c)
    PROVE  Suggestion(c) /\ Cleared(c) /\ c.form = "synth"
<1> PICK d \in Seq(GraphDomains), n \in Nat : c = Synthesised(d, n)
  BY DEF Made
<1> DEFINE e == [domain |-> d[1], conf |-> 6600]
           ev == <<e>>
<1>1. /\ DOMAIN c = {"form", "id", "targets", "type", "evidence", "conf", "flaw", "confirm"}
      /\ c.form = "synth" /\ c.targets = d /\ c.conf = 6200 /\ c.evidence = ev
      /\ c.flaw = "none" /\ c.confirm
  BY DEF Synthesised
<1>2. e.conf = 6600
  OBVIOUS
<1> HIDE DEF e
<1>3. ev \in Seq({e}) /\ DOMAIN ev = 1..1 /\ ev[1] = e /\ ev # <<>>
  OBVIOUS
<1> HIDE DEF ev
<1>4. IsList(ev) /\ IsList(d)
  BY <1>3, SeqList
<1>5. \A i \in DOMAIN ev : ev[i].conf \in Int
  BY <1>2, <1>3
<1> QED
  BY <1>1, <1>3, <1>4, <1>5 DEF Suggestion, Cleared

\* The ranked suggestions and, behind them, ones made here.
Extends(p, ranked) ==
    /\ IsList(p) /\ Len(ranked) <= Len(p)
    /\ \A i \in 1..Len(p) : IF i <= Len(ranked) THEN p[i] = ranked[i] ELSE Made(p[i])

LEMMA FilledFacts ==
    ASSUME NEW req, Request(req), NEW ranked, IsList(ranked)
    PROVE  LET p == FilledUp(req, ranked)
           IN  /\ IsList(p) /\ Len(p) <= req.max
               /\ \A i \in 1..Len(p) : IF i <= Len(ranked) THEN p[i] = ranked[i] ELSE Made(p[i])
<1> DEFINE max == req.max
           more == Targets(req)
           Add(plan, targets) ==
               IF Len(plan) >= max \/ \E i \in DOMAIN plan : plan[i].targets = targets
               THEN plan ELSE Append(plan, Synthesised(targets, Len(plan) + 1))
           len == Len(more)
           Rec(f) == f = [n \in 0..len |-> IF n = 0 THEN ranked ELSE Add(f[n - 1], more[n])]
           g == CHOOSE h : Rec(h)
           S == {ranked[i] : i \in DOMAIN ranked} \cup {Synthesised(d, n) : d \in Seq(GraphDomains), n \in Nat}
           V == {p \in Seq(S) : Extends(p, ranked)}
           F == [n \in 1..len |-> [t \in V |-> Add(t, more[n])]]
<1>1. FilledUp(req, ranked) = FirstOf(g[len], max)
  BY DEF FilledUp
<1>2. more \in Seq(Seq(GraphDomains)) /\ max \in Nat
  BY TargetsType DEF Request
<1> HIDE DEF more, max
<1>3. len \in Nat /\ \A n \in 1..len : more[n] \in Seq(GraphDomains)
  BY <1>2
<1>4. ASSUME NEW p \in V, NEW d \in Seq(GraphDomains) PROVE Add(p, d) \in V
  <2> DEFINE x == Synthesised(d, Len(p) + 1)
             q == Append(p, x)
  <2>1. Len(p) \in Nat /\ p \in Seq(S) /\ Extends(p, ranked)
    OBVIOUS
  <2>2. x \in S /\ Made(x)
    BY <2>1 DEF Made
  <2>3. Len(ranked) \in Nat
    BY ListFacts
  <2> HIDE DEF S, x
  <2>4. /\ q \in Seq(S) /\ IsList(q) /\ Len(q) = Len(p) + 1 /\ q[Len(p) + 1] = x
        /\ \A i \in 1..Len(p) : q[i] = p[i]
    BY <2>1, <2>2, AppendFacts DEF Extends
  <2> HIDE DEF q
  <2>5. Extends(q, ranked)
    <3> SUFFICES ASSUME NEW i \in 1..(Len(p) + 1)
                 PROVE  IF i <= Len(ranked) THEN q[i] = ranked[i] ELSE Made(q[i])
      BY <2>1, <2>3, <2>4 DEF Extends
    <3>1. CASE i = Len(p) + 1
      BY <2>1, <2>2, <2>3, <2>4, <3>1 DEF Extends
    <3>2. CASE i \in 1..Len(p)
      BY <2>1, <2>4, <3>2 DEF Extends
    <3> QED
      BY <2>1, <3>1, <3>2
  <2>6. p \in V /\ q \in V
    BY <2>1, <2>4, <2>5
  <2>7. Add(p, d) = p \/ Add(p, d) = q
    BY DEF q, x
  <2> QED
    BY <2>6, <2>7
<1>5. ranked \in V
  <2> DEFINE R == {ranked[i] : i \in DOMAIN ranked}
  <2>1. ranked \in Seq(R) /\ R \subseteq S
    BY DEF IsList
  <2>2. Len(ranked) \in Nat
    BY ListFacts
  <2>3. Extends(ranked, ranked)
    BY <2>2 DEF Extends
  <2> HIDE DEF R, S
  <2>4. ranked \in Seq(S)
    BY <2>1
  <2> QED
    BY <2>3, <2>4
<1> DEFINE Step(n, p) == Add(p, more[n])
<1>6. \A n \in 1..len, p \in V : Step(n, p) \in V
  <2> HIDE DEF V, Add, len
  <2> QED
    BY <1>3, <1>4
<1>7. \A f : Rec(f) <=> f = [n \in 0..len |-> IF n = 0 THEN ranked ELSE Step(n, f[n - 1])]
  OBVIOUS
<1>8. F \in [1..len -> [V -> V]] /\ \A n \in 1..len, p \in V : F[n][p] = Step(n, p)
  BY <1>6
<1>9. \A p \in V : p \in Seq(S) /\ Extends(p, ranked)
  OBVIOUS
<1> HIDE DEF len, Rec, F, V, S, Add, Step
<1>10. PICK f : Follows(f, len, V, ranked, F)
  BY <1>3, <1>5, <1>8, Recursion
<1>11. /\ f \in [0..len -> V] /\ f[0] = ranked /\ \A n \in 1..len : f[n] = F[n][f[n - 1]]
  BY <1>10 DEF Follows
<1>12. \A n \in 1..len : f[n] = Step(n, f[n - 1])
  BY <1>3, <1>8, <1>11
<1>13. f = [n \in 0..len |-> IF n = 0 THEN ranked ELSE Step(n, f[n - 1])]
  <2>1. f = [n \in 0..len |-> f[n]]
    BY <1>11
  <2>2. \A n \in 0..len : f[n] = IF n = 0 THEN ranked ELSE Step(n, f[n - 1])
    BY <1>3, <1>11, <1>12
  <2> QED
    BY <2>1, <2>2
<1>14. Rec(g)
  BY <1>7, <1>13
<1> HIDE DEF g
<1>15. g = [n \in 0..len |-> IF n = 0 THEN ranked ELSE Step(n, g[n - 1])]
  BY <1>7, <1>14
<1>16. g[0] = ranked /\ \A n \in 1..len : g[n] = Step(n, g[n - 1])
  BY <1>3, <1>15
<1> DEFINE I == {n \in 0..len : g[n] \in V}
<1>17. 0 \in I
  BY <1>3, <1>5, <1>16
<1>18. \A n \in 1..len : n - 1 \in I => n \in I
  BY <1>3, <1>6, <1>16
<1>19. g[len] \in V
  <2>1. len \in 0..len
    BY <1>3
  <2> HIDE DEF I
  <2>2. \A n \in 0..len : n \in I
    BY <1>3, <1>17, <1>18, UpTo
  <2> QED
    BY <2>1, <2>2 DEF I
<1> DEFINE all == g[len]
<1>20. all \in Seq(S) /\ Extends(all, ranked)
  BY <1>9, <1>19
<1> HIDE DEF all
<1> DEFINE p == FirstOf(all, max)
<1>21. /\ p \in Seq(S) /\ Len(p) <= max /\ Len(p) = IF max < Len(all) THEN max ELSE Len(all)
       /\ \A i \in 1..Len(p) : p[i] = all[i]
  BY <1>2, <1>20, FirstFacts
<1>22. FilledUp(req, ranked) = p
  BY <1>1 DEF all
<1> HIDE DEF p
<1>23. Len(all) \in Nat /\ Len(p) \in Nat /\ Len(p) <= Len(all)
  BY <1>2, <1>20, <1>21
<1>24. IsList(p)
  BY <1>21, SeqList
<1>25. \A i \in 1..Len(p) : IF i <= Len(ranked) THEN p[i] = ranked[i] ELSE Made(p[i])
  <2> SUFFICES ASSUME NEW i \in 1..Len(p)
               PROVE  IF i <= Len(ranked) THEN p[i] = ranked[i] ELSE Made(p[i])
    OBVIOUS
  <2>1. i \in 1..Len(all) /\ p[i] = all[i]
    BY <1>21, <1>23
  <2> QED
    BY <1>20, <2>1 DEF Extends
<1> QED
  BY <1>21, <1>22, <1>24, <1>25 DEF max

-----------------------------------------------------------------------------
\* What holds of the answer to any request: the plan is reviewed, in the order
\* of its scores, and its source and its learning keys are true.
InOrder(plan, raw, req, m) ==
    LET At(i) == Score(plan[i], BiasOf(Normalised(raw), plan[i].id, m), req, m)
    IN  \A i, j \in DOMAIN plan : i < j /\ plan[j].form # "synth" =>
            plan[i].form # "synth" /\ At(i) >= At(j)
KeysTrue(plan, keys) ==
    \A id \in DOMAIN keys : \E i \in DOMAIN plan : plan[i].id = id /\ KeyOf(plan[i]) = keys[id]
Sound(a, raw, req, m) ==
    /\ Suggestions(a.plan) /\ Len(a.plan) <= req.max
    /\ \A i \in DOMAIN a.plan : Cleared(a.plan[i])
    /\ InOrder(a.plan, raw, req, m)
    /\ a.source = "live" => req.ai /\ \A i \in DOMAIN a.plan : a.plan[i].form # "synth"
    /\ KeysTrue(a.plan, a.keys)

LEMMA KeysFacts ==
    ASSUME NEW plan, IsList(plan)
    PROVE  KeysTrue(plan, LearningKeys(plan))
<1> SUFFICES ASSUME NEW id \in DOMAIN LearningKeys(plan)
             PROVE  \E i \in DOMAIN plan : plan[i].id = id /\ KeyOf(plan[i]) = LearningKeys(plan)[id]
  BY DEF KeysTrue
<1> DEFINE K == {i \in DOMAIN plan : plan[i].id = id}
           n == Len(plan)
           IsLast(i) == plan[i].id = id /\ \A j \in DOMAIN plan : plan[j].id = id => j <= i
           last == CHOOSE i \in DOMAIN plan : IsLast(i)
<1>1. n \in Nat /\ DOMAIN plan = 1..n
  BY ListFacts
<1>2. id \in {plan[i].id : i \in DOMAIN plan}
  BY DEF LearningKeys
<1>3. K \in SUBSET (1..n) /\ K # {}
  BY <1>1, <1>2
<1>4. PICK i \in K : \A j \in K : j <= i
  <2> HIDE DEF K, n
  <2> QED
    BY <1>1, <1>3, LastPlace
<1>5. i \in DOMAIN plan /\ IsLast(i)
  BY <1>4
<1>6. LearningKeys(plan)[id] = KeyOf(plan[last])
  BY <1>2 DEF LearningKeys
<1>7. \A j : IsLast(j) => plan[j].id = id
  OBVIOUS
<1> HIDE DEF IsLast
<1>8. last \in DOMAIN plan /\ IsLast(last)
  BY <1>5
<1> QED
  BY <1>6, <1>7, <1>8

LEMMA BuildFacts ==
    ASSUME NEW req, Request(req), NEW raw, RawAnswer(raw), NEW m, ItemList(m)
    PROVE  Sound(BuildResponse(req, raw, m, FALSE), raw, req, m)
<1> DEFINE all    == Normalised(raw)
           cands  == IF req.ai THEN all ELSE <<>>
           rev    == Reviewed(cands, req.max)
           ranked == Ranked(rev, cands, req, m)
           plan   == FilledUp(req, ranked)
           a      == BuildResponse(req, raw, m, FALSE)
           At(i)  == Score(ranked[i], BiasOf(cands, ranked[i].id, m), req, m)
<1>1. /\ a.plan = plan /\ a.keys = LearningKeys(plan)
      /\ a.source = SourceState(req, Len(plan) > Len(ranked), FALSE)
  BY DEF BuildResponse
<1>2. req.max \in Nat /\ req.ai \in BOOLEAN
  BY DEF Request
<1>3. Suggestions(cands) /\ \A i \in DOMAIN cands : cands[i].form # "synth"
  <2>1. Suggestions(all) /\ \A i \in DOMAIN all : all[i].form # "synth"
    BY NormalisedFacts
  <2>2. Suggestions(<<>>) /\ DOMAIN <<>> = {}
    BY DEF Suggestions, IsList
  <2> HIDE DEF all
  <2> QED
    BY <2>1, <2>2
<1>4. req.ai => cands = all
  OBVIOUS
<1>5. ~req.ai => Len(rev) = 0
  <2> SUFFICES ASSUME ~req.ai, Len(rev) # 0 PROVE FALSE
    OBVIOUS
  <2>1. DOMAIN cands = {}
    OBVIOUS
  <2>2. Suggestions(rev) /\ \A i \in DOMAIN rev : \E j \in DOMAIN cands : cands[j].id = rev[i].id
    <3> HIDE DEF cands
    <3> QED
      BY <1>2, <1>3, ReviewedFacts
  <2> HIDE DEF rev, cands
  <2>3. Len(rev) \in Nat /\ DOMAIN rev = 1..Len(rev)
    BY <2>2, ListFacts DEF Suggestions
  <2>4. 1 \in DOMAIN rev
    BY <2>3
  <2> QED
    BY <2>1, <2>2, <2>4
<1> HIDE DEF all, cands
<1>6. /\ Suggestions(rev) /\ Len(rev) <= req.max
      /\ \A i \in DOMAIN rev : /\ Cleared(rev[i]) /\ rev[i].form # "synth"
                              /\ \E j \in DOMAIN cands : cands[j].id = rev[i].id
  BY <1>2, <1>3, ReviewedFacts
<1> HIDE DEF rev
<1>7. /\ Suggestions(ranked) /\ Len(ranked) = Len(rev)
      /\ \A i \in DOMAIN ranked : \E j \in DOMAIN rev : ranked[i] = rev[j]
      /\ \A i, j \in DOMAIN ranked : i < j => At(i) >= At(j)
  BY <1>3, <1>6, RankedFacts
<1>8. /\ Len(ranked) \in Nat /\ DOMAIN ranked = 1..Len(ranked)
      /\ \A i \in DOMAIN ranked : Suggestion(ranked[i]) /\ Cleared(ranked[i]) /\ ranked[i].form # "synth"
  <2>1. IsList(ranked) /\ \A i \in DOMAIN ranked : Suggestion(ranked[i])
    BY <1>7 DEF Suggestions
  <2> HIDE DEF ranked
  <2> QED
    BY <1>6, <1>7, <2>1, ListFacts
<1> HIDE DEF ranked
<1>9. /\ IsList(plan) /\ Len(plan) <= req.max
      /\ \A i \in 1..Len(plan) : IF i <= Len(ranked) THEN plan[i] = ranked[i] ELSE Made(plan[i])
  BY <1>7, FilledFacts DEF Suggestions
<1> HIDE DEF plan
<1>10. Len(plan) \in Nat /\ DOMAIN plan = 1..Len(plan)
  BY <1>9, ListFacts
<1>11. ASSUME NEW i \in DOMAIN plan
       PROVE  /\ Suggestion(plan[i]) /\ Cleared(plan[i])
              /\ plan[i].form # "synth" <=> i <= Len(ranked)
              /\ i <= Len(ranked) => i \in DOMAIN ranked /\ plan[i] = ranked[i]
  <2>1. CASE i <= Len(ranked)
    <3>1. i \in DOMAIN ranked /\ plan[i] = ranked[i]
      BY <1>8, <1>9, <1>10, <2>1
    <3> QED
      BY <1>8, <2>1, <3>1
  <2>2. CASE ~(i <= Len(ranked))
    <3>1. Made(plan[i])
      BY <1>9, <1>10, <2>2
    <3> QED
      BY <2>2, <3>1, MadeFacts
  <2> QED
    BY <2>1, <2>2
<1>12. InOrder(plan, raw, req, m)
  <2> SUFFICES ASSUME NEW i \in DOMAIN plan, NEW j \in DOMAIN plan, i < j, plan[j].form # "synth"
               PROVE  /\ plan[i].form # "synth"
                      /\ Score(plan[i], BiasOf(all, plan[i].id, m), req, m)
                           >= Score(plan[j], BiasOf(all, plan[j].id, m), req, m)
    BY DEF InOrder, all
  <2>1. j <= Len(ranked) /\ i <= Len(ranked)
    BY <1>8, <1>10, <1>11
  <2>2. /\ plan[i].form # "synth" /\ i \in DOMAIN ranked /\ plan[i] = ranked[i]
        /\ j \in DOMAIN ranked /\ plan[j] = ranked[j]
    BY <1>11, <2>1
  <2>3. At(i) >= At(j)
    BY <1>7, <2>2
  <2>4. cands = all
    BY <1>2, <1>4, <1>5, <1>7, <1>8, <2>2
  <2> QED
    BY <2>2, <2>3, <2>4
<1>13. a.source = "live" => req.ai /\ \A i \in DOMAIN plan : plan[i].form # "synth"
  <2> SUFFICES ASSUME a.source = "live"
               PROVE  req.ai /\ \A i \in DOMAIN plan : plan[i].form # "synth"
    OBVIOUS
  <2>1. req.ai /\ ~(Len(plan) > Len(ranked))
    BY <1>1 DEF SourceState
  <2>2. \A i \in DOMAIN plan : i <= Len(ranked)
    BY <1>8, <1>10, <2>1
  <2> QED
    BY <1>11, <2>1, <2>2
<1>14. KeysTrue(plan, LearningKeys(plan))
  BY <1>9, KeysFacts
<1>15. Suggestions(plan)
  BY <1>9, <1>11 DEF Suggestions
<1> HIDE DEF a
<1>16. Sound(a, raw, req, m)
  BY <1>1, <1>9, <1>11, <1>12, <1>13, <1>14, <1>15 DEF Sound
<1> QED
  BY <1>16 DEF a

LEMMA LoadedList ==
    ASSUME NEW s, ItemList(s)
    PROVE  /\ ItemList(Loaded(s)) /\ NoNotes(Loaded(s))
           /\ Holds(s) => Holds(Loaded(s))
<1> DEFINE t == Loaded(s)
<1>1. Len(s) \in Nat /\ DOMAIN s = 1..Len(s)
  BY ListFacts DEF ItemList
<1>2. DOMAIN t = DOMAIN s /\ \A i \in DOMAIN s : t[i] = [s[i] EXCEPT !.note = FALSE]
  BY DEF Loaded
<1>3. t = [i \in 1..Len(s) |-> t[i]]
  BY <1>1 DEF Loaded
<1> HIDE DEF t
<1>4. ASSUME NEW i \in DOMAIN s
      PROVE  Item(t[i]) /\ t[i].n = s[i].n /\ t[i].user = s[i].user /\ t[i].note = FALSE
  <2>1. Item(s[i])
    BY DEF ItemList
  <2> QED
    BY <1>2, <2>1 DEF Item
<1>5. ItemList(t) /\ NoNotes(t)
  <2>1. IsList(t)
    BY <1>1, <1>3, FunctionList
  <2> QED
    BY <1>2, <1>4, <2>1 DEF ItemList, NoNotes
<1>6. Holds(s) => Holds(t)
  BY <1>2, <1>4 DEF Holds
<1> QED
  BY <1>5, <1>6 DEF t

LEMMA EmptyList == ItemList(<<>>) /\ NoNotes(<<>>)
BY DEF ItemList, IsList, NoNotes

LEMMA StartsSelf == ASSUME NEW s PROVE Len(s) \in Nat => Starts(s, s)
BY DEF Starts

-----------------------------------------------------------------------------
LEMMA InitIInv == Init => IInv
<1> SUFFICES ASSUME Init PROVE IInv
  OBVIOUS
<1>1. ItemList(items) /\ ItemList(file)
  BY EmptyList, OldFilesAssumption DEF Init
<1> QED
  BY <1>1 DEF Init, IInv, Holds

LEMMA InitLInv == Init => LInv
<1> SUFFICES ASSUME Init PROVE LInv
  OBVIOUS
<1>1. screen = [u \in Users |-> NoPlan]
  BY DEF Init
<1>2. Screens
  BY <1>1 DEF Screens, OnScreen, NoPlan
<1> QED
  BY <1>2, InitIInv DEF LInv

LEMMA StartStep == ASSUME IInv, NEW readable \in BOOLEAN, Start(readable) PROVE IInv'
<1>1. CASE readable
  <2>1. items' = Loaded(file) /\ ItemList(items') /\ NoNotes(items')
    BY <1>1, LoadedList DEF Start, IInv
  <2>2. file' = items'
    BY <1>1, <2>1 DEF Start, Persist
  <2>3. (~forgot => Holds(items))'
    BY <1>1, <2>1, LoadedList DEF Start, IInv, Holds
  <2>4. Starts(items', items')
    BY <2>1, ListFacts, StartsSelf
  <2>5. ItemList(items)' /\ ItemList(file)' /\ NoNotes(items)' /\ NoNotes(file)' /\ Starts(file, items)'
    BY <2>1, <2>2, <2>4
  <2>6. (~forgot => Holds(file) /\ Holds(items))'
    BY <2>2, <2>3
  <2> QED
    BY <1>1, <2>5, <2>6 DEF Start, IInv
<1>2. CASE ~readable
  <2>1. items' = <<>> /\ file' = file /\ forgot' = TRUE /\ up' = TRUE
    BY <1>2 DEF Start
  <2>2. ItemList(items)' /\ ItemList(file)' /\ NoNotes(items)'
    BY <2>1, EmptyList DEF IInv
  <2> QED
    BY <2>1, <2>2 DEF IInv
<1> QED
  BY <1>1, <1>2

LEMMA StopStep == ASSUME IInv, Stop PROVE IInv'
<1>1. items' = <<>> /\ file' = file /\ forgot' = forgot /\ acked' = acked /\ up' = FALSE
  BY DEF Stop
<1>2. ItemList(items)' /\ ItemList(file)'
  BY <1>1, EmptyList DEF IInv
<1> QED
  BY <1>1, <1>2 DEF IInv, Holds

LEMMA RecordStep ==
    ASSUME IInv, NEW item, NEW written \in BOOLEAN, up, up' = up, forgot' = forgot,
           Item(item), ~item.note, Record(item, written)
    PROVE  IInv'
<1>1. items' = Append(items, item) /\ ItemList(items)
  BY DEF Record, IInv
<1>2. /\ ItemList(items)' /\ Len(items') = Len(items) + 1 /\ Len(items) \in Nat
      /\ DOMAIN items = 1..Len(items) /\ DOMAIN items' = 1..(Len(items) + 1)
      /\ items'[Len(items) + 1] = item /\ \A i \in 1..Len(items) : items'[i] = items[i]
  BY <1>1, AppendItem
<1>3. NoNotes(items)'
  BY <1>2 DEF NoNotes, IInv
<1>4. CASE written
  <2>1. file' = items' /\ acked' = acked \cup {[n |-> item.n, user |-> item.user]}
    BY <1>4 DEF Record, Persist
  <2>2. ItemList(file)' /\ NoNotes(file)'
    BY <1>2, <1>3, <2>1 DEF NoNotes, ItemList
  <2>3. (~forgot => Holds(items))'
    BY <1>2, <2>1 DEF Holds, IInv
  <2>4. Starts(file, items)'
    BY <1>2, <2>1 DEF Starts
  <2>5. (~forgot => Holds(file))'
    BY <2>1, <2>3 DEF Holds
  <2> QED
    BY <1>2, <1>3, <2>2, <2>3, <2>4, <2>5 DEF IInv
<1>5. CASE ~written
  <2>1. file' = file /\ acked' = acked
    BY <1>5 DEF Record
  <2>2. (~forgot => Holds(items) /\ Holds(file))'
    BY <1>2, <2>1 DEF Holds, IInv
  <2>3. ~forgot => Starts(file, items) /\ Len(file) \in Nat
    BY ListFacts DEF IInv
  <2>4. (~forgot => Starts(file, items))'
    BY <1>2, <2>1, <2>3 DEF Starts
  <2>5. ItemList(file)' /\ (~forgot => NoNotes(file))'
    BY <2>1 DEF IInv, NoNotes
  <2> QED
    BY <1>2, <1>3, <2>2, <2>4, <2>5 DEF IInv
<1> QED
  BY <1>4, <1>5

LEMMA StoreUntouched ==
    ASSUME IInv, UNCHANGED <<items, file, up, acked, forgot>>
    PROVE  IInv'
BY DEF IInv, Holds, NoNotes, Starts

-----------------------------------------------------------------------------
\* A start that forgets asks no more of the screens.
LEMMA PreparedKept ==
    ASSUME NEW s, NEW u, NEW f \in BOOLEAN, NEW g \in BOOLEAN, OnScreen(s, u, f), f => g
    PROVE  OnScreen(s, u, g)
BY DEF OnScreen, Prepared

LEMMA ScreensKept ==
    ASSUME IInv, IInv', Screens, screen' = screen, forgot => forgot'
    PROVE  Screens'
<1>1. forgot \in BOOLEAN /\ forgot' \in BOOLEAN
  BY DEF IInv
<1>2. \A u \in Users : OnScreen(screen[u], u, forgot')
  BY <1>1, PreparedKept DEF Screens
<1> QED
  BY <1>2 DEF Screens

\* One screen changes.
LEMMA ScreenSet ==
    ASSUME Screens, NEW u \in Users, NEW s, OnScreen(s, u, forgot), forgot' = forgot,
           screen' = [screen EXCEPT ![u] = s]
    PROVE  Screens'
<1>1. DOMAIN screen' = Users /\ screen'[u] = s /\ \A v \in Users : v # u => screen'[v] = screen[v]
  BY DEF Screens
<1>2. \A v \in Users : OnScreen(screen'[v], v, forgot)
  BY <1>1 DEF Screens
<1> QED
  BY <1>1, <1>2 DEF Screens

LEMMA DomainRequest ==
    ASSUME NEW r, Request(r)
    PROVE  /\ Request(AsDomainRequest(r)) /\ AsDomainRequest(r).ai = r.ai
<1> DEFINE c == r.consent \cup r.extra \cup {r.required}
           q == [r EXCEPT !.consent = c]
<1>1. IsFiniteSet(c)
  BY FS_Union, FS_Singleton DEF Request
<1> HIDE DEF c
<1>2. /\ DOMAIN q = DOMAIN r /\ q.consent = c /\ q.ai = r.ai /\ q.max = r.max
      /\ q.summaries = r.summaries /\ q.events = r.events /\ q.extra = r.extra
  BY DEF Request
<1>3. AsDomainRequest(r) = IF r.required = "none" THEN r ELSE q
  BY DEF AsDomainRequest, c
<1> HIDE DEF q
<1>4. Request(q)
  BY <1>1, <1>2 DEF Request
<1> QED
  BY <1>2, <1>3, <1>4

LEMMA MineFacts ==
    ASSUME IInv, up, NEW u
    PROVE  /\ ItemList(OfUser(items, u))
           /\ \A i \in DOMAIN OfUser(items, u) : OfUser(items, u)[i].user = u
           /\ ~forgot => \A a \in acked : a.user = u =>
                            \E i \in DOMAIN OfUser(items, u) : OfUser(items, u)[i].n = a.n
<1> DEFINE K == {i \in DOMAIN items : items[i].user = u}
           mine == OfUser(items, u)
<1>1. mine = Those(items, K)
  BY DEF OfUser
<1>2. \A i \in K : items[i].user = u
  OBVIOUS
<1>3. \A i \in DOMAIN items : items[i].user = u => i \in K
  OBVIOUS
<1> HIDE DEF K, mine
<1>4. /\ ItemList(mine)
      /\ \A j \in DOMAIN mine : \E i \in DOMAIN items : i \in K /\ mine[j] = items[i]
      /\ \A i \in DOMAIN items : i \in K => \E j \in DOMAIN mine : mine[j] = items[i]
  BY <1>1, ThoseItems DEF IInv
<1>5. \A j \in DOMAIN mine : mine[j].user = u
  BY <1>2, <1>4
<1>6. ASSUME ~forgot, NEW a \in acked, a.user = u PROVE \E j \in DOMAIN mine : mine[j].n = a.n
  <2>1. PICK i \in DOMAIN items : items[i].n = a.n /\ items[i].user = a.user
    BY <1>6 DEF IInv, Holds
  <2>2. PICK j \in DOMAIN mine : mine[j] = items[i]
    BY <1>3, <1>4, <1>6, <2>1
  <2> QED
    BY <2>1, <2>2
<1> QED
  BY <1>4, <1>5, <1>6 DEF mine

LEMMA AskStep ==
    ASSUME LInv, NEW u \in Users, NEW sent \in PlanRequests, Ask(u, sent)
    PROVE  LInv'
<1> DEFINE req == AsDomainRequest(sent)
           mine == OfUser(items, u)
           asked == [pc |-> "waiting", req |-> req, mine |-> mine, known |-> acked,
                     prompt |-> Prompt(req, mine)]
           shown == [pc |-> "shown", req |-> req, mine |-> mine, known |-> acked,
                     answer |-> BuildResponse(req, <<>>, mine, FALSE), raw |-> <<>>]
<1>1. Request(req)
  BY PlanRequestsAssumption, DomainRequest
<1>2. /\ ItemList(mine) /\ \A i \in DOMAIN mine : mine[i].user = u
      /\ ~forgot => \A a \in acked : a.user = u => \E i \in DOMAIN mine : mine[i].n = a.n
  BY MineFacts DEF Ask, LInv
<1>3. screen' = [screen EXCEPT ![u] = IF req.ai THEN asked ELSE shown]
  BY DEF Ask
<1> HIDE DEF req, mine
<1>4. req.ai => OnScreen(asked, u, forgot)
  <2>1. Prepared(asked, u, forgot)
    BY <1>1, <1>2 DEF Prepared
  <2> QED
    BY <2>1 DEF OnScreen
<1>5. OnScreen(shown, u, forgot)
  <2>1. Prepared(shown, u, forgot)
    BY <1>1, <1>2 DEF Prepared
  <2>2. RawAnswer(<<>>)
    BY DEF RawAnswer, IsList
  <2> QED
    BY <2>1, <2>2 DEF OnScreen
<1> HIDE DEF asked, shown
<1>6. Screens'
  <2> DEFINE new == IF req.ai THEN asked ELSE shown
  <2>1. OnScreen(new, u, forgot)
    BY <1>4, <1>5
  <2>2. screen' = [screen EXCEPT ![u] = new] /\ forgot' = forgot
    BY <1>3 DEF Ask
  <2> HIDE DEF new
  <2> QED
    BY <2>1, <2>2, ScreenSet DEF LInv
<1>7. IInv'
  BY StoreUntouched DEF Ask, LInv
<1> QED
  BY <1>6, <1>7 DEF LInv

LEMMA AnswerStep ==
    ASSUME LInv, NEW u \in Users, NEW raw \in RawAnswers, Answer(u, raw)
    PROVE  LInv'
<1> DEFINE s == screen[u]
           shown == [pc |-> "shown", req |-> s.req, mine |-> s.mine, known |-> s.known,
                     answer |-> BuildResponse(s.req, raw, s.mine, FALSE), raw |-> raw]
<1>1. screen' = [screen EXCEPT ![u] = shown] /\ forgot' = forgot
  BY DEF Answer
<1>2. Prepared(s, u, forgot)
  BY DEF LInv, Screens, OnScreen, Answer
<1>3. RawAnswer(raw)
  BY RawAnswersAssumption
<1>4. Prepared(shown, u, forgot)
  <2> HIDE DEF s
  <2> QED
    BY <1>2 DEF Prepared
<1>5. OnScreen(shown, u, forgot)
  <2> HIDE DEF s
  <2> QED
    BY <1>3, <1>4 DEF OnScreen
<1> HIDE DEF shown
<1>6. Screens'
  BY <1>1, <1>5, ScreenSet DEF LInv
<1>7. IInv'
  BY StoreUntouched DEF Answer, LInv
<1> QED
  BY <1>6, <1>7 DEF LInv

LEMMA FailStep == ASSUME LInv, NEW u \in Users, Fail(u) PROVE LInv'
<1>1. screen' = [screen EXCEPT ![u] = NoPlan] /\ forgot' = forgot
  BY DEF Fail
<1>2. OnScreen(NoPlan, u, forgot)
  BY DEF OnScreen, NoPlan
<1> HIDE DEF NoPlan
<1>3. Screens'
  BY <1>1, <1>2, ScreenSet DEF LInv
<1>4. IInv'
  BY StoreUntouched DEF Fail, LInv
<1> QED
  BY <1>3, <1>4 DEF LInv

\* The answer on a device is sound.
LEMMA ShownSound ==
    ASSUME Screens, NEW u \in Users, Shows(u)
    PROVE  /\ Prepared(screen[u], u, forgot)
           /\ Sound(screen[u].answer, screen[u].raw, screen[u].req, screen[u].mine)
<1> DEFINE s == screen[u]
<1>1. Prepared(s, u, forgot) /\ RawAnswer(s.raw) /\ s.answer = BuildResponse(s.req, s.raw, s.mine, FALSE)
  BY DEF Screens, OnScreen, Shows
<1> HIDE DEF s
<1>2. Sound(s.answer, s.raw, s.req, s.mine)
  BY <1>1, BuildFacts DEF Prepared
<1> QED
  BY <1>1, <1>2 DEF s

\* What feedback on the i-th suggestion of a plan records.
Given(u, i, reaction) ==
    LET s == screen[u].answer.plan[i]
        reason == RejectionReason(reaction.status, reaction.reason, reaction.hint)
    IN  [n |-> made + 1, user |-> u, id |-> s.id, status |-> reaction.status,
         repeated |-> reaction.repeated, targets |-> s.targets, type |-> s.type,
         key |-> ResolveKey(s.id, s.targets, s.type, screen[u].answer.keys),
         reason |-> reason,
         effort |-> EffortFeedback(reaction.status, reaction.effort, reason),
         note |-> FALSE]

LEMMA GivenFacts ==
    ASSUME LInv, NEW u \in Users, NEW i, NEW reaction \in Reactions, NEW written,
           Feedback(u, i, reaction, written)
    PROVE  LET item == Given(u, i, reaction) IN
           /\ Record(item, written) /\ Item(item) /\ ~item.note /\ item.user = u
           /\ up /\ Shows(u)
           /\ \E j \in DOMAIN screen[u].answer.plan :
                /\ screen[u].answer.plan[j].id = item.id
                /\ KeyOf(screen[u].answer.plan[j]) = item.key
<1> DEFINE item == Given(u, i, reaction)
           plan == screen[u].answer.plan
           keys == screen[u].answer.keys
           s == plan[i]
<1>1. Record(item, written) /\ up /\ Shows(u) /\ i \in DOMAIN plan
  BY DEF Feedback, Given
<1>2. Suggestions(plan) /\ KeysTrue(plan, keys)
  BY <1>1, ShownSound DEF LInv, Sound
<1>3. Suggestion(s)
  BY <1>1, <1>2 DEF Suggestions
<1>4. reaction.status \in Statuses
  BY ReactionsAssumption
<1>5. /\ DOMAIN item = {"n", "user", "id", "status", "repeated", "targets", "type", "key", "reason", "effort", "note"}
      /\ item.user = u /\ item.status = reaction.status /\ item.targets = s.targets /\ ~item.note
      /\ item.id = s.id /\ item.key = ResolveKey(s.id, s.targets, s.type, keys)
  BY DEF Given
<1> HIDE DEF item, plan, keys
<1>6. Item(item)
  BY <1>3, <1>4, <1>5 DEF Item, Suggestion
<1>7. \E j \in DOMAIN plan : plan[j].id = item.id /\ KeyOf(plan[j]) = item.key
  <2>1. CASE s.id \in DOMAIN keys
    BY <1>2, <1>5, <2>1 DEF KeysTrue, ResolveKey
  <2>2. CASE s.id \notin DOMAIN keys
    <3>1. item.key = KeyOf(s) /\ item.id = s.id
      BY <1>5, <2>2 DEF ResolveKey, KeyOf
    <3> QED
      BY <1>1, <3>1
  <2> QED
    BY <2>1, <2>2
<1> QED
  BY <1>1, <1>5, <1>6, <1>7 DEF item, plan

LEMMA FeedbackStep ==
    ASSUME LInv, NEW u \in Users, NEW i, NEW reaction \in Reactions, NEW written \in BOOLEAN,
           Feedback(u, i, reaction, written)
    PROVE  LInv'
<1> DEFINE item == Given(u, i, reaction)
<1>1. Record(item, written) /\ Item(item) /\ ~item.note
  BY GivenFacts
<1>2. up /\ up' = up /\ forgot' = forgot /\ screen' = screen
  BY DEF Feedback
<1> HIDE DEF item
<1>3. IInv'
  BY <1>1, <1>2, RecordStep DEF LInv
<1>4. Screens'
  BY <1>2, <1>3, ScreensKept DEF LInv
<1> QED
  BY <1>3, <1>4 DEF LInv

LEMMA NextLInv == LInv /\ [Next]_vars => LInv'
<1> SUFFICES ASSUME LInv, [Next]_vars PROVE LInv'
  OBVIOUS
<1>1. CASE UNCHANGED vars
  <2>1. IInv'
    BY <1>1, StoreUntouched DEF vars, LInv
  <2> QED
    BY <1>1, <2>1, ScreensKept DEF vars, LInv
<1>2. ASSUME NEW readable \in BOOLEAN, Start(readable) PROVE LInv'
  <2>1. screen' = screen /\ (forgot => forgot')
    BY <1>2 DEF Start, LInv, IInv
  <2>2. IInv'
    BY <1>2, StartStep DEF LInv
  <2> QED
    BY <2>1, <2>2, ScreensKept DEF LInv
<1>3. CASE Stop
  <2>1. DOMAIN screen' = Users /\ forgot' = forgot
    BY <1>3 DEF Stop
  <2>2. ASSUME NEW u \in Users PROVE OnScreen(screen'[u], u, forgot')
    <3> DEFINE x == screen'[u]
    <3>1. x = IF Shows(u) THEN screen[u] ELSE NoPlan
      BY <1>3 DEF Stop
    <3> HIDE DEF x
    <3>2. OnScreen(screen[u], u, forgot) /\ OnScreen(NoPlan, u, forgot)
      BY DEF LInv, Screens, OnScreen, NoPlan
    <3>3. OnScreen(x, u, forgot)
      BY <3>1, <3>2
    <3> QED
      BY <2>1, <3>3 DEF x
  <2>3. Screens'
    BY <2>1, <2>2 DEF Screens
  <2> QED
    BY <1>3, <2>3, StopStep DEF LInv
<1>4. ASSUME NEW u \in Users, NEW req \in PlanRequests, Ask(u, req) PROVE LInv'
  BY <1>4, AskStep
<1>5. ASSUME NEW u \in Users, NEW raw \in RawAnswers, Answer(u, raw) PROVE LInv'
  BY <1>5, AnswerStep
<1>6. ASSUME NEW u \in Users, Fail(u) PROVE LInv'
  BY <1>6, FailStep
<1>7. ASSUME NEW u \in Users, NEW i \in 1..3, NEW reaction \in Reactions, NEW written \in BOOLEAN,
             Feedback(u, i, reaction, written)
      PROVE LInv'
  BY <1>7, FeedbackStep
<1> QED
  BY <1>1, <1>2, <1>3, <1>4, <1>5, <1>6, <1>7 DEF Next

LEMMA Invariance == Spec => []LInv
BY InitLInv, NextLInv, PTL DEF Spec

-----------------------------------------------------------------------------
\* Whatever writes fail and however often the gateway restarts, feedback the
\* gateway answered with 200 is in the file, unless a start could not read it.
THEOREM FeedbackIsDurable == Spec => []AckedIsDurable
<1>1. LInv => AckedIsDurable
  BY DEF LInv, IInv, Holds, AckedIsDurable, NumbersIn
<1> QED
  BY <1>1, Invariance, PTL

\* A store that has loaded its file keeps no raw note, in memory or on disk.
THEOREM NotesAreGone == Spec => []NotesGone
<1>1. LInv => NotesGone
  BY DEF LInv, IInv, NoNotes, NotesGone
<1> QED
  BY <1>1, Invariance, PTL

\* The file is always a beginning of the list in memory.
THEOREM DiskIsAPrefix == Spec => []DiskFollowsMemory
<1>1. ASSUME LInv PROVE DiskFollowsMemory
  <2> SUFFICES ASSUME up, ~forgot PROVE IsPrefix(file, items)
    BY DEF DiskFollowsMemory
  <2>1. /\ Starts(file, items)
        /\ Len(file) \in Nat /\ Len(items) \in Nat
    BY <1>1, ListFacts DEF LInv, IInv, ItemList
  <2>2. \A i \in 1..Len(file) : file[i] = items[i]
    BY <2>1 DEF Starts
  <2>3. SubSeq(file, 1, Len(file)) = SubSeq(items, 1, Len(file))
    BY <2>1, <2>2
  <2> QED
    BY <2>1, <2>3 DEF IsPrefix, Starts
<1> QED
  BY <1>1, Invariance, PTL

-----------------------------------------------------------------------------
\* A plan is made with all the acknowledged feedback of its user and nobody
\* else's, however restarts and failed writes fall around the request.
THEOREM PlansKnowFeedback == Spec => []PlanKnowsFeedback
<1>1. ASSUME LInv PROVE PlanKnowsFeedback
  <2> SUFFICES ASSUME NEW u \in Users, screen[u].pc # "none"
               PROVE  /\ \A i \in DOMAIN screen[u].mine : screen[u].mine[i].user = u
                      /\ ~forgot => \A a \in screen[u].known :
                                       a.user = u => a.n \in NumbersIn(screen[u].mine)
    BY DEF PlanKnowsFeedback
  <2> DEFINE s == screen[u]
  <2>1. Prepared(s, u, forgot)
    BY <1>1 DEF LInv, Screens, OnScreen
  <2> HIDE DEF s
  <2>2. /\ \A i \in DOMAIN s.mine : s.mine[i].user = u
        /\ ~forgot => \A a \in s.known : a.user = u => a.n \in NumbersIn(s.mine)
    BY <2>1 DEF Prepared, NumbersIn
  <2> QED
    BY <2>2 DEF s
<1> QED
  BY <1>1, Invariance, PTL

\* The domains a prompt tells of are among those that may leave the device.
Within(req, prompt) ==
    LET open == {e.domain : e \in {e \in req.events : e.level = "ai_allowed"}}
        told == {e.domain : e \in prompt.events} \cup (UNION prompt.patterns)
                  \cup (IF req.summaries = <<>> THEN ToSet(prompt.summaries) ELSE {})
    IN  told \subseteq open /\ \A d \in told : Consents(req, d)

LEMMA PromptOpen ==
    ASSUME NEW req, Request(req), NEW m, req.ai
    PROVE  Within(req, Prompt(req, m))
<1> DEFINE open == {e.domain : e \in {e \in req.events : e.level = "ai_allowed"}}
           p == Prompt(req, m)
           active == ActiveDomains(req)
           told == {e.domain : e \in p.events} \cup (UNION p.patterns)
                     \cup (IF req.summaries = <<>> THEN ToSet(p.summaries) ELSE {})
<1>1. p.events = AllowedEvents(req) /\ p.patterns = Patterns(req) /\ p.summaries = Summaries(req)
  BY DEF Prompt
<1>2. active \subseteq open /\ \A d \in active : Consents(req, d)
  BY DEF ActiveDomains, AllowedEvents
<1>3. {e.domain : e \in AllowedEvents(req)} = active
  BY DEF ActiveDomains
<1>4. UNION Patterns(req) \subseteq active
  BY DEF Patterns
<1>5. req.summaries = <<>> => ToSet(Summaries(req)) \subseteq active
  <2> SUFFICES ASSUME req.summaries = <<>> PROVE ToSet(Summaries(req)) \subseteq active
    OBVIOUS
  <2> DEFINE q == SetToSeq(active)
  <2>1. q \in Seq(active)
    BY ActiveFinite, SetSeq
  <2>2. Summaries(req) = q
    BY DEF Summaries
  <2> HIDE DEF q, active
  <2>3. ToSet(q) \subseteq active
    BY <2>1 DEF ToSet
  <2> QED
    BY <2>2, <2>3
<1> HIDE DEF p, active, open
<1>6. told \subseteq active
  <2> HIDE DEF active
  <2> QED
    BY <1>1, <1>3, <1>4, <1>5
<1> HIDE DEF told
<1>7. told \subseteq open /\ \A d \in told : Consents(req, d)
  BY <1>2, <1>6
<1> QED
  BY <1>7 DEF told, open, p, Within

\* A prompt that is with the provider tells of no domain outside the consent
\* and of none that is to stay on the device, and is sent for AI users only.
THEOREM PromptsAreConsented == Spec => []PromptIsConsented
<1>1. ASSUME LInv PROVE PromptIsConsented
  <2> DEFINE Consented(s) == s.req.ai /\ Within(s.req, s.prompt)
  <2>1. ASSUME NEW u \in Users, screen[u].pc = "waiting" PROVE Consented(screen[u])
    <3> DEFINE s == screen[u]
    <3>1. Prepared(s, u, forgot) /\ s.req.ai /\ s.prompt = Prompt(s.req, s.mine)
      BY <1>1, <2>1 DEF LInv, Screens, OnScreen
    <3> HIDE DEF s
    <3>2. Request(s.req)
      BY <3>1 DEF Prepared
    <3>3. Consented(s)
      BY <3>1, <3>2, PromptOpen
    <3> QED
      BY <3>3 DEF s
  <2> QED
    BY <2>1 DEF PromptIsConsented, Within
<1> QED
  BY <1>1, Invariance, PTL

\* Whatever the provider answers, the plan on a device is reviewed, in the
\* order of its scores, and live only when it is the provider's alone.
THEOREM PlansAreSound == Spec => []PlanIsSound
<1>1. ASSUME LInv PROVE PlanIsSound
  <2>1. ASSUME NEW u \in Users, Shows(u)
        PROVE  Sound(screen[u].answer, screen[u].raw, screen[u].req, screen[u].mine)
    BY <1>1, <2>1, ShownSound DEF LInv
  <2>2. ShownIsReviewed
    BY <2>1 DEF ShownIsReviewed, Sound, Cleared
  <2>3. ShownByScore
    <3> SUFFICES ASSUME NEW u \in Users, Shows(u)
                 PROVE  InOrder(screen[u].answer.plan, screen[u].raw, screen[u].req, screen[u].mine)
      BY DEF ShownByScore, InOrder
    <3> QED
      BY <2>1 DEF Sound
  <2>4. LiveIsReal
    BY <2>1 DEF LiveIsReal, Sound
  <2> QED
    BY <2>2, <2>3, <2>4 DEF PlanIsSound
<1> QED
  BY <1>1, Invariance, PTL

-----------------------------------------------------------------------------
\* The list of a running store grows by feedback alone.
LEMMA GrowthIsFeedback ==
    ASSUME LInv, Next, up, Len(items') > Len(items)
    PROVE  \E u \in Users, i \in 1..3, reaction \in Reactions, written \in BOOLEAN :
             Feedback(u, i, reaction, written)
<1>1. Len(items) \in Nat /\ Len(<<>>) = 0
  BY ListFacts DEF LInv, IInv, ItemList
<1>2. items' # items /\ items' # <<>>
  BY <1>1
<1> QED
  BY <1>2 DEF Next, Start, Stop, Ask, Answer, Fail

\* The item a step of feedback adds.
LEMMA Grown ==
    ASSUME LInv, Next, up, Len(items') > Len(items)
    PROVE  \E u \in Users : \E item :
             /\ item.user = u /\ Item(item) /\ Shows(u) /\ IsList(items)
             /\ items' = Append(items, item) /\ items'[Len(items')] = item
             /\ \E j \in DOMAIN screen[u].answer.plan :
                  /\ screen[u].answer.plan[j].id = item.id
                  /\ KeyOf(screen[u].answer.plan[j]) = item.key
<1> PICK u \in Users, i \in 1..3, reaction \in Reactions, written \in BOOLEAN :
        Feedback(u, i, reaction, written)
  BY GrowthIsFeedback
<1> DEFINE item == Given(u, i, reaction)
<1>1. /\ Record(item, written) /\ Item(item) /\ item.user = u /\ Shows(u)
      /\ \E j \in DOMAIN screen[u].answer.plan :
           /\ screen[u].answer.plan[j].id = item.id
           /\ KeyOf(screen[u].answer.plan[j]) = item.key
  BY GivenFacts
<1> HIDE DEF item
<1>2. items' = Append(items, item) /\ IsList(items)
  BY <1>1 DEF Record, LInv, IInv, ItemList
<1>3. items'[Len(items')] = item
  BY <1>2, AppendFacts
<1> QED
  BY <1>1, <1>2, <1>3

\* Feedback is filed under the pattern of a suggestion shown with its id, for
\* any two suggestions that share one.
THEOREM LearningIsTrue == Spec => LearnedAsShown
<1> DEFINE Learned ==
      Len(items') > Len(items) /\ up =>
        LET item == items'[Len(items')] IN
        \E i \in DOMAIN screen[item.user].answer.plan :
            LET s == screen[item.user].answer.plan[i] IN s.id = item.id /\ KeyOf(s) = item.key
<1>1. LInv /\ [Next]_vars => Learned \/ UNCHANGED items
  <2> SUFFICES ASSUME LInv, Next, up, Len(items') > Len(items) PROVE Learned
    BY DEF vars
  <2> QED
    BY Grown
<1>2. LInv /\ [Next]_vars => [Learned]_items
  BY <1>1
<1> QED
  BY <1>2, Invariance, PTL DEF Spec, LearnedAsShown

LEMMA RejectedIsOld ==
    ASSUME NEW m, ItemList(m), NEW x, Item(x), x.status = "rejected", NEW c, KeyOf(c) = x.key
    PROVE  Novelty(c, Append(m, x)) = 1600
<1> DEFINE r == Append(m, x)
           n == Len(m)
           K == {i \in DOMAIN r : r[i].key = KeyOf(c)}
           known == OfKey(r, KeyOf(c))
           start == IF Len(r) > 5 THEN Len(r) - 4 ELSE 1
           recent == Recent(r)
<1>1. /\ ItemList(r) /\ Len(r) = n + 1 /\ n \in Nat /\ DOMAIN r = 1..(n + 1) /\ r[n + 1] = x
  BY AppendItem
<1> HIDE DEF r, n
<1>2. n + 1 \in DOMAIN r /\ n + 1 \in K
  BY <1>1
<1>3. known = Those(r, K)
  BY DEF OfKey
<1> HIDE DEF K, known
<1>4. known # <<>>
  BY <1>1, <1>2, <1>3, ThoseItems
<1>5. start \in 1..(n + 1) /\ recent = SubSeq(r, start, n + 1)
  BY <1>1 DEF Recent
<1> HIDE DEF start, recent
<1>6. Len(recent) = n + 2 - start /\ recent[n + 2 - start] = r[n + 1] /\ n + 2 - start \in DOMAIN recent
  <2> DEFINE S == {r[i] : i \in DOMAIN r}
             k == n + 2 - start
  <2>1. r \in Seq(S)
    BY <1>1 DEF ItemList, IsList
  <2> HIDE DEF S
  <2>2. k \in Nat /\ k >= 1 /\ start + k - 1 = n + 1 /\ n + 1 - start + 1 = k
    BY <1>1, <1>5
  <2>3. Len(recent) = n + 1 - start + 1
    BY <1>1, <1>5, <2>1
  <2>4. \A j \in 1..Len(recent) : recent[j] = r[start + j - 1]
    BY <1>1, <1>5, <2>1
  <2>5. DOMAIN recent = 1..Len(recent)
    BY <1>1, <1>5, <2>1
  <2> QED
    BY <2>2, <2>3, <2>4, <2>5
<1>7. \E i \in DOMAIN recent : recent[i].key = KeyOf(c) /\ recent[i].status = "rejected"
  BY <1>1, <1>6
<1> QED
  BY <1>4, <1>7 DEF Novelty, known, recent, r

\* A suggestion whose pattern was just rejected scores no higher.
LEMMA RejectionLowers ==
    ASSUME NEW m, ItemList(m), NEW x, Item(x), x.status = "rejected",
           NEW c, Suggestion(c), KeyOf(c) = x.key, NEW req, Request(req)
    PROVE  Score(c, FeedbackDelta(c, Append(m, x)), req, Append(m, x))
             <= Score(c, FeedbackDelta(c, m), req, m)
<1> DEFINE r == Append(m, x)
<1>1. ItemList(r)
  BY AppendItem
<1>2. FeedbackDelta(c, r) <= FeedbackDelta(c, m)
  BY DeltaFalls
<1>3. Novelty(c, r) = 1600
  BY RejectedIsOld
<1> HIDE DEF r
<1>4. FeedbackDelta(c, r) \in Int /\ FeedbackDelta(c, m) \in Int
  BY <1>1, DeltaType
<1>5. Novelty(c, r) <= Novelty(c, m)
  BY <1>3, NoveltyRange
<1>6. Score(c, FeedbackDelta(c, r), req, r) <= Score(c, FeedbackDelta(c, m), req, m)
  BY <1>1, <1>2, <1>4, <1>5, ScoreFalls
<1> QED
  BY <1>6 DEF r

LEMMA MineGrows ==
    ASSUME NEW s, ItemList(s), NEW x, Item(x)
    PROVE  OfUser(Append(s, x), x.user) = Append(OfUser(s, x.user), x)
<1> DEFINE t == Append(s, x)
           K == {i \in DOMAIN s : s[i].user = x.user}
           L == {i \in DOMAIN t : t[i].user = x.user}
           R == {s[i] : i \in DOMAIN s}
           S == R \cup {x}
<1>1. /\ Len(s) \in Nat /\ DOMAIN s = 1..Len(s) /\ DOMAIN t = 1..(Len(s) + 1)
      /\ t[Len(s) + 1] = x /\ \A i \in 1..Len(s) : t[i] = s[i]
  BY AppendItem
<1>2. s \in Seq(R) /\ R \subseteq S /\ x \in S
  BY DEF ItemList, IsList
<1>3. OfUser(s, x.user) = Those(s, K) /\ OfUser(t, x.user) = Those(t, L)
  BY DEF OfUser
<1>4. \A i \in 1..Len(s) : i \in 1..(Len(s) + 1)
  BY <1>1
<1>5. Len(s) + 1 \in L /\ \A i \in 1..Len(s) : i \in K <=> i \in L
  <2> HIDE DEF t
  <2> QED
    BY <1>1, <1>4
<1> HIDE DEF K, L, R, S
<1>6. s \in Seq(S)
  BY <1>2
<1>7. Those(t, L) = Append(Those(s, K), x)
  BY <1>2, <1>5, <1>6, ThoseAppend
<1> QED
  BY <1>3, <1>7

\* Rejecting a suggestion never raises its score in the user's next plan,
\* whatever was learned before.
THEOREM RejectionsSink == Spec => RejectionSinks
<1> DEFINE Sinks ==
      \A u \in Users : Shows(u) /\ up /\ Len(items') > Len(items) =>
        LET item == items'[Len(items')]
            before == OfUser(items, u)
            after  == OfUser(items', u)
        IN  item.user = u /\ item.status = "rejected" =>
              \A i \in DOMAIN screen[u].answer.plan :
                LET s == screen[u].answer.plan[i] IN
                s.id = item.id /\ KeyOf(s) = item.key =>
                  Score(s, FeedbackDelta(s, after), screen[u].req, after)
                    <= Score(s, FeedbackDelta(s, before), screen[u].req, before)
<1>1. LInv /\ [Next]_vars => Sinks \/ UNCHANGED items
  <2> SUFFICES ASSUME LInv, Next, up, Len(items') > Len(items), NEW u \in Users, Shows(u),
                      items'[Len(items')].user = u, items'[Len(items')].status = "rejected",
                      NEW i \in DOMAIN screen[u].answer.plan,
                      KeyOf(screen[u].answer.plan[i]) = items'[Len(items')].key
               PROVE  Score(screen[u].answer.plan[i],
                            FeedbackDelta(screen[u].answer.plan[i], OfUser(items', u)),
                            screen[u].req, OfUser(items', u))
                        <= Score(screen[u].answer.plan[i],
                                 FeedbackDelta(screen[u].answer.plan[i], OfUser(items, u)),
                                 screen[u].req, OfUser(items, u))
    BY DEF vars
  <2> DEFINE c == screen[u].answer.plan[i]
             req == screen[u].req
             mine == OfUser(items, u)
  <2>1. PICK item : Item(item) /\ items' = Append(items, item) /\ items'[Len(items')] = item
    BY Grown
  <2>2. item.user = u /\ item.status = "rejected" /\ KeyOf(c) = item.key
    BY <2>1
  <2>3. Suggestion(c) /\ Request(req)
    <3>1. Prepared(screen[u], u, forgot) /\ Suggestions(screen[u].answer.plan)
      BY ShownSound DEF LInv, Sound
    <3> QED
      BY <3>1 DEF Suggestions, Prepared
  <2>4. OfUser(items', u) = Append(mine, item)
    BY <2>1, <2>2, MineGrows DEF LInv, IInv
  <2>5. ItemList(mine)
    BY MineFacts DEF LInv
  <2> HIDE DEF c, req, mine
  <2>6. Score(c, FeedbackDelta(c, Append(mine, item)), req, Append(mine, item))
          <= Score(c, FeedbackDelta(c, mine), req, mine)
    BY <2>1, <2>2, <2>3, <2>5, RejectionLowers
  <2> QED
    BY <2>4, <2>6 DEF c, req, mine
<1>2. LInv /\ [Next]_vars => [Sinks]_items
  BY <1>1
<1> QED
  BY <1>2, Invariance, PTL DEF Spec, RejectionSinks
=============================================================================
