---------------------------- MODULE MissionLearning ----------------------------
(***************************************************************************)
(* The feedback loop of the gateway: a user asks for a plan, the plan is   *)
(* ranked with what the user's earlier feedback taught, the user gives     *)
(* feedback on what was shown, and MissionFeedbackStore keeps it in memory *)
(* and in one JSON file.  The provider answers late, writes of the file    *)
(* fail, and the gateway process stops and starts again.                   *)
(***************************************************************************)
EXTENDS MissionGraph

CONSTANTS
    Users,       \* user ids
    PlanRequests, \* the requests a user may send
    RawAnswers,  \* what the provider may answer: sequences of raw candidates
    Reactions,   \* [status, repeated, reason, hint, effort] a user may send
    OldFiles,    \* what the feedback file may hold before the first start
    MaxItems,    \* bound: feedback items recorded
    MaxStops     \* bound: stops of the process

\* A request as its schema admits it.
Request(r) ==
    /\ {"user", "ai", "consent", "cross", "events", "summaries", "max", "required", "extra"}
         \subseteq DOMAIN r
    /\ r.ai \in BOOLEAN /\ r.max \in Nat /\ IsList(r.summaries)
    /\ IsFiniteSet(r.events) /\ IsFiniteSet(r.consent) /\ IsFiniteSet(r.extra)

\* A suggestion, raw or reviewed.
Suggestion(c) ==
    /\ {"form", "id", "targets", "type", "evidence", "conf", "flaw", "confirm"} \subseteq DOMAIN c
    /\ IsList(c.targets) /\ c.conf \in Int
    /\ IsList(c.evidence) /\ \A i \in DOMAIN c.evidence : c.evidence[i].conf \in Int

\* What the provider sends is never marked as made here.
RawAnswer(raw) ==
    /\ IsList(raw)
    /\ \A i \in DOMAIN raw : Suggestion(raw[i]) /\ raw[i].form \in {"valid", "legacy", "junk", "breaks"}

\* A feedback item as this gateway, or an older one, records it.
Item(x) ==
    /\ {"n", "user", "id", "status", "repeated", "targets", "type", "key", "note"} \subseteq DOMAIN x
    /\ x.status \in Statuses /\ IsList(x.targets)

ItemList(s) == IsList(s) /\ \A i \in DOMAIN s : Item(s[i])

ASSUME PlanRequestsAssumption == \A r \in PlanRequests : Request(r)
ASSUME RawAnswersAssumption == \A raw \in RawAnswers : RawAnswer(raw)
ASSUME ReactionsAssumption == \A r \in Reactions : r.status \in Statuses
ASSUME OldFilesAssumption == \A f \in OldFiles : ItemList(f)

VARIABLES
    items,     \* MissionFeedbackStore._items while the process runs
    file,      \* the stored JSON: a sequence of items
    up,        \* is the process running
    screen,    \* per user: the request in flight and the plan on the device
    acked,     \* history: number and user of the items answered with 200
    made,      \* number of items made so far
    forgot,    \* history: a start could not read the file
    stops

vars == <<items, file, up, screen, acked, made, forgot, stops>>

\* `mine` is the feedback the request in flight was prepared with, `known`
\* the user's acknowledged items when it was sent.
NoPlan == [pc |-> "none"]
Shows(u) == screen[u].pc = "shown"

(* The store. *)

\* _load(): raw notes of older versions are dropped, their presence kept.
Loaded(content) == [i \in DOMAIN content |-> [content[i] EXCEPT !.note = FALSE]]

\* Mutant: the file is written before the item is in the list.
PersistStale(content) == file' = items

\* _persist(): a temporary file replaces the old one, or the write fails.
Persist(content) == file' = content

\* __init__: a file that cannot be read or parsed counts as empty, and a
\* migrated one is written back before the process serves.
Start(readable) ==
    /\ ~up
    /\ up' = TRUE
    /\ forgot' = (forgot \/ ~readable)
    /\ items' = IF readable THEN Loaded(file) ELSE <<>>
    /\ IF readable /\ items' # file THEN Persist(items') ELSE UNCHANGED file
    /\ UNCHANGED <<screen, acked, made, stops>>

\* The process stops; a request in flight gets no answer.
Stop ==
    /\ up /\ stops < MaxStops
    /\ stops' = stops + 1 /\ up' = FALSE /\ items' = <<>>
    /\ screen' = [u \in Users |-> IF Shows(u) THEN screen[u] ELSE NoPlan]
    /\ UNCHANGED <<file, acked, made, forgot>>

(* Plans. *)

\* run_suggestions() reads the summary before anything is awaited.
Ask(u, sent) ==
    /\ up /\ sent.user = u /\ screen[u].pc # "waiting"
    /\ LET req == AsDomainRequest(sent)
           mine == OfUser(items, u)
           answer == BuildResponse(req, <<>>, mine, FALSE)
       IN  screen' = [screen EXCEPT ![u] =
             IF req.ai THEN [pc |-> "waiting", req |-> req, mine |-> mine, known |-> acked,
                             prompt |-> Prompt(req, mine)]
             ELSE [pc |-> "shown", req |-> req, mine |-> mine, known |-> acked,
                   answer |-> answer, raw |-> <<>>]]
    /\ UNCHANGED <<items, file, up, acked, made, forgot, stops>>

\* The provider answers: the rest of the pipeline runs without awaiting.
Answer(u, raw) ==
    /\ up /\ screen[u].pc = "waiting" /\ ~Breaks(raw)
    /\ LET s == screen[u]
       IN  screen' = [screen EXCEPT ![u] =
             [pc |-> "shown", req |-> s.req, mine |-> s.mine, known |-> s.known,
              answer |-> BuildResponse(s.req, raw, s.mine, FALSE), raw |-> raw]]
    /\ UNCHANGED <<items, file, up, acked, made, forgot, stops>>

\* 503 when the AI is unavailable, 500 when the answer breaks the repair.
Fail(u) ==
    /\ up /\ screen[u].pc = "waiting"
    /\ screen' = [screen EXCEPT ![u] = NoPlan]
    /\ UNCHANGED <<items, file, up, acked, made, forgot, stops>>

(* Feedback. *)

\* record(): the list grows first; when the write fails the caller gets an
\* error although the item counts from now on.
Record(item, written) ==
    /\ items' = Append(items, item)
    /\ IF written THEN Persist(items') ELSE UNCHANGED file
    /\ acked' = IF written THEN acked \cup {[n |-> item.n, user |-> item.user]} ELSE acked

\* The device sends its suggestion with the trace of the plan it shows.
Feedback(u, i, reaction, written) ==
    /\ up /\ Shows(u) /\ made < MaxItems /\ i \in DOMAIN screen[u].answer.plan
    /\ LET s == screen[u].answer.plan[i]
           reason == RejectionReason(reaction.status, reaction.reason, reaction.hint)
       IN  Record([n |-> made + 1, user |-> u, id |-> s.id, status |-> reaction.status,
                   repeated |-> reaction.repeated, targets |-> s.targets, type |-> s.type,
                   key |-> ResolveKey(s.id, s.targets, s.type, screen[u].answer.keys),
                   reason |-> reason,
                   effort |-> EffortFeedback(reaction.status, reaction.effort, reason),
                   note |-> FALSE], written)
    /\ made' = made + 1
    /\ UNCHANGED <<up, screen, forgot, stops>>

Init ==
    /\ up = FALSE /\ items = <<>> /\ file \in OldFiles
    /\ screen = [u \in Users |-> NoPlan]
    /\ acked = {} /\ made = 0 /\ forgot = FALSE /\ stops = 0

Next ==
    \/ \E readable \in BOOLEAN : Start(readable)
    \/ Stop
    \/ \E u \in Users :
        \/ \E req \in PlanRequests : Ask(u, req)
        \/ \E raw \in RawAnswers : Answer(u, raw)
        \/ Fail(u)
        \/ \E i \in 1..3, reaction \in Reactions, written \in BOOLEAN :
             Feedback(u, i, reaction, written)

Spec == Init /\ [][Next]_vars

(* Properties. *)

NumbersIn(seq) == {seq[i].n : i \in DOMAIN seq}

\* Whatever writes failed in between, the file of a running store is a
\* beginning of its list: _persist() never writes an item out of order, twice
\* or without those before it.
DiskFollowsMemory == up /\ ~forgot => IsPrefix(file, items)

\* Feedback answered with 200 is in the file, and stays there over failed
\* writes and restarts, as long as every start could read the file.
AckedIsDurable == ~forgot => \A a \in acked : a.n \in NumbersIn(file)

\* A plan is made with every acknowledged feedback of its user that was there
\* when it was asked for, and with no feedback of anybody else.
PlanKnowsFeedback ==
    \A u \in Users : screen[u].pc # "none" =>
        /\ \A i \in DOMAIN screen[u].mine : screen[u].mine[i].user = u
        /\ ~forgot => \A a \in screen[u].known :
                         a.user = u => a.n \in NumbersIn(screen[u].mine)

\* Once a store has been loaded, no raw note of an older version is left in
\* its list, nor in the file if it could be read.
NotesGone ==
    up => /\ \A i \in DOMAIN items : ~items[i].note
          /\ ~forgot => \A i \in DOMAIN file : ~file[i].note

\* While a request is with the provider, its prompt holds no event, pattern or
\* domain summary made here of a domain outside the request's consent, or of
\* events that are to stay local; and nobody's prompt is sent without AI.
PromptIsConsented ==
    \A u \in Users : screen[u].pc = "waiting" =>
        LET s == screen[u]
            open == {e.domain : e \in {e \in s.req.events : e.level = "ai_allowed"}}
            told == {e.domain : e \in s.prompt.events} \cup (UNION s.prompt.patterns)
                      \cup (IF s.req.summaries = <<>> THEN ToSet(s.prompt.summaries) ELSE {})
        IN  s.req.ai /\ told \subseteq open /\ \A d \in told : Consents(s.req, d)

\* Every suggestion on a device asks for confirmation, and one that came from
\* the provider passed the policies and cites evidence.
ShownIsReviewed ==
    \A u \in Users : Shows(u) =>
        LET plan == screen[u].answer.plan IN
        /\ Len(plan) <= screen[u].req.max
        /\ \A i \in DOMAIN plan : plan[i].confirm /\ plan[i].evidence # <<>> /\ plan[i].flaw = "none"

\* The provider's suggestions are shown before the local ones and by falling
\* score, where the score uses the feedback the plan was asked with.
ShownByScore ==
    \A u \in Users : Shows(u) =>
        LET s == screen[u]
            plan == s.answer.plan
            ScoreAt(i) == Score(plan[i], BiasOf(Normalised(s.raw), plan[i].id, s.mine), s.req, s.mine)
        IN  \A i, j \in DOMAIN plan : i < j /\ plan[j].form # "synth" =>
                plan[i].form # "synth" /\ ScoreAt(i) >= ScoreAt(j)

\* A plan reported as live is the provider's alone, for a user who allows AI.
LiveIsReal ==
    \A u \in Users : Shows(u) /\ screen[u].answer.source = "live" =>
        /\ screen[u].req.ai
        /\ \A i \in DOMAIN screen[u].answer.plan : screen[u].answer.plan[i].form # "synth"

\* The plan a user reads is reviewed, in the order of its scores, and says
\* truly where it comes from.
PlanIsSound == ShownIsReviewed /\ ShownByScore /\ LiveIsReal

\* Feedback is learned under the pattern of the suggestion it was given on,
\* although the device sends the map of the whole plan: the item just
\* recorded has the pattern of a suggestion shown with its id.
LearnedAsShown ==
    [][Len(items') > Len(items) /\ up =>
        LET item == items'[Len(items')] IN
        \E i \in DOMAIN screen[item.user].answer.plan :
            LET s == screen[item.user].answer.plan[i] IN s.id = item.id /\ KeyOf(s) = item.key]_items

\* Rejecting a suggestion never raises its score in the user's next plan.
RejectionSinks ==
    [][\A u \in Users : Shows(u) /\ up /\ Len(items') > Len(items) =>
        LET item == items'[Len(items')]
            before == OfUser(items, u)
            after  == OfUser(items', u)
        IN  item.user = u /\ item.status = "rejected" =>
              \A i \in DOMAIN screen[u].answer.plan :
                LET s == screen[u].answer.plan[i] IN
                s.id = item.id /\ KeyOf(s) = item.key =>
                  Score(s, FeedbackDelta(s, after), screen[u].req, after)
                    <= Score(s, FeedbackDelta(s, before), screen[u].req, before)]_items
=============================================================================
