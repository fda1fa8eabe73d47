------------------------------ MODULE BackendProofs ------------------------------
(***************************************************************************)
(* Proofs about the backend, for any constants its assumptions allow.      *)
(*                                                                         *)
(* OperationalRecords: the invariants of the run MCOperationalRecords and  *)
(* the refinement of RecordStore, from the inductive invariant IInv.  It   *)
(* says the same of the tables as the connection sees them and as they are *)
(* durable, and what the handler in progress has already committed; a step *)
(* that may break anywhere is dealt with once, in Committing.              *)
(*                                                                         *)
(* ControlPlane: the invariants and the action property of the run         *)
(* MCControlPlane, from the inductive invariant CInv.  It says of what the *)
(* connection sees and of what is stored alike that each table holds what  *)
(* may be wanted, and that the snapshots are selections of some of it;     *)
(* Through says the same of every statement of a run.                      *)
(***************************************************************************)
EXTENDS OperationalRecords, ControlPlane, ListProofs, SequenceTheorems, TLAPS

(* OperationalRecords. *)

\* An ingestion handler is inside its body, and at its end when it answers.
ItemInBody ==
    handler.op = "ingest" =>
        /\ handler.item \in 1..Len(Items[handler.post])
        /\ handler.step = "answer" => handler.item = Len(Items[handler.post])

\* Between the first commit and the last of a record, its user has a row.
UserEnsured == handler.step \in {"insert", "seen"} => lastSeen[Item.user] > 0

\* The records of the body that the handler has passed are durable.
Passed(i) == \/ i < handler.item
             \/ i = handler.item /\ handler.step \in {"seen", "answer"}

PassedStored ==
    handler.op = "ingest" =>
        \A i \in 1..Len(Items[handler.post]) :
            Passed(i) => Items[handler.post][i] \in durable.rows \cup gone

\* What is durable leaves the tables only erased or overwritten.
DurableKept == durable.rows \subseteq rows \cup gone

\* A bundle about to be handed out has its audit row.
BundleDue ==
    handler.op = "bundle" /\ handler.step = "answer" =>
        /\ bundles[handler.ticket] < audit["bundle"][handler.ticket]
        /\ bundles[handler.ticket] < durable.audit["bundle"][handler.ticket]

\* Every record belongs to a user of admin_users.
RowsKnown(seen, records) == \A r \in records : seen[r.user] > 0
BundlesIn(log) == \A t \in Tickets : bundles[t] <= log["bundle"][t]

\* What holds of the tables as they are seen holds of them as they are durable.
SeenHolds ==
    /\ RowsKnown(lastSeen, rows) /\ SeenCovers(lastSeen, rows)
    /\ ClosedOnceIn(status, audit) /\ BundlesIn(audit)
DurableHolds ==
    /\ RowsKnown(durable.lastSeen, durable.rows)
    /\ SeenCovers(durable.lastSeen, durable.rows)
    /\ ClosedOnceIn(durable.status, durable.audit) /\ BundlesIn(durable.audit)

IInv ==
    /\ TypeOK
    /\ ItemInBody /\ UserEnsured /\ PassedStored /\ DurableKept /\ BundleDue
    /\ SeenHolds /\ DurableHolds
    /\ AcceptedIsStored

-----------------------------------------------------------------------------
\* The step of a handler tells which of the three kinds it is.
LEMMA HandlerKinds ==
    ASSUME TypeOK
    PROVE  /\ handler.op = "ingest" => handler \in Ingesting
           /\ handler.step \in {"ensure", "insert", "seen"} => handler \in Ingesting
           /\ handler.step = "audit" => handler \in Serving
           /\ handler.op \in TicketOp => handler \in Serving
           /\ handler \in Ingesting => handler.op = "ingest" /\ handler # IdleHandler
           /\ handler \in Serving =>
                  handler.op \in TicketOp /\ handler.op # "ingest" /\ handler # IdleHandler
           /\ handler = IdleHandler => handler.op = "none" /\ handler.step = "none"
BY DEF TypeOK, Ingesting, Serving, IdleHandler, TicketOp, Closing

\* The record an ingestion handler is at is a record.
LEMMA ItemType ==
    ASSUME TypeOK, ItemInBody, handler.op = "ingest"
    PROVE  Item \in Row
<1>1. handler.post \in Posts
  BY HandlerKinds DEF Ingesting
<1>2. Items[handler.post] \in Seq(Row)
  BY <1>1, RecordsAssumption
<1> QED
  BY <1>2 DEF Item, ItemInBody

LEMMA InitIInv == Init => IInv
<1> SUFFICES ASSUME Init PROVE IInv
  OBVIOUS
<1> USE DEF Init
<1>1. lastSeen \in [Users -> 0..MaxTime] /\ rows = {}
      /\ status \in [Tickets -> {"open", "done"}] /\ audit \in [TicketOp -> [Tickets -> Nat]]
  BY RecordsAssumption
<1>2. durable \in Stored
  BY <1>1 DEF Contents, Stored
<1>3. TypeOK
  BY <1>1, <1>2, RecordsAssumption DEF TypeOK, IdleHandler, Call
<1>4. handler.op = "none" /\ handler.step = "none"
  BY DEF IdleHandler
<1>5. ItemInBody /\ UserEnsured /\ PassedStored /\ BundleDue
  BY <1>4 DEF ItemInBody, UserEnsured, PassedStored, BundleDue
<1>6. SeenHolds
  BY <1>4
     DEF SeenHolds, RowsKnown, SeenCovers, ClosedOnceIn, Closings, Auditing, Closing, BundlesIn,
         TicketOp
<1>7. DurableHolds /\ DurableKept
  BY <1>1, <1>6 DEF SeenHolds, DurableHolds, DurableKept, Contents
<1>8. AcceptedIsStored
  BY DEF AcceptedIsStored
<1> QED
  BY <1>3, <1>5, <1>6, <1>7, <1>8 DEF IInv

-----------------------------------------------------------------------------
\* A step that neither hands out a bundle, nor forgets a cut, nor starts to audit.
Undisturbed ==
    /\ UNCHANGED bundles
    /\ unseen \subseteq unseen' /\ cutClosings \subseteq cutClosings'
    /\ handler.step = "seen" => \/ handler'.step = "seen" /\ Item' = Item
                                \/ Item \in unseen'
    /\ \A t \in Tickets : /\ Auditing(t)' => Auditing(t)
                          /\ Auditing(t) => Auditing(t)' \/ t \in cutClosings'

\* What is durable and left alone stays as it was.
LEMMA DurableStays ==
    ASSUME DurableHolds, Undisturbed, durable' = durable
    PROVE  DurableHolds'
<1>1. RowsKnown(durable.lastSeen, durable.rows)' /\ BundlesIn(durable.audit)'
  BY DEF DurableHolds, RowsKnown, BundlesIn, Undisturbed
<1>2. SeenCovers(durable.lastSeen, durable.rows)'
  BY DEF DurableHolds, SeenCovers, Undisturbed
<1>3. ClosedOnceIn(durable.status, durable.audit)'
  BY DEF DurableHolds, ClosedOnceIn, Undisturbed, Closings
<1> QED
  BY <1>1, <1>2, <1>3 DEF DurableHolds

\* So does what is seen.
LEMMA SeenStays ==
    ASSUME SeenHolds, Undisturbed, UNCHANGED <<lastSeen, rows, status, audit>>
    PROVE  SeenHolds'
<1>1. RowsKnown(lastSeen, rows)' /\ BundlesIn(audit)'
  BY DEF SeenHolds, RowsKnown, BundlesIn, Undisturbed
<1>2. SeenCovers(lastSeen, rows)'
  BY DEF SeenHolds, SeenCovers, Undisturbed
<1>3. ClosedOnceIn(status, audit)'
  BY DEF SeenHolds, ClosedOnceIn, Undisturbed, Closings
<1> QED
  BY <1>1, <1>2, <1>3 DEF SeenHolds

\* A commit makes durable what holds.
LEMMA CommitHolds ==
    ASSUME SeenHolds', durable' = Contents'
    PROVE  DurableHolds' /\ DurableKept'
<1>1. /\ durable'.lastSeen = lastSeen' /\ durable'.rows = rows'
      /\ durable'.status = status' /\ durable'.audit = audit'
  BY DEF Contents
<1>2. RowsKnown(durable.lastSeen, durable.rows)' /\ BundlesIn(durable.audit)'
  BY <1>1 DEF SeenHolds, RowsKnown, BundlesIn
<1>3. SeenCovers(durable.lastSeen, durable.rows)'
  BY <1>1 DEF SeenHolds, SeenCovers
<1>4. ClosedOnceIn(durable.status, durable.audit)'
  BY <1>1 DEF SeenHolds, ClosedOnceIn, Closings
<1> QED
  BY <1>1, <1>2, <1>3, <1>4 DEF DurableHolds, DurableKept

\* The durable tables have their types after a commit.
LEMMA CommitType ==
    ASSUME lastSeen' \in [Users -> 0..MaxTime], rows' \subseteq Row,
           status' \in [Tickets -> {"open", "done"}],
           audit' \in [TicketOp -> [Tickets -> Nat]], durable' = Contents'
    PROVE  durable' \in Stored
BY DEF Contents, Stored

\* Of an idle handler there is nothing to say.
LEMMA IdleHolds ==
    ASSUME handler' = IdleHandler
    PROVE  /\ (ItemInBody /\ UserEnsured /\ PassedStored /\ BundleDue)'
           /\ \A t \in Tickets : ~Auditing(t)'
           /\ handler' \in Ingesting \cup Serving \cup {IdleHandler}
BY DEF IdleHandler, ItemInBody, UserEnsured, PassedStored, BundleDue, Auditing, Closing

\* What was accepted stays, if what is stored is only erased or overwritten.
LEMMA AcceptedStays ==
    ASSUME AcceptedIsStored, \A p \in Posts : client'[p].pc = "true" => client[p].pc = "true",
           durable.rows \cup gone \subseteq durable'.rows \cup gone'
    PROVE  AcceptedIsStored'
BY DEF AcceptedIsStored

\* So was what the handler has passed.
LEMMA PassedStays ==
    ASSUME PassedStored, UNCHANGED handler,
           durable.rows \cup gone \subseteq durable'.rows \cup gone'
    PROVE  PassedStored'
BY DEF PassedStored, Passed

-----------------------------------------------------------------------------
\* A step of the gateway's client changes nothing at the backend; it turns a
\* call to True never.
LEMMA ClientStep ==
    ASSUME IInv, Client
    PROVE  IInv'
<1> USE DEF IInv, historyVars, tableVars
<1>1. UNCHANGED <<lastSeen, rows, status, audit, durable, handler>> /\ UNCHANGED historyVars
  BY DEF Client, Send, Retry, GiveUp, GatewayDies, Lose
<1>2. inbox' \subseteq Posts \X (1..MaxAttempts) /\ client' \in [Posts -> Call]
  <2>1. ASSUME NEW p \in Posts, Send(p) PROVE <1>2!1 /\ <1>2!2
    BY <2>1, RecordsAssumption DEF Send, TypeOK, Call
  <2>2. ASSUME NEW p \in Posts, Retry(p) PROVE <1>2!1 /\ <1>2!2
    <3>1. client[p] \in Call
      BY DEF TypeOK
    <3>2. PICK n \in 1..MaxAttempts : n = client[p].attempt + 1
      BY <2>2, <3>1, RecordsAssumption DEF Retry, Call
    <3>3. n \in 0..MaxAttempts
      BY <3>2, RecordsAssumption
    <3>4. [client[p] EXCEPT !.attempt = n] \in Call
      BY <3>1, <3>3 DEF Call
    <3> QED
      BY <2>2, <3>2, <3>4 DEF Retry, TypeOK
  <2>3. ASSUME NEW p \in Posts, GiveUp(p) PROVE <1>2!1 /\ <1>2!2
    BY <2>3 DEF GiveUp, TypeOK, Call
  <2>4. ASSUME NEW p \in Posts, GatewayDies(p) PROVE <1>2!1 /\ <1>2!2
    BY <2>4 DEF GatewayDies, TypeOK, Call
  <2>5. ASSUME NEW m \in inbox, Lose(m) PROVE <1>2!1 /\ <1>2!2
    BY <2>5 DEF Lose, TypeOK
  <2> QED
    BY <2>1, <2>2, <2>3, <2>4, <2>5 DEF Client
<1>3. \A p \in Posts : client'[p].pc = "true" => client[p].pc = "true"
  <2>1. ASSUME NEW q \in Posts, client'[q].pc = "true",
               NEW p \in Posts, Send(p) \/ Retry(p) \/ GiveUp(p) \/ GatewayDies(p)
        PROVE  client[q].pc = "true"
    <3>1. CASE q = p
      BY <2>1, <3>1 DEF Send, Retry, GiveUp, GatewayDies, TypeOK, Call
    <3>2. CASE q # p
      BY <2>1, <3>2 DEF Send, Retry, GiveUp, GatewayDies, TypeOK
    <3> QED
      BY <3>1, <3>2
  <2>2. ASSUME NEW m \in inbox, Lose(m) PROVE client' = client
    BY <2>2 DEF Lose
  <2> QED
    BY <2>1, <2>2 DEF Client
<1>4. TypeOK'
  BY <1>1, <1>2 DEF TypeOK
<1>5. AcceptedIsStored' /\ PassedStored'
  BY <1>1, <1>3, AcceptedStays, PassedStays
<1>6. Undisturbed
  BY <1>1 DEF Undisturbed, Item, Auditing
<1>7. SeenHolds' /\ DurableHolds' /\ DurableKept'
  BY <1>1, <1>6, SeenStays, DurableStays DEF DurableKept
<1>8. (ItemInBody /\ UserEnsured /\ BundleDue)'
  BY <1>1 DEF ItemInBody, UserEnsured, BundleDue, Item
<1> QED
  BY <1>4, <1>5, <1>7, <1>8

-----------------------------------------------------------------------------
(* The connection. *)

\* A cut leaves the tables alone: the record, if its user was not yet seen, or
\* the closing, if it was not yet audited, is remembered as cut.
LEMMA CutStep ==
    ASSUME IInv, Cut
    PROVE  IInv'
<1> USE DEF IInv
<1>1. /\ UNCHANGED <<lastSeen, rows, status, audit, durable, client, inbox, bundles, gone,
                     executed>>
      /\ handler' = IdleHandler /\ cuts' = cuts + 1
  BY DEF Cut, Interrupts
<1>2. unseen' \subseteq Row /\ unseen \subseteq unseen'
  <2>1. CASE handler.step = "seen"
    <3>1. Item \in Row
      BY <2>1, HandlerKinds, ItemType
    <3> QED
      BY <2>1, <3>1 DEF Cut, TypeOK
  <2>2. CASE handler.step # "seen"
    BY <2>2 DEF Cut, TypeOK
  <2> QED
    BY <2>1, <2>2
<1>3. cutClosings' \subseteq Tickets /\ cutClosings \subseteq cutClosings'
  <2>1. handler.step = "audit" => handler.ticket \in Tickets
    BY HandlerKinds DEF Serving
  <2> QED
    BY <2>1 DEF Cut, TypeOK
<1>4. TypeOK'
  BY <1>1, <1>2, <1>3, IdleHolds DEF TypeOK
<1>5. Undisturbed
  BY <1>1, <1>2, <1>3, IdleHolds DEF Undisturbed, Cut, Auditing
<1>6. SeenHolds' /\ DurableHolds' /\ DurableKept'
  BY <1>1, <1>5, SeenStays, DurableStays DEF DurableKept
<1>7. AcceptedIsStored'
  BY <1>1, AcceptedStays
<1> QED
  BY <1>1, <1>4, <1>6, <1>7, IdleHolds

\* A restart: what is durable is all there is.
LEMMA ReopenStep ==
    ASSUME IInv, Reopen
    PROVE  IInv'
<1> USE DEF IInv, historyVars
<1>1. /\ lastSeen' = durable.lastSeen /\ rows' = durable.rows
      /\ status' = durable.status /\ audit' = durable.audit
      /\ UNCHANGED <<durable, client, inbox, handler>> /\ UNCHANGED historyVars
      /\ handler' = IdleHandler
  BY DEF Reopen, Idle
<1>2. TypeOK'
  BY <1>1 DEF TypeOK, Stored
<1>3. Undisturbed
  BY <1>1, IdleHolds DEF Undisturbed, Item, Auditing
<1>4. DurableHolds'
  BY <1>1, <1>3, DurableStays
<1>5. SeenHolds'
  <2>1. RowsKnown(lastSeen, rows)' /\ BundlesIn(audit)'
    BY <1>1, <1>4 DEF DurableHolds, RowsKnown, BundlesIn
  <2>2. SeenCovers(lastSeen, rows)'
    BY <1>1, <1>4 DEF DurableHolds, SeenCovers
  <2>3. ClosedOnceIn(status, audit)'
    BY <1>1, <1>4 DEF DurableHolds, ClosedOnceIn, Closings
  <2> QED
    BY <2>1, <2>2, <2>3 DEF SeenHolds
<1>6. DurableKept' /\ AcceptedIsStored'
  BY <1>1, AcceptedStays DEF DurableKept
<1> QED
  BY <1>1, <1>2, <1>4, <1>5, <1>6, IdleHolds

\* A commit of another handler takes what was left behind.
LEMMA OtherCommitStep ==
    ASSUME IInv, OtherCommit
    PROVE  IInv'
<1> USE DEF IInv, historyVars
<1>1. /\ durable' = Contents'
      /\ UNCHANGED <<lastSeen, rows, status, audit, client, inbox, handler>>
      /\ UNCHANGED historyVars
      /\ handler' = IdleHandler
  BY DEF OtherCommit, Contents, Idle
<1>2. durable' \in Stored
  BY <1>1, CommitType DEF TypeOK
<1>3. TypeOK'
  BY <1>1, <1>2 DEF TypeOK
<1>4. Undisturbed
  BY <1>1, IdleHolds DEF Undisturbed, Item, Auditing
<1>5. SeenHolds' /\ DurableHolds' /\ DurableKept'
  BY <1>1, <1>4, SeenStays, CommitHolds
<1>6. AcceptedIsStored'
  <2>1. durable'.rows = rows
    BY <1>1 DEF Contents
  <2> QED
    BY <1>1, <2>1, AcceptedStays DEF DurableKept
<1> QED
  BY <1>1, <1>3, <1>5, <1>6, IdleHolds

-----------------------------------------------------------------------------
(* The ingestion handlers. *)

\* An ingestion handler is no closing and no bundle: its steps audit nothing.
LEMMA IngestUndisturbed ==
    ASSUME handler.op \notin Closing, handler'.op \notin Closing,
           UNCHANGED <<bundles, cutClosings>>, unseen \subseteq unseen',
           handler.step = "seen" => \/ handler'.step = "seen" /\ Item' = Item
                                    \/ Item \in unseen'
    PROVE  Undisturbed
BY DEF Undisturbed, Auditing

\* Receiving an attempt and finding the user touch no record.
LEMMA ReceiveStep ==
    ASSUME IInv, NEW m \in inbox, Receive(m)
    PROVE  IInv'
<1> USE DEF IInv, historyVars, tableVars
<1>1. UNCHANGED <<lastSeen, rows, status, audit, durable, client>> /\ UNCHANGED historyVars
  BY DEF Receive
<1>2. m[1] \in Posts /\ m[2] \in 1..MaxAttempts
  BY DEF TypeOK
<1>3. handler' = [op |-> "ingest", post |-> m[1], attempt |-> m[2],
                  item |-> 1, step |-> "ensure"]
  BY DEF Receive
<1>4. handler' \in Ingesting /\ inbox' \subseteq Posts \X (1..MaxAttempts)
  BY <1>2, <1>3 DEF Ingesting, Receive, TypeOK
<1>5. TypeOK'
  BY <1>1, <1>4 DEF TypeOK
<1>6. Len(Items[m[1]]) \in Nat \ {0}
  BY <1>2, RecordsAssumption
<1>7. ItemInBody'
  BY <1>3, <1>6 DEF ItemInBody
<1>8. (UserEnsured /\ BundleDue)'
  BY <1>1, <1>3 DEF UserEnsured, BundleDue
<1>9. PassedStored'
  BY <1>3, <1>6 DEF PassedStored, Passed
<1>10. handler.op = "none" /\ handler.step = "none"
  BY HandlerKinds DEF Receive, Idle
<1>11. Undisturbed
  BY <1>1, <1>3, <1>10, IngestUndisturbed DEF Closing
<1>12. SeenHolds' /\ DurableHolds' /\ DurableKept'
  BY <1>1, <1>11, SeenStays, DurableStays DEF DurableKept
<1>13. AcceptedIsStored'
  BY <1>1, AcceptedStays
<1> QED
  BY <1>5, <1>7, <1>8, <1>9, <1>12, <1>13

LEMMA FindUserStep ==
    ASSUME IInv, FindUser
    PROVE  IInv'
<1> USE DEF IInv, historyVars, tableVars
<1>1. /\ UNCHANGED <<lastSeen, rows, status, audit, durable, client, inbox>>
      /\ UNCHANGED historyVars
  BY DEF FindUser
<1>2. handler \in Ingesting /\ handler.op = "ingest" /\ handler.step = "ensure"
  BY HandlerKinds DEF FindUser
<1>3. /\ handler' \in Ingesting /\ handler'.op = "ingest" /\ handler'.step = "insert"
      /\ handler'.post = handler.post /\ handler'.item = handler.item
  BY <1>2 DEF FindUser, Ingesting
<1>4. TypeOK'
  BY <1>1, <1>3 DEF TypeOK
<1>5. Item' = Item
  BY <1>3 DEF Item
<1>6. (ItemInBody /\ UserEnsured /\ BundleDue)'
  BY <1>1, <1>2, <1>3, <1>5
     DEF ItemInBody, UserEnsured, BundleDue, FindUser, Known, KnownIn
<1>7. PassedStored'
  BY <1>1, <1>2, <1>3 DEF PassedStored, Passed
<1>8. Undisturbed
  BY <1>1, <1>2, <1>3, IngestUndisturbed DEF Closing
<1>9. SeenHolds' /\ DurableHolds' /\ DurableKept'
  BY <1>1, <1>8, SeenStays, DurableStays DEF DurableKept
<1>10. AcceptedIsStored'
  BY <1>1, AcceptedStays
<1> QED
  BY <1>4, <1>6, <1>7, <1>9, <1>10

\* A step that commits or breaks, when what is seen of the tables holds after
\* it: the rest of the invariant follows.
LEMMA Committing ==
    ASSUME IInv, NEW next \in Ingesting \cup Serving, Commits(next),
           UNCHANGED <<client, inbox, bundles>>,
           lastSeen' \in [Users -> 0..MaxTime], rows' \subseteq Row,
           status' \in [Tickets -> {"open", "done"}],
           audit' \in [TicketOp -> [Tickets -> Nat]],
           gone' \subseteq Row, unseen' \subseteq Row,
           cutClosings' \subseteq Tickets, executed' \subseteq Tickets,
           rows \cup gone \subseteq rows' \cup gone', gone \subseteq gone',
           SeenHolds', Interrupted => Undisturbed,
           (ItemInBody /\ UserEnsured /\ PassedStored /\ BundleDue)' \/ Interrupted
    PROVE  IInv'
<1> USE DEF IInv
<1>1. CASE handler' = next /\ durable' = Contents' /\ UNCHANGED cuts
  <2>1. durable' \in Stored /\ durable'.rows = rows'
    BY <1>1, CommitType DEF TypeOK, Contents
  <2>2. DurableHolds' /\ DurableKept'
    BY <1>1, CommitHolds
  <2>3. AcceptedIsStored'
    BY <2>1, AcceptedStays DEF DurableKept
  <2>4. TypeOK'
    BY <1>1, <2>1 DEF TypeOK
  <2>5. next # IdleHandler
    BY DEF Ingesting, Serving, TicketOp, Closing, IdleHandler
  <2>6. ~Interrupted
    BY <1>1, <2>5 DEF Interrupted
  <2> QED
    BY <2>2, <2>3, <2>4, <2>6
<1>2. CASE Interrupts
  <2>1. handler' = IdleHandler /\ Interrupted /\ durable' = durable /\ cuts' = cuts + 1
    BY <1>2 DEF Interrupts, Interrupted
  <2>2. TypeOK'
    BY <2>1, IdleHolds DEF TypeOK
  <2>3. DurableHolds' /\ DurableKept'
    BY <2>1, DurableStays DEF DurableKept
  <2>4. AcceptedIsStored'
    BY <2>1, AcceptedStays
  <2> QED
    BY <2>1, <2>2, <2>3, <2>4, IdleHolds
<1> QED
  BY <1>1, <1>2 DEF Commits

\* The types of what an ingestion handler leaves alone.
IngestTypes ==
    /\ status \in [Tickets -> {"open", "done"}]
    /\ audit \in [TicketOp -> [Tickets -> Nat]]
    /\ cutClosings \subseteq Tickets /\ executed \subseteq Tickets

\* Committed or broken, a step leaves the handler at the next one or idle.
LEMMA CommitKinds ==
    ASSUME NEW next, next # IdleHandler, Commits(next)
    PROVE  \/ ~Interrupted /\ handler' = next /\ durable'.rows = rows'
           \/ Interrupted /\ handler' = IdleHandler /\ durable' = durable
BY DEF Commits, Interrupts, Interrupted, Contents

LEMMA InsertUserStep ==
    ASSUME IInv, InsertUser
    PROVE  IInv'
<1> USE DEF IInv
<1> DEFINE next == [handler EXCEPT !.step = "insert"]
<1>1. /\ UNCHANGED <<rows, status, audit, client, inbox,
                     bundles, gone, unseen, cutClosings, executed>>
      /\ Commits(next)
  BY DEF InsertUser
<1>2. handler \in Ingesting /\ handler.op = "ingest" /\ handler.step = "ensure"
  BY HandlerKinds DEF InsertUser
<1>3. Item \in Row
  BY <1>2, ItemType
<1>4. /\ next \in Ingesting /\ next.op = "ingest" /\ next.step = "insert"
      /\ next.post = handler.post /\ next.item = handler.item /\ next # IdleHandler
  BY <1>2 DEF Ingesting, IdleHandler
<1> HIDE DEF next
<1>5. \/ ~Interrupted /\ handler' = next /\ durable'.rows = rows'
      \/ Interrupted /\ handler' = IdleHandler
  BY <1>1, <1>4, CommitKinds
<1>6. /\ lastSeen' \in [Users -> 0..MaxTime]
      /\ lastSeen'[Item.user] > 0
      /\ \A u \in Users : lastSeen[u] > 0 => lastSeen'[u] = lastSeen[u]
  <2>1. PICK now \in Time : lastSeen' = [lastSeen EXCEPT ![Item.user] = now]
    BY DEF InsertUser
  <2>2. Item.user \in Users /\ now > 0 /\ now \in 0..MaxTime
    BY <1>3, RecordsAssumption DEF Row, Time
  <2>3. ~ lastSeen[Item.user] > 0
    BY <2>2 DEF InsertUser, Known, KnownIn
  <2> QED
    BY <2>1, <2>2, <2>3 DEF TypeOK
<1>7. (ItemInBody /\ UserEnsured /\ PassedStored /\ BundleDue)' \/ Interrupted
  <2> SUFFICES ASSUME handler' = next, durable'.rows = rows'
               PROVE  (ItemInBody /\ UserEnsured /\ PassedStored /\ BundleDue)'
    BY <1>5
  <2>1. Item' = Item
    BY <1>4 DEF Item
  <2>2. (ItemInBody /\ UserEnsured /\ BundleDue)'
    BY <1>2, <1>4, <1>6, <2>1 DEF ItemInBody, UserEnsured, BundleDue
  <2>3. PassedStored'
    BY <1>1, <1>2, <1>4 DEF PassedStored, Passed, DurableKept
  <2> QED
    BY <2>2, <2>3
<1>8. handler'.op \notin Closing
  BY <1>4, <1>5 DEF IdleHandler, Closing
<1>9. Undisturbed
  BY <1>1, <1>2, <1>8, IngestUndisturbed DEF Closing
<1>10. SeenHolds'
  <2>1. \A r \in rows : r.user \in Users /\ lastSeen[r.user] > 0
    BY DEF TypeOK, Row, SeenHolds, RowsKnown
  <2>2. \A r \in rows : lastSeen'[r.user] = lastSeen[r.user]
    BY <1>6, <2>1
  <2>3. RowsKnown(lastSeen, rows)' /\ BundlesIn(audit)'
    BY <1>1, <2>1, <2>2 DEF SeenHolds, RowsKnown, BundlesIn
  <2>4. SeenCovers(lastSeen, rows)'
    BY <1>1, <1>9, <2>2 DEF SeenHolds, SeenCovers, Undisturbed
  <2>5. ClosedOnceIn(status, audit)'
    BY <1>1, <1>9 DEF SeenHolds, ClosedOnceIn, Undisturbed, Closings
  <2> QED
    BY <2>3, <2>4, <2>5 DEF SeenHolds
<1> QED
  BY <1>1, <1>2, <1>4, <1>6, <1>7, <1>9, <1>10, Committing DEF TypeOK

\* Storing a record: an overwritten record is gone, the new one is stored.
LEMMA InsertRowStep ==
    ASSUME IInv, InsertRow
    PROVE  IInv'
<1> USE DEF IInv
<1> DEFINE next == [handler EXCEPT !.step = "seen"]
<1>1. /\ UNCHANGED <<lastSeen, status, audit, client, inbox, bundles, cutClosings, executed>>
      /\ Commits(next)
      /\ unseen' = IF Interrupted THEN unseen \cup {Item} ELSE unseen
  BY DEF InsertRow
<1>2. handler \in Ingesting /\ handler.op = "ingest" /\ handler.step = "insert"
  BY HandlerKinds DEF InsertRow
<1>3. Item \in Row /\ lastSeen[Item.user] > 0
  BY <1>2, ItemType DEF UserEnsured
<1>4. /\ next \in Ingesting /\ next.op = "ingest" /\ next.step = "seen"
      /\ next.post = handler.post /\ next.item = handler.item /\ next # IdleHandler
  BY <1>2 DEF Ingesting, IdleHandler
<1> HIDE DEF next
<1>5. \/ ~Interrupted /\ handler' = next /\ durable'.rows = rows'
      \/ Interrupted /\ handler' = IdleHandler
  BY <1>1, <1>4, CommitKinds
<1>6. /\ Item \in rows' /\ rows \subseteq rows' \cup gone' /\ gone \subseteq gone'
      /\ \A r \in rows' : r \in rows \/ r = Item
      /\ rows' \subseteq Row /\ gone' \subseteq Row
  BY <1>3 DEF InsertRow, TypeOK
<1>7. unseen' \subseteq Row /\ unseen \subseteq unseen'
  BY <1>1, <1>3 DEF TypeOK
<1>8. ~Interrupted => handler'.step = "seen" /\ Item' = Item
  BY <1>4, <1>5 DEF Item
<1>9. (ItemInBody /\ UserEnsured /\ PassedStored /\ BundleDue)' \/ Interrupted
  <2> SUFFICES ASSUME handler' = next, durable'.rows = rows', Item' = Item
               PROVE  (ItemInBody /\ UserEnsured /\ PassedStored /\ BundleDue)'
    BY <1>5, <1>8
  <2>1. (ItemInBody /\ UserEnsured /\ BundleDue)'
    BY <1>1, <1>2, <1>3, <1>4 DEF ItemInBody, UserEnsured, BundleDue
  <2>2. ASSUME NEW i \in 1..Len(Items[handler.post]), Passed(i)'
        PROVE  Items[handler.post][i] \in rows' \cup gone'
    <3>1. CASE i = handler.item
      BY <1>6, <3>1 DEF Item
    <3>2. CASE i # handler.item
      <4>1. Passed(i)
        BY <1>4, <2>2, <3>2 DEF Passed
      <4> QED
        BY <1>2, <1>6, <4>1 DEF PassedStored, DurableKept
    <3> QED
      BY <3>1, <3>2
  <2> QED
    BY <1>4, <2>1, <2>2 DEF PassedStored
<1>10. handler'.op \notin Closing
  BY <1>4, <1>5 DEF IdleHandler, Closing
<1>11. Undisturbed
  BY <1>1, <1>2, <1>7, <1>10, IngestUndisturbed DEF Closing
<1>12. SeenHolds'
  <2>1. RowsKnown(lastSeen, rows)' /\ BundlesIn(audit)'
    BY <1>1, <1>3, <1>6 DEF SeenHolds, RowsKnown, BundlesIn
  <2>2. SeenCovers(lastSeen, rows)'
    <3> SUFFICES ASSUME NEW r \in rows', r \notin unseen', ~(handler'.step = "seen" /\ r = Item')
                 PROVE  lastSeen[r.user] >= r.at
      BY <1>1 DEF SeenCovers
    <3>1. r # Item
      BY <1>1, <1>8
    <3> QED
      BY <1>2, <1>6, <1>7, <3>1 DEF SeenHolds, SeenCovers
  <2>3. ClosedOnceIn(status, audit)'
    BY <1>1, <1>11 DEF SeenHolds, ClosedOnceIn, Undisturbed, Closings
  <2> QED
    BY <2>1, <2>2, <2>3 DEF SeenHolds
<1>13. /\ lastSeen' \in [Users -> 0..MaxTime] /\ rows \cup gone \subseteq rows' \cup gone'
       /\ IngestTypes'
  BY <1>1, <1>6 DEF TypeOK, IngestTypes
<1> QED
  BY <1>1, <1>2, <1>4, <1>6, <1>7, <1>9, <1>11, <1>12, <1>13, Committing DEF IngestTypes

\* last_seen_at moves up to the record at least, and never down.
LEMMA UpdateLastSeenStep ==
    ASSUME IInv, UpdateLastSeen
    PROVE  IInv'
<1> USE DEF IInv
<1>1. /\ UNCHANGED <<rows, status, audit, client, inbox, bundles, gone, cutClosings, executed>>
      /\ Commits(NextItem)
      /\ unseen' = IF Interrupted THEN unseen \cup {Item} ELSE unseen \ {Item}
  BY DEF UpdateLastSeen
<1>2. handler \in Ingesting /\ handler.op = "ingest" /\ handler.step = "seen"
  BY HandlerKinds DEF UpdateLastSeen
<1>3. Item \in Row
  BY <1>2, ItemType
<1>4. /\ lastSeen' \in [Users -> 0..MaxTime]
      /\ lastSeen'[Item.user] >= Item.at
      /\ \A u \in Users : lastSeen'[u] >= lastSeen[u]
  <2>1. Item.user \in Users /\ Item.at \in 0..MaxTime /\ lastSeen[Item.user] \in 0..MaxTime
    BY <1>3 DEF Row, Time, TypeOK
  <2> DEFINE top == Later(lastSeen[Item.user], Item.at)
  <2>2. top \in 0..MaxTime /\ top >= Item.at /\ top >= lastSeen[Item.user]
    BY <2>1, RecordsAssumption DEF Later
  <2>3. lastSeen' = [lastSeen EXCEPT ![Item.user] = top]
    BY DEF UpdateLastSeen
  <2> HIDE DEF top
  <2>4. \A u \in Users : lastSeen[u] \in 0..MaxTime
    BY DEF TypeOK
  <2> QED
    BY <2>1, <2>2, <2>3, <2>4, RecordsAssumption DEF TypeOK
<1>5. Len(Items[handler.post]) \in Nat /\ handler.item \in 1..Len(Items[handler.post])
  BY <1>2, RecordsAssumption DEF ItemInBody, Ingesting
<1>6. /\ NextItem \in Ingesting /\ NextItem.op = "ingest" /\ NextItem # IdleHandler
      /\ NextItem.post = handler.post /\ NextItem.step \in {"ensure", "answer"}
      /\ NextItem.step = "ensure" => /\ NextItem.item = handler.item + 1
                                     /\ NextItem.item \in 1..Len(Items[handler.post])
      /\ NextItem.step = "answer" => /\ NextItem.item = handler.item
                                     /\ handler.item = Len(Items[handler.post])
  <2>1. CASE handler.item < Len(Items[handler.post])
    <3>1. PICK n \in 1..Len(Items[handler.post]) : n = handler.item + 1
      BY <1>5, <2>1
    <3>2. NextItem = [handler EXCEPT !.item = n, !.step = "ensure"]
      BY <2>1, <3>1 DEF NextItem
    <3>3. n \in Nat \ {0}
      BY <1>5
    <3> QED
      BY <1>2, <3>1, <3>2, <3>3 DEF Ingesting, IdleHandler
  <2>2. CASE ~ handler.item < Len(Items[handler.post])
    <3>1. NextItem = [handler EXCEPT !.step = "answer"]
      BY <2>2 DEF NextItem
    <3> QED
      BY <1>2, <1>5, <2>2, <3>1 DEF Ingesting, IdleHandler
  <2> QED
    BY <2>1, <2>2
<1>7. \/ ~Interrupted /\ handler' = NextItem /\ durable'.rows = rows'
      \/ Interrupted /\ handler' = IdleHandler
  BY <1>1, <1>6, CommitKinds
<1>8. unseen' \subseteq Row
  BY <1>1, <1>3 DEF TypeOK
<1>9. (ItemInBody /\ UserEnsured /\ PassedStored /\ BundleDue)' \/ Interrupted
  <2> SUFFICES ASSUME handler' = NextItem, durable'.rows = rows'
               PROVE  (ItemInBody /\ UserEnsured /\ PassedStored /\ BundleDue)'
    BY <1>7
  <2>1. (ItemInBody /\ UserEnsured /\ BundleDue)'
    BY <1>5, <1>6 DEF ItemInBody, UserEnsured, BundleDue
  <2>2. PassedStored'
    BY <1>1, <1>2, <1>5, <1>6 DEF PassedStored, Passed, DurableKept
  <2> QED
    BY <2>1, <2>2
<1>10. handler'.op \notin Closing /\ handler'.step # "seen"
  BY <1>6, <1>7 DEF IdleHandler, Closing
<1>11. ASSUME Interrupted PROVE Undisturbed
  BY <1>1, <1>2, <1>10, <1>11, IngestUndisturbed DEF Closing
<1>12. SeenHolds'
  <2>1. \A r \in rows : r.user \in Users /\ r.at \in Nat /\ lastSeen[r.user] \in Nat
                        /\ lastSeen'[r.user] \in Nat
    BY <1>4, RecordsAssumption DEF TypeOK, Row, Time
  <2>2. RowsKnown(lastSeen, rows)' /\ BundlesIn(audit)'
    BY <1>1, <1>4, <2>1 DEF SeenHolds, RowsKnown, BundlesIn
  <2>3. SeenCovers(lastSeen, rows)'
    <3> SUFFICES ASSUME NEW r \in rows, r \notin unseen' PROVE lastSeen'[r.user] >= r.at
      BY <1>1 DEF SeenCovers
    <3>1. CASE r = Item
      BY <1>4, <3>1
    <3>2. CASE r # Item
      <4>1. lastSeen[r.user] >= r.at
        BY <1>1, <3>2 DEF SeenHolds, SeenCovers
      <4> QED
        BY <1>4, <2>1, <4>1
    <3> QED
      BY <3>1, <3>2
  <2>4. ClosedOnceIn(status, audit)'
    <3>1. \A t \in Tickets : ~Auditing(t) /\ ~Auditing(t)'
      BY <1>2, <1>10 DEF Auditing, Closing
    <3> QED
      BY <1>1, <3>1 DEF SeenHolds, ClosedOnceIn, Closings
  <2> QED
    BY <2>2, <2>3, <2>4 DEF SeenHolds
<1>13. rows' \subseteq Row /\ gone' \subseteq Row /\ IngestTypes'
  BY <1>1 DEF TypeOK, IngestTypes
<1> QED
  BY <1>1, <1>2, <1>4, <1>6, <1>8, <1>9, <1>11, <1>12, <1>13, Committing DEF IngestTypes

\* A body is accepted after its last record.
LEMMA AcceptedStep ==
    ASSUME IInv, Accepted
    PROVE  IInv'
<1> USE DEF IInv, historyVars, tableVars
<1>1. UNCHANGED <<lastSeen, rows, status, audit, durable, inbox>> /\ UNCHANGED historyVars
  BY DEF Accepted
<1>2. handler \in Ingesting /\ handler.op = "ingest" /\ handler.step = "answer"
  BY HandlerKinds DEF Accepted
<1>3. handler' = IdleHandler /\ handler'.op = "none" /\ handler'.step = "none"
  BY DEF Accepted, IdleHandler
<1>4. handler.post \in Posts /\ handler.item = Len(Items[handler.post])
  BY <1>2 DEF Ingesting, ItemInBody
<1>5. \A i \in 1..Len(Items[handler.post]) : Items[handler.post][i] \in durable.rows \cup gone
  <2>1. Len(Items[handler.post]) \in Nat
    BY <1>4, RecordsAssumption
  <2> QED
    BY <1>2, <1>4, <2>1 DEF PassedStored, Passed
<1>6. /\ client' \in [Posts -> Call]
      /\ \A p \in Posts : client'[p].pc = "true" => client[p].pc = "true" \/ p = handler.post
  <2>1. [client[handler.post] EXCEPT !.pc = "true"] \in Call
    BY <1>4 DEF TypeOK, Call
  <2> QED
    BY <1>4, <2>1 DEF Accepted, TypeOK
<1>7. TypeOK'
  BY <1>1, <1>6, IdleHolds DEF TypeOK, Accepted
<1>8. AcceptedIsStored'
  BY <1>1, <1>5, <1>6 DEF AcceptedIsStored
<1>9. Undisturbed
  BY <1>1, <1>2, <1>3, IngestUndisturbed DEF Closing
<1>10. SeenHolds' /\ DurableHolds' /\ DurableKept'
  BY <1>1, <1>9, SeenStays, DurableStays DEF DurableKept
<1> QED
  BY <1>3, <1>7, <1>8, <1>10, IdleHolds

-----------------------------------------------------------------------------
(* The admin handlers. *)

\* An admin handler starts where no handler is running: what is said of a
\* handler at its first step holds.
LEMMA ServeStarts ==
    ASSUME IInv, NEW op \in TicketOp, NEW t \in Tickets, Idle,
           Interrupted \/ handler' = Served(op, t)
    PROVE  /\ (ItemInBody /\ UserEnsured /\ PassedStored /\ BundleDue)'
           /\ handler.op = "none" /\ handler.step = "none"
           /\ Served(op, t) \in Serving /\ Served(op, t) # IdleHandler
           /\ handler' \in Ingesting \cup Serving \cup {IdleHandler}
<1>1. /\ Served(op, t) \in Serving /\ Served(op, t).op # "ingest"
      /\ Served(op, t).step = "audit" /\ Served(op, t) # IdleHandler
  BY DEF Served, Serving, TicketOp, Closing, IdleHandler
<1>2. handler.op = "none" /\ handler.step = "none"
  BY DEF Idle, IdleHandler
<1>3. CASE Interrupted
  BY <1>1, <1>2, <1>3, IdleHolds DEF Interrupted
<1>4. CASE handler' = Served(op, t)
  BY <1>1, <1>2, <1>4 DEF ItemInBody, UserEnsured, PassedStored, BundleDue
<1> QED
  BY <1>3, <1>4

LEMMA BundleStep ==
    ASSUME IInv, NEW t \in Tickets, Bundle(t)
    PROVE  IInv'
<1> USE DEF IInv, historyVars, tableVars
<1>1. /\ UNCHANGED <<lastSeen, rows, status, audit, durable, client, inbox>>
      /\ UNCHANGED historyVars
      /\ handler' = Served("bundle", t) /\ Idle
  BY DEF Bundle, MayServe
<1>2. /\ (ItemInBody /\ UserEnsured /\ PassedStored /\ BundleDue)'
      /\ handler.op = "none" /\ handler.step = "none"
      /\ handler' \in Ingesting \cup Serving \cup {IdleHandler}
  BY <1>1, ServeStarts DEF TicketOp
<1>3. TypeOK'
  BY <1>1, <1>2 DEF TypeOK
<1>4. Undisturbed
  BY <1>1, <1>2 DEF Undisturbed, Auditing, Closing, Served
<1>5. SeenHolds' /\ DurableHolds' /\ DurableKept'
  BY <1>1, <1>4, SeenStays, DurableStays DEF DurableKept
<1>6. AcceptedIsStored'
  BY <1>1, AcceptedStays
<1> QED
  BY <1>2, <1>3, <1>5, <1>6

\* A closing starts on an open ticket, which has no closing; if it ends before
\* its commit, it is remembered as cut.
LEMMA ClosingStarts ==
    ASSUME IInv, NEW op \in Closing, NEW t \in Tickets, Idle, status[t] = "open",
           \/ Interrupted /\ (status' = status \/ status' = [status EXCEPT ![t] = "done"])
           \/ handler' = Served(op, t) /\ status' = [status EXCEPT ![t] = "done"],
           UNCHANGED audit, CutClosing(t)
    PROVE  /\ ClosedOnceIn(status, audit)'
           /\ status' \in [Tickets -> {"open", "done"}]
           /\ cutClosings' \subseteq Tickets /\ cutClosings \subseteq cutClosings'
           /\ \A s \in Tickets : ~Auditing(s) /\ (Interrupted => ~Auditing(s)')
<1> USE DEF IInv
<1>1. handler.op = "none" /\ handler.step = "none"
  BY ServeStarts DEF TicketOp, Idle, IdleHandler
<1>2. status' \in [Tickets -> {"open", "done"}]
  BY DEF TypeOK
<1>3. cutClosings' \subseteq Tickets /\ cutClosings \subseteq cutClosings'
  BY DEF CutClosing, TypeOK
<1>4. \A s \in Tickets : ~Auditing(s) /\ (Interrupted => ~Auditing(s)')
  BY <1>1, IdleHolds DEF Auditing, Closing, Interrupted
<1>5. \A s \in Tickets : s # t => status'[s] = status[s] /\ ~Auditing(s)'
  <2>1. CASE Interrupted
    BY <1>4, <2>1 DEF TypeOK
  <2>2. CASE handler' = Served(op, t) /\ status' = [status EXCEPT ![t] = "done"]
    BY <2>2 DEF Served, Auditing, TypeOK
  <2> QED
    BY <2>1, <2>2
<1>6. Closings(audit, t) = 0
  BY DEF SeenHolds, ClosedOnceIn
<1>7. \/ status'[t] = "open" /\ ~Auditing(t)'
      \/ status'[t] = "done" /\ (Auditing(t)' \/ t \in cutClosings')
  <2>1. CASE Interrupted
    BY <1>4, <2>1 DEF CutClosing, TypeOK
  <2>2. CASE handler' = Served(op, t) /\ status' = [status EXCEPT ![t] = "done"]
    BY <2>2 DEF Served, Auditing, TypeOK
  <2> QED
    BY <2>1, <2>2
<1>8. ClosedOnceIn(status, audit)'
  <2> SUFFICES ASSUME NEW s \in Tickets
               PROVE  /\ status'[s] = "open" => Closings(audit, s) = 0 /\ ~Auditing(s)'
                      /\ status'[s] = "done" =>
                             \/ Closings(audit, s) = 1 /\ ~Auditing(s)'
                             \/ Closings(audit, s) = 0 /\ (Auditing(s)' \/ s \in cutClosings')
    BY DEF ClosedOnceIn, Closings
  <2>1. CASE s = t
    BY <1>6, <1>7, <2>1
  <2>2. CASE s # t
    BY <1>3, <1>4, <1>5, <2>2 DEF SeenHolds, ClosedOnceIn
  <2> QED
    BY <2>1, <2>2
<1> QED
  BY <1>2, <1>3, <1>4, <1>8

LEMMA ResolveStep ==
    ASSUME IInv, NEW t \in Tickets, Resolve(t)
    PROVE  IInv'
<1> USE DEF IInv
<1>1. /\ UNCHANGED <<lastSeen, rows, audit, client, inbox, bundles, gone, unseen, executed>>
      /\ Idle /\ status[t] = "open" /\ status' = [status EXCEPT ![t] = "done"]
      /\ Commits(Served("resolve", t)) /\ CutClosing(t)
  BY DEF Resolve, MayServe
<1>2. "resolve" \in Closing /\ "resolve" \in TicketOp
  BY DEF Closing, TicketOp
<1>3. Interrupted \/ handler' = Served("resolve", t)
  BY <1>1 DEF Commits, Interrupts, Interrupted
<1>4. /\ (ItemInBody /\ UserEnsured /\ PassedStored /\ BundleDue)'
      /\ handler.op = "none" /\ handler.step = "none"
      /\ Served("resolve", t) \in Serving
  BY <1>1, <1>2, <1>3, ServeStarts
<1>5. /\ ClosedOnceIn(status, audit)'
      /\ status' \in [Tickets -> {"open", "done"}]
      /\ cutClosings' \subseteq Tickets /\ cutClosings \subseteq cutClosings'
      /\ \A s \in Tickets : ~Auditing(s) /\ (Interrupted => ~Auditing(s)')
  BY <1>1, <1>2, <1>3, ClosingStarts
<1>6. Interrupted => Undisturbed
  BY <1>1, <1>4, <1>5 DEF Undisturbed
<1>7. SeenHolds'
  BY <1>1, <1>4, <1>5 DEF SeenHolds, RowsKnown, SeenCovers, BundlesIn
<1>8. /\ lastSeen' \in [Users -> 0..MaxTime] /\ rows' \subseteq Row
      /\ audit' \in [TicketOp -> [Tickets -> Nat]]
      /\ gone' \subseteq Row /\ unseen' \subseteq Row /\ executed' \subseteq Tickets
  BY <1>1 DEF TypeOK
<1> QED
  BY <1>1, <1>4, <1>5, <1>6, <1>7, <1>8, Committing

\* The statements of a delete up to the k-th: the user goes after every record.
LEMMA EraseKeeps ==
    ASSUME TypeOK, NEW u \in Users, NEW k \in 1..RecordTables + 3, Erase(u, k)
    PROVE  /\ lastSeen' \in [Users -> 0..MaxTime] /\ rows' \subseteq rows
           /\ \A r \in rows' : r.user \in Users /\ lastSeen'[r.user] = lastSeen[r.user]
           /\ \/ lastSeen' = lastSeen
              \/ lastSeen' = [lastSeen EXCEPT ![u] = 0] /\ \A r \in rows' : r.user # u
           /\ \A r \in rows : r \notin rows' => r.user = u
<1>1. 0 \in 0..MaxTime
  BY RecordsAssumption
<1>2. \A r \in rows : r.user \in Users /\ TableOf[r.id] \in 1..RecordTables
  BY RecordsAssumption DEF TypeOK, Row
<1>3. rows' = {r \in rows : r.user = u => TableOf[r.id] > k}
  BY DEF Erase
<1>4. CASE k >= RecordTables + 2
  <2>1. lastSeen' = [lastSeen EXCEPT ![u] = 0]
    BY <1>4 DEF Erase
  <2>2. \A r \in rows' : r \in rows /\ r.user # u
    BY <1>2, <1>3, <1>4 DEF RecordTables
  <2> QED
    BY <1>1, <1>2, <1>3, <2>1, <2>2 DEF TypeOK
<1>5. CASE ~ k >= RecordTables + 2
  <2>1. lastSeen' = lastSeen
    BY <1>5 DEF Erase
  <2> QED
    BY <1>2, <1>3, <2>1 DEF TypeOK
<1> QED
  BY <1>4, <1>5

LEMMA ExecuteStep ==
    ASSUME IInv, NEW t \in Tickets, Execute(t)
    PROVE  IInv'
<1> USE DEF IInv
<1> DEFINE last == RecordTables + 3
<1>1. PICK k \in 1..last :
        /\ MayServe("execute", t) /\ Erasable(t)
        /\ Erase(TicketUser[t], k)
        /\ status' = IF k = last THEN [status EXCEPT ![t] = "done"] ELSE status
        /\ executed' = IF k = last THEN executed \cup {t} ELSE executed
        /\ UNCHANGED <<audit, client, inbox, bundles, unseen>>
        /\ gone' = gone \cup (rows \ rows')
        /\ IF k = last THEN Commits(Served("execute", t)) ELSE Interrupts
        /\ CutClosing(t)
  BY DEF Execute
<1> HIDE DEF last
<1>2. Idle /\ status[t] = "open" /\ Commits(Served("execute", t))
  BY <1>1 DEF MayServe, Erasable, Commits
<1>3. \/ Interrupted /\ (status' = status \/ status' = [status EXCEPT ![t] = "done"])
      \/ handler' = Served("execute", t) /\ status' = [status EXCEPT ![t] = "done"]
  BY <1>1 DEF Commits, Interrupts, Interrupted
<1>4. "execute" \in Closing /\ "execute" \in TicketOp /\ TicketUser[t] \in Users
  BY RecordsAssumption DEF Closing, TicketOp
<1>5. /\ (ItemInBody /\ UserEnsured /\ PassedStored /\ BundleDue)'
      /\ handler.op = "none" /\ handler.step = "none"
      /\ Served("execute", t) \in Serving
  BY <1>2, <1>3, <1>4, ServeStarts
<1>6. /\ ClosedOnceIn(status, audit)'
      /\ status' \in [Tickets -> {"open", "done"}]
      /\ cutClosings' \subseteq Tickets /\ cutClosings \subseteq cutClosings'
      /\ \A s \in Tickets : ~Auditing(s) /\ (Interrupted => ~Auditing(s)')
  BY <1>1, <1>2, <1>3, <1>4, ClosingStarts
<1>7. /\ lastSeen' \in [Users -> 0..MaxTime] /\ rows' \subseteq rows
      /\ \A r \in rows' : r.user \in Users /\ lastSeen'[r.user] = lastSeen[r.user]
  BY <1>1, <1>4, EraseKeeps DEF last
<1>8. Interrupted => Undisturbed
  BY <1>1, <1>5, <1>6 DEF Undisturbed
<1>9. SeenHolds'
  <2>1. RowsKnown(lastSeen, rows)' /\ BundlesIn(audit)'
    BY <1>1, <1>7 DEF SeenHolds, RowsKnown, BundlesIn
  <2>2. SeenCovers(lastSeen, rows)'
    BY <1>1, <1>5, <1>7 DEF SeenHolds, SeenCovers
  <2> QED
    BY <1>6, <2>1, <2>2 DEF SeenHolds
<1>10. /\ rows' \subseteq Row /\ audit' \in [TicketOp -> [Tickets -> Nat]]
       /\ gone' \subseteq Row /\ unseen' \subseteq Row /\ executed' \subseteq Tickets
       /\ rows \cup gone \subseteq rows' \cup gone' /\ gone \subseteq gone'
  BY <1>1, <1>7 DEF TypeOK
<1>11. UNCHANGED <<client, inbox, bundles>>
  BY <1>1
<1> QED
  BY <1>2, <1>5, <1>6, <1>7, <1>8, <1>9, <1>10, <1>11, Committing

\* The audit row of a closing takes its place among the ticket's closings.
LEMMA WriteAuditStep ==
    ASSUME IInv, WriteAudit
    PROVE  IInv'
<1> USE DEF IInv
<1> DEFINE next == [handler EXCEPT !.step = "answer"]
<1>1. /\ UNCHANGED <<lastSeen, rows, status, client, inbox, bundles, gone, unseen, executed>>
      /\ Commits(next)
      /\ IF handler.op \in Closing THEN CutClosing(handler.ticket) ELSE UNCHANGED cutClosings
  BY DEF WriteAudit
<1>2. handler \in Serving /\ handler.step = "audit"
  BY HandlerKinds DEF WriteAudit
<1> DEFINE op == handler.op
           t  == handler.ticket
<1>3. op \in TicketOp /\ t \in Tickets /\ op # "ingest"
  BY <1>2 DEF Serving, TicketOp, Closing
<1>4. /\ next \in Serving /\ next.op = op /\ next.ticket = t /\ next.step = "answer"
      /\ next # IdleHandler
  BY <1>2, <1>3 DEF Serving, IdleHandler
<1>5. PICK n \in Nat : n = audit[op][t] + 1
  BY <1>3 DEF TypeOK
<1>6. audit' = [audit EXCEPT ![op] = [audit[op] EXCEPT ![t] = n]]
  BY <1>5 DEF WriteAudit
<1>7. audit[op] \in [Tickets -> Nat] /\ audit \in [TicketOp -> [Tickets -> Nat]]
  BY <1>3 DEF TypeOK
<1>8. /\ audit' \in [TicketOp -> [Tickets -> Nat]]
      /\ audit'[op][t] = n
      /\ \A o \in TicketOp, s \in Tickets : (o # op \/ s # t) => audit'[o][s] = audit[o][s]
  <2> DEFINE f == [audit[op] EXCEPT ![t] = n]
  <2>1. f \in [Tickets -> Nat] /\ f[t] = n /\ \A s \in Tickets : s # t => f[s] = audit[op][s]
    BY <1>3, <1>5, <1>7
  <2>2. audit' = [audit EXCEPT ![op] = f]
    BY <1>6
  <2> HIDE DEF f
  <2> QED
    BY <1>3, <1>7, <2>1, <2>2
<1>9. \A s \in Tickets : Auditing(s) <=> (op \in Closing /\ s = t)
  BY <1>2 DEF Auditing
<1> HIDE DEF op, t, next
<1>10. \/ ~Interrupted /\ handler' = next
       \/ Interrupted /\ handler' = IdleHandler
  BY <1>1, <1>4, CommitKinds
<1>11. \A s \in Tickets : ~Auditing(s)'
  BY <1>4, <1>10, IdleHolds DEF Auditing
<1>12. /\ cutClosings' \subseteq Tickets /\ cutClosings \subseteq cutClosings'
       /\ Interrupted => \A s \in Tickets : Auditing(s) => s \in cutClosings'
  BY <1>1, <1>3, <1>9 DEF CutClosing, TypeOK, op, t
<1>13. Interrupted => Undisturbed
  BY <1>1, <1>2, <1>11, <1>12 DEF Undisturbed
<1>14. \A s \in Tickets : /\ bundles[s] \in Nat /\ audit["bundle"][s] \in Nat
                          /\ bundles[s] <= audit["bundle"][s]
  BY DEF SeenHolds, BundlesIn, TypeOK, TicketOp
<1>15. BundlesIn(audit)'
  BY <1>1, <1>3, <1>5, <1>8, <1>14 DEF BundlesIn, TicketOp
<1>16. ClosedOnceIn(status, audit)'
  <2> SUFFICES ASSUME NEW s \in Tickets
               PROVE  /\ status[s] = "open" => Closings(audit', s) = 0
                      /\ status[s] = "done" =>
                             \/ Closings(audit', s) = 1
                             \/ Closings(audit', s) = 0 /\ s \in cutClosings'
    BY <1>1, <1>11 DEF ClosedOnceIn, Closings
  <2>1. CASE op \in Closing /\ s = t
    <3>1. status[s] = "done" /\ Closings(audit, s) = 0
      BY <1>9, <2>1 DEF SeenHolds, ClosedOnceIn, TypeOK
    <3>2. audit["resolve"][s] \in Nat /\ audit["execute"][s] \in Nat
      BY DEF TypeOK, TicketOp, Closing
    <3>3. Closings(audit', s) = Closings(audit, s) + 1
      BY <1>5, <1>8, <2>1, <3>2 DEF Closings, Closing, TicketOp
    <3> QED
      BY <3>1, <3>3
  <2>2. CASE ~(op \in Closing /\ s = t)
    <3>1. Closings(audit', s) = Closings(audit, s)
      BY <1>8, <2>2 DEF Closings, Closing, TicketOp
    <3>2. ~Auditing(s)
      BY <1>9, <2>2
    <3> QED
      BY <1>12, <3>1, <3>2 DEF SeenHolds, ClosedOnceIn
  <2> QED
    BY <2>1, <2>2
<1>17. SeenHolds'
  BY <1>1, <1>2, <1>15, <1>16 DEF SeenHolds, RowsKnown, SeenCovers
<1>18. (ItemInBody /\ UserEnsured /\ PassedStored /\ BundleDue)' \/ Interrupted
  <2> SUFFICES ASSUME handler' = next, ~Interrupted
               PROVE  (ItemInBody /\ UserEnsured /\ PassedStored /\ BundleDue)'
    BY <1>10
  <2>1. durable'.audit = audit'
    BY <1>1, <1>4 DEF Commits, Interrupts, Interrupted, Contents
  <2>2. BundleDue'
    BY <1>1, <1>3, <1>4, <1>5, <1>8, <1>14, <2>1 DEF BundleDue, TicketOp
  <2> QED
    BY <1>3, <1>4, <2>2 DEF ItemInBody, UserEnsured, PassedStored
<1>19. /\ lastSeen' \in [Users -> 0..MaxTime] /\ rows' \subseteq Row
       /\ status' \in [Tickets -> {"open", "done"}]
       /\ gone' \subseteq Row /\ unseen' \subseteq Row /\ executed' \subseteq Tickets
  BY <1>1 DEF TypeOK
<1> QED
  BY <1>1, <1>4, <1>8, <1>12, <1>13, <1>17, <1>18, <1>19, Committing

LEMMA AnswerStep ==
    ASSUME IInv, Answer
    PROVE  IInv'
<1> USE DEF IInv, tableVars
<1>1. UNCHANGED <<lastSeen, rows, status, audit, durable, client, inbox,
                  gone, unseen, cutClosings, executed, cuts>>
  BY DEF Answer
<1>2. handler \in Serving /\ handler.step = "answer" /\ handler.ticket \in Tickets
  BY HandlerKinds DEF Answer, Serving
<1>3. handler' = IdleHandler
  BY DEF Answer
<1>4. bundles' \in [Tickets -> Nat] /\ BundlesIn(audit)' /\ BundlesIn(durable.audit)'
  <2>1. CASE handler.op = "bundle"
    <3> DEFINE t == handler.ticket
    <3>1. PICK n \in Nat : n = bundles[t] + 1
      BY <1>2 DEF TypeOK
    <3>2. bundles' = [bundles EXCEPT ![t] = n]
      BY <2>1, <3>1 DEF Answer
    <3>3. bundles[t] < audit["bundle"][t] /\ bundles[t] < durable.audit["bundle"][t]
      BY <1>2, <2>1 DEF BundleDue
    <3>4. bundles[t] \in Nat /\ audit["bundle"][t] \in Nat /\ durable.audit["bundle"][t] \in Nat
      BY <1>2 DEF TypeOK, Stored, TicketOp
    <3>5. n <= audit["bundle"][t] /\ n <= durable.audit["bundle"][t]
      BY <3>1, <3>3, <3>4
    <3> QED
      BY <1>1, <1>2, <3>2, <3>5 DEF BundlesIn, SeenHolds, DurableHolds, TypeOK
  <2>2. CASE handler.op # "bundle"
    BY <1>1, <2>2 DEF Answer, BundlesIn, SeenHolds, DurableHolds, TypeOK
  <2> QED
    BY <2>1, <2>2
<1>5. TypeOK'
  BY <1>1, <1>3, <1>4, IdleHolds DEF TypeOK
<1>6. \A s \in Tickets : ~Auditing(s) /\ ~Auditing(s)'
  BY <1>2, <1>3, IdleHolds DEF Auditing
<1>7. (SeenCovers(lastSeen, rows) /\ SeenCovers(durable.lastSeen, durable.rows))'
  BY <1>1, <1>2 DEF SeenHolds, DurableHolds, SeenCovers
<1>8. (ClosedOnceIn(status, audit) /\ ClosedOnceIn(durable.status, durable.audit))'
  BY <1>1, <1>6 DEF SeenHolds, DurableHolds, ClosedOnceIn, Closings
<1>9. SeenHolds' /\ DurableHolds' /\ DurableKept'
  BY <1>1, <1>4, <1>7, <1>8 DEF SeenHolds, DurableHolds, RowsKnown, DurableKept
<1>10. AcceptedIsStored'
  BY <1>1, AcceptedStays
<1> QED
  BY <1>3, <1>5, <1>9, <1>10, IdleHolds

-----------------------------------------------------------------------------
LEMMA NextIInv == IInv /\ [Next]_vars => IInv'
<1> SUFFICES ASSUME IInv, [Next]_vars PROVE IInv'
  OBVIOUS
<1>1. CASE Client
  BY <1>1, ClientStep
<1>2. CASE Ingest
  BY <1>2, ReceiveStep, FindUserStep, InsertUserStep, InsertRowStep, UpdateLastSeenStep,
     AcceptedStep
     DEF Ingest
<1>3. CASE Admin
  BY <1>3, BundleStep, ResolveStep, ExecuteStep, WriteAuditStep, AnswerStep DEF Admin
<1>4. CASE Cut \/ Reopen \/ OtherCommit
  BY <1>4, CutStep, ReopenStep, OtherCommitStep
<1>5. CASE UNCHANGED vars
  <2> USE <1>5 DEF vars, tableVars, IInv
  <2>1. Undisturbed
    BY DEF Undisturbed, Item, Auditing
  <2>2. SeenHolds' /\ DurableHolds' /\ DurableKept'
    BY <2>1, SeenStays, DurableStays DEF DurableKept
  <2>3. AcceptedIsStored' /\ PassedStored'
    BY AcceptedStays, PassedStays
  <2>4. (TypeOK /\ ItemInBody /\ UserEnsured /\ BundleDue)'
    BY DEF TypeOK, ItemInBody, UserEnsured, BundleDue, Item
  <2> QED
    BY <2>2, <2>3, <2>4
<1> QED
  BY <1>1, <1>2, <1>3, <1>4, <1>5 DEF Next

LEMMA AlwaysIInv == Spec => []IInv
BY InitIInv, NextIInv, PTL DEF Spec

\* The state keeps its types (OperationalRecords!TypeOK).
THEOREM TypeCorrect == Spec => []TypeOK
<1>1. IInv => TypeOK
  BY DEF IInv
<1> QED
  BY <1>1, AlwaysIInv, PTL

\* A ticket is closed and audited once (resolve and execute-delete handlers).
THEOREM TicketsClosedOnce == Spec => []ClosedOnce
<1>1. IInv => ClosedOnce
  BY DEF IInv, SeenHolds, DurableHolds, ClosedOnce
<1> QED
  BY <1>1, AlwaysIInv, PTL

\* A bundle is handed out only after its audit row (support_request_bundle).
THEOREM EveryBundleAudited == Spec => []BundlesAudited
<1>1. IInv => BundlesAudited
  BY DEF IInv, DurableHolds, BundlesIn, BundlesAudited
<1> QED
  BY <1>1, AlwaysIInv, PTL

\* What _post() reports as recorded was stored (record_* and _post).
THEOREM AcceptedMeansStored == Spec => []AcceptedIsStored
<1>1. IInv => AcceptedIsStored
  BY DEF IInv
<1> QED
  BY <1>1, AlwaysIInv, PTL

\* last_seen_at covers the stored records in any order (_update_last_seen).
THEOREM SeenCoversRecords == Spec => []LastSeenCovers
<1>1. IInv => LastSeenCovers
  BY DEF IInv, SeenHolds, DurableHolds, LastSeenCovers
<1> QED
  BY <1>1, AlwaysIInv, PTL

-----------------------------------------------------------------------------
(* The refinement. *)

SavedNow == [known |-> KnownIn(durable.lastSeen), rows |-> durable.rows]
SeenNow  == [known |-> Known, rows |-> rows]

\* A change, committed or broken, is a step of the record store.
LEMMA ChangeRefines ==
    ASSUME Store!Change \/ UNCHANGED <<Known, rows>>, NEW next, Commits(next)
    PROVE  [Store!Next]_<<Known, rows, SavedNow>>
<1>1. CASE durable' = Contents'
  <2>1. SavedNow' = SeenNow'
    BY <1>1 DEF SavedNow, SeenNow, Contents, Known
  <2>2. Store!Change => Store!Next
    BY <2>1 DEF Store!Next, Store!Seen, SavedNow, SeenNow
  <2>3. UNCHANGED <<Known, rows>> => Store!Save
    BY <2>1 DEF Store!Save, Store!Seen, SavedNow, SeenNow
  <2> QED
    BY <2>2, <2>3 DEF Store!Next
<1>2. CASE durable' = durable
  <2>1. UNCHANGED SavedNow
    BY <1>2 DEF SavedNow
  <2> QED
    BY <2>1 DEF Store!Next, SavedNow
<1> QED
  BY <1>1, <1>2 DEF Commits, Interrupts

\* Each step of the handlers is a step of the record store, or none.
LEMMA StepRefines ==
    ASSUME IInv, [Next]_vars
    PROVE  [Store!Next]_<<Known, rows, SavedNow>>
<1> USE DEF IInv, historyVars, tableVars
<1>1. CASE InsertUser
  <2>1. handler.op = "ingest"
    BY <1>1, HandlerKinds DEF InsertUser, Ingesting
  <2>2. Item.user \in Users
    BY <2>1, ItemType DEF Row
  <2>3. PICK now \in Time : lastSeen' = [lastSeen EXCEPT ![Item.user] = now]
    BY <1>1 DEF InsertUser
  <2>4. Known' = Known \cup {Item.user}
    BY <2>2, <2>3 DEF Known, KnownIn, TypeOK, Time
  <2>5. Store!Change
    BY <1>1, <2>2, <2>4 DEF InsertUser, Store!Change, Store!Meet
  <2> QED
    BY <1>1, <2>5, ChangeRefines DEF InsertUser
<1>2. CASE InsertRow
  <2>1. handler.op = "ingest" /\ handler.step = "insert"
    BY <1>2, HandlerKinds DEF InsertRow, Ingesting
  <2>2. Item \in Row /\ Item.user \in Known
    BY <2>1, ItemType DEF Row, Known, KnownIn, UserEnsured
  <2>3. Known' = Known
    BY <1>2 DEF InsertRow, Known, KnownIn
  <2>4. Store!Change
    BY <1>2, <2>2, <2>3 DEF InsertRow, Store!Change, Store!Keep
  <2> QED
    BY <1>2, <2>4, ChangeRefines DEF InsertRow
<1>3. CASE UpdateLastSeen
  <2>1. handler.op = "ingest" /\ handler.step = "seen"
    BY <1>3, HandlerKinds DEF UpdateLastSeen, Ingesting
  <2>2. Item.user \in Known /\ Item.at \in Time /\ Item.user \in Users
    BY <2>1, ItemType DEF Row, Known, KnownIn, UserEnsured
  <2> DEFINE top == Later(lastSeen[Item.user], Item.at)
  <2>3. top > 0
    BY <2>2 DEF Time, Known, KnownIn, Later
  <2>4. lastSeen' = [lastSeen EXCEPT ![Item.user] = top]
    BY <1>3 DEF UpdateLastSeen
  <2> HIDE DEF top
  <2>5. Known' = Known
    BY <2>2, <2>3, <2>4 DEF Known, KnownIn, TypeOK
  <2> QED
    BY <1>3, <2>5, ChangeRefines DEF UpdateLastSeen
<1>4. ASSUME NEW t \in Tickets, Execute(t) PROVE [Store!Next]_<<Known, rows, SavedNow>>
  <2> DEFINE u == TicketUser[t]
             last == RecordTables + 3
  <2>1. u \in Users
    BY RecordsAssumption
  <2>2. PICK k \in 1..last :
          Erase(u, k) /\ IF k = last THEN Commits(Served("execute", t)) ELSE Interrupts
    BY <1>4 DEF Execute
  <2>3. Commits(Served("execute", t))
    BY <2>2 DEF Commits
  <2>4. /\ rows' \subseteq rows /\ \A r \in rows : r \notin rows' => r.user = u
        /\ \/ lastSeen' = lastSeen
           \/ lastSeen' = [lastSeen EXCEPT ![u] = 0] /\ \A r \in rows' : r.user # u
    BY <2>1, <2>2, EraseKeeps
  <2> HIDE DEF u, last
  <2>5. \/ UNCHANGED Known
        \/ Known' = Known \ {u} /\ \A r \in rows' : r.user # u
    BY <2>1, <2>4 DEF Known, KnownIn, TypeOK
  <2>6. \E some \in SUBSET {r \in rows : r.user = u} : rows' = rows \ some
    <3> DEFINE some == {r \in rows : r \notin rows'}
    <3>1. some \in SUBSET {r \in rows : r.user = u} /\ rows' = rows \ some
      BY <2>4
    <3> QED
      BY <3>1
  <2>7. Store!Forget(u)
    BY <2>5, <2>6 DEF Store!Forget
  <2>8. Store!Change
    BY <2>1, <2>7 DEF Store!Change
  <2> QED
    BY <2>3, <2>8, ChangeRefines
<1>5. ASSUME NEW t \in Tickets, Resolve(t) PROVE [Store!Next]_<<Known, rows, SavedNow>>
  <2>1. UNCHANGED <<Known, rows>>
    BY <1>5 DEF Resolve, Known, KnownIn
  <2> QED
    BY <1>5, <2>1, ChangeRefines DEF Resolve
<1>6. CASE WriteAudit
  <2>1. UNCHANGED <<Known, rows>>
    BY <1>6 DEF WriteAudit, Known, KnownIn
  <2> QED
    BY <1>6, <2>1, ChangeRefines DEF WriteAudit
<1>7. CASE Reopen
  <2>1. Known' = SavedNow.known /\ rows' = SavedNow.rows /\ UNCHANGED SavedNow
    BY <1>7 DEF Reopen, Known, SavedNow
  <2> QED
    BY <2>1 DEF Store!Next, Store!Restore, SavedNow
<1>8. CASE OtherCommit
  <2>1. UNCHANGED <<Known, rows>>
    BY <1>8 DEF OtherCommit, Known, KnownIn
  <2>2. SavedNow' = SeenNow'
    BY <1>8, <2>1 DEF OtherCommit, SavedNow, SeenNow, Contents, Known
  <2>3. Store!Save
    BY <2>1, <2>2 DEF Store!Save, Store!Seen, SavedNow, SeenNow
  <2> QED
    BY <2>3 DEF Store!Next
<1>9. CASE Client
  BY <1>9 DEF Client, Send, Retry, GiveUp, GatewayDies, Lose, Known, KnownIn, SavedNow
<1>10. ASSUME NEW m \in inbox, Receive(m) PROVE UNCHANGED <<Known, rows, SavedNow>>
  BY <1>10 DEF Receive, Known, KnownIn, SavedNow
<1>11. ASSUME NEW t \in Tickets, Bundle(t) PROVE UNCHANGED <<Known, rows, SavedNow>>
  BY <1>11 DEF Bundle, Known, KnownIn, SavedNow
<1>12. CASE FindUser \/ Accepted \/ Answer \/ Cut \/ UNCHANGED vars
  BY <1>12 DEF FindUser, Accepted, Answer, Cut, Interrupts, vars, Known, KnownIn, SavedNow
<1> QED
  BY <1>1, <1>2, <1>3, <1>4, <1>5, <1>6, <1>7, <1>8, <1>9, <1>10, <1>11, <1>12
     DEF Next, Ingest, Admin

\* The backend's tables implement the record store, as they are seen and as they
\* are durable, whatever statement of a handler fails
\* (execute_support_delete_request and the record_* functions).
THEOREM ImplementsRecordStore == Spec => KeepsRecordStore
<1>1. Init => Store!Init
  BY DEF Init, Store!Init, Store!Seen, Known, KnownIn, Contents
<1>2. IInv /\ [Next]_vars => [Store!Next]_<<Known, rows, SavedNow>>
  BY StepRefines
<1> QED
  BY <1>1, <1>2, AlwaysIInv, PTL DEF Spec, KeepsRecordStore, Store!Spec, SavedNow

-----------------------------------------------------------------------------
(* ControlPlane. *)

\* The tables, and what is kept of what may be wanted in them.
Parts == {"profiles", "catalog", "snaps", "calls", "flag", "byok", "audit"}
WantParts == {"profiles", "catalogs", "flags", "byok", "audit"}

CatalogList(s) == IsList(s) /\ \A n \in DOMAIN s : Model(s[n])
CallList(s)    == IsList(s) /\ \A n \in DOMAIN s : Invocation(s[n])
IdsOf(catalog)  == {catalog[n].id : n \in DOMAIN catalog}
RowsAt(snaps, cap) == {i \in DOMAIN snaps : snaps[i].cap = cap}

\* What ServedIsCurrent says of a config, of snapshots of any age.
Selected(snaps, w) ==
    /\ IsList(snaps)
    /\ \A i \in DOMAIN snaps :
         LET row == snaps[i] IN
         /\ row = [cap |-> row.cap, model |-> row.model, old |-> row.old]
         /\ row.cap \in Caps
         /\ \E p \in w.profiles : p[row.cap].on
         /\ \E catalog \in w.catalogs : row.model \in IdsOf(catalog)
    /\ \A cap \in Caps : Cardinality(RowsAt(snaps, cap)) <= 3

\* t is a record of tables, and w one of what they may hold.
Tables(t) == DOMAIN t = Parts /\ t = [p \in Parts |-> t[p]]
Wants(w) ==
    /\ DOMAIN w = WantParts /\ w = [p \in WantParts |-> w[p]]
    /\ \A p \in w.profiles :
         p = [c \in Caps |-> p[c]] /\ \A c \in Caps : p[c].on \in BOOLEAN /\ p[c].min \in Nat
    /\ IsFiniteSet(w.catalogs) /\ \A catalog \in w.catalogs : CatalogList(catalog)
    /\ w.audit \in Nat

\* Each table holds what may be wanted in it.  The snapshots need not be the
\* selections of the moment: a handler that broke left some of each.
Meets(t, w) ==
    /\ Tables(t)
    /\ t.profiles \in w.profiles /\ t.catalog \in w.catalogs
    /\ t.flag \in w.flags /\ t.byok \in w.byok
    /\ t.audit \in Nat /\ t.audit >= w.audit
    /\ CallList(t.calls)
    /\ Selected(t.snaps, w)

\* The inductive invariant: what the connection sees and what is stored both
\* meet what is wanted, whatever the two differ in.
CInv ==
    /\ faults \in Nat /\ today \in Nat /\ Wants(want)
    /\ Meets(txn, want) /\ Meets(db, want)
    /\ ServedIsCurrent

-----------------------------------------------------------------------------
LEMMA ConcatList ==
    ASSUME NEW s, IsList(s), NEW t, IsList(t)
    PROVE  /\ IsList(s \o t) /\ Len(s \o t) = Len(s) + Len(t)
           /\ DOMAIN (s \o t) = 1..(Len(s) + Len(t))
           /\ \A i \in 1..Len(s) : (s \o t)[i] = s[i]
           /\ \A i \in 1..Len(t) : (s \o t)[Len(s) + i] = t[i]
<1> DEFINE S == {s[i] : i \in DOMAIN s}
           T == {t[i] : i \in DOMAIN t}
           U == S \cup T
           r == s \o t
<1>1. s \in Seq(S) /\ t \in Seq(T) /\ S \subseteq U /\ T \subseteq U
  BY DEF IsList
<1>2. Len(s) \in Nat /\ Len(t) \in Nat
  BY ListFacts
<1> HIDE DEF S, T, U
<1>3. s \in Seq(U) /\ t \in Seq(U)
  BY <1>1
<1>4. /\ r \in Seq(U) /\ Len(r) = Len(s) + Len(t)
      /\ \A i \in 1..Len(s) + Len(t) : r[i] = IF i <= Len(s) THEN s[i] ELSE t[i - Len(s)]
  BY <1>3, ConcatProperties
<1> HIDE DEF r
<1>5. IsList(r) /\ DOMAIN r = 1..Len(r)
  BY <1>4, SeqList, ListFacts
<1>6. \A i \in 1..Len(s) : r[i] = s[i]
  BY <1>2, <1>4
<1>7. \A i \in 1..Len(t) : r[Len(s) + i] = t[i]
  <2> SUFFICES ASSUME NEW i \in 1..Len(t) PROVE r[Len(s) + i] = t[i]
    OBVIOUS
  <2>1. Len(s) + i \in 1..Len(s) + Len(t) /\ ~(Len(s) + i <= Len(s)) /\ Len(s) + i - Len(s) = i
    BY <1>2
  <2> QED
    BY <1>4, <2>1
<1> QED
  BY <1>4, <1>5, <1>6, <1>7 DEF r

LEMMA PrefixList ==
    ASSUME NEW s, IsList(s), NEW n \in 0..Len(s)
    PROVE  /\ IsList(SubSeq(s, 1, n)) /\ Len(SubSeq(s, 1, n)) = n
           /\ DOMAIN SubSeq(s, 1, n) = 1..n
           /\ \A i \in 1..n : i \in DOMAIN s /\ SubSeq(s, 1, n)[i] = s[i]
<1> DEFINE S == {s[i] : i \in DOMAIN s}
           t == SubSeq(s, 1, n)
<1>1. s \in Seq(S)
  BY DEF IsList
<1>2. Len(s) \in Nat /\ DOMAIN s = 1..Len(s)
  BY ListFacts
<1> HIDE DEF S
<1>3. t \in Seq(S) /\ Len(t) = n /\ \A i \in 1..n : t[i] = s[i]
  BY <1>1, <1>2
<1> HIDE DEF t
<1>4. IsList(t) /\ DOMAIN t = 1..n
  BY <1>3, SeqList, ListFacts
<1> QED
  BY <1>2, <1>3, <1>4 DEF t

\* Every entry of a sorted list is an entry of the list.
LEMMA SortedList ==
    ASSUME NEW s, IsList(s), NEW score, \A i \in DOMAIN s : score[i] \in Int
    PROVE  /\ IsList(SortedBy(s, score)) /\ Len(SortedBy(s, score)) = Len(s)
           /\ \A k \in DOMAIN SortedBy(s, score) : \E i \in DOMAIN s : SortedBy(s, score)[k] = s[i]
<1> DEFINE S == {s[i] : i \in DOMAIN s}
           r == SortedBy(s, score)
<1>1. s \in Seq(S) /\ Len(s) \in Nat /\ DOMAIN s = 1..Len(s)
  BY ListFacts DEF IsList
<1> HIDE DEF S
<1>2. PICK p : Sorting(p, s, score)
  BY <1>1, SortedFacts
<1>3. p \in [1..Len(s) -> 1..Len(s)] /\ r = [k \in 1..Len(s) |-> s[p[k]]]
  BY <1>2 DEF Sorting
<1> HIDE DEF r
<1>4. r = [k \in 1..Len(s) |-> r[k]]
  BY <1>3
<1>5. IsList(r) /\ Len(r) = Len(s) /\ DOMAIN r = 1..Len(s)
  BY <1>1, <1>4, FunctionList
<1> QED
  BY <1>1, <1>3, <1>5 DEF r

LEMMA SetList ==
    ASSUME NEW S, IsFiniteSet(S)
    PROVE  /\ SetToSeq(S) \in Seq(S) /\ IsList(SetToSeq(S))
           /\ \A i, j \in 1..Len(SetToSeq(S)) : SetToSeq(S)[i] = SetToSeq(S)[j] => i = j
<1> DEFINE n == Cardinality(S)
           order == SetToSeq(S)
<1>1. n \in Nat /\ ExistsBijection(1..n, S)
  BY FS_CardinalityType
<1>2. PICK f : f \in [1..n -> S] /\ \A a, b \in 1..n : f[a] = f[b] => a = b
  BY <1>1 DEF ExistsBijection, Bijection, Injection, IsInjective
<1>3. IsInjective(f)
  BY <1>2 DEF IsInjective
<1>4. order \in [1..n -> S] /\ IsInjective(order)
  BY <1>2, <1>3 DEF SetToSeq
<1> HIDE DEF n, order
<1>5. order \in Seq(S) /\ Len(order) = n
  BY <1>1, <1>4
<1>6. IsList(order)
  BY <1>5, SeqList
<1>7. \A i, j \in 1..n : order[i] = order[j] => i = j
  BY <1>4 DEF IsInjective
<1> QED
  BY <1>5, <1>6, <1>7 DEF order

-----------------------------------------------------------------------------
(* Ranking: what is selected, and of what. *)

\* The calls of a model are calls, each of that model.
LEMMA OfCalls ==
    ASSUME NEW calls, CallList(calls), NEW cap, NEW id
    PROVE  /\ CallList(Of(calls, cap, id))
           /\ \A n \in DOMAIN Of(calls, cap, id) :
                Of(calls, cap, id)[n].cap = cap /\ Of(calls, cap, id)[n].model = id
<1> DEFINE K == {n \in DOMAIN calls : calls[n].cap = cap /\ calls[n].model = id}
           t == Those(calls, K)
<1>1. IsList(calls) /\ \A n \in DOMAIN calls : Invocation(calls[n])
  BY DEF CallList
<1>2. t = Of(calls, cap, id)
  BY DEF Of
<1>3. \A n \in K : n \in DOMAIN calls /\ calls[n].cap = cap /\ calls[n].model = id
  OBVIOUS
<1> HIDE DEF K
<1>4. IsList(t) /\ \A j \in DOMAIN t : \E i \in DOMAIN calls : i \in K /\ t[j] = calls[i]
  BY <1>1, ThoseList
<1> HIDE DEF t
<1>5. \A j \in DOMAIN t : Invocation(t[j]) /\ t[j].cap = cap /\ t[j].model = id
  BY <1>1, <1>3, <1>4
<1> QED
  BY <1>2, <1>4, <1>5 DEF CallList

Oks(calls) == {n \in DOMAIN calls : calls[n].ok}
FallbacksOf(calls) == {n \in DOMAIN calls : calls[n].fallback}
Latencies(calls) == [n \in DOMAIN calls |-> calls[n].latency]

\* The parts a score is made of.
LEMMA Counts ==
    ASSUME NEW calls, CallList(calls)
    PROVE  /\ Len(calls) \in Nat /\ DOMAIN calls = 1..Len(calls)
           /\ calls = <<>> <=> Len(calls) = 0
           /\ Cardinality(Oks(calls)) \in Nat
           /\ Cardinality(FallbacksOf(calls)) \in Nat
           /\ Cardinality(FallbacksOf(calls)) <= Len(calls)
           /\ Latencies(calls) \in Seq(Int) /\ Len(Latencies(calls)) = Len(calls)
           /\ TotalLatency(calls) \in Int
<1> DEFINE n == Len(calls)
<1>1. /\ IsList(calls) /\ \A i \in DOMAIN calls : Invocation(calls[i])
      /\ n \in Nat /\ DOMAIN calls = 1..n /\ calls = [i \in 1..n |-> calls[i]]
  BY ListFacts DEF CallList
<1>2. calls = <<>> <=> n = 0
  BY <1>1
<1>3. IsFiniteSet(1..n) /\ Cardinality(1..n) = n
  <2>1. n \in Nat
    BY <1>1
  <2> HIDE DEF n
  <2> QED
    BY <2>1, FS_Interval
<1>4. Oks(calls) \subseteq 1..n /\ FallbacksOf(calls) \subseteq 1..n
  BY <1>1 DEF Oks, FallbacksOf
<1>5. /\ Cardinality(Oks(calls)) \in Nat /\ Cardinality(FallbacksOf(calls)) \in Nat
      /\ Cardinality(FallbacksOf(calls)) <= n
  BY <1>3, <1>4, FS_Subset, FS_CardinalityType
<1>6. \A i \in 1..n : calls[i].latency \in Int
  BY <1>1 DEF Invocation
<1>7. Latencies(calls) \in Seq(Int) /\ Len(Latencies(calls)) = n
  BY <1>1, <1>6 DEF Latencies
<1>8. TotalLatency(calls) \in Int
  BY <1>7, SumType DEF TotalLatency, Latencies
<1> QED
  BY <1>1, <1>2, <1>5, <1>7, <1>8

LEMMA ShareType ==
    ASSUME NEW part \in Nat, NEW calls \in Nat \ {0}
    PROVE  Share(part, calls) \in Nat
BY DEF Share

LEMMA ScoreParts ==
    ASSUME NEW calls, CallList(calls)
    PROVE  Reliability(calls) \in Nat /\ Fallbacks(calls) \in Nat /\ Speed(calls) \in Nat
<1> DEFINE n == Len(calls)
           total == TotalLatency(calls)
           worst == n * Preferred
<1>1. /\ n \in Nat /\ (calls = <<>> <=> n = 0) /\ total \in Int
      /\ Cardinality(Oks(calls)) \in Nat /\ Cardinality(FallbacksOf(calls)) \in Nat
  BY Counts
<1>2. CASE calls = <<>>
  BY <1>2 DEF Reliability, Fallbacks, Speed
<1>3. CASE calls # <<>>
  <2>1. n \in Nat \ {0} /\ Preferred \in Nat \ {0}
    BY <1>1, <1>3, ControlPlaneAssumption
  <2>2. worst \in Nat \ {0}
    <3> HIDE DEF n
    <3> QED
      BY <2>1
  <2>3. Reliability(calls) = Share(Cardinality(Oks(calls)), n)
    BY <1>3 DEF Reliability, Oks
  <2>4. Fallbacks(calls) = Share(Cardinality(FallbacksOf(calls)), n)
    BY <1>3 DEF Fallbacks, FallbacksOf
  <2>5. Speed(calls) = IF total >= worst THEN 0 ELSE Share(worst - total, worst)
    BY <1>3 DEF Speed
  <2>6. Reliability(calls) \in Nat /\ Fallbacks(calls) \in Nat
    BY <1>1, <2>1, <2>3, <2>4, ShareType
  <2> HIDE DEF worst, total
  <2>7. CASE total >= worst
    BY <2>5, <2>6, <2>7
  <2>8. CASE ~(total >= worst)
    <3>1. worst - total \in Nat
      BY <1>1, <2>2, <2>8
    <3>2. Share(worst - total, worst) \in Nat
      BY <2>2, <3>1, ShareType
    <3> QED
      BY <2>5, <2>6, <2>8, <3>2
  <2> QED
    BY <2>7, <2>8
<1> QED
  BY <1>2, <1>3

LEMMA ScoreType ==
    ASSUME NEW calls, CallList(calls), NEW quality \in Int
    PROVE  Score(quality, calls) \in Int
<1>1. Reliability(calls) \in Nat /\ Fallbacks(calls) \in Nat /\ Speed(calls) \in Nat
  BY ScoreParts
<1> QED
  BY <1>1 DEF Score

\* The rows of a capability.
\* A new snapshot of a model of the catalog.
RankedRow(row, catalog, cap) ==
    /\ row = [cap |-> cap, model |-> row.model, old |-> FALSE]
    /\ row.model \in IdsOf(catalog)

LEMMA RankedRows ==
    ASSUME NEW profile, NEW catalog, CatalogList(catalog), NEW calls, CallList(calls), NEW cap
    PROVE  /\ IsList(Ranked(profile, catalog, calls, cap))
           /\ Len(Ranked(profile, catalog, calls, cap)) \in 0..3
           /\ \A n \in DOMAIN Ranked(profile, catalog, calls, cap) :
                RankedRow(Ranked(profile, catalog, calls, cap)[n], catalog, cap)
<1> DEFINE K == {n \in DOMAIN catalog : catalog[n].context >= profile.min}
           fits == Those(catalog, K)
           scored == {<<n, Score(fits[n].quality, Of(calls, cap, fits[n].id))>> : n \in DOMAIN fits}
           score == [n \in DOMAIN fits |-> (CHOOSE p \in scored : p[1] = n)[2]]
           sorted == SortedBy(fits, score)
           best == FirstOf(sorted, 3)
           picked == [n \in DOMAIN best |-> [cap |-> cap, model |-> best[n].id, old |-> FALSE]]
<1>1. Ranked(profile, catalog, calls, cap) = picked
  BY DEF Ranked
<1>2. /\ IsList(catalog)
      /\ \A n \in DOMAIN catalog : Model(catalog[n]) /\ catalog[n].id \in IdsOf(catalog)
  BY DEF CatalogList, IdsOf
<1> HIDE DEF K
<1>3. /\ IsList(fits)
      /\ \A j \in DOMAIN fits : \E i \in DOMAIN catalog : i \in K /\ fits[j] = catalog[i]
  BY <1>2, ThoseList
<1> HIDE DEF fits
<1>4. \A j \in DOMAIN fits : fits[j].quality \in Int /\ fits[j].id \in IdsOf(catalog)
  BY <1>2, <1>3 DEF Model
<1>5. \A j \in DOMAIN fits : score[j] \in Int
  <2> SUFFICES ASSUME NEW j \in DOMAIN fits PROVE score[j] \in Int
    OBVIOUS
  <2> DEFINE q == CHOOSE p \in scored : p[1] = j
  <2>1. \E p \in scored : p[1] = j
    <3>1. <<j, Score(fits[j].quality, Of(calls, cap, fits[j].id))>> \in scored
      OBVIOUS
    <3> HIDE DEF scored
    <3> QED
      BY <3>1
  <2>2. score[j] = q[2]
    OBVIOUS
  <2>3. q \in scored
    <3> HIDE DEF scored
    <3> QED
      BY <2>1
  <2> HIDE DEF q, score
  <2>4. PICK n \in DOMAIN fits : q[2] = Score(fits[n].quality, Of(calls, cap, fits[n].id))
    BY <2>3
  <2>5. CallList(Of(calls, cap, fits[n].id))
    BY OfCalls
  <2>6. Score(fits[n].quality, Of(calls, cap, fits[n].id)) \in Int
    BY <1>4, <2>5, ScoreType
  <2> QED
    BY <2>2, <2>4, <2>6
<1> HIDE DEF score, scored
<1>6. IsList(sorted) /\ \A k \in DOMAIN sorted : \E i \in DOMAIN fits : sorted[k] = fits[i]
  BY <1>3, <1>5, SortedList
<1> HIDE DEF sorted
<1>7. /\ IsList(best) /\ Len(best) <= 3 /\ DOMAIN best = 1..Len(best) /\ Len(best) \in Nat
      /\ \A i \in DOMAIN best : i \in DOMAIN sorted /\ best[i] = sorted[i]
  BY <1>6, FirstList, ListFacts
<1> HIDE DEF best
<1>8. \A i \in DOMAIN best : best[i].id \in IdsOf(catalog)
  BY <1>4, <1>6, <1>7
<1>9. picked = [n \in 1..Len(best) |-> picked[n]]
  BY <1>7
<1>10. \A n \in DOMAIN picked :
          /\ picked[n] = [cap |-> cap, model |-> picked[n].model, old |-> FALSE]
          /\ picked[n].model \in IdsOf(catalog)
  BY <1>8
<1> HIDE DEF picked
<1>11. IsList(picked) /\ Len(picked) = Len(best)
  BY <1>7, <1>9, FunctionList
<1> QED
  BY <1>1, <1>7, <1>10, <1>11 DEF RankedRow

\* What is selected of one capability.
RowsFor(profiles, catalog, calls, cap) ==
    IF profiles[cap].on THEN Ranked(profiles[cap], catalog, calls, cap) ELSE <<>>

LEMMA RowsForFacts ==
    ASSUME NEW profiles, NEW catalog, CatalogList(catalog), NEW calls, CallList(calls), NEW cap
    PROVE  /\ IsList(RowsFor(profiles, catalog, calls, cap))
           /\ Len(RowsFor(profiles, catalog, calls, cap)) \in 0..3
           /\ \A n \in DOMAIN RowsFor(profiles, catalog, calls, cap) :
                /\ profiles[cap].on
                /\ RankedRow(RowsFor(profiles, catalog, calls, cap)[n], catalog, cap)
<1>1. CASE profiles[cap].on
  BY <1>1, RankedRows DEF RowsFor
<1>2. CASE ~profiles[cap].on
  <2> DEFINE none == <<>>
  <2>1. Len(none) = 0 /\ DOMAIN none = {} /\ none \in Seq({})
    OBVIOUS
  <2>2. RowsFor(profiles, catalog, calls, cap) = none
    BY <1>2 DEF RowsFor
  <2> HIDE DEF none
  <2>3. IsList(none)
    BY <2>1, SeqList
  <2> QED
    BY <2>1, <2>2, <2>3
<1> QED
  BY <1>1, <1>2

\* f[n] has the rows of the first n capabilities.
RowSet(catalog) == [cap : Caps, model : IdsOf(catalog), old : {FALSE}]
Order == SetToSeq(Caps)
Stacking(f, profiles, catalog, calls) ==
    /\ f \in [0..Len(Order) -> Seq(RowSet(catalog))]
    /\ f[0] = <<>> /\ Selections(profiles, catalog, calls) = f[Len(Order)]
    /\ \A n \in 1..Len(Order) : f[n] = f[n - 1] \o RowsFor(profiles, catalog, calls, Order[n])

LEMMA RowsForType ==
    ASSUME NEW profiles, NEW catalog, CatalogList(catalog), NEW calls, CallList(calls),
           NEW cap \in Caps
    PROVE  RowsFor(profiles, catalog, calls, cap) \in Seq(RowSet(catalog))
<1> DEFINE r == RowsFor(profiles, catalog, calls, cap)
           S == RowSet(catalog)
<1>1. IsList(r) /\ \A n \in DOMAIN r : RankedRow(r[n], catalog, cap)
  BY RowsForFacts
<1> HIDE DEF r
<1>2. \A n \in DOMAIN r : r[n] \in S
  <2> SUFFICES ASSUME NEW n \in DOMAIN r PROVE r[n] \in S
    OBVIOUS
  <2> DEFINE model == r[n].model
  <2>1. r[n] = [cap |-> cap, model |-> model, old |-> FALSE] /\ model \in IdsOf(catalog)
    BY <1>1 DEF RankedRow
  <2> HIDE DEF model
  <2> QED
    BY <2>1 DEF RowSet
<1>3. Len(r) \in Nat /\ DOMAIN r = 1..Len(r) /\ r = [i \in 1..Len(r) |-> r[i]]
  BY <1>1, ListFacts
<1> HIDE DEF S
<1>4. r \in Seq(S)
  BY <1>2, <1>3
<1> QED
  BY <1>4 DEF r, S

LEMMA SelectionsRecursion ==
    ASSUME NEW profiles, NEW catalog, CatalogList(catalog), NEW calls, CallList(calls)
    PROVE  \E f : Stacking(f, profiles, catalog, calls)
<1> DEFINE len == Len(Order)
           V == Seq(RowSet(catalog))
           Body(n, t) == t \o RowsFor(profiles, catalog, calls, Order[n])
           Rec(f) == f = [n \in 0..len |-> IF n = 0 THEN <<>> ELSE Body(n, f[n - 1])]
           F == [n \in 1..len |-> [t \in V |-> Body(n, t)]]
           start == <<>>
<1>1. Order \in Seq(Caps) /\ len \in Nat /\ start \in V
  BY ControlPlaneAssumption, SetList DEF Order
<1>2. \A n \in 1..len, t \in V : Body(n, t) \in V
  <2> SUFFICES ASSUME NEW n \in 1..len, NEW t \in V PROVE Body(n, t) \in V
    OBVIOUS
  <2>1. Order[n] \in Caps
    BY <1>1
  <2>2. RowsFor(profiles, catalog, calls, Order[n]) \in V
    BY <2>1, RowsForType
  <2> QED
    BY <2>2, ConcatProperties
<1>3. \A f : Rec(f) <=> f = [n \in 0..len |-> IF n = 0 THEN start ELSE Body(n, f[n - 1])]
  OBVIOUS
<1> DEFINE g == CHOOSE h : Rec(h)
<1>4. Selections(profiles, catalog, calls) = g[len]
  BY DEF Selections, RowsFor, Order
<1> HIDE DEF len, V, start, Body, Rec
<1>5. F \in [1..len -> [V -> V]] /\ \A n \in 1..len, t \in V : F[n][t] = Body(n, t)
  BY <1>2
<1> HIDE DEF F
<1>6. PICK f : Follows(f, len, V, start, F)
  BY <1>1, <1>5, Recursion
<1>7. /\ f \in [0..len -> V] /\ f[0] = start
      /\ \A n \in 1..len : f[n] = Body(n, f[n - 1])
  BY <1>1, <1>5, <1>6 DEF Follows
<1>8. f = [n \in 0..len |-> IF n = 0 THEN start ELSE Body(n, f[n - 1])]
  <2>1. f = [n \in 0..len |-> f[n]]
    BY <1>7
  <2>2. \A n \in 0..len : f[n] = IF n = 0 THEN start ELSE Body(n, f[n - 1])
    BY <1>1, <1>7
  <2> QED
    BY <2>1, <2>2
<1>9. Rec(g)
  BY <1>3, <1>8
<1> HIDE DEF g
<1>10. g = [n \in 0..len |-> IF n = 0 THEN start ELSE Body(n, g[n - 1])]
  BY <1>3, <1>9
<1>11. g[0] = start /\ \A n \in 1..len : g[n] = Body(n, g[n - 1])
  BY <1>1, <1>10
<1> DEFINE I == {n \in 0..len : g[n] \in V}
<1>12. 0 \in I
  BY <1>1, <1>11
<1>13. \A n \in 1..len : n - 1 \in I => n \in I
  BY <1>1, <1>2, <1>11
<1>14. \A n \in 0..len : n \in I
  <2> HIDE DEF I
  <2> QED
    BY <1>1, <1>12, <1>13, UpTo
<1>15. g \in [0..len -> V]
  BY <1>10, <1>14
<1> QED
  BY <1>4, <1>11, <1>15 DEF len, V, start, Body, Stacking

LEMMA RowsConcat ==
    ASSUME NEW s, IsList(s), NEW t, IsList(t), NEW cap
    PROVE  /\ RowsAt(t, cap) = {} => RowsAt(s \o t, cap) = RowsAt(s, cap)
           /\ RowsAt(s, cap) = {} => RowsAt(s \o t, cap) \subseteq (Len(s) + 1)..(Len(s) + Len(t))
<1> DEFINE r == s \o t
           n == Len(s)
           m == Len(t)
<1>1. n \in Nat /\ m \in Nat /\ DOMAIN s = 1..n /\ DOMAIN t = 1..m
  BY ListFacts
<1>2. /\ DOMAIN r = 1..(n + m) /\ \A i \in 1..n : r[i] = s[i]
      /\ \A i \in 1..m : r[n + i] = t[i]
  BY ConcatList
<1> HIDE DEF r, n, m
<1>3. \A i \in 1..(n + m) :
         i \in 1..n \/ (i - n \in 1..m /\ n + (i - n) = i /\ i \in (n + 1)..(n + m))
  BY <1>1
<1>4. ASSUME RowsAt(t, cap) = {} PROVE RowsAt(r, cap) = RowsAt(s, cap)
  <2>1. \A i \in 1..m : t[i].cap # cap
    BY <1>1, <1>4 DEF RowsAt
  <2>2. \A i \in 1..(n + m) : r[i].cap = cap => i \in 1..n
    BY <1>2, <1>3, <2>1
  <2>3. 1..n \subseteq 1..(n + m)
    BY <1>1
  <2> QED
    BY <1>1, <1>2, <2>2, <2>3 DEF RowsAt
<1>5. ASSUME RowsAt(s, cap) = {} PROVE RowsAt(r, cap) \subseteq (n + 1)..(n + m)
  <2>1. \A i \in 1..n : s[i].cap # cap
    BY <1>1, <1>5 DEF RowsAt
  <2>2. \A i \in 1..(n + m) : r[i].cap = cap => i \in (n + 1)..(n + m)
    BY <1>2, <1>3, <2>1
  <2> QED
    BY <1>2, <2>2 DEF RowsAt
<1> QED
  BY <1>4, <1>5 DEF r, n, m

\* Snapshots, but for their age.
Fresh(snaps) == [i \in DOMAIN snaps |-> [snaps[i] EXCEPT !.old = FALSE]]

\* The models still offered are models of the catalog.
LEMMA UnexpiredList ==
    ASSUME NEW catalog, CatalogList(catalog), NEW day
    PROVE  /\ CatalogList(Unexpired(catalog, day))
           /\ IdsOf(Unexpired(catalog, day)) \subseteq IdsOf(catalog)
<1> DEFINE K == {n \in DOMAIN catalog : catalog[n].until = 0 \/ catalog[n].until > day}
           t == Those(catalog, K)
<1>1. IsList(catalog) /\ \A n \in DOMAIN catalog : Model(catalog[n])
  BY DEF CatalogList
<1>2. t = Unexpired(catalog, day)
  BY DEF Unexpired
<1> HIDE DEF K
<1>3. IsList(t) /\ \A j \in DOMAIN t : \E i \in DOMAIN catalog : i \in K /\ t[j] = catalog[i]
  BY <1>1, ThoseList
<1> HIDE DEF t
<1> QED
  BY <1>1, <1>2, <1>3 DEF CatalogList, IdsOf

\* What is selected is selected by the profiles and the catalog, at most
\* three of each capability, and new.
LEMMA SelectionRows ==
    ASSUME NEW w, NEW profiles \in w.profiles, NEW whole \in w.catalogs,
           NEW catalog, CatalogList(catalog), IdsOf(catalog) \subseteq IdsOf(whole),
           NEW calls, CallList(calls)
    PROVE  /\ Selected(Selections(profiles, catalog, calls), w)
           /\ \A i \in DOMAIN Selections(profiles, catalog, calls) :
                ~Selections(profiles, catalog, calls)[i].old
           /\ Fresh(Selections(profiles, catalog, calls)) = Selections(profiles, catalog, calls)
<1> DEFINE len == Len(Order)
           R == RowSet(catalog)
           Rows(n) == RowsFor(profiles, catalog, calls, Order[n])
<1>1. Order \in Seq(Caps) /\ len \in Nat /\ \A i, j \in 1..len : Order[i] = Order[j] => i = j
  BY ControlPlaneAssumption, SetList DEF Order
<1>a. PICK f : Stacking(f, profiles, catalog, calls)
  BY SelectionsRecursion
<1>2. /\ f \in [0..len -> Seq(R)] /\ f[0] = <<>> /\ Selections(profiles, catalog, calls) = f[len]
      /\ \A n \in 1..len : f[n] = f[n - 1] \o Rows(n)
  BY <1>a DEF Stacking
<1>3. \A n \in 1..len : /\ IsList(Rows(n)) /\ Len(Rows(n)) \in 0..3
                        /\ \A i \in DOMAIN Rows(n) :
                             profiles[Order[n]].on /\ RankedRow(Rows(n)[i], catalog, Order[n])
  BY RowsForFacts
<1> HIDE DEF R, Rows
<1>4. \A n \in 1..len : /\ Order[n] \in Caps
                        /\ \A i \in DOMAIN Rows(n) : Rows(n)[i].cap = Order[n]
  BY <1>1, <1>3 DEF RankedRow
<1> HIDE DEF len
<1> DEFINE On(n) == \A i \in DOMAIN f[n] : profiles[f[n][i].cap].on
           Few(n) == \A cap \in Caps : /\ Cardinality(RowsAt(f[n], cap)) <= 3
                                       /\ RowsAt(f[n], cap) # {} => \E m \in 1..n : cap = Order[m]
           I == {n \in 0..len : On(n) /\ Few(n)}
<1>5. 0 \in I
  <2>1. DOMAIN f[0] = {}
    BY <1>2
  <2>2. \A cap \in Caps : RowsAt(f[0], cap) = {}
    BY <2>1 DEF RowsAt
  <2>3. Cardinality({}) = 0
    BY FS_EmptySet
  <2>4. On(0) /\ Few(0)
    BY <2>1, <2>2, <2>3
  <2> QED
    BY <1>1, <2>4
<1>6. \A n \in 1..len : n - 1 \in I => n \in I
  <2> SUFFICES ASSUME NEW n \in 1..len, n - 1 \in I PROVE n \in I
    OBVIOUS
  <2> DEFINE s == f[n - 1]
             t == Rows(n)
  <2>a. n \in 0..len /\ n - 1 \in 0..len /\ On(n - 1) /\ Few(n - 1)
    <3> HIDE DEF On, Few
    <3> QED
      BY <1>1
  <2>1. f[n] = s \o t /\ s \in Seq(R) /\ n \in 0..len
    <3> HIDE DEF On, Few, I
    <3> QED
      BY <1>2, <2>a
  <2>2. IsList(s) /\ IsList(t)
    BY <1>3, <2>1, SeqList
  <2>3. /\ Len(s) \in Nat /\ DOMAIN s = 1..Len(s)
        /\ Len(t) \in 0..3 /\ DOMAIN t = 1..Len(t)
    BY <1>3, <2>2, ListFacts
  <2>4. /\ \A i \in DOMAIN s : profiles[s[i].cap].on
        /\ \A cap \in Caps : /\ Cardinality(RowsAt(s, cap)) <= 3
                             /\ RowsAt(s, cap) # {} => \E m \in 1..(n - 1) : cap = Order[m]
    BY <2>a
  <2>5. \A i \in DOMAIN t : profiles[Order[n]].on /\ t[i].cap = Order[n]
    BY <1>3, <1>4
  <2> DEFINE r == s \o t
             a == Len(s)
             b == Len(t)
  <2>6. /\ DOMAIN r = 1..(a + b) /\ \A i \in 1..a : r[i] = s[i]
        /\ \A i \in 1..b : r[a + i] = t[i]
    BY <2>2, ConcatList
  <2>7. /\ \A cap : RowsAt(t, cap) = {} => RowsAt(r, cap) = RowsAt(s, cap)
        /\ \A cap : RowsAt(s, cap) = {} => RowsAt(r, cap) \subseteq (a + 1)..(a + b)
    BY <2>2, RowsConcat
  <2>8. f[n] = r
    BY <2>1
  <2>9. a \in Nat /\ b \in 0..3 /\ DOMAIN s = 1..a /\ DOMAIN t = 1..b
    BY <2>3
  <2> HIDE DEF s, t, r, a, b
  <2>10. \A i \in DOMAIN r : profiles[r[i].cap].on
    <3> SUFFICES ASSUME NEW i \in DOMAIN r PROVE profiles[r[i].cap].on
      OBVIOUS
    <3>1. i \in 1..a \/ (i - a \in 1..b /\ a + (i - a) = i)
      BY <2>6, <2>9
    <3>2. CASE i \in 1..a
      BY <2>4, <2>6, <2>9, <3>2
    <3>3. CASE i - a \in 1..b /\ a + (i - a) = i
      <4>1. r[i] = t[i - a]
        BY <2>6, <3>3
      <4> QED
        BY <2>5, <2>9, <3>3, <4>1
    <3> QED
      BY <3>1, <3>2, <3>3
  <2>11. ASSUME NEW cap \in Caps
         PROVE  /\ Cardinality(RowsAt(r, cap)) <= 3
                /\ RowsAt(r, cap) # {} => \E m \in 1..n : cap = Order[m]
    <3>1. CASE cap = Order[n]
      <4>1. RowsAt(s, cap) = {}
        <5>1. \A m \in 1..(n - 1) : m \in 1..len /\ m # n
          BY <1>1
        <5> QED
          BY <1>1, <2>4, <3>1, <5>1
      <4>2. RowsAt(r, cap) \subseteq (a + 1)..(a + b)
        BY <2>7, <4>1
      <4>3. IsFiniteSet((a + 1)..(a + b)) /\ Cardinality((a + 1)..(a + b)) = b
        <5> DEFINE c == a + 1
                   d == a + b
        <5>1. c \in Int /\ d \in Int /\ (IF c > d THEN 0 ELSE d - c + 1) = b
          BY <2>9
        <5> HIDE DEF c, d
        <5>2. IsFiniteSet(c..d) /\ Cardinality(c..d) = b
          BY <5>1, FS_Interval
        <5> QED
          BY <5>2 DEF c, d
      <4> DEFINE C == RowsAt(r, cap)
                 D == (a + 1)..(a + b)
      <4>4. C \subseteq D /\ IsFiniteSet(D) /\ Cardinality(D) = b
        BY <4>2, <4>3
      <4> HIDE DEF C, D
      <4>5. Cardinality(C) <= Cardinality(D) /\ Cardinality(C) \in Nat
        BY <4>4, FS_Subset, FS_CardinalityType
      <4>6. Cardinality(C) <= 3
        BY <2>9, <4>4, <4>5
      <4>7. n \in 1..n
        BY <1>1
      <4> QED
        BY <3>1, <4>6, <4>7 DEF C
    <3>2. CASE cap # Order[n]
      <4>1. RowsAt(t, cap) = {}
        BY <2>5, <3>2 DEF RowsAt
      <4>2. RowsAt(r, cap) = RowsAt(s, cap)
        BY <2>7, <4>1
      <4>3. 1..(n - 1) \subseteq 1..n
        BY <1>1
      <4> QED
        BY <2>4, <4>2, <4>3
    <3> QED
      BY <3>1, <3>2
  <2>12. On(n) /\ Few(n)
    BY <2>8, <2>10, <2>11
  <2> QED
    BY <2>1, <2>12
<1>7. len \in I
  <2>1. len \in 0..len
    BY <1>1
  <2> HIDE DEF I
  <2>2. \A n \in 0..len : n \in I
    BY <1>1, <1>5, <1>6, UpTo
  <2> QED
    BY <2>1, <2>2
<1> DEFINE picked == f[len]
<1>8. picked \in Seq(R) /\ Selections(profiles, catalog, calls) = picked
  BY <1>1, <1>2
<1>9. /\ \A i \in DOMAIN picked : profiles[picked[i].cap].on
      /\ \A cap \in Caps : Cardinality(RowsAt(picked, cap)) <= 3
  BY <1>7
<1> HIDE DEF picked
<1>10. /\ IsList(picked) /\ Len(picked) \in Nat /\ DOMAIN picked = 1..Len(picked)
       /\ picked = [i \in 1..Len(picked) |-> picked[i]]
  BY <1>8, SeqList, ListFacts
<1>11. \A i \in DOMAIN picked : picked[i] \in R
  BY <1>8, <1>10
<1>12. \A i \in DOMAIN picked :
         /\ picked[i] = [cap |-> picked[i].cap, model |-> picked[i].model, old |-> picked[i].old]
         /\ picked[i].cap \in Caps /\ picked[i].model \in IdsOf(catalog) /\ picked[i].old = FALSE
  BY <1>11 DEF R, RowSet
<1>13. Selected(picked, w)
  BY <1>9, <1>10, <1>12 DEF Selected
<1>14. Fresh(picked) = picked
  <2>1. \A i \in DOMAIN picked : [picked[i] EXCEPT !.old = FALSE] = picked[i]
    BY <1>12
  <2> QED
    BY <1>10, <2>1 DEF Fresh
<1> QED
  BY <1>8, <1>12, <1>13, <1>14

-----------------------------------------------------------------------------
(* Another call. *)

LEMMA AppendCall ==
    ASSUME NEW calls, CallList(calls), NEW i, Invocation(i)
    PROVE  /\ CallList(Append(calls, i)) /\ Len(Append(calls, i)) = Len(calls) + 1
           /\ Last(Append(calls, i)) = i
           /\ \A cap, id : Of(Append(calls, i), cap, id) =
                IF i.cap = cap /\ i.model = id THEN Append(Of(calls, cap, id), i)
                ELSE Of(calls, cap, id)
<1> DEFINE t == Append(calls, i)
           n == Len(calls)
<1>1. IsList(calls) /\ \A j \in DOMAIN calls : Invocation(calls[j])
  BY DEF CallList
<1>2. /\ IsList(t) /\ Len(t) = n + 1 /\ n \in Nat /\ DOMAIN calls = 1..n /\ DOMAIN t = 1..(n + 1)
      /\ t[n + 1] = i /\ \A j \in 1..n : t[j] = calls[j]
  BY <1>1, AppendFacts
<1>3. Last(t) = i
  BY <1>2 DEF Last
<1>4. CallList(t)
  <2> HIDE DEF t
  <2>1. ASSUME NEW j \in DOMAIN t PROVE Invocation(t[j])
    <3>1. j = n + 1 \/ j \in 1..n
      BY <1>2
    <3> QED
      BY <1>1, <1>2, <3>1
  <2> QED
    BY <1>2, <2>1 DEF CallList
<1>5. ASSUME NEW cap, NEW id
      PROVE  Of(t, cap, id) = IF i.cap = cap /\ i.model = id THEN Append(Of(calls, cap, id), i)
                              ELSE Of(calls, cap, id)
  <2> DEFINE K == {j \in DOMAIN calls : calls[j].cap = cap /\ calls[j].model = id}
             L == {j \in DOMAIN t : t[j].cap = cap /\ t[j].model = id}
             S == {calls[j] : j \in DOMAIN calls} \cup {i}
             s == calls
  <2>1. Of(t, cap, id) = Those(t, L) /\ Of(s, cap, id) = Those(s, K)
    BY DEF Of
  <2>2. (n + 1 \in L) <=> (i.cap = cap /\ i.model = id)
    BY <1>2
  <2>3. \A j \in 1..n : j \in K <=> j \in L
    <3> HIDE DEF t
    <3>1. \A j \in 1..n : j \in DOMAIN t
      BY <1>2
    <3> QED
      BY <1>2, <3>1
  <2>4. s \in Seq(S) /\ i \in S
    <3>1. s = [j \in 1..n |-> s[j]] /\ \A j \in 1..n : s[j] \in S
      BY <1>1, <1>2, ListFacts
    <3> HIDE DEF s
    <3>2. i \in S
      OBVIOUS
    <3> HIDE DEF S
    <3> QED
      BY <1>2, <3>1, <3>2
  <2> HIDE DEF K, L, S
  <2>5. Those(Append(s, i), L) = IF Len(s) + 1 \in L THEN Append(Those(s, K), i) ELSE Those(s, K)
    BY <2>3, <2>4, ThoseAppend
  <2> QED
    BY <2>1, <2>2, <2>5
<1> QED
  BY <1>2, <1>3, <1>4, <1>5

\* A call of no capability changes no selection.
LEMMA SelectionsIgnore ==
    ASSUME NEW profiles, NEW catalog, CatalogList(catalog), NEW calls, CallList(calls),
           NEW i, Invocation(i), i.cap = "none"
    PROVE  Selections(profiles, catalog, Append(calls, i)) = Selections(profiles, catalog, calls)
<1> DEFINE t == Append(calls, i)
           len == Len(Order)
<1>1. CallList(t) /\ \A cap \in Caps : \A id : Of(t, cap, id) = Of(calls, cap, id)
  BY AppendCall, ControlPlaneAssumption
<1>2. Order \in Seq(Caps) /\ len \in Nat
  BY ControlPlaneAssumption, SetList DEF Order
<1> HIDE DEF t
<1>3. ASSUME NEW cap \in Caps
      PROVE  RowsFor(profiles, catalog, t, cap) = RowsFor(profiles, catalog, calls, cap)
  <2>1. \A id : Of(t, cap, id) = Of(calls, cap, id)
    BY <1>1
  <2>2. Ranked(profiles[cap], catalog, t, cap) = Ranked(profiles[cap], catalog, calls, cap)
    <3> DEFINE profile == profiles[cap]
               fits == Those(catalog, {n \in DOMAIN catalog : catalog[n].context >= profile.min})
               Scored(c) ==
                 {<<n, Score(fits[n].quality, Of(c, cap, fits[n].id))>> : n \in DOMAIN fits}
               Best(scored) ==
                 FirstOf(SortedBy(fits,
                   [n \in DOMAIN fits |-> (CHOOSE p \in scored : p[1] = n)[2]]), 3)
               Built(scored) ==
                 [n \in DOMAIN Best(scored) |->
                    [cap |-> cap, model |-> Best(scored)[n].id, old |-> FALSE]]
    <3>1. /\ Ranked(profile, catalog, t, cap) = Built(Scored(t))
          /\ Ranked(profile, catalog, calls, cap) = Built(Scored(calls))
      BY DEF Ranked
    <3> HIDE DEF fits, profile, Built
    <3>2. Scored(t) = Scored(calls)
      BY <2>1
    <3> HIDE DEF Scored
    <3>3. Ranked(profile, catalog, t, cap) = Ranked(profile, catalog, calls, cap)
      BY <3>1, <3>2
    <3> QED
      BY <3>3 DEF profile
  <2> QED
    BY <2>2 DEF RowsFor
<1>a. PICK f : Stacking(f, profiles, catalog, calls)
  BY SelectionsRecursion
<1>b. PICK g : Stacking(g, profiles, catalog, t)
  BY <1>1, SelectionsRecursion
<1>4. /\ f[0] = <<>> /\ Selections(profiles, catalog, calls) = f[len]
      /\ \A n \in 1..len : f[n] = f[n - 1] \o RowsFor(profiles, catalog, calls, Order[n])
  BY <1>a DEF Stacking
<1>5. /\ g[0] = <<>> /\ Selections(profiles, catalog, t) = g[len]
      /\ \A n \in 1..len : g[n] = g[n - 1] \o RowsFor(profiles, catalog, t, Order[n])
  BY <1>b DEF Stacking
<1>6. \A n \in 1..len : Order[n] \in Caps
  BY <1>2
<1> HIDE DEF len
<1> DEFINE I == {n \in 0..len : g[n] = f[n]}
<1>7. 0 \in I
  BY <1>2, <1>4, <1>5
<1>8. \A n \in 1..len : n - 1 \in I => n \in I
  <2> SUFFICES ASSUME NEW n \in 1..len, g[n - 1] = f[n - 1] PROVE n \in 0..len /\ g[n] = f[n]
    OBVIOUS
  <2>1. RowsFor(profiles, catalog, t, Order[n]) = RowsFor(profiles, catalog, calls, Order[n])
    BY <1>3, <1>6
  <2>2. f[n] = f[n - 1] \o RowsFor(profiles, catalog, calls, Order[n])
    BY <1>4
  <2>3. g[n] = g[n - 1] \o RowsFor(profiles, catalog, t, Order[n])
    BY <1>5
  <2>4. g[n] = f[n]
    BY <2>1, <2>2, <2>3
  <2> QED
    BY <1>2, <2>4
<1>9. len \in 0..len
  BY <1>2
<1>10. \A n \in 0..len : n \in I
  <2> HIDE DEF I
  <2> QED
    BY <1>2, <1>7, <1>8, UpTo
<1> QED
  BY <1>4, <1>5, <1>9, <1>10 DEF t

-----------------------------------------------------------------------------
(* Scores: a fallback that was no faster lowers the speed, raises the share *)
(* of fallbacks, and so does not lift the score.                            *)

LEMMA Quotient ==
    ASSUME NEW a \in Nat, NEW b \in Nat \ {0}
    PROVE  /\ a \div b \in Nat /\ b * (a \div b) <= a
           /\ \A q \in Nat : b * q <= a => q <= a \div b
<1> DEFINE d == a \div b
           r == a % b
<1>1. d \in Nat /\ r \in 0..(b - 1) /\ a = b * d + r
  OBVIOUS
<1> HIDE DEF d, r
<1>2. b * d \in Nat /\ b * d <= a
  BY <1>1
<1>3. ASSUME NEW q \in Nat, b * q <= a PROVE q <= d
  <2> SUFFICES ASSUME q >= d + 1 PROVE FALSE
    BY <1>1
  <2>1. b * q >= b * (d + 1)
    BY <1>1
  <2>2. b * (d + 1) = b * d + b
    BY <1>1
  <2>3. b * q \in Nat
    OBVIOUS
  <2> QED
    BY <1>1, <1>2, <1>3, <2>1, <2>2, <2>3
<1> QED
  BY <1>1, <1>2, <1>3 DEF d

LEMMA ShareMonotone ==
    ASSUME NEW a \in Nat, NEW b \in Nat \ {0}, NEW c \in Nat, NEW d \in Nat \ {0}, a * d <= c * b
    PROVE  Share(a, b) <= Share(c, d)
<1> DEFINE u == 300 * a
           v == 300 * c
           q == u \div b
<1>1. u \in Nat /\ v \in Nat
  OBVIOUS
<1>2. u * d <= v * b
  <2>1. u * d = 300 * (a * d) /\ v * b = 300 * (c * b) /\ a * d \in Nat /\ c * b \in Nat
    OBVIOUS
  <2> HIDE DEF u, v
  <2> QED
    BY <2>1
<1>3. q \in Nat /\ b * q <= u
  <2> HIDE DEF u
  <2> QED
    BY <1>1, Quotient
<1>4. Share(a, b) = q /\ Share(c, d) = v \div d
  BY DEF Share
<1> HIDE DEF u, v, q
<1>5. d * q <= v
  <2> SUFFICES ASSUME d * q > v PROVE FALSE
    <3>1. d * q \in Nat
      BY <1>3
    <3> QED
      BY <1>1, <3>1
  <2>1. (d * q) * b > v * b
    <3> DEFINE x == d * q
    <3>1. x \in Nat /\ x > v
      BY <1>3
    <3> HIDE DEF x
    <3>2. x * b > v * b
      BY <1>1, <3>1
    <3> QED
      BY <3>2 DEF x
  <2>2. (b * q) * d <= u * d
    <3> DEFINE x == b * q
    <3>1. x \in Nat /\ x <= u
      BY <1>3
    <3> HIDE DEF x
    <3>2. x * d <= u * d
      BY <1>1, <3>1
    <3> QED
      BY <3>2 DEF x
  <2>3. (d * q) * b = (b * q) * d
    BY <1>3
  <2>4. (d * q) * b \in Nat /\ v * b \in Nat /\ u * d \in Nat
    BY <1>1, <1>3
  <2> QED
    BY <1>2, <2>1, <2>2, <2>3, <2>4
<1> QED
  BY <1>1, <1>3, <1>4, <1>5, Quotient

\* One more call that was answered and fell back.
LEMMA FallbackCounts ==
    ASSUME NEW calls, CallList(calls), NEW i, Invocation(i), i.ok, i.fallback,
           \A n \in DOMAIN calls : calls[n].ok
    PROVE  LET t == Append(calls, i) IN
           /\ CallList(t) /\ Len(t) = Len(calls) + 1 /\ t # <<>>
           /\ TotalLatency(t) = TotalLatency(calls) + i.latency
           /\ Cardinality(FallbacksOf(t)) = Cardinality(FallbacksOf(calls)) + 1
           /\ Cardinality(Oks(t)) = Len(t) /\ Cardinality(Oks(calls)) = Len(calls)
<1> DEFINE t == Append(calls, i)
           n == Len(calls)
<1>1. IsList(calls) /\ \A j \in DOMAIN calls : Invocation(calls[j])
  BY DEF CallList
<1>2. /\ IsList(t) /\ Len(t) = n + 1 /\ n \in Nat /\ DOMAIN calls = 1..n /\ DOMAIN t = 1..(n + 1)
      /\ t[n + 1] = i /\ \A j \in 1..n : t[j] = calls[j]
  BY <1>1, AppendFacts
<1>3. CallList(t)
  BY AppendCall
<1>4. t # <<>> 
  <2>1. Len(t) # 0
    BY <1>2
  <2> HIDE DEF t
  <2> QED
    BY <2>1
<1>5. TotalLatency(t) = TotalLatency(calls) + i.latency
  <2> DEFINE l == Latencies(calls)
             x == i.latency
  <2>1. l \in Seq(Int) /\ Len(l) = n /\ l = [j \in 1..n |-> calls[j].latency]
    BY <1>2, Counts DEF Latencies
  <2>2. x \in Int
    BY DEF Invocation
  <2>3. Latencies(t) \in Seq(Int) /\ Len(Latencies(t)) = n + 1
    BY <1>2, <1>3, Counts
  <2>4. \A j \in 1..(n + 1) : Latencies(t)[j] = IF j = n + 1 THEN x ELSE l[j]
    <3> HIDE DEF t
    <3>1. Latencies(t) = [j \in 1..(n + 1) |-> t[j].latency]
      BY <1>2 DEF Latencies
    <3> QED
      BY <1>2, <2>1, <3>1
  <2> HIDE DEF l, x, t
  <2>5. /\ Append(l, x) \in Seq(Int) /\ Len(Append(l, x)) = n + 1
        /\ \A j \in 1..(n + 1) : Append(l, x)[j] = IF j = n + 1 THEN x ELSE l[j]
    BY <1>2, <2>1, <2>2
  <2>6. Latencies(t) = Append(l, x)
    <3> DEFINE r == Append(l, x)
               s == Latencies(t)
    <3>1. /\ r \in Seq(Int) /\ Len(r) = n + 1 /\ s \in Seq(Int) /\ Len(s) = n + 1
          /\ \A j \in 1..(n + 1) : r[j] = s[j]
      BY <2>3, <2>4, <2>5
    <3> HIDE DEF r, s
    <3>2. r = s
      BY <3>1
    <3> QED
      BY <3>2 DEF r, s
  <2>7. SumSeq(Latencies(t)) = SumSeq(l) + x
    BY <2>1, <2>2, <2>6, SumAppend
  <2> QED
    BY <2>7 DEF TotalLatency, Latencies, l, x
<1>6. Cardinality(FallbacksOf(t)) = Cardinality(FallbacksOf(calls)) + 1
  <2> DEFINE K == FallbacksOf(calls)
             L == FallbacksOf(t)
             m == n + 1
  <2>1. m \in 1..m /\ \A j \in 1..n : j \in 1..m
    BY <1>2
  <2> HIDE DEF t
  <2>2. /\ K \in SUBSET (1..n) /\ L \in SUBSET (1..(n + 1))
        /\ (\A j \in 1..n : j \in K <=> j \in L) /\ n + 1 \in L
    BY <1>2, <2>1 DEF FallbacksOf
  <2> HIDE DEF K, L
  <2>3. Cardinality(K) \in Nat /\ Cardinality(L) = Cardinality(K) + (IF n + 1 \in L THEN 1 ELSE 0)
    <3>1. n \in Nat
      BY <1>2
    <3> HIDE DEF n
    <3> QED
      BY <2>2, <3>1, CountGrows
  <2> QED
    BY <2>2, <2>3 DEF K, L
<1>7. Cardinality(Oks(t)) = Len(t) /\ Cardinality(Oks(calls)) = Len(calls)
  <2>1. ASSUME NEW j \in DOMAIN t PROVE t[j].ok
    <3>1. j = n + 1 \/ j \in 1..n
      BY <1>2
    <3> QED
      BY <1>2, <3>1
  <2>2. Oks(t) = 1..(n + 1) /\ Oks(calls) = 1..n
    BY <1>2, <2>1 DEF Oks
  <2>3. Cardinality(1..n) = n /\ Cardinality(1..(n + 1)) = n + 1
    <3> DEFINE m == n + 1
    <3>1. n \in Nat /\ m \in Nat
      BY <1>2
    <3> HIDE DEF n, m
    <3>2. Cardinality(1..n) = n /\ Cardinality(1..m) = m
      BY <3>1, FS_Interval
    <3> QED
      BY <3>2 DEF m
  <2> QED
    BY <1>2, <2>2, <2>3
<1> QED
  BY <1>2, <1>3, <1>4, <1>5, <1>6, <1>7

LEMMA ShareWhole == ASSUME NEW n \in Nat \ {0} PROVE Share(n, n) = 300
<1> DEFINE a == 300 * n
           q == a \div n
<1>1. a \in Nat /\ a = n * 300
  OBVIOUS
<1>2. q \in Nat /\ n * q <= a /\ (n * 300 <= a => 300 <= q)
  <2> HIDE DEF a
  <2>1. 300 \in Nat
    OBVIOUS
  <2> QED
    BY <1>1, <2>1, Quotient
<1>3. Share(n, n) = q
  BY DEF Share
<1> HIDE DEF a, q
<1>4. 300 <= q
  BY <1>1, <1>2
<1>5. q <= 300
  <2> SUFFICES ASSUME q >= 301 PROVE FALSE
    BY <1>2
  <2>1. n * q >= n * 301
    BY <1>2
  <2>2. n * 301 = n * 300 + n
    OBVIOUS
  <2>3. n * q \in Nat /\ n * 300 \in Nat
    BY <1>2
  <2> QED
    BY <1>1, <1>2, <2>1, <2>2, <2>3
<1> QED
  BY <1>2, <1>3, <1>4, <1>5

\* The part of the calls that fell back grows with one more that did.
LEMMA FallbackShareGrows ==
    ASSUME NEW n \in Nat \ {0}, NEW f \in Nat, f <= n
    PROVE  Share(f, n) <= Share(f + 1, n + 1)
<1>1. f * (n + 1) <= (f + 1) * n
  <2>1. f * (n + 1) = f * n + f /\ (f + 1) * n = f * n + n /\ f * n \in Nat
    OBVIOUS
  <2> QED
    BY <2>1
<1> DEFINE g == f + 1
           m == n + 1
<1>2. g \in Nat /\ m \in Nat \ {0} /\ f * m <= g * n
  BY <1>1
<1> HIDE DEF g, m
<1>3. Share(f, n) <= Share(g, m)
  BY <1>2, ShareMonotone
<1> QED
  BY <1>3 DEF g, m

\* The speed of a model falls with one more call that took as long as its
\* calls did.
LEMMA SpeedShareFalls ==
    ASSUME NEW n \in Nat \ {0}, NEW p \in Nat \ {0}, NEW total \in Int,
           NEW l \in Nat, l * n >= total,
           total + l < (n + 1) * p
    PROVE  /\ total < n * p
           /\ Share((n + 1) * p - (total + l), (n + 1) * p) <= Share(n * p - total, n * p)
<1> DEFINE w == n * p
           v == (n + 1) * p
<1>1. w \in Nat \ {0} /\ v \in Nat \ {0} /\ v = w + p
  OBVIOUS
<1>2. total < w
  <2> SUFFICES ASSUME total >= w PROVE FALSE
    BY <1>1
  <2>1. l * n >= n * p
    <3>1. l * n \in Nat
      OBVIOUS
    <3> QED
      BY <1>1, <3>1
  <2>2. l >= p
    <3> SUFFICES ASSUME l + 1 <= p PROVE FALSE
      OBVIOUS
    <3>1. n * (l + 1) <= n * p
      OBVIOUS
    <3>2. n * (l + 1) = l * n + n /\ l * n \in Nat /\ n * p \in Nat
      OBVIOUS
    <3> QED
      BY <2>1, <3>1, <3>2
  <2> HIDE DEF w, v
  <2>3. total + l < v
    BY DEF v
  <2> QED
    BY <1>1, <2>2, <2>3
<1> DEFINE a == v - (total + l)
           c == w - total
<1>3. a \in Nat /\ c \in Nat
  <2>1. total + l < v
    OBVIOUS
  <2> HIDE DEF w, v
  <2> QED
    BY <1>1, <1>2, <2>1
<1>4. a * w <= c * v
  <2>1. total * n + l * n >= total * n + total
    <3>1. total * n \in Int /\ l * n \in Int
      OBVIOUS
    <3> DEFINE x == total * n
               y == l * n
    <3>2. x \in Int /\ y \in Int /\ y >= total
      BY <3>1
    <3> HIDE DEF x, y
    <3>3. x + y >= x + total
      BY <3>2
    <3> QED
      BY <3>3 DEF x, y
  <2> DEFINE z == (total * n + l * n) - (total * n + total)
  <2>2. z \in Int /\ z >= 0
    <3>1. total * n \in Int /\ l * n \in Int
      OBVIOUS
    <3> QED
      BY <2>1, <3>1
  <2>3. c * v - a * w = p * z
    OBVIOUS
  <2>4. p * z >= 0
    <3> HIDE DEF z
    <3> QED
      BY <2>2
  <2>5. c * v \in Int /\ a * w \in Int /\ p * z \in Int
    <3> HIDE DEF a, c, w, v
    <3>1. c * v \in Int /\ a * w \in Int
      BY <1>1, <1>3
    <3> HIDE DEF z
    <3>2. p * z \in Int
      BY <2>2
    <3> QED
      BY <3>1, <3>2
  <2> DEFINE g == c * v
             h == a * w
             k == p * z
  <2>6. g \in Int /\ h \in Int /\ k \in Int /\ g - h = k /\ k >= 0
    BY <2>3, <2>4, <2>5
  <2> HIDE DEF g, h, k
  <2>7. h <= g
    BY <2>6
  <2> QED
    BY <2>7 DEF g, h
<1> HIDE DEF a, c, w, v
<1>5. Share(a, w + p) <= Share(c, w)
  BY <1>1, <1>3, <1>4, ShareMonotone
<1> QED
  BY <1>1, <1>2, <1>5 DEF a, c, w, v

LEMMA FallbackLowers ==
    ASSUME NEW calls, CallList(calls), NEW i, Invocation(i), i.ok, i.fallback,
           \A n \in DOMAIN calls : calls[n].ok,
           IF calls = <<>> THEN i.latency >= Preferred
           ELSE i.latency * Len(calls) >= TotalLatency(calls)
    PROVE  Score(0, Append(calls, i)) <= Score(0, calls)
<1> DEFINE t == Append(calls, i)
           n == Len(calls)
           p == Preferred
           l == i.latency
           total == TotalLatency(calls)
           f == Cardinality(FallbacksOf(calls))
<1>1. /\ CallList(t) /\ Len(t) = n + 1 /\ t # <<>>
      /\ TotalLatency(t) = total + l /\ Cardinality(FallbacksOf(t)) = f + 1
      /\ Cardinality(Oks(t)) = n + 1 /\ Cardinality(Oks(calls)) = n
  BY FallbackCounts
<1>2. /\ n \in Nat /\ (calls = <<>> <=> n = 0) /\ f \in Nat /\ f <= n /\ total \in Int
  BY Counts
<1>3. p \in Nat \ {0} /\ l \in Nat
  BY ControlPlaneAssumption DEF Invocation
<1>4. Reliability(calls) \in Nat /\ Fallbacks(calls) \in Nat /\ Speed(calls) \in Nat
  BY ScoreParts
<1>5. Reliability(t) \in Nat /\ Fallbacks(t) \in Nat /\ Speed(t) \in Nat
  BY <1>1, ScoreParts
<1> HIDE DEF t
<1>6. Reliability(t) = 300
  <2>1. Reliability(t) = Share(n + 1, n + 1)
    BY <1>1 DEF Reliability, Oks
  <2> DEFINE m == n + 1
  <2>2. m \in Nat \ {0}
    BY <1>2
  <2> HIDE DEF m
  <2>3. Share(m, m) = 300
    BY <2>2, ShareWhole
  <2> QED
    BY <2>1, <2>3 DEF m
<1>7. Fallbacks(t) = Share(f + 1, n + 1)
  BY <1>1 DEF Fallbacks, FallbacksOf
<1>8. Speed(t) = IF total + l >= (n + 1) * p THEN 0
                 ELSE Share((n + 1) * p - (total + l), (n + 1) * p)
  BY <1>1 DEF Speed
<1>9. CASE calls = <<>>
  <2>1. Reliability(calls) = 252 /\ Fallbacks(calls) = 0
    BY <1>9 DEF Reliability, Fallbacks
  <2>2. n = 0 /\ f = 0 /\ total = 0
    <3>1. DOMAIN calls = {}
      BY <1>9
    <3>2. Latencies(calls) = <<>>
      BY <1>9 DEF Latencies
    <3>3. SumSeq(<<>>) = 0
      <4> DEFINE e == <<>>
      <4>1. e \in Seq(Int) /\ Len(e) = 0
        OBVIOUS
      <4> HIDE DEF e
      <4>2. PICK g : Summing(g, e)
        BY <4>1, SumRecursion
      <4>3. SumSeq(e) = 0
        BY <4>1, <4>2 DEF Summing
      <4> QED
        BY <4>3 DEF e
    <3>4. total = 0
      BY <3>2, <3>3 DEF TotalLatency, Latencies
    <3> QED
      BY <1>2, <1>9, <3>4
  <2>3. Fallbacks(t) = 300
    <3>1. f + 1 = 1 /\ n + 1 = 1
      BY <2>2
    <3>2. Share(1, 1) = 300
      BY ShareWhole
    <3> QED
      BY <1>7, <3>1, <3>2
  <2>4. Speed(t) = 0
    <3>1. l >= p
      BY <1>9
    <3>2. total + l = l /\ (n + 1) * p = p
      BY <1>3, <2>2
    <3> QED
      BY <1>3, <1>8, <3>1, <3>2
  <2> QED
    BY <1>4, <1>5, <1>6, <2>1, <2>3, <2>4 DEF Score, t
<1>10. CASE calls # <<>>
  <2>1. n \in Nat \ {0}
    BY <1>2, <1>10
  <2>2. Reliability(calls) = 300
    <3>1. Reliability(calls) = Share(n, n)
      BY <1>1, <1>10 DEF Reliability, Oks
    <3> HIDE DEF n
    <3> QED
      BY <2>1, <3>1, ShareWhole
  <2>3. Fallbacks(calls) <= Fallbacks(t)
    <3>1. Fallbacks(calls) = Share(f, n)
      BY <1>10 DEF Fallbacks, FallbacksOf
    <3> HIDE DEF f, n
    <3> QED
      BY <1>2, <1>7, <2>1, <3>1, FallbackShareGrows
  <2>4. Speed(t) <= Speed(calls)
    <3>1. Speed(calls) = IF total >= n * p THEN 0 ELSE Share(n * p - total, n * p)
      BY <1>10 DEF Speed
    <3>2. l * n >= total
      BY <1>10
    <3> HIDE DEF n, total, p, l
    <3>3. CASE total + l >= (n + 1) * p
      BY <1>4, <1>8, <3>3
    <3>4. CASE ~(total + l >= (n + 1) * p)
      <4>1. total + l < (n + 1) * p
        <5>1. (n + 1) * p \in Int /\ total + l \in Int
          BY <1>2, <1>3
        <5> QED
          BY <3>4, <5>1
      <4>2. /\ total < n * p
            /\ Share((n + 1) * p - (total + l), (n + 1) * p) <= Share(n * p - total, n * p)
        BY <1>2, <1>3, <2>1, <3>2, <4>1, SpeedShareFalls
      <4>3. ~(total >= n * p)
        <5>1. n * p \in Int
          BY <1>3, <2>1
        <5> QED
          BY <1>2, <4>2, <5>1
      <4> QED
        BY <1>8, <3>1, <3>4, <4>2, <4>3
    <3> QED
      BY <3>3, <3>4
  <2> QED
    BY <1>4, <1>5, <1>6, <2>2, <2>3, <2>4 DEF Score, t
<1> QED
  BY <1>9, <1>10

-----------------------------------------------------------------------------
(* Runs. *)

\* u is t with one table changed.
But(u, t, table) ==
    /\ Tables(u)
    /\ table # "profiles" => u.profiles = t.profiles
    /\ table # "catalog" => u.catalog = t.catalog
    /\ table # "snaps" => u.snaps = t.snaps
    /\ table # "calls" => u.calls = t.calls
    /\ table # "flag" => u.flag = t.flag
    /\ table # "byok" => u.byok = t.byok
    /\ table # "audit" => u.audit = t.audit

LEMMA ButOne ==
    ASSUME NEW t, Tables(t), NEW v
    PROVE  /\ But([t EXCEPT !.profiles = v], t, "profiles")
           /\ [t EXCEPT !.profiles = v].profiles = v
           /\ But([t EXCEPT !.catalog = v], t, "catalog") /\ [t EXCEPT !.catalog = v].catalog = v
           /\ But([t EXCEPT !.snaps = v], t, "snaps") /\ [t EXCEPT !.snaps = v].snaps = v
           /\ But([t EXCEPT !.calls = v], t, "calls") /\ [t EXCEPT !.calls = v].calls = v
           /\ But([t EXCEPT !.flag = v], t, "flag") /\ [t EXCEPT !.flag = v].flag = v
           /\ But([t EXCEPT !.byok = v], t, "byok") /\ [t EXCEPT !.byok = v].byok = v
           /\ But([t EXCEPT !.audit = v], t, "audit") /\ [t EXCEPT !.audit = v].audit = v
<1>1. DOMAIN t = Parts /\ t = [p \in Parts |-> t[p]]
  BY DEF Tables
<1>2. But([t EXCEPT !.profiles = v], t, "profiles") /\ [t EXCEPT !.profiles = v].profiles = v
  BY <1>1 DEF But, Tables, Parts
<1>3. But([t EXCEPT !.catalog = v], t, "catalog") /\ [t EXCEPT !.catalog = v].catalog = v
  BY <1>1 DEF But, Tables, Parts
<1>4. But([t EXCEPT !.snaps = v], t, "snaps") /\ [t EXCEPT !.snaps = v].snaps = v
  BY <1>1 DEF But, Tables, Parts
<1>5. But([t EXCEPT !.calls = v], t, "calls") /\ [t EXCEPT !.calls = v].calls = v
  BY <1>1 DEF But, Tables, Parts
<1>6. But([t EXCEPT !.flag = v], t, "flag") /\ [t EXCEPT !.flag = v].flag = v
  BY <1>1 DEF But, Tables, Parts
<1>7. But([t EXCEPT !.byok = v], t, "byok") /\ [t EXCEPT !.byok = v].byok = v
  BY <1>1 DEF But, Tables, Parts
<1>8. But([t EXCEPT !.audit = v], t, "audit") /\ [t EXCEPT !.audit = v].audit = v
  BY <1>1 DEF But, Tables, Parts
<1> QED
  BY <1>2, <1>3, <1>4, <1>5, <1>6, <1>7, <1>8

\* Of an entry of a run.
Keeps(e, w) == Meets(e.txn, w) /\ Meets(e.db, w)

\* Whatever a run leaves off with is what may be wanted.
Through(run, w) ==
    /\ run = [at |-> run.at, ends |-> run.ends]
    /\ IsList(run.at) /\ Len(run.at) > 0
    /\ \A k \in DOMAIN run.at : Keeps(run.at[k], w)

\* A run that nothing failed in so far.
At(run, now, stored) ==
    run.ends = "done" /\ Last(run.at).txn = now /\ Last(run.at).db = stored

LEMMA LastKept ==
    ASSUME NEW run, NEW w, Through(run, w)
    PROVE  Len(run.at) \in DOMAIN run.at /\ Keeps(Last(run.at), w)
<1>1. IsList(run.at) /\ Len(run.at) > 0 /\ \A k \in DOMAIN run.at : Keeps(run.at[k], w)
  BY DEF Through
<1>2. Len(run.at) \in Nat /\ DOMAIN run.at = 1..Len(run.at)
  BY <1>1, ListFacts
<1> QED
  BY <1>1, <1>2 DEF Last

LEMMA WritesThrough ==
    ASSUME NEW run, NEW w, Through(run, w), NEW now, NEW stored, At(run, now, stored),
           NEW tables, IsList(tables), Len(tables) > 0,
           \A n \in DOMAIN tables : Meets(tables[n], w)
    PROVE  /\ Through(Writes(run, tables), w)
           /\ At(Writes(run, tables), tables[Len(tables)], stored)
<1> DEFINE s == run.at
           t == [n \in DOMAIN tables |-> [txn |-> tables[n], db |-> Last(s).db]]
           r == Writes(run, tables)
           m == Len(tables)
<1>1. /\ run = [at |-> run.at, ends |-> run.ends] /\ IsList(s) /\ Len(s) > 0
      /\ \A k \in DOMAIN s : Keeps(s[k], w)
  BY DEF Through
<1>2. run.ends = "done" /\ Last(s).db = stored
  BY DEF At
<1>3. /\ m \in Nat /\ m > 0 /\ DOMAIN tables = 1..m
      /\ Len(s) \in Nat /\ DOMAIN s = 1..Len(s)
  BY <1>1, ListFacts
<1>4. r = [run EXCEPT !.at = s \o t]
  BY <1>2 DEF Writes
<1>5. t = [n \in 1..m |-> t[n]] /\ \A n \in 1..m : t[n].txn = tables[n] /\ t[n].db = stored
  BY <1>2, <1>3
<1> HIDE DEF t
<1>6. IsList(t) /\ Len(t) = m /\ DOMAIN t = 1..m
  BY <1>3, <1>5, FunctionList
<1>7. Keeps(Last(s), w)
  BY LastKept
<1>8. \A n \in 1..m : Keeps(t[n], w)
  BY <1>2, <1>3, <1>5, <1>7 DEF Keeps
<1> DEFINE u == s \o t
<1>9. /\ IsList(u) /\ Len(u) = Len(s) + m /\ DOMAIN u = 1..(Len(s) + m)
      /\ \A i \in 1..Len(s) : u[i] = s[i]
      /\ \A i \in 1..m : u[Len(s) + i] = t[i]
  BY <1>1, <1>6, ConcatList
<1>10. r.at = u /\ r.ends = "done" /\ r = [at |-> r.at, ends |-> r.ends]
  <2> HIDE DEF r, u, s
  <2>1. run = [at |-> s, ends |-> "done"]
    BY <1>1, <1>2 DEF s
  <2>2. r = [run EXCEPT !.at = u]
    BY <1>4 DEF u
  <2> QED
    BY <2>1, <2>2
<1> HIDE DEF u, r, s, m
<1>11. ASSUME NEW k \in DOMAIN u PROVE Keeps(u[k], w)
  <2>1. k \in 1..Len(s) \/ (k - Len(s) \in 1..m /\ Len(s) + (k - Len(s)) = k)
    BY <1>3, <1>9
  <2>2. CASE k \in 1..Len(s)
    BY <1>1, <1>3, <1>9, <2>2
  <2>3. CASE k - Len(s) \in 1..m /\ Len(s) + (k - Len(s)) = k
    <3>1. u[k] = t[k - Len(s)]
      BY <1>9, <2>3
    <3> QED
      BY <1>8, <2>3, <3>1
  <2> QED
    BY <2>1, <2>2, <2>3
<1>12. Through(r, w)
  BY <1>3, <1>9, <1>10, <1>11 DEF Through
<1>13. Last(u) = t[m]
  BY <1>3, <1>9 DEF Last
<1>14. At(r, tables[m], stored)
  BY <1>3, <1>5, <1>10, <1>13 DEF At
<1> QED
  BY <1>12, <1>14 DEF r, m

LEMMA WriteThrough ==
    ASSUME NEW run, NEW w, Through(run, w), NEW now, NEW stored, At(run, now, stored),
           NEW tables, Meets(tables, w)
    PROVE  Through(Write(run, tables), w) /\ At(Write(run, tables), tables, stored)
<1> DEFINE t == <<tables>>
<1>1. Len(t) = 1 /\ DOMAIN t = 1..1 /\ t[1] = tables /\ t \in Seq({tables})
  OBVIOUS
<1>2. Write(run, tables) = Writes(run, t)
  BY DEF Write
<1> HIDE DEF t
<1>3. IsList(t)
  BY <1>1, SeqList
<1>4. \A n \in DOMAIN t : n = 1 /\ t[n] = tables
  BY <1>1
<1>5. \A n \in DOMAIN t : Meets(t[n], w)
  BY <1>4
<1>6. Len(t) > 0
  BY <1>1
<1>7. Through(Writes(run, t), w) /\ At(Writes(run, t), t[Len(t)], stored)
  BY ONLY Through(run, w), At(run, now, stored), <1>3, <1>5, <1>6, WritesThrough
<1> QED
  BY <1>1, <1>2, <1>7

LEMMA CommitThrough ==
    ASSUME NEW run, NEW w, Through(run, w), NEW now, NEW stored, At(run, now, stored)
    PROVE  Through(Commit(run), w) /\ At(Commit(run), now, now)
<1> DEFINE s == run.at
           e == [txn |-> now, db |-> now]
           r == Commit(run)
           u == Append(s, e)
<1>1. /\ run = [at |-> run.at, ends |-> run.ends] /\ IsList(s) /\ Len(s) > 0
      /\ \A k \in DOMAIN s : Keeps(s[k], w)
  BY DEF Through
<1>2. run.ends = "done" /\ Last(s).txn = now
  BY DEF At
<1>3. r = [run EXCEPT !.at = u]
  BY <1>2 DEF Commit
<1>4. /\ IsList(u) /\ Len(u) = Len(s) + 1 /\ Len(s) \in Nat /\ DOMAIN s = 1..Len(s)
      /\ DOMAIN u = 1..(Len(s) + 1) /\ u[Len(s) + 1] = e
      /\ \A i \in 1..Len(s) : u[i] = s[i]
  BY <1>1, AppendFacts
<1>5. Keeps(Last(s), w)
  BY LastKept
<1>6. Keeps(e, w)
  BY <1>2, <1>5 DEF Keeps
<1>7. r.at = u /\ r.ends = "done" /\ r = [at |-> r.at, ends |-> r.ends]
  <2> HIDE DEF r, u, s
  <2>1. run = [at |-> s, ends |-> "done"]
    BY <1>1, <1>2 DEF s
  <2> QED
    BY <1>3, <2>1
<1> HIDE DEF r, u, s
<1>8. ASSUME NEW k \in DOMAIN u PROVE Keeps(u[k], w)
  <2>1. k \in 1..Len(s) \/ k = Len(s) + 1
    BY <1>4
  <2> QED
    BY <1>1, <1>4, <1>6, <2>1
<1>9. Through(r, w)
  BY <1>1, <1>4, <1>7, <1>8 DEF Through
<1>10. At(r, now, now)
  BY <1>4, <1>7 DEF At, Last
<1> QED
  BY <1>9, <1>10 DEF r

AuditOf(now)  == [now EXCEPT !.audit = @ + 1]
SelectOf(now, day) == [now EXCEPT !.snaps = Generated(now, day)]

\* A run that failed does nothing more.
LEMMA FailedIdle ==
    ASSUME NEW run, run.ends # "done"
    PROVE  Commit(run) = run /\ Audit(run) = run /\ Refreshed(run) = run
<1>1. Commit(run) = run /\ \A tables : Writes(run, tables) = run /\ Write(run, tables) = run
  BY DEF Commit, Write, Writes
<1>2. Audit(run) = run
  BY <1>1 DEF Audit
<1>3. Refreshed(run) = run
  BY <1>1 DEF Refreshed
<1> QED
  BY <1>1, <1>2, <1>3

LEMMA AuditThrough ==
    ASSUME NEW run, NEW w, Wants(w), Through(run, w), NEW now,
           NEW stored, At(run, now, stored)
    PROVE  /\ Through(Audit(run), w) /\ At(Audit(run), AuditOf(now), AuditOf(now))
           /\ But(AuditOf(now), now, "audit") /\ AuditOf(now).audit = now.audit + 1
<1> DEFINE u == AuditOf(now)
<1>1. Meets(now, w)
  BY LastKept DEF At, Keeps
<1>2. But(u, now, "audit") /\ u.audit = now.audit + 1
  <2> DEFINE v == now.audit + 1
  <2>1. Tables(now) /\ u = [now EXCEPT !.audit = v]
    BY <1>1 DEF AuditOf, Meets
  <2> HIDE DEF v, u
  <2> QED
    BY <2>1, ButOne DEF v
<1>3. Audit(run) = Commit(Write(run, u))
  BY DEF Audit, AuditOf, Now, At
<1> HIDE DEF u
<1>4. Meets(u, w)
  <2>1. w.audit \in Nat
    BY DEF Wants
  <2> QED
    BY <1>1, <1>2, <2>1 DEF Meets, But
<1>5. Through(Write(run, u), w) /\ At(Write(run, u), u, stored)
  BY <1>1, <1>4, WriteThrough
<1>6. Through(Audit(run), w) /\ At(Audit(run), u, u)
  BY <1>3, <1>5, CommitThrough
<1> QED
  BY <1>2, <1>6 DEF u

LEMMA SelectedPrefix ==
    ASSUME NEW snaps, NEW w, Selected(snaps, w), NEW n \in 0..Len(snaps)
    PROVE  Selected(SubSeq(snaps, 1, n), w)
<1> DEFINE s == SubSeq(snaps, 1, n)
<1>1. IsList(snaps) /\ Len(snaps) \in Nat /\ DOMAIN snaps = 1..Len(snaps)
  BY ListFacts DEF Selected
<1>2. /\ IsList(s) /\ DOMAIN s = 1..n
      /\ \A i \in 1..n : i \in DOMAIN snaps /\ s[i] = snaps[i]
  BY <1>1, PrefixList
<1> HIDE DEF s
<1>3. ASSUME NEW cap \in Caps PROVE Cardinality(RowsAt(s, cap)) <= 3
  <2> DEFINE A == RowsAt(s, cap)
             B == RowsAt(snaps, cap)
  <2>1. A \subseteq B /\ B \subseteq 1..Len(snaps)
    BY <1>1, <1>2 DEF RowsAt
  <2>2. IsFiniteSet(1..Len(snaps))
    BY <1>1, FS_Interval
  <2>3. Cardinality(B) <= 3
    BY DEF Selected
  <2> HIDE DEF A, B
  <2>4. /\ IsFiniteSet(B) /\ Cardinality(A) <= Cardinality(B) /\ Cardinality(A) \in Nat
        /\ Cardinality(B) \in Nat
    BY <2>1, <2>2, FS_Subset, FS_CardinalityType
  <2> QED
    BY <2>3, <2>4 DEF A
<1> QED
  BY <1>2, <1>3 DEF Selected, s

LEMMA RefreshedThrough ==
    ASSUME NEW run, NEW w, Wants(w), Through(run, w), NEW now,
           NEW stored, At(run, now, stored)
    PROVE  /\ Through(Refreshed(run), w)
           /\ At(Refreshed(run), SelectOf(now, today), SelectOf(now, today))
           /\ But(SelectOf(now, today), now, "snaps")
           /\ SelectOf(now, today).snaps = Generated(SelectOf(now, today), today)
           /\ \A i \in DOMAIN SelectOf(now, today).snaps : ~SelectOf(now, today).snaps[i].old
           /\ Follow(SelectOf(now, today), today)
<1> DEFINE picked == Generated(now, today)
           n == Len(picked)
           tables == [k \in 1..(n + 1) |-> [now EXCEPT !.snaps = SubSeq(picked, 1, k - 1)]]
           u == SelectOf(now, today)
<1>1. Meets(now, w)
  BY LastKept DEF At, Keeps
<1>2. /\ Tables(now) /\ now.profiles \in w.profiles /\ now.catalog \in w.catalogs
      /\ CallList(now.calls)
  BY <1>1 DEF Meets
<1>3. CatalogList(now.catalog)
  BY <1>2 DEF Wants
<1>4. Refreshed(run) = Commit(Writes(run, tables))
  BY DEF Refreshed, Now, At
<1>5. /\ Selected(picked, w) /\ (\A i \in DOMAIN picked : ~picked[i].old) /\ Fresh(picked) = picked
  <2> DEFINE catalog == Unexpired(now.catalog, today)
  <2>1. CatalogList(catalog) /\ IdsOf(catalog) \subseteq IdsOf(now.catalog)
    BY <1>3, UnexpiredList
  <2>2. picked = Selections(now.profiles, catalog, now.calls)
    BY DEF Generated
  <2> HIDE DEF catalog, picked
  <2> QED
    BY <1>2, <2>1, <2>2, SelectionRows
<1> HIDE DEF picked
<1>6. IsList(picked) /\ n \in Nat
  BY <1>5, ListFacts DEF Selected
<1>7. But(u, now, "snaps") /\ u.snaps = picked
  <2>1. u = [now EXCEPT !.snaps = picked]
    BY DEF SelectOf, picked
  <2> HIDE DEF u
  <2> QED
    BY <1>2, <2>1, ButOne
<1> HIDE DEF u
<1>8. Generated(u, today) = picked
  BY <1>7 DEF Generated, picked, But
<1>9. /\ tables = [k \in 1..(n + 1) |-> tables[k]]
      /\ \A k \in 1..(n + 1) : tables[k] = [now EXCEPT !.snaps = SubSeq(picked, 1, k - 1)]
  OBVIOUS
<1> HIDE DEF tables
<1>10. IsList(tables) /\ Len(tables) = n + 1 /\ DOMAIN tables = 1..(n + 1)
  <2> DEFINE m == n + 1
  <2>1. m \in Nat /\ tables = [k \in 1..m |-> tables[k]]
    BY <1>6, <1>9
  <2> HIDE DEF m, n
  <2>2. IsList(tables) /\ Len(tables) = m /\ DOMAIN tables = 1..m
    BY <2>1, FunctionList
  <2> QED
    BY <2>2 DEF m
<1>11. ASSUME NEW k \in 1..(n + 1) PROVE Meets(tables[k], w)
  <2> DEFINE v == SubSeq(picked, 1, k - 1)
             t == [now EXCEPT !.snaps = v]
  <2>1. Selected(v, w)
    <3>1. k - 1 \in 0..Len(picked)
      BY <1>6
    <3> QED
      BY <1>5, <3>1, SelectedPrefix
  <2>2. tables[k] = t
    BY <1>9
  <2> HIDE DEF v
  <2>3. But(t, now, "snaps") /\ t.snaps = v
    BY <1>2, ButOne
  <2> HIDE DEF t
  <2> QED
    BY <1>1, <2>1, <2>2, <2>3 DEF Meets, But
<1>12. tables[n + 1] = u
  <2>1. n + 1 \in 1..(n + 1) /\ n + 1 - 1 = n
    BY <1>6
  <2>2. tables[n + 1] = [now EXCEPT !.snaps = SubSeq(picked, 1, n)]
    BY <1>9, <2>1
  <2>3. SubSeq(picked, 1, n) = picked
    <3>1. picked \in Seq({picked[i] : i \in DOMAIN picked})
      BY <1>6 DEF IsList
    <3> QED
      BY <3>1, SubSeqFull
  <2> QED
    BY <2>2, <2>3 DEF u, SelectOf, picked
<1> DEFINE r == Writes(run, tables)
<1>13. Through(r, w) /\ At(r, u, stored)
  <2>1. Len(tables) > 0
    BY <1>6, <1>10
  <2>2. Through(r, w) /\ At(r, tables[Len(tables)], stored)
    BY <1>1, <1>10, <1>11, <2>1, WritesThrough
  <2> QED
    BY <1>10, <1>12, <2>2
<1> HIDE DEF r
<1>14. Through(Commit(r), w) /\ At(Commit(r), u, u)
  BY <1>13, CommitThrough
<1>15. Follow(u, today)
  BY <1>5, <1>7, <1>8 DEF Follow, Fresh
<1> QED
  BY <1>4, <1>5, <1>7, <1>8, <1>14, <1>15 DEF u, r

LEMMA EndsThrough ==
    ASSUME NEW run, NEW w, Through(run, w), NEW how, run.ends = "done"
    PROVE  /\ Through(Ends(run, how), w) /\ Ends(run, how).ends = how
           /\ Ends(run, how).at = run.at
<1> DEFINE s == run.at
           r == Ends(run, how)
<1>1. run = [at |-> s, ends |-> "done"]
  BY DEF Through
<1>2. r = [run EXCEPT !.ends = how]
  BY DEF Ends
<1>3. IsList(s) /\ Len(s) > 0 /\ \A k \in DOMAIN s : Keeps(s[k], w)
  BY DEF Through
<1> HIDE DEF s, r
<1>4. r.at = s /\ r.ends = how /\ r = [at |-> r.at, ends |-> r.ends]
  BY <1>1, <1>2
<1>5. Through(r, w)
  BY <1>3, <1>4 DEF Through
<1> QED
  BY <1>4, <1>5 DEF r, s

\* The beginnings of a catalog.
Beginnings(entries) == {SubSeq(entries, 1, n) : n \in 0..Len(entries)}
CatalogOf(now, entries) == [now EXCEPT !.catalog = entries]

LEMMA CataloguedThrough ==
    ASSUME NEW entries, CatalogList(entries),
           NEW run, NEW w, Beginnings(entries) \subseteq w.catalogs,
           Through(run, w), NEW now, NEW stored, At(run, now, stored)
    PROVE  /\ Through(Catalogued(run, entries), w)
           /\ Catalogued(run, entries).ends # "closed"
           /\ Catalogued(run, entries).ends # "done" => entries # <<>>
           /\ Catalogued(run, entries).ends = "done" =>
                At(Catalogued(run, entries), CatalogOf(now, entries), CatalogOf(now, entries))
           /\ But(CatalogOf(now, entries), now, "catalog")
           /\ CatalogOf(now, entries).catalog = entries
<1> DEFINE n == Len(entries)
           Unique(k) == Cardinality({entries[i].id : i \in 1..k}) = k
           K == {k \in 0..n : Unique(k)}
           kept == Max(K)
           tables == [k \in 1..(kept + 1) |-> [now EXCEPT !.catalog = SubSeq(entries, 1, k - 1)]]
           u == CatalogOf(now, entries)
           r == Writes(run, tables)
           s == Catalogued(run, entries)
<1>1. Meets(now, w)
  BY LastKept DEF At, Keeps
<1>2. IsList(entries) /\ n \in Nat
  BY ListFacts DEF CatalogList
<1>3. kept \in 0..n
  <2>1. 0 \in K
    <3>1. {entries[i].id : i \in 1..0} = {}
      OBVIOUS
    <3>2. Unique(0)
      BY <3>1, FS_EmptySet
    <3> QED
      BY <1>2, <3>2
  <2>2. \E k \in K : \A j \in K : k >= j
    <3> DEFINE L == K \cap 1..n
    <3>1. K \subseteq 0..n
      OBVIOUS
    <3> HIDE DEF K
    <3>2. L \in SUBSET (1..n) /\ \A k \in K : k \in L \/ k = 0
      BY <1>2, <3>1
    <3>3. CASE L = {}
      BY <2>1, <3>2, <3>3
    <3>4. CASE L # {}
      <4> HIDE DEF L
      <4>1. \E k \in L : \A j \in L : j <= k
        BY <1>2, <3>2, <3>4, LastPlace
      <4>2. PICK k \in L : \A j \in L : j <= k
        BY <4>1
      <4>3. k \in K /\ k >= 0 /\ k \in Nat
        BY <3>2, <4>2 DEF L
      <4>4. \A j \in K : k >= j
        <5> SUFFICES ASSUME NEW j \in K PROVE k >= j
          OBVIOUS
        <5>1. j \in L \/ j = 0
          BY <3>2
        <5>2. \A m \in L : m \in Nat
          BY <3>2
        <5> QED
          BY <4>2, <4>3, <5>1, <5>2
      <4> QED
        BY <4>3, <4>4
    <3> QED
      BY <3>3, <3>4
  <2>3. K \subseteq 0..n
    OBVIOUS
  <2> HIDE DEF K
  <2>4. kept \in K
    BY <2>2 DEF Max
  <2> QED
    BY <2>3, <2>4
<1>4. s = IF kept = n THEN Commit(r) ELSE Ends(r, "failed")
  BY DEF Catalogued, Now, At
<1> HIDE DEF kept
<1>5. kept + 1 \in Nat /\ kept \in Nat /\ tables = [k \in 1..(kept + 1) |-> tables[k]]
  BY <1>2, <1>3
<1>6. \A k \in 1..(kept + 1) : tables[k] = [now EXCEPT !.catalog = SubSeq(entries, 1, k - 1)]
  OBVIOUS
<1> HIDE DEF tables
<1>7. IsList(tables) /\ Len(tables) = kept + 1 /\ DOMAIN tables = 1..(kept + 1)
  BY <1>5, FunctionList
<1>8. Tables(now)
  BY <1>1 DEF Meets
<1>9. ASSUME NEW k \in 1..(kept + 1) PROVE Meets(tables[k], w)
  <2> DEFINE v == SubSeq(entries, 1, k - 1)
             t == [now EXCEPT !.catalog = v]
  <2>1. v \in w.catalogs
    <3>1. k - 1 \in 0..n
      BY <1>2, <1>3
    <3>2. v \in Beginnings(entries)
      BY <3>1 DEF Beginnings
    <3> HIDE DEF v
    <3> QED
      BY <3>2
  <2>2. tables[k] = t
    BY <1>6
  <2> HIDE DEF v
  <2>3. But(t, now, "catalog") /\ t.catalog = v
    BY <1>8, ButOne
  <2> HIDE DEF t
  <2> QED
    BY <1>1, <2>1, <2>2, <2>3 DEF Meets, But
<1> DEFINE x == tables[kept + 1]
<1>10. Through(r, w) /\ At(r, x, stored)
  <2>1. Len(tables) > 0
    BY <1>5, <1>7
  <2>2. Through(r, w) /\ At(r, tables[Len(tables)], stored)
    BY <1>1, <1>7, <1>9, <2>1, WritesThrough
  <2> QED
    BY <1>7, <2>2
<1>11. kept = n => x = u
  <2> SUFFICES ASSUME kept = n PROVE x = u
    OBVIOUS
  <2> DEFINE m == kept + 1
  <2>1. m \in 1..(kept + 1) /\ m - 1 = n
    BY <1>5
  <2>2. x = [now EXCEPT !.catalog = SubSeq(entries, 1, n)]
    <3> HIDE DEF m
    <3>1. tables[m] = [now EXCEPT !.catalog = SubSeq(entries, 1, m - 1)]
      BY <1>6, <2>1
    <3>2. tables[m] = [now EXCEPT !.catalog = SubSeq(entries, 1, n)]
      BY <2>1, <3>1
    <3> QED
      BY <3>2 DEF m
  <2>3. SubSeq(entries, 1, n) = entries
    <3>1. entries \in Seq({entries[i] : i \in DOMAIN entries})
      BY <1>2 DEF IsList
    <3> QED
      BY <3>1, SubSeqFull
  <2> QED
    BY <2>2, <2>3 DEF CatalogOf
<1>12. But(u, now, "catalog") /\ u.catalog = entries
  BY <1>8, ButOne DEF CatalogOf
<1> HIDE DEF r, u, x, s
<1>13. CASE kept = n
  <2>1. Through(Commit(r), w) /\ At(Commit(r), u, u)
    BY <1>10, <1>11, <1>13, CommitThrough
  <2> QED
    BY <1>4, <1>12, <1>13, <2>1 DEF At, s, u
<1>14. CASE kept # n
  <2>1. Through(s, w) /\ s.ends = "failed"
    BY <1>4, <1>10, <1>14, EndsThrough DEF At
  <2>2. entries # <<>>
    <3>1. n # 0
      BY <1>2, <1>3, <1>14
    <3> QED
      BY <3>1
  <2> QED
    BY <1>12, <2>1, <2>2 DEF s, u
<1> QED
  BY <1>13, <1>14

-----------------------------------------------------------------------------
\* More may be wanted.
Wider(w, v) ==
    /\ w.profiles \subseteq v.profiles /\ w.catalogs \subseteq v.catalogs
    /\ w.flags \subseteq v.flags /\ w.byok \subseteq v.byok /\ v.audit = w.audit

LEMMA MeetsWider ==
    ASSUME NEW t, NEW w, Meets(t, w), NEW v, Wider(w, v)
    PROVE  Meets(t, v)
<1>1. Selected(t.snaps, v)
  BY DEF Meets, Wider, Selected
<1> QED
  BY <1>1 DEF Meets, Wider

\* A run begins with what the connection sees.
LEMMA BeginThrough ==
    ASSUME CInv, NEW w, Wider(want, w)
    PROVE  Through(Begin, w) /\ At(Begin, txn, db)
<1> DEFINE e == [txn |-> txn, db |-> db]
           s == <<e>>
<1>1. Begin = [at |-> s, ends |-> "done"]
  BY DEF Begin
<1>2. Meets(txn, w) /\ Meets(db, w)
  BY MeetsWider DEF CInv
<1>3. Keeps(e, w)
  BY <1>2 DEF Keeps, CInv
<1>4. s \in Seq({e}) /\ Len(s) = 1 /\ DOMAIN s = 1..1 /\ s[1] = e
  OBVIOUS
<1>5. e.txn = txn /\ e.db = db
  OBVIOUS
<1> HIDE DEF e, s
<1>6. IsList(s)
  BY <1>4, SeqList
<1>7. Begin.at = s /\ Begin.ends = "done" /\ Begin = [at |-> Begin.at, ends |-> Begin.ends]
  BY <1>1
<1> QED
  <2>1. \A k \in DOMAIN s : k = 1
    BY <1>4
  <2>2. Last(s) = e /\ \A k \in DOMAIN s : Keeps(s[k], w)
    BY <1>3, <1>4, <2>1 DEF Last
  <2>3. Through(Begin, w)
    BY <1>4, <1>6, <1>7, <2>2 DEF Through
  <2> QED
    BY <1>5, <1>7, <2>2, <2>3 DEF At

\* Unless something failed, a handler leaves these tables.
Lands(w, now) == faults' > 0 \/ Cardinality(w.catalogs) > 1 \/ txn' = now

\* What a handler leaves, when v is wanted after it.
After(v, now) == faults' \in Nat /\ Meets(txn', v) /\ Meets(db', v) /\ Lands(v, now)

\* However a run ends: done, its tables are the last ones; failed or stopped,
\* they are those of some entry.
LEMMA Settles ==
    ASSUME CInv, NEW run, NEW w, NEW v, NEW now, NEW stored, Through(run, w),
           run.ends = "done" => At(run, now, stored) /\ Meets(now, v) /\ Meets(stored, v),
           run.ends # "done" => Last(run.at).txn = now \/ Cardinality(w.catalogs) > 1
    PROVE  (Done(run) => After(v, now)) /\ (Fails(run) => After(w, now))
<1>1. faults \in Nat
  BY DEF CInv
<1>2. \A k \in DOMAIN run.at : Keeps(run.at[k], w)
  BY DEF Through
<1>3. ASSUME Done(run) PROVE After(v, now)
  <2>1. run.ends = "done" /\ txn' = Last(run.at).txn /\ db' = Last(run.at).db /\ faults' = faults
    BY <1>3 DEF Done
  <2>2. txn' = now /\ db' = stored /\ Meets(now, v) /\ Meets(stored, v)
    BY <2>1 DEF At
  <2> QED
    BY <1>1, <2>1, <2>2 DEF After, Lands
<1>4. ASSUME NEW k \in DOMAIN run.at, Stops(run, k) PROVE After(w, now)
  <2>1. Keeps(run.at[k], w) /\ txn' = run.at[k].db /\ db' = run.at[k].db /\ faults' = faults + 1
    BY <1>2, <1>4 DEF Stops
  <2>2. faults' \in Nat /\ faults' > 0
    BY <1>1, <2>1
  <2> QED
    BY <2>1, <2>2 DEF After, Lands, Keeps
<1>5. ASSUME NEW k \in DOMAIN run.at, Breaks(run, k) PROVE After(w, now)
  <2>1. Keeps(run.at[k], w) /\ txn' = run.at[k].txn /\ db' = run.at[k].db
    BY <1>2, <1>5 DEF Breaks
  <2>2. Meets(txn', w) /\ Meets(db', w)
    BY <2>1 DEF Keeps
  <2>3. CASE k = Len(run.at) /\ run.ends # "done"
    <3>1. faults' = faults /\ txn' = Last(run.at).txn
      BY <1>5, <2>1, <2>3 DEF Breaks, Last
    <3>2. Lands(w, now)
      BY <2>3, <3>1 DEF Lands
    <3> QED
      BY <1>1, <2>2, <3>1, <3>2 DEF After
  <2>4. CASE ~(k = Len(run.at) /\ run.ends # "done")
    <3>1. faults' = faults + 1
      BY <1>5, <2>4 DEF Breaks
    <3>2. faults' \in Nat /\ faults' > 0
      BY <1>1, <3>1
    <3> QED
      BY <2>2, <3>2 DEF After, Lands
  <2> QED
    BY <2>3, <2>4
<1>6. ASSUME Fails(run) PROVE After(w, now)
  BY <1>4, <1>5, <1>6 DEF Fails
<1> QED
  BY <1>3, <1>6

\* After a handler that serves nothing.
LEMMA Kept ==
    ASSUME CInv, NEW now, Wants(want'), After(want', now), UNCHANGED <<served, today>>
    PROVE  CInv'
<1>1. ServedIsCurrent'
  BY DEF CInv, ServedIsCurrent
<1> QED
  BY <1>1 DEF After, CInv

\* After a handler that changes nothing an operator asked for.
LEMMA Handled ==
    ASSUME CInv, NEW run, NEW now, Through(run, want), At(run, now, now),
           Handle(run), UNCHANGED served
    PROVE  CInv' /\ Lands(want', now) /\ today' = today
<1>1. Meets(now, want)
  BY LastKept DEF At, Keeps
<1>2. run.ends = "done"
  BY DEF At
<1>3. (Done(run) => After(want, now)) /\ (Fails(run) => After(want, now))
  BY <1>1, <1>2, Settles
<1>4. After(want, now) /\ want' = want /\ today' = today
  BY <1>3 DEF Handle
<1>5. After(want', now) /\ Wants(want')
  BY <1>4 DEF CInv
<1>6. CInv'
  BY <1>4, <1>5, Kept
<1> QED
  BY <1>4, <1>5, <1>6 DEF After

\* v is w with one table changed to x.
WantHas(v, w, table, x) ==
    /\ DOMAIN v = WantParts /\ v = [p \in WantParts |-> v[p]]
    /\ v.profiles = IF table = "profiles" THEN x ELSE w.profiles
    /\ v.catalogs = IF table = "catalogs" THEN x ELSE w.catalogs
    /\ v.flags = IF table = "flags" THEN x ELSE w.flags
    /\ v.byok = IF table = "byok" THEN x ELSE w.byok

\* What is wanted after a change of a table that failed, and that was answered.
Widened(w, table, x)  == [w EXCEPT ![table] = x]
Answered(w, table, x) == [w EXCEPT ![table] = x, !.audit = @ + 1]

LEMMA WantOne ==
    ASSUME NEW w, Wants(w), NEW table \in {"profiles", "catalogs", "flags", "byok"}, NEW x
    PROVE  /\ WantHas(Widened(w, table, x), w, table, x) /\ Widened(w, table, x).audit = w.audit
           /\ WantHas(Answered(w, table, x), w, table, x)
           /\ Answered(w, table, x).audit = w.audit + 1
<1>1. DOMAIN w = WantParts /\ w = [p \in WantParts |-> w[p]]
  BY DEF Wants
<1>2. WantHas(Widened(w, table, x), w, table, x) /\ Widened(w, table, x).audit = w.audit
  BY <1>1 DEF WantHas, WantParts, Widened
<1>3. WantHas(Answered(w, table, x), w, table, x) /\ Answered(w, table, x).audit = w.audit + 1
  BY <1>1 DEF WantHas, WantParts, Answered
<1> QED
  BY <1>2, <1>3

\* After a change: w is wanted if it failed, v if it was answered.
LEMMA Changed ==
    ASSUME CInv, NEW run, NEW table, NEW old, NEW new, NEW partly, NEW w, NEW v, NEW now,
           w = Widened(want, table, old \cup new \cup partly), v = Answered(want, table, new),
           Wants(w), Wants(v), Through(run, w),
           run.ends = "done" => At(run, now, now) /\ Meets(now, v),
           run.ends # "done" => Last(run.at).txn = now \/ Cardinality(w.catalogs) > 1,
           Change(run, table, old, new, partly)
    PROVE  /\ CInv' /\ Lands(want', now) /\ today' = today
           /\ run.ends # "done" => want' = w
<1>1. (Done(run) => After(v, now)) /\ (Fails(run) => After(w, now))
  BY Settles
<1>2. After(want', now) /\ Wants(want') /\ (run.ends # "done" => want' = w)
  <2>1. CASE Done(run) /\ want' = v
    BY <1>1, <2>1 DEF Done
  <2>2. CASE Fails(run) /\ want' = w
    BY <1>1, <2>2
  <2> QED
    BY <2>1, <2>2 DEF Change, Widened, Answered
<1>3. UNCHANGED <<served, today>>
  BY DEF Change
<1>4. CInv'
  BY <1>2, <1>3, Kept
<1> QED
  BY <1>2, <1>3, <1>4 DEF After

-----------------------------------------------------------------------------
(* What SelectionsFollow says of a step. *)

FollowStep ==
    faults' = 0 /\ Cardinality(want'.catalogs) = 1 =>
      /\ Rebuilds => Follow(txn', today')
      /\ Follow(txn, today) => Follow(txn', today') \/ today' # today \/ Erased

\* More is listed than one catalog: a failure of its own left a part of one.
LEMMA LandsOrFails ==
    ASSUME NEW now, Lands(want', now), faults' = 0, Cardinality(want'.catalogs) = 1
    PROVE  txn' = now
BY DEF Lands

\* A step that ranks everything again.
LEMMA RebuiltFollows ==
    ASSUME NEW now, Lands(want', now), today' = today, Follow(now, today)
    PROVE  FollowStep
<1> SUFFICES ASSUME faults' = 0, Cardinality(want'.catalogs) = 1 PROVE Follow(txn', today')
  BY DEF FollowStep
<1>1. txn' = now
  BY LandsOrFails
<1>2. Follow(txn', today') = Follow(now, today)
  BY <1>1
<1> QED
  BY <1>2

LEMMA NotAppended ==
    ASSUME NEW calls, CallList(calls), NEW i, Invocation(i)
    PROVE  calls # Append(calls, i)
<1>1. Len(Append(calls, i)) = Len(calls) + 1 /\ Len(calls) \in Nat
  BY AppendCall, Counts
<1> QED
  BY <1>1

\* A step that changes nothing that is ranked.
LEMMA QuietFollows ==
    ASSUME CInv, NEW now, Lands(want', now), today' = today,
           now.profiles = txn.profiles, now.catalog = txn.catalog,
           \A i \in Invocations : i.cap # "none" => now.calls # Append(txn.calls, i),
           Follow(txn, today) => Follow(now, today)
    PROVE  FollowStep
<1> SUFFICES ASSUME faults' = 0, Cardinality(want'.catalogs) = 1
             PROVE  ~Rebuilds /\ (Follow(txn, today) => Follow(txn', today'))
  BY DEF FollowStep
<1>1. txn' = now
  BY LandsOrFails
<1>2. Follow(txn', today') = Follow(now, today)
  BY <1>1
<1>3. ~Rebuilds
  BY <1>1 DEF Rebuilds
<1> QED
  BY <1>2, <1>3

\* The same, with the tables that are ranked and the snapshots as they are.
LEMMA SameFollows ==
    ASSUME CInv, NEW now, Lands(want', now), today' = today,
           now.profiles = txn.profiles, now.catalog = txn.catalog, now.calls = txn.calls,
           Fresh(now.snaps) = Fresh(txn.snaps)
    PROVE  FollowStep
<1>1. CallList(txn.calls) /\ \A i \in Invocations : Invocation(i)
  BY ControlPlaneAssumption DEF CInv, Meets
<1>2. \A i \in Invocations : now.calls # Append(txn.calls, i)
  BY <1>1, NotAppended
<1>3. Generated(now, today) = Generated(txn, today)
  BY DEF Generated
<1>4. Follow(txn, today) => Follow(now, today)
  BY <1>3 DEF Follow, Fresh
<1> QED
  BY <1>2, <1>4, QuietFollows

-----------------------------------------------------------------------------
(* Handlers. *)

\* What was selected of a profile and a catalog that are wanted.
LEMMA GeneratedSelected ==
    ASSUME NEW t,
           NEW w, Wants(w), CallList(t.calls), t.profiles \in w.profiles, t.catalog \in w.catalogs,
           t.snaps = Generated(t, today)
    PROVE  Selected(t.snaps, w)
<1> DEFINE catalog == Unexpired(t.catalog, today)
<1>1. CatalogList(t.catalog)
  BY DEF Wants
<1>2. CatalogList(catalog) /\ IdsOf(catalog) \subseteq IdsOf(t.catalog)
  BY <1>1, UnexpiredList
<1>3. t.snaps = Selections(t.profiles, catalog, t.calls)
  BY DEF Generated
<1> HIDE DEF catalog
<1> QED
  BY <1>2, <1>3, SelectionRows

\* An operator's own end of a change: the audit row.
LEMMA AuditMeets ==
    ASSUME NEW run, NEW w, Wants(w), Through(run, w), NEW now,
           NEW stored, At(run, now, stored),
           NEW v, v.audit = w.audit + 1, Selected(now.snaps, v),
           now.profiles \in v.profiles, now.catalog \in v.catalogs, now.flag \in v.flags,
           now.byok \in v.byok
    PROVE  /\ Through(Audit(run), w) /\ At(Audit(run), AuditOf(now), AuditOf(now))
           /\ Meets(AuditOf(now), v)
           /\ But(AuditOf(now), now, "audit")
           /\ Follow(now, today) => Follow(AuditOf(now), today)
<1> DEFINE u == AuditOf(now)
<1>1. /\ Through(Audit(run), w) /\ At(Audit(run), u, u)
      /\ But(u, now, "audit") /\ u.audit = now.audit + 1
  BY AuditThrough
<1>2. Meets(now, w)
  BY LastKept DEF At, Keeps
<1> HIDE DEF u
<1>3. Meets(u, v)
  <2>1. u.audit \in Nat /\ u.audit >= v.audit
    BY <1>1, <1>2 DEF Meets, Wants
  <2> QED
    BY <1>1, <1>2, <2>1 DEF Meets, But
<1>4. u.snaps = now.snaps /\ Generated(u, today) = Generated(now, today)
  BY <1>1 DEF But, Generated
<1>5. Follow(now, today) => Follow(u, today)
  BY <1>4 DEF Follow
<1> QED
  BY <1>1, <1>3, <1>5 DEF u

LEMMA PatchProfileKeeps ==
    ASSUME CInv, NEW cap \in Caps, NEW patch \in Patches, PatchProfile(cap, patch)
    PROVE  CInv' /\ FollowStep
<1> DEFINE current == txn.profiles[cap]
           profile == [on |-> patch.on, min |-> IF patch.min = 0 THEN current.min ELSE patch.min]
           old == want.profiles
           new == {[p EXCEPT ![cap] = profile] : p \in want.profiles}
           run == Patched(Begin, cap, profile)
           all == old \cup new \cup {}
           w == Widened(want, "profiles", all)
           v == Answered(want, "profiles", new)
<1>1. Change(run, "profiles", old, new, {})
  BY DEF PatchProfile
<1>2. /\ Wants(want) /\ Meets(txn, want)
      /\ \A p \in want.profiles : /\ p = [c \in Caps |-> p[c]]
                                  /\ \A c \in Caps : p[c].on \in BOOLEAN /\ p[c].min \in Nat
  BY DEF CInv, Wants
<1>3. Tables(txn) /\ txn.profiles \in want.profiles
  BY <1>2 DEF Meets
<1>4. profile.on \in BOOLEAN /\ profile.min \in Nat
  BY <1>2, <1>3, ControlPlaneAssumption
<1> DEFINE x == [txn.profiles EXCEPT ![cap] = profile]
<1>5. x \in new
  BY <1>3
<1>6. \A p \in new : /\ p = [c \in Caps |-> p[c]]
                     /\ \A c \in Caps : p[c].on \in BOOLEAN /\ p[c].min \in Nat
  <2> HIDE DEF profile
  <2> SUFFICES ASSUME NEW q \in want.profiles
               PROVE  LET p == [q EXCEPT ![cap] = profile] IN
                      /\ p = [c \in Caps |-> p[c]]
                      /\ \A c \in Caps : p[c].on \in BOOLEAN /\ p[c].min \in Nat
    OBVIOUS
  <2> DEFINE p == [q EXCEPT ![cap] = profile]
  <2>1. q = [c \in Caps |-> q[c]] /\ \A c \in Caps : q[c].on \in BOOLEAN /\ q[c].min \in Nat
    BY <1>2
  <2>2. p = [c \in Caps |-> IF c = cap THEN profile ELSE q[c]]
    BY <2>1
  <2> HIDE DEF p
  <2>3. p = [c \in Caps |-> p[c]] /\ \A c \in Caps : p[c] = IF c = cap THEN profile ELSE q[c]
    BY <2>2
  <2>4. \A c \in Caps : p[c].on \in BOOLEAN /\ p[c].min \in Nat
    BY <1>4, <2>1, <2>3
  <2> QED
    BY <2>3, <2>4 DEF p
<1> DEFINE t1 == [txn EXCEPT !.profiles = x]
<1>7. run = Audit(Refreshed(Commit(Write(Begin, t1))))
  BY DEF Patched, Now, Begin, Last
<1> HIDE DEF profile, new, x
<1>8. WantHas(w, want, "profiles", all) /\ w.audit = want.audit
  BY <1>2, WantOne
<1>9. WantHas(v, want, "profiles", new) /\ v.audit = want.audit + 1
  BY <1>2, WantOne
<1>10. But(t1, txn, "profiles") /\ t1.profiles = x
  BY <1>3, ButOne
<1> HIDE DEF w, v, t1, run
<1>11. Wants(w) /\ Wants(v) /\ Wider(want, w)
  <2>1. /\ w.profiles = old \cup new /\ w.catalogs = want.catalogs /\ w.flags = want.flags
        /\ w.byok = want.byok /\ w.audit = want.audit
        /\ DOMAIN w = WantParts /\ w = [p \in WantParts |-> w[p]]
    BY <1>8 DEF WantHas
  <2>2. /\ v.profiles = new /\ v.catalogs = want.catalogs /\ v.audit = want.audit + 1
        /\ DOMAIN v = WantParts /\ v = [p \in WantParts |-> v[p]]
    BY <1>9 DEF WantHas
  <2>3. Wider(want, w)
    BY <2>1 DEF Wider
  <2>4. Wants(w)
    BY <1>2, <1>6, <2>1 DEF Wants
  <2>5. Wants(v)
    BY <1>2, <1>6, <2>2 DEF Wants
  <2> QED
    BY <2>3, <2>4, <2>5
<1>12. Meets(t1, w)
  <2>1. Meets(txn, w)
    BY <1>2, <1>11, MeetsWider
  <2>2. x \in w.profiles
    BY <1>5, <1>8 DEF WantHas
  <2> QED
    BY <1>10, <2>1, <2>2 DEF Meets, But
<1>13. Through(Begin, w) /\ At(Begin, txn, db)
  BY <1>11, BeginThrough
<1> DEFINE r1 == Write(Begin, t1)
           r2 == Commit(r1)
           r3 == Refreshed(r2)
           t2 == SelectOf(t1, today)
<1>14. Through(r1, w) /\ At(r1, t1, db)
  BY <1>12, <1>13, WriteThrough
<1> HIDE DEF r1
<1>15. Through(r2, w) /\ At(r2, t1, t1)
  BY <1>14, CommitThrough
<1> HIDE DEF r2
<1>16. /\ Through(r3, w) /\ At(r3, t2, t2) /\ But(t2, t1, "snaps")
       /\ t2.snaps = Generated(t2, today) /\ Follow(t2, today)
  BY <1>11, <1>15, RefreshedThrough
<1> HIDE DEF r3, t2
<1>17. /\ t2.profiles \in v.profiles /\ t2.catalog \in v.catalogs /\ t2.flag \in v.flags
       /\ t2.byok \in v.byok
       /\ CallList(t2.calls)
  BY <1>2, <1>5, <1>9, <1>10, <1>16 DEF But, WantHas, Meets
<1>18. Selected(t2.snaps, v)
  BY <1>11, <1>16, <1>17, GeneratedSelected
<1> DEFINE u == AuditOf(t2)
<1>19. /\ Through(Audit(r3), w) /\ At(Audit(r3), u, u) /\ Meets(u, v) /\ Follow(u, today)
  BY <1>8, <1>9, <1>11, <1>16, <1>17, <1>18, AuditMeets
<1>20. run = Audit(r3)
  BY <1>7 DEF r1, r2, r3
<1> HIDE DEF u
<1>21. CInv' /\ Lands(want', u) /\ today' = today
  BY <1>1, <1>11, <1>19, <1>20, Changed DEF w, v, At
<1> QED
  BY <1>19, <1>21, RebuiltFollows

LEMMA RefreshCatalogKeeps ==
    ASSUME CInv, NEW entries \in Catalogs, RefreshCatalog(entries)
    PROVE  CInv' /\ FollowStep
<1> DEFINE old == want.catalogs
           new == {entries}
           partly == Beginnings(entries)
           r1 == Catalogued(Begin, entries)
           run == Audit(Refreshed(r1))
           all == old \cup new \cup partly
           w == Widened(want, "catalogs", all)
           v == Answered(want, "catalogs", new)
           t1 == CatalogOf(txn, entries)
           t2 == SelectOf(t1, today)
           u == AuditOf(t2)
<1>1. Change(run, "catalogs", old, new, partly)
  BY DEF RefreshCatalog, Beginnings
<1>2. /\ Wants(want) /\ Meets(txn, want)
      /\ IsFiniteSet(want.catalogs) /\ \A catalog \in want.catalogs : CatalogList(catalog)
  BY DEF CInv, Wants
<1>3. CatalogList(entries)
  BY ControlPlaneAssumption DEF CatalogList
<1>4. IsList(entries) /\ Len(entries) \in Nat /\ DOMAIN entries = 1..Len(entries)
  BY <1>3, ListFacts DEF CatalogList
<1>5. IsFiniteSet(partly) /\ \A catalog \in partly : CatalogList(catalog)
  <2> DEFINE N == 0..Len(entries)
             f == [n \in N |-> SubSeq(entries, 1, n)]
  <2>1. IsFiniteSet(N)
    BY <1>4, FS_Interval
  <2>2. f \in Surjection(N, partly)
    BY DEF Surjection, Beginnings
  <2> HIDE DEF N, f, partly
  <2>3. IsFiniteSet(partly)
    BY <2>1, <2>2, FS_Surjection
  <2>4. ASSUME NEW n \in 0..Len(entries) PROVE CatalogList(SubSeq(entries, 1, n))
    <3> DEFINE s == SubSeq(entries, 1, n)
    <3>1. IsList(s) /\ DOMAIN s = 1..n /\ \A i \in 1..n : i \in DOMAIN entries /\ s[i] = entries[i]
      BY <1>4, PrefixList
    <3> HIDE DEF s
    <3> QED
      BY <1>3, <3>1 DEF CatalogList, s
  <2> QED
    BY <2>3, <2>4 DEF partly, Beginnings
<1> HIDE DEF partly
<1>6. IsFiniteSet(all) /\ IsFiniteSet(new) /\ \A catalog \in all : CatalogList(catalog)
  <2>1. IsFiniteSet(new)
    BY FS_Singleton
  <2>2. IsFiniteSet(old \cup new)
    BY <1>2, <2>1, FS_Union
  <2>3. IsFiniteSet(all)
    BY <1>5, <2>2, FS_Union
  <2> QED
    BY <1>2, <1>3, <1>5, <2>1, <2>3
<1>7. WantHas(w, want, "catalogs", all) /\ w.audit = want.audit
  BY <1>2, WantOne
<1>8. WantHas(v, want, "catalogs", new) /\ v.audit = want.audit + 1
  BY <1>2, WantOne
<1> HIDE DEF w, v
<1>9. Wants(w) /\ Wants(v) /\ Wider(want, w)
  <2>1. /\ w.profiles = want.profiles /\ w.catalogs = all /\ w.flags = want.flags
        /\ w.byok = want.byok /\ w.audit = want.audit
        /\ DOMAIN w = WantParts /\ w = [p \in WantParts |-> w[p]]
    BY <1>7 DEF WantHas
  <2>2. /\ v.profiles = want.profiles /\ v.catalogs = new /\ v.audit = want.audit + 1
        /\ DOMAIN v = WantParts /\ v = [p \in WantParts |-> v[p]]
    BY <1>8 DEF WantHas
  <2>3. Wider(want, w)
    BY <2>1 DEF Wider
  <2>4. Wants(w)
    BY <1>2, <1>6, <2>1 DEF Wants
  <2>5. \A catalog \in new : CatalogList(catalog)
    BY <1>3
  <2>6. Wants(v)
    BY <1>2, <1>6, <2>2, <2>5 DEF Wants
  <2> QED
    BY <2>3, <2>4, <2>6
<1>10. Through(Begin, w) /\ At(Begin, txn, db)
  BY <1>9, BeginThrough
<1>11. partly \subseteq w.catalogs
  BY <1>7 DEF WantHas
<1>12. /\ Through(r1, w) /\ (r1.ends # "done" => entries # <<>>)
       /\ (r1.ends = "done" => At(r1, t1, t1))
       /\ But(t1, txn, "catalog") /\ t1.catalog = entries
  BY <1>3, <1>10, <1>11, CataloguedThrough DEF partly
<1> HIDE DEF r1, t1
<1>13. CASE r1.ends # "done"
  <2>1. run = r1
    BY <1>13, FailedIdle
  <2>2. Cardinality(w.catalogs) > 1
    <3>1. w.catalogs = all
      BY <1>7 DEF WantHas
    <3>2. <<>> \in all /\ entries \in all
      <4>1. SubSeq(entries, 1, 0) = <<>>
        BY SubSeqEmpty
      <4>2. SubSeq(entries, 1, 0) \in Beginnings(entries)
        BY <1>4 DEF Beginnings
      <4> QED
        BY <4>1, <4>2 DEF partly
    <3>3. Cardinality({<<>>, entries}) = 2
      <4> DEFINE e == <<>>
      <4>1. entries # e
        BY <1>12, <1>13
      <4> HIDE DEF e
      <4>2. IsFiniteSet({e}) /\ Cardinality({e}) = 1 /\ entries \notin {e}
        BY <4>1, FS_Singleton
      <4>3. Cardinality({e} \cup {entries}) = 2
        BY <4>2, FS_AddElement
      <4>4. {e} \cup {entries} = {e, entries}
        OBVIOUS
      <4> QED
        BY <4>3, <4>4 DEF e
    <3>4. {<<>>, entries} \subseteq all
      BY <3>2
    <3> DEFINE A == {<<>>, entries}
               B == all
    <3>5. A \subseteq B /\ IsFiniteSet(B) /\ Cardinality(A) = 2
      BY <1>6, <3>3, <3>4
    <3> HIDE DEF A, B
    <3>6. Cardinality(A) <= Cardinality(B) /\ Cardinality(B) \in Nat
      BY <3>5, FS_Subset, FS_CardinalityType
    <3>7. Cardinality(B) > 1
      BY <3>5, <3>6
    <3> QED
      BY <3>1, <3>7 DEF B
  <2> HIDE DEF run, u
  <2>3. CInv' /\ want' = w
    BY <1>1, <1>9, <1>12, <1>13, <2>1, <2>2, Changed DEF w, v
  <2> QED
    BY <2>2, <2>3 DEF FollowStep
<1>14. CASE r1.ends = "done"
  <2> DEFINE r3 == Refreshed(r1)
  <2>1. /\ Through(r3, w) /\ At(r3, t2, t2) /\ But(t2, t1, "snaps")
        /\ t2.snaps = Generated(t2, today) /\ Follow(t2, today)
    BY <1>9, <1>12, <1>14, RefreshedThrough
  <2>2. run = Audit(r3)
    OBVIOUS
  <2> HIDE DEF r3, t2
  <2>3. /\ t2.profiles \in v.profiles /\ t2.catalog \in v.catalogs /\ t2.flag \in v.flags
        /\ t2.byok \in v.byok
        /\ CallList(t2.calls)
    BY <1>2, <1>8, <1>12, <2>1 DEF But, WantHas, Meets
  <2>4. Selected(t2.snaps, v)
    BY <1>9, <2>1, <2>3, GeneratedSelected
  <2>5. /\ Through(Audit(r3), w) /\ At(Audit(r3), u, u) /\ Meets(u, v) /\ Follow(u, today)
    BY <1>7, <1>8, <1>9, <2>1, <2>3, <2>4, AuditMeets
  <2> HIDE DEF u, run
  <2>6. CInv' /\ Lands(want', u) /\ today' = today
    BY <1>1, <1>9, <2>2, <2>5, Changed DEF w, v, At
  <2> QED
    BY <2>5, <2>6, RebuiltFollows
<1> QED
  BY <1>13, <1>14

\* What the flags and the keys of customers hold decides no selection.
LEMMA PlainTable ==
    ASSUME CInv, NEW t, NEW table \in {"flag", "byok"}, But(t, txn, table),
           NEW v, v.profiles = want.profiles, v.catalogs = want.catalogs
    PROVE  Selected(t.snaps, v)
<1>1. t.snaps = txn.snaps
  BY DEF But
<1>2. Selected(txn.snaps, v)
  BY DEF CInv, Meets, Selected
<1> QED
  BY <1>1, <1>2

LEMMA PlainWants ==
    ASSUME NEW w, Wants(w), NEW table \in {"flags", "byok"}, NEW x, NEW v, WantHas(v, w, table, x),
           v.audit = w.audit \/ v.audit = w.audit + 1
    PROVE  Wants(v)
<1>1. /\ v.profiles = w.profiles /\ v.catalogs = w.catalogs
      /\ DOMAIN v = WantParts /\ v = [p \in WantParts |-> v[p]]
  BY DEF WantHas
<1>2. v.audit \in Nat
  BY DEF Wants
<1> QED
  BY <1>1, <1>2 DEF Wants

LEMMA PatchFlagKeeps ==
    ASSUME CInv, NEW on \in BOOLEAN, PatchFlag(on)
    PROVE  CInv' /\ FollowStep
<1> DEFINE old == want.flags
           new == {on}
           t1 == [txn EXCEPT !.flag = on]
           r1 == Write(Begin, t1)
           set == Commit(r1)
           run == IF dialect = "sqlite" THEN Audit(Commit(set)) ELSE Ends(set, "closed")
           all == old \cup new \cup {}
           w == Widened(want, "flags", all)
           v == Answered(want, "flags", new)
           u == AuditOf(t1)
<1>1. Change(run, "flags", old, new, {})
  BY DEF PatchFlag
<1>2. Wants(want) /\ Meets(txn, want)
  BY DEF CInv
<1>3. But(t1, txn, "flag") /\ t1.flag = on
  BY <1>2, ButOne DEF Meets
<1>4. WantHas(w, want, "flags", all) /\ w.audit = want.audit
  BY <1>2, WantOne
<1>5. WantHas(v, want, "flags", new) /\ v.audit = want.audit + 1
  BY <1>2, WantOne
<1> HIDE DEF w, v, t1, run
<1>6. Wants(w) /\ Wants(v) /\ Wider(want, w)
  <2>1. Wants(w)
    BY <1>2, <1>4, PlainWants
  <2>2. Wants(v)
    BY <1>2, <1>5, PlainWants
  <2>3. Wider(want, w)
    BY <1>4 DEF WantHas, Wider
  <2> QED
    BY <2>1, <2>2, <2>3
<1>7. Selected(t1.snaps, v)
  BY <1>3, <1>5, PlainTable DEF WantHas
<1>8. Meets(t1, w)
  <2>1. Meets(txn, w)
    BY <1>2, <1>6, MeetsWider
  <2>2. on \in w.flags
    BY <1>4 DEF WantHas
  <2> QED
    BY <1>3, <2>1, <2>2 DEF Meets, But
<1>9. Through(Begin, w) /\ At(Begin, txn, db)
  BY <1>6, BeginThrough
<1>10. Through(r1, w) /\ At(r1, t1, db)
  BY <1>8, <1>9, WriteThrough
<1> HIDE DEF r1
<1>11. Through(set, w) /\ At(set, t1, t1)
  BY <1>10, CommitThrough
<1> HIDE DEF set
<1>12. CASE dialect = "sqlite"
  <2> DEFINE r3 == Commit(set)
  <2>1. Through(r3, w) /\ At(r3, t1, t1)
    BY <1>11, CommitThrough
  <2>2. run = Audit(r3)
    BY <1>12 DEF run
  <2> HIDE DEF r3
  <2>3. /\ t1.profiles \in v.profiles /\ t1.catalog \in v.catalogs /\ t1.flag \in v.flags
        /\ t1.byok \in v.byok
    BY <1>2, <1>3, <1>5 DEF But, WantHas, Meets
  <2>4. /\ Through(Audit(r3), w) /\ At(Audit(r3), u, u) /\ Meets(u, v) /\ But(u, t1, "audit")
    BY <1>4, <1>5, <1>6, <1>7, <2>1, <2>3, AuditMeets
  <2> HIDE DEF u
  <2>5. CInv' /\ Lands(want', u) /\ today' = today
    BY <1>1, <1>6, <2>2, <2>4, Changed DEF w, v, At
  <2>6. /\ u.profiles = txn.profiles /\ u.catalog = txn.catalog /\ u.calls = txn.calls
        /\ u.snaps = txn.snaps
    BY <1>3, <2>4 DEF But
  <2> QED
    BY <2>5, <2>6, SameFollows
<1>13. CASE dialect # "sqlite"
  <2>1. Through(run, w) /\ run.ends = "closed" /\ run.at = set.at
    BY <1>11, <1>13, EndsThrough DEF run, At
  <2>2. Last(run.at).txn = t1
    BY <1>11, <2>1 DEF At
  <2> HIDE DEF u
  <2>3. CInv' /\ Lands(want', t1) /\ today' = today
    BY <1>1, <1>6, <2>1, <2>2, Changed DEF w, v
  <2>4. /\ t1.profiles = txn.profiles /\ t1.catalog = txn.catalog /\ t1.calls = txn.calls
        /\ t1.snaps = txn.snaps
    BY <1>3 DEF But
  <2> QED
    BY <2>3, <2>4, SameFollows
<1> QED
  BY <1>12, <1>13

LEMMA ByokKeeps ==
    ASSUME CInv, NEW op, Byok(op)
    PROVE  CInv' /\ FollowStep
<1> DEFINE key == ByokAfter(op)
           old == want.byok
           new == IF op = "rename" THEN want.byok ELSE {key}
           t1 == [txn EXCEPT !.byok = key]
           r1 == Write(Begin, t1)
           r2 == Commit(r1)
           run == Audit(r2)
           all == old \cup new \cup {}
           w == Widened(want, "byok", all)
           v == Answered(want, "byok", new)
           u == AuditOf(t1)
<1>1. Change(run, "byok", old, new, {})
  BY DEF Byok
<1>2. Wants(want) /\ Meets(txn, want)
  BY DEF CInv
<1>3. But(t1, txn, "byok") /\ t1.byok = key
  BY <1>2, ButOne DEF Meets
<1>a. key \in new
  <2>1. CASE op = "rename"
    <3>1. key = txn.byok
      BY <2>1 DEF ByokAfter
    <3> QED
      BY <1>2, <2>1, <3>1 DEF Meets
  <2>2. CASE op # "rename"
    BY <2>2
  <2> QED
    BY <2>1, <2>2
<1> HIDE DEF key, new
<1>4. WantHas(w, want, "byok", all) /\ w.audit = want.audit
  BY <1>2, WantOne
<1>5. WantHas(v, want, "byok", new) /\ v.audit = want.audit + 1
  BY <1>2, WantOne
<1> HIDE DEF w, v, t1
<1>6. Wants(w) /\ Wants(v) /\ Wider(want, w)
  <2>1. Wants(w)
    BY <1>2, <1>4, PlainWants
  <2>2. Wants(v)
    BY <1>2, <1>5, PlainWants
  <2>3. Wider(want, w)
    BY <1>4 DEF WantHas, Wider
  <2> QED
    BY <2>1, <2>2, <2>3
<1>7. Selected(t1.snaps, v)
  BY <1>3, <1>5, PlainTable DEF WantHas
<1>8. Meets(t1, w)
  <2>1. Meets(txn, w)
    BY <1>2, <1>6, MeetsWider
  <2>2. key \in w.byok
    BY <1>4, <1>a DEF WantHas
  <2> QED
    BY <1>3, <2>1, <2>2 DEF Meets, But
<1>9. Through(Begin, w) /\ At(Begin, txn, db)
  BY <1>6, BeginThrough
<1>10. Through(r1, w) /\ At(r1, t1, db)
  BY <1>8, <1>9, WriteThrough
<1>11. Through(r2, w) /\ At(r2, t1, t1)
  <2> HIDE DEF r1
  <2> QED
    BY <1>10, CommitThrough
<1>12. /\ t1.profiles \in v.profiles /\ t1.catalog \in v.catalogs /\ t1.flag \in v.flags
       /\ t1.byok \in v.byok
  BY <1>2, <1>3, <1>5, <1>a DEF But, WantHas, Meets
<1>13. /\ Through(run, w) /\ At(run, u, u) /\ Meets(u, v) /\ But(u, t1, "audit")
  <2> HIDE DEF r2
  <2> QED
    BY <1>4, <1>5, <1>6, <1>7, <1>11, <1>12, AuditMeets
<1> HIDE DEF u, run
<1>14. CInv' /\ Lands(want', u) /\ today' = today
  BY <1>1, <1>6, <1>13, Changed DEF w, v, At
<1>15. /\ u.profiles = txn.profiles /\ u.catalog = txn.catalog /\ u.calls = txn.calls
       /\ u.snaps = txn.snaps
  BY <1>3, <1>13 DEF But
<1> QED
  BY <1>14, <1>15, SameFollows

LEMMA WiderSelf == Wider(want, want)
BY DEF Wider

LEMMA CommitKeeps ==
    ASSUME CInv, KeyEvent \/ OtherWrite
    PROVE  CInv' /\ FollowStep
<1> DEFINE r1 == Commit(Begin)
           u == SelectOf(txn, today)
<1>1. Through(r1, want) /\ At(r1, txn, txn)
  <2>1. Through(Begin, want) /\ At(Begin, txn, db)
    BY WiderSelf, BeginThrough
  <2> QED
    BY <2>1, CommitThrough
<1>2. Wants(want)
  BY DEF CInv
<1> HIDE DEF r1
<1>3. CASE KeyEvent
  <2> DEFINE run == Refreshed(r1)
  <2>1. Through(run, want) /\ At(run, u, u) /\ Follow(u, today)
    BY <1>1, <1>2, RefreshedThrough
  <2>2. Handle(run) /\ UNCHANGED served
    BY <1>3 DEF KeyEvent, r1
  <2> HIDE DEF run, u
  <2>3. CInv' /\ Lands(want', u) /\ today' = today
    BY <2>1, <2>2, Handled
  <2> QED
    BY <2>1, <2>3, RebuiltFollows
<1>4. CASE OtherWrite
  <2>1. Handle(r1) /\ UNCHANGED served
    BY <1>4 DEF OtherWrite, r1
  <2>2. CInv' /\ Lands(want', txn) /\ today' = today
    BY <1>1, <2>1, Handled
  <2> QED
    BY <2>2, SameFollows
<1> QED
  BY <1>3, <1>4

LEMMA InvokedKeeps ==
    ASSUME CInv, NEW i \in Invocations, Invoked(i)
    PROVE  CInv' /\ FollowStep
<1> DEFINE calls == Append(txn.calls, i)
           catalog == Unexpired(txn.catalog, today)
           t1 == [txn EXCEPT !.calls = calls]
           r1 == Write(Begin, t1)
           stored == Commit(r1)
           run == IF i.cap = "none" THEN stored ELSE Refreshed(stored)
           u == SelectOf(t1, today)
<1>1. Handle(run) /\ UNCHANGED served
  BY DEF Invoked
<1>2. /\ Wants(want) /\ Meets(txn, want) /\ CallList(txn.calls) /\ Tables(txn)
      /\ \A j \in Invocations : Invocation(j)
  BY ControlPlaneAssumption DEF CInv, Meets
<1>3. CallList(calls) /\ \A j \in Invocations : Append(txn.calls, j) = calls => j = i
  <2>1. \A j \in Invocations : CallList(Append(txn.calls, j)) /\ Last(Append(txn.calls, j)) = j
    BY <1>2, AppendCall
  <2> QED
    BY <2>1
<1>4. i.cap = "none" =>
        Selections(txn.profiles, catalog, calls) = Selections(txn.profiles, catalog, txn.calls)
  <2> SUFFICES ASSUME i.cap = "none"
               PROVE  Selections(txn.profiles, catalog, calls)
                        = Selections(txn.profiles, catalog, txn.calls)
    OBVIOUS
  <2>1. CatalogList(txn.catalog) /\ Invocation(i)
    BY <1>2 DEF Meets, Wants
  <2>2. CatalogList(catalog)
    BY <2>1, UnexpiredList
  <2> HIDE DEF catalog
  <2> QED
    BY <1>2, <2>1, <2>2, SelectionsIgnore
<1> HIDE DEF calls
<1>5. But(t1, txn, "calls") /\ t1.calls = calls
  BY <1>2, ButOne
<1> HIDE DEF t1
<1>6. Meets(t1, want)
  BY <1>2, <1>3, <1>5 DEF Meets, But
<1>7. Through(Begin, want) /\ At(Begin, txn, db)
  BY WiderSelf, BeginThrough
<1>8. Through(r1, want) /\ At(r1, t1, db)
  BY <1>6, <1>7, WriteThrough
<1> HIDE DEF r1
<1>9. Through(stored, want) /\ At(stored, t1, t1)
  BY <1>8, CommitThrough
<1> HIDE DEF stored
<1>10. CASE i.cap = "none"
  <2>1. run = stored
    BY <1>10
  <2> HIDE DEF run, u
  <2>2. CInv' /\ Lands(want', t1) /\ today' = today
    BY <1>1, <1>9, <2>1, Handled
  <2>3. /\ t1.profiles = txn.profiles /\ t1.catalog = txn.catalog /\ t1.snaps = txn.snaps
    BY <1>5 DEF But
  <2>4. \A j \in Invocations : j.cap # "none" => t1.calls # Append(txn.calls, j)
    BY <1>3, <1>5, <1>10
  <2>5. Generated(t1, today) = Generated(txn, today)
    BY <1>4, <1>5, <1>10, <2>3 DEF Generated
  <2>6. Follow(txn, today) => Follow(t1, today)
    BY <2>3, <2>5 DEF Follow
  <2> QED
    BY <2>2, <2>3, <2>4, <2>6, QuietFollows
<1>11. CASE i.cap # "none"
  <2>1. run = Refreshed(stored)
    BY <1>11
  <2> HIDE DEF run
  <2>2. Through(run, want) /\ At(run, u, u) /\ Follow(u, today)
    BY <1>2, <1>9, <2>1, RefreshedThrough
  <2> HIDE DEF u
  <2>3. CInv' /\ Lands(want', u) /\ today' = today
    BY <1>1, <2>2, Handled
  <2> QED
    BY <2>2, <2>3, RebuiltFollows
<1> QED
  BY <1>10, <1>11

\* The calls that are left of an erasure.
LEMMA SomeCalls ==
    ASSUME NEW calls, CallList(calls), NEW K
    PROVE  CallList(Those(calls, K)) /\ \A i : Those(calls, K) # Append(calls, i)
<1> DEFINE t == Those(calls, K)
<1>1. IsList(calls) /\ \A n \in DOMAIN calls : Invocation(calls[n])
  BY DEF CallList
<1>2. IsList(t) /\ \A j \in DOMAIN t : \E n \in DOMAIN calls : n \in K /\ t[j] = calls[n]
  BY <1>1, ThoseList
<1>3. Len(t) \in Nat /\ Len(t) <= Len(calls) /\ Len(calls) \in Nat
  <2> DEFINE S == {calls[n] : n \in DOMAIN calls}
  <2>1. calls \in Seq(S)
    BY <1>1 DEF IsList
  <2> HIDE DEF S
  <2> QED
    BY <2>1, ThoseShorter
<1>4. \A i : Len(Append(calls, i)) = Len(calls) + 1
  BY <1>1, AppendFacts
<1> HIDE DEF t
<1>5. \A i : t # Append(calls, i)
  BY <1>3, <1>4
<1>6. CallList(t)
  BY <1>1, <1>2 DEF CallList
<1> QED
  BY <1>5, <1>6 DEF t

LEMMA EraseCallsKeeps ==
    ASSUME CInv, EraseCalls
    PROVE  CInv' /\ FollowStep
<1>1. PICK keep \in SUBSET DOMAIN txn.calls :
        Change(Audit(Commit(Write(Begin, [txn EXCEPT !.calls = Those(txn.calls, keep)]))),
               "flags", want.flags, want.flags, {})
  BY DEF EraseCalls
<1> DEFINE calls == Those(txn.calls, keep)
           t1 == [txn EXCEPT !.calls = calls]
           r1 == Write(Begin, t1)
           r2 == Commit(r1)
           run == Audit(r2)
           all == want.flags \cup want.flags \cup {}
           w == Widened(want, "flags", all)
           v == Answered(want, "flags", want.flags)
           u == AuditOf(t1)
<1>2. Change(run, "flags", want.flags, want.flags, {})
  BY <1>1
<1>3. Wants(want) /\ Meets(txn, want) /\ CallList(txn.calls)
  BY DEF CInv, Meets
<1>4. CallList(calls) /\ \A i : calls # Append(txn.calls, i)
  BY <1>3, SomeCalls
<1>a. calls = Those(txn.calls, keep)
  OBVIOUS
<1> HIDE DEF calls
<1>5. But(t1, txn, "calls") /\ t1.calls = calls
  BY <1>3, ButOne DEF Meets
<1>6. WantHas(w, want, "flags", all) /\ w.audit = want.audit
  BY <1>3, WantOne
<1>7. WantHas(v, want, "flags", want.flags) /\ v.audit = want.audit + 1
  BY <1>3, WantOne
<1> HIDE DEF w, v, t1
<1>8. Wants(w) /\ Wants(v) /\ Wider(want, w)
  <2>1. Wants(w)
    BY <1>3, <1>6, PlainWants
  <2>2. Wants(v)
    BY <1>3, <1>7, PlainWants
  <2>3. Wider(want, w)
    BY <1>6 DEF WantHas, Wider
  <2> QED
    BY <2>1, <2>2, <2>3
<1>9. Meets(t1, w)
  <2>1. Meets(txn, w)
    BY <1>3, <1>8, MeetsWider
  <2> QED
    BY <1>4, <1>5, <2>1 DEF Meets, But
<1>10. Through(Begin, w) /\ At(Begin, txn, db)
  BY <1>8, BeginThrough
<1>11. Through(r1, w) /\ At(r1, t1, db)
  BY <1>9, <1>10, WriteThrough
<1> HIDE DEF r1
<1>12. Through(r2, w) /\ At(r2, t1, t1)
  BY <1>11, CommitThrough
<1> HIDE DEF r2
<1>13. /\ t1.profiles \in v.profiles /\ t1.catalog \in v.catalogs /\ t1.flag \in v.flags
       /\ t1.byok \in v.byok /\ Selected(t1.snaps, v)
  BY <1>3, <1>5, <1>7 DEF But, WantHas, Meets, Selected
<1>14. /\ Through(run, w) /\ At(run, u, u) /\ Meets(u, v) /\ But(u, t1, "audit")
  BY <1>6, <1>7, <1>8, <1>12, <1>13, AuditMeets
<1> HIDE DEF u, run
<1>15. CInv' /\ Lands(want', u) /\ today' = today
  BY <1>2, <1>8, <1>14, Changed DEF w, v, At
<1>16. /\ u.profiles = txn.profiles /\ u.catalog = txn.catalog /\ u.calls = calls
       /\ u.snaps = txn.snaps
  BY <1>5, <1>14 DEF But
<1>17. CASE calls = txn.calls
  BY <1>15, <1>16, <1>17, SameFollows
<1>18. CASE calls # txn.calls
  <2> SUFFICES ASSUME faults' = 0, Cardinality(want'.catalogs) = 1 PROVE ~Rebuilds /\ Erased
    BY <1>15 DEF FollowStep
  <2>1. txn' = u
    BY <1>15, LandsOrFails
  <2>2. ~Rebuilds
    BY <1>4, <1>16, <2>1 DEF Rebuilds
  <2>3. Erased
    BY <1>a, <1>16, <1>18, <2>1 DEF Erased
  <2> QED
    BY <2>2, <2>3
<1> QED
  BY <1>17, <1>18

LEMMA SelectedIsCurrent ==
    ASSUME NEW picked, NEW w, Selected(picked, w), \A i \in DOMAIN picked : ~picked[i].old
    PROVE  \A i \in DOMAIN picked :
             LET row == picked[i] IN
             /\ ~row.old
             /\ \E p \in w.profiles : p[row.cap].on
             /\ \E catalog \in w.catalogs : row.model \in {catalog[n].id : n \in DOMAIN catalog}
             /\ Cardinality({j \in DOMAIN picked : picked[j].cap = row.cap}) <= 3
<1> SUFFICES ASSUME NEW i \in DOMAIN picked
             PROVE  /\ ~picked[i].old
                    /\ \E p \in w.profiles : p[picked[i].cap].on
                    /\ \E catalog \in w.catalogs :
                         picked[i].model \in {catalog[n].id : n \in DOMAIN catalog}
                    /\ Cardinality({j \in DOMAIN picked : picked[j].cap = picked[i].cap}) <= 3
  OBVIOUS
<1>1. /\ picked[i].cap \in Caps
      /\ \E p \in w.profiles : p[picked[i].cap].on
      /\ \E catalog \in w.catalogs : picked[i].model \in IdsOf(catalog)
  BY DEF Selected
<1>2. Cardinality(RowsAt(picked, picked[i].cap)) <= 3
  BY <1>1 DEF Selected
<1> QED
  BY <1>1, <1>2 DEF IdsOf, RowsAt

LEMMA ServeKeeps ==
    ASSUME CInv, ServeConfig
    PROVE  CInv' /\ FollowStep
<1> DEFINE run == Ensured(Begin)
           u == SelectOf(txn, today)
           Stale == txn.snaps = <<>> \/ \E i \in DOMAIN txn.snaps : txn.snaps[i].old
           now == IF Stale THEN u ELSE txn
           kept == IF Stale THEN u ELSE db
<1>1. Wants(want) /\ Meets(txn, want) /\ Meets(db, want)
  BY DEF CInv
<1>2. Through(Begin, want) /\ At(Begin, txn, db)
  BY WiderSelf, BeginThrough
<1>3. run = IF Stale THEN Refreshed(Begin) ELSE Begin
  BY <1>2 DEF Ensured, Now, At
<1> HIDE DEF run, Stale
<1>4. /\ Through(run, want) /\ At(run, now, kept) /\ Meets(now, want) /\ Meets(kept, want)
      /\ (now = txn \/ Follow(now, today))
      /\ \A i \in DOMAIN now.snaps : ~now.snaps[i].old
  <2>1. CASE Stale
    <3>1. /\ Through(run, want) /\ At(run, u, u)
          /\ Follow(u, today) /\ \A i \in DOMAIN u.snaps : ~u.snaps[i].old
      BY <1>1, <1>2, <1>3, <2>1, RefreshedThrough
    <3> HIDE DEF u
    <3>2. Meets(u, want)
      BY <3>1, LastKept DEF At, Keeps
    <3> QED
      BY <2>1, <3>1, <3>2
  <2>2. CASE ~Stale
    BY <1>1, <1>2, <1>3, <2>2 DEF Stale
  <2> QED
    BY <2>1, <2>2
<1> HIDE DEF now, kept
<1>5. run.ends = "done" /\ Now(run) = now
  BY <1>4 DEF At, Now
<1>6. (Done(run) => After(want, now)) /\ (Fails(run) => After(want, now))
  BY <1>4, <1>5, Settles
<1>7. /\ want' = want /\ today' = today
      /\ \/ Done(run) /\ served' = [rows |-> now.snaps, want |-> want]
         \/ Fails(run) /\ UNCHANGED served
  BY <1>5 DEF ServeConfig, run
<1>8. After(want', now) /\ Wants(want')
  BY <1>1, <1>6, <1>7
<1>9. FollowStep
  <2>1. Lands(want', now)
    BY <1>8 DEF After
  <2>2. CASE now = txn
    BY <1>7, <2>1, <2>2, SameFollows
  <2>3. CASE Follow(now, today)
    BY <1>7, <2>1, <2>3, RebuiltFollows
  <2> QED
    BY <1>4, <2>2, <2>3
<1>10. ServedIsCurrent'
  <2>1. CASE UNCHANGED served
    BY <2>1 DEF CInv, ServedIsCurrent
  <2>2. CASE served' = [rows |-> now.snaps, want |-> want]
    <3> DEFINE picked == now.snaps
    <3>1. served'.rows = picked /\ served'.want = want
      BY <2>2
    <3>2. Selected(picked, want) /\ \A i \in DOMAIN picked : ~picked[i].old
      BY <1>4 DEF Meets
    <3> HIDE DEF picked
    <3>3. \A i \in DOMAIN picked :
             LET row == picked[i] IN
             /\ ~row.old
             /\ \E p \in want.profiles : p[row.cap].on
             /\ \E catalog \in want.catalogs : row.model \in {catalog[n].id : n \in DOMAIN catalog}
             /\ Cardinality({j \in DOMAIN picked : picked[j].cap = row.cap}) <= 3
      BY <3>2, SelectedIsCurrent
    <3> QED
      BY <3>1, <3>3 DEF ServedIsCurrent
  <2> QED
    BY <1>7, <2>1, <2>2
<1> QED
  BY <1>7, <1>8, <1>9, <1>10 DEF After, CInv

LEMMA RowAged ==
    ASSUME NEW a, NEW b, NEW c, NEW d, NEW row, row = [cap |-> a, model |-> b, old |-> c]
    PROVE  [row EXCEPT !.old = d] = [cap |-> a, model |-> b, old |-> d]
<1> DEFINE P == {"cap", "model", "old"}
           u == [row EXCEPT !.old = d]
           r == [cap |-> a, model |-> b, old |-> d]
<1>1. DOMAIN row = P /\ row.cap = a /\ row.model = b
  OBVIOUS
<1>2. u = [p \in P |-> u[p]] /\ u.cap = a /\ u.model = b /\ u.old = d
  BY <1>1
<1>3. r = [p \in P |-> r[p]] /\ r.cap = a /\ r.model = b /\ r.old = d
  OBVIOUS
<1> HIDE DEF u, r
<1>4. \A p \in P : u[p] = r[p]
  BY <1>2, <1>3
<1>5. u = r
  BY <1>2, <1>3, <1>4
<1> QED
  BY <1>5 DEF u, r

LEMMA ExpireKeeps ==
    ASSUME CInv, Expire
    PROVE  CInv' /\ FollowStep
<1> DEFINE Older(snaps) == [i \in DOMAIN snaps |-> [snaps[i] EXCEPT !.old = TRUE]]
<1>1. /\ txn' = [txn EXCEPT !.snaps = Older(txn.snaps)]
      /\ db' = [db EXCEPT !.snaps = Older(db.snaps)]
      /\ UNCHANGED <<dialect, conn, want, served, today, changes, faults>>
  BY DEF Expire
<1>2. ASSUME NEW snaps, Selected(snaps, want)
      PROVE  Selected(Older(snaps), want) /\ Fresh(Older(snaps)) = Fresh(snaps)
  <2> DEFINE r == Older(snaps)
             n == Len(snaps)
  <2>1. /\ IsList(snaps) /\ n \in Nat /\ DOMAIN snaps = 1..n
        /\ \A i \in DOMAIN snaps :
             /\ snaps[i] = [cap |-> snaps[i].cap, model |-> snaps[i].model, old |-> snaps[i].old]
             /\ snaps[i].cap \in Caps
             /\ \E p \in want.profiles : p[snaps[i].cap].on
             /\ \E catalog \in want.catalogs : snaps[i].model \in IdsOf(catalog)
    BY <1>2, ListFacts DEF Selected
  <2>2. \A cap \in Caps : Cardinality(RowsAt(snaps, cap)) <= 3
    BY <1>2 DEF Selected
  <2>3. /\ r = [i \in 1..n |-> r[i]] /\ DOMAIN r = 1..n
        /\ \A i \in 1..n : r[i] = [snaps[i] EXCEPT !.old = TRUE]
    BY <2>1
  <2> HIDE DEF r, n
  <2>4. IsList(r)
    BY <2>1, <2>3, FunctionList
  <2>5. ASSUME NEW i \in 1..n
        PROVE  /\ r[i] = [cap |-> r[i].cap, model |-> r[i].model, old |-> r[i].old]
               /\ r[i].cap = snaps[i].cap /\ r[i].model = snaps[i].model
               /\ [r[i] EXCEPT !.old = FALSE] = [snaps[i] EXCEPT !.old = FALSE]
    <3> DEFINE s == snaps[i]
    <3>1. s = [cap |-> s.cap, model |-> s.model, old |-> s.old]
      BY <2>1
    <3>2. r[i] = [s EXCEPT !.old = TRUE]
      BY <2>3
    <3> DEFINE t == r[i]
    <3> HIDE DEF s
    <3>3. t = [cap |-> s.cap, model |-> s.model, old |-> TRUE]
      BY <3>1, <3>2
    <3> DEFINE a == s.cap
               b == s.model
               c == s.old
               no == FALSE
               yes == TRUE
    <3> HIDE DEF a, b, c, no, yes
    <3>4. [s EXCEPT !.old = no] = [cap |-> a, model |-> b, old |-> no]
      <4>1. s = [cap |-> a, model |-> b, old |-> c]
        BY <3>1 DEF a, b, c
      <4> QED
        BY <4>1, RowAged
    <3> HIDE DEF t
    <3>6. t = [cap |-> a, model |-> b, old |-> yes]
      BY <3>3 DEF a, b, yes
    <3>7. /\ t.cap = a /\ t.model = b /\ t.old = yes
          /\ t = [cap |-> t.cap, model |-> t.model, old |-> t.old]
      BY <3>6
    <3>8. [t EXCEPT !.old = no] = [cap |-> a, model |-> b, old |-> no]
      BY <3>6, RowAged
    <3>5. /\ t = [cap |-> t.cap, model |-> t.model, old |-> t.old]
          /\ t.cap = s.cap /\ t.model = s.model
          /\ [t EXCEPT !.old = FALSE] = [s EXCEPT !.old = FALSE]
      BY <3>4, <3>7, <3>8 DEF a, b, no
    <3> QED
      BY <3>5 DEF s, t
  <2>6. \A cap \in Caps : Cardinality(RowsAt(r, cap)) <= 3
    <3>1. \A cap : RowsAt(r, cap) = RowsAt(snaps, cap)
      BY <2>1, <2>3, <2>5 DEF RowsAt
    <3> QED
      BY <2>2, <3>1
  <2>7. Selected(r, want)
    BY <2>1, <2>3, <2>4, <2>5, <2>6 DEF Selected
  <2>8. Fresh(r) = Fresh(snaps)
    BY <2>1, <2>3, <2>5 DEF Fresh
  <2> QED
    BY <2>7, <2>8 DEF r
<1>3. Wants(want) /\ Meets(txn, want) /\ Meets(db, want) /\ faults \in Nat /\ today \in Nat
  BY DEF CInv
<1> DEFINE x == Older(txn.snaps)
           y == Older(db.snaps)
<1>4. Selected(x, want) /\ Fresh(x) = Fresh(txn.snaps) /\ Selected(y, want)
  <2> HIDE DEF Older
  <2> QED
    BY <1>2, <1>3 DEF Meets
<1> HIDE DEF x, y
<1>5. txn' = [txn EXCEPT !.snaps = x] /\ db' = [db EXCEPT !.snaps = y]
  BY <1>1 DEF x, y
<1>6. But(txn', txn, "snaps") /\ txn'.snaps = x
  <2> DEFINE t == [txn EXCEPT !.snaps = x]
  <2>1. But(t, txn, "snaps") /\ t.snaps = x
    BY <1>3, ButOne DEF Meets
  <2> QED
    BY <1>5, <2>1
<1>7. But(db', db, "snaps") /\ db'.snaps = y
  <2> DEFINE t == [db EXCEPT !.snaps = y]
  <2>1. But(t, db, "snaps") /\ t.snaps = y
    BY <1>3, ButOne DEF Meets
  <2> QED
    BY <1>5, <2>1
<1>8. Meets(txn', want) /\ Meets(db', want)
  <2>1. Meets(txn', want)
    BY <1>3, <1>4, <1>6 DEF Meets, But
  <2>2. Meets(db', want)
    BY <1>3, <1>4, <1>7 DEF Meets, But
  <2> QED
    BY <2>1, <2>2
<1>9. FollowStep
  <2>1. /\ txn'.profiles = txn.profiles /\ txn'.catalog = txn.catalog /\ txn'.calls = txn.calls
        /\ Fresh(txn'.snaps) = Fresh(txn.snaps) /\ today' = today
    BY <1>1, <1>4, <1>6 DEF But
  <2> DEFINE now == txn'
  <2>2. Lands(want', now)
    BY DEF Lands
  <2>3. /\ now.profiles = txn.profiles /\ now.catalog = txn.catalog /\ now.calls = txn.calls
        /\ Fresh(now.snaps) = Fresh(txn.snaps)
    BY <2>1
  <2> HIDE DEF now
  <2> QED
    BY <2>1, <2>2, <2>3, SameFollows
<1>10. ServedIsCurrent'
  BY <1>1 DEF CInv, ServedIsCurrent
<1>11. /\ Wants(want)' /\ (faults \in Nat)' /\ (today \in Nat)'
       /\ Meets(txn, want)' /\ Meets(db, want)'
  BY <1>1, <1>3, <1>8
<1> QED
  BY <1>9, <1>10, <1>11 DEF CInv

LEMMA RestartKeeps ==
    ASSUME CInv, Restart
    PROVE  CInv' /\ FollowStep
<1>1. /\ faults' = faults + 1 /\ txn' = db /\ db' = db /\ want' = want /\ served' = served
      /\ faults \in Nat /\ Wants(want) /\ Meets(db, want) /\ today' = today /\ today \in Nat
  BY DEF Restart, CInv
<1>2. faults' \in Nat /\ faults' > 0
  BY <1>1
<1>3. ServedIsCurrent'
  BY <1>1 DEF CInv, ServedIsCurrent
<1>4. Wants(want)' /\ Meets(txn, want)' /\ Meets(db, want)'
  BY <1>1
<1>5. FollowStep
  BY <1>2 DEF FollowStep
<1> QED
  BY <1>1, <1>2, <1>3, <1>4, <1>5 DEF CInv

\* Steps that leave every table alone.
LEMMA IdleKeeps ==
    ASSUME CInv, DayPasses \/ UNCHANGED cvars
    PROVE  CInv' /\ FollowStep
<1>1. /\ txn' = txn /\ db' = db /\ want' = want /\ served' = served /\ faults' = faults
      /\ today' \in Nat /\ today \in Nat
  BY DEF DayPasses, cvars, CInv
<1>2. CInv'
  BY <1>1 DEF CInv, ServedIsCurrent
<1>3. CASE UNCHANGED cvars
  <2>1. Lands(want', txn) /\ today' = today
    BY <1>1, <1>3 DEF cvars, Lands
  <2> QED
    BY <1>2, <2>1, SameFollows
<1>4. CASE DayPasses
  <2>1. CallList(txn.calls) /\ \A i \in Invocations : Invocation(i)
    BY ControlPlaneAssumption DEF CInv, Meets
  <2>2. ~Rebuilds
    <3>1. \A i \in Invocations : txn.calls # Append(txn.calls, i)
      BY <2>1, NotAppended
    <3> QED
      BY <1>1, <3>1 DEF Rebuilds
  <2>3. today' = today + 1
    BY <1>4 DEF DayPasses
  <2>4. today' # today
    BY <1>1, <2>3
  <2> QED
    BY <1>2, <2>2, <2>4 DEF FollowStep
<1> QED
  BY <1>3, <1>4

LEMMA CInitInv == ASSUME CInit PROVE CInv
<1> DEFINE none == <<>>
           profiles == [c \in Caps |-> [on |-> TRUE, min |-> 0]]
<1>1. /\ txn = Seed /\ db = Seed /\ faults = 0 /\ today = 0 /\ served.rows = none
      /\ want = [profiles |-> {Seed.profiles}, catalogs |-> {none}, flags |-> {FALSE},
                 byok |-> {"none"}, audit |-> 0]
  BY DEF CInit
<1>2. /\ Seed.profiles = profiles /\ Seed.catalog = none /\ Seed.snaps = none /\ Seed.calls = none
      /\ Seed.flag = FALSE /\ Seed.byok = "none" /\ Seed.audit = 0
  BY DEF Seed
<1>3. Tables(Seed)
  BY DEF Tables, Seed, Parts
<1>4. none \in Seq({}) /\ Len(none) = 0 /\ DOMAIN none = {}
  OBVIOUS
<1>5. /\ profiles = [c \in Caps |-> profiles[c]]
      /\ \A c \in Caps : profiles[c].on \in BOOLEAN /\ profiles[c].min \in Nat
  OBVIOUS
<1> HIDE DEF none, profiles
<1>6. CatalogList(none) /\ CallList(none) /\ IsList(none)
  BY <1>4, SeqList DEF CatalogList, CallList
<1>7. /\ want.profiles = {profiles} /\ want.catalogs = {none} /\ want.flags = {FALSE}
      /\ want.byok = {"none"}
      /\ want.audit = 0 /\ DOMAIN want = WantParts /\ want = [p \in WantParts |-> want[p]]
  BY <1>1, <1>2 DEF WantParts
<1>8. Wants(want)
  <2>1. IsFiniteSet({none})
    BY FS_Singleton
  <2> QED
    BY <1>5, <1>6, <1>7, <2>1 DEF Wants
<1>9. Selected(none, want)
  <2>1. \A cap : RowsAt(none, cap) = {}
    BY <1>4 DEF RowsAt
  <2>2. Cardinality({}) = 0
    BY FS_EmptySet
  <2>3. \A cap \in Caps : Cardinality(RowsAt(none, cap)) <= 3
    BY <2>1, <2>2
  <2> QED
    BY <1>4, <1>6, <2>3 DEF Selected
<1>10. Meets(Seed, want)
  <2>1. /\ Seed.profiles \in want.profiles /\ Seed.catalog \in want.catalogs
        /\ Seed.flag \in want.flags /\ Seed.byok \in want.byok
    BY <1>2, <1>7
  <2>2. Seed.audit \in Nat /\ Seed.audit >= want.audit
    BY <1>2, <1>7
  <2> QED
    BY <1>2, <1>3, <1>6, <1>9, <2>1, <2>2 DEF Meets
<1>11. ServedIsCurrent
  BY <1>1, <1>4 DEF ServedIsCurrent
<1> QED
  BY <1>1, <1>8, <1>10, <1>11 DEF CInv

\* What every step does.
LEMMA CStep ==
    ASSUME CInv, [CNext]_cvars
    PROVE  CInv' /\ FollowStep
<1>1. ASSUME NEW cap \in Caps, NEW patch \in Patches, PatchProfile(cap, patch)
      PROVE  CInv' /\ FollowStep
  BY <1>1, PatchProfileKeeps
<1>2. ASSUME NEW entries \in Catalogs, RefreshCatalog(entries) PROVE CInv' /\ FollowStep
  BY <1>2, RefreshCatalogKeeps
<1>3. ASSUME NEW on \in BOOLEAN, PatchFlag(on) PROVE CInv' /\ FollowStep
  BY <1>3, PatchFlagKeeps
<1>4. ASSUME NEW op, Byok(op) PROVE CInv' /\ FollowStep
  BY <1>4, ByokKeeps
<1>5. ASSUME NEW i \in Invocations, Invoked(i) PROVE CInv' /\ FollowStep
  BY <1>5, InvokedKeeps
<1>6. CASE KeyEvent \/ OtherWrite
  BY <1>6, CommitKeeps
<1>7. CASE EraseCalls
  BY <1>7, EraseCallsKeeps
<1>8. CASE ServeConfig
  BY <1>8, ServeKeeps
<1>9. CASE Expire
  BY <1>9, ExpireKeeps
<1>10. CASE Restart
  BY <1>10, RestartKeeps
<1>11. CASE DayPasses \/ UNCHANGED cvars
  BY <1>11, IdleKeeps
<1> QED
  BY <1>1, <1>2, <1>3, <1>4, <1>5, <1>6, <1>7, <1>8, <1>9, <1>10, <1>11 DEF CNext

LEMMA CInvariant == CSpec => []CInv
<1>1. CInit => CInv
  BY CInitInv
<1>2. CInv /\ [CNext]_cvars => CInv'
  BY CStep
<1> QED
  BY <1>1, <1>2, PTL DEF CSpec

\* What was answered is in the tables: whatever fails or stops between two
\* statements of the handlers of the control plane, each table holds a change
\* that was answered last, or one that failed after it, and the audit log has
\* a row for every change answered.
THEOREM AnsweredStays == CSpec => []AnsweredIsDurable
<1>1. CInv => AnsweredIsDurable
  BY DEF CInv, Meets, AnsweredIsDurable
<1> QED
  BY <1>1, CInvariant, PTL

\* The config that the gateway is served has only selections the profiles and
\* the catalog of the moment allow, none of them expired.
THEOREM ServedIsFresh == CSpec => []ServedIsCurrent
<1>1. CInv => ServedIsCurrent
  BY DEF CInv
<1> QED
  BY <1>1, CInvariant, PTL

\* Every handler that changes a profile, the catalog or the calls of a
\* capability, refreshes the selections, and no other puts them out of step
\* but an erasure of calls, and a day on which a model is no longer offered.
THEOREM SelectionsAreFollowed == CSpec => SelectionsFollow
<1>1. CInv /\ [CNext]_cvars => [FollowStep]_cvars
  BY CStep
<1> QED
  BY <1>1, CInvariant, PTL DEF CSpec, SelectionsFollow, FollowStep

\* A fallback that was no faster than its model had been never lifts the
\* score of the model, for any latencies and any history of calls that the
\* ranking reads.
THEOREM FallbacksSink == CSpec => FallbackSinks
<1> DEFINE Sinks ==
      \A i \in Invocations :
        LET before == Of(txn.calls, i.cap, i.model)
            slower == IF before = <<>> THEN i.latency >= Preferred
                      ELSE i.latency * Len(before) >= TotalLatency(before)
        IN  txn'.calls = Append(txn.calls, i) /\ i.model # "none" /\ i.fallback /\ slower =>
              Score(0, Of(txn'.calls, i.cap, i.model)) <= Score(0, before)
<1>1. ASSUME CInv PROVE Sinks
  <2> SUFFICES ASSUME NEW i \in Invocations, txn'.calls = Append(txn.calls, i),
                      i.model # "none", i.fallback,
                      IF Of(txn.calls, i.cap, i.model) = <<>> THEN i.latency >= Preferred
                      ELSE i.latency * Len(Of(txn.calls, i.cap, i.model))
                             >= TotalLatency(Of(txn.calls, i.cap, i.model))
               PROVE  Score(0, Of(txn'.calls, i.cap, i.model))
                        <= Score(0, Of(txn.calls, i.cap, i.model))
    OBVIOUS
  <2>1. CallList(txn.calls) /\ Invocation(i)
    BY <1>1, ControlPlaneAssumption DEF CInv, Meets
  <2> DEFINE before == Of(txn.calls, i.cap, i.model)
             after == Of(txn'.calls, i.cap, i.model)
  <2>2. after = Append(before, i)
    BY <2>1, AppendCall
  <2>3. CallList(before) /\ \A n \in DOMAIN before : before[n].model = i.model
    BY <2>1, OfCalls
  <2>4. IF before = <<>> THEN i.latency >= Preferred
        ELSE i.latency * Len(before) >= TotalLatency(before)
    OBVIOUS
  <2> HIDE DEF before, after
  <2>5. i.ok /\ \A n \in DOMAIN before : before[n].ok
    BY <2>1, <2>3 DEF CallList, Invocation
  <2>6. Score(0, after) <= Score(0, before)
    BY <2>1, <2>2, <2>3, <2>4, <2>5, FallbackLowers
  <2> QED
    BY <2>6 DEF before, after
<1>2. CInv /\ [CNext]_cvars => [Sinks]_txn
  BY <1>1
<1> QED
  BY <1>2, CInvariant, PTL DEF CSpec, FallbackSinks
=============================================================================
