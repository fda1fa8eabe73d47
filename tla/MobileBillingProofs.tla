-------------------------- MODULE MobileBillingProofs --------------------------
(***************************************************************************)
(* Proofs about MobileBilling, for any purchases, any number of            *)
(* validations at a time: every plan was entitled, and every stored plan   *)
(* can be taken back.                                                      *)
(***************************************************************************)
EXTENDS MobileBilling, TLAPS

\* A verified answer under way was read from an entitling state.
AnswersEntitled == \A c \in Calls : call[c].pc = "verified" => call[c].token \in entitled

\* Nothing is under way in an app that is not running.
DownIsIdle == app = "down" => \A c \in Calls : call[c].pc = "idle"

IInv == TypeOK /\ DownIsIdle /\ AnswersEntitled /\ PaidWasEntitled /\ PaidIsRefreshable

\* How one validation changes: the others stay as they are.
LEMMA CallSet ==
    ASSUME TypeOK, NEW c \in Calls, NEW new \in Call,
           new.pc # "idle" => new.token \in Tokens,
           call' = [call EXCEPT ![c] = new]
    PROVE  /\ call' \in [Calls -> Call]
           /\ call'[c] = new
           /\ \A d \in Calls : d # c => call'[d] = call[d]
           /\ \A d \in Calls : call'[d].pc # "idle" => call'[d].token \in Tokens
BY DEF TypeOK

LEMMA RestingType == Resting \in Call /\ Resting.pc = "idle"
BY DEF Resting, Call

LEMMA FreshType == Fresh \in Records /\ Fresh.ent = Free /\ Fresh.sub = None
BY DEF Fresh, Records, Plans

LEMMA StoreType ==
    TypeOK => /\ Store \in Records
              /\ PaidWasEntitled => Store.ent \in entitled \cup {Free}
BY DEF TypeOK, Store, PaidWasEntitled

\* A save keeps both stores well formed, and its entitlements entitled.
LEMMA SaveStep ==
    ASSUME IInv, NEW s \in Records, s.ent \in entitled \cup {Free}, SaveRecords(s),
           entitled' = entitled, ent' \in entitled \cup {Free}
    PROVE  /\ disk' \in Records /\ fallback' \in Records /\ switched' = switched
           /\ PaidWasEntitled'
           /\ ~switched => disk' = s
           /\ switched => disk' = disk
<1>1. CASE switched
  BY <1>1 DEF SaveRecords, IInv, TypeOK, PaidWasEntitled
<1>2. CASE ~switched
  BY <1>2 DEF SaveRecords, IInv, TypeOK, PaidWasEntitled
<1> QED
  BY <1>1, <1>2 DEF IInv, TypeOK

LEMMA InitIInv == Init => IInv
<1> SUFFICES ASSUME Init PROVE IInv
  OBVIOUS
<1>1. call \in [Calls -> Call] /\ \A c \in Calls : call[c].pc = "idle"
  BY RestingType DEF Init
<1>2. google \in [Tokens -> {"none", "pending", "active", "ended"}]
  BY DEF Init
<1>3. TypeOK
  BY <1>1, <1>2, FreshType DEF Init, TypeOK, Plans
<1>4. DownIsIdle /\ AnswersEntitled /\ PaidWasEntitled /\ PaidIsRefreshable
  BY <1>1, FreshType DEF Init, DownIsIdle, AnswersEntitled, PaidWasEntitled, PaidIsRefreshable
<1> QED
  BY <1>3, <1>4 DEF IInv

\* Asking for a validation occupies a resting one, or nothing happens.
LEMMA AskStep ==
    ASSUME IInv, NEW t \in Tokens, NEW on \in BOOLEAN, Ask(t, on), entitled' = entitled
    PROVE  /\ call' \in [Calls -> Call]
           /\ \A c \in Calls : call'[c].pc # "idle" => call'[c].token \in Tokens
           /\ AnswersEntitled'
           /\ \A c \in Calls : call[c].pc \in {"saved", "loaded"} => call'[c] = call[c]
<1>1. CASE call' = call
  BY <1>1 DEF IInv, TypeOK, AnswersEntitled
<1>2. CASE call' # call
  <2>1. PICK c \in Calls : /\ call[c].pc = "idle"
                           /\ call' = [call EXCEPT
                                  ![c] = [Resting EXCEPT !.pc = "asked", !.token = t]]
    BY <1>2 DEF Ask
  <2> DEFINE new == [Resting EXCEPT !.pc = "asked", !.token = t]
  <2>2. new \in Call /\ new.pc = "asked" /\ new.token = t
    BY DEF Resting, Call
  <2>3. call' = [call EXCEPT ![c] = new]
    BY <2>1
  <2> HIDE DEF new
  <2>4. /\ call' \in [Calls -> Call] /\ call'[c] = new
        /\ \A d \in Calls : d # c => call'[d] = call[d]
        /\ \A d \in Calls : call'[d].pc # "idle" => call'[d].token \in Tokens
    BY <2>2, <2>3, CallSet DEF IInv
  <2>5. AnswersEntitled'
    BY <2>2, <2>4 DEF IInv, AnswersEntitled
  <2> QED
    BY <2>1, <2>4, <2>5
<1> QED
  BY <1>1, <1>2

LEMMA AskStoredStep ==
    ASSUME IInv, NEW t \in Tokens \cup {None}, NEW on \in BOOLEAN,
           AskStored(t, on), entitled' = entitled
    PROVE  /\ call' \in [Calls -> Call]
           /\ \A c \in Calls : call'[c].pc # "idle" => call'[c].token \in Tokens
           /\ AnswersEntitled'
           /\ \A c \in Calls : call[c].pc \in {"saved", "loaded"} => call'[c] = call[c]
<1>1. CASE t = None
  BY <1>1 DEF AskStored, IInv, TypeOK, AnswersEntitled
<1>2. CASE t # None
  BY <1>2, AskStep DEF AskStored
<1> QED
  BY <1>1, <1>2

LEMMA NextIInv == IInv /\ [Next]_vars => IInv'
<1> SUFFICES ASSUME IInv, [Next]_vars PROVE IInv'
  OBVIOUS
<1>0. TypeOK
  BY DEF IInv
<1>1. ASSUME NEW t \in Tokens, GoogleMoves(t) PROVE IInv'
  <2>1. google' \in [Tokens -> {"none", "pending", "active", "ended"}]
    <3>1. PICK s \in Follows[google[t]] : google' = [google EXCEPT ![t] = s]
      BY <1>1 DEF GoogleMoves
    <3>2. s \in {"active", "ended"}
      BY <3>1, <1>0 DEF Follows, TypeOK
    <3> QED
      BY <3>1, <3>2, <1>0 DEF TypeOK
  <2> QED
    BY <1>1, <2>1 DEF GoogleMoves, IInv, TypeOK, DownIsIdle, AnswersEntitled,
     PaidWasEntitled, PaidIsRefreshable, BetweenSaves, Running, world, memory, stores, history
<1>2. ASSUME NEW t \in Tokens, Buy(t) PROVE IInv'
  <2>1. /\ google' \in [Tokens -> {"none", "pending", "active", "ended"}]
        /\ updates' \subseteq Tokens
    BY <1>2, <1>0 DEF Buy, TypeOK
  <2> QED
    BY <1>2, <2>1 DEF Buy, IInv, TypeOK, DownIsIdle, AnswersEntitled,
     PaidWasEntitled, PaidIsRefreshable, BetweenSaves, Running, world, memory, stores, history
<1>3. CASE Restore
  BY <1>3 DEF Restore, IInv, TypeOK, DownIsIdle, AnswersEntitled,
     PaidWasEntitled, PaidIsRefreshable, BetweenSaves, Running, world, memory, stores, history
<1>4. ASSUME NEW t \in Tokens, PurchaseUpdate(t) PROVE IInv'
  <2>1. billingOn \in BOOLEAN /\ Ask(t, billingOn) /\ entitled' = entitled
    BY <1>4, <1>0 DEF PurchaseUpdate, TypeOK, history
  <2>2. /\ call' \in [Calls -> Call] /\ AnswersEntitled'
        /\ \A c \in Calls : call'[c].pc # "idle" => call'[c].token \in Tokens
        /\ \A c \in Calls : call[c].pc \in {"saved", "loaded"} => call'[c] = call[c]
    BY <2>1, AskStep
  <2> QED
    BY <1>4, <2>2 DEF PurchaseUpdate, IInv, TypeOK, DownIsIdle, PaidWasEntitled, PaidIsRefreshable,
       BetweenSaves, Running, world, memory, stores, history
<1>5. CASE RefreshEntitlement
  <2>1. billingOn \in BOOLEAN /\ sub \in Tokens /\ Ask(sub, billingOn) /\ entitled' = entitled
    BY <1>5, <1>0 DEF RefreshEntitlement, TypeOK, history
  <2>2. /\ call' \in [Calls -> Call] /\ AnswersEntitled'
        /\ \A c \in Calls : call'[c].pc # "idle" => call'[c].token \in Tokens
        /\ \A c \in Calls : call[c].pc \in {"saved", "loaded"} => call'[c] = call[c]
    BY <2>1, AskStep
  <2> QED
    BY <1>5, <2>2
    DEF RefreshEntitlement, IInv, TypeOK, DownIsIdle, PaidWasEntitled, PaidIsRefreshable,
       BetweenSaves, Running, world, memory, stores, history
<1>6. CASE RefreshRuntimeConfig
  <2>1. AskStored(sub, backendOn) /\ entitled' = entitled /\ backendOn \in BOOLEAN
    BY <1>6, <1>0 DEF RefreshRuntimeConfig, TypeOK, history
  <2>2. /\ call' \in [Calls -> Call] /\ AnswersEntitled'
        /\ \A c \in Calls : call'[c].pc # "idle" => call'[c].token \in Tokens
        /\ \A c \in Calls : call[c].pc \in {"saved", "loaded"} => call'[c] = call[c]
    BY <2>1, <1>0, AskStoredStep DEF TypeOK
  <2>3. listening' \in BOOLEAN /\ billingOn' \in BOOLEAN /\ cfgDisk' \in BOOLEAN
    BY <1>6, <1>0 DEF RefreshRuntimeConfig, SaveConfig, TypeOK
  <2> QED
    BY <1>6, <2>2, <2>3 DEF RefreshRuntimeConfig, IInv, TypeOK, DownIsIdle, PaidWasEntitled,
       PaidIsRefreshable, BetweenSaves, world, history
<1>7. ASSUME NEW c \in Calls, Answer(c) PROVE IInv'
  <2> DEFINE t == call[c].token
  <2> DEFINE new == [call[c] EXCEPT !.pc = Verdict(t)]
  <2>1. call[c] \in Call /\ t \in Tokens /\ call[c].pc = "asked"
    BY <1>7, <1>0 DEF Answer, TypeOK
  <2>2. Verdict(t) \in {"verified", "refused"} /\ (Verdict(t) = "verified" => google[t] = "active")
    BY DEF Verdict
  <2>3. call' = [call EXCEPT ![c] = new]
    BY <1>7 DEF Answer
  <2>4. entitled' = IF google[t] = "active" THEN entitled \cup {t} ELSE entitled
    BY <1>7 DEF Answer
  <2>5. new \in Call /\ new.pc = Verdict(t) /\ new.token = t
    <3> HIDE DEF t
    <3> QED
      BY <2>1, <2>2 DEF Call, t
  <2> HIDE DEF new, t
  <2>6. /\ call' \in [Calls -> Call] /\ call'[c] = new
        /\ \A d \in Calls : d # c => call'[d] = call[d]
        /\ \A d \in Calls : call'[d].pc # "idle" => call'[d].token \in Tokens
    BY <2>1, <2>3, <2>5, <1>0, CallSet
  <2>7. entitled \subseteq entitled' /\ entitled' \subseteq Tokens
    BY <2>1, <2>4, <1>0 DEF TypeOK
  <2>8. AnswersEntitled'
    BY <2>2, <2>4, <2>5, <2>6, <2>7 DEF IInv, AnswersEntitled
  <2>9. PaidIsRefreshable'
    BY <1>7, <2>1, <2>6 DEF Answer, IInv, PaidIsRefreshable, BetweenSaves, stores
  <2> QED
    BY <1>7, <2>6, <2>7, <2>8, <2>9 DEF Answer, IInv, TypeOK, DownIsIdle, PaidWasEntitled,
       world, memory, stores
<1>8. ASSUME NEW c \in Calls, AnswerError(c) PROVE IInv'
  <2> DEFINE new == [call[c] EXCEPT !.pc = "refused"]
  <2>1. call[c] \in Call /\ call[c].token \in Tokens /\ call[c].pc = "asked"
    BY <1>8, <1>0 DEF AnswerError, TypeOK
  <2>2. new \in Call /\ new.pc = "refused" /\ new.token = call[c].token
    BY <2>1 DEF Call
  <2>3. call' = [call EXCEPT ![c] = new]
    BY <1>8 DEF AnswerError
  <2> HIDE DEF new
  <2>4. /\ call' \in [Calls -> Call] /\ call'[c] = new
        /\ \A d \in Calls : d # c => call'[d] = call[d]
        /\ \A d \in Calls : call'[d].pc # "idle" => call'[d].token \in Tokens
    BY <2>1, <2>2, <2>3, <1>0, CallSet
  <2> QED
    BY <1>8, <2>1, <2>2, <2>4 DEF AnswerError, IInv, TypeOK, DownIsIdle, AnswersEntitled,
     PaidWasEntitled, PaidIsRefreshable, BetweenSaves, Running, world, memory, stores, history
<1>9. ASSUME NEW c \in Calls, Unreachable(c) PROVE IInv'
  <2>1. call' = [call EXCEPT ![c] = Resting] /\ call[c].pc = "asked"
    BY <1>9 DEF Unreachable
  <2>2. /\ call' \in [Calls -> Call] /\ call'[c] = Resting
        /\ \A d \in Calls : d # c => call'[d] = call[d]
        /\ \A d \in Calls : call'[d].pc # "idle" => call'[d].token \in Tokens
    BY <2>1, <1>0, CallSet, RestingType
  <2> QED
    BY <1>9, <2>1, <2>2, RestingType DEF Unreachable, IInv, TypeOK, DownIsIdle, AnswersEntitled,
     PaidWasEntitled, PaidIsRefreshable, BetweenSaves, Running, world, memory, stores, history
<1>10. ASSUME NEW c \in Calls, SaveEntitlement(c) PROVE IInv'
  <2> DEFINE new == [call[c] EXCEPT !.pc = "saved"]
  <2> DEFINE s == [Store EXCEPT !.ent = PlanOf(call[c])]
  <2>1. call[c] \in Call /\ call[c].token \in Tokens
    BY <1>10, <1>0 DEF SaveEntitlement, TypeOK
  <2>2. new \in Call /\ new.pc = "saved" /\ new.token = call[c].token
    BY <2>1 DEF Call
  <2>3. call' = [call EXCEPT ![c] = new] /\ SaveRecords(s)
    BY <1>10 DEF SaveEntitlement
  <2>4. PlanOf(call[c]) \in Plans /\ PlanOf(call[c]) \in entitled \cup {Free}
    BY <2>1 DEF PlanOf, Plans, IInv, AnswersEntitled
  <2>5. s \in Records /\ s.ent \in entitled \cup {Free}
    BY <2>4, <1>0, StoreType DEF Records
  <2> HIDE DEF new, s
  <2>6. /\ call' \in [Calls -> Call] /\ call'[c] = new
        /\ \A d \in Calls : d # c => call'[d] = call[d]
        /\ \A d \in Calls : call'[d].pc # "idle" => call'[d].token \in Tokens
    BY <2>1, <2>2, <2>3, <1>0, CallSet
  <2>7. entitled' = entitled /\ ent' = ent
    BY <1>10 DEF SaveEntitlement, history, memory
  <2>8. disk' \in Records /\ fallback' \in Records /\ switched' = switched /\ PaidWasEntitled'
        /\ (switched => disk' = disk)
    BY <2>3, <2>5, <2>7, SaveStep DEF IInv, PaidWasEntitled
  <2>9. AnswersEntitled'
    BY <2>2, <2>6, <2>7 DEF IInv, AnswersEntitled
  <2>10. PaidIsRefreshable'
    <3>1. cut' = cut
      BY <1>10 DEF SaveEntitlement, history
    <3>2. BetweenSaves'
      BY <2>2, <2>6 DEF BetweenSaves
    <3> QED
      BY <3>1, <3>2, <2>8 DEF IInv, PaidIsRefreshable
  <2> QED
    BY <1>10, <2>6, <2>8, <2>9, <2>10
    DEF SaveEntitlement, IInv, TypeOK, DownIsIdle, world, memory, history
<1>11. ASSUME NEW c \in Calls, LoadEntitlement(c) PROVE IInv'
  <2> DEFINE new == [call[c] EXCEPT !.pc = "loaded"]
  <2>1. call[c] \in Call /\ call[c].token \in Tokens /\ call[c].pc = "saved"
    BY <1>11, <1>0 DEF LoadEntitlement, TypeOK
  <2>2. new \in Call /\ new.pc = "loaded" /\ new.token = call[c].token
    BY <2>1 DEF Call
  <2>3. call' = [call EXCEPT ![c] = new] /\ ent' = Store.ent /\ sub' \in Tokens
    BY <1>11, <2>1 DEF LoadEntitlement
  <2> HIDE DEF new
  <2>4. ent' \in Plans /\ ent' \in entitled \cup {Free}
    BY <2>3, <1>0, StoreType DEF IInv, Records
  <2>5. /\ call' \in [Calls -> Call] /\ call'[c] = new
        /\ \A d \in Calls : d # c => call'[d] = call[d]
        /\ \A d \in Calls : call'[d].pc # "idle" => call'[d].token \in Tokens
    BY <2>1, <2>2, <2>3, <1>0, CallSet
  <2>6. AnswersEntitled'
    BY <1>11, <2>2, <2>5 DEF LoadEntitlement, history, IInv, AnswersEntitled
  <2>7. PaidWasEntitled'
    BY <1>11, <2>4 DEF LoadEntitlement, IInv, PaidWasEntitled, stores, history
  <2>8. PaidIsRefreshable'
    <3>1. BetweenSaves'
      BY <2>2, <2>5 DEF BetweenSaves
    <3>2. UNCHANGED <<disk, switched, cut>>
      BY <1>11 DEF LoadEntitlement, stores, history
    <3> QED
      BY <3>1, <3>2 DEF IInv, PaidIsRefreshable
  <2> QED
    BY <1>11, <2>3, <2>4, <2>5, <2>6, <2>7, <2>8
    DEF LoadEntitlement, IInv, TypeOK, DownIsIdle, world, stores, history
<1>12. ASSUME NEW c \in Calls, SaveSubscription(c) PROVE IInv'
  <2> DEFINE s == [Store EXCEPT !.sub = call[c].token]
  <2>1. call' = [call EXCEPT ![c] = Resting] /\ SaveRecords(s) /\ call[c].token \in Tokens
    BY <1>12, <1>0 DEF SaveSubscription, TypeOK
  <2>2. /\ call' \in [Calls -> Call] /\ call'[c] = Resting
        /\ \A d \in Calls : d # c => call'[d] = call[d]
        /\ \A d \in Calls : call'[d].pc # "idle" => call'[d].token \in Tokens
    BY <2>1, <1>0, CallSet, RestingType
  <2>3. s \in Records /\ s.ent \in entitled \cup {Free} /\ s.sub \in Tokens
    BY <2>1, <1>0, StoreType DEF Records, IInv
  <2> HIDE DEF s
  <2>4. entitled' = entitled /\ ent' = ent /\ cut' = cut
    BY <1>12 DEF SaveSubscription, history, memory
  <2>5. disk' \in Records /\ fallback' \in Records /\ switched' = switched /\ PaidWasEntitled'
        /\ (switched => disk' = disk) /\ (~switched => disk' = s)
    BY <2>1, <2>3, <2>4, SaveStep DEF IInv, PaidWasEntitled
  <2>6. AnswersEntitled'
    BY <2>2, <2>4, RestingType DEF IInv, AnswersEntitled
  <2>7. PaidIsRefreshable'
    BY <2>3, <2>4, <2>5, BillingAssumption DEF IInv, PaidIsRefreshable
  <2> QED
    BY <1>12, <2>2, <2>5, <2>6, <2>7
    DEF SaveSubscription, IInv, TypeOK, DownIsIdle, world, memory, history
<1>13. CASE Open
  BY <1>13 DEF Open, IInv, TypeOK, DownIsIdle, AnswersEntitled,
     PaidWasEntitled, PaidIsRefreshable, BetweenSaves, Running, world, memory, stores, history
<1>14. CASE BootEntitlement
  <2>1. ent' \in Plans /\ ent' \in entitled \cup {Free}
    BY <1>14, <1>0, StoreType DEF BootEntitlement, IInv, Records
  <2> QED
    BY <1>14, <2>1 DEF BootEntitlement, IInv, TypeOK, DownIsIdle, AnswersEntitled,
     PaidWasEntitled, PaidIsRefreshable, BetweenSaves, Running, world, memory, stores, history
<1>15. CASE BootSubscription
  <2>1. /\ billingOn \in BOOLEAN /\ AskStored(Store.sub, billingOn) /\ entitled' = entitled
        /\ Store.sub \in Tokens \cup {None}
    BY <1>15, <1>0, StoreType DEF BootSubscription, TypeOK, Records, history
  <2>2. /\ call' \in [Calls -> Call] /\ AnswersEntitled'
        /\ \A c \in Calls : call'[c].pc # "idle" => call'[c].token \in Tokens
        /\ \A c \in Calls : call[c].pc \in {"saved", "loaded"} => call'[c] = call[c]
    BY <2>1, AskStoredStep
  <2>3. sub' \in Tokens \cup {None}
    BY <1>15, <2>1 DEF BootSubscription
  <2> QED
    BY <1>15, <2>2, <2>3
    DEF BootSubscription, IInv, TypeOK, DownIsIdle, PaidWasEntitled, PaidIsRefreshable,
       BetweenSaves, world, stores, history
<1>16. CASE Switch
  <2>1. PICK R \in SUBSET {c \in Calls : call[c].pc \notin {"idle", "asked"}} :
            call' = [c \in Calls |-> IF c \in R THEN Resting ELSE call[c]]
    BY <1>16 DEF Switch
  <2>2. /\ call' \in [Calls -> Call]
        /\ \A c \in Calls : call'[c] = Resting \/ call'[c] = call[c]
    BY <2>1, <1>0, RestingType DEF TypeOK
  <2>3. /\ \A c \in Calls : call'[c].pc # "idle" => call'[c].token \in Tokens
        /\ AnswersEntitled'
    BY <1>16, <2>2, RestingType DEF Switch, IInv, TypeOK, AnswersEntitled
  <2>4. updates' \subseteq Tokens /\ app' \in {"down", "opened", "halfway", "up", "stuck"}
        /\ switched' \in BOOLEAN /\ cut' \in BOOLEAN
    BY <1>16, <1>0 DEF Switch, TypeOK, BetweenSaves
  <2>5. PaidIsRefreshable'
    BY <1>16 DEF Switch, IInv, PaidIsRefreshable
  <2> QED
    BY <1>16, <2>2, <2>3, <2>4, <2>5 DEF Switch, IInv, TypeOK, DownIsIdle, PaidWasEntitled, world
<1>17. CASE Stop
  <2>1. call' \in [Calls -> Call] /\ \A c \in Calls : call'[c] = Resting
    BY <1>17, RestingType DEF Stop
  <2>2. AnswersEntitled'
    BY <2>1, RestingType DEF AnswersEntitled
  <2>3. PaidIsRefreshable'
    BY <1>17 DEF Stop, IInv, PaidIsRefreshable
  <2>4. cut' \in BOOLEAN /\ app' = "down" /\ ent' \in Plans
    BY <1>17, <1>0 DEF Stop, TypeOK, BetweenSaves, Plans
  <2>5. PaidWasEntitled'
    BY <1>17, FreshType DEF Stop, IInv, PaidWasEntitled
  <2> QED
    BY <1>17, <2>1, <2>2, <2>3, <2>4, <2>5, RestingType, FreshType
    DEF Stop, IInv, TypeOK, DownIsIdle, world
<1>18. CASE DeleteDisk
  <2>1. entitled' = entitled /\ ent' = ent /\ cut' = cut /\ call' = call
    BY <1>18 DEF DeleteDisk, memory, history
  <2>2. disk' \in Records /\ fallback' \in Records /\ switched' = switched /\ PaidWasEntitled'
        /\ (switched => disk' = disk) /\ (~switched => disk' = Fresh)
    BY <1>18, <2>1, FreshType, SaveStep DEF DeleteDisk, IInv, PaidWasEntitled
  <2>3. PaidIsRefreshable'
    BY <2>1, <2>2, FreshType DEF IInv, PaidIsRefreshable
  <2>4. cfgDisk' \in BOOLEAN
    BY <1>18, <1>0 DEF DeleteDisk, SaveConfig, TypeOK
  <2> QED
    BY <1>18, <2>1, <2>2, <2>3, <2>4 DEF DeleteDisk, IInv, TypeOK, DownIsIdle, AnswersEntitled,
       world, memory, history
<1>19. CASE DeleteMemory
  BY <1>19 DEF DeleteMemory, Plans, IInv, TypeOK, DownIsIdle, AnswersEntitled,
     PaidWasEntitled, PaidIsRefreshable, BetweenSaves, Running, world, memory, stores, history
<1>20. CASE DeleteBreaks
  BY <1>20 DEF DeleteBreaks, IInv, TypeOK, DownIsIdle, AnswersEntitled,
     PaidWasEntitled, PaidIsRefreshable, BetweenSaves, Running, world, memory, stores, history
<1>21. CASE BackendMode
  BY <1>21 DEF BackendMode, IInv, TypeOK, DownIsIdle, AnswersEntitled,
     PaidWasEntitled, PaidIsRefreshable, BetweenSaves, Running, world, memory, stores, history
<1>22. CASE UNCHANGED vars
  BY <1>22 DEF vars, IInv, TypeOK, DownIsIdle, AnswersEntitled,
     PaidWasEntitled, PaidIsRefreshable, BetweenSaves, Running, world, memory, stores, history
<1> QED
  BY <1>1, <1>2, <1>3, <1>4, <1>5, <1>6, <1>7, <1>8, <1>9, <1>10, <1>11, <1>12, <1>13,
     <1>14, <1>15, <1>16, <1>17, <1>18, <1>19, <1>20, <1>21, <1>22 DEF Next

LEMMA SpecIInv == Spec => []IInv
BY InitIInv, NextIInv, PTL DEF Spec

\* The state keeps its types: what Google, the backend, the app and SQLite
\* hold, for any purchases and any number of validations at a time.
THEOREM TypeCorrect == Spec => []TypeOK
<1>1. IInv => TypeOK
  BY DEF IInv
<1> QED
  BY <1>1, SpecIInv, PTL

\* Whatever overlaps, whenever the app is stopped and wherever SQLite fails, a
\* plan in memory or in a store was bought with a purchase the backend found entitling.
THEOREM PlansAreEntitled == Spec => []PaidWasEntitled
<1>1. IInv => PaidWasEntitled
  BY DEF IInv
<1> QED
  BY <1>1, SpecIInv, PTL

\* A plan in SQLite comes with a purchase to validate again, except when the
\* app was stopped, or left SQLite, between the two saves of a validation.
THEOREM PlansAreRefreshable == Spec => []PaidIsRefreshable
<1>1. IInv => PaidIsRefreshable
  BY DEF IInv
<1> QED
  BY <1>1, SpecIInv, PTL
=============================================================================
