----------------------------- MODULE SessionStore -----------------------------
(***************************************************************************)
(* What the rest of the app may assume of its local store: one atomic map  *)
(* from the kinds of data to their values, durable as long as it has not   *)
(* forgotten; it can forget everything, at most once per session.          *)
(***************************************************************************)
EXTENDS Naturals

CONSTANTS Keys, Values, None

VARIABLES view,     \* what a load would return
          forgot,   \* the session has forgotten
          session   \* number of the session

Content == [Keys -> Values \cup {None}]
Empty   == [k \in Keys |-> None]

Init == view \in Content /\ forgot = FALSE /\ session = 0

Save(k, v) == view' = [view EXCEPT ![k] = v] /\ UNCHANGED <<forgot, session>>

DeleteAll == view' = Empty /\ UNCHANGED <<forgot, session>>

Forget == /\ ~forgot
          /\ view' = Empty /\ forgot' = TRUE
          /\ UNCHANGED session

NewSession == /\ view' \in Content /\ (~forgot => view' = view)
              /\ forgot' = FALSE
              /\ session' = session + 1

Next == \/ \E k \in Keys, v \in Values : Save(k, v)
        \/ DeleteAll \/ Forget \/ NewSession

Spec == Init /\ [][Next]_<<view, forgot, session>>
=============================================================================
