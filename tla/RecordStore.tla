----------------------------- MODULE RecordStore -----------------------------
(***************************************************************************)
(* What the backend promises of the operational records it keeps by user,  *)
(* as its connection sees them and as they are saved: a record belongs to  *)
(* a known user, an id names one record, records come one at a time, and   *)
(* a user is forgotten only when no record of the user remains.  What      *)
(* changed since the last saving is saved as a whole or lost as a whole.   *)
(***************************************************************************)
CONSTANTS Users, Row   \* Row is a set of records with fields id and user

VARIABLES known, rows, saved

Seen == [known |-> known, rows |-> rows]

Init == known \subseteq Users /\ rows = {} /\ saved = Seen

Meet(u) == known' = known \cup {u} /\ UNCHANGED rows

Keep(row) ==
    /\ row.user \in known
    /\ rows' = {r \in rows : r.id # row.id} \cup {row}
    /\ UNCHANGED known

\* Some of a user's records go; with the last of them the user may.
Forget(u) ==
    /\ \E some \in SUBSET {r \in rows : r.user = u} : rows' = rows \ some
    /\ \/ UNCHANGED known
       \/ known' = known \ {u} /\ \A r \in rows' : r.user # u

Change == \/ \E u \in Users : Meet(u) \/ Forget(u)
          \/ \E row \in Row : Keep(row)

\* What is seen is saved, or what is saved is seen again.
Save    == saved' = Seen' /\ UNCHANGED <<known, rows>>
Restore == known' = saved.known /\ rows' = saved.rows /\ UNCHANGED saved

Next == \/ Change /\ (saved' = Seen' \/ UNCHANGED saved)
        \/ Save \/ Restore

Spec == Init /\ [][Next]_<<known, rows, saved>>
=============================================================================
