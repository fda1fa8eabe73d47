-------------------------- MODULE MCOperationalRecords --------------------------
(* OperationalRecords with two users, a body of one record and a body of two. *)
(* The mission record of u1 has the id of the mission record of u2, as the    *)
(* gateway's suggestion ids have, and the later body holds the older record.  *)
EXTENDS OperationalRecords, TLC

CONSTANTS u1, u2, mission, usage, p1, p2, del, exp

MCItems == p1 :> <<[id |-> mission, user |-> u1, at |-> 2]>> @@
           p2 :> <<[id |-> usage,   user |-> u1, at |-> 1],
                   [id |-> mission, user |-> u2, at |-> 1]>>
MCTicketUser == del :> u1 @@ exp :> u2
MCTableOf == usage :> 1 @@ mission :> 4
MCTicketType == del :> "delete" @@ exp :> "export"
=============================================================================
