---------------------------- MODULE MCKeyRegistry ----------------------------
(* KeyRegistry with two keys and a handful of deliveries.  Every payload can *)
(* be delivered any number of times and in any order, which is what two      *)
(* attempts per event and concurrent gateway requests amount to.             *)
EXTENDS KeyRegistry

CONSTANTS k1, k2, f1, f2, s1, e1

MCKeys == {k1, k2}

\* Two distinct failures and a success on k1, an explicit "enabled" for k1, and
\* a failure for k2, which may arrive before k2 is registered.
MCTelemetry ==
    {[id |-> <<f1>>, key |-> k1, type |-> "failure"],
     [id |-> <<f2>>, key |-> k2, type |-> "failure"],
     [id |-> <<s1>>, key |-> k1, type |-> "success"],
     [id |-> <<e1>>, key |-> k1, type |-> "enabled"]}
=============================================================================
