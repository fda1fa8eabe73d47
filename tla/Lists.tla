--------------------------------- MODULE Lists ---------------------------------
(***************************************************************************)
(* Lists as the gateway makes them: the entries a condition selects, a     *)
(* list sorted by a score, the sum of a list, its first entries.           *)
(* Recursions are recursive functions, and what selects or sorts is a set  *)
(* of places or a list of scores, so that proofs can use each operator by  *)
(* a lemma on it.                                                          *)
(***************************************************************************)
EXTENDS Integers, Sequences, FiniteSets

\* A list of whatever entries.
IsList(s) == s \in Seq({s[i] : i \in DOMAIN s})

Least(a, b) == IF a < b THEN a ELSE b
FirstOf(s, n) == SubSeq(s, 1, Least(n, Len(s)))

\* The first entry of s that is in S.
Earliest(s, S) ==
    s[CHOOSE i \in DOMAIN s : s[i] \in S /\ \A j \in DOMAIN s : s[j] \in S => i <= j]

\* The entries of s at the places in K, in order.
Those(s, K) ==
    LET those[n \in 0..Len(s)] ==
            IF n = 0 THEN <<>>
            ELSE IF n \in K THEN Append(those[n - 1], s[n]) ELSE those[n - 1]
    IN  those[Len(s)]

SumSeq(s) ==
    LET sum[n \in 0..Len(s)] == IF n = 0 THEN 0 ELSE sum[n - 1] + s[n]
    IN  sum[Len(s)]

\* A stable sort by falling score; score[i] is that of s[i].
SortedBy(s, score) ==
    LET Before(i, j) == score[i] > score[j] \/ (score[i] = score[j] /\ i < j)
        At(k) == CHOOSE i \in DOMAIN s : Cardinality({j \in DOMAIN s : Before(j, i)}) = k - 1
    IN  [k \in DOMAIN s |-> s[At(k)]]
=============================================================================
