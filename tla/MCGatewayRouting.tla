--------------------------- MODULE MCGatewayRouting ---------------------------
(* GatewayRouting with two concurrent requests and two keys.  The requests    *)
(* are interchangeable: only safety is checked under the symmetry.            *)
EXTENDS GatewayRouting, TLC

CONSTANTS k1, k2, r1, r2, s1, s2

MCKeys     == {k1, k2}
MCRequests == {r1, r2}
MCSecrets  == {s1, s2}
MCRank     == [k \in Keys |-> IF k = k1 THEN 10 ELSE 20]
Symmetry   == Permutations(Requests) \cup Permutations(Secrets)

\* Everything the gateway can report: one success and one failure per request and key.
MCTelemetry ==
    {[id |-> <<r, k, t>>, key |-> k, type |-> t] :
        r \in Requests, k \in Keys, t \in {"success", "failure"}}

\* The profiles the backend seeds, and the capabilities the gateway accepts.
BackendLiteral == {"daily_plan", "task_rewrite", "semantic_classify", "weekly_summary",
                   "mindflow_parse", "decision_plan", "shopping_plan", "product_evidence"}
GatewayLiteral == {"daily_plan", "task_rewrite", "semantic_classify", "weekly_summary"}

\* The backend of this repository, and one from before the MindFlow profiles.
ShippedReleases == {BackendLiteral}
EarlierReleases == {GatewayLiteral}
BothReleases    == {BackendLiteral, GatewayLiteral}

\* Every request asks for a daily plan.  The selection covers it, or an operator has
\* disabled its profile, or no model of the catalog fits it.
MCCapability    == [r \in Requests |-> "daily_plan"]
Selected        == {{"daily_plan", "task_rewrite"}}
SelectedOrNot   == Selected \cup {{"task_rewrite"}}
=============================================================================
