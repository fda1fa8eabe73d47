---------------------------- MODULE MCControlPlane ----------------------------
(* ControlPlane with two capabilities and four models, of which two have a   *)
(* longer context and one is offered until the first day, a catalog that     *)
(* lists a model twice, and calls of one capability that are fast or that    *)
(* fall back late.                                                           *)
EXTENDS ControlPlane

M(id, quality, context, until) ==
    [id |-> id, quality |-> quality, context |-> context, until |-> until]
MCCatalogs ==
    {<<M("a", 290, 1, 1), M("b", 290, 0, 0), M("c", 285, 1, 0), M("d", 275, 0, 0)>>,
     <<M("b", 290, 0, 0)>>,
     <<M("c", 285, 1, 0), M("c", 285, 1, 0)>>}
MCPatches == {[on |-> FALSE, min |-> 0], [on |-> TRUE, min |-> 1]}
Call(cap, model, ok, fallback, latency) ==
    [cap |-> cap, model |-> model, ok |-> ok, fallback |-> fallback, latency |-> latency]
MCInvocations ==
    {Call("rewrite", "b", TRUE, FALSE, 0), Call("rewrite", "b", TRUE, TRUE, 8),
     Call("none", "rules", TRUE, FALSE, 0)}
=============================================================================
