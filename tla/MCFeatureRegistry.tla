------------------------- MODULE MCFeatureRegistry -------------------------
(* A small instance of the registry for TLC: two clients, a freshness that *)
(* FeatureDefinition rejects, and updates of one field each.               *)
EXTENDS FeatureRegistry, TLC

CONSTANTS o1, o2

MCOwners == {o1, o2}
MCDefinitions ==
    {[sla |-> 1, owner |-> o1, active |-> TRUE], [sla |-> 2, owner |-> o2, active |-> TRUE]}
MCUpdates ==
    {[sla |-> 0], [sla |-> 2], [owner |-> o2], [active |-> TRUE]}
Symmetry == Permutations(Clients)
=============================================================================
