-------------------------- MODULE MCDecisionPipeline --------------------------
(* The decision pipeline on small sets: ids of actions, tenants, events,   *)
(* action types and approvers are interchangeable.                         *)
EXTENDS DecisionPipeline

MCSymmetry == Permutations(ActionIds) \cup Permutations(Tenants)
                 \cup Permutations(Events) \cup Permutations(ActionTypes)
                 \cup Permutations(Approvers)
===============================================================================
