--------------------------- MODULE MCApprovalQueue ---------------------------
(* The approval queue on small sets: action ids, tenants and approvers are *)
(* interchangeable.                                                        *)
EXTENDS ApprovalQueue

MCSymmetry == Permutations(ActionIds) \cup Permutations(Tenants)
                 \cup Permutations(Approvers)
=============================================================================
