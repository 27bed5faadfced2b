-------------------------- MODULE MCPipelineThreads --------------------------
(* The pipeline under threads on small sets: ids of actions, events,       *)
(* approvers and threads are interchangeable.                              *)
EXTENDS PipelineThreads

MCSymmetry == Permutations(ActionIds) \cup Permutations(Events)
                 \cup Permutations(Approvers) \cup Permutations(Threads)

\* Bound: no quorum rule is ever configured, so every row takes one approval.
MCNoQuorumRules == DOMAIN quorum = {}
=============================================================================
