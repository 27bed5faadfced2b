CONSTANTS
    ActionIds = {a1, a2, a3}
    Tenants = {t1, t2}
    Approvers = {ann, bob}
    Nobody = Nobody
    Quorums = {0, 1, 2}
SYMMETRY MCSymmetry
SPECIFICATION QueueSpec
INVARIANTS QueueInv PendingListExact QuorumExact NeverStuck
PROPERTIES RowHistory
\* The ids run out and every row ends resolved: the model stops there.
CHECK_DEADLOCK FALSE
