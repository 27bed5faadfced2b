CONSTANTS
    ActionIds = {a1, a2}
    Tenants = {t1}
    Events = {e1, e2}
    ActionTypes = {ty1}
    Approvers = {ann}
    Nobody = Nobody
    AnyTenant = AnyTenant
    Quorums = {1}
    Threads = {th1, th2}
    Free = Free
SYMMETRY MCSymmetry
SPECIFICATION ThreadsSpec
CONSTRAINT MCNoQuorumRules
INVARIANTS ListInOrder
