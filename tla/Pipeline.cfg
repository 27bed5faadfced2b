CONSTANTS
    ActionIds = {a1, a2}
    Tenants = {t1}
    Events = {e1, e2}
    ActionTypes = {ty1}
    Approvers = {ann, bob}
    Nobody = Nobody
    AnyTenant = AnyTenant
    Quorums = {1, 2}
SYMMETRY MCSymmetry
SPECIFICATION ClearableSpec
INVARIANTS
    PipelineTypeOK StatusMatchesTrail TrailRecordsVotes QueueMatchesStore
    ExecutionAuthorized OneActionPerEvent
PROPERTIES NoSilentChange
