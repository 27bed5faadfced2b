CONSTANTS
    ActionIds = {a1, a2}
    Tenants = {t1}
    Events = {e1}
    ActionTypes = {ty1}
    Approvers = {ann, bob}
    Nobody = Nobody
    AnyTenant = AnyTenant
    Quorums = {1, 2}
    Threads = {th1, th2}
    Free = Free
SYMMETRY MCSymmetry
SPECIFICATION ThreadsSpec
INVARIANTS StoresAgree ResponsesCurrent
PROPERTIES ImplementsLifecycle
