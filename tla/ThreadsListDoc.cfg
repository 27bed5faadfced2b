CONSTANTS
    ActionIds = {a1}
    Tenants = {t1}
    Events = {e1}
    ActionTypes = {ty1}
    Approvers = {ann}
    Nobody = Nobody
    AnyTenant = AnyTenant
    Quorums = {1}
    Threads = {th1, th2}
    Free = Free
SPECIFICATION ThreadsSpec
INVARIANTS ListedArePending
