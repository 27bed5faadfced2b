CONSTANTS
    Events = {e1, e2}
    Listeners = {l1, l2, l3}
    NoListener = NoListener
    MaxCalls = 3
    CallTenants = {t1}
    Workers = 1
    MaxDeferred = 2
    NoTenant = NoTenant
    ha = ha
    hb = hb
    hc = hc
    Creates = {1, 2, 3}
    Identities = {ha, hb, hc}
    Asks <- MCAsks
    Overlong = {hb}
    Pending = Pending
SPECIFICATION WaitingSpec
INVARIANTS SlowInv
PROPERTIES
    TwiceOnlyIfLate DeliversAtMostOnce NothingAfterStop DeliveryGoesOn CallersReturn
    ImplementsAtomicCreates
\* Starts, events and calls run out: the model stops there.
CHECK_DEADLOCK FALSE
