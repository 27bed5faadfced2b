CONSTANTS
    email = email
    phone = phone
    Requests = {r1, r2, r3}
    Identities = {email, phone}
    Hints <- MCHints
    CustomerIds = {c1, c2, c3}
    UnknownId = UnknownId
    NoCustomer = NoCustomer
    Keys = {k1, k2}
    NoKey = NoKey
SYMMETRY MCSymmetry
SPECIFICATION IngestSpec
INVARIANTS ReplayLinksNothing
\* The requests run out: the model stops there.
CHECK_DEADLOCK FALSE
