CONSTANTS
    p1 = p1
    p2 = p2
    p3 = p3
    Banks = {b1, b2}
    Prompts = {p1, p2, p3}
    Near <- MCNear
    Threshold = 2
    MaxEntries = 2
    MaxClients = 4
    NoAnswer = NoAnswer
    Items <- MCItems
    RecentWindow = 1
    WarmCutoff = 1
    ColdCutoff = 3
    TopK = 2
    Now = 3
    SummaryLengths = {0, 7}
    MaxHistory = 3
    Budgets = {2, 5}
    Headers = {0, 5}
    PolicyTenants = {b1, b2}
    PolicyTypes = {"x", "y"}
    PolicyTables <- MCPolicyTables
    Askers = {c1, c2}
    EventTypes = {"system_event", "status_changed"}
    NoVerdict = NoVerdict
    MaxCalls = 3
    CallTenants = {b1, b2}
    Workers = 1
    MaxDeferred = 2
    NoTenant = NoTenant
    ActionIds = {1, 2, 3, 4, 5, 6, 7, 8}
    Tenants = {"tenant_acme_bank", "tenant_globetrek_concierge", "tenant_jefferson_credit",
               "tenant_meridian"}
    Approvers = {"compliance_alice", "risk_bob", "legal_carol", "intern"}
    Nobody = Nobody
    AnyTenant = AnyTenant
    Quorums = {1, 2}
    Events = {"demo_1", "demo_2", "jane_upload", "jane_anomaly"}
    ActionTypes = {"send_borrower_message", "notify_loan_officer", "request_document"}
    Deliveries = {1, 2}
    Arrivals <- MCArrivals
    EventTypeOf <- MCEventTypeOf
    Settings <- MCSettings
    Tables <- MCTables
    Signers = {"risk_bob"}
    MaxProposals = 1
    s1 = s1
    s2 = s2
    Sessions = {s1, s2}
    Voters = {"compliance_alice", "risk_bob", "intern"}
    MaxWipes = 2
    MaxVisits = 2
    Runs = {r1, r2}
    Files = {1, 2, 3}
    Statements <- MCStatements
SYMMETRY Alike
SPECIFICATION ServiceSpec
INVARIANTS
    DeferralsKept EvictsInStep AnswersAreOwn BriefFits HistoryKept OneAnswerPerEvent
    MessagesTrue DemoArmed SchemaWhole
PROPERTIES ImplementsRegistry
\* Clients, segments, deliveries, wipes and runs run out: the model stops there.
CHECK_DEADLOCK FALSE
