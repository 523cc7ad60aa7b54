\* Two requests of one client to an open and to an administrator's endpoint, with
\* disconnects, failed writes and restarts; apart from them, without audit, three
\* to the open one, with and without another endpoint's path in the query.
SPECIFICATION Spec
CONSTANTS
    Id = {r1, r2, r3}
    Client = {"one"}
    User = {"ann"}
    Nobody = "anonymous"
    Served <- TwoRoutes
    Queries <- AnyQuery
    Accounts <- SomeAccounts
    Levels = {"standard", "minimal", "off"}
    Limits = {1, 2}
    Ttl = 2
    Failures <- NotFound
    Window = 2
    MayFail = TRUE
SYMMETRY Ids
CONSTRAINT WindowsApart
INVARIANTS TypeOK TrailTruthful TrailComplete EffectsAuthorised ThrottleHolds
CHECK_DEADLOCK FALSE
