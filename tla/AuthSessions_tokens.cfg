\* Two concurrent requests, two tokens, transactions available; failed logins,
\* unlocks and deactivations apart.
CONSTANTS
    Req = {r1, r2}
    Jti = {j1, j2}
    NoJti = NoJti
    Kinds <- SessionKinds
    StartSession = {"ok"}
    MayFail = TRUE
    MaxAttempts = 2
    LockoutTicks = 2
    TokenSeconds = 2
    ResetTicks = 2
    MaxTick = 5
    MaxPassword = 2
    MaxEpoch = 2
    MaxFailures = 4
SYMMETRY Symmetry
CONSTRAINT LockoutApart
SPECIFICATION Spec
INVARIANTS TypeOK LockoutEarned LoggedOutStaysOut OnlyCurrentPasswordSessions
PROPERTIES NoExchangeOfLiveLoggedOutToken SessionsAsPromised
