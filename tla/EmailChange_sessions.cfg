\* Two concurrent requests that may die, with and without transactions, three
\* addresses, other accounts.
CONSTANTS
    Req = {r1, r2}
    Emails = {home, work, other}
    NoEmail = NoEmail
    HomeEmail = home
    Kinds <- SessionKinds
    StartSession = {"ok", "throws"}
    MayFail = TRUE
    MaxCodeAttempts = 1
    CodeTicks = 0
    ResendTicks = 1
    ConfirmTicks = 1
    RevertTicks = 0
    MaxTick = 2
    MaxCode = 1
    MaxPending = 1
    MaxEpoch = 2
SYMMETRY Symmetry
SPECIFICATION Spec
CHECK_DEADLOCK FALSE
INVARIANTS TypeOK OnlyCurrentIdentitySessions
