\* Two concurrent requests that may die: the life of the codes and of the change,
\* with an administrator who rewrites the address.
CONSTANTS
    Req = {r1, r2}
    Emails = {home, work}
    NoEmail = NoEmail
    HomeEmail = home
    Kinds <- AllButLogins
    StartSession = {"ok"}
    MayFail = TRUE
    MaxCodeAttempts = 2
    CodeTicks = 0
    ResendTicks = 1
    ConfirmTicks = 1
    RevertTicks = 1
    MaxTick = 2
    MaxCode = 2
    MaxPending = 2
    MaxEpoch = 3
SYMMETRY Symmetry
SPECIFICATION Spec
CHECK_DEADLOCK FALSE
INVARIANTS UncontestedSingleUse UncontestedBudget
PROPERTIES RevertSticks
