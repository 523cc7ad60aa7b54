\* Two requests judge one code, read before either destroyed it.
CONSTANTS
    Req = {r1, r2}
    Emails = {home, work}
    NoEmail = NoEmail
    HomeEmail = home
    Kinds <- CodeKinds
    StartSession = {"ok"}
    MayFail = FALSE
    MaxCodeAttempts = 2
    CodeTicks = 0
    ResendTicks = 1
    ConfirmTicks = 1
    RevertTicks = 1
    MaxTick = 2
    MaxCode = 2
    MaxPending = 2
    MaxEpoch = 3
SYMMETRY Symmetry
SPECIFICATION Spec
CHECK_DEADLOCK FALSE
INVARIANTS CodeSingleUse
