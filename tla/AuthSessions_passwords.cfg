\* Two concurrent requests and the two password changes, with transactions and
\* without, where the password and the epoch are two writes and a request may die
\* between them.  Nothing expires here.  Liveness excludes symmetry.
CONSTANTS
    Req = {r1, r2}
    Jti = {j1, j2}
    NoJti = NoJti
    Kinds <- PasswordKinds
    StartSession = {"ok", "throws"}
    MayFail = TRUE
    MaxAttempts = 2
    LockoutTicks = 1
    TokenSeconds = 2
    ResetTicks = 2
    MaxTick = 1
    MaxPassword = 2
    MaxEpoch = 2
    MaxFailures = 0
SPECIFICATION FairSpec
INVARIANTS CredentialChangeAtomic
PROPERTIES OldSessionsDie
CHECK_DEADLOCK FALSE
