--------------------------- MODULE AuthSessions ---------------------------
(***************************************************************************)
(* The session protocol of api-user for one account: login with account    *)
(* lockout, the exchange of refresh tokens, logout, logout-all, the two    *)
(* password changes, and the two stores they share.                        *)
(*                                                                         *)
(*   user      the fields of the MongoDB user document that the handlers   *)
(*             of src/auth/auth.service.ts and                             *)
(*             src/user/service/user.service.ts read or write here         *)
(*   denylist  the Redis keys revoked:refresh:<jti>, by expiry time        *)
(*   tokens    the refresh tokens signed so far (they are held by clients) *)
(*   req       one record per HTTP request in flight; a handler advances   *)
(*             by one action per awaited store operation, so every         *)
(*             interleaving of two handlers at their awaits is a behaviour *)
(*                                                                         *)
(* Abstractions.  A password is the number of password changes that led to *)
(* it.  A refresh token carries, beside its claims, the password that the  *)
(* login at the root of its refresh chain proved ("gen", not in the JWT).  *)
(* A reset token is its expiry: only the newest one can be looked up, and  *)
(* no handler keeps it after the lookup.  Time is counted in half seconds, *)
(* because JWTs and Redis expire on whole seconds and requests do not.     *)
(***************************************************************************)
EXTENDS Integers

CONSTANTS
    Req,            \* slots for concurrent HTTP requests
    Jti,            \* the token ids randomUUID() may return
    NoJti,          \* the missing jti of a token older than the denylist
    Kinds,          \* the endpoints called in this instance
    StartSession,   \* outcomes of connection.startSession(): "ok", "throws"
    MayFail,        \* whether a request may die between two steps
    MaxAttempts,    \* MAX_LOGIN_ATTEMPTS
    LockoutTicks,   \* LOCKOUT_DURATION_MINUTES, in ticks
    TokenSeconds,   \* life of a refresh token (7d), in seconds
    ResetTicks,     \* life of a reset token (24h), in ticks
    MaxTick, MaxPassword, MaxEpoch, MaxFailures   \* bounds of the instance

AllKinds == {"login", "refresh", "logout", "logoutAll", "forgot", "reset",
             "change", "unlock", "active"}

ASSUME ConstantsAssumption ==
    /\ NoJti \notin Jti
    /\ Kinds \subseteq AllKinds
    /\ StartSession \subseteq {"ok", "throws"}
    /\ MayFail \in BOOLEAN
    /\ MaxAttempts \in Nat \ {0} /\ LockoutTicks \in Nat
    /\ TokenSeconds \in Nat /\ ResetTicks \in Nat
    /\ MaxTick \in Nat /\ MaxPassword \in Nat /\ MaxEpoch \in Nat
    /\ MaxFailures \in Nat

VARIABLES user, tokens, denylist, redisUp, now, req

\* History: the jtis whose logout was confirmed; the failed logins since a
\* login or an administrator last cleared the lockout, and whether a failing
\* login was then in flight that had read the document before; whether a
\* password was saved whose bump died and no later bump made up for.
VARIABLES loggedOut, streak, overtaken, torn

stores == <<user, tokens, denylist, redisUp, now>>
history == <<loggedOut, streak, overtaken, torn>>
vars == <<stores, req, history>>

-----------------------------------------------------------------------------
(* The user document, tokens and requests                                  *)

\* 0 stands for an unset (or null) date.
User == [password : Nat, sessionEpoch : Nat, failedLoginAttempts : Nat,
         lockedUntil : Nat, isActive : BOOLEAN, resetPasswordExpires : Nat]

RefreshToken == [jti : Jti \cup {NoJti}, tv : Nat, exp : Nat, gen : Nat]

Pcs == {"idle", "loginFail", "loginClear", "refresh", "sign", "reset",
        "change", "bump"}

\* What a suspended handler still holds of the document and of the token.
Request == [pc : Pcs, gen : Nat, epoch : Nat, failed : Nat,
            active : BOOLEAN, tv : Nat, jti : Jti \cup {NoJti}]

Idle == [pc |-> "idle", gen |-> 0, epoch |-> 0, failed |-> 0,
         active |-> FALSE, tv |-> 0, jti |-> NoJti]

TicksPerSecond == 2

\* Date.now() / 1000 as jsonwebtoken truncates it.
Seconds(t) == t \div TicksPerSecond

\* jwtService.verify accepts the signature and the exp claim.
JwtValid(t) == Seconds(now) < t.exp

\* Mutant of CeilSeconds: Math.floor.
FloorSeconds(ticks) == ticks \div TicksPerSecond

\* Math.ceil of a number of seconds given in ticks.
CeilSeconds(ticks) == (ticks + (TicksPerSecond - 1)) \div TicksPerSecond

\* isJtiRevoked: EXISTS revoked:refresh:<jti>.
Denied(j) == j \in Jti /\ now < denylist[j]

\* A reachable denylist would let POST /auth/refresh exchange t now.
Acceptable(t) == /\ JwtValid(t)
                 /\ t.jti # NoJti
                 /\ ~Denied(t.jti)
                 /\ t.tv >= user.sessionEpoch

Init ==
    /\ user = [password |-> 0, sessionEpoch |-> 0, failedLoginAttempts |-> 0,
               lockedUntil |-> 0, isActive |-> TRUE,
               resetPasswordExpires |-> 0]
    /\ tokens = {[jti |-> NoJti, tv |-> 0, exp |-> TokenSeconds, gen |-> 0]}
    /\ denylist = [j \in Jti |-> 0]
    /\ redisUp = TRUE
    /\ now = 1
    /\ req = [r \in Req |-> Idle]
    /\ loggedOut = {}
    /\ streak = 0
    /\ overtaken = FALSE
    /\ torn = FALSE

Starts(r, kind) == kind \in Kinds /\ req[r].pc = "idle"

Goto(r, state) == req' = [req EXCEPT ![r] = state]

Finish(r) == Goto(r, Idle)

-----------------------------------------------------------------------------
(* Writes of the user document                                             *)

\* $inc of the durable epoch: applied by the server to the current value.
BumpSessionEpoch(u) == [u EXCEPT !.sessionEpoch = @ + 1]

\* resetPassword saves the password and drops the reset token ...
SaveResetPassword(u) ==
    [u EXCEPT !.password = @ + 1, !.resetPasswordExpires = 0]

\* ... changePassword only saves the password.
SaveChangedPassword(u) == [u EXCEPT !.password = @ + 1]

\* Mutant of FailedLogin: one failure too early.
FailedLoginEager(u, failed) ==
    [u EXCEPT !.failedLoginAttempts = failed,
              !.lockedUntil = IF failed + 1 >= MaxAttempts
                              THEN now + LockoutTicks ELSE @]

\* A failed login stores the count it computed from the document it read.
FailedLogin(u, failed) ==
    [u EXCEPT !.failedLoginAttempts = failed,
              !.lockedUntil = IF failed >= MaxAttempts
                              THEN now + LockoutTicks ELSE @]

\* Mutant of ClearLockout: one failure is forgiven.
ForgiveOne(u) ==
    [u EXCEPT !.failedLoginAttempts = @ - 1, !.lockedUntil = 0]

ClearLockout(u) == [u EXCEPT !.failedLoginAttempts = 0, !.lockedUntil = 0]

\* The lockout is cleared now: failures are counted from here on.
NewStreak ==
    /\ streak' = 0
    /\ overtaken' = \E q \in Req : req[q].pc = "loginFail"

-----------------------------------------------------------------------------
(* POST /auth/login                                                        *)

\* findByEmail, the lockout check and bcrypt on the document just read.  A
\* locked account, and a right password for a clean inactive account, are
\* answered without any further step.
LoginLookup(r, right) ==
    LET mustClear == user.failedLoginAttempts > 0 \/ user.lockedUntil # 0
    IN  /\ Starts(r, "login")
        /\ ~(user.lockedUntil > now)
        /\ right => mustClear \/ user.isActive
        /\ Goto(r, [Idle EXCEPT
                !.pc = CASE ~right -> "loginFail"
                         [] right /\ mustClear -> "loginClear"
                         [] OTHER -> "sign",
                !.gen = user.password,
                !.epoch = user.sessionEpoch,
                !.failed = user.failedLoginAttempts,
                !.active = user.isActive])
        /\ UNCHANGED <<stores, history>>

LoginFail(r) ==
    /\ req[r].pc = "loginFail"
    /\ streak < MaxFailures
    /\ user' = FailedLogin(user, req[r].failed + 1)
    /\ streak' = streak + 1
    /\ Finish(r)
    /\ UNCHANGED <<tokens, denylist, redisUp, now, loggedOut, overtaken, torn>>

\* The lockout state is reset before isActive is looked at.
LoginClear(r) ==
    /\ req[r].pc = "loginClear"
    /\ user' = ClearLockout(user)
    /\ IF req[r].active THEN Goto(r, [req[r] EXCEPT !.pc = "sign"])
                        ELSE Finish(r)
    /\ NewStreak
    /\ UNCHANGED <<tokens, denylist, redisUp, now, loggedOut, torn>>

\* Mutant of Sign: the epoch is read again when the token is signed.
SignLatestEpoch(r) ==
    /\ req[r].pc = "sign"
    /\ \E j \in Jti :
        /\ \A t \in tokens : t.jti # j
        /\ tokens' = tokens \cup
             {[jti |-> j, tv |-> user.sessionEpoch,
               exp |-> Seconds(now) + TokenSeconds, gen |-> req[r].gen]}
    /\ Finish(r)
    /\ UNCHANGED <<user, denylist, redisUp, now, history>>

\* generateAuthResponse: tv is the epoch of the document read at the start of
\* the request.
Sign(r) ==
    /\ req[r].pc = "sign"
    /\ \E j \in Jti :
        /\ \A t \in tokens : t.jti # j
        /\ tokens' = tokens \cup
             {[jti |-> j, tv |-> req[r].epoch,
               exp |-> Seconds(now) + TokenSeconds, gen |-> req[r].gen]}
    /\ Finish(r)
    /\ UNCHANGED <<user, denylist, redisUp, now, history>>

-----------------------------------------------------------------------------
(* POST /auth/refresh                                                      *)

RefreshLookup(r, t) ==
    /\ Starts(r, "refresh")
    /\ JwtValid(t)
    /\ t.jti # NoJti
    /\ Goto(r, [Idle EXCEPT !.pc = "refresh", !.gen = t.gen, !.tv = t.tv,
                            !.jti = t.jti, !.epoch = user.sessionEpoch])
    /\ UNCHANGED <<stores, history>>

\* Mutant of RefreshAllowed: a store failure is swallowed (fail-open).
RefreshFailOpen(q) == (redisUp => ~Denied(q.jti)) /\ ~(q.tv < q.epoch)

\* The exchange is allowed: the store answered, the jti is not denied and the
\* token is not older than the epoch of the document that was read.
RefreshAllowed(q) == redisUp /\ ~Denied(q.jti) /\ ~(q.tv < q.epoch)

RefreshCheck(r) ==
    /\ req[r].pc = "refresh"
    /\ RefreshAllowed(req[r])
    /\ Goto(r, [req[r] EXCEPT !.pc = "sign"])
    /\ UNCHANGED <<stores, history>>

RefreshReject(r) ==
    /\ req[r].pc = "refresh"
    /\ ~RefreshAllowed(req[r])
    /\ Finish(r)
    /\ UNCHANGED <<stores, history>>

-----------------------------------------------------------------------------
(* POST /auth/logout and /auth/logout-all                                  *)

\* revokeJti: SET revoked:refresh:<jti> EX ttl, ttl = ceil(exp - now).
Revoke(dl, t) ==
    LET ttl == CeilSeconds(TicksPerSecond * t.exp - now)
    IN  IF ttl < 1 THEN dl
        ELSE [dl EXCEPT ![t.jti] = now + TicksPerSecond * ttl]

\* Mutant of Logout: the epoch moves as in logout-all.
LogoutOfOthers(t) ==
    /\ "logout" \in Kinds
    /\ JwtValid(t) /\ t.jti # NoJti
    /\ redisUp
    /\ user.sessionEpoch < MaxEpoch
    /\ denylist' = Revoke(denylist, t)
    /\ user' = BumpSessionEpoch(user)
    /\ loggedOut' = loggedOut \cup {t.jti}
    /\ UNCHANGED <<tokens, redisUp, now, req, streak, overtaken, torn>>

\* A Redis failure propagates: the caller sees an error, nothing is written.
Logout(t) ==
    /\ "logout" \in Kinds
    /\ JwtValid(t)
    /\ t.jti # NoJti
    /\ redisUp
    /\ denylist' = Revoke(denylist, t)
    /\ loggedOut' = loggedOut \cup {t.jti}
    /\ UNCHANGED <<user, tokens, redisUp, now, req, streak, overtaken, torn>>

LogoutAll ==
    /\ "logoutAll" \in Kinds
    /\ user.sessionEpoch < MaxEpoch
    /\ user' = BumpSessionEpoch(user)
    /\ torn' = FALSE
    /\ UNCHANGED <<tokens, denylist, redisUp, now, req>>
    /\ UNCHANGED <<loggedOut, streak, overtaken>>

-----------------------------------------------------------------------------
(* Password changes                                                        *)

ForgotPassword ==
    /\ "forgot" \in Kinds
    /\ user' = [user EXCEPT !.resetPasswordExpires = now + ResetTicks]
    /\ UNCHANGED <<tokens, denylist, redisUp, now, req, history>>

\* findByResetToken by the holder of the stored token; hashing follows.
ResetLookup(r) ==
    /\ Starts(r, "reset")
    /\ user.resetPasswordExpires # 0
    /\ user.resetPasswordExpires > now
    /\ Goto(r, [Idle EXCEPT !.pc = "reset"])
    /\ UNCHANGED <<stores, history>>

\* The current password was right in the document that was read.
ChangeLookup(r) ==
    /\ Starts(r, "change")
    /\ Goto(r, [Idle EXCEPT !.pc = "change"])
    /\ UNCHANGED <<stores, history>>

\* session.withTransaction: both writes commit in one step or not at all.  A
\* concurrent write of the document makes MongoDB retry the callback, which
\* uses no state but the user id.
InTransaction(r, saved) ==
    /\ "ok" \in StartSession
    /\ user' = BumpSessionEpoch(saved)
    /\ torn' = FALSE
    /\ Finish(r)

\* The fallback of runInTransaction: the callback runs without a session, the
\* password is saved by itself and the bump follows as another write.
WithoutSession(r, saved) ==
    /\ "throws" \in StartSession
    /\ user' = saved
    /\ Goto(r, [Idle EXCEPT !.pc = "bump"])
    /\ UNCHANGED torn

RunInTransaction(r, saved) ==
    /\ user.password < MaxPassword
    /\ user.sessionEpoch < MaxEpoch
    /\ InTransaction(r, saved) \/ WithoutSession(r, saved)
    /\ UNCHANGED <<tokens, denylist, redisUp, now>>
    /\ UNCHANGED <<loggedOut, streak, overtaken>>

ResetPassword(r) ==
    req[r].pc = "reset" /\ RunInTransaction(r, SaveResetPassword(user))

\* Mutant of ChangePassword: the sessions are not revoked.
ChangePasswordOnly(r) ==
    /\ req[r].pc = "change"
    /\ user.password < MaxPassword
    /\ user' = SaveChangedPassword(user)
    /\ Finish(r)
    /\ UNCHANGED <<tokens, denylist, redisUp, now, history>>

ChangePassword(r) ==
    req[r].pc = "change" /\ RunInTransaction(r, SaveChangedPassword(user))

\* The second write of the fallback.
BumpAlone(r) ==
    /\ req[r].pc = "bump"
    /\ user' = BumpSessionEpoch(user)
    /\ torn' = FALSE
    /\ Finish(r)
    /\ UNCHANGED <<tokens, denylist, redisUp, now, loggedOut, streak, overtaken>>

-----------------------------------------------------------------------------
(* Administration, faults and time                                         *)

\* PATCH /admin/users/:id/unlock.
UnlockUser ==
    /\ "unlock" \in Kinds
    /\ user' = ClearLockout(user)
    /\ NewStreak
    /\ UNCHANGED <<tokens, denylist, redisUp, now, req, loggedOut, torn>>

\* toggleActiveUser, softDelete and verifyEmail, as far as login can tell.
SetActive(active) ==
    /\ "active" \in Kinds
    /\ user' = [user EXCEPT !.isActive = active]
    /\ UNCHANGED <<tokens, denylist, redisUp, now, req, history>>

\* A store call rejects, or the process dies: the rest of the handler is lost.
RequestFails(r) ==
    /\ MayFail
    /\ req[r].pc # "idle"
    /\ torn' = (torn \/ req[r].pc = "bump")
    /\ Finish(r)
    /\ UNCHANGED <<stores, loggedOut, streak, overtaken>>

RedisGoesDown ==
    /\ MayFail /\ redisUp
    /\ redisUp' = FALSE
    /\ UNCHANGED <<user, tokens, denylist, now, req, history>>

RedisComesUp ==
    /\ ~redisUp
    /\ redisUp' = TRUE
    /\ UNCHANGED <<user, tokens, denylist, now, req, history>>

Tick ==
    /\ now < MaxTick
    /\ now' = now + 1
    /\ UNCHANGED <<user, tokens, denylist, redisUp, req, history>>

-----------------------------------------------------------------------------

Handler(r) ==
    \/ LoginFail(r) \/ LoginClear(r) \/ Sign(r)
    \/ RefreshCheck(r) \/ RefreshReject(r)
    \/ ResetPassword(r) \/ ChangePassword(r) \/ BumpAlone(r)

Next ==
    \/ \E r \in Req :
        \/ \E right \in BOOLEAN : LoginLookup(r, right)
        \/ \E t \in tokens : RefreshLookup(r, t)
        \/ ResetLookup(r) \/ ChangeLookup(r)
        \/ Handler(r)
        \/ RequestFails(r)
    \/ \E t \in tokens : Logout(t)
    \/ LogoutAll \/ ForgotPassword \/ UnlockUser
    \/ \E active \in BOOLEAN : SetActive(active)
    \/ RedisGoesDown \/ RedisComesUp \/ Tick

Spec == Init /\ [][Next]_vars

\* Node's event loop resumes every handler whose awaited call has settled.
FairSpec == Spec /\ \A r \in Req : WF_vars(Handler(r))

-----------------------------------------------------------------------------
(* Properties                                                              *)

TypeOK ==
    /\ user \in User
    /\ tokens \subseteq RefreshToken
    /\ denylist \in [Jti -> Nat]
    /\ redisUp \in BOOLEAN
    /\ now \in Nat
    /\ req \in [Req -> Request]
    /\ loggedOut \subseteq Jti
    /\ streak \in Nat
    /\ overtaken \in BOOLEAN
    /\ torn \in BOOLEAN

\* A refresh token that POST /auth/refresh would exchange now goes back to a
\* login that proved the password in force now: no login or refresh that was in
\* flight across a password change leaves a usable session of the old password
\* behind (auth.service.ts refreshToken, resetPassword; user.service.ts
\* changePassword, S9/S14/S17).
OnlyCurrentPasswordSessions ==
    \A t \in tokens : Acceptable(t) => t.gen = user.password

\* A refresh token whose logout was answered with success is not usable again
\* before its own expiry, whatever the fraction of a second at which the
\* denylist entry was written (SessionRevocationService.revokeJti, S2/S6).
LoggedOutStaysOut ==
    \A t \in tokens : t.jti \in loggedOut => ~Acceptable(t)

\* No step of any handler, of Redis or of the clock makes a refused refresh
\* token usable again (S16: the epoch is durable and monotonic, the denylist
\* entry outlives the token).  The registry below says it for the systems with
\* transactions; this holds in all of them.
DeadStaysDead ==
    [][\A t \in tokens : ~Acceptable(t) => ~Acceptable(t)']_vars

\* refreshToken never exchanges a token whose logout was confirmed, Redis up or
\* down (S3, S11), unless that token expired between the verification of its
\* signature and the denylist lookup of the same request.
NoExchangeOfLiveLoggedOutToken ==
    [][\A r \in Req :
         /\ req[r].pc = "refresh" /\ req'[r].pc = "sign"
         /\ req[r].jti \in loggedOut
         => \A t \in tokens : t.jti = req[r].jti => ~JwtValid(t)]_vars

Usable == {t \in tokens : Acceptable(t)}

Registry == INSTANCE SessionRegistry
    WITH password <- user.password, clock <- Seconds(now),
         issued <- tokens, open <- Usable

\* With transactions the two stores, the epoch and the denylist do what one
\* registry of sessions would: a session is opened once, with the password in
\* force, and ends for good with its own logout, which ends no other one, with a
\* logout of all, a password change or its expiry (S2, S6, S9, S14, S16).
SessionsAsPromised == Registry!Spec

\* The failures counted, and those that lock the account, are consecutive: they
\* came after the last successful login or unlock (AL-01, AL-02, AL-06), however
\* concurrent logins and unlocks interleave (login's read-modify-write).
ConsecutiveFailures ==
    /\ user.failedLoginAttempts <= streak
    /\ user.lockedUntil # 0 => streak >= MaxAttempts

\* So it is unless a failing login that read the document before the lockout
\* was cleared was still to write when it was.
LockoutEarned == overtaken \/ ConsecutiveFailures

\* A session of an older password is usable.
StaleSession == \E t \in tokens : Acceptable(t) /\ t.gen # user.password

\* "If the bump fails, the password change is not committed either" (S14, S17):
\* unless a change is still between its two writes, no session of an older
\* password is usable.  The fallback of runInTransaction does not keep this.
ChangeAllOrNothing == (\A r \in Req : req[r].pc # "bump") => ~StaleSession

\* What the code keeps with transactions and without: a session of an older
\* password is usable only while a change is between its two writes, or after
\* one died there and until the next logout-all or change moves the epoch.
CredentialChangeAtomic == torn \/ ChangeAllOrNothing

\* Without transactions the sessions of the old password still die, later: the
\* bump follows the password, unless the request dies before it (the fallback of
\* runInTransaction).
OldSessionsDie == StaleSession ~> (~StaleSession \/ torn)

-----------------------------------------------------------------------------
(* Inductive strengthenings, proved in AuthSessionsProofs                  *)

\* A credential change has saved the password and not yet moved the epoch, or
\* died before it did.
HalfDone == torn \/ \E r \in Req : req[r].pc = "bump"

\* A snapshot taken at the current epoch was taken under the current password,
\* unless a credential change is half done.
Fresh(epoch, gen) ==
    /\ epoch <= user.sessionEpoch
    /\ epoch = user.sessionEpoch => gen = user.password \/ HalfDone

SlotFresh(q) ==
    /\ q.pc \in {"loginClear", "sign"} => Fresh(q.epoch, q.gen)
    /\ q.pc = "refresh" => Fresh(q.tv, q.gen) /\ q.epoch <= user.sessionEpoch

EpochInv == /\ \A t \in tokens : Fresh(t.tv, t.gen)
            /\ \A r \in Req : SlotFresh(req[r])

\* A jti names one token; its denylist entry, if any, outlives that token.
DenylistInv ==
    /\ \A t, s \in tokens : t.jti = s.jti /\ t.jti # NoJti => t = s
    /\ \A j \in Jti : denylist[j] # 0 => \E t \in tokens : t.jti = j
    /\ \A j \in loggedOut : denylist[j] # 0
    /\ \A t \in tokens : t.jti # NoJti /\ denylist[t.jti] # 0
                         => denylist[t.jti] >= TicksPerSecond * t.exp

\* What a failing login is about to store is also earned.
LockoutInv ==
    overtaken \/ /\ ConsecutiveFailures
                 /\ \A r \in Req : req[r].pc = "loginFail"
                                    => req[r].failed <= streak
=============================================================================
