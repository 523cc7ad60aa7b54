-------------------------- MODULE MCAuthSessions --------------------------
(* Instances of AuthSessions for TLC.  Request slots and token ids are     *)
(* interchangeable: no action or property orders or names them.            *)
EXTENDS AuthSessions, TLC

Symmetry == Permutations(Req) \cup Permutations(Jti)

SessionKinds == {"login", "refresh", "logout", "logoutAll", "change", "unlock",
                 "active"}
PasswordKinds == {"login", "refresh", "logoutAll", "forgot", "reset", "change"}

\* Failed logins, unlocks and deactivations are explored apart from tokens and
\* password changes: no property relates the two.  A login that clears the lockout
\* and then signs across a password change is left to the proofs.
NoFailures ==
    /\ user.failedLoginAttempts = 0 /\ user.lockedUntil = 0 /\ user.isActive
    /\ streak = 0 /\ ~overtaken
    /\ \A r \in Req : req[r].pc \notin {"loginFail", "loginClear"}

NoSessions ==
    /\ user.password = 0 /\ user.sessionEpoch = 0
    /\ \A t \in tokens : t.jti = NoJti
    /\ redisUp
    /\ \A r \in Req : req[r].pc \in {"idle", "loginFail", "loginClear", "sign"}

LockoutApart == NoFailures \/ NoSessions
=============================================================================
