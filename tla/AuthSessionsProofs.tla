------------------------ MODULE AuthSessionsProofs ------------------------
(***************************************************************************)
(* Proofs about AuthSessions, for every set of requests and token ids and  *)
(* every value of the other constants.                                     *)
(***************************************************************************)
EXTENDS AuthSessions, TLAPS

(***************************************************************************)
(* Steps that leave the type of every variable alone are proved one action *)
(* at a time; each handler changes at most the document and its own slot.  *)
(***************************************************************************)
LEMMA IdleType == Idle \in Request
BY ConstantsAssumption DEF Idle, Request, Pcs

LEMMA SecondsType == \A t \in Nat : Seconds(t) \in Nat
BY DEF Seconds, TicksPerSecond

\* A denylist entry written now is kept at least until the token expires.
LEMMA RevokeOutlivesToken ==
    ASSUME NEW exp \in Nat, NEW n \in Nat, n \div 2 < exp
    PROVE  /\ CeilSeconds(TicksPerSecond * exp - n) \in Nat
           /\ CeilSeconds(TicksPerSecond * exp - n) >= 1
           /\ n + TicksPerSecond * CeilSeconds(TicksPerSecond * exp - n)
                >= TicksPerSecond * exp
           /\ n + TicksPerSecond * CeilSeconds(TicksPerSecond * exp - n) \in Nat
BY DEF CeilSeconds, TicksPerSecond

\* Every write of the document leaves a document.
LEMMA WritesType ==
    ASSUME NEW u \in User
    PROVE  /\ BumpSessionEpoch(u) \in User
           /\ SaveResetPassword(u) \in User
           /\ SaveChangedPassword(u) \in User
           /\ ClearLockout(u) \in User
           /\ \A e \in Nat : [u EXCEPT !.resetPasswordExpires = e] \in User
           /\ \A a \in BOOLEAN : [u EXCEPT !.isActive = a] \in User
<1>1. BumpSessionEpoch(u) \in User
  BY DEF BumpSessionEpoch, User
<1>2. SaveResetPassword(u) \in User
  <2> DEFINE p == u.password + 1
  <2>1. p \in Nat
    BY DEF User
  <2>2. [u EXCEPT !.password = p, !.resetPasswordExpires = 0] \in User
    <3> HIDE DEF p
    <3> QED BY <2>1 DEF User
  <2> QED
    BY <2>2 DEF SaveResetPassword
<1>3. SaveChangedPassword(u) \in User
  BY DEF SaveChangedPassword, User
<1>4. ClearLockout(u) \in User
  BY DEF ClearLockout, User
<1>5. \A e \in Nat : [u EXCEPT !.resetPasswordExpires = e] \in User
  BY DEF User
<1>6. \A a \in BOOLEAN : [u EXCEPT !.isActive = a] \in User
  BY DEF User
<1> QED
  BY <1>1, <1>2, <1>3, <1>4, <1>5, <1>6

LEMMA FailedLoginType ==
    ASSUME NEW u \in User, NEW f \in Nat, now \in Nat
    PROVE  FailedLogin(u, f) \in User
<1> DEFINE l == IF f >= MaxAttempts THEN now + LockoutTicks ELSE u.lockedUntil
<1>1. l \in Nat
  BY ConstantsAssumption DEF User
<1>2. [u EXCEPT !.failedLoginAttempts = f, !.lockedUntil = l] \in User
  <2> HIDE DEF l
  <2> QED BY <1>1 DEF User
<1> QED
  BY <1>2 DEF FailedLogin

LEMMA SlotType ==
    ASSUME req \in [Req -> Request], NEW r \in Req, NEW q \in Request, Goto(r, q)
    PROVE  req' \in [Req -> Request]
BY DEF Goto

LEMMA WaitingType ==
    /\ [Idle EXCEPT !.pc = "reset"] \in Request
    /\ [Idle EXCEPT !.pc = "change"] \in Request
    /\ [Idle EXCEPT !.pc = "bump"] \in Request
    /\ \A q \in Request : [q EXCEPT !.pc = "sign"] \in Request
<1>1. \A p \in Pcs, q \in Request : [q EXCEPT !.pc = p] \in Request
  BY DEF Request
<1> QED
  BY <1>1, IdleType DEF Pcs

LEMMA TypeStep == TypeOK /\ [Next]_vars => TypeOK'
<1> SUFFICES ASSUME TypeOK, [Next]_vars PROVE TypeOK'
  OBVIOUS
<1> USE DEF TypeOK
<1>1. ASSUME NEW r \in Req, NEW right \in BOOLEAN, LoginLookup(r, right)
      PROVE  TypeOK'
  BY <1>1, IdleType DEF LoginLookup, Goto, Idle, stores, history, User, Request, Pcs
<1>2. ASSUME NEW r \in Req, NEW t \in tokens, RefreshLookup(r, t)
      PROVE  TypeOK'
  BY <1>2, IdleType DEF RefreshLookup, Goto, Idle, stores, history, User,
                        RefreshToken, Request, Pcs
<1>3. ASSUME NEW r \in Req, ResetLookup(r) \/ ChangeLookup(r)
      PROVE  TypeOK'
  <2>1. req' \in [Req -> Request]
    BY <1>3, SlotType, WaitingType DEF ResetLookup, ChangeLookup
  <2> QED
    BY <1>3, <2>1 DEF ResetLookup, ChangeLookup, stores, history
<1>4. ASSUME NEW r \in Req, LoginFail(r) PROVE TypeOK'
  <2>1. req' \in [Req -> Request]
    BY <1>4, SlotType, IdleType DEF LoginFail, Finish
  <2>2. req[r].failed + 1 \in Nat
    BY DEF Request
  <2>3. user' \in User
    BY <1>4, <2>2, FailedLoginType DEF LoginFail
  <2> QED
    BY <1>4, <2>1, <2>3 DEF LoginFail
<1>5. ASSUME NEW r \in Req, LoginClear(r) PROVE TypeOK'
  <2>1. req' \in [Req -> Request]
    BY <1>5, SlotType, IdleType, WaitingType DEF LoginClear, Finish
  <2>2. user' \in User
    BY <1>5, WritesType DEF LoginClear
  <2>3. streak' \in Nat /\ overtaken' \in BOOLEAN
    BY <1>5 DEF LoginClear, NewStreak
  <2> QED
    BY <1>5, <2>1, <2>2, <2>3 DEF LoginClear
<1>6. ASSUME NEW r \in Req, Sign(r) PROVE TypeOK'
  <2>1. req' \in [Req -> Request]
    BY <1>6, SlotType, IdleType DEF Sign, Finish
  <2>2. tokens' \subseteq RefreshToken
    BY <1>6, SecondsType, ConstantsAssumption DEF Sign, RefreshToken, Request
  <2> QED
    BY <1>6, <2>1, <2>2 DEF Sign, history
<1>7. ASSUME NEW r \in Req, RefreshCheck(r) \/ RefreshReject(r) \/ RequestFails(r)
      PROVE  TypeOK'
  <2>1. req' \in [Req -> Request]
    BY <1>7, SlotType, IdleType, WaitingType
       DEF RefreshCheck, RefreshReject, RequestFails, Finish
  <2>2. torn' \in BOOLEAN
    BY <1>7 DEF RefreshCheck, RefreshReject, RequestFails, history
  <2> QED
    BY <1>7, <2>1, <2>2
       DEF RefreshCheck, RefreshReject, RequestFails, stores, history
<1>8. ASSUME NEW r \in Req, ResetPassword(r) \/ ChangePassword(r)
      PROVE  TypeOK'
  <2>1. req' \in [Req -> Request]
    BY <1>8, SlotType, IdleType, WaitingType
       DEF ResetPassword, ChangePassword, RunInTransaction, InTransaction,
           WithoutSession, Finish
  <2>2. user' \in User
    BY <1>8, WritesType
       DEF ResetPassword, ChangePassword, RunInTransaction, InTransaction,
           WithoutSession
  <2>3. torn' \in BOOLEAN
    BY <1>8 DEF ResetPassword, ChangePassword, RunInTransaction, InTransaction,
       WithoutSession
  <2> QED
    BY <1>8, <2>1, <2>2, <2>3
       DEF ResetPassword, ChangePassword, RunInTransaction
<1>9. ASSUME NEW r \in Req, BumpAlone(r) PROVE TypeOK'
  <2>1. req' \in [Req -> Request]
    BY <1>9, SlotType, IdleType DEF BumpAlone, Finish
  <2>2. user' \in User
    BY <1>9, WritesType DEF BumpAlone
  <2> QED
    BY <1>9, <2>1, <2>2 DEF BumpAlone, history
<1>10. ASSUME NEW t \in tokens, Logout(t) PROVE TypeOK'
  <2>1. t.jti \in Jti /\ t.exp \in Nat
    BY <1>10 DEF Logout, RefreshToken
  <2>2. now + TicksPerSecond * CeilSeconds(TicksPerSecond * t.exp - now) \in Nat
    BY <1>10, <2>1, RevokeOutlivesToken DEF Logout, JwtValid, Seconds, TicksPerSecond
  <2>3. denylist' \in [Jti -> Nat]
    BY <1>10, <2>1, <2>2 DEF Logout, Revoke
  <2> QED
    BY <1>10, <2>1, <2>3 DEF Logout
<1>11. CASE LogoutAll
  <2>1. user' \in User
    BY <1>11, WritesType DEF LogoutAll
  <2> QED
    BY <1>11, <2>1 DEF LogoutAll
<1>18. CASE UnlockUser
  <2>1. user' \in User
    BY <1>18, WritesType DEF UnlockUser
  <2>2. streak' \in Nat
    BY <1>18 DEF UnlockUser, NewStreak
  <2>3. overtaken' \in BOOLEAN
    BY <1>18 DEF UnlockUser, NewStreak
  <2> QED
    BY <1>18, <2>1, <2>2, <2>3 DEF UnlockUser
<1>12. CASE ForgotPassword
  <2>1. now + ResetTicks \in Nat
    BY ConstantsAssumption
  <2>2. user' \in User
    BY <1>12, <2>1, WritesType DEF ForgotPassword
  <2> QED
    BY <1>12, <2>2 DEF ForgotPassword, history
<1>13. ASSUME NEW active \in BOOLEAN, SetActive(active) PROVE TypeOK'
  <2>1. user' \in User
    BY <1>13, WritesType DEF SetActive
  <2> QED
    BY <1>13, <2>1 DEF SetActive, history
<1>14. CASE RedisGoesDown
  BY <1>14 DEF RedisGoesDown, history
<1>15. CASE RedisComesUp
  BY <1>15 DEF RedisComesUp, history
<1>16. CASE Tick
  BY <1>16 DEF Tick, history
<1>17. CASE UNCHANGED vars
  BY <1>17 DEF vars, stores, history
<1> QED
  BY <1>1, <1>2, <1>3, <1>4, <1>5, <1>6, <1>7, <1>8, <1>9, <1>10, <1>11,
     <1>12, <1>13, <1>14, <1>15, <1>16, <1>17, <1>18 DEF Next, Handler

LEMMA TypeInit == Init => TypeOK
<1> SUFFICES ASSUME Init PROVE TypeOK
  OBVIOUS
<1>1. user \in User
  BY DEF Init, User
<1>2. tokens \subseteq RefreshToken
  BY ConstantsAssumption DEF Init, RefreshToken
<1>3. denylist \in [Jti -> Nat] /\ req \in [Req -> Request]
  BY IdleType DEF Init
<1>4. redisUp \in BOOLEAN /\ overtaken \in BOOLEAN /\ torn \in BOOLEAN
  BY DEF Init
<1>5. now \in Nat /\ streak \in Nat /\ loggedOut \subseteq Jti
  BY DEF Init
<1> QED
  BY <1>1, <1>2, <1>3, <1>4, <1>5 DEF TypeOK

\* Every variable keeps its type: dates and counters never go below zero and a
\* suspended handler holds a complete snapshot.
THEOREM TypeCorrect == Spec => []TypeOK
BY TypeInit, TypeStep, PTL DEF Spec

-----------------------------------------------------------------------------
(***************************************************************************)
(* Sessions of an old password.  The invariant is EpochInv: a token or a   *)
(* suspended handler that carries the current epoch carries the current    *)
(* password, unless a credential change is half done.  A step leaves epoch *)
(* and password alone, or moves the epoch past every snapshot, or leaves a *)
(* change half done, whose other half will move the epoch.                 *)
(***************************************************************************)
DocumentKept == user'.sessionEpoch = user.sessionEpoch /\ user'.password = user.password
EpochMoved == user'.sessionEpoch = user.sessionEpoch + 1
StillHalfDone == HalfDone => HalfDone'

Harmless == \/ DocumentKept /\ StillHalfDone
            \/ EpochMoved
            \/ user'.sessionEpoch = user.sessionEpoch /\ HalfDone'

LEMMA FreshKept ==
    ASSUME TypeOK, Harmless, NEW e \in Nat, NEW g \in Nat, Fresh(e, g)
    PROVE  Fresh(e, g)'
<1>1. user.sessionEpoch \in Nat /\ user.password \in Nat
  BY DEF TypeOK, User
<1>2. CASE DocumentKept /\ StillHalfDone
  BY <1>1, <1>2 DEF DocumentKept, StillHalfDone, Fresh
<1>3. CASE EpochMoved
  BY <1>1, <1>3 DEF EpochMoved, Fresh
<1>4. CASE user'.sessionEpoch = user.sessionEpoch /\ HalfDone'
  BY <1>1, <1>4 DEF Fresh
<1> QED
  BY <1>2, <1>3, <1>4 DEF Harmless

\* A step of a handler that is not between the two writes.
LEMMA HalfKept ==
    ASSUME TypeOK, NEW r \in Req, NEW q, Goto(r, q), req[r].pc # "bump",
           torn => torn'
    PROVE  StillHalfDone
BY DEF TypeOK, Goto, StillHalfDone, HalfDone

LEMMA HarmlessStep ==
    ASSUME TypeOK, DocumentKept, NEW r \in Req, NEW q, Goto(r, q),
           req[r].pc # "bump", torn => torn'
    PROVE  Harmless
BY HalfKept DEF Harmless

LEMMA HarmlessIfIdle ==
    ASSUME DocumentKept, UNCHANGED <<req, torn>>
    PROVE  Harmless
BY DEF Harmless, StillHalfDone, HalfDone

\* A slot that a step leaves alone stays fresh.
LEMMA SlotKept ==
    ASSUME TypeOK, Harmless,
           NEW r \in Req, req'[r] = req[r], SlotFresh(req[r])
    PROVE  SlotFresh(req[r])'
<1>1. /\ req[r].epoch \in Nat /\ req[r].gen \in Nat /\ req[r].tv \in Nat
      /\ user.sessionEpoch \in Nat
  BY DEF TypeOK, Request, User
<1>2. user'.sessionEpoch = user.sessionEpoch
        \/ user'.sessionEpoch = user.sessionEpoch + 1
  BY DEF Harmless, DocumentKept, EpochMoved
<1>3. \A e, g \in Nat : Fresh(e, g) => Fresh(e, g)'
  BY FreshKept
<1> QED
  BY <1>1, <1>2, <1>3 DEF SlotFresh

LEMMA EpochKept ==
    ASSUME TypeOK, EpochInv, tokens' = tokens, Harmless,
           \A r \in Req : req'[r] = req[r] \/ SlotFresh(req[r])'
    PROVE  EpochInv'
<1>1. ASSUME NEW t \in tokens PROVE Fresh(t.tv, t.gen)'
  <2>1. t.tv \in Nat /\ t.gen \in Nat /\ Fresh(t.tv, t.gen)
    BY DEF TypeOK, RefreshToken, EpochInv
  <2> QED
    BY <2>1, FreshKept
<1>2. ASSUME NEW r \in Req PROVE SlotFresh(req[r])'
  BY SlotKept DEF EpochInv
<1> QED
  BY <1>1, <1>2 DEF EpochInv

\* A handler that ends, or waits without a snapshot, owes nothing.
LEMMA EmptySlot ==
    ASSUME TypeOK, NEW r \in Req, NEW p \in {"idle", "reset", "change"},
           req' = [req EXCEPT ![r] = [Idle EXCEPT !.pc = p]]
    PROVE  \A q \in Req : req'[q] = req[q] \/ SlotFresh(req[q])'
BY DEF TypeOK, Idle, SlotFresh

LEMMA FinishedSlot ==
    ASSUME TypeOK, NEW r \in Req, Finish(r)
    PROVE  \A q \in Req : req'[q] = req[q] \/ SlotFresh(req[q])'
BY DEF TypeOK, Finish, Goto, Idle, SlotFresh

LEMMA EpochStep ==
    ASSUME TypeOK, EpochInv, [Next]_vars
    PROVE  EpochInv'
<1>1. ASSUME NEW r \in Req, NEW right \in BOOLEAN, LoginLookup(r, right)
      PROVE  EpochInv'
  <2>1. DocumentKept /\ tokens' = tokens
    BY <1>1 DEF LoginLookup, stores, DocumentKept
  <2>2. Harmless
    BY <1>1, <2>1, HarmlessStep DEF LoginLookup, Starts, history
  <2>3. \A q \in Req : req'[q] = req[q] \/ SlotFresh(req[q])'
    BY <1>1 DEF LoginLookup, Goto, Idle, stores, TypeOK, User, SlotFresh, Fresh
  <2> QED
    BY <2>1, <2>2, <2>3, EpochKept
<1>2. ASSUME NEW r \in Req, NEW t \in tokens, RefreshLookup(r, t)
      PROVE  EpochInv'
  <2>1. DocumentKept /\ tokens' = tokens
    BY <1>2 DEF RefreshLookup, stores, DocumentKept
  <2>2. Harmless
    BY <1>2, <2>1, HarmlessStep DEF RefreshLookup, Starts, history
  <2>3. Fresh(t.tv, t.gen)'
    <3>1. t.tv \in Nat /\ t.gen \in Nat /\ Fresh(t.tv, t.gen)
      BY DEF TypeOK, RefreshToken, EpochInv
    <3> QED
      BY <2>2, <3>1, FreshKept
  <2>4. \A q \in Req : req'[q] = req[q] \/ SlotFresh(req[q])'
    BY <1>2, <2>3 DEF RefreshLookup, Goto, Idle, stores, TypeOK, User, SlotFresh
  <2> QED
    BY <2>1, <2>2, <2>4, EpochKept
<1>3. ASSUME NEW r \in Req, ResetLookup(r) \/ ChangeLookup(r)
      PROVE  EpochInv'
  <2>1. DocumentKept /\ tokens' = tokens
    BY <1>3 DEF ResetLookup, ChangeLookup, stores, DocumentKept
  <2>2. Harmless
    BY <1>3, <2>1, HarmlessStep DEF ResetLookup, ChangeLookup, Starts, history
  <2> QED
    BY <1>3, <2>1, <2>2, EmptySlot, EpochKept DEF ResetLookup, ChangeLookup, Goto
<1>4. ASSUME NEW r \in Req, LoginFail(r) PROVE EpochInv'
  <2>1. DocumentKept /\ tokens' = tokens
    BY <1>4 DEF LoginFail, FailedLogin, DocumentKept, TypeOK, User
  <2>2. Harmless
    BY <1>4, <2>1, HarmlessStep DEF LoginFail, Finish
  <2> QED
    BY <1>4, <2>1, <2>2, FinishedSlot, EpochKept DEF LoginFail
<1>5. ASSUME NEW r \in Req, LoginClear(r) PROVE EpochInv'
  <2>1. DocumentKept /\ tokens' = tokens
    BY <1>5 DEF LoginClear, ClearLockout, DocumentKept, TypeOK, User
  <2>2. Harmless
    BY <1>5, <2>1, HarmlessStep DEF LoginClear, Finish
  <2>3. CASE req[r].active
    <3>1. req' = [req EXCEPT ![r] = [req[r] EXCEPT !.pc = "sign"]]
      BY <1>5, <2>3 DEF LoginClear, Goto
    <3>2. Fresh(req[r].epoch, req[r].gen)'
      <4>1. Fresh(req[r].epoch, req[r].gen)
        BY <1>5 DEF LoginClear, EpochInv, SlotFresh
      <4>2. req'[r].epoch = req[r].epoch /\ req'[r].gen = req[r].gen
        BY <3>1 DEF TypeOK, Request
      <4>3. req[r].epoch \in Nat /\ req[r].gen \in Nat
        BY DEF TypeOK, Request
      <4> QED
        BY <2>2, <4>1, <4>2, <4>3, FreshKept
    <3>3. \A q \in Req : req'[q] = req[q] \/ SlotFresh(req[q])'
      BY <3>1, <3>2 DEF TypeOK, Request, SlotFresh
    <3> QED
      BY <2>1, <2>2, <3>3, EpochKept
  <2>4. CASE ~req[r].active
    BY <1>5, <2>1, <2>2, <2>4, FinishedSlot, EpochKept DEF LoginClear
  <2> QED
    BY <2>3, <2>4
<1>6. ASSUME NEW r \in Req, Sign(r) PROVE EpochInv'
  <2>1. DocumentKept
    BY <1>6 DEF Sign, DocumentKept
  <2>2. Harmless
    BY <1>6, <2>1, HarmlessStep DEF Sign, Finish, history
  <2>3. /\ Fresh(req[r].epoch, req[r].gen)
        /\ req[r].epoch \in Nat /\ req[r].gen \in Nat
    BY <1>6 DEF Sign, EpochInv, SlotFresh, TypeOK, Request
  <2>4. ASSUME NEW t \in tokens' PROVE Fresh(t.tv, t.gen)'
    <3>1. t \in tokens \/ (t.tv = req[r].epoch /\ t.gen = req[r].gen)
      BY <1>6 DEF Sign
    <3>2. Fresh(t.tv, t.gen) /\ t.tv \in Nat /\ t.gen \in Nat
      BY <2>3, <3>1 DEF EpochInv, TypeOK, RefreshToken
    <3> QED
      BY <2>2, <3>2, FreshKept
  <2>5. ASSUME NEW q \in Req PROVE SlotFresh(req[q])'
    BY <1>6, <2>2, FinishedSlot, SlotKept DEF Sign, EpochInv
  <2> QED
    BY <2>4, <2>5 DEF EpochInv
<1>7. ASSUME NEW r \in Req, RefreshCheck(r) PROVE EpochInv'
  <2>1. DocumentKept /\ tokens' = tokens
    BY <1>7 DEF RefreshCheck, stores, DocumentKept
  <2>2. Harmless
    BY <1>7, <2>1, HarmlessStep DEF RefreshCheck, history
  <2>3. SlotFresh(req[r]) /\ req[r].pc = "refresh" /\ ~(req[r].tv < req[r].epoch)
    BY <1>7 DEF RefreshCheck, RefreshAllowed, EpochInv
  <2>9. /\ req[r].epoch \in Nat /\ req[r].gen \in Nat /\ req[r].tv \in Nat
        /\ user.sessionEpoch \in Nat
    BY DEF TypeOK, Request, User
  <2>10. Fresh(req[r].tv, req[r].gen) /\ req[r].epoch <= user.sessionEpoch
    BY <2>3 DEF SlotFresh
  <2>4. Fresh(req[r].epoch, req[r].gen)
    BY <2>3, <2>9, <2>10 DEF Fresh
  <2>5. req' = [req EXCEPT ![r] = [req[r] EXCEPT !.pc = "sign"]]
    BY <1>7 DEF RefreshCheck, Goto
  <2>6. /\ req'[r].epoch = req[r].epoch /\ req'[r].gen = req[r].gen
        /\ req'[r].pc = "sign"
    BY <2>5 DEF TypeOK, Request
  <2>7. Fresh(req[r].epoch, req[r].gen)'
    BY <2>2, <2>4, <2>6, <2>9, FreshKept
  <2>8. \A q \in Req : req'[q] = req[q] \/ SlotFresh(req[q])'
    BY <2>5, <2>6, <2>7 DEF TypeOK, SlotFresh
  <2> QED
    BY <2>1, <2>2, <2>8, EpochKept
<1>8. ASSUME NEW r \in Req, RefreshReject(r) \/ RequestFails(r) PROVE EpochInv'
  <2>1. DocumentKept /\ tokens' = tokens /\ Finish(r)
    BY <1>8 DEF RefreshReject, RequestFails, stores, DocumentKept
  <2>2. StillHalfDone
    <3>1. CASE req[r].pc # "bump"
      <4>1. torn => torn'
        BY <1>8 DEF RefreshReject, RequestFails, history
      <4> QED
        BY <2>1, <3>1, <4>1, HalfKept DEF Finish
    <3>2. CASE req[r].pc = "bump"
      <4>1. RequestFails(r)
        BY <1>8, <3>2 DEF RefreshReject
      <4>2. torn'
        BY <3>2, <4>1 DEF RequestFails
      <4> QED
        BY <4>2 DEF StillHalfDone, HalfDone
    <3> QED
      BY <3>1, <3>2
  <2>3. Harmless
    BY <2>1, <2>2 DEF Harmless
  <2> QED
    BY <2>1, <2>3, FinishedSlot, EpochKept
<1>9. ASSUME NEW r \in Req, ResetPassword(r) \/ ChangePassword(r)
      PROVE  EpochInv'
  <2>1. PICK saved \in {SaveResetPassword(user), SaveChangedPassword(user)} :
          RunInTransaction(r, saved)
    BY <1>9 DEF ResetPassword, ChangePassword
  <2>2. tokens' = tokens
    BY <2>1 DEF RunInTransaction
  <2>3. saved \in User /\ saved.sessionEpoch = user.sessionEpoch
    <3>1. user \in User
      BY DEF TypeOK
    <3>2. \A p : [user EXCEPT !.password = p, !.resetPasswordExpires = 0]
                   .sessionEpoch = user.sessionEpoch
      BY <3>1 DEF User
    <3>3. \A p : [user EXCEPT !.password = p].sessionEpoch = user.sessionEpoch
      BY <3>1 DEF User
    <3>4. /\ SaveResetPassword(user).sessionEpoch = user.sessionEpoch
          /\ SaveChangedPassword(user).sessionEpoch = user.sessionEpoch
      BY <3>2, <3>3 DEF SaveResetPassword, SaveChangedPassword
    <3> QED
      BY <3>1, <3>4, WritesType
  <2>4. CASE InTransaction(r, saved)
    <3>1. Harmless
      BY <2>3, <2>4
         DEF InTransaction, BumpSessionEpoch, EpochMoved, Harmless, User
    <3> QED
      BY <2>2, <2>4, <3>1, FinishedSlot, EpochKept DEF InTransaction
  <2>5. CASE WithoutSession(r, saved)
    <3>1. req' = [req EXCEPT ![r] = [Idle EXCEPT !.pc = "bump"]]
      BY <2>5 DEF WithoutSession, Goto
    <3>2. req'[r].pc = "bump"
      BY <3>1 DEF TypeOK, Idle
    <3>3. Harmless
      BY <2>3, <2>5, <3>2 DEF WithoutSession, Harmless, HalfDone
    <3>4. \A q \in Req : req'[q] = req[q] \/ SlotFresh(req[q])'
      BY <3>1, <3>2 DEF TypeOK, SlotFresh
    <3> QED
      BY <2>2, <3>3, <3>4, EpochKept
  <2> QED
    BY <2>1, <2>4, <2>5 DEF RunInTransaction
<1>10. ASSUME NEW r \in Req, BumpAlone(r) PROVE EpochInv'
  <2>1. Finish(r) /\ tokens' = tokens
    BY <1>10 DEF BumpAlone
  <2>2. Harmless
    BY <1>10
       DEF BumpAlone, BumpSessionEpoch, EpochMoved, Harmless, TypeOK, User
  <2> QED
    BY <2>1, <2>2, FinishedSlot, EpochKept
<1>11. CASE LogoutAll
  <2>1. Harmless /\ tokens' = tokens /\ req' = req
    BY <1>11
       DEF LogoutAll, BumpSessionEpoch, EpochMoved, Harmless, TypeOK, User
  <2> QED
    BY <2>1, EpochKept
<1>12. CASE \/ \E t \in tokens : Logout(t)
            \/ ForgotPassword \/ UnlockUser
            \/ \E active \in BOOLEAN : SetActive(active)
  <2>1. DocumentKept /\ tokens' = tokens /\ UNCHANGED <<req, torn>>
    BY <1>12 DEF Logout, ForgotPassword, UnlockUser, ClearLockout, SetActive,
                 DocumentKept, TypeOK, User, history
  <2> QED
    BY <2>1, HarmlessIfIdle, EpochKept
<1>13. CASE RedisGoesDown \/ RedisComesUp \/ Tick \/ UNCHANGED vars
  <2>1. DocumentKept /\ tokens' = tokens /\ UNCHANGED <<req, torn>>
    BY <1>13 DEF RedisGoesDown, RedisComesUp, Tick, vars, stores, history,
                 DocumentKept
  <2> QED
    BY <2>1, HarmlessIfIdle, EpochKept
<1> QED
  BY <1>1, <1>2, <1>3, <1>4, <1>5, <1>6, <1>7, <1>8, <1>9, <1>10, <1>11,
     <1>12, <1>13 DEF Next, Handler

LEMMA EpochInit == Init => EpochInv
BY DEF Init, EpochInv, SlotFresh, Fresh, Idle

LEMMA EpochImplies ==
    TypeOK /\ EpochInv /\ ~HalfDone => OnlyCurrentPasswordSessions
BY DEF TypeOK, EpochInv, Fresh, User, RefreshToken,
       OnlyCurrentPasswordSessions, Acceptable

\* With transactions no change is ever half done.
LEMMA WholeStep ==
    ASSUME "throws" \notin StartSession, TypeOK, ~HalfDone, [Next]_vars
    PROVE  ~HalfDone'
<1>1. ~torn /\ \A r \in Req : req[r].pc # "bump"
  BY DEF HalfDone
<1>2. ASSUME NEW r \in Req, NEW q, Goto(r, q), q.pc # "bump", ~torn'
      PROVE  ~HalfDone'
  BY <1>1, <1>2 DEF Goto, TypeOK, HalfDone
<1>3. Idle.pc = "idle"
  BY DEF Idle
<1>4. ASSUME NEW r \in Req, Finish(r), ~torn' PROVE ~HalfDone'
  BY <1>2, <1>3, <1>4 DEF Finish
<1>5. ASSUME NEW r \in Req, NEW right \in BOOLEAN, LoginLookup(r, right)
      PROVE  ~HalfDone'
  BY <1>1, <1>5 DEF LoginLookup, Goto, Idle, TypeOK, HalfDone, history
<1>6. ASSUME NEW r \in Req, NEW t \in tokens, RefreshLookup(r, t)
      PROVE  ~HalfDone'
  BY <1>1, <1>6 DEF RefreshLookup, Goto, Idle, TypeOK, HalfDone, history
<1>7. ASSUME NEW r \in Req,
             ResetLookup(r) \/ ChangeLookup(r) \/ LoginClear(r) \/ RefreshCheck(r)
      PROVE  ~HalfDone'
  BY <1>1, <1>7 DEF ResetLookup, ChangeLookup, LoginClear, RefreshCheck, Finish,
     Goto, Idle, TypeOK, Request, HalfDone, history
<1>8. ASSUME NEW r \in Req,
             \/ LoginFail(r) \/ Sign(r) \/ RefreshReject(r) \/ RequestFails(r)
             \/ ResetPassword(r) \/ ChangePassword(r) \/ BumpAlone(r)
      PROVE  ~HalfDone'
  <2>1. Finish(r)
    BY <1>8 DEF LoginFail, Sign, RefreshReject, RequestFails, ResetPassword,
       ChangePassword, RunInTransaction, InTransaction, WithoutSession, BumpAlone
  <2>2. ~torn'
    BY <1>1, <1>8 DEF LoginFail, Sign, RefreshReject, RequestFails,
       ResetPassword, ChangePassword, RunInTransaction, InTransaction,
       WithoutSession, BumpAlone, history
  <2> QED
    BY <1>4, <2>1, <2>2
<1>9. CASE \/ \E t \in tokens : Logout(t)
           \/ LogoutAll \/ ForgotPassword \/ UnlockUser
           \/ \E active \in BOOLEAN : SetActive(active)
           \/ RedisGoesDown \/ RedisComesUp \/ Tick \/ UNCHANGED vars
  <2>1. req' = req /\ ~torn'
    BY <1>1, <1>9 DEF Logout, LogoutAll, ForgotPassword, UnlockUser, SetActive,
       RedisGoesDown, RedisComesUp, Tick, vars, history
  <2> QED
    BY <1>1, <2>1 DEF HalfDone
<1> QED
  BY <1>5, <1>6, <1>7, <1>8, <1>9 DEF Next, Handler

LEMMA WholeInit == Init => ~HalfDone
BY DEF Init, HalfDone, Idle

\* Where connection.startSession() works, no usable refresh token was obtained
\* with an older password, whatever is in flight when the password changes.
THEOREM CurrentPasswordOnly ==
    ASSUME "throws" \notin StartSession
    PROVE  Spec => []OnlyCurrentPasswordSessions
<1>1. TypeOK /\ EpochInv /\ ~HalfDone /\ [Next]_vars
        => (TypeOK /\ EpochInv /\ ~HalfDone)'
  BY TypeStep, EpochStep, WholeStep
<1> QED
  BY TypeInit, EpochInit, WholeInit, <1>1, EpochImplies, PTL DEF Spec

\* With transactions and without, and whichever request dies: no session of an
\* older password is usable once no change is between its two writes, unless one
\* died there and no bump has come since.  Neither a login nor an exchange that
\* read the document between the two writes, nor a second change at the same
\* time, keeps such a session alive.
THEOREM ChangeIsAtomic == Spec => []CredentialChangeAtomic
<1>1. TypeOK /\ EpochInv => CredentialChangeAtomic
  <2> SUFFICES ASSUME TypeOK, EpochInv, ~torn,
                      \A r \in Req : req[r].pc # "bump"
               PROVE  ~StaleSession
    BY DEF CredentialChangeAtomic, ChangeAllOrNothing
  <2>1. ~HalfDone
    BY DEF HalfDone
  <2> QED
    BY <2>1, EpochImplies DEF StaleSession, OnlyCurrentPasswordSessions
<1>2. TypeOK /\ EpochInv /\ [Next]_vars => (TypeOK /\ EpochInv)'
  BY TypeStep, EpochStep
<1> QED
  BY TypeInit, EpochInit, <1>1, <1>2, PTL DEF Spec

-----------------------------------------------------------------------------
(***************************************************************************)
(* Revoked tokens.  DenylistInv ties a denylist entry to the one token it  *)
(* denies and to that token's expiry; only Sign and Logout can disturb it. *)
(***************************************************************************)
RevocationsKept == tokens' = tokens /\ denylist' = denylist /\ loggedOut' = loggedOut

\* Every step but a signature and a logout leaves tokens and denylist alone.
LEMMA RevocationsChange ==
    ASSUME [Next]_vars
    PROVE  \/ RevocationsKept
           \/ \E r \in Req : Sign(r)
           \/ \E t \in tokens : Logout(t)
BY DEF Next, Handler, LoginLookup, RefreshLookup, ResetLookup, ChangeLookup,
       LoginFail, LoginClear, RefreshCheck, RefreshReject, ResetPassword,
       ChangePassword, RunInTransaction, BumpAlone, RequestFails, LogoutAll,
       ForgotPassword, UnlockUser, SetActive, RedisGoesDown, RedisComesUp,
       Tick, vars, stores, history, RevocationsKept

LEMMA DenylistStep == TypeOK /\ DenylistInv /\ [Next]_vars => DenylistInv'
<1> SUFFICES ASSUME TypeOK, DenylistInv, [Next]_vars PROVE DenylistInv'
  OBVIOUS
<1>1. CASE RevocationsKept
  BY <1>1 DEF RevocationsKept, DenylistInv
<1>2. ASSUME NEW r \in Req, Sign(r) PROVE DenylistInv'
  <2>1. PICK j \in Jti :
          /\ \A t \in tokens : t.jti # j
          /\ tokens' = tokens \cup
               {[jti |-> j, tv |-> req[r].epoch,
                 exp |-> Seconds(now) + TokenSeconds, gen |-> req[r].gen]}
    BY <1>2 DEF Sign
  <2>2. denylist' = denylist /\ loggedOut' = loggedOut
    BY <1>2 DEF Sign, history
  <2>3. denylist[j] = 0
    BY <2>1 DEF DenylistInv
  <2> QED
    BY <2>1, <2>2, <2>3 DEF DenylistInv
<1>3. ASSUME NEW t \in tokens, Logout(t) PROVE DenylistInv'
  <2> DEFINE until ==
        now + TicksPerSecond * CeilSeconds(TicksPerSecond * t.exp - now)
  <2>1. t.jti \in Jti /\ t.exp \in Nat
    BY <1>3 DEF Logout, TypeOK, RefreshToken
  <2>2. /\ CeilSeconds(TicksPerSecond * t.exp - now) >= 1
        /\ until >= TicksPerSecond * t.exp /\ until \in Nat
        /\ CeilSeconds(TicksPerSecond * t.exp - now) \in Nat
    BY <1>3, <2>1, RevokeOutlivesToken
       DEF Logout, JwtValid, Seconds, TicksPerSecond, TypeOK
  <2>3. until # 0
    BY <2>1, <2>2, now \in Nat DEF TypeOK, TicksPerSecond
  <2>4. denylist' = [denylist EXCEPT ![t.jti] = until]
    BY <1>3, <2>2 DEF Logout, Revoke
  <2>5. tokens' = tokens /\ loggedOut' = loggedOut \cup {t.jti}
    BY <1>3 DEF Logout
  <2> HIDE DEF until
  <2>6. /\ denylist'[t.jti] = until
        /\ \A j \in Jti \ {t.jti} : denylist'[j] = denylist[j]
    BY <2>1, <2>4 DEF TypeOK
  <2>7. \A j \in Jti : denylist'[j] # 0 => \E s \in tokens' : s.jti = j
    BY <2>5, <2>6 DEF DenylistInv
  <2>8. \A j \in loggedOut' : denylist'[j] # 0
    BY <2>3, <2>5, <2>6 DEF DenylistInv, TypeOK
  <2>9. ASSUME NEW s \in tokens', s.jti # NoJti, denylist'[s.jti] # 0
        PROVE  denylist'[s.jti] >= TicksPerSecond * s.exp
    <3>1. CASE s.jti = t.jti
      BY <2>2, <2>5, <2>6, <2>9, <3>1 DEF DenylistInv
    <3>2. CASE s.jti # t.jti
      BY <2>5, <2>6, <2>9, <3>2 DEF DenylistInv, TypeOK, RefreshToken
    <3> QED
      BY <3>1, <3>2
  <2> QED
    BY <2>5, <2>7, <2>8, <2>9 DEF DenylistInv
<1> QED
  BY <1>1, <1>2, <1>3, RevocationsChange

LEMMA DenylistInit == Init => DenylistInv
BY DEF Init, DenylistInv

LEMMA DenylistCorrect == Spec => [](TypeOK /\ DenylistInv)
BY TypeInit, TypeStep, DenylistInit, DenylistStep, PTL DEF Spec

\* An entry that exists denies its token as long as the token verifies.
LEMMA EntryDenies ==
    ASSUME TypeOK, DenylistInv, NEW t \in tokens, t.jti # NoJti,
           denylist[t.jti] # 0, JwtValid(t)
    PROVE  Denied(t.jti)
BY ConstantsAssumption DEF TypeOK, RefreshToken, DenylistInv, JwtValid, Denied,
       Seconds, TicksPerSecond

LEMMA DenylistImplies == TypeOK /\ DenylistInv => LoggedOutStaysOut
BY EntryDenies, ConstantsAssumption
   DEF LoggedOutStaysOut, Acceptable, DenylistInv, TypeOK

\* A confirmed logout ends its refresh token for good.
THEOREM LogoutIsFinal == Spec => []LoggedOutStaysOut
BY DenylistCorrect, DenylistImplies, PTL

LEMMA DocumentChange ==
    ASSUME [Next]_vars
    PROVE  \/ user' = user
           \/ \E r \in Req : \/ LoginFail(r) \/ LoginClear(r) \/ BumpAlone(r)
                             \/ ResetPassword(r) \/ ChangePassword(r)
           \/ LogoutAll \/ ForgotPassword \/ UnlockUser
           \/ \E active \in BOOLEAN : SetActive(active)
BY DEF Next, Handler, LoginLookup, RefreshLookup, ResetLookup, ChangeLookup,
       Sign, RefreshCheck, RefreshReject, RequestFails, Logout,
       RedisGoesDown, RedisComesUp, Tick, vars, stores

LEMMA ClockChange ==
    ASSUME [Next]_vars
    PROVE  now' = now \/ Tick
BY DEF Next, Handler, LoginLookup, RefreshLookup, ResetLookup, ChangeLookup,
       LoginFail, LoginClear, Sign, RefreshCheck, RefreshReject,
       ResetPassword, ChangePassword, RunInTransaction, BumpAlone,
       RequestFails, Logout, LogoutAll, ForgotPassword, UnlockUser,
       SetActive, RedisGoesDown, RedisComesUp, vars, stores

\* The epoch, the clock and the set of denylist entries only grow.
LEMMA Monotone ==
    ASSUME TypeOK, DenylistInv, [Next]_vars
    PROVE  /\ user'.sessionEpoch >= user.sessionEpoch
           /\ now' >= now
           /\ tokens \subseteq tokens'
           /\ \A j \in Jti : denylist[j] # 0 => denylist'[j] # 0
<1>1. user'.sessionEpoch >= user.sessionEpoch
  <2> DEFINE Moves == \/ user'.sessionEpoch = user.sessionEpoch
                      \/ user'.sessionEpoch = user.sessionEpoch + 1
  <2>1. ASSUME NEW r \in Req, LoginFail(r) \/ LoginClear(r) PROVE Moves
    BY <2>1 DEF LoginFail, LoginClear, FailedLogin, ClearLockout, TypeOK, User
  <2>2. ASSUME NEW r \in Req, ResetPassword(r) \/ ChangePassword(r) PROVE Moves
    BY <2>2 DEF ResetPassword, ChangePassword, RunInTransaction, InTransaction,
                WithoutSession, SaveResetPassword, SaveChangedPassword,
                BumpSessionEpoch, TypeOK, User
  <2>3. ASSUME (\E r \in Req : BumpAlone(r)) \/ LogoutAll PROVE Moves
    BY <2>3 DEF BumpAlone, LogoutAll, BumpSessionEpoch, TypeOK, User
  <2>4. ASSUME ForgotPassword PROVE Moves
    <3>1. user'.sessionEpoch = user.sessionEpoch
      BY <2>4 DEF ForgotPassword, TypeOK, User
    <3> QED BY <3>1
  <2>5. ASSUME UnlockUser PROVE Moves
    BY <2>5 DEF UnlockUser, ClearLockout, TypeOK, User
  <2>6. ASSUME NEW active \in BOOLEAN, SetActive(active) PROVE Moves
    <3>1. user'.sessionEpoch = user.sessionEpoch
      BY <2>6 DEF SetActive, TypeOK, User
    <3> QED BY <3>1
  <2>7. ASSUME user' = user PROVE Moves
    BY <2>7
  <2> HIDE DEF Moves
  <2>8. Moves
    BY DocumentChange, <2>1, <2>2, <2>3, <2>4, <2>5, <2>6, <2>7
  <2> QED
    BY <2>8 DEF Moves, TypeOK, User
<1>2. now' >= now
  BY ClockChange DEF Tick, TypeOK
<1>3. tokens \subseteq tokens'
  BY RevocationsChange DEF RevocationsKept, Sign, Logout
<1>4. \A j \in Jti : denylist[j] # 0 => denylist'[j] # 0
  <2>1. CASE RevocationsKept
    BY <2>1 DEF RevocationsKept
  <2>2. CASE \E r \in Req : Sign(r)
    BY <2>2 DEF Sign
  <2>3. ASSUME NEW t \in tokens, Logout(t), NEW j \in Jti, denylist[j] # 0
        PROVE  denylist'[j] # 0
    <3>1. t.jti \in loggedOut'
      BY <2>3 DEF Logout
    <3>2. denylist'[t.jti] # 0
      BY <3>1, DenylistStep DEF DenylistInv
    <3>3. j # t.jti => denylist'[j] = denylist[j]
      BY <2>3 DEF Logout, Revoke, TypeOK
    <3> QED
      BY <2>3, <3>2, <3>3
  <2> QED
    BY <2>1, <2>2, <2>3, RevocationsChange
<1> QED
  BY <1>1, <1>2, <1>3, <1>4

LEMMA DeadStep ==
    ASSUME TypeOK, DenylistInv, [Next]_vars, NEW t \in tokens, ~Acceptable(t)
    PROVE  ~Acceptable(t)'
<1> USE Monotone
<1>0. /\ t \in tokens' /\ t.exp \in Nat /\ t.tv \in Nat
      /\ TypeOK' /\ DenylistInv'
  BY TypeStep, DenylistStep DEF TypeOK, RefreshToken
<1>1. CASE ~JwtValid(t)
  <2>1. ~JwtValid(t)'
    BY <1>0, <1>1 DEF JwtValid, Seconds, TicksPerSecond, TypeOK
  <2> QED
    BY <2>1 DEF Acceptable
<1>2. CASE t.jti = NoJti
  BY <1>2 DEF Acceptable
<1>3. CASE t.jti # NoJti /\ Denied(t.jti)
  <2>1. t.jti \in Jti /\ denylist[t.jti] # 0
    BY <1>3 DEF Denied, TypeOK
  <2>2. denylist'[t.jti] >= TicksPerSecond * t.exp
    BY <1>0, <1>3, <2>1 DEF DenylistInv
  <2>3. JwtValid(t)' => Denied(t.jti)'
    BY <1>0, <2>1, <2>2 DEF JwtValid, Denied, Seconds, TicksPerSecond, TypeOK
  <2> QED
    BY <2>3 DEF Acceptable
<1>4. CASE t.tv < user.sessionEpoch
  BY <1>0, <1>4 DEF Acceptable, TypeOK, User
<1> QED
  BY <1>0, <1>1, <1>2, <1>3, <1>4 DEF Acceptable, TypeOK, User

\* A refresh token that is refused once is refused for ever.
THEOREM RefusedForEver == Spec => DeadStaysDead
<1>1. TypeOK /\ DenylistInv /\ [Next]_vars
        => [\A t \in tokens : ~Acceptable(t) => ~Acceptable(t)']_vars
  BY DeadStep
<1> QED
  BY <1>1, DenylistCorrect, PTL DEF Spec, DeadStaysDead

-----------------------------------------------------------------------------
(***************************************************************************)
(* Exchanges.  An entry written by a confirmed logout denies its token as  *)
(* long as the token verifies, so the one step that allows an exchange     *)
(* finds it.                                                               *)
(***************************************************************************)
LEMMA ExchangeIsCheck ==
    ASSUME TypeOK, [Next]_vars, NEW r \in Req,
           req[r].pc = "refresh", req'[r].pc = "sign"
    PROVE  RefreshCheck(r)
<1>1. ASSUME NEW s \in Req, NEW q, Goto(s, q), r # s PROVE FALSE
  BY <1>1 DEF Goto, TypeOK
<1>2. ASSUME Finish(r) PROVE FALSE
  BY <1>2 DEF Finish, Goto, Idle, TypeOK
<1>3. ASSUME NEW s \in Req, NEW right \in BOOLEAN, LoginLookup(s, right)
      PROVE  FALSE
  BY <1>1, <1>3 DEF LoginLookup, Starts
<1>4. ASSUME NEW s \in Req, NEW t \in tokens, RefreshLookup(s, t)
      PROVE  FALSE
  BY <1>1, <1>4 DEF RefreshLookup, Starts
<1>5. ASSUME NEW s \in Req,
             \/ ResetLookup(s) \/ ChangeLookup(s) \/ LoginClear(s)
             \/ LoginFail(s) \/ Sign(s)
             \/ ResetPassword(s) \/ ChangePassword(s) \/ BumpAlone(s)
      PROVE  FALSE
  <2>1. req[s].pc # "refresh"
    BY <1>5 DEF ResetLookup, ChangeLookup, Starts, LoginClear, LoginFail, Sign,
       ResetPassword, ChangePassword, BumpAlone
  <2>2. \E q : Goto(s, q)
    BY <1>5 DEF ResetLookup, ChangeLookup, LoginClear, LoginFail, Sign, Finish,
       ResetPassword, ChangePassword, RunInTransaction, InTransaction,
       WithoutSession, BumpAlone
  <2> QED
    BY <1>1, <2>1, <2>2
<1>6. ASSUME NEW s \in Req, RefreshReject(s) \/ RequestFails(s) PROVE FALSE
  BY <1>1, <1>2, <1>6 DEF RefreshReject, RequestFails, Finish
<1>7. ASSUME NEW s \in Req, RefreshCheck(s), s # r PROVE FALSE
  BY <1>1, <1>7 DEF RefreshCheck
<1>8. CASE \/ \E t \in tokens : Logout(t)
           \/ LogoutAll \/ ForgotPassword \/ UnlockUser
           \/ \E active \in BOOLEAN : SetActive(active)
           \/ RedisGoesDown \/ RedisComesUp \/ Tick \/ UNCHANGED vars
  BY <1>8 DEF Logout, LogoutAll, ForgotPassword, UnlockUser, SetActive,
     RedisGoesDown, RedisComesUp, Tick, vars
<1> QED
  BY <1>3, <1>4, <1>5, <1>6, <1>7, <1>8 DEF Next, Handler

\* No exchange goes through for a token whose logout was confirmed and which
\* still verifies, Redis up or down, and whatever happens between the check of
\* the signature and the look at the denylist.
THEOREM NoExchangeAfterLogout == Spec => NoExchangeOfLiveLoggedOutToken
<1> DEFINE Exchange == \A r \in Req :
         /\ req[r].pc = "refresh" /\ req'[r].pc = "sign"
         /\ req[r].jti \in loggedOut
         => \A t \in tokens : t.jti = req[r].jti => ~JwtValid(t)
<1>1. ASSUME TypeOK, DenylistInv, [Next]_vars PROVE Exchange
  <2> SUFFICES ASSUME NEW r \in Req,
                      req[r].pc = "refresh", req'[r].pc = "sign",
                      req[r].jti \in loggedOut,
                      NEW t \in tokens, t.jti = req[r].jti, JwtValid(t)
               PROVE  FALSE
    OBVIOUS
  <2>1. ~Denied(t.jti)
    BY <1>1, ExchangeIsCheck DEF RefreshCheck, RefreshAllowed
  <2>2. t.jti \in Jti /\ denylist[t.jti] # 0
    BY <1>1 DEF TypeOK, DenylistInv
  <2>3. t.jti # NoJti
    BY <2>2, ConstantsAssumption
  <2> QED
    BY <1>1, <2>1, <2>2, <2>3, EntryDenies
<1>2. TypeOK /\ DenylistInv /\ [Next]_vars => [Exchange]_vars
  BY <1>1
<1> QED
  BY <1>2, DenylistCorrect, PTL DEF Spec, NoExchangeOfLiveLoggedOutToken

-----------------------------------------------------------------------------
(***************************************************************************)
(* Account lockout.  A failing login stores a count computed from the      *)
(* document it read.  Unless it read that before the lockout was cleared   *)
(* (overtaken), the count is bounded by the failures since.                *)
(***************************************************************************)
\* The clauses of LockoutInv while no failing login is overtaken.
Earned == /\ ConsecutiveFailures
          /\ \A r \in Req : req[r].pc = "loginFail" => req[r].failed <= streak

\* Steps that leave the counters alone and make no login fail.
LEMMA LockoutKept ==
    ASSUME LockoutInv,
           user'.failedLoginAttempts = user.failedLoginAttempts,
           user'.lockedUntil = user.lockedUntil,
           UNCHANGED <<streak, overtaken>>,
           \A r \in Req : req'[r] = req[r] \/ req'[r].pc # "loginFail"
    PROVE  LockoutInv'
<1>1. CASE overtaken
  BY <1>1 DEF LockoutInv
<1>2. CASE Earned
  BY <1>2 DEF Earned, ConsecutiveFailures, LockoutInv
<1> QED
  BY <1>1, <1>2 DEF LockoutInv, Earned

\* Clearing the lockout starts anew.
LEMMA LockoutCleared ==
    ASSUME TypeOK, user' = ClearLockout(user), NewStreak,
           \A r \in Req : req'[r] = req[r] \/ req'[r].pc # "loginFail"
    PROVE  LockoutInv'
<1>1. user'.failedLoginAttempts = 0 /\ user'.lockedUntil = 0 /\ streak' = 0
  BY DEF ClearLockout, NewStreak, TypeOK, User
<1>2. ConsecutiveFailures'
  BY <1>1 DEF ConsecutiveFailures
<1>3. CASE \E q \in Req : req[q].pc = "loginFail"
  BY <1>3 DEF NewStreak, LockoutInv
<1>4. CASE \A q \in Req : req[q].pc # "loginFail"
  BY <1>2, <1>4 DEF LockoutInv
<1> QED
  BY <1>3, <1>4

LEMMA LockoutStep == TypeOK /\ LockoutInv /\ [Next]_vars => LockoutInv'
<1> SUFFICES ASSUME TypeOK, LockoutInv, [Next]_vars PROVE LockoutInv'
  OBVIOUS
<1>1. ASSUME NEW r \in Req, NEW right \in BOOLEAN, LoginLookup(r, right)
      PROVE  LockoutInv'
  <2>1. UNCHANGED <<user, streak, overtaken>>
    BY <1>1 DEF LoginLookup, stores, history
  <2>2. CASE overtaken
    BY <2>1, <2>2 DEF LockoutInv
  <2>3. CASE Earned
    <3>1. \A q \in Req : \/ req'[q] = req[q]
                         \/ req'[q].failed = user.failedLoginAttempts
      BY <1>1 DEF LoginLookup, Goto, Idle, TypeOK
    <3> QED
      BY <2>1, <2>3, <3>1 DEF Earned, ConsecutiveFailures, LockoutInv
  <2> QED
    BY <2>2, <2>3 DEF LockoutInv, Earned
<1>2. ASSUME NEW r \in Req,
             \/ \E t \in tokens : RefreshLookup(r, t)
             \/ ResetLookup(r) \/ ChangeLookup(r)
             \/ Sign(r) \/ RefreshCheck(r) \/ RefreshReject(r) \/ RequestFails(r)
      PROVE  LockoutInv'
  <2>1. UNCHANGED <<user, streak, overtaken>>
    BY <1>2 DEF RefreshLookup, ResetLookup, ChangeLookup, Sign, RefreshCheck,
                RefreshReject, RequestFails, stores, history
  <2>2. \A q \in Req : req'[q] = req[q] \/ req'[q].pc # "loginFail"
    <3>1. CASE RefreshCheck(r)
      BY <3>1 DEF RefreshCheck, Goto, TypeOK, Request
    <3>2. CASE \/ ResetLookup(r) \/ ChangeLookup(r) \/ Sign(r)
               \/ RefreshReject(r) \/ RequestFails(r)
      BY <3>2 DEF ResetLookup, ChangeLookup, Sign, RefreshReject, RequestFails,
                  Finish, Goto, Idle, TypeOK
    <3>3. CASE \E t \in tokens : RefreshLookup(r, t)
      BY <3>3 DEF RefreshLookup, Goto, Idle, TypeOK
    <3> QED
      BY <1>2, <3>1, <3>2, <3>3
  <2> QED
    BY <2>1, <2>2, LockoutKept
<1>3. ASSUME NEW r \in Req, LoginFail(r) PROVE LockoutInv'
  <2> DEFINE f == req[r].failed + 1
  <2>1. f \in Nat /\ streak' = streak + 1 /\ streak \in Nat
        /\ overtaken' = overtaken
    BY <1>3 DEF LoginFail, TypeOK, Request
  <2>2. /\ user'.failedLoginAttempts = f
        /\ user'.lockedUntil # user.lockedUntil => f >= MaxAttempts
    BY <1>3 DEF LoginFail, FailedLogin, TypeOK, User
  <2>3. \A q \in Req : req'[q] = req[q] \/ req'[q].pc # "loginFail"
    BY <1>3 DEF LoginFail, Finish, Goto, Idle, TypeOK
  <2>4. CASE overtaken
    BY <2>1, <2>4 DEF LockoutInv
  <2>5. CASE Earned
    <3>1. f <= streak'
      BY <1>3, <2>1, <2>5 DEF Earned, LoginFail, TypeOK, Request
    <3> HIDE DEF f
    <3>2. \A q \in Req : req'[q].pc = "loginFail" => req'[q].failed <= streak'
      BY <2>1, <2>3, <2>5 DEF Earned, TypeOK, Request
    <3>3. ConsecutiveFailures'
      BY <2>1, <2>2, <2>5, <3>1, ConstantsAssumption
         DEF Earned, ConsecutiveFailures, TypeOK
    <3> QED
      BY <3>2, <3>3 DEF LockoutInv
  <2> QED
    BY <2>4, <2>5 DEF LockoutInv, Earned
<1>4. ASSUME NEW r \in Req, LoginClear(r) PROVE LockoutInv'
  <2>1. \A q \in Req : req'[q] = req[q] \/ req'[q].pc # "loginFail"
    BY <1>4 DEF LoginClear, Finish, Goto, Idle, TypeOK, Request
  <2> QED
    BY <1>4, <2>1, LockoutCleared DEF LoginClear
<1>5. ASSUME NEW r \in Req, ResetPassword(r) \/ ChangePassword(r) \/ BumpAlone(r)
      PROVE  LockoutInv'
  <2>1. /\ user'.failedLoginAttempts = user.failedLoginAttempts
        /\ user'.lockedUntil = user.lockedUntil
        /\ UNCHANGED <<streak, overtaken>>
    BY <1>5 DEF ResetPassword, ChangePassword, BumpAlone, RunInTransaction,
                InTransaction, WithoutSession, SaveResetPassword,
                SaveChangedPassword, BumpSessionEpoch, TypeOK, User
  <2>2. \A q \in Req : req'[q] = req[q] \/ req'[q].pc # "loginFail"
    BY <1>5 DEF ResetPassword, ChangePassword, BumpAlone, RunInTransaction,
                InTransaction, WithoutSession, Finish, Goto, Idle, TypeOK
  <2> QED
    BY <2>1, <2>2, LockoutKept
<1>6. CASE \/ \E t \in tokens : Logout(t)
           \/ LogoutAll \/ ForgotPassword
           \/ \E active \in BOOLEAN : SetActive(active)
           \/ RedisGoesDown \/ RedisComesUp \/ Tick \/ UNCHANGED vars
  <2>1. /\ user'.failedLoginAttempts = user.failedLoginAttempts
        /\ user'.lockedUntil = user.lockedUntil
        /\ UNCHANGED <<streak, overtaken, req>>
    BY <1>6 DEF Logout, LogoutAll, ForgotPassword, SetActive, BumpSessionEpoch,
                RedisGoesDown, RedisComesUp, Tick, vars, stores, history, TypeOK,
                User
  <2> QED
    BY <2>1, LockoutKept
<1>7. CASE UnlockUser
  BY <1>7, LockoutCleared DEF UnlockUser
<1> QED
  BY <1>1, <1>2, <1>3, <1>4, <1>5, <1>6, <1>7 DEF Next, Handler

LEMMA LockoutInit == Init => LockoutInv
BY DEF Init, LockoutInv, ConsecutiveFailures, Idle

\* No interleaving of logins and unlocks counts, or locks an account for, other
\* failures than consecutive ones, unless a failing login was overtaken by the
\* unlock or the successful login.
THEOREM LocksAreEarned == Spec => []LockoutEarned
<1>1. LockoutInv => LockoutEarned
  BY DEF LockoutInv, LockoutEarned
<1> QED
  BY TypeInit, TypeStep, LockoutInit, LockoutStep, <1>1, PTL DEF Spec

-----------------------------------------------------------------------------
(* The refinement                                                          *)

\* Steps that concern neither the sessions nor what decides on them.
LEMMA RegistryKept ==
    ASSUME UNCHANGED <<tokens, now, denylist, loggedOut>>,
           user'.sessionEpoch = user.sessionEpoch,
           user'.password = user.password
    PROVE  UNCHANGED Registry!vars
<1>1. \A t : Acceptable(t)' <=> Acceptable(t)
  BY DEF Acceptable, JwtValid, Denied, Seconds
<1>2. Usable' = Usable
  BY <1>1 DEF Usable
<1>3. Seconds(now)' = Seconds(now)
  BY DEF Seconds
<1> QED
  BY <1>2, <1>3 DEF Registry!vars

\* When the epoch moves every session is closed.
LEMMA EpochCloses ==
    ASSUME TypeOK, EpochInv, UNCHANGED tokens,
           user'.sessionEpoch = user.sessionEpoch + 1
    PROVE  Usable' = {}
<1>1. ASSUME NEW t \in tokens PROVE ~Acceptable(t)'
  <2>1. t.tv <= user.sessionEpoch /\ t.tv \in Nat /\ user.sessionEpoch \in Nat
    BY DEF EpochInv, Fresh, TypeOK, User, RefreshToken
  <2> QED
    BY <2>1 DEF Acceptable
<1> QED
  BY <1>1 DEF Usable

LEMMA SignIssues ==
    ASSUME TypeOK, EpochInv, ~HalfDone, NEW r \in Req, Sign(r)
    PROVE  \E s \in tokens' : Registry!Issue(s)
<1>1. PICK j \in Jti :
        /\ \A t \in tokens : t.jti # j
        /\ tokens' = tokens \cup
             {[jti |-> j, tv |-> req[r].epoch,
               exp |-> Seconds(now) + TokenSeconds, gen |-> req[r].gen]}
  BY DEF Sign
<1>2. PICK s : s = [jti |-> j, tv |-> req[r].epoch,
                    exp |-> Seconds(now) + TokenSeconds, gen |-> req[r].gen]
  OBVIOUS
<1>3. /\ tokens' = tokens \cup {s} /\ s.jti = j
      /\ s.tv = req[r].epoch /\ s.gen = req[r].gen
      /\ UNCHANGED <<user, denylist, now, loggedOut>>
      /\ Seconds(now)' = Seconds(now)
  BY <1>1, <1>2 DEF Sign, history, Seconds
<1>4. \A t : Acceptable(t)' <=> Acceptable(t)
  BY <1>3 DEF Acceptable, JwtValid, Denied, Seconds
<1>5. \/ Usable' = Usable
      \/ Usable' = Usable \cup {s} /\ Acceptable(s)
  BY <1>3, <1>4 DEF Usable
<1>6. Acceptable(s) => s.gen = user.password /\ Seconds(now) < s.exp
  <2>1. Fresh(req[r].epoch, req[r].gen)
    BY DEF EpochInv, SlotFresh, Sign
  <2>2. req[r].epoch \in Nat /\ user.sessionEpoch \in Nat
    BY DEF TypeOK, Request, User
  <2> QED
    BY <1>3, <2>1, <2>2 DEF Fresh, Acceptable, JwtValid
<1>7. Registry!Issue(s)
  BY <1>1, <1>3, <1>5, <1>6 DEF Registry!Issue
<1> QED
  BY <1>3, <1>7

LEMMA LogoutCloses ==
    ASSUME TypeOK, TypeOK', DenylistInv, DenylistInv', NEW t \in tokens, Logout(t)
    PROVE  Registry!LogOut(t.jti)
<1>1. /\ t.jti \in Jti /\ t.jti \in loggedOut'
      /\ loggedOut' = loggedOut \cup {t.jti}
      /\ UNCHANGED <<user, tokens, now>>
      /\ Seconds(now)' = Seconds(now)
  BY DEF Logout, TypeOK, RefreshToken, Seconds
<1>2. ASSUME NEW s \in tokens, s.jti # t.jti
      PROVE  Acceptable(s)' <=> Acceptable(s)
  <2>1. Denied(s.jti)' <=> Denied(s.jti)
    BY <1>1, <1>2 DEF Logout, Revoke, Denied, TypeOK
  <2> QED
    BY <1>1, <2>1 DEF Acceptable, JwtValid, Seconds
<1>3. ASSUME NEW s \in tokens, s.jti = t.jti
      PROVE  ~Acceptable(s)'
  <2>1. denylist'[s.jti] >= TicksPerSecond * s.exp
    BY <1>1, <1>3, ConstantsAssumption DEF DenylistInv
  <2>2. s.exp \in Nat /\ denylist'[s.jti] \in Nat /\ now \in Nat
    BY <1>1, <1>3 DEF TypeOK, RefreshToken
  <2>3. JwtValid(s)' => Denied(s.jti)'
    BY <1>1, <1>3, <2>1, <2>2 DEF JwtValid, Denied, Seconds, TicksPerSecond
  <2> QED
    BY <2>3 DEF Acceptable
<1>4. Usable' = {s \in Usable : s.jti # t.jti}
  BY <1>1, <1>2, <1>3 DEF Usable
<1> QED
  BY <1>1, <1>4 DEF Registry!LogOut

LEMMA TickExpires ==
    ASSUME TypeOK, DenylistInv, Tick
    PROVE  Registry!Tick
<1>1. /\ now' = now + 1 /\ now \in Nat
      /\ UNCHANGED <<user, tokens, denylist, loggedOut>>
  BY DEF Tick, TypeOK, history
<1>2. Seconds(now)' = Seconds(now + 1) /\ Seconds(now + 1) >= Seconds(now)
  BY <1>1 DEF Seconds, TicksPerSecond
<1>3. ASSUME NEW t \in tokens
      PROVE  Acceptable(t)' <=> Acceptable(t) /\ Seconds(now)' < t.exp
  <2>1. Acceptable(t)' => Acceptable(t)
    <3>1. [Next]_vars
      BY DEF Next
    <3> QED
      BY <3>1, DeadStep
  <2>2. JwtValid(t)' <=> Seconds(now)' < t.exp
    BY DEF JwtValid
  <2>3. ~Denied(t.jti) => ~Denied(t.jti)'
    BY <1>1 DEF Denied, TypeOK
  <2> QED
    BY <1>1, <2>1, <2>2, <2>3 DEF Acceptable
<1>4. Usable' = {t \in Usable : Seconds(now)' < t.exp}
  BY <1>1, <1>3 DEF Usable
<1> QED
  BY <1>1, <1>2, <1>4 DEF Registry!Tick

LEMMA RegistryStep ==
    ASSUME "throws" \notin StartSession, TypeOK, EpochInv, DenylistInv,
           ~HalfDone, [Next]_vars
    PROVE  Registry!Next \/ UNCHANGED Registry!vars
<1>1. TypeOK' /\ DenylistInv'
  BY TypeStep, DenylistStep
<1>2. ASSUME NEW r \in Req, Sign(r) PROVE Registry!Next
  BY <1>2, SignIssues DEF Registry!Next
<1>3. ASSUME NEW t \in tokens, Logout(t) PROVE Registry!Next
  BY <1>1, <1>3, LogoutCloses DEF Registry!Next
<1>4. CASE Tick
  BY <1>4, TickExpires DEF Registry!Next
<1>5. CASE LogoutAll
  <2>1. /\ user'.sessionEpoch = user.sessionEpoch + 1
        /\ user'.password = user.password
        /\ UNCHANGED <<tokens, now, loggedOut>>
        /\ Seconds(now)' = Seconds(now)
    BY <1>5 DEF LogoutAll, BumpSessionEpoch, TypeOK, User, history, Seconds
  <2>2. Usable' = {}
    BY <2>1, EpochCloses
  <2> QED
    BY <2>1, <2>2 DEF Registry!Next, Registry!LogOutAll
<1>6. ASSUME NEW r \in Req, ResetPassword(r) \/ ChangePassword(r)
      PROVE  Registry!Next
  <2>1. /\ user'.sessionEpoch = user.sessionEpoch + 1
        /\ user'.password = user.password + 1
        /\ UNCHANGED <<tokens, now, loggedOut>>
        /\ Seconds(now)' = Seconds(now)
    BY <1>6 DEF ResetPassword, ChangePassword, RunInTransaction, InTransaction,
       WithoutSession, SaveResetPassword, SaveChangedPassword,
       BumpSessionEpoch, TypeOK, User, history, Seconds
  <2>2. Usable' = {}
    BY <2>1, EpochCloses
  <2> QED
    BY <2>1, <2>2 DEF Registry!Next, Registry!ChangePassword
<1>7. ASSUME NEW r \in Req, BumpAlone(r) PROVE FALSE
  BY <1>7 DEF BumpAlone, HalfDone
<1>8. ASSUME NEW r \in Req, LoginFail(r) \/ LoginClear(r)
      PROVE  UNCHANGED Registry!vars
  <2>1. /\ user'.sessionEpoch = user.sessionEpoch
        /\ user'.password = user.password
        /\ UNCHANGED <<tokens, now, denylist, loggedOut>>
    BY <1>8 DEF LoginFail, LoginClear, FailedLogin, ClearLockout, TypeOK, User
  <2> QED
    BY <2>1, RegistryKept
<1>9. CASE \/ ForgotPassword \/ UnlockUser
           \/ \E active \in BOOLEAN : SetActive(active)
  <2>1. /\ user'.sessionEpoch = user.sessionEpoch
        /\ user'.password = user.password
        /\ UNCHANGED <<tokens, now, denylist, loggedOut>>
    BY <1>9 DEF ForgotPassword, UnlockUser, SetActive, ClearLockout, TypeOK,
       User, history
  <2> QED
    BY <2>1, RegistryKept
<1>10. CASE UNCHANGED <<user, tokens, now, denylist, loggedOut>>
  BY <1>10, RegistryKept
<1>11. \/ \E r \in Req : \/ Sign(r) \/ ResetPassword(r) \/ ChangePassword(r)
                         \/ BumpAlone(r) \/ LoginFail(r) \/ LoginClear(r)
       \/ \E t \in tokens : Logout(t)
       \/ Tick \/ LogoutAll \/ ForgotPassword \/ UnlockUser
       \/ \E active \in BOOLEAN : SetActive(active)
       \/ UNCHANGED <<user, tokens, now, denylist, loggedOut>>
  BY DEF Next, Handler, LoginLookup, RefreshLookup, ResetLookup, ChangeLookup,
     RefreshCheck, RefreshReject, RequestFails, RedisGoesDown, RedisComesUp,
     vars, stores, history
<1> QED
  BY <1>2, <1>3, <1>4, <1>5, <1>6, <1>7, <1>8, <1>9, <1>10, <1>11

LEMMA RegistryInit == Init => Registry!Init
<1> SUFFICES ASSUME Init PROVE Registry!Init
  OBVIOUS
<1>1. Usable = {}
  BY DEF Init, Usable, Acceptable
<1>2. Seconds(now) \in Nat
  BY DEF Init, Seconds, TicksPerSecond
<1> QED
  BY <1>1, <1>2 DEF Init, Registry!Init

\* Where connection.startSession() works, requests, epoch and denylist are an
\* implementation of the registry, whatever is in flight and whatever fails.
THEOREM ImplementsRegistry ==
    ASSUME "throws" \notin StartSession
    PROVE  Spec => SessionsAsPromised
<1> DEFINE Inv == TypeOK /\ EpochInv /\ DenylistInv /\ ~HalfDone
<1>1. Inv /\ [Next]_vars => Inv'
  BY TypeStep, EpochStep, DenylistStep, WholeStep
<1>2. Inv /\ [Next]_vars => [Registry!Next]_Registry!vars
  BY RegistryStep
<1>3. Init => Inv
  BY TypeInit, EpochInit, DenylistInit, WholeInit
<1> QED
  BY <1>1, <1>2, <1>3, RegistryInit, PTL DEF Spec, SessionsAsPromised, Registry!Spec
====
