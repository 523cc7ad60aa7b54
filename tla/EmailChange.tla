---------------------------- MODULE EmailChange ----------------------------
(***************************************************************************)
(* The change of an account's e-mail address: the six digit code mailed to *)
(* the current address, the pending change confirmed from the new address, *)
(* the link that lets the previous address undo it for 72 hours, and the   *)
(* sessions all of this closes (src/user/service/user.service.ts,          *)
(* src/auth/auth.service.ts).                                              *)
(*                                                                         *)
(*   user      the fields of the user document that these handlers touch   *)
(*   taken     the addresses of the other accounts (unique index on email) *)
(*   sessions  the refresh tokens of the account: e-mail claim and epoch   *)
(*   req       one record per request in flight, one action per awaited    *)
(*             store operation                                             *)
(*                                                                         *)
(* Abstractions.  Codes, pending tokens and revert tokens are numbered in  *)
(* the order they are drawn and 0 is an unset one: two draws never agree.  *)
(* A code is compared by what it does, right or wrong, and a link is used  *)
(* by whoever received it.  A tick is the unit of every delay.             *)
(***************************************************************************)
EXTENDS Integers

CONSTANTS
    Req,                \* slots for concurrent HTTP requests
    Emails, NoEmail,    \* addresses, and the unset address
    HomeEmail,          \* the address the account starts with
    Kinds,              \* the operations called in this instance
    StartSession,       \* outcomes of connection.startSession()
    MayFail,            \* whether a request may die between two steps
    MaxCodeAttempts,    \* EMAIL_CHANGE_CODE_MAX_ATTEMPTS
    CodeTicks,          \* EMAIL_CHANGE_CODE_TTL_MS
    ResendTicks,        \* EMAIL_CHANGE_CODE_RESEND_INTERVAL_MS
    ConfirmTicks,       \* EMAIL_CHANGE_CONFIRMATION_TTL_MS
    RevertTicks,        \* EMAIL_REVERT_WINDOW_MS
    MaxTick, MaxCode, MaxPending, MaxEpoch   \* bounds of the instance

ASSUME ConstantsAssumption ==
    /\ NoEmail \notin Emails /\ HomeEmail \in Emails
    /\ Kinds \subseteq {"code", "change", "confirm", "revert", "login",
                        "admin", "others"}
    /\ StartSession \subseteq {"ok", "throws"}
    /\ MayFail \in BOOLEAN
    /\ MaxCodeAttempts \in Nat \ {0}
    /\ CodeTicks \in Nat /\ ResendTicks \in Nat
    /\ ConfirmTicks \in Nat /\ RevertTicks \in Nat
    /\ MaxTick \in Nat /\ MaxCode \in Nat
    /\ MaxPending \in Nat /\ MaxEpoch \in Nat

VARIABLES user, taken, sessions, now, req

\* History: for each code drawn, when it was mailed, the wrong codes answered
\* against it and the pending changes it paid for; the codes that were judged by
\* a request while another one was at it; the last pending token drawn, the last
\* one drawn before a revert unset what was pending, and the pending tokens that
\* confirmations had read by then; whether a request died between the separate
\* writes of the fallback.
VARIABLES codes, lastCode, contested, lastPending, revertedUpTo, raced, torn

stores == <<user, taken, sessions, now>>
codeHistory == <<codes, lastCode, contested>>
changeHistory == <<lastPending, revertedUpTo, raced, torn>>
vars == <<stores, req, codeHistory, changeHistory>>

-----------------------------------------------------------------------------

Address == Emails \cup {NoEmail}

NoPending == [email |-> NoEmail, token |-> 0, expires |-> 0]

Pending == [email : Emails, token : Nat, expires : Nat] \cup {NoPending}

User == [email : Emails, code : Nat, codeExpires : Nat, attempts : Nat,
         codeSentAt : Nat, pending : Pending, previousEmail : Address,
         revertToken : Nat, revertExpires : Nat, sessionEpoch : Nat]

Session == [email : Emails, tv : Nat]

Code == [mailedAt : Nat, wrong : Nat, uses : Nat]

Pcs == {"idle", "sendCode", "clearHash", "clearAttempts", "countFailure",
        "target", "savePending", "confirm", "confirmUnset", "revert",
        "revertUnset", "bump", "sign"}

Verdicts == {"none", "right", "wrong", "dead"}

Request == [pc : Pcs, email : Address, prev : Address, verdict : Verdicts,
            code : Nat, attempts : Nat, at : Nat, token : Nat, epoch : Nat]

Idle == [pc |-> "idle", email |-> NoEmail, prev |-> NoEmail,
         verdict |-> "none", code |-> 0, attempts |-> 0, at |-> 0,
         token |-> 0, epoch |-> 0]

Init ==
    /\ user = [email |-> HomeEmail, code |-> 0, codeExpires |-> 0,
               attempts |-> 0, codeSentAt |-> 0, pending |-> NoPending,
               previousEmail |-> NoEmail, revertToken |-> 0,
               revertExpires |-> 0, sessionEpoch |-> 0]
    /\ taken = {}
    /\ sessions = {[email |-> HomeEmail, tv |-> 0]}
    /\ now = 1
    /\ req = [r \in Req |-> Idle]
    /\ codes = [c \in 1..MaxCode |->
                  [mailedAt |-> 0, wrong |-> 0, uses |-> 0]]
    /\ lastCode = 0 /\ contested = {}
    /\ lastPending = 0 /\ revertedUpTo = 0 /\ raced = {}
    /\ torn = FALSE

Starts(r, kind) == kind \in Kinds /\ req[r].pc = "idle"

Goto(r, state) == req' = [req EXCEPT ![r] = state]

Finish(r) == Goto(r, Idle)

\* The address is written, the session epoch is not.
HalfDone(q) == q.pc \in {"confirmUnset", "revertUnset", "bump"}

\* POST /auth/refresh would exchange s: not older than the epoch.
Acceptable(s) == s.tv >= user.sessionEpoch

-----------------------------------------------------------------------------
(* POST /users/change-email/code                                           *)

\* One code per interval, measured from the last send; Date.now() is taken
\* here and used for every date of the code.
CodeLookup(r) ==
    /\ Starts(r, "code")
    /\ ~(user.codeSentAt # 0 /\ now - user.codeSentAt < ResendTicks)
    /\ Goto(r, [Idle EXCEPT !.pc = "sendCode", !.email = user.email,
                            !.at = now])
    /\ UNCHANGED <<stores, codeHistory, changeHistory>>

\* The new code replaces the old one and is mailed to the address that was
\* current when the request began.
SendCode(r) ==
    /\ req[r].pc = "sendCode"
    /\ lastCode < MaxCode
    /\ user' = [user EXCEPT !.code = lastCode + 1,
                            !.codeExpires = req[r].at + CodeTicks,
                            !.attempts = 0,
                            !.codeSentAt = req[r].at]
    /\ lastCode' = lastCode + 1
    /\ codes' = [codes EXCEPT ![lastCode + 1].mailedAt = now]
    /\ Finish(r)
    /\ UNCHANGED <<taken, sessions, now, contested, changeHistory>>

-----------------------------------------------------------------------------
(* POST /users/change-email                                                *)

\* assertEmailChangeCode judges the code on the document that was read.
Verdict(right) ==
    IF user.codeExpires < now \/ user.attempts >= MaxCodeAttempts THEN "dead"
    ELSE IF right THEN "right" ELSE "wrong"

\* The handler of POST /users/change-email, from the judgement of a code on.
Judging == {"countFailure", "clearHash", "clearAttempts", "target", "savePending"}

\* A code is judged while other requests are not done with theirs.
Contest(r) ==
    LET others == {s \in Req \ {r} : req[s].pc \in Judging}
    IN  contested' = IF others = {} THEN contested
                     ELSE contested \cup {user.code} \cup {req[s].code : s \in others}

\* A missing code is refused without a write, and so is the current address.
\* The last failure of the budget destroys the code, earlier ones are counted.
ChangeLookup(r, email, right) ==
    /\ Starts(r, "change")
    /\ email # user.email
    /\ user.code # 0
    /\ LET verdict == Verdict(right)
           counted == /\ verdict = "wrong"
                      /\ user.attempts + 1 < MaxCodeAttempts
       IN  Goto(r, [Idle EXCEPT
                      !.pc = IF counted THEN "countFailure" ELSE "clearHash",
                      !.email = email, !.verdict = verdict,
                      !.code = user.code, !.attempts = user.attempts])
    /\ Contest(r)
    /\ UNCHANGED <<stores, codes, lastCode, changeHistory>>

\* The caller learns that the code it typed was wrong.
Answered(q) ==
    codes' = [codes EXCEPT ![q.code].wrong = @ + 1]

\* Mutant of CountFailure: the stored counter is written back unchanged.
CountFailureStale(r) ==
    /\ req[r].pc = "countFailure"
    /\ user' = [user EXCEPT !.attempts = req[r].attempts]
    /\ Answered(req[r])
    /\ Finish(r)
    /\ UNCHANGED <<taken, sessions, now, lastCode, contested, changeHistory>>

CountFailure(r) ==
    /\ req[r].pc = "countFailure"
    /\ user' = [user EXCEPT !.attempts = req[r].attempts + 1]
    /\ Answered(req[r])
    /\ Finish(r)
    /\ UNCHANGED <<taken, sessions, now, lastCode, contested, changeHistory>>

\* Mutant of ClearHash: only the expiry is pulled back to the present.
ClearHashLate(r) ==
    /\ req[r].pc = "clearHash"
    /\ user' = [user EXCEPT !.codeExpires = now]
    /\ Goto(r, [req[r] EXCEPT !.pc = "clearAttempts"])
    /\ UNCHANGED <<taken, sessions, now, codeHistory, changeHistory>>

\* clearEmailChangeCode is two writes: the hash and its expiry ...
ClearHash(r) ==
    /\ req[r].pc = "clearHash"
    /\ user' = [user EXCEPT !.code = 0, !.codeExpires = 0]
    /\ Goto(r, [req[r] EXCEPT !.pc = "clearAttempts"])
    /\ UNCHANGED <<taken, sessions, now, codeHistory, changeHistory>>

\* ... and the counter.
ClearAttempts(r) ==
    /\ req[r].pc = "clearAttempts"
    /\ user' = [user EXCEPT !.attempts = 0]
    /\ IF req[r].verdict = "wrong" THEN Answered(req[r])
                                   ELSE UNCHANGED codes
    /\ IF req[r].verdict = "right"
       THEN Goto(r, [req[r] EXCEPT !.pc = "target"])
       ELSE Finish(r)
    /\ UNCHANGED <<taken, sessions, now, lastCode, contested, changeHistory>>

\* findByEmail(data.email): the address may belong to another account, or to
\* this one by now.
FindTarget(r) ==
    /\ req[r].pc = "target"
    /\ IF req[r].email \in taken \cup {user.email}
       THEN Finish(r)
       ELSE Goto(r, [req[r] EXCEPT !.pc = "savePending", !.at = now])
    /\ UNCHANGED <<stores, codeHistory, changeHistory>>

SavePending(r) ==
    /\ req[r].pc = "savePending"
    /\ lastPending < MaxPending
    /\ user' = [user EXCEPT !.pending =
                  [email |-> req[r].email, token |-> lastPending + 1,
                   expires |-> req[r].at + ConfirmTicks]]
    /\ lastPending' = lastPending + 1
    /\ codes' = [codes EXCEPT ![req[r].code].uses = @ + 1]
    /\ Finish(r)
    /\ UNCHANGED <<taken, sessions, now, lastCode, contested, revertedUpTo, raced,
                   torn>>

-----------------------------------------------------------------------------
(* POST /auth/confirm-email-change and /auth/revert-email-change           *)

\* findByPendingEmailToken by the holder of the token now stored.
ConfirmLookup(r) ==
    /\ Starts(r, "confirm")
    /\ user.pending # NoPending
    /\ user.pending.expires > now
    /\ Goto(r, [Idle EXCEPT !.pc = "confirm", !.email = user.pending.email,
                            !.prev = user.email, !.at = now,
                            !.token = user.pending.token])
    /\ UNCHANGED <<stores, codeHistory, changeHistory>>

\* findByEmailRevertToken by the holder of the link now stored; a second use
\* finds no previous address and changes nothing.
RevertLookup(r) ==
    /\ Starts(r, "revert")
    /\ user.revertToken # 0
    /\ user.previousEmail # NoEmail
    /\ ~(user.revertExpires < now)
    /\ Goto(r, [Idle EXCEPT !.pc = "revert", !.email = user.previousEmail])
    /\ UNCHANGED <<stores, codeHistory, changeHistory>>

BumpSessionEpoch(u) == [u EXCEPT !.sessionEpoch = @ + 1]

\* The first write of a confirmation: the new address and the revert state.
ApplyEmail(u, q) ==
    [u EXCEPT !.email = q.email, !.previousEmail = q.prev,
              !.revertToken = @ + 1, !.revertExpires = q.at + RevertTicks]

UnsetPending(u) == [u EXCEPT !.pending = NoPending]

\* Mutant of RestoreEmail: the previous address is read when it is restored.
RestoreLatest(u, q) == [u EXCEPT !.email = u.previousEmail]

RestoreEmail(u, q) == [u EXCEPT !.email = q.email]

\* Mutant of UnsetReverted: the pending change survives the revert.
UnsetPreviousOnly(u) == [u EXCEPT !.previousEmail = NoEmail]

UnsetReverted(u) ==
    [u EXCEPT !.previousEmail = NoEmail, !.pending = NoPending]

\* The unique index refuses the address of another account: the transaction
\* aborts, and the fallback stops at its first write.
Duplicate(r) ==
    /\ req[r].pc \in {"confirm", "revert"}
    /\ req[r].email \in taken
    /\ Finish(r)
    /\ UNCHANGED <<stores, codeHistory, changeHistory>>

\* Mutant of ConfirmEmailChange: the epoch is not part of the change.
ConfirmWithoutBump(r) ==
    /\ req[r].pc = "confirm" /\ req[r].email \notin taken
    /\ user' = UnsetPending(ApplyEmail(user, req[r]))
    /\ Finish(r)
    /\ UNCHANGED <<taken, sessions, now, codeHistory, changeHistory>>

\* With a session the three writes commit together; without one the handler
\* goes on with the two that follow.
ConfirmEmailChange(r) ==
    /\ req[r].pc = "confirm" /\ req[r].email \notin taken
    /\ user.sessionEpoch < MaxEpoch /\ user.revertToken < MaxEpoch
    /\ \/ /\ "ok" \in StartSession
          /\ user' = BumpSessionEpoch(UnsetPending(ApplyEmail(user, req[r])))
          /\ Finish(r)
       \/ /\ "throws" \in StartSession
          /\ user' = ApplyEmail(user, req[r])
          /\ Goto(r, [Idle EXCEPT !.pc = "confirmUnset"])
    /\ UNCHANGED <<taken, sessions, now, codeHistory, changeHistory>>

\* What was pending is unset: no token drawn so far may be applied any more, but
\* some confirmations may have read theirs.
Revoked ==
    /\ revertedUpTo' = lastPending
    /\ raced' = raced \cup {req[s].token : s \in {s \in Req : req[s].pc = "confirm"}}
    /\ UNCHANGED <<lastPending, torn>>

RevertEmailChange(r) ==
    /\ req[r].pc = "revert" /\ req[r].email \notin taken
    /\ user.sessionEpoch < MaxEpoch
    /\ \/ /\ "ok" \in StartSession
          /\ user' = BumpSessionEpoch(UnsetReverted(RestoreEmail(user, req[r])))
          /\ Finish(r)
          /\ Revoked
       \/ /\ "throws" \in StartSession
          /\ user' = RestoreEmail(user, req[r])
          /\ Goto(r, [Idle EXCEPT !.pc = "revertUnset"])
          /\ UNCHANGED changeHistory
    /\ UNCHANGED <<taken, sessions, now, codeHistory>>

\* The second and third writes of the fallback.
UnsetAlone(r) ==
    /\ \/ /\ req[r].pc = "confirmUnset"
          /\ user' = UnsetPending(user)
          /\ UNCHANGED changeHistory
       \/ /\ req[r].pc = "revertUnset"
          /\ user' = UnsetReverted(user)
          /\ Revoked
    /\ Goto(r, [Idle EXCEPT !.pc = "bump"])
    /\ UNCHANGED <<taken, sessions, now, codeHistory>>

BumpAlone(r) ==
    /\ req[r].pc = "bump"
    /\ user' = BumpSessionEpoch(user)
    /\ Finish(r)
    /\ UNCHANGED <<taken, sessions, now, codeHistory, changeHistory>>

-----------------------------------------------------------------------------
(* Logins, administration, other accounts, faults and time                 *)

\* The document read at the start of a login supplies both claims.
LoginLookup(r) ==
    /\ Starts(r, "login")
    /\ Goto(r, [Idle EXCEPT !.pc = "sign", !.email = user.email,
                            !.epoch = user.sessionEpoch])
    /\ UNCHANGED <<stores, codeHistory, changeHistory>>

Sign(r) ==
    /\ req[r].pc = "sign"
    /\ sessions' = sessions \cup {[email |-> req[r].email, tv |-> req[r].epoch]}
    /\ Finish(r)
    /\ UNCHANGED <<user, taken, now, codeHistory, changeHistory>>

\* PATCH /admin/users/:id with an e-mail: only the address changes.
UpdateUser(email) ==
    /\ "admin" \in Kinds
    /\ email \notin taken \cup {user.email}
    /\ user' = [user EXCEPT !.email = email]
    /\ UNCHANGED <<taken, sessions, now, req, codeHistory, changeHistory>>

\* Somebody registers a free address.
OtherTakes(email) ==
    /\ "others" \in Kinds
    /\ email \notin taken \cup {user.email}
    /\ taken' = taken \cup {email}
    /\ UNCHANGED <<user, sessions, now, req, codeHistory, changeHistory>>

RequestFails(r) ==
    /\ MayFail
    /\ req[r].pc # "idle"
    /\ Finish(r)
    /\ torn' = (torn \/ HalfDone(req[r]))
    /\ UNCHANGED <<stores, codeHistory, lastPending, revertedUpTo, raced>>

Tick ==
    /\ now < MaxTick
    /\ now' = now + 1
    /\ UNCHANGED <<user, taken, sessions, req, codeHistory, changeHistory>>

Next ==
    \/ \E r \in Req :
        \/ CodeLookup(r) \/ SendCode(r)
        \/ \E email \in Emails, right \in BOOLEAN : ChangeLookup(r, email, right)
        \/ CountFailure(r) \/ ClearHash(r) \/ ClearAttempts(r)
        \/ FindTarget(r) \/ SavePending(r)
        \/ ConfirmLookup(r) \/ RevertLookup(r) \/ Duplicate(r)
        \/ ConfirmEmailChange(r) \/ RevertEmailChange(r)
        \/ UnsetAlone(r) \/ BumpAlone(r)
        \/ LoginLookup(r) \/ Sign(r)
        \/ RequestFails(r)
    \/ \E email \in Emails : UpdateUser(email) \/ OtherTakes(email)
    \/ Tick

Spec == Init /\ [][Next]_vars

-----------------------------------------------------------------------------
(* Properties                                                              *)

TypeOK ==
    /\ user \in User
    /\ taken \subseteq Emails
    /\ sessions \subseteq Session
    /\ now \in Nat
    /\ req \in [Req -> Request]
    /\ codes \in [1..MaxCode -> Code]
    /\ lastCode \in 0..MaxCode /\ contested \subseteq Nat
    /\ lastPending \in Nat /\ revertedUpTo \in Nat /\ raced \subseteq Nat
    /\ torn \in BOOLEAN

\* No change of address is half done, or was left so.
Settled == ~torn /\ \A r \in Req : ~HalfDone(req[r])

\* Unless a change of address is half done, or was left so by a request that
\* died between the writes of the fallback, a usable session carries the address
\* the account has now: a login in flight across a confirmation or a revert
\* opens no session of the other identity (COU-263 S4/S5, COU-264 S17).
OnlyCurrentIdentitySessions ==
    Settled => \A s \in sessions : Acceptable(s) => s.email = user.email

\* A code pays for one pending change ("A valid code is consumed immediately: it
\* is single use, whatever happens next").
CodeSingleUse == \A c \in 1..MaxCode : codes[c].uses <= 1

\* So it is, whichever requests die between the writes of clearEmailChangeCode and
\* whichever codes are mailed meanwhile, unless two requests judged it at once.
UncontestedSingleUse ==
    \A c \in 1..MaxCode : c \notin contested => codes[c].uses <= 1

\* No more than MaxCodeAttempts wrong codes are answered against one code ("Every
\* failure increments the attempt counter and, once the budget is spent, the code
\* is destroyed"), whichever requests die and whichever codes are mailed meanwhile,
\* unless two requests judged the code at once.
UncontestedBudget ==
    \A c \in 1..MaxCode : c \notin contested => codes[c].wrong <= MaxCodeAttempts

\* A change that was pending when the previous owner undid another one, with a
\* transaction or by the writes of the fallback, is never applied, unless its
\* confirmation had read it before (confirmEmailChange, revertEmailChange).
RevertSticks ==
    [][\A r \in Req : ConfirmEmailChange(r) =>
         req[r].token > revertedUpTo \/ req[r].token \in raced]_vars

-----------------------------------------------------------------------------
(* Inductive strengthenings, proved in EmailChangeProofs                   *)

\* A handler that has read an address still holds one.
HoldsAddress(q) ==
    q.pc # "idle" /\ ~HalfDone(q) => q.email \in Emails

\* A snapshot taken at the current epoch holds the current address.
Fresh(epoch, email) ==
    /\ epoch <= user.sessionEpoch
    /\ Settled /\ epoch = user.sessionEpoch => email = user.email

\* Holds when no administrator rewrites the address.
IdentityInv ==
    /\ \A s \in sessions : Fresh(s.tv, s.email)
    /\ \A r \in Req : req[r].pc = "sign" => Fresh(req[r].epoch, req[r].email)

\* Two requests that judge codes at once contest both codes.
Alone ==
    \A q, r \in Req : q # r /\ req[q].pc \in Judging /\ req[r].pc \in Judging
                      => req[q].code \in contested

\* What a request holds of an uncontested code that it judges: the code is live
\* until it is destroyed and never afterwards, it has paid for nothing, and a
\* wrong answer that is yet to be counted fits the budget.
Judged(q) ==
    q.code \notin contested =>
        /\ codes[q.code].uses = 0
        /\ q.pc \notin {"countFailure", "clearHash"} => user.code # q.code
        /\ q.pc = "countFailure" =>
             /\ codes[q.code].wrong <= q.attempts
             /\ user.code = q.code => user.attempts = q.attempts
        /\ q.pc \in {"clearHash", "clearAttempts"} /\ q.verdict = "wrong" =>
             codes[q.code].wrong < MaxCodeAttempts

\* A live code that was mailed while a request judged an older one.
Untouched(q) ==
    user.code \notin contested \cup {0, q.code} => codes[user.code].wrong = 0

\* A request that judges a code read it with a counter that left room.
Holds(q) ==
    q.pc \in Judging =>
        /\ q.code \in 1..lastCode
        /\ q.pc = "countFailure" => q.attempts + 1 < MaxCodeAttempts
        /\ Judged(q) /\ Untouched(q)

\* The live code has paid for nothing, and the counter in the document is not
\* behind the wrong answers.
LiveCode ==
    /\ user.code \in 0..lastCode
    /\ user.attempts < MaxCodeAttempts
    /\ user.code \notin contested \cup {0} =>
         /\ codes[user.code].uses = 0
         /\ codes[user.code].wrong <= user.attempts

\* A code that was not drawn has no history.
Undrawn ==
    \A c \in 1..MaxCode : c > lastCode => codes[c].uses = 0 /\ codes[c].wrong = 0

CodeInv ==
    /\ LiveCode /\ Undrawn
    /\ \A r \in Req : Holds(req[r])
    /\ Alone
    /\ UncontestedSingleUse /\ UncontestedBudget

\* What is pending, or about to be confirmed, was drawn after the last revert,
\* unless that revert raced the confirmation.
PendingInv ==
    /\ revertedUpTo <= lastPending
    /\ user.pending # NoPending => user.pending.token > revertedUpTo
    /\ \A r \in Req : req[r].pc = "confirm" =>
         req[r].token > revertedUpTo \/ req[r].token \in raced
=============================================================================
