--------------------------- MODULE UserLifecycle ---------------------------
(***************************************************************************)
(* The life of an account: registration and its verification link,         *)
(* creation by an administrator, by the seeds and at start-up, changes of  *)
(* address and user name, activation, deactivation and soft deletion       *)
(* (src/user/service/user.service.ts, src/auth/auth.service.ts).           *)
(*                                                                         *)
(*   users   the user collection: Absent, or the fields these handlers     *)
(*           read and write; documents are never removed                   *)
(*   req     one record per request in flight, one action per awaited      *)
(*           store operation                                               *)
(*                                                                         *)
(* runInTransaction is called without handing its session to the writes    *)
(* (auth.service.ts:89, auth.service.ts:279, user.service.ts:413), so each *)
(* write commits on its own.                                               *)
(*                                                                         *)
(* Abstractions.  Accounts are numbered in the order they are inserted,    *)
(* verification tokens in the order they are drawn; token 0 is an unset    *)
(* one.  The 24 hours of a token are a flag that Expire clears.  A link is *)
(* followed by whoever was mailed it.  Roles, permissions, passwords and   *)
(* the names other than userName do not matter here.                       *)
(***************************************************************************)
EXTENDS Integers

CONSTANTS
    Req,                    \* slots for concurrent HTTP requests
    Emails, Names,          \* addresses and user names
    Same,                   \* a field an update leaves out
    RootEmail, RootName,    \* the account populateUsers creates
    Absent,                 \* no such document
    Kinds,                  \* the operations called in this instance
    MayFail,                \* whether a request may die between two steps
    MaxUser, MaxToken, MaxStarts    \* bounds of the instance

ASSUME ConstantsAssumption ==
    /\ Same \notin Emails \cup Names
    /\ RootEmail \in Emails /\ RootName \in Names
    /\ Kinds \subseteq {"register", "create", "populate", "verify", "resend",
                        "update", "delete", "toggle"}
    /\ MayFail \in BOOLEAN
    /\ MaxUser \in Nat /\ MaxToken \in Nat /\ MaxStarts \in Nat
    /\ Absent \notin Nat
    /\ Absent \notin [email : Emails, name : Names, active : BOOLEAN,
                      deleted : BOOLEAN, token : Nat, fresh : BOOLEAN]

VARIABLES users, req

\* History: the requests begun, the last token drawn, the tokens mailed, those
\* whose request died before mailing them, the accounts activated at least
\* once, those whose registration died before it stored a token, and the
\* deleted accounts that a handler which does not see the deletion was, or is,
\* about to activate.
VARIABLES started, lastToken, mailed, unmailed, activated, stranded, revivable

mails == <<lastToken, mailed, unmailed>>
fates == <<activated, stranded, revivable>>
vars == <<users, req, started, mails, fates>>

-----------------------------------------------------------------------------

Uid == 1..MaxUser

Account == [email : Emails, name : Names, active : BOOLEAN,
            deleted : BOOLEAN, token : Nat, fresh : BOOLEAN]

Pcs == {"idle", "create", "insert", "storeToken", "mail", "activate",
        "unset", "checkName", "write", "softDelete", "setActive"}

Request == [pc : Pcs, uid : Uid \cup {Absent}, email : Emails \cup {Same},
            name : Names \cup {Same}, token : Nat, active : BOOLEAN]

Idle == [pc |-> "idle", uid |-> Absent, email |-> Same, name |-> Same,
         token |-> 0, active |-> FALSE]

Init ==
    /\ users = [u \in Uid |-> Absent]
    /\ req = [r \in Req |-> Idle]
    /\ started = 0 /\ lastToken = 0 /\ mailed = {} /\ unmailed = {}
    /\ activated = {} /\ stranded = {} /\ revivable = {}

Exists(u) == users[u] # Absent

\* userModel.exists({ email }) and its three variants: some other document.
EmailTaken(email, self) ==
    \E u \in Uid \ {self} : Exists(u) /\ users[u].email = email

NameTaken(name, self) ==
    \E u \in Uid \ {self} : Exists(u) /\ users[u].name = name

Conflict(email, name) == EmailTaken(email, Absent) \/ NameTaken(name, Absent)

Goto(r, state) == req' = [req EXCEPT ![r] = state] /\ UNCHANGED started

Finish(r) == Goto(r, Idle)

Begin(r, kind, state) ==
    /\ kind \in Kinds /\ req[r].pc = "idle" /\ started < MaxStarts
    /\ started' = started + 1
    /\ req' = [req EXCEPT ![r] = state]

\* findByIdAndUpdate: one document, one atomic write.
Write(u, account) == users' = [users EXCEPT ![u] = account]

-----------------------------------------------------------------------------
(* Creation: register, the administrator's create, the seeds, start-up     *)

\* register: existsByEmailOrUsername, then a fresh verification token.
RegisterCheck(r, email, name) ==
    /\ lastToken < MaxToken
    /\ ~Conflict(email, name)
    /\ lastToken' = lastToken + 1
    /\ Begin(r, "register",
             [Idle EXCEPT !.pc = "create", !.email = email, !.name = name,
                          !.token = lastToken + 1])
    /\ UNCHANGED <<users, mailed, unmailed, fates>>

\* POST /admin/users and each account of seed-users call createWithRole for an
\* active account; its exists checks are CreateCheck.
AdminCreate(r, email, name) ==
    /\ Begin(r, "create",
             [Idle EXCEPT !.pc = "create", !.email = email, !.name = name,
                          !.active = TRUE])
    /\ UNCHANGED <<users, mails, fates>>

\* populateUsers at start-up goes straight to the repository.
PopulateUsers(r) ==
    /\ Begin(r, "populate",
             [Idle EXCEPT !.pc = "insert", !.email = RootEmail,
                          !.name = RootName, !.active = TRUE])
    /\ UNCHANGED <<users, mails, fates>>

\* createWithRole: existsByName and existsByEmail, answered together.
CreateCheck(r) ==
    /\ req[r].pc = "create"
    /\ IF Conflict(req[r].email, req[r].name)
       THEN Finish(r)
       ELSE Goto(r, [req[r] EXCEPT !.pc = "insert"])
    /\ UNCHANGED <<users, mails, fates>>

\* The document, whatever the others hold.  Mutant of Insert: no unique index.
InsertUnchecked(r) ==
    /\ req[r].pc = "insert"
    /\ \E u \in Uid :
        /\ ~Exists(u) /\ \A v \in 1..(u - 1) : Exists(v)
        /\ Write(u, [email |-> req[r].email, name |-> req[r].name,
                     active |-> req[r].active, deleted |-> FALSE,
                     token |-> 0, fresh |-> FALSE])
        /\ activated' = activated \cup (IF req[r].active THEN {u} ELSE {})
        /\ IF req[r].token = 0
           THEN Finish(r)
           ELSE Goto(r, [req[r] EXCEPT !.pc = "storeToken", !.uid = u])
    /\ UNCHANGED <<mails, stranded, revivable>>

\* save(): the unique indexes on email and userName refuse a duplicate.
Insert(r) ==
    \/ /\ ~Conflict(req[r].email, req[r].name)
       /\ InsertUnchecked(r)
    \/ /\ req[r].pc = "insert"
       /\ Conflict(req[r].email, req[r].name)
       /\ Finish(r)
       /\ UNCHANGED <<users, mails, fates>>

\* update with the token: the second write of register, the only one of
\* resendVerification.
StoreToken(r) ==
    /\ req[r].pc = "storeToken"
    /\ Write(req[r].uid, [users[req[r].uid] EXCEPT !.token = req[r].token,
                                                   !.fresh = TRUE])
    /\ Goto(r, [req[r] EXCEPT !.pc = "mail"])
    /\ UNCHANGED <<mails, fates>>

\* Once the transaction has ended: emit USER_REGISTERED or RESEND_VERIFICATION.
MailToken(r) ==
    /\ req[r].pc = "mail"
    /\ mailed' = mailed \cup {req[r].token}
    /\ Finish(r)
    /\ UNCHANGED <<users, lastToken, unmailed, fates>>

-----------------------------------------------------------------------------
(* Verification                                                            *)

\* Mutant of ResendLookup: the token is stored and not mailed.
ResendSilently(r, email) ==
    /\ lastToken < MaxToken
    /\ \E u \in Uid :
        /\ Exists(u) /\ users[u].email = email
        /\ Write(u, [users[u] EXCEPT !.token = lastToken + 1, !.fresh = TRUE])
    /\ lastToken' = lastToken + 1
    /\ UNCHANGED <<req, started, mailed, unmailed, fates>>

\* POST /auth/resend-verification: findByEmail, whatever the account's state,
\* then a fresh token.
ResendLookup(r, email) ==
    /\ lastToken < MaxToken
    /\ \E u \in Uid :
        /\ Exists(u) /\ users[u].email = email
        /\ Begin(r, "resend",
                 [Idle EXCEPT !.pc = "storeToken", !.uid = u,
                              !.token = lastToken + 1])
    /\ lastToken' = lastToken + 1
    /\ UNCHANGED <<users, mailed, unmailed, fates>>

\* verifyEmail: findOne by an unexpired token.  deletedAt is not looked at.
VerifyLookup(r, u) ==
    /\ Exists(u) /\ users[u].token \in mailed /\ users[u].fresh
    /\ revivable' = IF users[u].deleted THEN revivable \cup {u} ELSE revivable
    /\ Begin(r, "verify", [Idle EXCEPT !.pc = "activate", !.uid = u])
    /\ UNCHANGED <<users, mails, activated, stranded>>

\* Mutant of Activate: the two writes the other way round.
UnsetThenActivate(r) ==
    LET u == req[r].uid
    IN  /\ req[r].pc = "activate"
        /\ IF users[u].token = 0
           THEN /\ Write(u, [users[u] EXCEPT !.active = TRUE])
                /\ activated' = activated \cup {u}
                /\ Finish(r)
           ELSE /\ Write(u, [users[u] EXCEPT !.token = 0, !.fresh = FALSE])
                /\ UNCHANGED <<req, started, activated>>
        /\ UNCHANGED <<mails, stranded, revivable>>

Activate(r) ==
    /\ req[r].pc = "activate"
    /\ Write(req[r].uid, [users[req[r].uid] EXCEPT !.active = TRUE])
    /\ activated' = activated \cup {req[r].uid}
    /\ Goto(r, [req[r] EXCEPT !.pc = "unset"])
    /\ UNCHANGED <<mails, stranded, revivable>>

\* unsetFields: whatever token is there by now.
UnsetToken(r) ==
    /\ req[r].pc = "unset"
    /\ Write(req[r].uid, [users[req[r].uid] EXCEPT !.token = 0,
                                                   !.fresh = FALSE])
    /\ Finish(r)
    /\ UNCHANGED <<mails, fates>>

\* The 24 hours of the stored token pass.
Expire(u) ==
    /\ Exists(u) /\ users[u].fresh
    /\ Write(u, [users[u] EXCEPT !.fresh = FALSE])
    /\ UNCHANGED <<req, started, mails, fates>>

-----------------------------------------------------------------------------
(* Administration                                                          *)

\* updateUser: findById, then existsByEmailExcludingSelf if an address is sent.
UpdateLookup(r, u, email, name) ==
    /\ Exists(u)
    /\ email # Same => ~EmailTaken(email, u)
    /\ Begin(r, "update",
             [Idle EXCEPT !.pc = "checkName", !.uid = u, !.email = email,
                          !.name = name])
    /\ UNCHANGED <<users, mails, fates>>

\* existsByNameExcludingSelf if a user name is sent.
UpdateCheckName(r) ==
    /\ req[r].pc = "checkName"
    /\ IF req[r].name # Same /\ NameTaken(req[r].name, req[r].uid)
       THEN Finish(r)
       ELSE Goto(r, [req[r] EXCEPT !.pc = "write"])
    /\ UNCHANGED <<users, mails, fates>>

\* Mutant of Renamed: the fields left out are written too.
RenamedRaw(q) == [users[q.uid] EXCEPT !.email = q.email, !.name = q.name]

Renamed(q) ==
    [users[q.uid] EXCEPT !.email = IF q.email = Same THEN @ ELSE q.email,
                         !.name = IF q.name = Same THEN @ ELSE q.name]

\* findByIdAndUpdate of the fields sent; the unique indexes still hold.
UpdateUser(r) ==
    /\ req[r].pc = "write"
    /\ LET new == Renamed(req[r])
           refused == EmailTaken(new.email, req[r].uid)
                      \/ NameTaken(new.name, req[r].uid)
       IN  IF refused THEN UNCHANGED users ELSE Write(req[r].uid, new)
    /\ Finish(r)
    /\ UNCHANGED <<mails, fates>>

\* deleteUser: findById; an account already deleted is left alone.
DeleteLookup(r, u) ==
    /\ Exists(u) /\ ~users[u].deleted
    /\ Begin(r, "delete", [Idle EXCEPT !.pc = "softDelete", !.uid = u])
    /\ UNCHANGED <<users, mails, fates>>

\* A handler that is about to activate u.
Activating(q, u) ==
    q.uid = u /\ (q.pc = "activate" \/ (q.pc = "setActive" /\ q.active))

SoftDelete(r) ==
    LET u == req[r].uid
    IN  /\ req[r].pc = "softDelete"
        /\ Write(u, [users[u] EXCEPT !.active = FALSE, !.deleted = TRUE])
        /\ revivable' = IF \E q \in Req : Activating(req[q], u)
                        THEN revivable \cup {u} ELSE revivable
        /\ Finish(r)
        /\ UNCHANGED <<mails, activated, stranded>>

\* Mutant of ToggleLookup: deletedAt is not looked at.
ToggleAnyone(r, u) ==
    /\ Exists(u)
    /\ Begin(r, "toggle",
             [Idle EXCEPT !.pc = "setActive", !.uid = u,
                          !.active = ~users[u].active])
    /\ UNCHANGED <<users, mails, fates>>

\* toggleActiveUser: refused for a deleted account; the new value is the
\* negation of the one read here.
ToggleLookup(r, u) == Exists(u) /\ ~users[u].deleted /\ ToggleAnyone(r, u)

SetActive(r) ==
    /\ req[r].pc = "setActive"
    /\ Write(req[r].uid, [users[req[r].uid] EXCEPT !.active = req[r].active])
    /\ activated' = activated \cup (IF req[r].active THEN {req[r].uid} ELSE {})
    /\ Finish(r)
    /\ UNCHANGED <<mails, stranded, revivable>>

-----------------------------------------------------------------------------

\* A registration that has inserted u and not stored its token yet: a resend
\* carries no address.
Registering(q, u) == q.pc = "storeToken" /\ q.uid = u /\ q.email # Same

\* A store operation throws, or the process stops.  Nothing is undone.
RequestFails(r) ==
    /\ MayFail /\ req[r].pc # "idle"
    /\ stranded' = IF \E u \in Uid : Registering(req[r], u)
                   THEN stranded \cup {req[r].uid} ELSE stranded
    /\ unmailed' = IF req[r].pc = "mail" THEN unmailed \cup {req[r].token}
                   ELSE unmailed
    /\ Finish(r)
    /\ UNCHANGED <<users, lastToken, mailed, activated, revivable>>

Steps(r) ==
    \/ CreateCheck(r) \/ Insert(r) \/ StoreToken(r) \/ MailToken(r)
    \/ Activate(r) \/ UnsetToken(r)
    \/ UpdateCheckName(r) \/ UpdateUser(r) \/ SoftDelete(r) \/ SetActive(r)

Next ==
    \/ \E r \in Req :
        \/ Steps(r) \/ RequestFails(r) \/ PopulateUsers(r)
        \/ \E email \in Emails :
            \/ ResendLookup(r, email)
            \/ \E name \in Names :
                RegisterCheck(r, email, name) \/ AdminCreate(r, email, name)
        \/ \E u \in Uid :
            \/ VerifyLookup(r, u) \/ DeleteLookup(r, u) \/ ToggleLookup(r, u)
            \/ \E email \in Emails \cup {Same}, name \in Names \cup {Same} :
                UpdateLookup(r, u, email, name)
    \/ \E u \in Uid : Expire(u)

Spec == Init /\ [][Next]_vars

-----------------------------------------------------------------------------
(* Properties                                                              *)

TypeOK ==
    /\ users \in [Uid -> Account \cup {Absent}]
    /\ req \in [Req -> Request]
    /\ started \in 0..MaxStarts /\ lastToken \in 0..MaxToken
    /\ mailed \subseteq 1..lastToken /\ unmailed \subseteq 1..lastToken
    /\ activated \subseteq Uid /\ stranded \subseteq Uid
    /\ revivable \subseteq Uid

\* No two accounts, deleted ones included, share an address or a user name,
\* however the creations and the updates that checked for it interleave
\* (user.service.ts:96-107, user.service.ts:419-431).
AccountsUnique ==
    \A u, v \in Uid :
        Exists(u) /\ Exists(v) /\ u # v
        => users[u].email # users[v].email /\ users[u].name # users[v].name

Mailing(q, t) == q.pc = "mail" /\ q.token = t

\* The token in an account is one its owner was mailed, or is about to be: a
\* resend that overlaps the registration or another resend never leaves a token
\* nobody holds, unless the request that stored it died (auth.service.ts:87-115,
\* auth.service.ts:412-428).
StoredTokenMailed ==
    \A u \in Uid :
        Exists(u) /\ users[u].token # 0
        => \/ users[u].token \in mailed \cup unmailed
           \/ \E r \in Req : Mailing(req[r], users[u].token)

\* An account nobody has activated holds a token, or its registration is about
\* to store one or died before: verifyEmail activates before it unsets the
\* token (auth.service.ts:278-284), so no death in between leaves an account
\* that can neither be verified nor was.
NeverStranded ==
    \A u \in Uid :
        Exists(u) /\ u \notin activated /\ u \notin stranded
        => users[u].token # 0 \/ \E r \in Req : Registering(req[r], u)

\* A deleted account is active only if a handler that does not see the deletion
\* activated it: a toggle that read the account before it was deleted, or a
\* verification (user.service.ts:449-488).
DeletedStaysInactive ==
    \A u \in Uid :
        Exists(u) /\ users[u].deleted /\ users[u].active => u \in revivable

=============================================================================
