------------------------ MODULE UserLifecycleProofs ------------------------
(***************************************************************************)
(* Proofs about UserLifecycle, for every set of requests, addresses and    *)
(* user names and every value of the other constants.                      *)
(***************************************************************************)
EXTENDS UserLifecycle, TLAPS

(***************************************************************************)
(* Types, with what a slot holds: the account it works on exists, a token  *)
(* it carries was drawn, and a verification about to unset the token has   *)
(* activated the account.                                                  *)
(***************************************************************************)
Working == {"storeToken", "mail", "activate", "unset", "checkName", "write",
            "softDelete", "setActive"}

Users == [Uid -> Account \cup {Absent}]

SlotOK(q, docs, last, act) ==
    /\ q \in Request
    /\ q.pc \in Working => q.uid \in Uid /\ docs[q.uid] # Absent
    /\ q.pc \in {"create", "insert"} =>
         q.email \in Emails /\ q.name \in Names /\ (q.token = 0 => q.active)
    /\ q.pc \in {"storeToken", "mail"} => q.token # 0
    /\ q.token <= last
    /\ q.pc = "unset" => q.uid \in act

SlotsOK == \A r \in Req : SlotOK(req[r], users, lastToken, activated)

TypeInv == TypeOK /\ SlotsOK

\* What every step keeps.
Grows ==
    /\ users' \in Users
    /\ \A u \in Uid : Exists(u) => users'[u] # Absent
    /\ lastToken' \in 0..MaxToken /\ lastToken <= lastToken'
    /\ activated \subseteq activated' /\ activated' \subseteq Uid

\* The other variables keep their types.
Typed ==
    /\ started' \in 0..MaxStarts
    /\ mailed' \subseteq 1..lastToken' /\ unmailed' \subseteq 1..lastToken'
    /\ stranded' \subseteq Uid /\ revivable' \subseteq Uid

LEMMA AccountAbsent == Absent \notin Account /\ Absent \notin Uid
BY ConstantsAssumption DEF Account, Uid

LEMMA IdleOK ==
    ASSUME NEW docs, NEW last \in Nat, NEW act
    PROVE  SlotOK(Idle, docs, last, act)
BY DEF SlotOK, Idle, Request, Pcs, Working

\* A step that puts q in slot r.
LEMMA SlotStep ==
    ASSUME TypeInv, Grows, Typed, NEW r \in Req, NEW q,
           req' = [req EXCEPT ![r] = q],
           SlotOK(q, users', lastToken', activated')
    PROVE  TypeInv'
<1>1. q \in Request /\ req' \in [Req -> Request]
  BY DEF SlotOK, TypeInv, TypeOK
<1>2. TypeOK'
  BY <1>1 DEF Grows, Typed, TypeOK, Users
<1>3. ASSUME NEW s \in Req
      PROVE  SlotOK(req'[s], users', lastToken', activated')
  <2>1. CASE s = r
    BY <2>1 DEF TypeInv, TypeOK
  <2>2. CASE s # r
    <3>1. req'[s] = req[s] /\ SlotOK(req[s], users, lastToken, activated)
      BY <2>2 DEF TypeInv, TypeOK, SlotsOK
    <3> QED
      BY <3>1 DEF SlotOK, Grows, Exists, TypeInv, TypeOK, Request
  <2> QED
    BY <2>1, <2>2
<1> QED
  BY <1>2, <1>3 DEF TypeInv, SlotsOK

\* The slot is freed.
LEMMA FinishStep ==
    ASSUME TypeInv, Grows, Typed, NEW r \in Req, Finish(r)
    PROVE  TypeInv'
<1>1. lastToken' \in Nat
  BY ConstantsAssumption DEF Grows
<1>2. SlotOK(Idle, users', lastToken', activated')
  BY <1>1, IdleOK
<1> QED
  BY <1>2, SlotStep DEF Finish, Goto

\* A step that leaves the documents and the tokens alone.
LEMMA QuietGrows ==
    ASSUME TypeInv, UNCHANGED <<users, mails, fates>>
    PROVE  Grows /\ (started' \in 0..MaxStarts => Typed)
BY DEF TypeInv, TypeOK, Grows, Typed, mails, fates, Users, Exists

\* A step that writes one document.
LEMMA WriteGrows ==
    ASSUME TypeInv, NEW u \in Uid, NEW a \in Account, Write(u, a),
           UNCHANGED <<lastToken>>,
           activated \subseteq activated', activated' \subseteq Uid
    PROVE  /\ Grows
           /\ users'[u] = a
           /\ \A v \in Uid \ {u} : users'[v] = users[v]
BY AccountAbsent DEF TypeInv, TypeOK, Grows, Users, Write, Exists

LEMMA Beginning ==
    ASSUME TypeInv, NEW r \in Req, NEW kind, NEW q, Begin(r, kind, q)
    PROVE  started' \in 0..MaxStarts /\ req' = [req EXCEPT ![r] = q]
BY ConstantsAssumption DEF Begin, TypeInv, TypeOK

LEMMA Going ==
    ASSUME TypeInv, NEW r \in Req, NEW q, Goto(r, q)
    PROVE  started' \in 0..MaxStarts /\ req' = [req EXCEPT ![r] = q]
BY DEF Goto, TypeInv, TypeOK

(***************************************************************************)
(* Every action keeps the types.                                           *)
(***************************************************************************)
LEMMA RegisterCheckOK ==
    ASSUME TypeInv, NEW r \in Req, NEW email \in Emails, NEW name \in Names,
           RegisterCheck(r, email, name)
    PROVE  TypeInv'
<1> DEFINE q == [Idle EXCEPT !.pc = "create", !.email = email, !.name = name,
                             !.token = lastToken + 1]
<1>1. lastToken' = lastToken + 1 /\ lastToken \in Nat /\ lastToken' \in 0..MaxToken
  BY ConstantsAssumption DEF RegisterCheck, TypeInv, TypeOK
<1>2. Grows
  BY <1>1 DEF RegisterCheck, fates, Grows, TypeInv, TypeOK, Users, Exists
<1>3. Begin(r, "register", q)
  BY DEF RegisterCheck
<1>4. Typed
  BY <1>1, <1>3, Beginning DEF RegisterCheck, fates, Typed, TypeInv, TypeOK
<1>t. PICK t \in Nat : t = lastToken + 1 /\ t # 0
  BY <1>1
<1>5. q \in Request /\ q.pc = "create" /\ q.email = email /\ q.name = name
      /\ q.token = t /\ t # 0
  BY <1>t DEF Idle, Request, Pcs
<1>6. SlotOK(q, users', lastToken', activated')
  <2> HIDE DEF q
  <2> QED BY <1>1, <1>t, <1>5 DEF SlotOK, Working
<1> QED
  BY <1>2, <1>3, <1>4, <1>6, Beginning, SlotStep

LEMMA AdminCreateOK ==
    ASSUME TypeInv, NEW r \in Req, NEW email \in Emails, NEW name \in Names,
           AdminCreate(r, email, name)
    PROVE  TypeInv'
<1> DEFINE q == [Idle EXCEPT !.pc = "create", !.email = email, !.name = name,
                             !.active = TRUE]
<1>1. Begin(r, "create", q) /\ UNCHANGED <<users, mails, fates>>
  BY DEF AdminCreate
<1>2. Grows /\ Typed
  BY <1>1, Beginning, QuietGrows
<1>3. q \in Request /\ q.pc = "create" /\ q.email = email /\ q.name = name
      /\ q.token = 0 /\ q.active = TRUE
  BY DEF Idle, Request, Pcs
<1>4. SlotOK(q, users', lastToken', activated')
  <2> HIDE DEF q
  <2> QED BY <1>2, <1>3, ConstantsAssumption DEF SlotOK, Working, Grows
<1> QED
  BY <1>1, <1>2, <1>4, Beginning, SlotStep

LEMMA PopulateUsersOK ==
    ASSUME TypeInv, NEW r \in Req, PopulateUsers(r)
    PROVE  TypeInv'
<1> DEFINE q == [Idle EXCEPT !.pc = "insert", !.email = RootEmail,
                             !.name = RootName, !.active = TRUE]
<1>1. Begin(r, "populate", q) /\ UNCHANGED <<users, mails, fates>>
  BY DEF PopulateUsers
<1>2. Grows /\ Typed
  BY <1>1, Beginning, QuietGrows
<1>3. q \in Request /\ q.pc = "insert" /\ q.email = RootEmail
      /\ q.name = RootName /\ q.token = 0 /\ q.active = TRUE
  BY ConstantsAssumption DEF Idle, Request, Pcs
<1>4. SlotOK(q, users', lastToken', activated')
  <2> HIDE DEF q
  <2> QED BY <1>2, <1>3, ConstantsAssumption DEF SlotOK, Working, Grows
<1> QED
  BY <1>1, <1>2, <1>4, Beginning, SlotStep

\* What a suspended request holds.
LEMMA Held ==
    ASSUME TypeInv, NEW r \in Req
    PROVE  SlotOK(req[r], users, lastToken, activated)
BY DEF TypeInv, SlotsOK

\* A request that only moves to its next step.
LEMMA MoveOK ==
    ASSUME TypeInv, NEW r \in Req, NEW pc \in Pcs,
           Goto(r, [req[r] EXCEPT !.pc = pc]), Grows, Typed,
           pc \in Working => req[r].pc \in Working,
           pc \in {"create", "insert"} => req[r].pc = "create",
           pc \in {"storeToken", "mail"} => req[r].pc = "storeToken",
           pc = "unset" => req[r].uid \in activated'
    PROVE  TypeInv'
<1> DEFINE q == [req[r] EXCEPT !.pc = pc]
<1>1. SlotOK(req[r], users, lastToken, activated) /\ req[r] \in Request
  BY Held DEF SlotOK
<1>2. /\ q \in Request /\ q.pc = pc /\ q.uid = req[r].uid
      /\ q.email = req[r].email /\ q.name = req[r].name
      /\ q.token = req[r].token /\ q.active = req[r].active
  BY <1>1 DEF Request
<1>3. SlotOK(q, users', lastToken', activated')
  <2> HIDE DEF q
  <2>1. lastToken \in Nat /\ lastToken' \in Nat /\ req[r].token \in Nat
    BY <1>1, ConstantsAssumption DEF Grows, TypeInv, TypeOK, Request
  <2> QED BY <1>1, <1>2, <2>1 DEF SlotOK, Working, Grows, Exists
<1> QED
  BY <1>3, Going, SlotStep

LEMMA CreateCheckOK ==
    ASSUME TypeInv, NEW r \in Req, CreateCheck(r)
    PROVE  TypeInv'
<1>1. req[r].pc = "create" /\ UNCHANGED <<users, mails, fates>>
      /\ (Finish(r) \/ Goto(r, [req[r] EXCEPT !.pc = "insert"]))
  BY DEF CreateCheck
<1>2. Grows /\ Typed
  BY <1>1, Going, QuietGrows DEF Finish
<1> QED
  BY <1>1, <1>2, FinishStep, MoveOK DEF Pcs, Working

LEMMA UpdateCheckNameOK ==
    ASSUME TypeInv, NEW r \in Req, UpdateCheckName(r)
    PROVE  TypeInv'
<1>1. req[r].pc = "checkName" /\ UNCHANGED <<users, mails, fates>>
      /\ (Finish(r) \/ Goto(r, [req[r] EXCEPT !.pc = "write"]))
  BY DEF UpdateCheckName
<1>2. Grows /\ Typed
  BY <1>1, Going, QuietGrows DEF Finish
<1> QED
  BY <1>1, <1>2, FinishStep, MoveOK DEF Pcs, Working

\* A request that writes the account it works on.
LEMMA DocumentOf ==
    ASSUME TypeInv, NEW r \in Req, req[r].pc \in Working
    PROVE  req[r].uid \in Uid /\ users[req[r].uid] \in Account
BY Held, AccountAbsent DEF SlotOK, TypeInv, TypeOK

\* A request that writes one field group of that account and finishes.
LEMMA WriteAndFinish ==
    ASSUME TypeInv, NEW r \in Req, NEW u \in Uid, NEW a \in Account,
           Write(u, a), Finish(r), UNCHANGED mails,
           activated \subseteq activated', activated' \subseteq Uid,
           stranded' \subseteq Uid, revivable' \subseteq Uid
    PROVE  TypeInv'
<1>1. Grows
  BY WriteGrows DEF mails
<1>2. Typed
  BY Going DEF Finish, Typed, mails, TypeInv, TypeOK
<1> QED
  BY <1>1, <1>2, FinishStep

LEMMA InsertOK ==
    ASSUME TypeInv, NEW r \in Req, Insert(r)
    PROVE  TypeInv'
<1>1. CASE Finish(r) /\ UNCHANGED <<users, mails, fates>>
  BY <1>1, Going, QuietGrows, FinishStep DEF Finish
<1>2. CASE InsertUnchecked(r)
  <2>1. PICK u \in Uid :
          /\ ~Exists(u)
          /\ Write(u, [email |-> req[r].email, name |-> req[r].name,
                       active |-> req[r].active, deleted |-> FALSE,
                       token |-> 0, fresh |-> FALSE])
          /\ activated' = activated \cup (IF req[r].active THEN {u} ELSE {})
          /\ IF req[r].token = 0
             THEN Finish(r)
             ELSE Goto(r, [req[r] EXCEPT !.pc = "storeToken", !.uid = u])
    BY <1>2 DEF InsertUnchecked
  <2>2. req[r].pc = "insert" /\ UNCHANGED <<mails, stranded, revivable>>
    BY <1>2 DEF InsertUnchecked
  <2>3. SlotOK(req[r], users, lastToken, activated) /\ req[r] \in Request
    BY Held DEF SlotOK
  <2>4. PICK a \in Account :
          a = [email |-> req[r].email, name |-> req[r].name,
               active |-> req[r].active, deleted |-> FALSE,
               token |-> 0, fresh |-> FALSE]
    BY <2>2, <2>3 DEF SlotOK, Request, Account
  <2>5. /\ UNCHANGED lastToken
        /\ activated \subseteq activated' /\ activated' \subseteq Uid
        /\ UNCHANGED mails /\ stranded' \subseteq Uid /\ revivable' \subseteq Uid
    BY <2>1, <2>2 DEF mails, TypeInv, TypeOK
  <2>6. Write(u, a)
    BY <2>1, <2>4
  <2>7. CASE Finish(r)
    BY <2>5, <2>6, <2>7, WriteAndFinish
  <2>8. CASE req[r].token # 0 /\ Goto(r, [req[r] EXCEPT !.pc = "storeToken", !.uid = u])
    <3> DEFINE q == [req[r] EXCEPT !.pc = "storeToken", !.uid = u]
    <3>1. Grows /\ users'[u] = a
      BY <2>5, <2>6, WriteGrows
    <3>2. Typed
      BY <2>5, <2>8, Going DEF Typed, mails, TypeInv, TypeOK
    <3>3. /\ q \in Request /\ q.pc = "storeToken" /\ q.uid = u
          /\ q.token = req[r].token
      BY <2>3 DEF Request, Pcs
    <3>4. SlotOK(q, users', lastToken', activated')
      <4> HIDE DEF q
      <4>1. users'[u] # Absent
        BY <3>1, AccountAbsent
      <4> QED BY <2>3, <2>5, <2>8, <3>3, <4>1 DEF SlotOK, Working
    <3> QED
      BY <2>8, <3>1, <3>2, <3>4, Going, SlotStep
  <2> QED
    BY <2>1, <2>7, <2>8
<1> QED
  BY <1>1, <1>2 DEF Insert

LEMMA StoreTokenOK ==
    ASSUME TypeInv, NEW r \in Req, StoreToken(r)
    PROVE  TypeInv'
<1>1. req[r].pc = "storeToken" /\ UNCHANGED <<mails, fates>>
      /\ Goto(r, [req[r] EXCEPT !.pc = "mail"])
  BY DEF StoreToken
<1>2. PICK u \in Uid, t \in Nat : u = req[r].uid /\ t = req[r].token
  BY <1>1, DocumentOf, Held DEF SlotOK, Request, Working
<1>3. PICK a \in Account : a = [users[u] EXCEPT !.token = t, !.fresh = TRUE]
  BY <1>1, <1>2, DocumentOf DEF Account, Working
<1>4. Grows
  BY <1>1, <1>2, <1>3, WriteGrows DEF StoreToken, mails, fates, TypeInv, TypeOK
<1>5. Typed
  BY <1>1, Going DEF Typed, mails, fates, TypeInv, TypeOK
<1> QED
  BY <1>1, <1>4, <1>5, MoveOK DEF Pcs, Working

LEMMA MailTokenOK ==
    ASSUME TypeInv, NEW r \in Req, MailToken(r)
    PROVE  TypeInv'
<1>1. /\ req[r].token \in 1..lastToken
      /\ UNCHANGED <<users, lastToken, unmailed, fates>>
      /\ mailed' = mailed \cup {req[r].token} /\ Finish(r)
  BY Held, ConstantsAssumption DEF MailToken, SlotOK, Request, TypeInv, TypeOK
<1>2. Grows
  BY <1>1 DEF Grows, TypeInv, TypeOK, Users, Exists, fates
<1>3. Typed
  BY <1>1, Going DEF Finish, Typed, TypeInv, TypeOK, fates
<1> QED
  BY <1>1, <1>2, <1>3, FinishStep

LEMMA ResendLookupOK ==
    ASSUME TypeInv, NEW r \in Req, NEW email, ResendLookup(r, email)
    PROVE  TypeInv'
<1>1. PICK u \in Uid :
        /\ Exists(u)
        /\ Begin(r, "resend", [Idle EXCEPT !.pc = "storeToken", !.uid = u,
                                           !.token = lastToken + 1])
  BY DEF ResendLookup
<1>2. PICK t \in Nat : t = lastToken + 1
  BY ConstantsAssumption DEF TypeInv, TypeOK
<1> DEFINE q == [Idle EXCEPT !.pc = "storeToken", !.uid = u, !.token = t]
<1>3. /\ lastToken' = t /\ lastToken' \in 0..MaxToken /\ lastToken \in Nat
      /\ UNCHANGED <<users, mailed, unmailed, fates>>
  BY <1>2, ConstantsAssumption DEF ResendLookup, TypeInv, TypeOK
<1>4. Grows
  BY <1>2, <1>3 DEF fates, Grows, TypeInv, TypeOK, Users, Exists
<1>5. Typed
  BY <1>1, <1>2, <1>3, Beginning DEF fates, Typed, TypeInv, TypeOK
<1>6. q \in Request /\ q.pc = "storeToken" /\ q.uid = u /\ q.token = t
  BY DEF Idle, Request, Pcs
<1>7. SlotOK(q, users', lastToken', activated')
  <2> HIDE DEF q
  <2> QED BY <1>1, <1>2, <1>3, <1>6 DEF SlotOK, Working, Exists
<1> QED
  BY <1>1, <1>2, <1>4, <1>5, <1>7, Beginning, SlotStep

\* A request that starts on an existing account.
LEMMA StartOK ==
    ASSUME TypeInv, NEW r \in Req, NEW u \in Uid, Exists(u), NEW kind, NEW q,
           Begin(r, kind, q), UNCHANGED <<users, mails, activated, stranded>>,
           revivable' \subseteq Uid,
           q \in Request, q.pc \in {"activate", "checkName", "softDelete", "setActive"},
           q.uid = u, q.token = 0
    PROVE  TypeInv'
<1>1. Grows
  BY DEF mails, Grows, TypeInv, TypeOK, Users, Exists
<1>2. Typed
  BY Beginning DEF mails, Typed, TypeInv, TypeOK
<1>3. SlotOK(q, users', lastToken', activated')
  BY ConstantsAssumption DEF SlotOK, Working, Exists, mails, TypeInv, TypeOK
<1> QED
  BY <1>1, <1>2, <1>3, Beginning, SlotStep

LEMMA VerifyLookupOK ==
    ASSUME TypeInv, NEW r \in Req, NEW u \in Uid, VerifyLookup(r, u)
    PROVE  TypeInv'
<1> DEFINE q == [Idle EXCEPT !.pc = "activate", !.uid = u]
<1>1. q \in Request /\ q.pc = "activate" /\ q.uid = u /\ q.token = 0
  BY DEF Idle, Request, Pcs
<1>2. revivable' \subseteq Uid
  BY DEF VerifyLookup, TypeInv, TypeOK
<1>3. /\ Exists(u) /\ Begin(r, "verify", q)
      /\ UNCHANGED <<users, mails, activated, stranded>>
  BY DEF VerifyLookup
<1> QED
  BY <1>1, <1>2, <1>3, StartOK

LEMMA UpdateLookupOK ==
    ASSUME TypeInv, NEW r \in Req, NEW u \in Uid,
           NEW email \in Emails \cup {Same}, NEW name \in Names \cup {Same},
           UpdateLookup(r, u, email, name)
    PROVE  TypeInv'
<1> DEFINE q == [Idle EXCEPT !.pc = "checkName", !.uid = u, !.email = email,
                             !.name = name]
<1>1. q \in Request /\ q.pc = "checkName" /\ q.uid = u /\ q.token = 0
  BY DEF Idle, Request, Pcs
<1>2. /\ Exists(u) /\ Begin(r, "update", q) /\ revivable' \subseteq Uid
      /\ UNCHANGED <<users, mails, activated, stranded>>
  BY DEF UpdateLookup, fates, TypeInv, TypeOK
<1> QED
  BY <1>1, <1>2, StartOK

LEMMA DeleteLookupOK ==
    ASSUME TypeInv, NEW r \in Req, NEW u \in Uid, DeleteLookup(r, u)
    PROVE  TypeInv'
<1> DEFINE q == [Idle EXCEPT !.pc = "softDelete", !.uid = u]
<1>1. q \in Request /\ q.pc = "softDelete" /\ q.uid = u /\ q.token = 0
  BY DEF Idle, Request, Pcs
<1>2. /\ Exists(u) /\ Begin(r, "delete", q) /\ revivable' \subseteq Uid
      /\ UNCHANGED <<users, mails, activated, stranded>>
  BY DEF DeleteLookup, fates, TypeInv, TypeOK
<1> QED
  BY <1>1, <1>2, StartOK

LEMMA ToggleLookupOK ==
    ASSUME TypeInv, NEW r \in Req, NEW u \in Uid, ToggleLookup(r, u)
    PROVE  TypeInv'
<1>1. Exists(u) /\ users[u] \in Account
  BY DEF ToggleLookup, Exists, TypeInv, TypeOK
<1>2. PICK b \in BOOLEAN : b = ~users[u].active
  BY <1>1 DEF Account
<1> DEFINE q == [Idle EXCEPT !.pc = "setActive", !.uid = u, !.active = b]
<1>3. q \in Request /\ q.pc = "setActive" /\ q.uid = u /\ q.token = 0
  BY DEF Idle, Request, Pcs
<1>4. /\ Begin(r, "toggle", q) /\ revivable' \subseteq Uid
      /\ UNCHANGED <<users, mails, activated, stranded>>
  BY <1>2 DEF ToggleLookup, ToggleAnyone, fates, TypeInv, TypeOK
<1> QED
  BY <1>1, <1>3, <1>4, StartOK

LEMMA ActivateOK ==
    ASSUME TypeInv, NEW r \in Req, Activate(r)
    PROVE  TypeInv'
<1>1. /\ req[r].pc = "activate" /\ UNCHANGED <<mails, stranded, revivable>>
      /\ activated' = activated \cup {req[r].uid}
      /\ Goto(r, [req[r] EXCEPT !.pc = "unset"])
  BY DEF Activate
<1>2. PICK u \in Uid : u = req[r].uid
  BY <1>1, DocumentOf DEF Working
<1>3. PICK a \in Account : a = [users[u] EXCEPT !.active = TRUE]
  BY <1>1, <1>2, DocumentOf DEF Account, Working
<1>4. Grows
  BY <1>1, <1>2, <1>3, WriteGrows DEF Activate, mails, TypeInv, TypeOK
<1>5. Typed
  BY <1>1, Going DEF Typed, mails, TypeInv, TypeOK
<1> QED
  BY <1>1, <1>4, <1>5, MoveOK DEF Pcs, Working

LEMMA UnsetTokenOK ==
    ASSUME TypeInv, NEW r \in Req, UnsetToken(r)
    PROVE  TypeInv'
<1>1. PICK u \in Uid : u = req[r].uid /\ users[u] \in Account
  BY DocumentOf DEF UnsetToken, Working
<1>2. PICK a \in Account : a = [users[u] EXCEPT !.token = 0, !.fresh = FALSE]
  BY <1>1 DEF Account
<1> QED
  BY <1>1, <1>2, WriteAndFinish DEF UnsetToken, fates, TypeInv, TypeOK

LEMMA SoftDeleteOK ==
    ASSUME TypeInv, NEW r \in Req, SoftDelete(r)
    PROVE  TypeInv'
<1>1. PICK u \in Uid : u = req[r].uid /\ users[u] \in Account
  BY DocumentOf DEF SoftDelete, Working
<1>2. PICK a \in Account : a = [users[u] EXCEPT !.active = FALSE, !.deleted = TRUE]
  BY <1>1 DEF Account
<1> QED
  BY <1>1, <1>2, WriteAndFinish DEF SoftDelete, TypeInv, TypeOK

LEMMA SetActiveOK ==
    ASSUME TypeInv, NEW r \in Req, SetActive(r)
    PROVE  TypeInv'
<1>1. PICK u \in Uid, b \in BOOLEAN :
        u = req[r].uid /\ users[u] \in Account /\ b = req[r].active
  BY DocumentOf, Held DEF SetActive, Working, SlotOK, Request
<1>2. PICK a \in Account : a = [users[u] EXCEPT !.active = b]
  BY <1>1 DEF Account
<1> QED
  BY <1>1, <1>2, WriteAndFinish DEF SetActive, TypeInv, TypeOK

LEMMA RenamedType ==
    ASSUME TypeInv, NEW r \in Req, req[r].pc = "write"
    PROVE  Renamed(req[r]) \in Account
<1>1. users[req[r].uid] \in Account /\ req[r] \in Request
  BY DocumentOf, Held DEF Working, SlotOK
<1> DEFINE e == IF req[r].email = Same THEN users[req[r].uid].email ELSE req[r].email
           n == IF req[r].name = Same THEN users[req[r].uid].name ELSE req[r].name
<1>2. e \in Emails /\ n \in Names
  BY <1>1 DEF Account, Request
<1>3. Renamed(req[r]) = [users[req[r].uid] EXCEPT !.email = e, !.name = n]
  BY DEF Renamed
<1> HIDE DEF e, n
<1> QED
  BY <1>1, <1>2, <1>3 DEF Account

LEMMA UpdateUserOK ==
    ASSUME TypeInv, NEW r \in Req, UpdateUser(r)
    PROVE  TypeInv'
<1>1. CASE UNCHANGED users
  BY <1>1, Going, QuietGrows, FinishStep DEF UpdateUser, Finish
<1>2. CASE Write(req[r].uid, Renamed(req[r]))
  <2>1. PICK u \in Uid, a \in Account : u = req[r].uid /\ a = Renamed(req[r])
    BY DocumentOf, RenamedType DEF UpdateUser, Working
  <2> QED
    BY <1>2, <2>1, WriteAndFinish DEF UpdateUser, fates, TypeInv, TypeOK
<1> QED
  BY <1>1, <1>2 DEF UpdateUser

LEMMA RequestFailsOK ==
    ASSUME TypeInv, NEW r \in Req, RequestFails(r)
    PROVE  TypeInv'
<1>1. UNCHANGED <<users, lastToken, mailed, activated, revivable>> /\ Finish(r)
  BY DEF RequestFails
<1>2. stranded' \subseteq Uid
  BY DEF RequestFails, Registering, TypeInv, TypeOK
<1>3. req[r].pc = "mail" => req[r].token \in 1..lastToken
  BY Held, ConstantsAssumption DEF SlotOK, Request, TypeInv, TypeOK
<1>4. unmailed' \subseteq 1..lastToken'
  BY <1>1, <1>3 DEF RequestFails, TypeInv, TypeOK
<1>5. Grows
  BY <1>1 DEF Grows, TypeInv, TypeOK, Users, Exists
<1>6. Typed
  BY <1>1, <1>2, <1>4, Going DEF Finish, Typed, TypeInv, TypeOK
<1> QED
  BY <1>1, <1>5, <1>6, FinishStep

LEMMA ExpireOK ==
    ASSUME TypeInv, NEW u \in Uid, Expire(u)
    PROVE  TypeInv'
<1>1. PICK a \in Account : a = [users[u] EXCEPT !.fresh = FALSE]
  BY DEF Expire, Exists, TypeInv, TypeOK, Account
<1>2. Grows
  BY <1>1, WriteGrows DEF Expire, mails, fates, TypeInv, TypeOK
<1>3. TypeOK'
  BY <1>2 DEF Expire, mails, fates, TypeInv, TypeOK, Grows, Users
<1>4. SlotsOK'
  BY <1>2 DEF Expire, mails, fates, TypeInv, Grows, SlotsOK, SlotOK, Exists
<1> QED
  BY <1>3, <1>4 DEF TypeInv

LEMMA InitOK == Init => TypeInv
<1> SUFFICES ASSUME Init PROVE TypeInv
  OBVIOUS
<1>1. TypeOK
  <2>1. Idle \in Request
    BY DEF Idle, Request, Pcs
  <2> QED
    BY <2>1, ConstantsAssumption DEF Init, TypeOK
<1>2. SlotsOK
  BY IdleOK DEF Init, SlotsOK
<1> QED
  BY <1>1, <1>2 DEF TypeInv

LEMMA NextOK == TypeInv /\ [Next]_vars => TypeInv'
<1> SUFFICES ASSUME TypeInv, [Next]_vars PROVE TypeInv'
  OBVIOUS
<1>1. ASSUME NEW r \in Req, Steps(r) PROVE TypeInv'
  BY <1>1, CreateCheckOK, InsertOK, StoreTokenOK, MailTokenOK, ActivateOK,
     UnsetTokenOK, UpdateCheckNameOK, UpdateUserOK, SoftDeleteOK, SetActiveOK
     DEF Steps
<1>2. ASSUME NEW r \in Req, RequestFails(r) \/ PopulateUsers(r) PROVE TypeInv'
  BY <1>2, RequestFailsOK, PopulateUsersOK
<1>3. ASSUME NEW r \in Req, NEW email \in Emails,
             \/ ResendLookup(r, email)
             \/ \E name \in Names :
                  RegisterCheck(r, email, name) \/ AdminCreate(r, email, name)
      PROVE  TypeInv'
  BY <1>3, ResendLookupOK, RegisterCheckOK, AdminCreateOK
<1>4. ASSUME NEW r \in Req, NEW u \in Uid,
             \/ VerifyLookup(r, u) \/ DeleteLookup(r, u) \/ ToggleLookup(r, u)
             \/ \E email \in Emails \cup {Same}, name \in Names \cup {Same} :
                  UpdateLookup(r, u, email, name)
      PROVE  TypeInv'
  BY <1>4, VerifyLookupOK, DeleteLookupOK, ToggleLookupOK, UpdateLookupOK
<1>5. ASSUME NEW u \in Uid, Expire(u) PROVE TypeInv'
  BY <1>5, ExpireOK
<1>6. CASE UNCHANGED vars
  BY <1>6 DEF vars, mails, fates, TypeInv, TypeOK, SlotsOK, SlotOK
<1> QED
  BY <1>1, <1>2, <1>3, <1>4, <1>5, <1>6 DEF Next

THEOREM Types == Spec => []TypeInv
BY InitOK, NextOK, PTL DEF Spec

\* The types, for the code's account document and its handlers
\* (user.entity.ts:18-124).
THEOREM TypeCorrect == Spec => []TypeOK
<1>1. TypeInv => TypeOK
  BY DEF TypeInv
<1> QED
  BY <1>1, Types, PTL

(***************************************************************************)
(* No two accounts share an address or a user name: only Insert and        *)
(* UpdateUser change one, and both are refused by the unique indexes.      *)
(***************************************************************************)
LEMMA UniqueKept ==
    ASSUME TypeInv, AccountsUnique, NEW w \in Uid, NEW a \in Account,
           Write(w, a), ~EmailTaken(a.email, w), ~NameTaken(a.name, w)
    PROVE  AccountsUnique'
BY AccountAbsent
   DEF AccountsUnique, Write, EmailTaken, NameTaken, Exists, TypeInv, TypeOK

\* A write that keeps the address and the user name.
LEMMA UniqueSame ==
    ASSUME TypeInv, AccountsUnique, NEW w \in Uid, Exists(w), NEW a,
           Write(w, a), a.email = users[w].email, a.name = users[w].name
    PROVE  AccountsUnique'
BY AccountAbsent DEF AccountsUnique, Write, Exists, TypeInv, TypeOK

LEMMA UniqueStill ==
    ASSUME AccountsUnique, UNCHANGED users
    PROVE  AccountsUnique'
BY DEF AccountsUnique, Exists

LEMMA UniqueInsert ==
    ASSUME TypeInv, AccountsUnique, NEW r \in Req, Insert(r)
    PROVE  AccountsUnique'
<1>1. CASE UNCHANGED users
  BY <1>1, UniqueStill
<1>2. CASE ~Conflict(req[r].email, req[r].name) /\ InsertUnchecked(r)
  <2>1. req[r].pc = "insert" /\ SlotOK(req[r], users, lastToken, activated)
    BY <1>2, Held DEF InsertUnchecked
  <2>2. PICK a \in Account :
          a = [email |-> req[r].email, name |-> req[r].name,
               active |-> req[r].active, deleted |-> FALSE,
               token |-> 0, fresh |-> FALSE]
    BY <2>1 DEF SlotOK, Request, Account
  <2>3. PICK w \in Uid : Write(w, a)
    BY <1>2, <2>2 DEF InsertUnchecked
  <2>4. ~EmailTaken(a.email, w) /\ ~NameTaken(a.name, w)
    BY <1>2, <2>2, AccountAbsent DEF Conflict, EmailTaken, NameTaken
  <2> QED
    BY <2>3, <2>4, UniqueKept
<1> QED
  BY <1>1, <1>2 DEF Insert

LEMMA UniqueUpdate ==
    ASSUME TypeInv, AccountsUnique, NEW r \in Req, UpdateUser(r)
    PROVE  AccountsUnique'
<1>1. CASE UNCHANGED users
  BY <1>1, UniqueStill
<1>2. CASE /\ Write(req[r].uid, Renamed(req[r]))
           /\ ~EmailTaken(Renamed(req[r]).email, req[r].uid)
           /\ ~NameTaken(Renamed(req[r]).name, req[r].uid)
  <2>1. req[r].uid \in Uid /\ Renamed(req[r]) \in Account
    BY DocumentOf, RenamedType DEF UpdateUser, Working
  <2> QED
    BY <1>2, <2>1, UniqueKept
<1> QED
  BY <1>1, <1>2 DEF UpdateUser

\* The writes that leave the address and the user name alone.
LEMMA UniqueOther ==
    ASSUME TypeInv, AccountsUnique, NEW r \in Req,
           \/ StoreToken(r) \/ Activate(r) \/ UnsetToken(r)
           \/ SoftDelete(r) \/ SetActive(r)
    PROVE  AccountsUnique'
<1>1. req[r].pc \in Working
  BY DEF StoreToken, Activate, UnsetToken, SoftDelete, SetActive, Working
<1>2. PICK w \in Uid : w = req[r].uid /\ Exists(w) /\ users[w] \in Account
  BY <1>1, DocumentOf, AccountAbsent DEF Exists
<1>3. PICK t, b : t = req[r].token /\ b = req[r].active
  OBVIOUS
<1>4. \/ Write(w, [users[w] EXCEPT !.token = t, !.fresh = TRUE])
      \/ Write(w, [users[w] EXCEPT !.active = TRUE])
      \/ Write(w, [users[w] EXCEPT !.token = 0, !.fresh = FALSE])
      \/ Write(w, [users[w] EXCEPT !.active = FALSE, !.deleted = TRUE])
      \/ Write(w, [users[w] EXCEPT !.active = b])
  BY <1>2, <1>3 DEF StoreToken, Activate, UnsetToken, SoftDelete, SetActive
<1>5. ASSUME NEW a, Write(w, a), a.email = users[w].email, a.name = users[w].name
      PROVE  AccountsUnique'
  BY <1>2, <1>5, UniqueSame
<1>6. CASE Write(w, [users[w] EXCEPT !.token = t, !.fresh = TRUE])
  BY <1>2, <1>5, <1>6 DEF Account
<1>7. CASE Write(w, [users[w] EXCEPT !.active = TRUE])
  BY <1>2, <1>5, <1>7 DEF Account
<1>8. CASE Write(w, [users[w] EXCEPT !.token = 0, !.fresh = FALSE])
  BY <1>2, <1>5, <1>8 DEF Account
<1>9. CASE Write(w, [users[w] EXCEPT !.active = FALSE, !.deleted = TRUE])
  BY <1>2, <1>5, <1>9 DEF Account
<1>10. CASE Write(w, [users[w] EXCEPT !.active = b])
  BY <1>2, <1>5, <1>10 DEF Account
<1> QED
  BY <1>4, <1>6, <1>7, <1>8, <1>9, <1>10

LEMMA UniqueNext == TypeInv /\ AccountsUnique /\ [Next]_vars => AccountsUnique'
<1> SUFFICES ASSUME TypeInv, AccountsUnique, [Next]_vars PROVE AccountsUnique'
  OBVIOUS
<1>1. CASE UNCHANGED users
  BY <1>1, UniqueStill
<1>2. CASE \E r \in Req : Insert(r)
  BY <1>2, UniqueInsert
<1>3. CASE \E r \in Req : UpdateUser(r)
  BY <1>3, UniqueUpdate
<1>4. CASE \E r \in Req : \/ StoreToken(r) \/ Activate(r) \/ UnsetToken(r)
                         \/ SoftDelete(r) \/ SetActive(r)
  BY <1>4, UniqueOther
<1>5. CASE \E u \in Uid : Expire(u)
  <2>1. PICK u \in Uid : Expire(u)
    BY <1>5
  <2>2. Exists(u) /\ users[u] \in Account
    BY <2>1 DEF Expire, Exists, TypeInv, TypeOK
  <2>3. PICK a : Write(u, a) /\ a.email = users[u].email /\ a.name = users[u].name
    BY <2>1, <2>2 DEF Expire, Account
  <2> QED
    BY <2>2, <2>3, UniqueSame
<1> QED
  BY <1>1, <1>2, <1>3, <1>4, <1>5
     DEF Next, Steps, vars, CreateCheck, MailToken, UpdateCheckName,
         RequestFails, PopulateUsers, ResendLookup, RegisterCheck, AdminCreate,
         VerifyLookup, DeleteLookup, ToggleLookup, ToggleAnyone, UpdateLookup

\* However checks, inserts and updates interleave, no two accounts share an
\* address or a user name (user.service.ts:95-107, user.service.ts:412-431).
THEOREM Unique == Spec => []AccountsUnique
<1>1. Init => AccountsUnique
  BY DEF Init, AccountsUnique, Exists
<1> QED
  BY <1>1, Types, UniqueNext, PTL DEF Spec

(***************************************************************************)
(* Tokens, strandings and deletions.  The strengthening says what a        *)
(* suspended activation has to do with the deletion.                       *)
(***************************************************************************)
Reviving ==
    \A r \in Req, u \in Uid :
        Activating(req[r], u) /\ Exists(u) /\ users[u].deleted
        => u \in revivable

Safe == StoredTokenMailed /\ NeverStranded /\ DeletedStaysInactive /\ Reviving

\* What a step leaves in the histories.
Recorded ==
    /\ mailed \subseteq mailed' /\ unmailed \subseteq unmailed'
    /\ activated \subseteq activated' /\ stranded \subseteq stranded'
    /\ revivable \subseteq revivable'

\* A step that leaves the documents alone.
LEMMA QuietSafe ==
    ASSUME TypeInv, Safe, Recorded, NEW r \in Req, NEW q,
           UNCHANGED users, req' = [req EXCEPT ![r] = q],
           req[r].pc = "mail" => req[r].token \in mailed' \cup unmailed',
           \A u \in Uid : Registering(req[r], u) => u \in stranded',
           \A u \in Uid : /\ Activating(q, u) /\ Exists(u)
                         /\ users[u].deleted => u \in revivable'
    PROVE  Safe'
<1>0. /\ req'[r] = q
      /\ \A s \in Req \ {r} : req'[s] = req[s]
  BY DEF TypeInv, TypeOK
<1>1. StoredTokenMailed'
  BY <1>0 DEF Safe, StoredTokenMailed, Recorded, Mailing, Exists
<1>2. NeverStranded'
  BY <1>0 DEF Safe, NeverStranded, Recorded, Registering, Exists
<1>3. DeletedStaysInactive'
  BY DEF Safe, DeletedStaysInactive, Recorded, Exists
<1>4. Reviving'
  BY <1>0 DEF Safe, Reviving, Recorded, Activating, Exists
<1> QED
  BY <1>1, <1>2, <1>3, <1>4 DEF Safe

\* A step that writes an existing document.
LEMMA WriteSafe ==
    ASSUME TypeInv, Safe, Recorded, NEW r \in Req, NEW q,
           req' = [req EXCEPT ![r] = q], req[r].pc # "mail",
           NEW w \in Uid, NEW a, Exists(w), Write(w, a),
           \/ a.token = users[w].token
           \/ a.token = 0 /\ w \in activated'
           \/ a.token # 0 /\ Mailing(q, a.token),
           \A u \in Uid : Registering(req[r], u) => u = w /\ a.token # 0,
           a.deleted /\ a.active => w \in revivable',
           \A u \in Uid : ~Activating(q, u),
           \/ a.deleted = users[w].deleted
           \/ \A s \in Req : Activating(req[s], w) => w \in revivable'
    PROVE  Safe'
<1>0. /\ req'[r] = q
      /\ \A s \in Req \ {r} : req'[s] = req[s]
      /\ users'[w] = a
      /\ \A u \in Uid \ {w} : users'[u] = users[u]
  BY DEF TypeInv, TypeOK, Write
<1>1. StoredTokenMailed'
  BY <1>0 DEF Safe, StoredTokenMailed, Recorded, Mailing, Exists
<1>2. NeverStranded'
  BY <1>0 DEF Safe, NeverStranded, Recorded, Registering, Exists
<1>3. DeletedStaysInactive'
  BY <1>0 DEF Safe, DeletedStaysInactive, Recorded, Exists
<1>4. Reviving'
  BY <1>0 DEF Safe, Reviving, Recorded, Activating, Exists
<1> QED
  BY <1>1, <1>2, <1>3, <1>4 DEF Safe

LEMMA IdleSafe == \A u \in Uid, t \in Nat : ~Activating(Idle, u) /\ ~Mailing(Idle, t)
BY DEF Activating, Mailing, Idle

\* A request that starts, moves on or ends without a write.
LEMMA StartSafe ==
    ASSUME TypeInv, Safe, NEW r \in Req, NEW kind, NEW q, Begin(r, kind, q),
           UNCHANGED <<users, mailed, unmailed, fates>>, q.pc # "activate",
           q.pc = "setActive" => q.uid \in Uid /\ ~users[q.uid].deleted
    PROVE  Safe'
<1>1. Recorded
  BY DEF Recorded, fates
<1>2. req[r].pc = "idle" /\ req' = [req EXCEPT ![r] = q]
  BY DEF Begin
<1> QED
  BY <1>1, <1>2, QuietSafe DEF Activating, Registering

LEMMA MoveSafe ==
    ASSUME TypeInv, Safe, NEW r \in Req, UNCHANGED <<users, mails, fates>>,
           req[r].pc \in {"create", "insert", "checkName", "write"},
           \/ Finish(r)
           \/ \E pc \in {"insert", "write"} : Goto(r, [req[r] EXCEPT !.pc = pc])
    PROVE  Safe'
<1>1. Recorded
  BY DEF Recorded, fates, mails
<1>2. req[r] \in Request
  BY Held DEF SlotOK
<1>3. PICK q : /\ req' = [req EXCEPT ![r] = q]
               /\ q.pc \in {"idle", "insert", "write"}
  <2>1. CASE Finish(r)
    <3>1. req' = [req EXCEPT ![r] = Idle]
      BY <2>1 DEF Finish, Goto
    <3>2. Idle.pc = "idle"
      BY DEF Idle
    <3> QED
      BY <3>1, <3>2
  <2>2. ASSUME NEW pc \in {"insert", "write"}, Goto(r, [req[r] EXCEPT !.pc = pc])
        PROVE  \E q : /\ req' = [req EXCEPT ![r] = q]
                      /\ q.pc \in {"idle", "insert", "write"}
    <3>1. [req[r] EXCEPT !.pc = pc].pc = pc
      BY <1>2 DEF Request
    <3> QED
      BY <2>2, <3>1 DEF Goto
  <2> QED
    BY <2>1, <2>2
<1> QED
  BY <1>1, <1>3, QuietSafe DEF Activating, Registering

LEMMA MailTokenSafe ==
    ASSUME TypeInv, Safe, NEW r \in Req, MailToken(r)
    PROVE  Safe'
<1>1. Recorded /\ UNCHANGED users /\ req[r].token \in mailed'
  BY DEF MailToken, Recorded, fates
<1>2. req' = [req EXCEPT ![r] = Idle] /\ req[r].pc = "mail"
  BY DEF MailToken, Finish, Goto
<1> QED
  BY <1>1, <1>2, IdleSafe, QuietSafe DEF Registering, Activating, Idle

LEMMA RequestFailsSafe ==
    ASSUME TypeInv, Safe, NEW r \in Req, RequestFails(r)
    PROVE  Safe'
<1>1. Recorded /\ UNCHANGED users
  BY DEF RequestFails, Recorded
<1>2. req' = [req EXCEPT ![r] = Idle]
  BY DEF RequestFails, Finish, Goto
<1>3. \A u \in Uid : Registering(req[r], u) => u \in stranded'
  BY DEF RequestFails, Registering
<1>4. req[r].pc = "mail" => req[r].token \in mailed' \cup unmailed'
  BY DEF RequestFails
<1> QED
  BY <1>1, <1>2, <1>3, <1>4, IdleSafe, QuietSafe DEF Activating, Idle

LEMMA VerifyLookupSafe ==
    ASSUME TypeInv, Safe, NEW r \in Req, NEW u \in Uid, VerifyLookup(r, u)
    PROVE  Safe'
<1> DEFINE q == [Idle EXCEPT !.pc = "activate", !.uid = u]
<1>1. q.pc = "activate" /\ q.uid = u
  BY DEF Idle
<1>2. Recorded /\ UNCHANGED users
  BY DEF VerifyLookup, Recorded, mails
<1>3. req[r].pc = "idle" /\ req' = [req EXCEPT ![r] = q]
  BY DEF VerifyLookup, Begin
<1>4. users[u].deleted => u \in revivable'
  BY DEF VerifyLookup
<1> HIDE DEF q
<1> QED
  BY <1>1, <1>2, <1>3, <1>4, QuietSafe DEF Registering, Activating

LEMMA StartsSafe ==
    ASSUME TypeInv, Safe, NEW r \in Req,
           \/ PopulateUsers(r)
           \/ \E email \in Emails :
                \/ ResendLookup(r, email)
                \/ \E name \in Names :
                     RegisterCheck(r, email, name) \/ AdminCreate(r, email, name)
           \/ \E u \in Uid :
                \/ DeleteLookup(r, u)
                \/ \E email \in Emails \cup {Same}, name \in Names \cup {Same} :
                     UpdateLookup(r, u, email, name)
    PROVE  Safe'
<1>1. UNCHANGED <<users, mailed, unmailed, fates>>
  BY DEF PopulateUsers, ResendLookup, RegisterCheck, AdminCreate, DeleteLookup,
         UpdateLookup, mails
<1>2. ASSUME NEW kind, NEW pc \in {"create", "insert", "storeToken", "checkName", "softDelete"},
             NEW q, q.pc = pc, Begin(r, kind, q)
      PROVE  Safe'
  BY <1>1, <1>2, StartSafe
<1>3. CASE PopulateUsers(r)
  BY <1>2, <1>3 DEF PopulateUsers, Idle
<1>4. ASSUME NEW email \in Emails, ResendLookup(r, email) PROVE Safe'
  BY <1>2, <1>4 DEF ResendLookup, Idle
<1>5. ASSUME NEW email \in Emails, NEW name \in Names, RegisterCheck(r, email, name)
      PROVE  Safe'
  BY <1>2, <1>5 DEF RegisterCheck, Idle
<1>6. ASSUME NEW email \in Emails, NEW name \in Names, AdminCreate(r, email, name)
      PROVE  Safe'
  BY <1>2, <1>6 DEF AdminCreate, Idle
<1>7. ASSUME NEW u \in Uid, DeleteLookup(r, u) PROVE Safe'
  BY <1>2, <1>7 DEF DeleteLookup, Idle
<1>8. ASSUME NEW u \in Uid, NEW email, NEW name, UpdateLookup(r, u, email, name)
      PROVE  Safe'
  BY <1>2, <1>8 DEF UpdateLookup, Idle
<1> QED
  BY <1>3, <1>4, <1>5, <1>6, <1>7, <1>8

LEMMA ToggleLookupSafe ==
    ASSUME TypeInv, Safe, NEW r \in Req, NEW u \in Uid, ToggleLookup(r, u)
    PROVE  Safe'
<1>1. PICK b : b = ~users[u].active
  OBVIOUS
<1> DEFINE q == [Idle EXCEPT !.pc = "setActive", !.uid = u, !.active = b]
<1>2. q.pc = "setActive" /\ q.uid = u
  BY DEF Idle
<1>3. /\ Begin(r, "toggle", q) /\ ~users[u].deleted
      /\ UNCHANGED <<users, mailed, unmailed, fates>>
  BY <1>1 DEF ToggleLookup, ToggleAnyone, mails
<1> HIDE DEF q
<1> QED
  BY <1>2, <1>3, StartSafe

LEMMA InsertSafe ==
    ASSUME TypeInv, Safe, NEW r \in Req, Insert(r)
    PROVE  Safe'
<1>1. req[r].pc = "insert" /\ SlotOK(req[r], users, lastToken, activated)
  BY Held DEF Insert, InsertUnchecked
<1>2. CASE Finish(r) /\ UNCHANGED <<users, mails, fates>>
  BY <1>1, <1>2, MoveSafe
<1>3. CASE InsertUnchecked(r)
  <2>1. PICK a \in Account :
          a = [email |-> req[r].email, name |-> req[r].name,
               active |-> req[r].active, deleted |-> FALSE,
               token |-> 0, fresh |-> FALSE]
    BY <1>1 DEF SlotOK, Request, Account
  <2>2. a.token = 0 /\ a.deleted = FALSE
    BY <2>1
  <2>3. PICK w \in Uid :
          /\ ~Exists(w) /\ Write(w, a)
          /\ activated' = activated \cup (IF req[r].active THEN {w} ELSE {})
          /\ IF req[r].token = 0
             THEN Finish(r)
             ELSE Goto(r, [req[r] EXCEPT !.pc = "storeToken", !.uid = w])
    BY <1>3, <2>1 DEF InsertUnchecked
  <2>4. Recorded
    BY <1>3, <2>3 DEF InsertUnchecked, Recorded, mails
  <2>5. PICK q : /\ req' = [req EXCEPT ![r] = q]
                 /\ q.pc \in {"idle", "storeToken"}
                 /\ Registering(q, w) \/ w \in activated'
    <3>1. CASE req[r].token = 0
      <4>1. req' = [req EXCEPT ![r] = Idle] /\ w \in activated'
        BY <1>1, <2>3, <3>1 DEF Finish, Goto, SlotOK
      <4>2. Idle.pc = "idle"
        BY DEF Idle
      <4> QED
        BY <4>1, <4>2
    <3>2. CASE req[r].token # 0
      <4> DEFINE d == [req[r] EXCEPT !.pc = "storeToken", !.uid = w]
      <4>1. req' = [req EXCEPT ![r] = d]
        BY <2>3, <3>2 DEF Goto
      <4>2. d.pc = "storeToken" /\ d.uid = w /\ d.email = req[r].email
        BY <1>1 DEF SlotOK, Request
      <4>3. req[r].email # Same
        BY <1>1, ConstantsAssumption DEF SlotOK
      <4> HIDE DEF d
      <4> QED
        BY <4>1, <4>2, <4>3 DEF Registering
    <3> QED
      BY <3>1, <3>2
  <2>6. /\ req'[r] = q
        /\ \A s \in Req \ {r} : req'[s] = req[s]
        /\ users'[w] = a
        /\ \A u \in Uid \ {w} : users'[u] = users[u]
    BY <2>3, <2>5 DEF TypeInv, TypeOK, Write
  <2>7. UNCHANGED <<mailed, unmailed>>
    BY <1>3 DEF InsertUnchecked, mails
  <2>8. StoredTokenMailed'
    BY <1>1, <2>2, <2>6, <2>7 DEF Safe, StoredTokenMailed, Mailing, Exists
  <2>9. NeverStranded'
    BY <1>1, <2>4, <2>5, <2>6
       DEF Safe, NeverStranded, Recorded, Registering, Exists
  <2>10. DeletedStaysInactive'
    BY <2>2, <2>4, <2>6 DEF Safe, DeletedStaysInactive, Recorded, Exists
  <2>11. Reviving'
    BY <2>2, <2>4, <2>5, <2>6 DEF Safe, Reviving, Recorded, Activating, Exists
  <2> QED
    BY <2>8, <2>9, <2>10, <2>11 DEF Safe
<1> QED
  BY <1>2, <1>3 DEF Insert

\* What a request that writes holds.
LEMMA Writer ==
    ASSUME TypeInv, NEW r \in Req, req[r].pc \in Working
    PROVE  \E w \in Uid : /\ w = req[r].uid /\ Exists(w) /\ users[w] \in Account
                          /\ req[r] \in Request
BY DocumentOf, Held, AccountAbsent DEF Exists, SlotOK

LEMMA StoreTokenSafe ==
    ASSUME TypeInv, Safe, NEW r \in Req, StoreToken(r)
    PROVE  Safe'
<1>1. req[r].pc = "storeToken" /\ Recorded
  BY DEF StoreToken, Recorded, mails, fates
<1>2. PICK w \in Uid : /\ w = req[r].uid /\ Exists(w) /\ users[w] \in Account
                      /\ req[r] \in Request
  BY <1>1, Writer DEF Working
<1>3. PICK t \in Nat : t = req[r].token /\ t # 0
  BY <1>1, <1>2, Held DEF Request, SlotOK
<1> DEFINE a == [users[w] EXCEPT !.token = t, !.fresh = TRUE]
           q == [req[r] EXCEPT !.pc = "mail"]
<1>4. a.token = t /\ a.active = users[w].active /\ a.deleted = users[w].deleted
  BY <1>2 DEF Account
<1>5. q.pc = "mail" /\ q.token = t
  BY <1>2, <1>3 DEF Request
<1>6. Write(w, a) /\ req' = [req EXCEPT ![r] = q]
  BY <1>2, <1>3 DEF StoreToken, Goto
<1>7. a.deleted /\ a.active => w \in revivable'
  BY <1>1, <1>2, <1>4 DEF Safe, DeletedStaysInactive, Recorded
<1>8. \A u \in Uid : Registering(req[r], u) => u = w
  BY <1>2 DEF Registering
<1> HIDE DEF a, q
<1>9. a.token # 0 /\ Mailing(q, a.token)
  BY <1>3, <1>4, <1>5 DEF Mailing
<1>10. \A u \in Uid : ~Activating(q, u)
  BY <1>5 DEF Activating
<1>11. \A u \in Uid : Registering(req[r], u) => u = w /\ a.token # 0
  BY <1>8, <1>9
<1>12. req[r].pc # "mail" /\ a.deleted = users[w].deleted
  BY <1>1, <1>4
<1> QED
  BY <1>1, <1>2, <1>6, <1>7, <1>9, <1>10, <1>11, <1>12, WriteSafe

LEMMA ActivateSafe ==
    ASSUME TypeInv, Safe, NEW r \in Req, Activate(r)
    PROVE  Safe'
<1>1. req[r].pc = "activate" /\ Recorded
  BY DEF Activate, Recorded, mails
<1>2. PICK w \in Uid : /\ w = req[r].uid /\ Exists(w) /\ users[w] \in Account
                      /\ req[r] \in Request
  BY <1>1, Writer DEF Working
<1> DEFINE a == [users[w] EXCEPT !.active = TRUE]
           q == [req[r] EXCEPT !.pc = "unset"]
<1>3. a.token = users[w].token /\ a.deleted = users[w].deleted
  BY <1>2 DEF Account
<1>4. q.pc = "unset"
  BY <1>2 DEF Request
<1>5. Write(w, a) /\ req' = [req EXCEPT ![r] = q]
  BY <1>2 DEF Activate, Goto
<1>6. a.deleted => w \in revivable'
  BY <1>1, <1>2, <1>3 DEF Safe, Reviving, Activating, Recorded
<1> HIDE DEF a, q
<1> QED
  BY <1>1, <1>2, <1>3, <1>4, <1>5, <1>6, WriteSafe DEF Registering, Activating

LEMMA UnsetTokenSafe ==
    ASSUME TypeInv, Safe, NEW r \in Req, UnsetToken(r)
    PROVE  Safe'
<1>1. req[r].pc = "unset" /\ Recorded
  BY DEF UnsetToken, Recorded, mails, fates
<1>2. PICK w \in Uid : /\ w = req[r].uid /\ Exists(w) /\ users[w] \in Account
                      /\ req[r] \in Request
  BY <1>1, Writer DEF Working
<1> DEFINE a == [users[w] EXCEPT !.token = 0, !.fresh = FALSE]
<1>3. a.token = 0 /\ a.active = users[w].active /\ a.deleted = users[w].deleted
  BY <1>2 DEF Account
<1>4. w \in activated'
  BY <1>1, <1>2, Held DEF SlotOK, Recorded
<1>5. Write(w, a) /\ req' = [req EXCEPT ![r] = Idle]
  BY <1>2 DEF UnsetToken, Finish, Goto
<1>6. a.deleted /\ a.active => w \in revivable'
  BY <1>1, <1>2, <1>3 DEF Safe, DeletedStaysInactive, Recorded
<1> HIDE DEF a
<1> QED
  BY <1>1, <1>2, <1>3, <1>4, <1>5, <1>6, IdleSafe, WriteSafe
     DEF Registering

LEMMA SoftDeleteSafe ==
    ASSUME TypeInv, Safe, NEW r \in Req, SoftDelete(r)
    PROVE  Safe'
<1>1. req[r].pc = "softDelete" /\ Recorded
  BY DEF SoftDelete, Recorded, mails
<1>2. PICK w \in Uid : /\ w = req[r].uid /\ Exists(w) /\ users[w] \in Account
                      /\ req[r] \in Request
  BY <1>1, Writer DEF Working
<1> DEFINE a == [users[w] EXCEPT !.active = FALSE, !.deleted = TRUE]
<1>3. a.token = users[w].token /\ ~a.active
  BY <1>2 DEF Account
<1>4. \A s \in Req : Activating(req[s], w) => w \in revivable'
  BY <1>2 DEF SoftDelete
<1>5. Write(w, a) /\ req' = [req EXCEPT ![r] = Idle]
  BY <1>2 DEF SoftDelete, Finish, Goto
<1> HIDE DEF a
<1> QED
  BY <1>1, <1>2, <1>3, <1>4, <1>5, IdleSafe, WriteSafe DEF Registering

LEMMA SetActiveSafe ==
    ASSUME TypeInv, Safe, NEW r \in Req, SetActive(r)
    PROVE  Safe'
<1>1. req[r].pc = "setActive" /\ Recorded
  BY DEF SetActive, Recorded, mails
<1>2. PICK w \in Uid : /\ w = req[r].uid /\ Exists(w) /\ users[w] \in Account
                      /\ req[r] \in Request
  BY <1>1, Writer DEF Working
<1>3. PICK b \in BOOLEAN : b = req[r].active
  BY <1>2 DEF Request
<1> DEFINE a == [users[w] EXCEPT !.active = b]
<1>4. a.token = users[w].token /\ a.deleted = users[w].deleted /\ a.active = b
  BY <1>2 DEF Account
<1>5. Write(w, a) /\ req' = [req EXCEPT ![r] = Idle]
  BY <1>2, <1>3 DEF SetActive, Finish, Goto
<1>6. a.deleted /\ a.active => w \in revivable'
  BY <1>1, <1>2, <1>3, <1>4 DEF Safe, Reviving, Activating, Recorded
<1> HIDE DEF a
<1> QED
  BY <1>1, <1>2, <1>4, <1>5, <1>6, IdleSafe, WriteSafe DEF Registering

LEMMA UpdateUserSafe ==
    ASSUME TypeInv, Safe, NEW r \in Req, UpdateUser(r)
    PROVE  Safe'
<1>1. /\ req[r].pc = "write" /\ Recorded /\ Finish(r)
      /\ UNCHANGED <<mails, fates>>
  BY DEF UpdateUser, Recorded, mails, fates
<1>2. CASE UNCHANGED users
  BY <1>1, <1>2, MoveSafe
<1>3. CASE Write(req[r].uid, Renamed(req[r]))
  <2>1. PICK w \in Uid : /\ w = req[r].uid /\ Exists(w) /\ users[w] \in Account
                        /\ req[r] \in Request
    BY <1>1, Writer DEF Working
  <2>2. PICK a : a = Renamed(req[r])
    OBVIOUS
  <2>3. /\ a.token = users[w].token /\ a.active = users[w].active
        /\ a.deleted = users[w].deleted
    BY <2>1, <2>2 DEF Renamed, Account
  <2>4. a.deleted /\ a.active => w \in revivable'
    BY <1>1, <2>1, <2>3 DEF Safe, DeletedStaysInactive, Recorded
  <2>5. req' = [req EXCEPT ![r] = Idle] /\ Write(w, a)
    BY <1>1, <1>3, <2>1, <2>2 DEF Finish, Goto
  <2> QED
    BY <1>1, <2>1, <2>3, <2>4, <2>5, IdleSafe, WriteSafe DEF Registering
<1> QED
  BY <1>2, <1>3 DEF UpdateUser

LEMMA ExpireSafe ==
    ASSUME TypeInv, Safe, NEW u \in Uid, Expire(u)
    PROVE  Safe'
<1>1. users[u] \in Account /\ Exists(u)
  BY DEF Expire, Exists, TypeInv, TypeOK
<1> DEFINE a == [users[u] EXCEPT !.fresh = FALSE]
<1>2. /\ a.token = users[u].token /\ a.active = users[u].active
      /\ a.deleted = users[u].deleted
  BY <1>1 DEF Account
<1>3. /\ users'[u] = a
      /\ \A v \in Uid \ {u} : users'[v] = users[v]
      /\ UNCHANGED <<req, mailed, unmailed, activated, stranded, revivable>>
  BY DEF Expire, Write, TypeInv, TypeOK, mails, fates
<1> HIDE DEF a
<1>4. StoredTokenMailed'
  BY <1>1, <1>2, <1>3 DEF Safe, StoredTokenMailed, Mailing, Exists
<1>5. NeverStranded'
  BY <1>1, <1>2, <1>3 DEF Safe, NeverStranded, Registering, Exists
<1>6. DeletedStaysInactive'
  BY <1>1, <1>2, <1>3 DEF Safe, DeletedStaysInactive, Exists
<1>7. Reviving'
  BY <1>1, <1>2, <1>3 DEF Safe, Reviving, Activating, Exists
<1> QED
  BY <1>4, <1>5, <1>6, <1>7 DEF Safe

LEMMA CheckSafe ==
    ASSUME TypeInv, Safe, NEW r \in Req, CreateCheck(r) \/ UpdateCheckName(r)
    PROVE  Safe'
BY MoveSafe DEF CreateCheck, UpdateCheckName

LEMMA SafeNext == TypeInv /\ Safe /\ [Next]_vars => Safe'
<1> SUFFICES ASSUME TypeInv, Safe, [Next]_vars PROVE Safe'
  OBVIOUS
<1>1. ASSUME NEW r \in Req, Steps(r) PROVE Safe'
  BY <1>1, CheckSafe, InsertSafe, StoreTokenSafe, MailTokenSafe, ActivateSafe,
     UnsetTokenSafe, UpdateUserSafe, SoftDeleteSafe, SetActiveSafe DEF Steps
<1>2. ASSUME NEW r \in Req, RequestFails(r) PROVE Safe'
  BY <1>2, RequestFailsSafe
<1>3. ASSUME NEW r \in Req,
             \/ PopulateUsers(r)
             \/ \E email \in Emails :
                  \/ ResendLookup(r, email)
                  \/ \E name \in Names :
                       RegisterCheck(r, email, name) \/ AdminCreate(r, email, name)
      PROVE  Safe'
  BY <1>3, StartsSafe
<1>4. ASSUME NEW r \in Req, NEW u \in Uid,
             \/ VerifyLookup(r, u) \/ DeleteLookup(r, u) \/ ToggleLookup(r, u)
             \/ \E email \in Emails \cup {Same}, name \in Names \cup {Same} :
                  UpdateLookup(r, u, email, name)
      PROVE  Safe'
  BY <1>4, StartsSafe, VerifyLookupSafe, ToggleLookupSafe
<1>5. ASSUME NEW u \in Uid, Expire(u) PROVE Safe'
  BY <1>5, ExpireSafe
<1>6. CASE UNCHANGED vars
  BY <1>6 DEF vars, mails, fates, Safe, StoredTokenMailed, NeverStranded,
              DeletedStaysInactive, Reviving, Mailing, Registering, Activating,
              Exists
<1> QED
  BY <1>1, <1>2, <1>3, <1>4, <1>5, <1>6 DEF Next

LEMMA SafeInit == Init => Safe
BY DEF Init, Safe, StoredTokenMailed, NeverStranded, DeletedStaysInactive,
       Reviving, Activating, Idle, Exists

THEOREM Safety == Spec => []Safe
BY SafeInit, SafeNext, Types, PTL DEF Spec

\* However registrations, resends and verifications interleave, the token of an
\* account was mailed or is about to be (auth.service.ts:73-118,
\* auth.service.ts:412-428).
THEOREM TokensMailed == Spec => []StoredTokenMailed
<1>1. Safe => StoredTokenMailed
  BY DEF Safe
<1> QED
  BY <1>1, Safety, PTL

\* Whatever dies, only a registration that dies before it stores its token
\* leaves an account that can never be verified (auth.service.ts:272-285).
THEOREM Verifiable == Spec => []NeverStranded
<1>1. Safe => NeverStranded
  BY DEF Safe
<1> QED
  BY <1>1, Safety, PTL

\* A toggle that reads the account after its deletion never activates it
\* (user.service.ts:449-488).
THEOREM DeletionHolds == Spec => []DeletedStaysInactive
<1>1. Safe => DeletedStaysInactive
  BY DEF Safe
<1> QED
  BY <1>1, Safety, PTL

=============================================================================
