------------------------- MODULE AccessCacheProofs -------------------------
(***************************************************************************)
(* TLAPS proofs about AccessCache: it implements BoundedAccess, for all    *)
(* sets of users, roles, permissions and requests, all lives of entries    *)
(* and any number of writes, lost invalidations and failing commands.      *)
(*                                                                         *)
(* The inductive invariant says how "recent" accounts for every copy of a  *)
(* document: what is stored has a whole life left (RecentOK), an entry     *)
(* never outlives what it copies (CacheOK), and a request that is          *)
(* suspended between its read and its fill holds a document that had a     *)
(* whole life left (SlotOK), since the clock stands while it does.         *)
(***************************************************************************)
EXTENDS AccessCache, SequenceTheorems, TLAPS

\* What a read of a user, a role, a permission or one of the lists answers.
Answers == UserDoc \cup RoleDoc \cup {Absent} \cup BOOLEAN
           \cup [Rid -> RoleDoc \cup {Absent}] \cup SUBSET Perm

Request == [pc : Pcs, op : AllOps, key : Key, held : Answers,
            user : UserDoc \cup {Absent}, rid : Rid \cup {Absent},
            name : User \cup RoleName \cup {Absent}, perms : SUBSET Perm,
            todo : SUBSET Perm, at : Nat]

DocsOK ==
    /\ users \in [User -> UserDoc]
    /\ roles \in [Rid -> RoleDoc \cup {Absent}]
    /\ catalogue \in SUBSET (Perm \ {Wildcard})

RecentOK ==
    \A k \in DecisiveKeys :
        /\ recent[k] \in [Value(k) -> 0 .. Life(k)]
        /\ recent[k][Stored(k)] = Life(k)

CacheOK ==
    /\ cache \in [Key -> [left : Nat, value : Answers]]
    /\ \A k \in Key : cache[k].left <= Life(k)
    /\ \A k \in DecisiveKeys : cache[k].left > 0 =>
         /\ cache[k].value \in Value(k)
         /\ cache[k].left <= recent[k][cache[k].value]

\* The arguments that the operation of a request needs.
ArgumentsOK(q) ==
    /\ q.op = "access" /\ q.pc # "idle" => q.name \in User
    /\ q.pc = "count" => q.op = "removeRole"
    /\ q.op = "updateUser" /\ q.pc # "idle" => q.key \in UserKeys
    /\ q.op \in {"updateUser", "createRole", "updateRole"} /\ q.pc # "idle" =>
         q.name \in RoleName
    /\ q.op \in {"setPermissions", "updateRole", "removeRole"} /\ q.pc # "idle" =>
         q.rid \in Rid
    /\ q.op = "seedRoles" /\ q.pc = "write" => q.at \in 1 .. Len(DefaultRoles)

SlotOK(q, rec) ==
    /\ q \in Request
    /\ ArgumentsOK(q)
    /\ q.op = "access" /\ q.pc \in {"get", "read", "fill"} =>
         \/ q.key = UserKey(q.name)
         \/ /\ q.user \in UserDoc
            /\ q.key = RoleKey(q.user.role)
            /\ rec[UserKey(q.name)][q.user] > 0
    /\ q.pc = "fill" /\ q.key \in DecisiveKeys =>
         /\ q.held \in Value(q.key)
         /\ rec[q.key][q.held] = Life(q.key)

SlotsOK == req \in [Req -> Request] /\ \A r \in Req : SlotOK(req[r], recent)

IInv == DocsOK /\ RecentOK /\ CacheOK /\ SlotsOK

\* The abstract state.
current == [k \in DecisiveKeys |-> Stored(k)]
request == [r \in Req |-> IF req[r].pc = "authorised"
                          THEN <<req[r].name, req[r].perms>> ELSE NoRequest]

-----------------------------------------------------------------------------
(* Keys, values and lives                                                  *)

LEMMA UserKeyFacts ==
    ASSUME NEW u \in User
    PROVE  /\ UserKey(u) \in DecisiveKeys
           /\ UserKey(u) \in Key
           /\ UserKey(u)[1] = "user"
           /\ Stored(UserKey(u)) = users[u]
           /\ Value(UserKey(u)) = UserDoc
           /\ Life(UserKey(u)) = UserTtl
<1>1. UserKey(u)[1] = "user" /\ UserKey(u)[2] = u
  BY DEF UserKey
<1>2. UserKey(u) \in UserKeys
  BY DEF UserKeys
<1>3. Stored(UserKey(u)) = users[u]
  BY <1>1 DEF Stored
<1>4. UserKey(u) \notin RoleKeys /\ UserKey(u) # RoleListKey
  BY <1>1 DEF RoleKeys, RoleKey, RoleListKey
<1>5. Value(UserKey(u)) = UserDoc /\ Life(UserKey(u)) = UserTtl
  BY <1>2, <1>4 DEF Value, Life
<1> QED
  BY <1>1, <1>2, <1>3, <1>5 DEF DecisiveKeys, Key

LEMMA RoleKeyFacts ==
    ASSUME NEW n \in RoleName
    PROVE  /\ RoleKey(n) \in DecisiveKeys
           /\ RoleKey(n) \in RbacKeys /\ RoleKey(n) \in Key
           /\ RoleKey(n)[1] = "role"
           /\ RoleKey(n) \notin UserKeys
           /\ Stored(RoleKey(n)) = RoleOf(n)
           /\ Value(RoleKey(n)) = RoleDoc \cup {Absent}
           /\ Life(RoleKey(n)) = RoleTtl
<1>1. RoleKey(n)[1] = "role" /\ RoleKey(n)[2] = n
  BY DEF RoleKey
<1>2. RoleKey(n) \notin UserKeys
  BY <1>1 DEF UserKeys, UserKey
<1>3. RoleKey(n) \in RoleKeys
  BY DEF RoleKeys
<1>4. Stored(RoleKey(n)) = RoleOf(n)
  BY <1>1 DEF Stored
<1>5. Value(RoleKey(n)) = RoleDoc \cup {Absent} /\ Life(RoleKey(n)) = RoleTtl
  BY <1>2, <1>3 DEF Value, Life
<1> QED
  BY <1>1, <1>2, <1>3, <1>4, <1>5 DEF DecisiveKeys, RbacKeys, Key

LEMMA DecisiveSplit ==
    ASSUME NEW k \in DecisiveKeys
    PROVE  (\E u \in User : k = UserKey(u)) \/ (\E n \in RoleName : k = RoleKey(n))
BY DEF DecisiveKeys, UserKeys, RoleKeys

LEMMA LifeType ==
    ASSUME NEW k
    PROVE  Life(k) \in Nat /\ Life(k) > 0
BY AccessAssumption DEF Life

LEMMA RoleOfType ==
    ASSUME DocsOK, NEW n \in RoleName
    PROVE  RoleOf(n) \in RoleDoc \cup {Absent}
<1>1. CASE Named(n) = {}
  BY <1>1 DEF RoleOf
<1>2. CASE Named(n) # {}
  <2>1. (CHOOSE i \in Named(n) : TRUE) \in Named(n)
    BY <1>2
  <2> QED
    BY <1>2, <2>1 DEF RoleOf, Named, DocsOK
<1> QED
  BY <1>1, <1>2

\* What MongoDB answers for a decisive key is a document of its type.
LEMMA StoredType ==
    ASSUME DocsOK, NEW k \in DecisiveKeys
    PROVE  Stored(k) \in Value(k)
<1>1. CASE \E u \in User : k = UserKey(u)
  BY <1>1, UserKeyFacts DEF DocsOK
<1>2. CASE \E n \in RoleName : k = RoleKey(n)
  BY <1>2, RoleKeyFacts, RoleOfType
<1> QED
  BY <1>1, <1>2, DecisiveSplit

LEMMA StoredAnswers ==
    ASSUME DocsOK, NEW k \in Key
    PROVE  Stored(k) \in Answers
<1>1. CASE k \in DecisiveKeys
  <2>1. Stored(k) \in Value(k)
    BY <1>1, StoredType
  <2> QED
    BY <2>1 DEF Value, Answers
<1>2. CASE \E p \in Perm : k = PermKey(p)
  <2>1. k[1] = "permission"
    BY <1>2 DEF PermKey
  <2> QED
    BY <2>1 DEF Stored, Answers
<1>3. CASE k = RoleListKey
  BY <1>3 DEF RoleListKey, Stored, Answers, DocsOK
<1>4. CASE k = PermListKey
  BY <1>4 DEF PermListKey, Stored, Answers, DocsOK
<1> QED
  BY <1>1, <1>2, <1>3, <1>4 DEF Key, RbacKeys, DecisiveKeys

\* As long as the documents are kept, MongoDB answers the same.
LEMMA StoredKept ==
    ASSUME UNCHANGED documents, NEW k
    PROVE  Stored(k)' = Stored(k)
BY DEF documents, Stored, RoleOf, Named

LEMMA IdleType == Idle \in Request
BY DEF Idle, Request, Pcs, AllOps, Key, RbacKeys, Answers

\* An idle slot holds nothing that could be wrong.
LEMMA IdleOK ==
    ASSUME NEW rec
    PROVE  SlotOK(Idle, rec)
<1>1. Idle.pc = "idle" /\ Idle.op = "access"
  BY DEF Idle
<1> QED
  BY <1>1, IdleType DEF SlotOK, ArgumentsOK
-----------------------------------------------------------------------------
(* One slot                                                                *)

\* What a slot needs of "recent" survives a step that only adds to it.
LEMMA SlotMonotone ==
    ASSUME NEW q, NEW rec, NEW rec2, SlotOK(q, rec),
           \A k \in DecisiveKeys : \A v \in Value(k) :
              /\ rec[k][v] > 0 => rec2[k][v] > 0
              /\ rec[k][v] = Life(k) => rec2[k][v] = Life(k)
    PROVE  SlotOK(q, rec2)
<1>1. ASSUME q.op = "access", q.pc \in {"get", "read", "fill"}
      PROVE  \/ q.key = UserKey(q.name)
             \/ /\ q.user \in UserDoc
                /\ q.key = RoleKey(q.user.role)
                /\ rec2[UserKey(q.name)][q.user] > 0
  <2>1. q.name \in User
    BY <1>1 DEF SlotOK, ArgumentsOK
  <2> QED
    BY <1>1, <2>1, UserKeyFacts DEF SlotOK
<1> QED
  BY <1>1 DEF SlotOK

\* The handlers that look permissions up.
LEMMA VerifyOK ==
    ASSUME NEW q, NEW rec, q \in Request,
           q.op \in {"createRole", "setPermissions"},
           q.op = "createRole" => q.name \in RoleName,
           q.op = "setPermissions" => q.rid \in Rid
    PROVE  SlotOK(Verify(q), rec) /\ Verify(q).pc \in {"get", "write"}
<1>1. CASE q.todo = {}
  <2>1. Verify(q) = [q EXCEPT !.pc = "write"]
    BY <1>1 DEF Verify
  <2>2. Verify(q) \in Request
    BY <2>1 DEF Request, Pcs
  <2>3. Verify(q).op = q.op /\ Verify(q).pc = "write" /\ Verify(q).name = q.name
           /\ Verify(q).rid = q.rid
    BY <2>1 DEF Request
  <2> QED
    BY <2>2, <2>3 DEF SlotOK, ArgumentsOK
<1>2. CASE q.todo # {}
  <2> DEFINE p == CHOOSE p \in q.todo : TRUE
  <2>1. p \in Perm
    BY <1>2 DEF Request
  <2>2. Verify(q) = [q EXCEPT !.pc = "get", !.key = PermKey(p)]
    BY <1>2 DEF Verify, Reads
  <2>3. PermKey(p) \in Key
    BY <2>1 DEF Key, RbacKeys
  <2> HIDE DEF p
  <2>4. Verify(q) \in Request
    BY <2>2, <2>3 DEF Request, Pcs
  <2>5. Verify(q).op = q.op /\ Verify(q).pc = "get" /\ Verify(q).name = q.name
           /\ Verify(q).rid = q.rid
    BY <2>2 DEF Request
  <2> QED
    BY <2>4, <2>5 DEF SlotOK, ArgumentsOK
<1> QED
  BY <1>1, <1>2

\* Permissions that BoundedAccess lets a user have.
Allowed(u, perms, rec) ==
    \E doc \in UserDoc, role \in RoleDoc \cup {Absent} :
        /\ rec[UserKey(u)][doc] > 0
        /\ rec[RoleKey(doc.role)][role] > 0
        /\ perms = Effective(doc, role)

\* What a slot holds when the answer of a key has come is in order, and a request
\* is authorised with the documents the two keys answered.
LEMMA ResolvedOK ==
    ASSUME NEW q, NEW rec, NEW v, SlotOK(q, rec), q.pc \in {"get", "fill"},
           q.key \in DecisiveKeys => v \in Value(q.key) /\ rec[q.key][v] > 0
    PROVE  /\ SlotOK(Resolved(q, v), rec)
           /\ Resolved(q, v).pc = "authorised" =>
                /\ q.name \in User
                /\ Resolved(q, v).name = q.name
                /\ Allowed(q.name, Resolved(q, v).perms, rec)
<1>0. q \in Request /\ ArgumentsOK(q) /\ Idle.pc = "idle" /\ SlotOK(Idle, rec)
  BY IdleOK DEF SlotOK, Idle
<1>1. CASE q.op = "access" /\ q.key = UserKey(q.name)
  <2>1. q.name \in User
    BY <1>0, <1>1 DEF ArgumentsOK
  <2>2. v \in UserDoc /\ rec[UserKey(q.name)][v] > 0 /\ q.key[1] = "user"
    BY <1>1, <2>1, UserKeyFacts
  <2>3. v.role \in RoleName
    BY <2>2 DEF UserDoc
  <2>4. Resolved(q, v) = [q EXCEPT !.user = v, !.pc = "get", !.key = RoleKey(v.role)]
    BY <1>0, <1>1, <2>2 DEF Resolved, Reads, Request
  <2>5. Resolved(q, v) \in Request
    BY <1>0, <2>2, <2>3, <2>4, RoleKeyFacts DEF Request, Pcs
  <2>6. /\ Resolved(q, v).pc = "get" /\ Resolved(q, v).op = "access"
        /\ Resolved(q, v).name = q.name /\ Resolved(q, v).user = v
        /\ Resolved(q, v).key = RoleKey(v.role)
    BY <1>0, <1>1, <2>4 DEF Request
  <2> QED
    BY <2>1, <2>2, <2>5, <2>6 DEF SlotOK, ArgumentsOK
<1>2. CASE q.op = "access" /\ q.key # UserKey(q.name)
  <2>1. /\ q.name \in User /\ q.user \in UserDoc /\ q.key = RoleKey(q.user.role)
        /\ rec[UserKey(q.name)][q.user] > 0
    BY <1>0, <1>2 DEF SlotOK, ArgumentsOK
  <2>2. q.user.role \in RoleName
    BY <2>1 DEF UserDoc
  <2>3. /\ v \in RoleDoc \cup {Absent} /\ rec[RoleKey(q.user.role)][v] > 0
        /\ q.key[1] = "role"
    BY <2>1, <2>2, RoleKeyFacts
  <2>4. Resolved(q, v) = [q EXCEPT !.pc = "authorised",
                                   !.perms = Effective(q.user, v)]
    BY <1>2, <2>3 DEF Resolved
  <2>5. Effective(q.user, v) \in SUBSET Perm
    BY <2>1, <2>3 DEF Effective, UserDoc, RoleDoc
  <2>6. Resolved(q, v) \in Request
    BY <1>0, <2>4, <2>5 DEF Request, Pcs
  <2>7. /\ Resolved(q, v).pc = "authorised" /\ Resolved(q, v).op = "access"
        /\ Resolved(q, v).name = q.name
        /\ Resolved(q, v).perms = Effective(q.user, v)
    BY <1>0, <1>2, <2>4 DEF Request
  <2>8. SlotOK(Resolved(q, v), rec)
    BY <2>1, <2>6, <2>7 DEF SlotOK, ArgumentsOK
  <2> QED
    BY <2>1, <2>3, <2>7, <2>8 DEF Allowed
<1>3. CASE q.op = "createRole" /\ q.key[1] = "role"
  <2>1. Resolved(q, v) = IF v # Absent THEN Idle ELSE Verify(q)
    BY <1>3 DEF Resolved
  <2>2. q.name \in RoleName
    BY <1>0, <1>3 DEF ArgumentsOK
  <2> QED
    BY <1>0, <1>3, <2>1, <2>2, VerifyOK
<1>4. CASE q.op = "updateRole"
  <2>1. Resolved(q, v) = IF v # Absent /\ v.id # q.rid THEN Idle
                         ELSE [q EXCEPT !.pc = "write"]
    BY <1>4 DEF Resolved
  <2>2. CASE v # Absent /\ v.id # q.rid
    BY <1>0, <2>1, <2>2
  <2>3. CASE ~(v # Absent /\ v.id # q.rid)
    <3>1. Resolved(q, v) = [q EXCEPT !.pc = "write"]
      BY <2>1, <2>3
    <3>2. Resolved(q, v) \in Request
      BY <1>0, <3>1 DEF Request, Pcs
    <3>3. /\ Resolved(q, v).pc = "write" /\ Resolved(q, v).op = "updateRole"
          /\ Resolved(q, v).name = q.name /\ Resolved(q, v).rid = q.rid
      BY <1>0, <1>4, <3>1 DEF Request
    <3> QED
      BY <1>0, <1>4, <3>2, <3>3 DEF SlotOK, ArgumentsOK
  <2> QED
    BY <2>2, <2>3
<1>5. CASE q.op \in {"createRole", "setPermissions"} /\ q.key[1] = "permission"
  <2> DEFINE q2 == [q EXCEPT !.todo = @ \ {q.key[2]}]
  <2>1. Resolved(q, v) = IF IsKnown(v) THEN Verify(q2) ELSE Idle
    BY <1>5 DEF Resolved
  <2>2. /\ q2 \in Request /\ q2.op = q.op /\ q2.name = q.name /\ q2.rid = q.rid
    BY <1>0 DEF Request
  <2>3. /\ q.op = "createRole" => q.name \in RoleName
        /\ q.op = "setPermissions" => q.rid \in Rid
    BY <1>0 DEF ArgumentsOK
  <2>4. SlotOK(Verify(q2), rec) /\ Verify(q2).pc \in {"get", "write"}
    <3> HIDE DEF q2
    <3> QED
      BY <1>5, <2>2, <2>3, VerifyOK
  <2> QED
    BY <1>0, <2>1, <2>4
<1>6. CASE /\ q.op # "access" /\ q.op # "updateRole"
           /\ ~(q.op = "createRole" /\ q.key[1] = "role")
           /\ ~(q.op \in {"createRole", "setPermissions"} /\ q.key[1] = "permission")
  <2>1. Resolved(q, v) = Idle
    BY <1>6 DEF Resolved
  <2> QED
    BY <1>0, <2>1
<1> QED
  BY <1>1, <1>2, <1>3, <1>4, <1>5, <1>6
-----------------------------------------------------------------------------
(* Steps                                                                   *)

\* A step of one request leaves the other slots as they are.
LEMMA GotoOK ==
    ASSUME SlotsOK, NEW r \in Req, NEW q, Goto(r, q), SlotOK(q, recent),
           recent' = recent
    PROVE  SlotsOK'
<1>1. q \in Request
  BY DEF SlotOK
<1>2. req' \in [Req -> Request] /\ \A x \in Req : req'[x] = IF x = r THEN q ELSE req[x]
  BY <1>1 DEF SlotsOK, Goto
<1> QED
  BY <1>2 DEF SlotsOK

\* What the guards let through is the same unless this request is concerned.
LEMMA RequestKept ==
    ASSUME SlotsOK, NEW r \in Req, NEW q, Goto(r, q),
           req[r].pc # "authorised", q.pc # "authorised"
    PROVE  request' = request
<1>1. \A x \in Req : req'[x] = IF x = r THEN q ELSE req[x]
  BY DEF SlotsOK, Goto
<1> QED
  BY <1>1 DEF request

LEMMA RequestSet ==
    ASSUME SlotsOK, NEW r \in Req, NEW q, Goto(r, q)
    PROVE  request' = [request EXCEPT ![r] =
                          IF q.pc = "authorised" THEN <<q.name, q.perms>>
                          ELSE NoRequest]
<1>1. \A x \in Req : req'[x] = IF x = r THEN q ELSE req[x]
  BY DEF SlotsOK, Goto
<1> QED
  BY <1>1 DEF request

\* While the documents are kept, so is what they decide.
LEMMA KeptOK ==
    ASSUME IInv, DocumentsKept
    PROVE  /\ DocsOK' /\ RecentOK' /\ recent' = recent
           /\ current' = current
<1>1. \A k : Stored(k)' = Stored(k)
  BY StoredKept DEF DocumentsKept
<1>2. recent' = recent /\ users' = users /\ roles' = roles /\ catalogue' = catalogue
  BY DEF DocumentsKept, documents
<1>3. current' = current
  BY <1>1 DEF current
<1>4. RecentOK'
  BY <1>1, <1>2 DEF IInv, RecentOK
<1> QED
  BY <1>2, <1>3, <1>4 DEF IInv, DocsOK

LEMMA CacheKept ==
    ASSUME IInv, recent' = recent, UNCHANGED cache
    PROVE  CacheOK'
BY DEF IInv, CacheOK

\* An authorisation, as the abstract specification makes it.
LEMMA AuthoriseOK ==
    ASSUME IInv, NEW r \in Req, NEW v, DocumentsKept,
           req[r].pc \in {"get", "fill"},
           req[r].key \in DecisiveKeys =>
              v \in Value(req[r].key) /\ recent[req[r].key][v] > 0,
           Goto(r, Resolved(req[r], v))
    PROVE  SlotsOK' /\ (Bound!Next \/ UNCHANGED Bound!vars)
<1> DEFINE q == Resolved(req[r], v)
<1>1. SlotOK(req[r], recent)
  BY DEF IInv, SlotsOK
<1>2. /\ SlotOK(q, recent)
      /\ q.pc = "authorised" =>
           /\ req[r].name \in User
           /\ q.name = req[r].name
           /\ Allowed(q.name, q.perms, recent)
  BY <1>1, ResolvedOK
<1>3. recent' = recent /\ current' = current
  BY KeptOK
<1>4. Goto(r, q)
  OBVIOUS
<1> HIDE DEF q
<1>5. SlotsOK'
  BY <1>2, <1>3, <1>4, GotoOK DEF IInv
<1>6. CASE q.pc # "authorised"
  <2>1. request' = request
    BY <1>4, <1>6, RequestKept DEF IInv
  <2> QED
    BY <1>3, <1>5, <2>1 DEF Bound!vars, current, request
<1>7. CASE q.pc = "authorised"
  <2>1. request' = [request EXCEPT ![r] = <<q.name, q.perms>>]
    BY <1>4, <1>7, RequestSet DEF IInv
  <2>2. PICK u \in User : u = q.name
    BY <1>2, <1>7
  <2>3. PICK doc \in UserDoc, role \in RoleDoc \cup {Absent} :
          /\ recent[UserKey(u)][doc] > 0
          /\ recent[RoleKey(doc.role)][role] > 0
          /\ q.perms = Effective(doc, role)
    BY <1>2, <1>7, <2>2 DEF Allowed
  <2>4. request' = [request EXCEPT ![r] = <<u, Effective(doc, role)>>]
    BY <2>1, <2>2, <2>3
  <2>5. Bound!Authorise(r, u)
    BY <1>3, <2>3, <2>4 DEF Bound!Authorise, Bound!UserDoc, Bound!RoleDoc,
          Bound!UserKey, Bound!RoleKey, Bound!Effective, UserDoc, RoleDoc,
          UserKey, RoleKey, Effective, current, request
  <2>6. Bound!Next
    BY <2>5 DEF Bound!Next
  <2> QED
    BY <1>5, <2>6
<1> QED
  BY <1>6, <1>7
\* A step that neither writes documents nor authorises.
LEMMA QuietOK ==
    ASSUME IInv, NEW r \in Req, NEW q, Goto(r, q), SlotOK(q, recent),
           req[r].pc # "authorised", q.pc # "authorised",
           DocumentsKept, CacheOK'
    PROVE  IInv' /\ UNCHANGED Bound!vars
<1>1. DocsOK' /\ RecentOK' /\ recent' = recent /\ current' = current
  BY KeptOK
<1>2. request' = request
  BY RequestKept DEF IInv
<1>3. SlotsOK'
  BY <1>1, GotoOK DEF IInv
<1> QED
  BY <1>1, <1>2, <1>3 DEF IInv, Bound!vars, current, request

LEMMA CacheHitOK ==
    ASSUME IInv, NEW r \in Req, CacheHit(r)
    PROVE  IInv' /\ (Bound!Next \/ UNCHANGED Bound!vars)
<1>1. PICK v : v = cache[req[r].key].value
  OBVIOUS
<1>2. /\ req[r].pc = "get" /\ Goto(r, Resolved(req[r], v)) /\ DocumentsKept
      /\ cache' = cache /\ cache[req[r].key].left > 0
  BY <1>1 DEF CacheHit
<1>3. req[r].key \in DecisiveKeys =>
        v \in Value(req[r].key) /\ recent[req[r].key][v] > 0
  <2> SUFFICES ASSUME req[r].key \in DecisiveKeys
               PROVE  v \in Value(req[r].key) /\ recent[req[r].key][v] > 0
    OBVIOUS
  <2>1. /\ v \in Value(req[r].key)
        /\ cache[req[r].key].left <= recent[req[r].key][v]
    BY <1>1, <1>2 DEF IInv, CacheOK
  <2>2. recent[req[r].key][v] \in Nat
    BY <2>1 DEF IInv, RecentOK
  <2>3. cache[req[r].key].left \in Nat
    BY DEF IInv, CacheOK, DecisiveKeys, Key, RbacKeys
  <2> QED
    BY <1>2, <2>1, <2>2, <2>3
<1>4. SlotsOK' /\ (Bound!Next \/ UNCHANGED Bound!vars)
  BY <1>2, <1>3, AuthoriseOK
<1>5. DocsOK' /\ RecentOK' /\ CacheOK'
  BY <1>2, KeptOK, CacheKept
<1> QED
  BY <1>4, <1>5 DEF IInv

LEMMA CacheMissOK ==
    ASSUME IInv, NEW r \in Req, CacheMiss(r)
    PROVE  IInv' /\ UNCHANGED Bound!vars
<1> DEFINE q == [req[r] EXCEPT !.pc = "read"]
<1>1. req[r].pc = "get" /\ Goto(r, q) /\ DocumentsKept /\ cache' = cache
  BY DEF CacheMiss
<1>2. req[r] \in Request /\ SlotOK(req[r], recent)
  BY DEF IInv, SlotsOK
<1>3. /\ q \in Request /\ q.pc = "read" /\ q.op = req[r].op /\ q.key = req[r].key
      /\ q.name = req[r].name /\ q.user = req[r].user /\ q.rid = req[r].rid
  BY <1>2 DEF Request, Pcs
<1> HIDE DEF q
<1>4. SlotOK(q, recent)
  BY <1>1, <1>2, <1>3 DEF SlotOK, ArgumentsOK
<1>5. CacheOK'
  BY <1>1, KeptOK, CacheKept
<1> QED
  BY <1>1, <1>3, <1>4, <1>5, QuietOK

LEMMA ReadDocumentOK ==
    ASSUME IInv, NEW r \in Req, ReadDocument(r)
    PROVE  IInv' /\ UNCHANGED Bound!vars
<1> DEFINE q == [req[r] EXCEPT !.pc = "fill", !.held = Stored(req[r].key)]
<1>1. req[r].pc = "read" /\ Goto(r, q) /\ DocumentsKept /\ cache' = cache
  BY DEF ReadDocument
<1>2. req[r] \in Request /\ SlotOK(req[r], recent)
  BY DEF IInv, SlotsOK
<1>3. Stored(req[r].key) \in Answers
  BY <1>2, StoredAnswers DEF IInv, Request
<1>4. /\ q \in Request /\ q.pc = "fill" /\ q.op = req[r].op /\ q.key = req[r].key
      /\ q.name = req[r].name /\ q.user = req[r].user /\ q.rid = req[r].rid
      /\ q.held = Stored(req[r].key)
  BY <1>2, <1>3 DEF Request, Pcs
<1> HIDE DEF q
<1>5. q.key \in DecisiveKeys =>
        q.held \in Value(q.key) /\ recent[q.key][q.held] = Life(q.key)
  BY <1>4, StoredType DEF IInv, RecentOK
<1>6. SlotOK(q, recent)
  BY <1>1, <1>2, <1>4, <1>5 DEF SlotOK, ArgumentsOK
<1>7. CacheOK'
  BY <1>1, KeptOK, CacheKept
<1> QED
  BY <1>1, <1>4, <1>6, <1>7, QuietOK

LEMMA FillOK ==
    ASSUME IInv, NEW r \in Req, Fill(r)
    PROVE  IInv' /\ (Bound!Next \/ UNCHANGED Bound!vars)
<1>1. PICK v : v = req[r].held
  OBVIOUS
<1>2. PICK k : k = req[r].key
  OBVIOUS
<1>3. /\ req[r].pc = "fill" /\ Goto(r, Resolved(req[r], v)) /\ DocumentsKept
      /\ \/ cache' = [cache EXCEPT ![k] = Entry(k, v)]
         \/ cache' = cache
  BY <1>1, <1>2 DEF Fill
<1>4. req[r] \in Request /\ SlotOK(req[r], recent)
  BY DEF IInv, SlotsOK
<1>5. k \in Key /\ v \in Answers
  BY <1>1, <1>2, <1>4 DEF Request
<1>6. Life(k) \in Nat /\ Life(k) > 0
  BY LifeType
<1>7. k \in DecisiveKeys => v \in Value(k) /\ recent[k][v] = Life(k)
  BY <1>1, <1>2, <1>3, <1>4 DEF SlotOK
<1>8. SlotsOK' /\ (Bound!Next \/ UNCHANGED Bound!vars)
  BY <1>2, <1>3, <1>6, <1>7, AuthoriseOK
<1>9. DocsOK' /\ RecentOK' /\ recent' = recent
  BY <1>3, KeptOK
<1>10. CASE cache' = cache
  BY <1>8, <1>9, <1>10, CacheKept DEF IInv
<1>11. CASE cache' = [cache EXCEPT ![k] = Entry(k, v)]
  <2>1. Entry(k, v) \in [left : Nat, value : Answers]
    BY <1>5, <1>6 DEF Entry
  <2>2. Entry(k, v).left = Life(k) /\ Entry(k, v).value = v
    BY DEF Entry
  <2>3. cache' \in [Key -> [left : Nat, value : Answers]]
    BY <1>11, <2>1 DEF IInv, CacheOK
  <2>4. \A x \in Key : cache'[x] = IF x = k THEN Entry(k, v) ELSE cache[x]
    BY <1>5, <1>11 DEF IInv, CacheOK
  <2>5. \A x \in Key : cache'[x].left <= Life(x)
    BY <1>6, <2>2, <2>4 DEF IInv, CacheOK
  <2>6. DecisiveKeys \subseteq Key
    BY DEF DecisiveKeys, Key, RbacKeys
  <2>7. ASSUME NEW x \in DecisiveKeys, cache'[x].left > 0
        PROVE  /\ cache'[x].value \in Value(x)
               /\ cache'[x].left <= recent'[x][cache'[x].value]
    <3>1. CASE x = k
      BY <1>6, <1>7, <1>9, <2>2, <2>4, <2>6, <3>1
    <3>2. CASE x # k
      BY <1>9, <2>4, <2>6, <2>7, <3>2 DEF IInv, CacheOK
    <3> QED
      BY <3>1, <3>2
  <2>8. CacheOK'
    BY <2>3, <2>5, <2>7 DEF CacheOK
  <2> QED
    BY <1>8, <1>9, <2>8 DEF IInv
<1> QED
  BY <1>3, <1>10, <1>11
-----------------------------------------------------------------------------
(* The first steps of the operations                                       *)

LEMMA BeginOK ==
    ASSUME IInv, NEW r \in Req, Begin(r)
    PROVE  IInv' /\ UNCHANGED Bound!vars
<1>1. DocumentsKept /\ cache' = cache
  BY DEF Begin
<1>2. CacheOK'
  BY <1>1, KeptOK, CacheKept
<1>3. req[r] \in Request /\ SlotOK(req[r], recent)
  BY DEF IInv, SlotsOK
<1>4. /\ Idle \in Request
      /\ Idle.pc = "idle" /\ Idle.op = "access" /\ SlotOK(Idle, recent)
  BY IdleType, IdleOK DEF Idle
<1>5. ASSUME NEW q, Goto(r, q), SlotOK(q, recent), req[r].pc # "authorised",
             q.pc # "authorised"
      PROVE  IInv' /\ UNCHANGED Bound!vars
  BY <1>1, <1>2, <1>5, QuietOK
<1>6. CASE \E u \in User : BeginAccess(r, u)
  <2>1. PICK u \in User : BeginAccess(r, u)
    BY <1>6
  <2> DEFINE q == [Idle EXCEPT !.name = u, !.pc = "get", !.key = UserKey(u)]
  <2>2. Goto(r, q) /\ req[r].pc = "idle"
    BY <2>1 DEF BeginAccess, Reads, Starts, Idle
  <2>3. q \in Request
    BY <1>4, UserKeyFacts DEF Request, Pcs
  <2>4. q.pc = "get" /\ q.op = "access" /\ q.name = u /\ q.key = UserKey(u)
    BY <1>4 DEF Request
  <2> HIDE DEF q
  <2>5. SlotOK(q, recent)
    BY <2>3, <2>4 DEF SlotOK, ArgumentsOK
  <2> QED
    BY <1>5, <2>2, <2>4, <2>5
<1>7. CASE \E k \in {RoleListKey, PermListKey} : BeginList(r, k)
  <2>1. PICK k \in {RoleListKey, PermListKey} : BeginList(r, k)
    BY <1>7
  <2> DEFINE q == [Idle EXCEPT !.op = "list", !.pc = "get", !.key = k]
  <2>2. Goto(r, q) /\ req[r].pc = "idle"
    BY <2>1 DEF BeginList, Reads, Starts, Idle
  <2>3. q \in Request
    BY <1>4 DEF Request, Pcs, AllOps, Key, RbacKeys
  <2>4. q.pc = "get" /\ q.op = "list"
    BY <1>4 DEF Request
  <2> HIDE DEF q
  <2>5. SlotOK(q, recent)
    BY <2>3, <2>4 DEF SlotOK, ArgumentsOK
  <2> QED
    BY <1>5, <2>2, <2>4, <2>5
<1>8. CASE \E u \in User, n \in RoleName, g \in GrantSets :
              BeginUpdateUser(r, u, n, g)
  <2>1. PICK u \in User, n \in RoleName, g \in GrantSets :
           BeginUpdateUser(r, u, n, g)
    BY <1>8
  <2> DEFINE q == [Idle EXCEPT !.pc = "write", !.op = "updateUser",
                               !.key = UserKey(u), !.name = n, !.perms = g]
  <2>2. Goto(r, q) /\ req[r].pc = "idle"
    BY <2>1 DEF BeginUpdateUser, Starts
  <2>3. q \in Request
    BY <1>4, UserKeyFacts, CacheAssumption DEF Request, Pcs, AllOps
  <2>4. q.pc = "write" /\ q.op = "updateUser" /\ q.name = n /\ q.key = UserKey(u)
    BY <1>4 DEF Request
  <2> HIDE DEF q
  <2>5. SlotOK(q, recent)
    BY <2>3, <2>4 DEF SlotOK, ArgumentsOK, UserKeys
  <2> QED
    BY <1>5, <2>2, <2>4, <2>5
<1>9. CASE \E n \in RoleName, g \in GrantSets : BeginCreateRole(r, n, g)
  <2>1. PICK n \in RoleName, g \in GrantSets : BeginCreateRole(r, n, g)
    BY <1>9
  <2> DEFINE q == [Idle EXCEPT !.op = "createRole", !.name = n, !.perms = g,
                               !.todo = g \ {Wildcard},
                               !.pc = "get", !.key = RoleKey(n)]
  <2>2. Goto(r, q) /\ req[r].pc = "idle"
    BY <2>1 DEF BeginCreateRole, Reads, Starts, Idle
  <2>3. q \in Request
    BY <1>4, RoleKeyFacts, CacheAssumption DEF Request, Pcs, AllOps
  <2>4. q.pc = "get" /\ q.op = "createRole" /\ q.name = n
    BY <1>4 DEF Request
  <2> HIDE DEF q
  <2>5. SlotOK(q, recent)
    BY <2>3, <2>4 DEF SlotOK, ArgumentsOK
  <2> QED
    BY <1>5, <2>2, <2>4, <2>5
<1>10. CASE \E i \in Rid, g \in GrantSets : BeginSetPermissions(r, i, g)
  <2>1. PICK i \in Rid, g \in GrantSets : BeginSetPermissions(r, i, g)
    BY <1>10
  <2> DEFINE q == [Idle EXCEPT !.op = "setPermissions", !.rid = i, !.perms = g,
                               !.todo = g \ {Wildcard}]
  <2>2. Goto(r, Verify(q)) /\ req[r].pc = "idle"
    BY <2>1 DEF BeginSetPermissions, Starts
  <2>3. q \in Request
    BY <1>4, CacheAssumption DEF Request, AllOps
  <2>4. q.op = "setPermissions" /\ q.rid = i
    BY <1>4 DEF Request
  <2> HIDE DEF q
  <2>5. SlotOK(Verify(q), recent) /\ Verify(q).pc \in {"get", "write"}
    BY <2>3, <2>4, VerifyOK
  <2> QED
    BY <1>5, <2>2, <2>5
<1>11. CASE \E i \in Rid, n \in RoleName : BeginUpdateRole(r, i, n)
  <2>1. PICK i \in Rid, n \in RoleName : BeginUpdateRole(r, i, n)
    BY <1>11
  <2> DEFINE a == [Idle EXCEPT !.op = "updateRole", !.rid = i, !.name = n]
             q1 == [a EXCEPT !.pc = "write"]
             q2 == [a EXCEPT !.pc = "get", !.key = RoleKey(n)]
  <2>2. (Goto(r, q1) \/ Goto(r, q2)) /\ req[r].pc = "idle"
    BY <2>1 DEF BeginUpdateRole, Reads, Starts
  <2>3. a \in Request /\ a.op = "updateRole" /\ a.rid = i /\ a.name = n
    BY <1>4 DEF Request, AllOps
  <2> HIDE DEF a
  <2>4. q1 \in Request /\ q2 \in Request
    BY <2>3, RoleKeyFacts DEF Request, Pcs
  <2>5. /\ q1.pc = "write" /\ q1.op = "updateRole" /\ q1.rid = i /\ q1.name = n
        /\ q2.pc = "get" /\ q2.op = "updateRole" /\ q2.rid = i /\ q2.name = n
    BY <2>3 DEF Request
  <2> HIDE DEF q1, q2
  <2>6. SlotOK(q1, recent) /\ SlotOK(q2, recent)
    BY <2>4, <2>5 DEF SlotOK, ArgumentsOK
  <2> QED
    BY <1>5, <2>2, <2>5, <2>6
<1>12. CASE \E i \in Rid : BeginRemoveRole(r, i)
  <2>1. PICK i \in Rid : BeginRemoveRole(r, i)
    BY <1>12
  <2> DEFINE q == [Idle EXCEPT !.pc = "count", !.op = "removeRole", !.rid = i,
                               !.name = roles[i].name]
  <2>2. Goto(r, q) /\ req[r].pc = "idle" /\ roles[i] # Absent
    BY <2>1 DEF BeginRemoveRole, Starts
  <2>3. roles[i].name \in RoleName
    BY <2>2 DEF IInv, DocsOK, RoleDoc
  <2>4. q \in Request
    BY <1>4, <2>3 DEF Request, Pcs, AllOps
  <2>5. q.pc = "count" /\ q.op = "removeRole" /\ q.rid = i
    BY <1>4 DEF Request
  <2> HIDE DEF q
  <2>6. SlotOK(q, recent)
    BY <2>4, <2>5 DEF SlotOK, ArgumentsOK
  <2> QED
    BY <1>5, <2>2, <2>5, <2>6
<1>13. CASE \E op \in {"seedRoles", "seedPermissions"} : BeginSeed(r, op)
  <2>1. PICK op \in {"seedRoles", "seedPermissions"} : BeginSeed(r, op)
    BY <1>13
  <2> DEFINE q == [Idle EXCEPT !.pc = "write", !.op = op]
  <2>2. Goto(r, q) /\ req[r].pc = "idle"
    BY <2>1 DEF BeginSeed, Starts
  <2>3. q \in Request
    BY <1>4 DEF Request, Pcs, AllOps
  <2>4. q.pc = "write" /\ q.op = op /\ q.at = 1
    BY <1>4 DEF Request, Idle
  <2>5. 1 \in 1 .. Len(DefaultRoles)
    BY CacheAssumption, EmptySeq, LenProperties
  <2> HIDE DEF q
  <2>6. SlotOK(q, recent)
    BY <2>3, <2>4, <2>5 DEF SlotOK, ArgumentsOK
  <2> QED
    BY <1>5, <2>2, <2>4, <2>6
<1>14. CASE CountUsers(r)
  <2> DEFINE q == [req[r] EXCEPT !.pc = "write"]
  <2>1. (Goto(r, Idle) \/ Goto(r, q)) /\ req[r].pc = "count"
    BY <1>14 DEF CountUsers
  <2>2. /\ q \in Request /\ q.pc = "write" /\ q.op = req[r].op
        /\ q.rid = req[r].rid
    BY <1>3 DEF Request, Pcs
  <2> HIDE DEF q
  <2>3. SlotOK(q, recent)
    BY <1>3, <2>1, <2>2 DEF SlotOK, ArgumentsOK
  <2> QED
    BY <1>4, <1>5, <2>1, <2>2, <2>3
<1> QED
  BY <1>6, <1>7, <1>8, <1>9, <1>10, <1>11, <1>12, <1>13, <1>14 DEF Begin
-----------------------------------------------------------------------------
(* Writes                                                                  *)

LEMMA StoredTypes == DocsOK => \A k \in DecisiveKeys : Stored(k) \in Value(k)
BY StoredType

\* A write of documents is a write of the abstract specification.
LEMMA WriteOK ==
    ASSUME IInv, NEW r \in Req, NEW q, Goto(r, q), SlotOK(q, recent),
           req[r].pc # "authorised", q.pc # "authorised",
           Wrote, DocsOK', UNCHANGED cache
    PROVE  IInv' /\ Bound!Next
<1>1. (DocsOK => \A k \in DecisiveKeys : Stored(k) \in Value(k))'
  BY StoredTypes, PTL
<1>2. \A k \in DecisiveKeys : Stored(k)' \in Value(k)
  BY <1>1
<1>3. recent' = [k \in DecisiveKeys |->
                    [recent[k] EXCEPT ![Stored(k)'] = Life(k)]]
  BY DEF Wrote
<1>4. ASSUME NEW k \in DecisiveKeys
      PROVE  /\ recent'[k] \in [Value(k) -> 0 .. Life(k)]
             /\ recent'[k][Stored(k)'] = Life(k)
             /\ \A v \in Value(k) :
                  recent'[k][v] = IF v = Stored(k)' THEN Life(k) ELSE recent[k][v]
  <2>1. recent[k] \in [Value(k) -> 0 .. Life(k)]
    BY DEF IInv, RecentOK
  <2>2. recent'[k] = [recent[k] EXCEPT ![Stored(k)'] = Life(k)]
    BY <1>3
  <2>3. Life(k) \in 0 .. Life(k)
    BY LifeType
  <2> QED
    BY <1>2, <2>1, <2>2, <2>3
<1>5. RecentOK'
  BY <1>4 DEF RecentOK
<1>6. ASSUME NEW k \in DecisiveKeys, NEW v \in Value(k)
      PROVE  /\ recent'[k][v] >= recent[k][v]
             /\ recent[k][v] > 0 => recent'[k][v] > 0
             /\ recent[k][v] = Life(k) => recent'[k][v] = Life(k)
             /\ recent[k][v] \in Nat /\ recent'[k][v] \in Nat
  <2>1. recent[k][v] \in 0 .. Life(k)
    BY DEF IInv, RecentOK
  <2>2. Life(k) \in Nat /\ Life(k) > 0
    BY LifeType
  <2>3. CASE v = Stored(k)'
    BY <1>4, <2>1, <2>2, <2>3
  <2>4. CASE v # Stored(k)'
    BY <1>4, <2>1, <2>2, <2>4
  <2> QED
    BY <2>3, <2>4
<1>7. CacheOK'
  <2>1. DecisiveKeys \subseteq Key
    BY DEF DecisiveKeys, Key, RbacKeys
  <2>2. ASSUME NEW k \in DecisiveKeys, cache[k].left > 0
        PROVE  /\ cache[k].value \in Value(k)
               /\ cache[k].left <= recent'[k][cache[k].value]
    <3>1. /\ cache[k].value \in Value(k) /\ cache[k].left \in Nat
          /\ cache[k].left <= recent[k][cache[k].value]
      BY <2>1, <2>2 DEF IInv, CacheOK
    <3> QED
      BY <1>6, <3>1
  <2> QED
    BY <2>2 DEF IInv, CacheOK
<1>8. SlotsOK'
  <2>1. q \in Request
    BY DEF SlotOK
  <2>2. /\ req' \in [Req -> Request]
        /\ \A x \in Req : req'[x] = IF x = r THEN q ELSE req[x]
    BY <2>1 DEF IInv, SlotsOK, Goto
  <2>3. ASSUME NEW x \in Req
        PROVE  SlotOK(req'[x], recent)
    BY <2>2 DEF IInv, SlotsOK
  <2>4. PICK rec : rec = recent'
    OBVIOUS
  <2>5. \A k \in DecisiveKeys : \A v \in Value(k) :
              /\ recent[k][v] > 0 => rec[k][v] > 0
              /\ recent[k][v] = Life(k) => rec[k][v] = Life(k)
    BY <1>6, <2>4
  <2>6. ASSUME NEW x \in Req
        PROVE  SlotOK(req'[x], rec)
    BY <2>3, <2>5, SlotMonotone
  <2> QED
    BY <2>2, <2>4, <2>6 DEF SlotsOK
<1>9. request' = request
  BY RequestKept DEF IInv
<1>10. current' = [k \in DecisiveKeys |-> Stored(k)']
  BY DEF current
<1>11. Bound!Write
  <2>1. recent' = [k \in DecisiveKeys |->
                      [recent[k] EXCEPT ![current'[k]] = Life(k)]]
    BY <1>3, <1>10
  <2> QED
    BY <1>9, <2>1 DEF Bound!Write, Bound!Renewed, current, request,
          Bound!DecisiveKeys, DecisiveKeys, Bound!UserKeys, UserKeys,
          Bound!RoleKeys, RoleKeys, Bound!UserKey, UserKey, Bound!RoleKey,
          RoleKey, Bound!Life, Life, Bound!RoleListKey, RoleListKey
<1> QED
  BY <1>5, <1>7, <1>8, <1>11 DEF IInv, Bound!Next
\* A write that emits an event: what remains is the type of the documents.
LEMMA EmittingOK ==
    ASSUME IInv, NEW r \in Req, req[r].pc = "write", ThenInvalidate(r), DocsOK'
    PROVE  IInv' /\ Bound!Next
<1> DEFINE q == [req[r] EXCEPT !.pc = "invalidate"]
<1>1. Goto(r, q) /\ Wrote /\ cache' = cache
  BY DEF ThenInvalidate
<1>2. req[r] \in Request /\ SlotOK(req[r], recent)
  BY DEF IInv, SlotsOK
<1>3. /\ q \in Request /\ q.pc = "invalidate" /\ q.op = req[r].op /\ q.key = req[r].key
      /\ q.name = req[r].name /\ q.rid = req[r].rid
  BY <1>2 DEF Request, Pcs
<1> HIDE DEF q
<1>4. SlotOK(q, recent)
  BY <1>2, <1>3 DEF SlotOK, ArgumentsOK
<1> QED
  BY <1>1, <1>3, <1>4, WriteOK

\* Each of them writes documents of the right type.
LEMMA UpdateUserOK ==
    ASSUME IInv, NEW r \in Req, UpdateUser(r)
    PROVE  IInv' /\ Bound!Next
<1>1. req[r] \in Request /\ SlotOK(req[r], recent)
  BY DEF IInv, SlotsOK
<1>2. req[r].pc = "write" /\ req[r].op = "updateUser" /\ ThenInvalidate(r)
  BY DEF UpdateUser, Writes
<1>3. PICK u \in User : req[r].key = UserKey(u)
  BY <1>1, <1>2 DEF SlotOK, ArgumentsOK, UserKeys
<1>4. [role |-> req[r].name, perms |-> req[r].perms] \in UserDoc
  BY <1>1, <1>2 DEF SlotOK, ArgumentsOK, Request, UserDoc
<1>5. users' = [users EXCEPT ![u] = [role |-> req[r].name, perms |-> req[r].perms]]
      /\ UNCHANGED <<roles, catalogue>>
  BY <1>3 DEF UpdateUser, UserKey
<1>6. DocsOK'
  BY <1>4, <1>5 DEF IInv, DocsOK
<1> QED
  BY <1>2, <1>6, EmittingOK

LEMMA CreateRoleOK ==
    ASSUME IInv, NEW r \in Req, CreateRole(r)
    PROVE  IInv' /\ Bound!Next
<1>1. req[r] \in Request /\ SlotOK(req[r], recent)
  BY DEF IInv, SlotsOK
<1>2. req[r].pc = "write" /\ req[r].op = "createRole" /\ ThenInvalidate(r)
  BY DEF CreateRole, Writes
<1>3. PICK i \in Rid : roles' = [roles EXCEPT ![i] =
          [id |-> i, name |-> req[r].name, perms |-> req[r].perms, system |-> FALSE]]
  BY DEF CreateRole
<1>4. [id |-> i, name |-> req[r].name, perms |-> req[r].perms, system |-> FALSE]
         \in RoleDoc
  BY <1>1, <1>2 DEF SlotOK, ArgumentsOK, Request, RoleDoc
<1>5. UNCHANGED <<users, catalogue>>
  BY DEF CreateRole
<1>6. DocsOK'
  BY <1>3, <1>4, <1>5 DEF IInv, DocsOK
<1> QED
  BY <1>2, <1>6, EmittingOK

LEMMA SetPermissionsOK ==
    ASSUME IInv, NEW r \in Req, SetPermissions(r)
    PROVE  IInv' /\ Bound!Next
<1>1. req[r] \in Request /\ SlotOK(req[r], recent)
  BY DEF IInv, SlotsOK
<1>2. req[r].pc = "write" /\ req[r].op = "setPermissions" /\ ThenInvalidate(r)
  BY DEF SetPermissions, Writes
<1>3. req[r].rid \in Rid /\ req[r].perms \in SUBSET Perm
  BY <1>1, <1>2 DEF SlotOK, ArgumentsOK, Request
<1>4. /\ roles[req[r].rid] # Absent
      /\ roles' = [roles EXCEPT ![req[r].rid].perms = req[r].perms]
      /\ UNCHANGED <<users, catalogue>>
  BY DEF SetPermissions
<1>5. [roles[req[r].rid] EXCEPT !.perms = req[r].perms] \in RoleDoc
  BY <1>3, <1>4 DEF IInv, DocsOK, RoleDoc
<1>6. DocsOK'
  BY <1>3, <1>4, <1>5 DEF IInv, DocsOK
<1> QED
  BY <1>2, <1>6, EmittingOK

LEMMA UpdateRoleOK ==
    ASSUME IInv, NEW r \in Req, UpdateRole(r)
    PROVE  IInv' /\ Bound!Next
<1>1. req[r] \in Request /\ SlotOK(req[r], recent)
  BY DEF IInv, SlotsOK
<1>2. req[r].pc = "write" /\ req[r].op = "updateRole" /\ ThenInvalidate(r)
  BY DEF UpdateRole, Writes
<1>3. req[r].rid \in Rid /\ req[r].name \in RoleName
  BY <1>1, <1>2 DEF SlotOK, ArgumentsOK
<1>4. /\ roles[req[r].rid] # Absent
      /\ roles' = [roles EXCEPT ![req[r].rid].name = req[r].name]
      /\ UNCHANGED <<users, catalogue>>
  BY DEF UpdateRole
<1>5. [roles[req[r].rid] EXCEPT !.name = req[r].name] \in RoleDoc
  BY <1>3, <1>4 DEF IInv, DocsOK, RoleDoc
<1>6. DocsOK'
  BY <1>3, <1>4, <1>5 DEF IInv, DocsOK
<1> QED
  BY <1>2, <1>6, EmittingOK

LEMMA RemoveRoleOK ==
    ASSUME IInv, NEW r \in Req, RemoveRole(r)
    PROVE  IInv' /\ Bound!Next
<1>1. /\ req[r].pc = "write" /\ ThenInvalidate(r)
      /\ roles' = [roles EXCEPT ![req[r].rid] = Absent]
      /\ UNCHANGED <<users, catalogue>>
  BY DEF RemoveRole, Writes
<1>2. DocsOK'
  BY <1>1 DEF IInv, DocsOK
<1> QED
  BY <1>1, <1>2, EmittingOK

LEMMA SeedPermissionsOK ==
    ASSUME IInv, NEW r \in Req, SeedPermissions(r)
    PROVE  IInv' /\ Bound!Next
<1>1. /\ req[r].pc = "write" /\ ThenInvalidate(r)
      /\ catalogue' = catalogue \cup (Perm \ {Wildcard})
      /\ UNCHANGED <<users, roles>>
  BY DEF SeedPermissions, Writes
<1>2. DocsOK'
  BY <1>1 DEF IInv, DocsOK
<1> QED
  BY <1>1, <1>2, EmittingOK

LEMMA SeedRoleOK ==
    ASSUME IInv, NEW r \in Req, SeedRole(r)
    PROVE  IInv' /\ Bound!Next
<1> DEFINE q == [req[r] EXCEPT !.at = @ + 1]
           default == DefaultRoles[req[r].at]
<1>1. req[r] \in Request /\ SlotOK(req[r], recent)
  BY DEF IInv, SlotsOK
<1>2. /\ req[r].pc = "write" /\ req[r].op = "seedRoles" /\ Wrote /\ cache' = cache
      /\ IF req[r].at = Len(DefaultRoles) THEN Goto(r, Idle) ELSE Goto(r, q)
      /\ UNCHANGED <<users, catalogue>>
  BY DEF SeedRole, Writes, Goto
<1>3. req[r].at \in 1 .. Len(DefaultRoles)
  BY <1>1, <1>2 DEF SlotOK, ArgumentsOK
<1>4. default \in [name : RoleName, perms : SUBSET Perm]
  <2>1. DefaultRoles \in Seq([name : RoleName, perms : SUBSET Perm])
    BY CacheAssumption
  <2> QED
    BY <1>3, <2>1, ElementOfSeq
<1>5. PICK i \in Rid : roles' = [roles EXCEPT ![i] =
          [id |-> i, name |-> default.name, perms |-> default.perms, system |-> TRUE]]
  BY DEF SeedRole
<1>6. [id |-> i, name |-> default.name, perms |-> default.perms, system |-> TRUE]
         \in RoleDoc
  BY <1>4 DEF RoleDoc
<1>7. DocsOK'
  BY <1>2, <1>5, <1>6 DEF IInv, DocsOK
<1>8. Len(DefaultRoles) \in Nat
  BY CacheAssumption, LenProperties
<1>9. CASE req[r].at = Len(DefaultRoles)
  <2>1. SlotOK(Idle, recent) /\ Idle.pc = "idle" /\ Goto(r, Idle)
    BY <1>2, <1>9, IdleOK DEF Idle
  <2> QED
    BY <1>2, <1>7, <2>1, WriteOK
<1>10. CASE req[r].at # Len(DefaultRoles)
  <2>1. /\ q \in Request /\ q.pc = "write" /\ q.op = "seedRoles"
        /\ q.at = req[r].at + 1
    BY <1>1, <1>2 DEF Request
  <2>2. q.at \in 1 .. Len(DefaultRoles)
    BY <1>3, <1>8, <1>10, <2>1
  <2>3. Goto(r, q)
    BY <1>2, <1>10
  <2> HIDE DEF q
  <2>4. SlotOK(q, recent)
    BY <2>1, <2>2 DEF SlotOK, ArgumentsOK
  <2> QED
    BY <1>2, <1>7, <2>1, <2>3, <2>4, WriteOK
<1> QED
  BY <1>9, <1>10

-----------------------------------------------------------------------------
(* The other steps                                                         *)

\* A request that ends without touching the cache.
LEMMA EndOK ==
    ASSUME IInv, NEW r \in Req, Goto(r, Idle), DocumentsKept, UNCHANGED cache
    PROVE  IInv' /\ (Bound!Next \/ UNCHANGED Bound!vars)
<1>1. SlotOK(Idle, recent) /\ Idle.pc = "idle"
  BY IdleOK DEF Idle
<1>2. DocsOK' /\ RecentOK' /\ CacheOK' /\ recent' = recent /\ current' = current
  BY KeptOK, CacheKept
<1>3. SlotsOK'
  BY <1>1, <1>2, GotoOK DEF IInv
<1>4. request' = [request EXCEPT ![r] = NoRequest]
  BY <1>1, RequestSet DEF IInv
<1>5. Bound!End(r)
  BY <1>2, <1>4 DEF Bound!End, current, request
<1>6. Bound!Next
  BY <1>5 DEF Bound!Next
<1> QED
  BY <1>2, <1>3, <1>6 DEF IInv

LEMMA InvalidateOK ==
    ASSUME IInv, NEW r \in Req, Invalidate(r)
    PROVE  IInv' /\ UNCHANGED Bound!vars
<1>1. PICK covered : covered = Covered(req[r])
  OBVIOUS
<1>2. /\ req[r].pc = "invalidate" /\ Goto(r, Idle) /\ DocumentsKept
      /\ cache' = [k \in Key |-> IF k \in covered THEN NoEntry ELSE cache[k]]
  BY <1>1 DEF Invalidate
<1>3. SlotOK(Idle, recent) /\ Idle.pc = "idle"
  BY IdleOK DEF Idle
<1>4. /\ NoEntry \in [left : Nat, value : Answers] /\ NoEntry.left = 0
  BY DEF NoEntry, Answers
<1>5. recent' = recent
  BY <1>2, KeptOK
<1>6. \A k \in Key : Life(k) \in Nat
  BY LifeType
<1>7. CacheOK'
  <2>1. DecisiveKeys \subseteq Key
    BY DEF DecisiveKeys, Key, RbacKeys
  <2>2. cache' \in [Key -> [left : Nat, value : Answers]]
    BY <1>2, <1>4 DEF IInv, CacheOK
  <2>3. \A k \in Key : cache'[k] = cache[k] \/ cache'[k] = NoEntry
    BY <1>2
  <2>4. \A k \in Key : cache'[k].left <= Life(k)
    BY <1>4, <1>6, <2>3 DEF IInv, CacheOK
  <2>5. ASSUME NEW k \in DecisiveKeys, cache'[k].left > 0
        PROVE  /\ cache'[k].value \in Value(k)
               /\ cache'[k].left <= recent'[k][cache'[k].value]
    <3>1. cache'[k] = cache[k]
      BY <1>4, <2>1, <2>3, <2>5
    <3> QED
      BY <1>5, <2>5, <3>1 DEF IInv, CacheOK
  <2> QED
    BY <2>2, <2>4, <2>5 DEF CacheOK
<1> QED
  BY <1>2, <1>3, <1>7, QuietOK

LEMMA StepOK ==
    ASSUME IInv, NEW r \in Req, Step(r) \/ RequestFails(r)
    PROVE  IInv' /\ (Bound!Next \/ UNCHANGED Bound!vars)
<1>1. CASE Served(r) \/ WriteRefused(r) \/ RequestFails(r)
  <2>1. Goto(r, Idle) /\ DocumentsKept /\ UNCHANGED cache
    BY <1>1 DEF Served, WriteRefused, RequestFails
  <2> QED
    BY <2>1, EndOK
<1>2. CASE CacheHit(r)
  BY <1>2, CacheHitOK
<1>3. CASE CacheMiss(r)
  BY <1>3, CacheMissOK
<1>4. CASE ReadDocument(r)
  BY <1>4, ReadDocumentOK
<1>5. CASE Fill(r)
  BY <1>5, FillOK
<1>6. CASE UpdateUser(r)
  BY <1>6, UpdateUserOK
<1>7. CASE CreateRole(r)
  BY <1>7, CreateRoleOK
<1>8. CASE SetPermissions(r)
  BY <1>8, SetPermissionsOK
<1>9. CASE UpdateRole(r)
  BY <1>9, UpdateRoleOK
<1>10. CASE RemoveRole(r)
  BY <1>10, RemoveRoleOK
<1>11. CASE SeedPermissions(r)
  BY <1>11, SeedPermissionsOK
<1>12. CASE SeedRole(r)
  BY <1>12, SeedRoleOK
<1>13. CASE Invalidate(r)
  BY <1>13, InvalidateOK
<1> QED
  BY <1>1, <1>2, <1>3, <1>4, <1>5, <1>6, <1>7, <1>8, <1>9, <1>10, <1>11, <1>12,
     <1>13 DEF Step
\* The clock: an entry comes nearer to its end together with the document it
\* copies, unless that is still the stored one.
LEMMA TickOK ==
    ASSUME IInv, Tick
    PROVE  IInv' /\ Bound!Next
<1>1. /\ \A r \in Req : req[r].pc = "idle"
      /\ cache' = [k \in Key |-> Expire(cache[k])]
      /\ recent' = Bound!Aged(recent, [k \in DecisiveKeys |-> Stored(k)])
      /\ UNCHANGED documents /\ req' = req
  BY DEF Tick
<1>2. users' = users /\ roles' = roles /\ catalogue' = catalogue
  BY <1>1 DEF documents
<1>3. \A k : Stored(k)' = Stored(k)
  BY <1>1, StoredKept
<1>4. recent' = [k \in DecisiveKeys |-> [v \in Value(k) |->
          IF v = Stored(k) \/ recent[k][v] = 0 THEN recent[k][v]
          ELSE recent[k][v] - 1]]
  BY <1>1 DEF Bound!Aged, Bound!DecisiveKeys, DecisiveKeys, Bound!UserKeys,
       UserKeys, Bound!RoleKeys, RoleKeys, Bound!UserKey, UserKey, Bound!RoleKey,
       RoleKey, Bound!Value, Value, Bound!UserDoc, UserDoc, Bound!RoleDoc, RoleDoc
<1>5. ASSUME NEW k \in DecisiveKeys, NEW v \in Value(k)
      PROVE  /\ recent[k][v] \in 0 .. Life(k)
             /\ recent'[k][v] \in 0 .. Life(k)
             /\ recent'[k][v] >= recent[k][v] - 1
             /\ v = Stored(k) => recent'[k][v] = Life(k)
  <2>1. recent[k][v] \in 0 .. Life(k) /\ recent[k][Stored(k)] = Life(k)
    BY DEF IInv, RecentOK
  <2>2. recent'[k][v] = IF v = Stored(k) \/ recent[k][v] = 0 THEN recent[k][v]
                        ELSE recent[k][v] - 1
    BY <1>4
  <2>3. Life(k) \in Nat
    BY LifeType
  <2> QED
    BY <2>1, <2>2, <2>3
<1>6. RecentOK'
  <2> SUFFICES ASSUME NEW k \in DecisiveKeys
               PROVE  /\ recent'[k] \in [Value(k) -> 0 .. Life(k)]
                      /\ recent'[k][Stored(k)'] = Life(k)
    BY DEF RecentOK
  <2>1. recent'[k] = [v \in Value(k) |->
          IF v = Stored(k) \/ recent[k][v] = 0 THEN recent[k][v]
          ELSE recent[k][v] - 1]
    BY <1>4
  <2>2. recent'[k] \in [Value(k) -> 0 .. Life(k)]
    BY <1>5, <2>1
  <2>3. Stored(k) \in Value(k)
    BY StoredType DEF IInv
  <2> QED
    BY <1>3, <1>5, <2>2, <2>3
<1>7. ASSUME NEW k \in Key
      PROVE  /\ cache'[k] \in [left : Nat, value : Answers]
             /\ cache'[k].left <= Life(k)
             /\ cache'[k].left > 0 => /\ cache'[k].left = cache[k].left - 1
                                      /\ cache'[k].value = cache[k].value
                                      /\ cache[k].left > 0
  <2>1. cache[k].left \in Nat /\ cache[k].value \in Answers
    BY DEF IInv, CacheOK
  <2>2. cache[k].left <= Life(k) /\ Life(k) \in Nat
    BY LifeType DEF IInv, CacheOK
  <2>3. CASE cache[k].left <= 1
    <3>1. cache'[k] = NoEntry
      BY <1>1, <2>3 DEF Expire
    <3>2. NoEntry.left = 0 /\ NoEntry \in [left : Nat, value : Answers]
      BY DEF NoEntry, Answers
    <3> QED
      BY <2>2, <3>1, <3>2
  <2>4. CASE ~(cache[k].left <= 1)
    <3>1. cache'[k] = [left |-> cache[k].left - 1, value |-> cache[k].value]
      BY <1>1, <2>4 DEF Expire
    <3>2. cache'[k].left = cache[k].left - 1 /\ cache'[k].value = cache[k].value
      BY <3>1
    <3>3. cache'[k] \in [left : Nat, value : Answers]
      BY <2>1, <2>4, <3>1
    <3> QED
      BY <2>1, <2>2, <2>4, <3>2, <3>3
  <2> QED
    BY <2>3, <2>4
<1>8. CacheOK'
  <2>1. DecisiveKeys \subseteq Key
    BY DEF DecisiveKeys, Key, RbacKeys
  <2>2. cache' \in [Key -> [left : Nat, value : Answers]]
    BY <1>1, <1>7
  <2>3. ASSUME NEW k \in DecisiveKeys, cache'[k].left > 0
        PROVE  /\ cache'[k].value \in Value(k)
               /\ cache'[k].left <= recent'[k][cache'[k].value]
    <3>1. /\ cache'[k].left = cache[k].left - 1
          /\ cache'[k].value = cache[k].value
          /\ cache[k].left > 0
      BY <1>7, <2>1, <2>3
    <3>2. /\ cache[k].value \in Value(k)
          /\ cache[k].left <= recent[k][cache[k].value]
      BY <3>1 DEF IInv, CacheOK
    <3>3. cache[k].left \in Nat /\ Life(k) \in Nat
      BY <2>1, LifeType DEF IInv, CacheOK
    <3>4. /\ recent[k][cache[k].value] \in 0 .. Life(k)
          /\ recent'[k][cache[k].value] \in 0 .. Life(k)
          /\ recent'[k][cache[k].value] >= recent[k][cache[k].value] - 1
      BY <1>5, <3>2
    <3> QED
      BY <3>1, <3>2, <3>3, <3>4
  <2> QED
    BY <1>7, <2>2, <2>3 DEF CacheOK
<1>9. SlotsOK'
  <2>1. ASSUME NEW r \in Req
        PROVE  SlotOK(req'[r], recent')
    <3>1. req'[r].pc = "idle" /\ SlotOK(req'[r], recent)
      BY <1>1 DEF IInv, SlotsOK
    <3> QED
      BY <3>1 DEF SlotOK
  <2> QED
    BY <1>1, <2>1 DEF IInv, SlotsOK
<1>10. DocsOK'
  BY <1>2 DEF IInv, DocsOK
<1>11. Bound!Tick
  <2>1. current' = current
    BY <1>3 DEF current
  <2>2. request' = request
    BY <1>1 DEF request
  <2> QED
    BY <1>1, <2>1, <2>2 DEF Bound!Tick, current, request
<1> QED
  BY <1>6, <1>8, <1>9, <1>10, <1>11 DEF IInv, Bound!Next

-----------------------------------------------------------------------------
(* The invariant and the implementation                                    *)

LEMMA InitOK ==
    ASSUME Init
    PROVE  IInv /\ Bound!Init
<1>1. DocsOK
  <2>1. DefaultRoles[1] \in [name : RoleName, perms : SUBSET Perm]
    <3>1. /\ DefaultRoles \in Seq([name : RoleName, perms : SUBSET Perm])
          /\ DefaultRoles # <<>>
      BY CacheAssumption
    <3>2. 1 \in 1 .. Len(DefaultRoles)
      BY <3>1, EmptySeq, LenProperties
    <3> QED
      BY <3>1, <3>2, ElementOfSeq
  <2>2. users \in [User -> UserDoc]
    BY <2>1 DEF Init, UserDoc
  <2> QED
    BY <2>2, CacheAssumption DEF Init, DocsOK
<1>2. ASSUME NEW k \in DecisiveKeys
      PROVE  Stored(k) \in Value(k)
  BY <1>1, StoredType
<1>3. recent = [k \in DecisiveKeys |-> [v \in Value(k) |->
                    IF v = Stored(k) THEN Life(k) ELSE 0]]
  BY DEF Init
<1>4. RecentOK
  <2> SUFFICES ASSUME NEW k \in DecisiveKeys
               PROVE  /\ recent[k] \in [Value(k) -> 0 .. Life(k)]
                      /\ recent[k][Stored(k)] = Life(k)
    BY DEF RecentOK
  <2>1. recent[k] = [v \in Value(k) |-> IF v = Stored(k) THEN Life(k) ELSE 0]
    BY <1>3
  <2>2. Life(k) \in Nat
    BY LifeType
  <2>3. Life(k) \in 0 .. Life(k) /\ 0 \in 0 .. Life(k)
    BY <2>2
  <2> QED
    BY <1>2, <2>1, <2>3
<1>5. CacheOK
  <2>1. NoEntry.left = 0 /\ NoEntry \in [left : Nat, value : Answers]
    BY DEF NoEntry, Answers
  <2>2. cache = [k \in Key |-> NoEntry]
    BY DEF Init
  <2>3. \A k \in Key : cache[k] = NoEntry /\ 0 <= Life(k)
    BY <2>2, LifeType
  <2>4. DecisiveKeys \subseteq Key
    BY DEF DecisiveKeys, Key, RbacKeys
  <2> QED
    BY <2>1, <2>2, <2>3, <2>4 DEF CacheOK
<1>6. req = [r \in Req |-> Idle]
  BY DEF Init
<1>7. SlotsOK
  BY <1>6, IdleType, IdleOK DEF SlotsOK
<1>8. Bound!Init
  <2>1. \A k \in DecisiveKeys : current[k] = Stored(k)
    BY DEF current
  <2>2. \A k \in DecisiveKeys : current[k] \in Value(k)
    BY <1>2, <2>1
  <2>3. recent = [k \in DecisiveKeys |-> [v \in Value(k) |->
                    IF v = current[k] THEN Life(k) ELSE 0]]
    BY <1>3, <2>1
  <2>4. request = [r \in Req |-> NoRequest]
    BY <1>6 DEF request, Idle
  <2> QED
    BY <2>2, <2>3, <2>4 DEF Bound!Init, current, request, Bound!DecisiveKeys,
       DecisiveKeys, Bound!UserKeys, UserKeys, Bound!RoleKeys, RoleKeys,
       Bound!UserKey, UserKey, Bound!RoleKey, RoleKey, Bound!Value, Value,
       Bound!UserDoc, UserDoc, Bound!RoleDoc, RoleDoc, Bound!Life, Life,
       Bound!RoleListKey, RoleListKey
<1> QED
  BY <1>1, <1>4, <1>5, <1>7, <1>8 DEF IInv

LEMMA NextOK ==
    ASSUME IInv, [Next]_vars
    PROVE  IInv' /\ [Bound!Next]_(Bound!vars)
<1>1. CASE \E r \in Req : Begin(r) \/ Step(r) \/ RequestFails(r)
  <2>1. PICK r \in Req : Begin(r) \/ Step(r) \/ RequestFails(r)
    BY <1>1
  <2>2. CASE Begin(r)
    BY <2>2, BeginOK
  <2>3. CASE Step(r) \/ RequestFails(r)
    BY <2>3, StepOK
  <2> QED
    BY <2>1, <2>2, <2>3
<1>2. CASE Tick
  BY <1>2, TickOK
<1>3. CASE UNCHANGED vars
  <2>1. /\ users' = users /\ roles' = roles /\ catalogue' = catalogue
        /\ cache' = cache /\ req' = req /\ recent' = recent
        /\ suspect' = suspect /\ writes' = writes
    BY <1>3 DEF vars, documents
  <2>2. DocumentsKept
    BY <2>1 DEF DocumentsKept, documents
  <2>3. DocsOK' /\ RecentOK' /\ CacheOK' /\ current' = current
    BY <2>1, <2>2, KeptOK, CacheKept
  <2>4. SlotsOK' /\ request' = request
    BY <2>1 DEF IInv, SlotsOK, request
  <2> QED
    BY <2>1, <2>3, <2>4 DEF IInv, Bound!vars, current, request
<1> QED
  BY <1>1, <1>2, <1>3 DEF Next

\* The inductive invariant holds in every reachable state.
THEOREM Inductive == Spec => []IInv
<1>1. Init => IInv
  BY InitOK
<1>2. IInv /\ [Next]_vars => IInv'
  BY NextOK
<1> QED
  BY <1>1, <1>2, PTL DEF Spec

\* Documents, entries and requests are well typed; no entry has more than the
\* life of its key to live, whatever is written, lost or overtaken
\* (CacheService.set and its callers).
THEOREM TypeCorrect == Spec => []TypeOK
<1>1. IInv => TypeOK
  <2> SUFFICES ASSUME IInv PROVE TypeOK
    OBVIOUS
  <2>1. \A k \in Key : cache[k].left \in 0 .. Life(k)
    BY LifeType DEF IInv, CacheOK
  <2>2. \A r \in Req : SlotOK(req[r], recent)
    BY DEF IInv, SlotsOK
  <2>3. \A r \in Req : /\ req[r].pc \in Pcs /\ req[r].op \in AllOps
                       /\ req[r].key \in Key
                       /\ req[r].pc = "fill" /\ req[r].key \in DecisiveKeys =>
                            req[r].held \in Value(req[r].key)
    BY <2>2 DEF SlotOK, Request
  <2>4. catalogue \subseteq Perm \ {Wildcard}
    BY DEF IInv, DocsOK
  <2> QED
    BY <2>1, <2>3, <2>4 DEF IInv, TypeOK, DocsOK, RecentOK, CacheOK
<1> QED
  BY <1>1, Inductive, PTL

\* Whatever reads, fills, writes, invalidations and failures do, a request is
\* authorised with documents that MongoDB held at most the life of their entries
\* ago: the caches implement BoundedAccess (JwtStrategy.validate, validateUser,
\* getPermissionsForRole).
THEOREM Bounded == Spec => StalenessBounded
<1>1. Init => Bound!Init
  BY InitOK
<1>2. IInv /\ [Next]_vars => [Bound!Next]_(Bound!vars)
  BY NextOK
<1> QED
  BY <1>1, <1>2, Inductive, PTL DEF Spec, StalenessBounded, Bound!Spec

-----------------------------------------------------------------------------
(* Coherence                                                               *)

\* No step but an invalidation ends one, and no other slot is disturbed.
LEMMA OthersInvalidate ==
    ASSUME SlotsOK, NEW r \in Req, NEW q, Goto(r, q), req[r].pc # "invalidate",
           NEW k, \E s \in Req : req[s].pc = "invalidate" /\ k \in Covered(req[s])
    PROVE  \E s \in Req : req'[s].pc = "invalidate" /\ k \in Covered(req'[s])
<1>1. PICK s \in Req : req[s].pc = "invalidate" /\ k \in Covered(req[s])
  OBVIOUS
<1>2. req'[s] = req[s]
  BY <1>1 DEF SlotsOK, Goto
<1> QED
  BY <1>1, <1>2

\* A step that leaves documents, entries and suspicion alone.
LEMMA QuietCoherent ==
    ASSUME IInv, CoherentUnlessSuspect, NEW r \in Req, NEW q, Goto(r, q),
           req[r].pc # "invalidate", DocumentsKept, UNCHANGED <<cache, suspect>>
    PROVE  CoherentUnlessSuspect'
<1>1. \A k \in Key : Stored(k)' = Stored(k)
  BY StoredKept DEF DocumentsKept
<1> SUFFICES ASSUME NEW k \in Key, cache'[k].left > 0, cache'[k].value # Stored(k)',
                    k \notin suspect'
             PROVE  \E s \in Req : req'[s].pc = "invalidate" /\ k \in Covered(req'[s])
  BY DEF CoherentUnlessSuspect
<1>2. \E s \in Req : req[s].pc = "invalidate" /\ k \in Covered(req[s])
  BY <1>1 DEF CoherentUnlessSuspect
<1> QED
  BY <1>2, OthersInvalidate DEF IInv

\* A fill is judged by itself.
LEMMA FillCoherent ==
    ASSUME IInv, CoherentUnlessSuspect, NEW r \in Req, Fill(r)
    PROVE  CoherentUnlessSuspect'
<1>1. PICK q : q = Resolved(req[r], req[r].held)
  OBVIOUS
<1>2. /\ req[r].pc = "fill" /\ Goto(r, q) /\ DocumentsKept
      /\ \/ /\ cache' = [cache EXCEPT ![req[r].key] =
                                Entry(req[r].key, req[r].held)]
            /\ suspect' = IF req[r].held = Stored(req[r].key)
                          THEN suspect \ {req[r].key}
                          ELSE suspect \cup {req[r].key}
         \/ UNCHANGED <<cache, suspect>>
  BY <1>1 DEF Fill
<1>3. \A k \in Key : Stored(k)' = Stored(k)
  BY <1>2, StoredKept DEF DocumentsKept
<1>4. req[r].key \in Key /\ \A k \in Key : cache'[k] = cache[k] \/ k = req[r].key
  BY <1>2 DEF IInv, SlotsOK, SlotOK, Request, CacheOK
<1> SUFFICES ASSUME NEW k \in Key, cache'[k].left > 0, cache'[k].value # Stored(k)',
                    k \notin suspect'
             PROVE  \E s \in Req : req'[s].pc = "invalidate" /\ k \in Covered(req'[s])
  BY DEF CoherentUnlessSuspect
<1>5. cache'[k] = cache[k] /\ k \notin suspect
  <2>1. CASE UNCHANGED <<cache, suspect>>
    BY <2>1
  <2>2. CASE /\ cache' = [cache EXCEPT ![req[r].key] =
                                Entry(req[r].key, req[r].held)]
             /\ suspect' = IF req[r].held = Stored(req[r].key)
                           THEN suspect \ {req[r].key}
                           ELSE suspect \cup {req[r].key}
    <3>1. CASE k # req[r].key
      BY <1>4, <2>2, <3>1
    <3>2. CASE k = req[r].key
      <4>1. cache'[k].value = req[r].held
        BY <2>2, <3>2 DEF Entry, IInv, CacheOK
      <4> QED
        BY <1>3, <2>2, <3>2, <4>1
    <3> QED
      BY <3>1, <3>2
  <2> QED
    BY <1>2, <2>1, <2>2
<1>6. \E s \in Req : req[s].pc = "invalidate" /\ k \in Covered(req[s])
  BY <1>3, <1>5 DEF CoherentUnlessSuspect
<1> QED
  BY <1>2, <1>6, OthersInvalidate DEF IInv

\* A write that covers what it changes.
LEMMA EmittingCoherent ==
    ASSUME IInv, CoherentUnlessSuspect, NEW r \in Req, req[r].pc = "write",
           ThenInvalidate(r),
           \A k \in Key \ Covered(req[r]) : Stored(k)' = Stored(k)
    PROVE  CoherentUnlessSuspect'
<1>1. PICK q : q = [req[r] EXCEPT !.pc = "invalidate"]
  OBVIOUS
<1>2. Goto(r, q) /\ UNCHANGED <<cache, suspect>>
  BY <1>1 DEF ThenInvalidate
<1>3. req'[r] = q /\ q.pc = "invalidate" /\ q.op = req[r].op /\ q.key = req[r].key
  BY <1>1, <1>2 DEF IInv, SlotsOK, SlotOK, Request, Goto
<1>4. Covered(q) = Covered(req[r])
  BY <1>3 DEF Covered
<1> SUFFICES ASSUME NEW k \in Key, cache'[k].left > 0, cache'[k].value # Stored(k)',
                    k \notin suspect'
             PROVE  \E s \in Req : req'[s].pc = "invalidate" /\ k \in Covered(req'[s])
  BY DEF CoherentUnlessSuspect
<1>5. CASE k \in Covered(req[r])
  BY <1>3, <1>4, <1>5
<1>6. CASE k \notin Covered(req[r])
  <2>1. \E s \in Req : req[s].pc = "invalidate" /\ k \in Covered(req[s])
    BY <1>2, <1>6 DEF CoherentUnlessSuspect
  <2> QED
    BY <1>2, <2>1, OthersInvalidate DEF IInv
<1> QED
  BY <1>5, <1>6

\* Roles and permissions decide no answer but those under cache:rbac.
LEMMA RbacChangesOnly ==
    ASSUME UNCHANGED users, NEW k \in Key \ RbacKeys
    PROVE  Stored(k)' = Stored(k)
<1>1. k[1] = "user"
  BY DEF Key, UserKeys, UserKey
<1> QED
  BY <1>1 DEF Stored

\* Every operation covers the keys that its write changes.
LEMMA WriteCoherent ==
    ASSUME IInv, CoherentUnlessSuspect, NEW r \in Req,
           UpdateUser(r) \/ CreateRole(r) \/ SetPermissions(r) \/ UpdateRole(r)
             \/ RemoveRole(r) \/ SeedPermissions(r)
    PROVE  CoherentUnlessSuspect'
<1>1. req[r].pc = "write" /\ ThenInvalidate(r)
  BY DEF UpdateUser, CreateRole, SetPermissions, UpdateRole, RemoveRole,
         SeedPermissions, Writes
<1>2. CASE UpdateUser(r)
  <2>1. req[r].op = "updateUser"
    BY <1>2 DEF UpdateUser, Writes
  <2>2. PICK u \in User : req[r].key = UserKey(u)
    BY <1>1, <2>1 DEF IInv, SlotsOK, SlotOK, ArgumentsOK, UserKeys
  <2>3. users' = [users EXCEPT ![u] = [role |-> req[r].name,
                                        perms |-> req[r].perms]]
    BY <1>2, <2>2 DEF UpdateUser, UserKey
  <2>4. UNCHANGED <<roles, catalogue>>
    BY <1>2 DEF UpdateUser
  <2>5. ASSUME NEW k \in Key, k # UserKey(u)
        PROVE  Stored(k)' = Stored(k)
    <3>1. CASE k \in UserKeys
      <4>1. PICK v \in User : k = UserKey(v)
        BY <3>1 DEF UserKeys
      <4>2. v # u /\ k[1] = "user" /\ k[2] = v
        BY <2>5, <4>1 DEF UserKey
      <4>3. users'[v] = users[v]
        BY <2>3, <4>2 DEF IInv, DocsOK
      <4> QED
        BY <4>2, <4>3 DEF Stored
    <3>2. CASE k \in RbacKeys
      <4>1. k[1] # "user"
        BY <3>2 DEF RbacKeys, RoleKeys, RoleKey, PermKey, RoleListKey, PermListKey
      <4> QED
        BY <2>4, <4>1 DEF Stored, RoleOf, Named
    <3> QED
      BY <3>1, <3>2 DEF Key
  <2>6. Covered(req[r]) = {UserKey(u)}
    BY <2>1, <2>2 DEF Covered
  <2> QED
    BY <1>1, <2>5, <2>6, EmittingCoherent
<1>3. CASE ~UpdateUser(r)
  <2>1. UNCHANGED users /\ req[r].op # "updateUser"
    BY <1>3 DEF CreateRole, SetPermissions, UpdateRole, RemoveRole,
         SeedPermissions, Writes
  <2>2. RbacKeys \subseteq Covered(req[r])
    BY <2>1 DEF Covered
  <2>3. \A k \in Key \ Covered(req[r]) : Stored(k)' = Stored(k)
    BY <2>1, <2>2, RbacChangesOnly
  <2> QED
    BY <1>1, <2>3, EmittingCoherent
<1> QED
  BY <1>2, <1>3

\* The seed of the roles emits nothing, and is suspected of what it changes.
LEMMA SeedCoherent ==
    ASSUME IInv, CoherentUnlessSuspect, NEW r \in Req, SeedRole(r)
    PROVE  CoherentUnlessSuspect'
<1>1. PICK q : Goto(r, q)
  BY DEF SeedRole
<1>2. /\ req[r].pc = "write" /\ UNCHANGED cache
      /\ suspect' = suspect \cup {k \in Key : Stored(k)' # Stored(k)}
  BY DEF SeedRole, Writes
<1> SUFFICES ASSUME NEW k \in Key, cache'[k].left > 0, cache'[k].value # Stored(k)',
                    k \notin suspect'
             PROVE  \E s \in Req : req'[s].pc = "invalidate" /\ k \in Covered(req'[s])
  BY DEF CoherentUnlessSuspect
<1>3. k \notin suspect /\ Stored(k)' = Stored(k)
  BY <1>2
<1>4. \E s \in Req : req[s].pc = "invalidate" /\ k \in Covered(req[s])
  BY <1>2, <1>3 DEF CoherentUnlessSuspect
<1> QED
  BY <1>1, <1>2, <1>4, OthersInvalidate DEF IInv

\* An invalidation that arrives drops what it covers; one that is lost is
\* remembered.
LEMMA InvalidateCoherent ==
    ASSUME IInv, CoherentUnlessSuspect, NEW r \in Req,
           Invalidate(r) \/ RequestFails(r)
    PROVE  CoherentUnlessSuspect'
<1>1. PICK covered : covered = Covered(req[r])
  OBVIOUS
<1>2. Goto(r, Idle) /\ DocumentsKept
  BY DEF Invalidate, RequestFails
<1>3. \A k \in Key : Stored(k)' = Stored(k)
  BY <1>2, StoredKept DEF DocumentsKept
<1>4. \A s \in Req : s # r => req'[s] = req[s]
  BY <1>2 DEF IInv, SlotsOK, Goto
<1> SUFFICES ASSUME NEW k \in Key, cache'[k].left > 0, cache'[k].value # Stored(k)',
                    k \notin suspect'
             PROVE  \E s \in Req : req'[s].pc = "invalidate" /\ k \in Covered(req'[s])
  BY DEF CoherentUnlessSuspect
<1>5. /\ cache'[k] = cache[k] /\ k \notin suspect
      /\ req[r].pc = "invalidate" => k \notin covered
  <2>1. CASE Invalidate(r)
    <3>1. /\ cache' = [x \in Key |-> IF x \in covered THEN NoEntry ELSE cache[x]]
          /\ suspect' = suspect \ covered
      BY <1>1, <2>1 DEF Invalidate
    <3>2. NoEntry.left = 0
      BY DEF NoEntry
    <3> QED
      BY <3>1, <3>2
  <2>2. CASE RequestFails(r)
    <3>1. /\ UNCHANGED cache
          /\ suspect' = IF req[r].pc = "invalidate" THEN suspect \cup covered
                        ELSE suspect
      BY <1>1, <2>2 DEF RequestFails
    <3> QED
      BY <3>1
  <2> QED
    BY <2>1, <2>2
<1>6. PICK s \in Req : req[s].pc = "invalidate" /\ k \in Covered(req[s])
  BY <1>3, <1>5 DEF CoherentUnlessSuspect
<1>7. s # r
  BY <1>1, <1>5, <1>6
<1> QED
  BY <1>4, <1>6, <1>7

LEMMA TickCoherent ==
    ASSUME IInv, CoherentUnlessSuspect, Tick
    PROVE  CoherentUnlessSuspect'
<1>1. /\ \A r \in Req : req[r].pc = "idle"
      /\ cache' = [k \in Key |-> Expire(cache[k])]
      /\ UNCHANGED <<documents, req, suspect>>
  BY DEF Tick
<1>2. \A k \in Key : Stored(k)' = Stored(k)
  BY <1>1, StoredKept
<1> SUFFICES ASSUME NEW k \in Key, cache'[k].left > 0, cache'[k].value # Stored(k)'
             PROVE  k \in suspect'
  BY DEF CoherentUnlessSuspect
<1>3. cache[k].left > 0 /\ cache'[k].value = cache[k].value
  <2>1. cache'[k] = Expire(cache[k]) /\ cache[k].left \in Nat
    BY <1>1 DEF IInv, CacheOK
  <2> QED
    BY <2>1 DEF Expire, NoEntry
<1> QED
  BY <1>1, <1>2, <1>3 DEF CoherentUnlessSuspect

\* An entry that differs from MongoDB is about to be invalidated, unless a fill
\* was overtaken, an event lost, or the roles seeded: the patterns of every
\* operation cover all keys it changes (invalidateRbacCaches, role.service.ts,
\* permission.service.ts, user.service.ts).
THEOREM Coherent == Spec => []CoherentUnlessSuspect
<1>1. Init => CoherentUnlessSuspect
  BY DEF Init, NoEntry, CoherentUnlessSuspect
<1>2. IInv /\ CoherentUnlessSuspect /\ [Next]_vars => CoherentUnlessSuspect'
  <2> SUFFICES ASSUME IInv, CoherentUnlessSuspect, [Next]_vars
               PROVE  CoherentUnlessSuspect'
    OBVIOUS
  <2>1. CASE \E r \in Req : Begin(r) \/ Step(r) \/ RequestFails(r)
    <3>1. PICK r \in Req : Begin(r) \/ Step(r) \/ RequestFails(r)
      BY <2>1
    <3>2. CASE Begin(r)
      <4>1. \E q : Goto(r, q)
        BY <3>2 DEF Begin, BeginAccess, BeginList, BeginUpdateUser,
             BeginCreateRole, BeginSetPermissions, BeginUpdateRole,
             BeginRemoveRole, BeginSeed, CountUsers
      <4>2. /\ req[r].pc # "invalidate" /\ DocumentsKept
            /\ UNCHANGED <<cache, suspect>>
        BY <3>2 DEF Begin, BeginAccess, BeginList, BeginUpdateUser,
             BeginCreateRole, BeginSetPermissions, BeginUpdateRole,
             BeginRemoveRole, BeginSeed, CountUsers, Starts
      <4> QED
        BY <4>1, <4>2, QuietCoherent
    <3>3. CASE Served(r) \/ CacheHit(r) \/ CacheMiss(r) \/ ReadDocument(r)
                 \/ WriteRefused(r)
      <4>1. \E q : Goto(r, q)
        BY <3>3 DEF Served, CacheHit, CacheMiss, ReadDocument, WriteRefused
      <4>2. /\ req[r].pc # "invalidate" /\ DocumentsKept
            /\ UNCHANGED <<cache, suspect>>
        BY <3>3 DEF Served, CacheHit, CacheMiss, ReadDocument, WriteRefused
      <4> QED
        BY <4>1, <4>2, QuietCoherent
    <3>4. CASE Fill(r)
      BY <3>4, FillCoherent
    <3>5. CASE UpdateUser(r) \/ CreateRole(r) \/ SetPermissions(r) \/ UpdateRole(r)
                 \/ RemoveRole(r) \/ SeedPermissions(r)
      BY <3>5, WriteCoherent
    <3>6. CASE SeedRole(r)
      BY <3>6, SeedCoherent
    <3>7. CASE Invalidate(r) \/ RequestFails(r)
      BY <3>7, InvalidateCoherent
    <3> QED
      BY <3>1, <3>2, <3>3, <3>4, <3>5, <3>6, <3>7 DEF Step
  <2>2. CASE Tick
    BY <2>2, TickCoherent
  <2>3. CASE UNCHANGED vars
    <3>1. UNCHANGED <<documents, cache, req, suspect>>
      BY <2>3 DEF vars
    <3>2. \A k \in Key : Stored(k)' = Stored(k)
      BY <3>1, StoredKept
    <3> QED
      BY <3>1, <3>2 DEF CoherentUnlessSuspect
  <2> QED
    BY <2>1, <2>2, <2>3 DEF Next
<1> QED
  BY <1>1, <1>2, Inductive, PTL DEF Spec
-----------------------------------------------------------------------------
(* The permissions of a role exist                                         *)

\* What a handler has verified stays true, since permissions are never removed.
KnownSlot(q, known) ==
    /\ \A p \in Perm :
         q.pc = "fill" /\ q.key = PermKey(p) /\ q.held = TRUE => p \in known
    /\ q.op \in {"createRole", "setPermissions"}
          /\ q.pc \in {"get", "read", "fill", "write"} =>
         q.perms \subseteq q.todo \cup known \cup {Wildcard}
    /\ q.op \in {"createRole", "setPermissions"} /\ q.pc = "write" => q.todo = {}

\* A cached permission exists: only a cached absence can be out of date.
KnownCache ==
    \A p \in Perm :
        cache[PermKey(p)].left > 0 /\ cache[PermKey(p)].value = TRUE =>
            p \in catalogue

KnownInv ==
    /\ KnownCache
    /\ \A r \in Req : KnownSlot(req[r], catalogue)
    /\ RolesHoldKnownPermissions

LEMMA PermKeyFacts ==
    ASSUME NEW p \in Perm
    PROVE  /\ PermKey(p) \in Key
           /\ PermKey(p)[1] = "permission" /\ PermKey(p)[2] = p
           /\ Stored(PermKey(p)) = (p \in catalogue)
<1>1. PermKey(p)[1] = "permission" /\ PermKey(p)[2] = p
  BY DEF PermKey
<1> QED
  BY <1>1 DEF Key, RbacKeys, Stored

\* Permissions are never removed, so what a slot knows stays known.
LEMMA KnownMonotone ==
    ASSUME NEW q, NEW known, NEW more, known \subseteq more, KnownSlot(q, known)
    PROVE  KnownSlot(q, more)
BY DEF KnownSlot

LEMMA KnownIdle ==
    ASSUME NEW known
    PROVE  KnownSlot(Idle, known)
BY DEF KnownSlot, Idle

\* A handler that verifies goes on to the next name, or writes.
LEMMA KnownVerify ==
    ASSUME NEW q, NEW known, q \in Request,
           q.perms \subseteq q.todo \cup known \cup {Wildcard}
    PROVE  KnownSlot(Verify(q), known)
<1>1. CASE q.todo = {}
  <2>1. Verify(q) = [q EXCEPT !.pc = "write"]
    BY <1>1 DEF Verify
  <2>2. /\ Verify(q).pc = "write" /\ Verify(q).perms = q.perms
        /\ Verify(q).todo = q.todo
    BY <2>1 DEF Request
  <2> QED
    BY <1>1, <2>2 DEF KnownSlot
<1>2. CASE q.todo # {}
  <2>1. PICK k : Verify(q) = [q EXCEPT !.pc = "get", !.key = k]
    BY <1>2 DEF Verify, Reads
  <2>2. /\ Verify(q).pc = "get" /\ Verify(q).perms = q.perms
        /\ Verify(q).todo = q.todo
    BY <2>1 DEF Request
  <2> QED
    BY <2>2 DEF KnownSlot
<1> QED
  BY <1>1, <1>2

\* An answer that says a permission exists is right.
LEMMA KnownResolved ==
    ASSUME NEW q, NEW v, NEW known, q \in Request, q.pc \in {"get", "fill"},
           KnownSlot(q, known),
           \A p \in Perm : q.key = PermKey(p) /\ v = TRUE => p \in known
    PROVE  KnownSlot(Resolved(q, v), known)
<1>1. CASE q.op \notin {"createRole", "setPermissions"}
  <2>1. \/ Resolved(q, v) = Idle
        \/ /\ Resolved(q, v).op = q.op
           /\ Resolved(q, v).pc \in {"get", "authorised", "write"}
    BY <1>1 DEF Resolved, Reads, Request
  <2> QED
    BY <1>1, <2>1, KnownIdle DEF KnownSlot
<1>2. CASE q.op \in {"createRole", "setPermissions"}
  <2>1. q.perms \subseteq q.todo \cup known \cup {Wildcard}
    BY <1>2 DEF KnownSlot
  <2>2. CASE q.op = "createRole" /\ q.key[1] = "role"
    <3>1. Resolved(q, v) \in {Idle, Verify(q)}
      BY <2>2 DEF Resolved
    <3> QED
      BY <2>1, <3>1, KnownIdle, KnownVerify
  <2>3. CASE q.key[1] = "permission" /\ v = TRUE
    <3>1. PICK p \in Perm : q.key = PermKey(p)
      BY <2>3 DEF Request, Key, RbacKeys, UserKeys, RoleKeys, UserKey, RoleKey,
         RoleListKey, PermListKey
    <3>2. PICK x : x = [q EXCEPT !.todo = q.todo \ {p}]
      OBVIOUS
    <3>3. Resolved(q, v) = Verify(x)
      BY <1>2, <2>3, <3>1, <3>2, PermKeyFacts DEF Resolved, IsKnown
    <3>4. x \in Request /\ x.perms = q.perms /\ x.todo = q.todo \ {p}
      BY <3>2 DEF Request
    <3>5. p \in known
      BY <2>3, <3>1
    <3> QED
      BY <2>1, <3>3, <3>4, <3>5, KnownVerify
  <2>4. CASE /\ ~(q.op = "createRole" /\ q.key[1] = "role")
             /\ ~(q.key[1] = "permission" /\ v = TRUE)
    <3>1. Resolved(q, v) = Idle
      BY <1>2, <2>4 DEF Resolved, IsKnown
    <3> QED
      BY <3>1, KnownIdle
  <2> QED
    BY <2>2, <2>3, <2>4
<1> QED
  BY <1>1, <1>2

\* A step of one request, that leaves entries and roles in order.
LEMMA KnownStep ==
    ASSUME IInv, KnownInv, NEW r \in Req, NEW q, Goto(r, q),
           catalogue \subseteq catalogue', KnownSlot(q, catalogue'),
           KnownCache', RolesHoldKnownPermissions'
    PROVE  KnownInv'
<1>1. ASSUME NEW s \in Req
      PROVE  KnownSlot(req'[s], catalogue')
  <2>1. CASE s = r
    BY <2>1 DEF IInv, SlotsOK, Goto
  <2>2. CASE s # r
    <3>1. req'[s] = req[s] /\ KnownSlot(req[s], catalogue)
      BY <2>2 DEF IInv, SlotsOK, Goto, KnownInv
    <3> QED
      BY <3>1, KnownMonotone
  <2> QED
    BY <2>1, <2>2
<1> QED
  BY <1>1 DEF KnownInv, KnownCache

\* The same, when documents and entries are kept.
LEMMA KnownQuiet ==
    ASSUME IInv, KnownInv, NEW r \in Req, NEW q, Goto(r, q), DocumentsKept,
           UNCHANGED cache, KnownSlot(q, catalogue)
    PROVE  KnownInv'
<1>1. catalogue' = catalogue /\ roles' = roles
  BY DEF DocumentsKept, documents
<1>2. KnownCache' /\ RolesHoldKnownPermissions'
  BY <1>1 DEF KnownInv, KnownCache, RolesHoldKnownPermissions
<1> QED
  BY <1>1, <1>2, KnownStep

\* What a request starts with is not verified yet, or needs not be.
LEMMA KnownBegin ==
    ASSUME IInv, KnownInv, NEW r \in Req, Begin(r)
    PROVE  KnownInv'
<1>1. DocumentsKept /\ UNCHANGED cache
  BY DEF Begin
<1>2. req[r] \in Request /\ Idle \in Request
  BY IdleType DEF IInv, SlotsOK
<1>3. ASSUME NEW q, Goto(r, q), q.op \notin {"createRole", "setPermissions"},
             q.pc # "fill"
      PROVE  KnownInv'
  <2>1. KnownSlot(q, catalogue)
    BY <1>3 DEF KnownSlot
  <2> QED
    BY <1>1, <1>3, <2>1, KnownQuiet
<1>4. CASE \E u \in User : BeginAccess(r, u)
  <2>1. PICK u \in User : BeginAccess(r, u)
    BY <1>4
  <2>2. Goto(r, [Idle EXCEPT !.name = u, !.pc = "get", !.key = UserKey(u)])
    BY <2>1 DEF BeginAccess, Reads, Idle
  <2> QED
    BY <1>3, <2>2 DEF Idle
<1>5. CASE \E k \in {RoleListKey, PermListKey} : BeginList(r, k)
  <2>1. PICK k : BeginList(r, k)
    BY <1>5
  <2>2. Goto(r, [Idle EXCEPT !.op = "list", !.pc = "get", !.key = k])
    BY <2>1 DEF BeginList, Reads, Idle
  <2> QED
    BY <1>3, <2>2 DEF Idle
<1>6. CASE \E u \in User, n \in RoleName, g \in GrantSets : BeginUpdateUser(r, u, n, g)
  <2>1. PICK u \in User, n \in RoleName, g \in GrantSets : BeginUpdateUser(r, u, n, g)
    BY <1>6
  <2>2. Goto(r, [Idle EXCEPT !.pc = "write", !.op = "updateUser",
                             !.key = UserKey(u), !.name = n, !.perms = g])
    BY <2>1 DEF BeginUpdateUser
  <2> QED
    BY <1>3, <2>2 DEF Idle
<1>7. CASE \E n \in RoleName, g \in GrantSets : BeginCreateRole(r, n, g)
  <2>1. PICK n \in RoleName, g \in GrantSets : BeginCreateRole(r, n, g)
    BY <1>7
  <2>2. PICK q : q = [Idle EXCEPT !.pc = "get", !.op = "createRole", !.name = n,
                            !.perms = g, !.todo = g \ {Wildcard},
                            !.key = RoleKey(n)]
    OBVIOUS
  <2>3. Goto(r, q)
    BY <2>1, <2>2 DEF BeginCreateRole, Reads, Idle
  <2>4. q.pc = "get" /\ q.perms = g /\ q.todo = g \ {Wildcard}
    BY <2>2 DEF Idle
  <2>5. KnownSlot(q, catalogue)
    BY <2>4 DEF KnownSlot
  <2> QED
    BY <1>1, <2>3, <2>5, KnownQuiet
<1>8. CASE \E i \in Rid, g \in GrantSets : BeginSetPermissions(r, i, g)
  <2>1. PICK i \in Rid, g \in GrantSets : BeginSetPermissions(r, i, g)
    BY <1>8
  <2>2. PICK q : q = [Idle EXCEPT !.op = "setPermissions", !.rid = i,
                            !.perms = g, !.todo = g \ {Wildcard}]
    OBVIOUS
  <2>3. Goto(r, Verify(q))
    BY <2>1, <2>2 DEF BeginSetPermissions
  <2>4. g \in SUBSET Perm
    BY CacheAssumption
  <2>5. q \in Request /\ q.perms = g /\ q.todo = g \ {Wildcard}
    BY <1>2, <2>2, <2>4 DEF Request, AllOps
  <2>6. KnownSlot(Verify(q), catalogue)
    BY <2>5, KnownVerify
  <2> QED
    BY <1>1, <2>3, <2>6, KnownQuiet
<1>9. CASE \E i \in Rid, n \in RoleName : BeginUpdateRole(r, i, n)
  <2>1. PICK i \in Rid, n \in RoleName : BeginUpdateRole(r, i, n)
    BY <1>9
  <2>2. PICK q : q = [Idle EXCEPT !.op = "updateRole", !.rid = i, !.name = n]
    OBVIOUS
  <2>3. \/ Goto(r, [q EXCEPT !.pc = "write"])
        \/ Goto(r, [q EXCEPT !.pc = "get", !.key = RoleKey(n)])
    BY <2>1, <2>2 DEF BeginUpdateRole, Reads
  <2>4. q \in [pc : {"idle"}, op : {"updateRole"}, key : {RoleListKey},
               held : {Absent}, user : {Absent}, rid : {i}, name : {n},
               perms : {{}}, todo : {{}}, at : {1}]
    BY <2>2 DEF Idle
  <2> QED
    BY <1>3, <2>3, <2>4
<1>10. CASE \E i \in Rid : BeginRemoveRole(r, i)
  <2>1. PICK i \in Rid : BeginRemoveRole(r, i)
    BY <1>10
  <2>2. Goto(r, [Idle EXCEPT !.pc = "count", !.op = "removeRole", !.rid = i,
                             !.name = roles[i].name])
    BY <2>1 DEF BeginRemoveRole
  <2> QED
    BY <1>3, <2>2 DEF Idle
<1>11. CASE \E op \in {"seedRoles", "seedPermissions"} : BeginSeed(r, op)
  <2>1. PICK op \in {"seedRoles", "seedPermissions"} : BeginSeed(r, op)
    BY <1>11
  <2>2. Goto(r, [Idle EXCEPT !.pc = "write", !.op = op])
    BY <2>1 DEF BeginSeed
  <2> QED
    BY <1>3, <2>1, <2>2 DEF Idle
<1>12. CASE CountUsers(r)
  <2>1. req[r].pc = "count" /\ req[r].op = "removeRole"
    BY <1>12 DEF CountUsers, IInv, SlotsOK, SlotOK, ArgumentsOK
  <2>2. Goto(r, Idle) \/ Goto(r, [req[r] EXCEPT !.pc = "write"])
    BY <1>12 DEF CountUsers
  <2>3. CASE Goto(r, Idle)
    BY <1>1, <2>3, KnownIdle, KnownQuiet
  <2>4. CASE Goto(r, [req[r] EXCEPT !.pc = "write"])
    BY <1>2, <1>3, <2>1, <2>4 DEF Request
  <2> QED
    BY <2>2, <2>3, <2>4
<1> QED
  BY <1>4, <1>5, <1>6, <1>7, <1>8, <1>9, <1>10, <1>11, <1>12 DEF Begin

LEMMA KnownRead ==
    ASSUME IInv, KnownInv, NEW r \in Req,
           CacheHit(r) \/ CacheMiss(r) \/ ReadDocument(r)
    PROVE  KnownInv'
<1>1. DocumentsKept /\ UNCHANGED cache
  BY DEF CacheHit, CacheMiss, ReadDocument
<1>2. req[r] \in Request /\ KnownSlot(req[r], catalogue)
  BY DEF IInv, SlotsOK, KnownInv
<1>3. CASE CacheHit(r)
  <2>1. /\ req[r].pc = "get" /\ cache[req[r].key].left > 0
        /\ Goto(r, Resolved(req[r], cache[req[r].key].value))
    BY <1>3 DEF CacheHit
  <2>2. KnownSlot(Resolved(req[r], cache[req[r].key].value), catalogue)
    BY <1>2, <2>1, KnownResolved DEF KnownInv, KnownCache
  <2> QED
    BY <1>1, <2>1, <2>2, KnownQuiet
<1>4. CASE CacheMiss(r)
  <2>1. PICK q : q = [req[r] EXCEPT !.pc = "read"]
    OBVIOUS
  <2>2. req[r].pc = "get" /\ Goto(r, q)
    BY <1>4, <2>1 DEF CacheMiss
  <2>3. /\ q.pc = "read" /\ q.op = req[r].op /\ q.perms = req[r].perms
        /\ q.todo = req[r].todo
    BY <1>2, <2>1 DEF Request
  <2>4. KnownSlot(q, catalogue)
    BY <1>2, <2>2, <2>3 DEF KnownSlot
  <2> QED
    BY <1>1, <2>2, <2>4, KnownQuiet
<1>5. CASE ReadDocument(r)
  <2>1. PICK v : v = Stored(req[r].key)
    OBVIOUS
  <2>2. PICK q : q = [req[r] EXCEPT !.pc = "fill", !.held = v]
    OBVIOUS
  <2>3. req[r].pc = "read" /\ Goto(r, q)
    BY <1>5, <2>1, <2>2 DEF ReadDocument
  <2>4. /\ q.pc = "fill" /\ q.op = req[r].op /\ q.perms = req[r].perms
        /\ q.todo = req[r].todo /\ q.key = req[r].key /\ q.held = v
    BY <1>2, <2>2 DEF Request
  <2>5. \A p \in Perm : q.key = PermKey(p) /\ q.held = TRUE => p \in catalogue
    <3> SUFFICES ASSUME NEW p \in Perm, q.key = PermKey(p), q.held = TRUE
                 PROVE  p \in catalogue
      OBVIOUS
    <3>1. v = (p \in catalogue) /\ v = TRUE
      BY <2>1, <2>4, PermKeyFacts
    <3> QED
      BY <3>1, Zenon
  <2>6. KnownSlot(q, catalogue)
    BY <1>2, <2>3, <2>4, <2>5 DEF KnownSlot
  <2> QED
    BY <1>1, <2>3, <2>6, KnownQuiet
<1> QED
  BY <1>3, <1>4, <1>5

LEMMA KnownFill ==
    ASSUME IInv, KnownInv, NEW r \in Req, Fill(r)
    PROVE  KnownInv'
<1>1. PICK q : q = Resolved(req[r], req[r].held)
  OBVIOUS
<1>2. /\ req[r].pc = "fill" /\ Goto(r, q) /\ DocumentsKept
      /\ \/ cache' = [cache EXCEPT ![req[r].key] = Entry(req[r].key, req[r].held)]
         \/ cache' = cache
  BY <1>1 DEF Fill
<1>3. req[r] \in Request /\ KnownSlot(req[r], catalogue)
  BY DEF IInv, SlotsOK, KnownInv
<1>4. \A p \in Perm : req[r].key = PermKey(p) /\ req[r].held = TRUE => p \in catalogue
  BY <1>2, <1>3 DEF KnownSlot
<1>5. KnownSlot(q, catalogue)
  BY <1>1, <1>2, <1>3, <1>4, KnownResolved
<1>6. catalogue' = catalogue /\ roles' = roles
  BY <1>2 DEF DocumentsKept, documents
<1>7. KnownCache'
  <2> SUFFICES ASSUME NEW p \in Perm, cache'[PermKey(p)].left > 0,
                      cache'[PermKey(p)].value = TRUE
               PROVE  p \in catalogue
    BY <1>6 DEF KnownCache
  <2>1. CASE cache'[PermKey(p)] = cache[PermKey(p)]
    BY <2>1 DEF KnownInv, KnownCache
  <2>2. CASE cache'[PermKey(p)] # cache[PermKey(p)]
    <3>1. /\ req[r].key = PermKey(p)
          /\ cache' = [cache EXCEPT ![PermKey(p)] = Entry(PermKey(p), req[r].held)]
      BY <1>2, <2>2, PermKeyFacts DEF IInv, CacheOK
    <3>2. cache'[PermKey(p)].value = req[r].held
      BY <3>1, PermKeyFacts DEF Entry, IInv, CacheOK
    <3> QED
      BY <1>4, <3>1, <3>2
  <2> QED
    BY <2>1, <2>2
<1>8. RolesHoldKnownPermissions'
  BY <1>6 DEF KnownInv, RolesHoldKnownPermissions
<1> QED
  BY <1>2, <1>5, <1>6, <1>7, <1>8, KnownStep

\* Only verified permissions are written, and the catalogue only grows.
LEMMA KnownWrite ==
    ASSUME IInv, KnownInv, NEW r \in Req,
           UpdateUser(r) \/ CreateRole(r) \/ SetPermissions(r) \/ UpdateRole(r)
             \/ RemoveRole(r) \/ SeedPermissions(r)
    PROVE  KnownInv'
<1>1. PICK q : q = [req[r] EXCEPT !.pc = "invalidate"]
  OBVIOUS
<1>2. req[r].pc = "write" /\ Goto(r, q) /\ cache' = cache
  BY <1>1 DEF UpdateUser, CreateRole, SetPermissions, UpdateRole, RemoveRole,
         SeedPermissions, Writes, ThenInvalidate
<1>3. req[r] \in Request /\ SlotOK(req[r], recent) /\ KnownSlot(req[r], catalogue)
  BY DEF IInv, SlotsOK, KnownInv
<1>4. q.pc = "invalidate"
  BY <1>1, <1>3 DEF Request
<1>5. catalogue \subseteq catalogue'
  BY DEF UpdateUser, CreateRole, SetPermissions, UpdateRole, RemoveRole,
         SeedPermissions
<1>6. KnownSlot(q, catalogue')
  BY <1>4 DEF KnownSlot
<1>7. KnownCache'
  BY <1>2, <1>5 DEF KnownInv, KnownCache
<1>8. ASSUME NEW i \in Rid, roles'[i] # Absent, ~roles'[i].system
      PROVE  roles'[i].perms \subseteq catalogue \cup {Wildcard}
  <2>1. roles[i] # Absent /\ ~roles[i].system =>
            roles[i].perms \subseteq catalogue \cup {Wildcard}
    BY DEF KnownInv, RolesHoldKnownPermissions
  <2>2. req[r].op \in {"createRole", "setPermissions"} =>
            req[r].perms \subseteq catalogue \cup {Wildcard}
    BY <1>2, <1>3 DEF KnownSlot
  <2>3. CASE UpdateUser(r) \/ SeedPermissions(r)
    BY <1>8, <2>1, <2>3 DEF UpdateUser, SeedPermissions
  <2>4. CASE CreateRole(r)
    <3>1. PICK j \in Rid : roles' = [roles EXCEPT ![j] =
               [id |-> j, name |-> req[r].name, perms |-> req[r].perms,
                system |-> FALSE]]
      BY <2>4 DEF CreateRole
    <3>2. req[r].op = "createRole"
      BY <2>4 DEF CreateRole, Writes
    <3>3. CASE i = j
      <4>1. roles'[i].perms = req[r].perms
        BY <3>1, <3>3 DEF IInv, DocsOK
      <4> QED
        BY <2>2, <3>2, <4>1
    <3>4. CASE i # j
      BY <1>8, <2>1, <3>1, <3>4 DEF IInv, DocsOK
    <3> QED
      BY <3>3, <3>4
  <2>5. CASE SetPermissions(r)
    <3>1. /\ req[r].op = "setPermissions" /\ roles[req[r].rid] # Absent
          /\ roles' = [roles EXCEPT ![req[r].rid].perms = req[r].perms]
      BY <2>5 DEF SetPermissions, Writes
    <3>2. CASE i = req[r].rid
      <4>1. roles[i] \in RoleDoc
        BY <3>1, <3>2 DEF IInv, DocsOK
      <4>2. roles'[i] = [roles[i] EXCEPT !.perms = req[r].perms]
        BY <3>1, <3>2 DEF IInv, DocsOK
      <4>3. roles'[i].perms = req[r].perms
        BY <4>1, <4>2 DEF RoleDoc
      <4> QED
        BY <2>2, <3>1, <4>3
    <3>3. CASE i # req[r].rid
      BY <1>8, <2>1, <3>1, <3>3 DEF IInv, DocsOK
    <3> QED
      BY <3>2, <3>3
  <2>6. CASE UpdateRole(r)
    <3>1. /\ roles[req[r].rid] # Absent
          /\ roles' = [roles EXCEPT ![req[r].rid].name = req[r].name]
      BY <2>6 DEF UpdateRole
    <3>2. CASE i = req[r].rid
      <4>1. roles[i] \in RoleDoc
        BY <3>1, <3>2 DEF IInv, DocsOK
      <4>2. roles'[i] = [roles[i] EXCEPT !.name = req[r].name]
        BY <3>1, <3>2 DEF IInv, DocsOK
      <4>3. roles'[i].perms = roles[i].perms /\ roles'[i].system = roles[i].system
        BY <4>1, <4>2 DEF RoleDoc
      <4> QED
        BY <1>8, <2>1, <3>1, <3>2, <4>3
    <3>3. CASE i # req[r].rid
      BY <1>8, <2>1, <3>1, <3>3 DEF IInv, DocsOK
    <3> QED
      BY <3>2, <3>3
  <2>7. CASE RemoveRole(r)
    <3>1. roles' = [roles EXCEPT ![req[r].rid] = Absent]
      BY <2>7 DEF RemoveRole
    <3> QED
      BY <1>8, <2>1, <3>1 DEF IInv, DocsOK
  <2> QED
    BY <2>3, <2>4, <2>5, <2>6, <2>7
<1>9. RolesHoldKnownPermissions'
  BY <1>5, <1>8 DEF RolesHoldKnownPermissions
<1> QED
  BY <1>2, <1>5, <1>6, <1>7, <1>9, KnownStep

LEMMA KnownSeed ==
    ASSUME IInv, KnownInv, NEW r \in Req, SeedRole(r)
    PROVE  KnownInv'
<1>1. PICK default : default = DefaultRoles[req[r].at]
  OBVIOUS
<1>2. /\ req[r].pc = "write" /\ req[r].op = "seedRoles"
      /\ cache' = cache /\ catalogue' = catalogue
  BY DEF SeedRole, Writes
<1>3. PICK q : /\ q \in {Idle, [req[r] EXCEPT !.at = @ + 1]}
              /\ Goto(r, q)
  BY DEF SeedRole
<1>4. req[r] \in Request
  BY DEF IInv, SlotsOK
<1>5. KnownSlot(q, catalogue)
  <2>1. CASE q = Idle
    BY <2>1, KnownIdle
  <2>2. CASE q = [req[r] EXCEPT !.at = @ + 1]
    <3>1. q.pc = "write" /\ q.op = "seedRoles"
      BY <1>2, <1>4, <2>2 DEF Request
    <3> QED
      BY <3>1 DEF KnownSlot
  <2> QED
    BY <1>3, <2>1, <2>2
<1>6. PICK j \in Rid : roles' = [roles EXCEPT ![j] =
               [id |-> j, name |-> default.name, perms |-> default.perms,
                system |-> TRUE]]
  BY <1>1 DEF SeedRole
<1>7. \A i \in Rid : roles'[i] = roles[i] \/ roles'[i].system
  BY <1>6 DEF IInv, DocsOK
<1>8. RolesHoldKnownPermissions'
  BY <1>2, <1>7 DEF RolesHoldKnownPermissions, KnownInv
<1>9. KnownCache'
  BY <1>2 DEF KnownInv, KnownCache
<1> QED
  BY <1>2, <1>3, <1>5, <1>8, <1>9, KnownStep

\* An invalidation, the end of a request or the clock only drop entries.
LEMMA KnownDrop ==
    ASSUME IInv, KnownInv, UNCHANGED documents,
           \A k \in Key : cache'[k].left > 0 =>
              cache[k].left > 0 /\ cache'[k].value = cache[k].value
    PROVE  KnownCache' /\ RolesHoldKnownPermissions' /\ catalogue' = catalogue
<1>1. catalogue' = catalogue /\ roles' = roles
  BY DEF documents
<1> QED
  BY <1>1, PermKeyFacts DEF KnownInv, KnownCache, RolesHoldKnownPermissions

LEMMA KnownEnd ==
    ASSUME IInv, KnownInv, NEW r \in Req,
           Invalidate(r) \/ RequestFails(r) \/ Served(r) \/ WriteRefused(r)
    PROVE  KnownInv'
<1>1. Goto(r, Idle) /\ UNCHANGED documents
  BY DEF Invalidate, RequestFails, Served, WriteRefused, DocumentsKept
<1>2. PICK covered : covered = Covered(req[r])
  OBVIOUS
<1>3. \/ cache' = [k \in Key |-> IF k \in covered THEN NoEntry ELSE cache[k]]
      \/ cache' = cache
  BY <1>2 DEF Invalidate, RequestFails, Served, WriteRefused
<1>4. \A k \in Key : cache'[k].left > 0 =>
              cache[k].left > 0 /\ cache'[k].value = cache[k].value
  BY <1>3 DEF NoEntry
<1> QED
  BY <1>1, <1>4, KnownDrop, KnownIdle, KnownStep

LEMMA KnownTick ==
    ASSUME IInv, KnownInv, Tick
    PROVE  KnownInv'
<1>1. /\ cache' = [k \in Key |-> Expire(cache[k])]
      /\ UNCHANGED <<documents, req>>
  BY DEF Tick
<1>2. ASSUME NEW k \in Key, cache'[k].left > 0
      PROVE  cache[k].left > 0 /\ cache'[k].value = cache[k].value
  <2>1. cache'[k] = Expire(cache[k]) /\ cache[k].left \in Nat
    BY <1>1 DEF IInv, CacheOK
  <2> QED
    BY <1>2, <2>1 DEF Expire, NoEntry
<1>3. KnownCache' /\ RolesHoldKnownPermissions' /\ catalogue' = catalogue
  BY <1>1, <1>2, KnownDrop
<1> QED
  BY <1>1, <1>3 DEF KnownInv, KnownCache

\* A role that was not seeded holds permissions of the catalogue only, although
\* the answers they are checked against may come from the cache: an answer can
\* only be out of date in saying that a permission does not exist
\* (assertPermissionsExist, createMany).
THEOREM OnlyKnownPermissions == Spec => []RolesHoldKnownPermissions
<1>1. Init => KnownInv
  <2> SUFFICES ASSUME Init PROVE KnownInv
    OBVIOUS
  <2>1. \A p \in Perm : cache[PermKey(p)].left = 0
    BY PermKeyFacts DEF Init, NoEntry
  <2>2. \A r \in Req : KnownSlot(req[r], catalogue)
    BY KnownIdle DEF Init
  <2>3. RolesHoldKnownPermissions
    BY CacheAssumption DEF Init, RolesHoldKnownPermissions
  <2> QED
    BY <2>1, <2>2, <2>3 DEF KnownInv, KnownCache
<1>2. IInv /\ KnownInv /\ [Next]_vars => KnownInv'
  <2> SUFFICES ASSUME IInv, KnownInv, [Next]_vars PROVE KnownInv'
    OBVIOUS
  <2>1. CASE \E r \in Req : Begin(r) \/ Step(r) \/ RequestFails(r)
    <3>1. PICK r \in Req : Begin(r) \/ Step(r) \/ RequestFails(r)
      BY <2>1
    <3>2. CASE Begin(r)
      BY <3>2, KnownBegin
    <3>3. CASE CacheHit(r) \/ CacheMiss(r) \/ ReadDocument(r)
      BY <3>3, KnownRead
    <3>4. CASE Fill(r)
      BY <3>4, KnownFill
    <3>5. CASE UpdateUser(r) \/ CreateRole(r) \/ SetPermissions(r) \/ UpdateRole(r)
                 \/ RemoveRole(r) \/ SeedPermissions(r)
      BY <3>5, KnownWrite
    <3>6. CASE SeedRole(r)
      BY <3>6, KnownSeed
    <3>7. CASE Invalidate(r) \/ RequestFails(r) \/ Served(r) \/ WriteRefused(r)
      BY <3>7, KnownEnd
    <3> QED
      BY <3>1, <3>2, <3>3, <3>4, <3>5, <3>6, <3>7 DEF Step
  <2>2. CASE Tick
    BY <2>2, KnownTick
  <2>3. CASE UNCHANGED vars
    BY <2>3 DEF vars, documents, KnownInv, KnownCache, RolesHoldKnownPermissions
  <2> QED
    BY <2>1, <2>2, <2>3 DEF Next
<1>3. KnownInv => RolesHoldKnownPermissions
  BY DEF KnownInv
<1> QED
  BY <1>1, <1>2, <1>3, Inductive, PTL DEF Spec
=============================================================================
