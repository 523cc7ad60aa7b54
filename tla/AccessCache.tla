---------------------------- MODULE AccessCache ----------------------------
(***************************************************************************)
(* Authorisation in api-user: the documents of users, roles and permissions*)
(* in MongoDB, their cached copies in Redis, the requests that are         *)
(* authorised with them and the operations that change them.               *)
(*                                                                         *)
(*   users, roles, catalogue   MongoDB                                     *)
(*   cache     Redis; "left" is the ticks until an entry expires, 0 if     *)
(*             there is none                                               *)
(*   req       one record per request in flight; one action per awaited    *)
(*             store operation                                             *)
(*                                                                         *)
(* Every read goes cache first (CacheHit, CacheMiss), then MongoDB         *)
(* (ReadDocument), then fills the cache (Fill).  A write emits its         *)
(* invalidation when MongoDB has answered, which is a later step           *)
(* (Invalidate); nobody waits for it, and it may be lost.  A cache command *)
(* that fails is logged and ignored.  The life of an entry is minutes and  *)
(* a request takes milliseconds, so the clock stands while one is in       *)
(* flight.  findByNames asks the cache for every name and then MongoDB for *)
(* the missing ones at once; here each name goes on its own.  Passwords,   *)
(* addresses and the other fields of a user are left out; every update of  *)
(* a user invalidates as UpdateUser does, and permission creation as the   *)
(* seed of permissions does.                                               *)
(***************************************************************************)
EXTENDS AccessRules, Sequences

CONSTANTS
    Req,            \* slots for concurrent requests
    Ops,            \* the operations called in this instance
    GrantSets,      \* sets of permissions administrators assign
    DefaultRoles,   \* DEFAULT_ROLES: name and permissions, in order
    InitialRoles, InitialCatalogues,    \* the collections at the start
    MayFail,        \* whether cache commands and requests may fail
    MaxWrites,      \* bound on the writes of documents
    NoRequest

AllOps == {"access", "updateUser", "createRole", "setPermissions",
           "updateRole", "removeRole", "seedRoles", "seedPermissions", "list"}

ASSUME CacheAssumption ==
    /\ Ops \subseteq AllOps
    /\ GrantSets \subseteq SUBSET Perm
    /\ DefaultRoles \in Seq([name : RoleName, perms : SUBSET Perm])
    /\ DefaultRoles # <<>>
    /\ InitialRoles \subseteq [Rid -> RoleDoc \cup {Absent}]
    /\ InitialCatalogues \subseteq SUBSET (Perm \ {Wildcard})
    /\ \A c \in InitialRoles, known \in InitialCatalogues, i \in Rid :
         c[i] # Absent /\ ~c[i].system => c[i].perms \subseteq known \cup {Wildcard}
    /\ MayFail \in BOOLEAN
    /\ MaxWrites \in Nat
    /\ NoRequest \notin User \X SUBSET Perm

VARIABLES users, roles, catalogue, cache, req

\* History: recent as in BoundedAccess; suspect, the keys whose entry was filled
\* with what had been overwritten, or missed an invalidation; writes, the number
\* of writes of documents.
VARIABLES recent, suspect, writes

documents == <<users, roles, catalogue>>
vars == <<documents, cache, req, recent, suspect, writes>>

-----------------------------------------------------------------------------
(* Documents, entries and requests                                         *)

Named(n) == {i \in Rid : roles[i] # Absent /\ roles[i].name = n}

\* The unique index on Role.name makes the choice unique.
RoleOf(n) == IF Named(n) = {} THEN Absent ELSE roles[CHOOSE i \in Named(n) : TRUE]

\* What MongoDB answers for a key.
Stored(k) ==
    CASE k[1] = "user" -> users[k[2]]
      [] k[1] = "role" -> RoleOf(k[2])
      [] k[1] = "permission" -> k[2] \in catalogue
      [] k[1] = "roles" -> roles
      [] OTHER -> catalogue

NoEntry == [left |-> 0, value |-> Absent]

Pcs == {"idle", "get", "read", "fill", "authorised", "count", "write",
        "invalidate"}

\* A request that is suspended: what it does, the key it asked for and the answer,
\* the user it authorises, and the arguments of its operation.
Idle == [pc |-> "idle", op |-> "access", key |-> RoleListKey, held |-> Absent,
         user |-> Absent, rid |-> Absent, name |-> Absent, perms |-> {},
         todo |-> {}, at |-> 1]

Goto(r, q) == req' = [req EXCEPT ![r] = q]

Starts(r, op) == op \in Ops /\ req[r].pc = "idle"

Reads(q, k) == [q EXCEPT !.pc = "get", !.key = k]

Bound == INSTANCE BoundedAccess WITH
            current <- [k \in DecisiveKeys |-> Stored(k)],
            request <- [r \in Req |-> IF req[r].pc = "authorised"
                                      THEN <<req[r].name, req[r].perms>>
                                      ELSE NoRequest]

\* A step that changes documents, on the clock of the abstract specification.
Wrote ==
    /\ writes < MaxWrites
    /\ writes' = writes + 1
    /\ recent' = [k \in DecisiveKeys |->
                    [recent[k] EXCEPT ![Stored(k)'] = Life(k)]]

DocumentsKept == UNCHANGED <<documents, recent, writes>>

\* Everybody starts with the role that new users get.
Init ==
    /\ users \in [User -> [role : {DefaultRoles[1].name}, perms : {{}}]]
    /\ roles \in InitialRoles
    /\ catalogue \in InitialCatalogues
    /\ cache = [k \in Key |-> NoEntry]
    /\ req = [r \in Req |-> Idle]
    /\ recent = [k \in DecisiveKeys |-> [v \in Value(k) |->
                    IF v = Stored(k) THEN Life(k) ELSE 0]]
    /\ suspect = {}
    /\ writes = 0

-----------------------------------------------------------------------------
(* Cache-aside reads                                                       *)

\* Mutant of IsKnown: a cached null counts as a permission.
KnownIfAnswered(v) == v \in BOOLEAN

\* assertPermissionsExist drops the nulls among the answers.
IsKnown(v) == v = TRUE

\* assertPermissionsExist looks the names up one after the other; "*" is
\* accepted as it is.
Verify(q) == IF q.todo = {} THEN [q EXCEPT !.pc = "write"]
             ELSE Reads(q, PermKey(CHOOSE p \in q.todo : TRUE))

\* What a handler does with the answer v to the key it asked for.  With the role
\* the guards of a request know everything, and the route's handler runs.
Resolved(q, v) ==
    CASE q.op = "access" /\ q.key[1] = "user" ->
            Reads([q EXCEPT !.user = v], RoleKey(v.role))
      [] q.op = "access" /\ q.key[1] = "role" ->
            [q EXCEPT !.pc = "authorised", !.perms = Effective(q.user, v)]
      [] q.op = "createRole" /\ q.key[1] = "role" ->
            IF v # Absent THEN Idle ELSE Verify(q)
      [] q.op = "updateRole" ->
            IF v # Absent /\ v.id # q.rid THEN Idle
            ELSE [q EXCEPT !.pc = "write"]
      [] q.op \in {"createRole", "setPermissions"} /\ q.key[1] = "permission" ->
            IF IsKnown(v) THEN Verify([q EXCEPT !.todo = @ \ {q.key[2]}])
            ELSE Idle
      [] OTHER -> Idle

\* CacheService.get finds an entry that is not expired.
CacheHit(r) ==
    /\ req[r].pc = "get"
    /\ cache[req[r].key].left > 0
    /\ Goto(r, Resolved(req[r], cache[req[r].key].value))
    /\ DocumentsKept
    /\ UNCHANGED <<cache, suspect>>

\* There is none, or the command failed.
CacheMiss(r) ==
    /\ req[r].pc = "get"
    /\ cache[req[r].key].left = 0 \/ MayFail
    /\ Goto(r, [req[r] EXCEPT !.pc = "read"])
    /\ DocumentsKept
    /\ UNCHANGED <<cache, suspect>>

ReadDocument(r) ==
    /\ req[r].pc = "read"
    /\ Goto(r, [req[r] EXCEPT !.pc = "fill", !.held = Stored(req[r].key)])
    /\ DocumentsKept
    /\ UNCHANGED <<cache, suspect>>

\* Mutant of Entry: every entry lives as long as a permission.
LongEntry(k, v) == [left |-> PermTtl, value |-> v]

Entry(k, v) == [left |-> Life(k), value |-> v]

\* CacheService.set, whatever happened since the read, null included.
Fill(r) ==
    LET k == req[r].key
        v == req[r].held
    IN  /\ req[r].pc = "fill"
        /\ \/ /\ cache' = [cache EXCEPT ![k] = Entry(k, v)]
              /\ suspect' = IF v = Stored(k) THEN suspect \ {k}
                            ELSE suspect \cup {k}
           \/ /\ MayFail
              /\ UNCHANGED <<cache, suspect>>
        /\ Goto(r, Resolved(req[r], v))
        /\ DocumentsKept

-----------------------------------------------------------------------------
(* The first step of each operation                                        *)

\* JwtStrategy.validate calls validateUser.
BeginAccess(r, u) ==
    /\ Starts(r, "access")
    /\ Goto(r, Reads([Idle EXCEPT !.name = u], UserKey(u)))

\* findAll of roles and of permissions.
BeginList(r, k) ==
    /\ Starts(r, "list")
    /\ Goto(r, Reads([Idle EXCEPT !.op = "list"], k))

\* assertPermissionsAssignable asks MongoDB, and refuses "*".
BeginUpdateUser(r, u, role, grants) ==
    /\ Starts(r, "updateUser")
    /\ Wildcard \notin grants /\ grants \subseteq catalogue
    /\ Goto(r, [Idle EXCEPT !.pc = "write", !.op = "updateUser",
                            !.key = UserKey(u), !.name = role, !.perms = grants])

BeginCreateRole(r, n, grants) ==
    /\ Starts(r, "createRole")
    /\ Goto(r, Reads([Idle EXCEPT !.op = "createRole", !.name = n,
                        !.perms = grants, !.todo = grants \ {Wildcard}],
                     RoleKey(n)))

BeginSetPermissions(r, i, grants) ==
    /\ Starts(r, "setPermissions")
    /\ Goto(r, Verify([Idle EXCEPT !.op = "setPermissions", !.rid = i,
                         !.perms = grants, !.todo = grants \ {Wildcard}]))

\* update reads the role itself: a system role keeps its name.
BeginUpdateRole(r, i, n) ==
    /\ Starts(r, "updateRole")
    /\ roles[i] # Absent
    /\ roles[i].system => n = roles[i].name
    /\ LET q == [Idle EXCEPT !.op = "updateRole", !.rid = i, !.name = n]
       IN  Goto(r, IF n = roles[i].name THEN [q EXCEPT !.pc = "write"]
                   ELSE Reads(q, RoleKey(n)))

BeginRemoveRole(r, i) ==
    /\ Starts(r, "removeRole")
    /\ roles[i] # Absent /\ ~roles[i].system
    /\ Goto(r, [Idle EXCEPT !.pc = "count", !.op = "removeRole", !.rid = i,
                            !.name = roles[i].name])

\* findIdsByRole: a role in use is not removed.
CountUsers(r) ==
    /\ req[r].pc = "count"
    /\ Goto(r, IF \E u \in User : users[u].role = req[r].name THEN Idle
               ELSE [req[r] EXCEPT !.pc = "write"])

\* countDocuments and find({name: {$in}}) of the two seeds.
BeginSeed(r, op) ==
    /\ Starts(r, op)
    /\ IF op = "seedRoles" THEN \A i \in Rid : roles[i] = Absent
                           ELSE ~(Perm \ {Wildcard} \subseteq catalogue)
    /\ Goto(r, [Idle EXCEPT !.pc = "write", !.op = op])

Begin(r) ==
    /\ \/ \E u \in User : BeginAccess(r, u)
       \/ \E k \in {RoleListKey, PermListKey} : BeginList(r, k)
       \/ \E u \in User, n \in RoleName, g \in GrantSets :
             BeginUpdateUser(r, u, n, g)
       \/ \E n \in RoleName, g \in GrantSets : BeginCreateRole(r, n, g)
       \/ \E i \in Rid, g \in GrantSets : BeginSetPermissions(r, i, g)
       \/ \E i \in Rid, n \in RoleName : BeginUpdateRole(r, i, n)
       \/ \E i \in Rid : BeginRemoveRole(r, i)
       \/ \E op \in {"seedRoles", "seedPermissions"} : BeginSeed(r, op)
       \/ CountUsers(r)
    /\ DocumentsKept
    /\ UNCHANGED <<cache, suspect>>

-----------------------------------------------------------------------------
(* Writes and invalidations                                                *)

\* Every handler emits its event when the write has been answered.
ThenInvalidate(r) ==
    /\ Goto(r, [req[r] EXCEPT !.pc = "invalidate"])
    /\ Wrote
    /\ UNCHANGED <<cache, suspect>>

Writes(r, op) == req[r].pc = "write" /\ req[r].op = op

UpdateUser(r) ==
    LET q == req[r]
    IN  /\ Writes(r, "updateUser")
        /\ users' = [users EXCEPT ![q.key[2]] = [role |-> q.name, perms |-> q.perms]]
        /\ UNCHANGED <<roles, catalogue>>
        /\ ThenInvalidate(r)

\* Mongoose inserts; the unique index refuses a name that exists by now.
CreateRole(r) ==
    LET q == req[r]
    IN  /\ Writes(r, "createRole")
        /\ Named(q.name) = {}
        /\ \E i \in Rid :
             /\ roles[i] = Absent
             /\ roles' = [roles EXCEPT ![i] =
                   [id |-> i, name |-> q.name, perms |-> q.perms, system |-> FALSE]]
        /\ UNCHANGED <<users, catalogue>>
        /\ ThenInvalidate(r)

SetPermissions(r) ==
    LET q == req[r]
    IN  /\ Writes(r, "setPermissions")
        /\ roles[q.rid] # Absent
        /\ roles' = [roles EXCEPT ![q.rid].perms = q.perms]
        /\ UNCHANGED <<users, catalogue>>
        /\ ThenInvalidate(r)

UpdateRole(r) ==
    LET q == req[r]
    IN  /\ Writes(r, "updateRole")
        /\ roles[q.rid] # Absent
        /\ Named(q.name) \subseteq {q.rid}
        /\ roles' = [roles EXCEPT ![q.rid].name = q.name]
        /\ UNCHANGED <<users, catalogue>>
        /\ ThenInvalidate(r)

RemoveRole(r) ==
    /\ Writes(r, "removeRole")
    /\ roles[req[r].rid] # Absent
    /\ roles' = [roles EXCEPT ![req[r].rid] = Absent]
    /\ UNCHANGED <<users, catalogue>>
    /\ ThenInvalidate(r)

\* createMany tolerates the permissions that exist by now.
SeedPermissions(r) ==
    /\ Writes(r, "seedPermissions")
    /\ catalogue' = catalogue \cup (Perm \ {Wildcard})
    /\ UNCHANGED <<users, roles>>
    /\ ThenInvalidate(r)

\* insertMany inserts one role after the other until a name exists.  Nothing is
\* invalidated: entries that said "no such role" stay.
SeedRole(r) ==
    LET q == req[r]
        default == DefaultRoles[q.at]
    IN  /\ Writes(r, "seedRoles")
        /\ Named(default.name) = {}
        /\ \E i \in Rid :
             /\ roles[i] = Absent
             /\ roles' = [roles EXCEPT ![i] =
                   [id |-> i, name |-> default.name, perms |-> default.perms,
                    system |-> TRUE]]
        /\ UNCHANGED <<users, catalogue>>
        /\ Goto(r, IF q.at = Len(DefaultRoles) THEN Idle
                   ELSE [q EXCEPT !.at = @ + 1])
        /\ Wrote
        /\ suspect' = suspect \cup {k \in Key : Stored(k)' # Stored(k)}
        /\ UNCHANGED <<cache>>

\* The document is gone, or the unique index refuses the name: nothing is
\* written, and nothing is emitted.
WriteRefused(r) ==
    LET q == req[r]
    IN  /\ q.pc = "write"
        /\ \/ q.op \in {"setPermissions", "updateRole", "removeRole"}
              /\ roles[q.rid] = Absent
           \/ q.op = "createRole" /\ Named(q.name) # {}
           \/ q.op = "updateRole" /\ ~(Named(q.name) \subseteq {q.rid})
           \/ q.op = "seedRoles" /\ Named(DefaultRoles[q.at].name) # {}
        /\ Goto(r, Idle)
        /\ DocumentsKept
        /\ UNCHANGED <<cache, suspect>>

\* Mutant of Covered: only the names that were written.
CoveredByName(q) ==
    CASE q.op = "updateUser" -> {q.key}
      [] q.op \in {"createRole", "updateRole"} -> {RoleKey(q.name), RoleListKey}
      [] OTHER -> RbacKeys

\* The patterns of the events that an operation emits: cache:user:<id>,
\* cache:rbac:* and cache:user:*.
Covered(q) ==
    CASE q.op = "updateUser" -> {q.key}
      [] q.op \in {"createRole", "setPermissions"} -> RbacKeys \cup UserKeys
      [] OTHER -> RbacKeys

\* handleInvalidationPayload: DEL, or KEYS and DEL in one script.
Invalidate(r) ==
    /\ req[r].pc = "invalidate"
    /\ cache' = [k \in Key |-> IF k \in Covered(req[r]) THEN NoEntry ELSE cache[k]]
    /\ suspect' = suspect \ Covered(req[r])
    /\ Goto(r, Idle)
    /\ DocumentsKept

\* The handler of the route answers.
Served(r) ==
    /\ req[r].pc = "authorised"
    /\ Goto(r, Idle)
    /\ DocumentsKept
    /\ UNCHANGED <<cache, suspect>>

Step(r) ==
    \/ Served(r) \/ CacheHit(r) \/ CacheMiss(r) \/ ReadDocument(r) \/ Fill(r)
    \/ UpdateUser(r) \/ CreateRole(r) \/ SetPermissions(r) \/ UpdateRole(r)
    \/ RemoveRole(r) \/ SeedPermissions(r) \/ SeedRole(r) \/ WriteRefused(r)
    \/ Invalidate(r)

-----------------------------------------------------------------------------
(* Faults and time                                                         *)

\* The process dies, or a store call rejects; an event may be among what is
\* lost.
RequestFails(r) ==
    /\ MayFail
    /\ req[r].pc # "idle"
    /\ suspect' = IF req[r].pc = "invalidate" THEN suspect \cup Covered(req[r])
                  ELSE suspect
    /\ Goto(r, Idle)
    /\ DocumentsKept
    /\ UNCHANGED <<cache>>

\* Mutant of Expire: entries are stored without a life.
NeverExpires(e) == e

\* Redis, CacheService.get and cleanupExpired drop what has expired.
Expire(e) == IF e.left <= 1 THEN NoEntry
             ELSE [left |-> e.left - 1, value |-> e.value]

Tick ==
    /\ \A r \in Req : req[r].pc = "idle"
    /\ cache' = [k \in Key |-> Expire(cache[k])]
    /\ recent' = Bound!Aged(recent, [k \in DecisiveKeys |-> Stored(k)])
    /\ UNCHANGED <<documents, req, suspect, writes>>

Next ==
    \/ \E r \in Req : Begin(r) \/ Step(r) \/ RequestFails(r)
    \/ Tick

Spec == Init /\ [][Next]_vars

-----------------------------------------------------------------------------
(* Properties                                                              *)

\* The types of the documents, of the entries and of the requests.
TypeOK ==
    /\ users \in [User -> UserDoc]
    /\ roles \in [Rid -> RoleDoc \cup {Absent}]
    /\ catalogue \subseteq Perm \ {Wildcard}
    /\ \A k \in Key : cache[k].left \in 0 .. Life(k)
    /\ \A k \in DecisiveKeys :
         /\ cache[k].left > 0 => cache[k].value \in Value(k)
         /\ \A v \in Value(k) : recent[k][v] \in 0 .. Life(k)
    /\ \A r \in Req :
         /\ req[r].pc \in Pcs /\ req[r].op \in AllOps /\ req[r].key \in Key
         /\ req[r].pc = "fill" /\ req[r].key \in DecisiveKeys =>
              req[r].held \in Value(req[r].key)

\* A request is never authorised with a user document or a role that has been
\* out of MongoDB for longer than the life of its cache entry (300 s, 600 s),
\* whatever the order of fills, writes and invalidations, and whichever of them
\* are lost (validateUser, getPermissionsForRole).
StalenessBounded == Bound!Spec

\* An entry that differs from MongoDB is about to be invalidated, unless a fill
\* was overtaken or an event lost: every operation emits patterns that cover all
\* keys it changes, and only the seed of the roles emits none (role.service.ts,
\* permission.service.ts, user.service.ts).
CoherentUnlessSuspect ==
    \A k \in Key : cache[k].left > 0 /\ cache[k].value # Stored(k) =>
        \/ k \in suspect
        \/ \E r \in Req : req[r].pc = "invalidate" /\ k \in Covered(req[r])

\* A role that was not seeded holds permissions of the catalogue only, although
\* they are checked against cached answers (assertPermissionsExist, S11, S13).
RolesHoldKnownPermissions ==
    \A i \in Rid : roles[i] # Absent /\ ~roles[i].system =>
        roles[i].perms \subseteq catalogue \cup {Wildcard}
=============================================================================
