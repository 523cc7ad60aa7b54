---------------------------- MODULE AccessRules ----------------------------
(***************************************************************************)
(* The documents that decide what a request may do, the cache keys they    *)
(* are kept under, and the rules that turn them into a decision.           *)
(***************************************************************************)
EXTENDS Integers

CONSTANTS
    User,               \* users
    RoleName, Rid,      \* names and ids of roles
    Perm, Wildcard,     \* permission names, "*" among them
    Absent,             \* null: no such document
    UserTtl, RoleTtl, PermTtl   \* life of a cache entry, in ticks

ASSUME AccessAssumption ==
    /\ Wildcard \in Perm
    /\ UserTtl \in Nat \ {0} /\ RoleTtl \in Nat \ {0} /\ PermTtl \in Nat \ {0}
    /\ Absent \notin [id : Rid, name : RoleName, perms : SUBSET Perm,
                      system : BOOLEAN]

\* user.role names a role, user.permissions are grants of the user's own.
UserDoc == [role : RoleName, perms : SUBSET Perm]

RoleDoc == [id : Rid, name : RoleName, perms : SUBSET Perm, system : BOOLEAN]

\* cache:user:<id>, cache:rbac:roles:name:<name>, cache:rbac:roles:all,
\* cache:rbac:permissions:name:<name>, cache:rbac:permissions:all.
UserKey(u) == <<"user", u>>
RoleKey(n) == <<"role", n>>
PermKey(p) == <<"permission", p>>
RoleListKey == <<"roles", "all">>
PermListKey == <<"permissions", "all">>

UserKeys == {UserKey(u) : u \in User}
RoleKeys == {RoleKey(n) : n \in RoleName}
RbacKeys == RoleKeys \cup {PermKey(p) : p \in Perm}
                     \cup {RoleListKey, PermListKey}
Key == UserKeys \cup RbacKeys

\* The keys that decide a request.
DecisiveKeys == UserKeys \cup RoleKeys

\* What may be stored under the keys that decide a request.
Value(k) == IF k \in UserKeys THEN UserDoc ELSE RoleDoc \cup {Absent}

Life(k) == CASE k \in UserKeys -> UserTtl
             [] k \in RoleKeys \cup {RoleListKey} -> RoleTtl
             [] OTHER -> PermTtl

\* mergeEffectivePermissions of getPermissionsForRole and user.permissions; a
\* role that does not exist contributes nothing.
Effective(doc, role) ==
    doc.perms \cup (IF role = Absent THEN {} ELSE role.perms)
=============================================================================
