\* Two concurrent requests, entries of users and roles.
CONSTANTS
    User = {"ann"}
    RoleName = {"user", "viewer"}
    Rid = {1}
    Perm = {"read", "*"}
    Wildcard = "*"
    Absent = Absent
    UserTtl = 1
    RoleTtl = 2
    PermTtl = 3
    Req = {r1, r2}
    Ops = {"access", "updateUser", "setPermissions", "removeRole"}
    GrantSets <- WildcardGrants
    DefaultRoles <- TwoDefaults
    InitialRoles <- OneRole
    InitialCatalogues = {{"read"}}
    MayFail = TRUE
    MaxWrites = 2
    NoRequest = NoRequest
SYMMETRY Symmetry
SPECIFICATION Spec
INVARIANTS TypeOK
PROPERTIES StalenessBounded
