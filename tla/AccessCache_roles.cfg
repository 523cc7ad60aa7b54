\* Role administration, the lists and the two seeds, where permissions may be
\* cached as missing.
CONSTANTS
    User = {"ann"}
    RoleName = {"user", "viewer"}
    Rid = {1, 2}
    Perm = {"read", "*"}
    Wildcard = "*"
    Absent = Absent
    UserTtl = 1
    RoleTtl = 1
    PermTtl = 1
    Req = {r1, r2}
    Ops = {"createRole", "updateRole", "seedRoles", "seedPermissions", "list",
           "removeRole", "setPermissions"}
    GrantSets = {{"read"}}
    DefaultRoles <- TwoDefaults
    InitialRoles <- Beginnings
    InitialCatalogues = {{}}
    MayFail = FALSE
    MaxWrites = 2
    NoRequest = NoRequest
SYMMETRY Symmetry
SPECIFICATION Spec
INVARIANTS CoherentUnlessSuspect RolesHoldKnownPermissions
CHECK_DEADLOCK FALSE
