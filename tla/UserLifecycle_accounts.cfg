\* Two concurrent requests that may die, two accounts, two
\* tokens, four requests in all.
CONSTANTS
    Req = {r1, r2}
    MaxUser = 2
    Emails = {root, ann}
    Names = {nRoot, nAnn}
    Same = Same
    RootEmail = root
    RootName = nRoot
    Absent = Absent
    Kinds <- AllKinds
    MayFail = TRUE
    MaxToken = 2
    MaxStarts = 4
SYMMETRY Symmetry
SPECIFICATION Spec
INVARIANTS TypeOK AccountsUnique StoredTokenMailed NeverStranded DeletedStaysInactive
CHECK_DEADLOCK FALSE
