\* Up to three documents at the start and four in all, pages of one or two, a
\* write at any moment of a walk, windows of one tick.
CONSTANTS
    Lists = {"users", "audit", "templates", "parameters"}
    Names = {1, 2, 3}
    Searches = {1}
    Limits = {1, 2}
    Days = 1
    MaxDocs = 4
    InitialDocs = 3
    MaxTime = 4
    MaxWrites = 1
    Nothing = Nothing
CONSTRAINT Promising
SPECIFICATION MCSpec
INVARIANTS TypeOK UndisturbedWalkExact DisturbedWalkBounded MetricsAgree
CHECK_DEADLOCK FALSE
