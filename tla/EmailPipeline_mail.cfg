\* Two concurrent requests that may die, every event, one shipped template and
\* one other that administrators edit, two mails, three requests in all.
CONSTANTS
    Req = {r1, r2}
    CustomSlugs = {"custom"}
    EditableSlugs = {"welcome", "custom"}
    Events <- AllEvents
    Langs = {"es", "en"}
    Absent = Absent
    MayFail = TRUE
    MaxLog = 2
    MaxStarts = 3
SPECIFICATION FairSpec
INVARIANTS TypeOK LogTruthful DefaultAlwaysSendable VersionCountsEdits
PROPERTIES PendingSettles
CHECK_DEADLOCK FALSE
