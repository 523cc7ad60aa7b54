\* Two processes with a request each, Redis outages, restarts; no override, or
\* one that differs from the default, or one that is equal to it.
CONSTANTS
    Proc = {"p", "q"}
    Req = {"a", "b"}
    Home <- TwoHomes
    Envs = {NoText, "si", "no"}
    NoText = NoText
    Default = FALSE
    Ttl = 2
    MayFail = TRUE
SPECIFICATION Spec
INVARIANTS TypeOK FreshWithinTtl AnswerIsNew
