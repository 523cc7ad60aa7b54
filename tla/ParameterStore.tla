--------------------------- MODULE ParameterStore ---------------------------
(***************************************************************************)
(* One runtime parameter of api-user as the processes of the service see   *)
(* it: the L1 cache of each process, the Redis entry they share, the       *)
(* environment override and the admin update                               *)
(* (src/config/parameters/parameter.store.ts, parameter.service.ts).       *)
(*                                                                         *)
(* The parameter is a boolean one, such as EMAIL_SECURE.  An entry, in L1  *)
(* or in Redis, is kept with the ticks it still has to live; it is absent  *)
(* when none is left.  A call of the store is one action per awaited Redis *)
(* command and one per continuation.                                       *)
(***************************************************************************)
EXTENDS Integers

CONSTANTS
    Proc,           \* the processes of the service
    Req, Home,      \* request slots, and the process each belongs to
    Envs,           \* the environment values to consider, or NoText
    NoText,         \* unset variable, missing Redis key
    Default,        \* the registry default
    Ttl,            \* ttl of the definition (300 s), in ticks
    MayFail         \* whether Redis may be down and processes may restart

Texts == {"true", "1", "si", "false", "0", "no"}

ASSUME ConstantsAssumption ==
    /\ Home \in [Req -> Proc]
    /\ NoText \notin Texts
    /\ Envs \subseteq Texts \cup {NoText}
    /\ Default \in BOOLEAN
    /\ Ttl \in Nat \ {0}
    /\ MayFail \in BOOLEAN

VARIABLES
    env,        \* the process environment, fixed at start
    redis,      \* the entry param:<key>
    redisUp,
    l1,         \* the L1 entry of each process
    up,         \* which processes have finished their start
    req

\* History: for each process and value, the ticks since that value was last the
\* current one or the process itself failed to store it; whether nothing has
\* interfered with the latest update, and whether every update left alone
\* answered the value it set.
VARIABLES age, alone, echoed

stores == <<env, redis, redisUp, l1, up>>
outcomes == <<alone, echoed>>
history == <<age, outcomes>>
vars == <<stores, req, history>>

-----------------------------------------------------------------------------

Absent == [text |-> NoText, left |-> 0]
Cold == [value |-> Default, left |-> 0]

\* What a get is for; a request that updates makes two of them.
Purposes == {"none", "read", "boot", "check", "answer"}

Pcs == {"idle", "get", "redisGet", "fill", "seed", "seeded", "set", "setDone"}

Request == [pc : Pcs, purpose : Purposes, text : Texts \cup {NoText},
            value : BOOLEAN]

Idle == [pc |-> "idle", purpose |-> "none", text |-> NoText, value |-> Default]

\* coerceValue for a boolean, and String(value).
Coerce(text) == text \in {"true", "1", "si"}
String(value) == IF value THEN "true" ELSE "false"

Live(entry) == entry.left > 0

\* The current value while Redis holds entry: env > Redis > default.
Current(entry) ==
    IF env # NoText THEN Coerce(env)
    ELSE IF Live(entry) THEN Coerce(entry.text) ELSE Default

Cached(value) == [value |-> value, left |-> Ttl]

\* Mutant of Stored: the ttl is handed to EX in milliseconds.
StoredMilliseconds(value) == [text |-> String(value), left |-> 1000 * Ttl]

Stored(value) == [text |-> String(value), left |-> Ttl]

Expire(entry) == [entry EXCEPT !.left = IF @ > 0 THEN @ - 1 ELSE 0]

Init ==
    /\ env \in Envs
    /\ redis = Absent
    /\ redisUp = TRUE
    /\ l1 = [p \in Proc |-> Cold]
    /\ up = {}
    /\ req = [r \in Req |-> Idle]
    /\ age = [p \in Proc |->
                 [v \in BOOLEAN |-> IF v = Current(Absent) THEN 0 ELSE Ttl + 1]]
    /\ alone = FALSE
    /\ echoed = TRUE

Goto(r, state) == req' = [req EXCEPT ![r] = state]

Fill(r, entry) == l1' = [l1 EXCEPT ![Home[r]] = entry]

\* Redis now holds entry: the value that makes current has age 0.
Write(entry) ==
    /\ redis' = entry
    /\ age' = [p \in Proc |-> [age[p] EXCEPT ![Current(entry)] = 0]]

-----------------------------------------------------------------------------
(* What the caller of get does with the value v                            *)

\* update refuses a value that differs from the default.
Refuses(v) == String(v) # String(Default)

Return(r, v) ==
    LET q == req[r]
    IN  \/ /\ q.purpose = "read"
           /\ Goto(r, Idle)
           /\ UNCHANGED <<up, outcomes>>
        \/ /\ q.purpose = "boot"
           /\ Goto(r, Idle)
           /\ up' = up \cup {Home[r]}
           /\ UNCHANGED outcomes
        \/ /\ q.purpose = "check" /\ Refuses(v)
           /\ Goto(r, Idle)
           /\ UNCHANGED <<up, outcomes>>
        \/ /\ q.purpose = "check" /\ ~Refuses(v)
           /\ Goto(r, [q EXCEPT !.pc = "set"])
           /\ UNCHANGED <<up, outcomes>>
        \/ /\ q.purpose = "answer"
           /\ Goto(r, Idle)
           /\ echoed' = (echoed /\ (alone => v = q.value))
           /\ UNCHANGED <<up, alone>>

-----------------------------------------------------------------------------
(* ParameterStore.get                                                      *)

Hit(r) ==
    /\ req[r].pc = "get"
    /\ Live(l1[Home[r]])
    /\ Return(r, l1[Home[r]].value)
    /\ UNCHANGED <<env, redis, redisUp, l1, age>>

\* Mutant of FromEnv: an override equal to the default is taken for unset.
FromEnvIfOther(r) ==
    /\ req[r].pc = "get"
    /\ ~Live(l1[Home[r]])
    /\ env # NoText
    /\ IF Coerce(env) # Default
       THEN Fill(r, Cached(Coerce(env))) /\ Return(r, Coerce(env))
       ELSE /\ Goto(r, [req[r] EXCEPT !.pc = "redisGet"])
            /\ UNCHANGED <<l1, up, outcomes>>
    /\ UNCHANGED <<env, redis, redisUp, age>>

FromEnv(r) ==
    /\ req[r].pc = "get"
    /\ ~Live(l1[Home[r]])
    /\ env # NoText
    /\ Fill(r, Cached(Coerce(env)))
    /\ Return(r, Coerce(env))
    /\ UNCHANGED <<env, redis, redisUp, age>>

Miss(r) ==
    /\ req[r].pc = "get"
    /\ ~Live(l1[Home[r]])
    /\ env = NoText
    /\ Goto(r, [req[r] EXCEPT !.pc = "redisGet"])
    /\ UNCHANGED <<stores, history>>

RedisGet(r) ==
    /\ req[r].pc = "redisGet"
    /\ redisUp
    /\ IF Live(redis)
       THEN Goto(r, [req[r] EXCEPT !.pc = "fill", !.text = redis.text])
       ELSE Goto(r, [req[r] EXCEPT !.pc = "seed"])
    /\ UNCHANGED <<stores, history>>

\* A read that fails answers the default and caches nothing.
RedisGetFails(r) ==
    /\ req[r].pc = "redisGet"
    /\ ~redisUp
    /\ Return(r, Default)
    /\ UNCHANGED <<env, redis, redisUp, l1, age>>

FillFromRedis(r) ==
    /\ req[r].pc = "fill"
    /\ Fill(r, Cached(Coerce(req[r].text)))
    /\ Return(r, Coerce(req[r].text))
    /\ UNCHANGED <<env, redis, redisUp, age>>

\* The miss writes the default, whatever Redis holds by now; a failure is
\* logged and ignored.
Seed(r) ==
    /\ req[r].pc = "seed"
    /\ IF redisUp THEN Write(Stored(Default)) ELSE UNCHANGED <<redis, age>>
    /\ Goto(r, [req[r] EXCEPT !.pc = "seeded"])
    /\ UNCHANGED <<env, redisUp, l1, up, outcomes>>

Seeded(r) ==
    /\ req[r].pc = "seeded"
    /\ Fill(r, Cached(Default))
    /\ Return(r, Default)
    /\ UNCHANGED <<env, redis, redisUp, age>>

-----------------------------------------------------------------------------
(* ParameterService.update: get, set, get                                  *)

Update(r, value) ==
    /\ Home[r] \in up /\ req[r].pc = "idle"
    /\ Goto(r, [Idle EXCEPT !.pc = "get", !.purpose = "check",
                            !.value = value])
    /\ alone' = \A s \in Req : req[s].pc = "idle"
    /\ UNCHANGED <<stores, age, echoed>>

Set(r) ==
    /\ req[r].pc = "set"
    /\ redisUp
    /\ Write(Stored(req[r].value))
    /\ Goto(r, [req[r] EXCEPT !.pc = "setDone"])
    /\ UNCHANGED <<env, redisUp, l1, up, outcomes>>

\* A write that fails is kept in L1 only.
SetFails(r) ==
    /\ req[r].pc = "set"
    /\ ~redisUp
    /\ Fill(r, Cached(req[r].value))
    /\ Goto(r, [req[r] EXCEPT !.pc = "get", !.purpose = "answer"])
    /\ age' = [age EXCEPT ![Home[r]][req[r].value] = 0]
    /\ UNCHANGED <<env, redis, redisUp, up, outcomes>>

\* Mutant of SetDone: the old L1 entry is left in place.
SetDoneKeeps(r) ==
    /\ req[r].pc = "setDone"
    /\ Goto(r, [req[r] EXCEPT !.pc = "get", !.purpose = "answer"])
    /\ UNCHANGED <<stores, history>>

\* L1 is invalidated in this process; nothing listens to parameter.changed.
SetDone(r) ==
    /\ req[r].pc = "setDone"
    /\ Fill(r, Cold)
    /\ Goto(r, [req[r] EXCEPT !.pc = "get", !.purpose = "answer"])
    /\ UNCHANGED <<env, redis, redisUp, up, history>>

-----------------------------------------------------------------------------
(* Readers, start and restart, faults and time                             *)

\* Another request or a fault: the update in flight is not alone.
Disturb ==
    /\ alone' = FALSE
    /\ UNCHANGED <<stores, age, echoed>>

Read(r) ==
    /\ Home[r] \in up /\ req[r].pc = "idle"
    /\ Goto(r, [Idle EXCEPT !.pc = "get", !.purpose = "read"])
    /\ Disturb

\* onApplicationBootstrap warms the cache before the process serves anything.
Boot(r) ==
    /\ Home[r] \notin up
    /\ \A s \in Req : Home[s] = Home[r] => req[s].pc = "idle"
    /\ Goto(r, [Idle EXCEPT !.pc = "get", !.purpose = "boot"])
    /\ Disturb

Restart(p) ==
    /\ MayFail
    /\ p \in up
    /\ up' = up \ {p}
    /\ l1' = [l1 EXCEPT ![p] = Cold]
    /\ req' = [r \in Req |-> IF Home[r] = p THEN Idle ELSE req[r]]
    /\ alone' = FALSE
    /\ UNCHANGED <<env, redis, redisUp, age, echoed>>

RedisChanges ==
    /\ MayFail
    /\ redisUp' = ~redisUp
    /\ alone' = FALSE
    /\ UNCHANGED <<env, redis, l1, up, req, age, echoed>>

\* A tick is long compared with a request: none is in flight when it passes.
Tick ==
    /\ \A r \in Req : req[r].pc = "idle"
    /\ redis' = Expire(redis)
    /\ l1' = [p \in Proc |-> Expire(l1[p])]
    /\ age' = [p \in Proc |-> [v \in BOOLEAN |->
                 IF v = Current(Expire(redis)) THEN 0
                 ELSE IF age[p][v] <= Ttl THEN age[p][v] + 1 ELSE age[p][v]]]
    /\ UNCHANGED <<env, redisUp, up, req, outcomes>>

Next ==
    \/ \E r \in Req :
        \/ Hit(r) \/ FromEnv(r) \/ Miss(r)
        \/ RedisGet(r) \/ RedisGetFails(r) \/ FillFromRedis(r)
        \/ Seed(r) \/ Seeded(r)
        \/ \E value \in BOOLEAN : Update(r, value)
        \/ Set(r) \/ SetFails(r) \/ SetDone(r)
        \/ Read(r) \/ Boot(r)
    \/ \E p \in Proc : Restart(p)
    \/ RedisChanges \/ Tick

Spec == Init /\ [][Next]_vars

-----------------------------------------------------------------------------
(* Properties                                                              *)

TypeOK ==
    /\ env \in Texts \cup {NoText}
    /\ redis \in [text : Texts \cup {NoText}, left : 0..Ttl]
    /\ redisUp \in BOOLEAN
    /\ l1 \in [Proc -> [value : BOOLEAN, left : 0..Ttl]]
    /\ up \subseteq Proc
    /\ req \in [Req -> Request]
    /\ age \in [Proc -> [BOOLEAN -> 0..(Ttl + 1)]]
    /\ alone \in BOOLEAN /\ echoed \in BOOLEAN

\* No process serves a value for longer than the ttl after it was last the
\* current one, the environment's before Redis's before the default, or after
\* the process itself failed to store it: every process sees an update in
\* bounded time although only the updating process invalidates its L1 cache,
\* an override is never shadowed by what administrators store, and a local
\* fallback does not outlive the outage by more.
FreshWithinTtl == \A p \in Proc : Live(l1[p]) => age[p][l1[p].value] <= Ttl

\* While Redis never fails, the environment wins over what administrators store
\* ("env > Redis > default").
EnvWins ==
    env # NoText => \A p \in Proc : Live(l1[p]) => l1[p].value = Coerce(env)

\* An update that nothing interferes with answers the value it set, unless the
\* environment overrides it ("dto contains updated value").
AnswerIsNew == env = NoText => echoed

-----------------------------------------------------------------------------
(* Inductive strengthenings, proved in ParameterStoreProofs                *)

\* What is current has age 0.
CurrentNew(p) == age[p][Current(redis)] = 0

\* So has what a request has read: no tick passes while it is in flight.
\* Requests reach Redis only where no override is set.
ReadNew(r) ==
    /\ req[r].pc \in {"redisGet", "fill", "seed", "seeded"} => env = NoText
    /\ req[r].pc = "fill" => age[Home[r]][Coerce(req[r].text)] = 0
    /\ req[r].pc \in {"seed", "seeded"} => age[Home[r]][Default] = 0

\* An L1 entry has at most the rest of the ttl to live.
EntryYoung(p) == Live(l1[p]) => age[p][l1[p].value] + l1[p].left <= Ttl

AgeInv == /\ \A p \in Proc : CurrentNew(p)
          /\ \A r \in Req : ReadNew(r)
          /\ \A p \in Proc : EntryYoung(p)

\* With an override, and while Redis never fails, no request gets past the
\* environment.
EnvInv ==
    /\ redisUp
    /\ env # NoText =>
         /\ \A r \in Req : req[r].pc \notin {"redisGet", "fill", "seed", "seeded"}
         /\ \A p \in Proc : Live(l1[p]) => l1[p].value = Coerce(env)

\* Redis holds what request r has to answer, and will say so.
Holds(r) == redisUp /\ Live(redis) /\ Coerce(redis.text) = req[r].value

\* An update that has stored its value meets it on the way to its answer.
Answers(r) ==
    LET q == req[r]
        e == l1[Home[r]]
    IN  /\ q.pc = "setDone" => Holds(r)
        /\ q.purpose = "answer" =>
             /\ q.pc = "get" => IF Live(e) THEN e.value = q.value ELSE Holds(r)
             /\ q.pc = "redisGet" => Holds(r)
             /\ q.pc = "fill" => Coerce(q.text) = q.value
             /\ q.pc \notin {"seed", "seeded"}

\* An update that is alone is the only request in flight.
EchoInv ==
    /\ env = NoText => echoed
    /\ env = NoText /\ alone =>
         /\ \A r, s \in Req : req[r].pc # "idle" /\ req[s].pc # "idle" => r = s
         /\ \A r \in Req : Answers(r)
=============================================================================
