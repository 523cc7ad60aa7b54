----------------------- MODULE ParameterStoreProofs -----------------------
(***************************************************************************)
(* Proofs about ParameterStore, for every set of processes and requests,   *)
(* every ttl and every environment.                                        *)
(***************************************************************************)
EXTENDS ParameterStore, TLAPS

(***************************************************************************)
(* Types.  A call of get ends in Return, which moves the request and the   *)
(* history of updates and leaves the stores alone.                         *)
(***************************************************************************)
LEMMA CoerceType == \A t : Coerce(t) \in BOOLEAN
BY DEF Coerce

LEMMA EntryTypes ==
    /\ \A v \in BOOLEAN : Cached(v) \in [value : BOOLEAN, left : 0..Ttl]
    /\ \A v \in BOOLEAN :
         Stored(v) \in [text : Texts \cup {NoText}, left : 0..Ttl]
    /\ Cold \in [value : BOOLEAN, left : 0..Ttl]
<1> USE ConstantsAssumption
<1>1. \A v \in BOOLEAN : Cached(v) \in [value : BOOLEAN, left : 0..Ttl]
  BY DEF Cached
<1>2. \A v \in BOOLEAN : String(v) \in Texts
  BY DEF String, Texts
<1>3. Ttl \in 0..Ttl /\ 0 \in 0..Ttl
  OBVIOUS
<1>4. \A v \in BOOLEAN :
        Stored(v) \in [text : Texts \cup {NoText}, left : 0..Ttl]
  BY <1>2, <1>3 DEF Stored
<1>5. Cold \in [value : BOOLEAN, left : 0..Ttl]
  BY <1>3 DEF Cold
<1> QED
  BY <1>1, <1>4, <1>5

LEMMA IdleType == Idle \in Request
BY ConstantsAssumption DEF Idle, Request, Pcs, Purposes

LEMMA StepTypes ==
    ASSUME NEW q \in Request
    PROVE  /\ \A p \in Pcs : [q EXCEPT !.pc = p] \in Request
           /\ \A p \in Pcs, u \in Purposes :
                [q EXCEPT !.pc = p, !.purpose = u] \in Request
           /\ \A p \in Pcs, t \in Texts \cup {NoText} :
                [q EXCEPT !.pc = p, !.text = t] \in Request
           /\ \A p \in Pcs, u \in Purposes, v \in BOOLEAN :
                [q EXCEPT !.pc = p, !.purpose = u, !.value = v] \in Request
BY DEF Request

\* What is current is a value.
LEMMA CurrentType == \A e : Current(e) \in BOOLEAN
BY CoerceType, ConstantsAssumption DEF Current

\* What the continuations of a request set.
LEMMA StepFields ==
    ASSUME NEW q \in Request, NEW p \in Pcs
    PROVE  /\ [q EXCEPT !.pc = p].pc = p
           /\ \A u \in Purposes : [q EXCEPT !.pc = p, !.purpose = u].pc = p
           /\ \A u \in Purposes, v \in BOOLEAN :
                [q EXCEPT !.pc = p, !.purpose = u, !.value = v].pc = p
           /\ \A t \in Texts \cup {NoText} :
                /\ [q EXCEPT !.pc = p, !.text = t].pc = p
                /\ [q EXCEPT !.pc = p, !.text = t].text = t
BY DEF Request

\* Requests that begin, and requests that go on after their write.
LEMMA Begins ==
    ASSUME NEW r \in Req, NEW v \in BOOLEAN, Update(r, v) \/ Read(r) \/ Boot(r)
    PROVE  \E q : Goto(r, q) /\ q.pc = "get"
<1>1. CASE Update(r, v)
  <2> DEFINE q == [Idle EXCEPT !.pc = "get", !.purpose = "check", !.value = v]
  <2>1. q.pc = "get"
    BY IdleType, StepFields DEF Pcs, Purposes
  <2> QED
    BY <1>1, <2>1 DEF Update
<1>2. CASE Read(r)
  <2> DEFINE q == [Idle EXCEPT !.pc = "get", !.purpose = "read"]
  <2>1. q.pc = "get"
    BY IdleType, StepFields DEF Pcs, Purposes
  <2> QED
    BY <1>2, <2>1 DEF Read
<1>3. CASE Boot(r)
  <2> DEFINE q == [Idle EXCEPT !.pc = "get", !.purpose = "boot"]
  <2>1. q.pc = "get"
    BY IdleType, StepFields DEF Pcs, Purposes
  <2> QED
    BY <1>3, <2>1 DEF Boot
<1> QED
  BY <1>1, <1>2, <1>3

LEMMA GoesOn ==
    ASSUME TypeOK, NEW r \in Req, Set(r) \/ SetFails(r) \/ SetDone(r)
    PROVE  \E q : Goto(r, q) /\ q.pc \in {"setDone", "get"}
<1>1. CASE Set(r)
  <2> DEFINE q == [req[r] EXCEPT !.pc = "setDone"]
  <2>1. q.pc = "setDone"
    BY StepFields DEF TypeOK, Pcs
  <2> QED
    BY <1>1, <2>1 DEF Set
<1>2. CASE SetFails(r) \/ SetDone(r)
  <2> DEFINE q == [req[r] EXCEPT !.pc = "get", !.purpose = "answer"]
  <2>1. q.pc = "get"
    BY StepFields DEF TypeOK, Pcs, Purposes
  <2> QED
    BY <1>2, <2>1 DEF SetFails, SetDone
<1> QED
  BY <1>1, <1>2

LEMMA SlotType ==
    ASSUME req \in [Req -> Request], NEW r \in Req, NEW q \in Request, Goto(r, q)
    PROVE  req' \in [Req -> Request]
BY DEF Goto

\* What Return does to the request and to the rest.
LEMMA ReturnStep ==
    ASSUME TypeOK, NEW r \in Req, NEW v \in BOOLEAN, Return(r, v)
    PROVE  /\ Goto(r, Idle) \/ Goto(r, [req[r] EXCEPT !.pc = "set"])
           /\ req' \in [Req -> Request]
           /\ up' \subseteq Proc
           /\ alone' \in BOOLEAN
           /\ echoed' \in BOOLEAN
<1> USE ConstantsAssumption DEF TypeOK
<1>1. Goto(r, Idle) \/ Goto(r, [req[r] EXCEPT !.pc = "set"])
  BY DEF Return
<1>2. req' \in [Req -> Request]
  BY <1>1, SlotType, IdleType, StepTypes DEF Pcs
<1>3. up' \subseteq Proc
  BY DEF Return, outcomes
<1>4. req[r].value \in BOOLEAN
  BY DEF Request
<1>5. alone' \in BOOLEAN
  BY <1>4 DEF Return, outcomes
<1>6. echoed' \in BOOLEAN
  BY <1>4 DEF Return, outcomes
<1> QED
  BY <1>1, <1>2, <1>3, <1>5, <1>6

\* A step of get that ends in Return keeps the types if it keeps those of L1.
LEMMA ReturnType ==
    ASSUME TypeOK, NEW r \in Req, NEW v \in BOOLEAN, Return(r, v),
           l1' \in [Proc -> [value : BOOLEAN, left : 0..Ttl]],
           UNCHANGED <<env, redis, redisUp, age>>
    PROVE  TypeOK'
<1>1. /\ req' \in [Req -> Request]
      /\ up' \subseteq Proc
      /\ alone' \in BOOLEAN /\ echoed' \in BOOLEAN
  BY ReturnStep
<1> QED
  BY <1>1 DEF TypeOK

LEMMA WriteType ==
    ASSUME TypeOK, NEW v \in BOOLEAN, Write(Stored(v))
    PROVE  /\ redis' \in [text : Texts \cup {NoText}, left : 0..Ttl]
           /\ age' \in [Proc -> [BOOLEAN -> 0..(Ttl + 1)]]
<1>1. 0 \in 0..(Ttl + 1)
  BY ConstantsAssumption
<1> QED
  BY <1>1, EntryTypes DEF Write, TypeOK

LEMMA FillType ==
    ASSUME TypeOK, NEW r \in Req,
           NEW e \in [value : BOOLEAN, left : 0..Ttl], Fill(r, e)
    PROVE  l1' \in [Proc -> [value : BOOLEAN, left : 0..Ttl]]
BY DEF Fill, TypeOK

LEMMA ExpireType ==
    ASSUME NEW e \in [value : BOOLEAN, left : 0..Ttl]
    PROVE  Expire(e) \in [value : BOOLEAN, left : 0..Ttl]
<1>1. (IF e.left > 0 THEN e.left - 1 ELSE 0) \in 0..Ttl
  BY ConstantsAssumption
<1> QED BY <1>1 DEF Expire

LEMMA TickType == TypeOK /\ Tick => TypeOK'
<1> SUFFICES ASSUME TypeOK, Tick PROVE TypeOK'
  OBVIOUS
<1> USE ConstantsAssumption DEF TypeOK
<1>1. redis' \in [text : Texts \cup {NoText}, left : 0..Ttl]
  BY DEF Tick, Expire
<1>2. ASSUME NEW p \in Proc
      PROVE  Expire(l1[p]) \in [value : BOOLEAN, left : 0..Ttl]
  BY ExpireType
<1>3. l1' \in [Proc -> [value : BOOLEAN, left : 0..Ttl]]
  BY <1>2 DEF Tick
<1>4. ASSUME NEW p \in Proc, NEW v \in BOOLEAN
      PROVE  (IF v = Current(Expire(redis)) THEN 0
              ELSE IF age[p][v] <= Ttl THEN age[p][v] + 1 ELSE age[p][v])
                \in 0..(Ttl + 1)
  <2>1. age[p][v] \in 0..(Ttl + 1)
    OBVIOUS
  <2> HIDE DEF TypeOK
  <2> QED
    BY <2>1
<1>5. age' \in [Proc -> [BOOLEAN -> 0..(Ttl + 1)]]
  BY <1>4 DEF Tick
<1> QED
  BY <1>1, <1>3, <1>5 DEF Tick, outcomes

LEMMA TypeStep == TypeOK /\ [Next]_vars => TypeOK'
<1> SUFFICES ASSUME TypeOK, [Next]_vars PROVE TypeOK'
  OBVIOUS
<1> USE ConstantsAssumption
<1>1. ASSUME NEW r \in Req, Hit(r) PROVE TypeOK'
  <2>1. Home[r] \in Proc /\ l1[Home[r]].value \in BOOLEAN
    BY DEF TypeOK
  <2>2. l1' \in [Proc -> [value : BOOLEAN, left : 0..Ttl]]
    BY <1>1 DEF Hit, TypeOK
  <2> QED
    BY <1>1, <2>1, <2>2, ReturnType DEF Hit
<1>2. ASSUME NEW r \in Req, FromEnv(r) PROVE TypeOK'
  <2>1. l1' \in [Proc -> [value : BOOLEAN, left : 0..Ttl]]
    BY <1>2, CoerceType, EntryTypes, FillType DEF FromEnv
  <2> QED
    BY <1>2, <2>1, CoerceType, ReturnType DEF FromEnv
<1>3. ASSUME NEW r \in Req, Miss(r) \/ RedisGet(r) PROVE TypeOK'
  <2>1. req' \in [Req -> Request]
    BY <1>3, SlotType, StepTypes DEF Miss, RedisGet, TypeOK, Pcs
  <2> QED
    BY <1>3, <2>1 DEF Miss, RedisGet, TypeOK, stores, history, outcomes
<1>4. ASSUME NEW r \in Req, RedisGetFails(r) PROVE TypeOK'
  <2>1. l1' \in [Proc -> [value : BOOLEAN, left : 0..Ttl]]
    BY <1>4 DEF RedisGetFails, TypeOK
  <2> QED
    BY <1>4, <2>1, ReturnType DEF RedisGetFails
<1>5. ASSUME NEW r \in Req, FillFromRedis(r) PROVE TypeOK'
  <2>1. l1' \in [Proc -> [value : BOOLEAN, left : 0..Ttl]]
    BY <1>5, CoerceType, EntryTypes, FillType DEF FillFromRedis
  <2> QED
    BY <1>5, <2>1, CoerceType, ReturnType DEF FillFromRedis
<1>6. ASSUME NEW r \in Req, Seed(r) PROVE TypeOK'
  <2>1. req' \in [Req -> Request]
    BY <1>6, SlotType, StepTypes DEF Seed, TypeOK, Pcs
  <2>2. /\ redis' \in [text : Texts \cup {NoText}, left : 0..Ttl]
        /\ age' \in [Proc -> [BOOLEAN -> 0..(Ttl + 1)]]
    BY <1>6, WriteType DEF Seed, TypeOK
  <2> QED
    BY <1>6, <2>1, <2>2 DEF Seed, TypeOK, outcomes
<1>7. ASSUME NEW r \in Req, Seeded(r) PROVE TypeOK'
  <2>1. l1' \in [Proc -> [value : BOOLEAN, left : 0..Ttl]]
    BY <1>7, EntryTypes, FillType DEF Seeded
  <2> QED
    BY <1>7, <2>1, ReturnType DEF Seeded
<1>8. ASSUME NEW r \in Req, NEW v \in BOOLEAN,
             Update(r, v) \/ Read(r) \/ Boot(r)
      PROVE  TypeOK'
  <2>1. req' \in [Req -> Request]
    BY <1>8, SlotType, IdleType, StepTypes
       DEF Update, Read, Boot, TypeOK, Pcs, Purposes
  <2>2. alone' \in BOOLEAN
    BY <1>8 DEF Update, Read, Boot, Disturb
  <2> QED
    BY <1>8, <2>1, <2>2 DEF Update, Read, Boot, Disturb, TypeOK, stores
<1>9. ASSUME NEW r \in Req, Set(r) PROVE TypeOK'
  <2>1. req' \in [Req -> Request]
    BY <1>9, SlotType, StepTypes DEF Set, TypeOK, Pcs
  <2>2. req[r].value \in BOOLEAN
    BY DEF TypeOK, Request
  <2>3. /\ redis' \in [text : Texts \cup {NoText}, left : 0..Ttl]
        /\ age' \in [Proc -> [BOOLEAN -> 0..(Ttl + 1)]]
    BY <1>9, <2>2, WriteType DEF Set
  <2> QED
    BY <1>9, <2>1, <2>3 DEF Set, TypeOK, outcomes
<1>10. ASSUME NEW r \in Req, SetFails(r) PROVE TypeOK'
  <2>1. req' \in [Req -> Request]
    BY <1>10, SlotType, StepTypes DEF SetFails, TypeOK, Pcs, Purposes
  <2>2. Home[r] \in Proc /\ req[r].value \in BOOLEAN
    BY DEF TypeOK, Request
  <2>3. l1' \in [Proc -> [value : BOOLEAN, left : 0..Ttl]]
    BY <1>10, <2>2, EntryTypes, FillType DEF SetFails
  <2>4. age' \in [Proc -> [BOOLEAN -> 0..(Ttl + 1)]]
    BY <1>10, <2>2 DEF SetFails, TypeOK
  <2> QED
    BY <1>10, <2>1, <2>3, <2>4 DEF SetFails, TypeOK, outcomes
<1>11. ASSUME NEW r \in Req, SetDone(r) PROVE TypeOK'
  <2>1. req' \in [Req -> Request]
    BY <1>11, SlotType, StepTypes DEF SetDone, TypeOK, Pcs, Purposes
  <2>2. l1' \in [Proc -> [value : BOOLEAN, left : 0..Ttl]]
    BY <1>11, EntryTypes, FillType DEF SetDone
  <2> QED
    BY <1>11, <2>1, <2>2 DEF SetDone, TypeOK, history, outcomes
<1>12. ASSUME NEW p \in Proc, Restart(p) PROVE TypeOK'
  BY <1>12, IdleType, EntryTypes DEF Restart, TypeOK
<1>13. CASE RedisChanges
  BY <1>13 DEF RedisChanges, TypeOK
<1>14. CASE Tick
  BY <1>14, TickType
<1>15. CASE UNCHANGED vars
  BY <1>15 DEF TypeOK, vars, stores, history, outcomes
<1> QED
  BY <1>1, <1>2, <1>3, <1>4, <1>5, <1>6, <1>7, <1>8, <1>9, <1>10, <1>11,
     <1>12, <1>13, <1>14, <1>15 DEF Next

LEMMA TypeInit == Init => TypeOK
<1> SUFFICES ASSUME Init PROVE TypeOK
  OBVIOUS
<1> USE ConstantsAssumption DEF Init
<1>1. l1 \in [Proc -> [value : BOOLEAN, left : 0..Ttl]]
  BY EntryTypes
<1>2. age \in [Proc -> [BOOLEAN -> 0..(Ttl + 1)]]
  OBVIOUS
<1>3. redis \in [text : Texts \cup {NoText}, left : 0..Ttl]
  BY DEF Absent
<1>4. env \in Texts \cup {NoText}
  OBVIOUS
<1> QED
  BY <1>1, <1>2, <1>3, <1>4, IdleType DEF TypeOK

\* Every variable keeps its type: an entry never has more than the ttl to live.
THEOREM TypeCorrect == Spec => []TypeOK
BY TypeInit, TypeStep, PTL DEF Spec

-----------------------------------------------------------------------------
(***************************************************************************)
(* Freshness.  What is current has age 0, and so has what a request          *)
(* has read too, because no tick passes while it is in flight; an entry's  *)
(* age and its remaining life add up to at most the ttl.                   *)
(***************************************************************************)
\* A request that goes somewhere else than to a read value needs nothing.
LEMMA ReadNewKept ==
    ASSUME TypeOK, NEW r \in Req, NEW q, Goto(r, q),
           q.pc \notin {"fill", "seed", "seeded"},
           UNCHANGED env, \A s \in Req : ReadNew(s),
           \A p \in Proc, v \in BOOLEAN : age[p][v] = 0 => age'[p][v] = 0,
           q.pc = "redisGet" => env = NoText
    PROVE  \A s \in Req : ReadNew(s)'
<1> TAKE s \in Req
<1>1. Home[s] \in Proc /\ Default \in BOOLEAN
  BY ConstantsAssumption
<1>2. CASE s = r
  BY <1>2 DEF Goto, TypeOK, ReadNew
<1>3. CASE s # r
  <2>1. req'[s] = req[s]
    BY <1>3 DEF Goto, TypeOK
  <2> QED
    BY <1>1, <2>1, CoerceType DEF ReadNew
<1> QED
  BY <1>2, <1>3

\* Ages only fall: everything young stays young.
LEMMA EntryYoungKept ==
    ASSUME TypeOK, TypeOK', NEW p \in Proc, EntryYoung(p), l1'[p] = l1[p],
           \A v \in BOOLEAN : age'[p][v] <= age[p][v]
    PROVE  EntryYoung(p)'
<1>1. l1[p].value \in BOOLEAN /\ l1[p].left \in Nat
  BY ConstantsAssumption DEF TypeOK
<1>2. age[p][l1[p].value] \in Nat /\ age'[p][l1[p].value] \in Nat
  BY <1>1, ConstantsAssumption DEF TypeOK
<1>3. age'[p][l1[p].value] <= age[p][l1[p].value]
  BY <1>1
<1> QED
  BY <1>1, <1>2, <1>3, ConstantsAssumption DEF EntryYoung, Live

\* A value that is current now gets an entry of full life.
LEMMA EntryNew ==
    ASSUME NEW p \in Proc, NEW v \in BOOLEAN,
           l1'[p] = Cached(v), age'[p][v] = 0
    PROVE  EntryYoung(p)'
BY ConstantsAssumption DEF EntryYoung, Live, Cached

LEMMA EntryCold ==
    ASSUME NEW p \in Proc, l1'[p] = Cold
    PROVE  EntryYoung(p)'
BY DEF EntryYoung, Live, Cold

\* A write makes what is current new and no value older; without an override
\* what is current is the value it stores.
LEMMA WriteNew ==
    ASSUME TypeOK, TypeOK', NEW v \in BOOLEAN, Write(Stored(v)), UNCHANGED env
    PROVE  /\ \A p \in Proc : CurrentNew(p)'
           /\ \A p \in Proc, w \in BOOLEAN : age'[p][w] <= age[p][w]
           /\ \A p \in Proc, w \in BOOLEAN :
                age[p][w] = 0 => age'[p][w] = 0
<1> DEFINE c == Current(Stored(v))
<1>1. c \in BOOLEAN
  BY CurrentType
<1>2. ASSUME NEW p \in Proc
      PROVE  age'[p] = [age[p] EXCEPT ![c] = 0]
  BY DEF Write
<1>3. Current(redis)' = c
  BY DEF Write, Current
<1> HIDE DEF c
<1>4. ASSUME NEW p \in Proc
      PROVE  age'[p][c] = 0
  BY <1>1, <1>2 DEF TypeOK
<1>5. ASSUME NEW p \in Proc, NEW w \in BOOLEAN
      PROVE  age'[p][w] = 0 \/ age'[p][w] = age[p][w]
  BY <1>2 DEF TypeOK
<1>6. ASSUME NEW p \in Proc, NEW w \in BOOLEAN
      PROVE  age[p][w] \in Nat
  BY ConstantsAssumption DEF TypeOK
<1>7. \A p \in Proc : CurrentNew(p)'
  BY <1>3, <1>4 DEF CurrentNew
<1> QED
  BY <1>5, <1>6, <1>7

LEMMA TickAge ==
    ASSUME TypeOK, TypeOK', Tick, \A p \in Proc : EntryYoung(p)
    PROVE  /\ \A p \in Proc : CurrentNew(p)'
           /\ \A p \in Proc : EntryYoung(p)'
<1>1. /\ Current(Expire(redis)) \in BOOLEAN
      /\ Current(redis)' = Current(Expire(redis))
  BY CurrentType DEF Tick, Current
<1>2. ASSUME NEW p \in Proc
      PROVE  CurrentNew(p)'
  BY <1>1 DEF Tick, CurrentNew
<1>3. ASSUME NEW p \in Proc
      PROVE  EntryYoung(p)'
  <2> DEFINE v == l1[p].value
             n == l1[p].left
  <2>1. v \in BOOLEAN /\ n \in Nat
    BY ConstantsAssumption DEF TypeOK
  <2>2. /\ l1'[p].value = v
        /\ l1'[p].left = IF n > 0 THEN n - 1 ELSE 0
    BY DEF Tick, Expire, TypeOK
  <2>3. age[p][v] \in Nat
    BY <2>1, ConstantsAssumption DEF TypeOK
  <2>4. age'[p][v] \in Nat /\ age'[p][v] <= age[p][v] + 1
    <3>1. age'[p][v] = IF v = Current(Expire(redis)) THEN 0
                       ELSE IF age[p][v] <= Ttl THEN age[p][v] + 1
                       ELSE age[p][v]
      BY <2>1 DEF Tick
    <3> QED
      BY <2>3, <3>1
  <2>5. n > 0 => age[p][v] + n <= Ttl
    BY DEF EntryYoung, Live
  <2> HIDE DEF v, n
  <2> QED
    BY <2>1, <2>2, <2>3, <2>4, <2>5, ConstantsAssumption DEF EntryYoung, Live
<1> QED
  BY <1>2, <1>3

LEMMA AgeInit == Init => AgeInv
<1> SUFFICES ASSUME Init PROVE AgeInv
  OBVIOUS
<1>1. ASSUME NEW p \in Proc PROVE CurrentNew(p)
  <2>1. Current(Absent) \in BOOLEAN
    BY CurrentType
  <2> QED
    BY <1>1, <2>1 DEF Init, CurrentNew
<1>2. ASSUME NEW r \in Req PROVE ReadNew(r)
  BY <1>2 DEF Init, ReadNew, Idle
<1>3. ASSUME NEW p \in Proc PROVE EntryYoung(p)
  BY <1>3 DEF Init, EntryYoung, Live, Cold
<1> QED
  BY <1>1, <1>2, <1>3 DEF AgeInv

LEMMA AgeStep == TypeOK /\ TypeOK' /\ AgeInv /\ [Next]_vars => AgeInv'
<1> SUFFICES ASSUME TypeOK, TypeOK', AgeInv, [Next]_vars
             PROVE  /\ \A p \in Proc : CurrentNew(p)'
                    /\ \A r \in Req : ReadNew(r)'
                    /\ \A p \in Proc : EntryYoung(p)'
  BY DEF AgeInv
<1>a. env' = env
  BY DEF Next, vars, stores, Hit, FromEnv, Miss, RedisGet, RedisGetFails,
         FillFromRedis, Seed, Seeded, Update, Set, SetFails, SetDone, Read,
         Boot, Disturb, Restart, RedisChanges, Tick
<1>b. /\ \A p \in Proc : CurrentNew(p)
      /\ \A r \in Req : ReadNew(r)
      /\ \A p \in Proc : EntryYoung(p)
  BY DEF AgeInv
<1>c. \A r \in Req : Home[r] \in Proc
  BY ConstantsAssumption
<1>d. \A p \in Proc, v \in BOOLEAN : age[p][v] \in Nat
  BY ConstantsAssumption DEF TypeOK
<1>e. Default \in BOOLEAN
  BY ConstantsAssumption
<1>f. ASSUME UNCHANGED <<redis, age>>
      PROVE  \A p \in Proc : CurrentNew(p)'
  BY <1>a, <1>b, <1>f DEF CurrentNew, Current
<1>g. ASSUME UNCHANGED <<l1, age>>
      PROVE  \A p \in Proc : EntryYoung(p)'
  BY <1>b, <1>g DEF EntryYoung
<1>h. ASSUME NEW r \in Req, NEW v \in BOOLEAN, Fill(r, Cached(v)),
             age'[Home[r]][v] = 0,
             \A p \in Proc, w \in BOOLEAN : age'[p][w] <= age[p][w]
      PROVE  \A p \in Proc : EntryYoung(p)'
  <2> TAKE p \in Proc
  <2>1. CASE p = Home[r]
    BY <1>h, <2>1, EntryNew DEF Fill, TypeOK
  <2>2. CASE p # Home[r]
    BY <1>b, <1>h, <2>2, EntryYoungKept DEF Fill
  <2> QED
    BY <2>1, <2>2
<1>i. ASSUME NEW r \in Req, NEW v \in BOOLEAN, Return(r, v), UNCHANGED age
      PROVE  \A s \in Req : ReadNew(s)'
  <2>1. PICK q : /\ Goto(r, q)
                 /\ q.pc \notin {"redisGet", "fill", "seed", "seeded"}
    <3>1. /\ Idle.pc = "idle"
          /\ [req[r] EXCEPT !.pc = "set"].pc = "set"
      BY DEF Idle, TypeOK, Request
    <3> QED
      BY <1>i, <3>1, ReturnStep
  <2> QED
    BY <1>a, <1>b, <1>i, <2>1, ReadNewKept
<1>1. ASSUME NEW r \in Req, Hit(r)
      PROVE  UNCHANGED <<redis, l1, age>> /\ \A s \in Req : ReadNew(s)'
  <2>1. l1[Home[r]].value \in BOOLEAN
    BY <1>c DEF TypeOK
  <2> QED
    BY <1>1, <2>1, <1>i DEF Hit
<1>2. ASSUME NEW r \in Req, RedisGetFails(r)
      PROVE  UNCHANGED <<redis, l1, age>> /\ \A s \in Req : ReadNew(s)'
  BY <1>2, <1>e, <1>i DEF RedisGetFails
<1>3. ASSUME NEW r \in Req, FromEnv(r)
      PROVE  /\ UNCHANGED <<redis, age>>
             /\ \A s \in Req : ReadNew(s)'
             /\ \A p \in Proc : EntryYoung(p)'
  <2> DEFINE v == Coerce(env)
  <2>1. v \in BOOLEAN
    BY CoerceType
  <2>2. UNCHANGED <<redis, age>> /\ Fill(r, Cached(v)) /\ Return(r, v)
    BY <1>3 DEF FromEnv
  <2>3. age'[Home[r]][v] = 0
    BY <1>3, <1>b, <1>c, <2>2 DEF FromEnv, CurrentNew, Current
  <2>4. \A p \in Proc, w \in BOOLEAN : age'[p][w] <= age[p][w]
    BY <2>2, <1>d
  <2> HIDE DEF v
  <2> QED
    BY <2>1, <2>2, <2>3, <2>4, <1>h, <1>i
<1>4. ASSUME NEW r \in Req, Miss(r)
      PROVE  UNCHANGED <<redis, l1, age>> /\ \A s \in Req : ReadNew(s)'
  <2>1. [req[r] EXCEPT !.pc = "redisGet"].pc = "redisGet"
    BY DEF TypeOK, Request
  <2> QED
    BY <1>4, <1>a, <1>b, <2>1, ReadNewKept DEF Miss, stores, history
<1>5. ASSUME NEW r \in Req, RedisGet(r)
      PROVE  UNCHANGED <<redis, l1, age>> /\ \A s \in Req : ReadNew(s)'
  <2>1. UNCHANGED <<redis, l1, age>>
    BY <1>5 DEF RedisGet, stores, history
  <2>2. CurrentNew(Home[r]) /\ env = NoText
    BY <1>5, <1>b, <1>c DEF RedisGet, ReadNew
  <2>3. ASSUME NEW s \in Req PROVE ReadNew(s)'
    <3>1. CASE s # r
      <4>1. req'[s] = req[s]
        BY <1>5, <3>1 DEF RedisGet, Goto, TypeOK
      <4> QED
        BY <1>a, <1>b, <2>1, <4>1 DEF ReadNew
    <3>2. CASE s = r /\ Live(redis)
      <4>1. req'[r].pc = "fill" /\ req'[r].text = redis.text
        <5>1. req[r] \in Request /\ redis.text \in Texts \cup {NoText}
          BY DEF TypeOK
        <5>2. req'[r] = [req[r] EXCEPT !.pc = "fill", !.text = redis.text]
          BY <1>5, <3>2 DEF RedisGet, Goto, TypeOK
        <5> QED
          BY <5>1, <5>2, StepFields DEF Pcs
      <4>2. Current(redis) = Coerce(redis.text)
        BY <2>2, <3>2 DEF Current
      <4> QED
        BY <1>a, <2>1, <2>2, <3>2, <4>1, <4>2 DEF ReadNew, CurrentNew
    <3>3. CASE s = r /\ ~Live(redis)
      <4>1. req'[r].pc = "seed"
        BY <1>5, <3>3 DEF RedisGet, Goto, TypeOK, Request
      <4>2. Current(redis) = Default
        BY <2>2, <3>3 DEF Current
      <4> QED
        BY <1>a, <2>1, <2>2, <3>3, <4>1, <4>2 DEF ReadNew, CurrentNew
    <3> QED
      BY <3>1, <3>2, <3>3
  <2> QED
    BY <2>1, <2>3
<1>6. ASSUME NEW r \in Req, FillFromRedis(r)
      PROVE  /\ UNCHANGED <<redis, age>>
             /\ \A s \in Req : ReadNew(s)'
             /\ \A p \in Proc : EntryYoung(p)'
  <2> DEFINE v == Coerce(req[r].text)
  <2>1. v \in BOOLEAN
    BY CoerceType
  <2>2. UNCHANGED <<redis, age>> /\ Fill(r, Cached(v)) /\ Return(r, v)
    BY <1>6 DEF FillFromRedis
  <2>3. age'[Home[r]][v] = 0
    BY <1>6, <1>b, <2>2 DEF FillFromRedis, ReadNew
  <2>4. \A p \in Proc, w \in BOOLEAN : age'[p][w] <= age[p][w]
    BY <2>2, <1>d
  <2> HIDE DEF v
  <2> QED
    BY <2>1, <2>2, <2>3, <2>4, <1>h, <1>i
<1>7. ASSUME NEW r \in Req, Seed(r)
      PROVE  /\ \A p \in Proc : CurrentNew(p)'
             /\ \A s \in Req : ReadNew(s)'
             /\ \A p \in Proc : EntryYoung(p)'
  <2>1. /\ \A p \in Proc : CurrentNew(p)'
        /\ \A p \in Proc, w \in BOOLEAN : age'[p][w] <= age[p][w]
        /\ \A p \in Proc, w \in BOOLEAN : age[p][w] = 0 => age'[p][w] = 0
    <3>1. CASE redisUp
      BY <1>7, <3>1, <1>a, <1>e, WriteNew DEF Seed
    <3>2. CASE ~redisUp
      BY <1>7, <3>2, <1>d, <1>f DEF Seed
    <3> QED
      BY <3>1, <3>2
  <2>2. ASSUME NEW p \in Proc PROVE EntryYoung(p)'
    BY <1>7, <1>b, <2>1, EntryYoungKept DEF Seed
  <2>3. ASSUME NEW s \in Req PROVE ReadNew(s)'
    <3>1. CASE s = r
      <4>1. req'[r].pc = "seeded" /\ req[r].pc = "seed"
        BY <1>7 DEF Seed, Goto, TypeOK, Request
      <4>2. age[Home[r]][Default] = 0 /\ env = NoText
        BY <1>b, <4>1 DEF ReadNew
      <4> QED
        BY <1>a, <1>c, <1>e, <2>1, <3>1, <4>1, <4>2 DEF ReadNew
    <3>2. CASE s # r
      <4>1. req'[s] = req[s]
        BY <1>7, <3>2 DEF Seed, Goto, TypeOK
      <4> QED
        BY <1>a, <1>b, <1>c, <1>e, <2>1, <4>1, CoerceType DEF ReadNew
    <3> QED
      BY <3>1, <3>2
  <2> QED
    BY <2>1, <2>2, <2>3
<1>8. ASSUME NEW r \in Req, Seeded(r)
      PROVE  /\ UNCHANGED <<redis, age>>
             /\ \A s \in Req : ReadNew(s)'
             /\ \A p \in Proc : EntryYoung(p)'
  <2>1. UNCHANGED <<redis, age>> /\ Fill(r, Cached(Default)) /\ Return(r, Default)
    BY <1>8 DEF Seeded
  <2>2. age'[Home[r]][Default] = 0
    BY <1>8, <1>b, <2>1 DEF Seeded, ReadNew
  <2>3. \A p \in Proc, w \in BOOLEAN : age'[p][w] <= age[p][w]
    BY <2>1, <1>d
  <2> QED
    BY <2>1, <2>2, <2>3, <1>e, <1>h, <1>i
<1>9. ASSUME NEW r \in Req, NEW v \in BOOLEAN,
             Update(r, v) \/ Read(r) \/ Boot(r)
      PROVE  UNCHANGED <<redis, l1, age>> /\ \A s \in Req : ReadNew(s)'
  <2>1. PICK q : Goto(r, q) /\ q.pc = "get"
    BY <1>9, Begins
  <2>2. UNCHANGED <<redis, l1, age>>
    BY <1>9 DEF Update, Read, Boot, Disturb, stores
  <2> QED
    BY <1>a, <1>b, <2>1, <2>2, ReadNewKept
<1>10. ASSUME NEW r \in Req, Set(r)
       PROVE  /\ \A p \in Proc : CurrentNew(p)'
              /\ \A s \in Req : ReadNew(s)'
              /\ \A p \in Proc : EntryYoung(p)'
  <2>1. req[r].value \in BOOLEAN
    BY DEF TypeOK, Request
  <2>2. /\ \A p \in Proc : CurrentNew(p)'
        /\ \A p \in Proc, w \in BOOLEAN : age'[p][w] <= age[p][w]
        /\ \A p \in Proc, w \in BOOLEAN : age[p][w] = 0 => age'[p][w] = 0
    BY <1>10, <1>a, <2>1, WriteNew DEF Set
  <2>3. PICK q : Goto(r, q) /\ q.pc \in {"setDone", "get"}
    BY <1>10, GoesOn
  <2>4. \A s \in Req : ReadNew(s)'
    BY <1>a, <1>b, <2>2, <2>3, ReadNewKept
  <2>5. ASSUME NEW p \in Proc PROVE EntryYoung(p)'
    BY <1>10, <1>b, <2>2, EntryYoungKept DEF Set
  <2> QED
    BY <2>2, <2>4, <2>5
<1>11. ASSUME NEW r \in Req, SetFails(r)
       PROVE  /\ \A p \in Proc : CurrentNew(p)'
              /\ \A s \in Req : ReadNew(s)'
              /\ \A p \in Proc : EntryYoung(p)'
  <2> DEFINE v == req[r].value
  <2>1. v \in BOOLEAN /\ Home[r] \in Proc
    BY <1>c DEF TypeOK, Request
  <2>2. /\ UNCHANGED redis
        /\ Fill(r, Cached(v))
        /\ age' = [age EXCEPT ![Home[r]][v] = 0]
    BY <1>11 DEF SetFails
  <2>3. PICK q : Goto(r, q) /\ q.pc \in {"setDone", "get"}
    BY <1>11, GoesOn
  <2> HIDE DEF v
  <2>4. \A p \in Proc, w \in BOOLEAN :
          age'[p][w] = age[p][w] \/ age'[p][w] = 0
    BY <2>1, <2>2 DEF TypeOK
  <2>5. age'[Home[r]][v] = 0
    BY <2>1, <2>2 DEF TypeOK
  <2>6. /\ \A p \in Proc, w \in BOOLEAN : age'[p][w] <= age[p][w]
        /\ \A p \in Proc, w \in BOOLEAN : age[p][w] = 0 => age'[p][w] = 0
    BY <2>4, <1>d
  <2>7. Current(redis) \in BOOLEAN /\ Current(redis)' = Current(redis)
    BY <1>a, <2>2, CurrentType DEF Current
  <2>8. \A p \in Proc : CurrentNew(p)'
    BY <1>b, <2>2, <2>6, <2>7 DEF CurrentNew
  <2>9. \A s \in Req : ReadNew(s)'
    BY <1>a, <1>b, <2>3, <2>6, ReadNewKept
  <2> QED
    BY <1>h, <2>1, <2>2, <2>5, <2>6, <2>8, <2>9
<1>12. ASSUME NEW r \in Req, SetDone(r)
       PROVE  /\ UNCHANGED <<redis, age>>
              /\ \A s \in Req : ReadNew(s)'
              /\ \A p \in Proc : EntryYoung(p)'
  <2>1. UNCHANGED <<redis, age>> /\ Fill(r, Cold)
    BY <1>12 DEF SetDone, history
  <2>2. PICK q : Goto(r, q) /\ q.pc \in {"setDone", "get"}
    BY <1>12, GoesOn
  <2>3. \A s \in Req : ReadNew(s)'
    BY <1>a, <1>b, <2>1, <2>2, ReadNewKept
  <2>4. ASSUME NEW p \in Proc PROVE EntryYoung(p)'
    <3>1. CASE p = Home[r]
      BY <2>1, <3>1, EntryCold DEF Fill, TypeOK
    <3>2. CASE p # Home[r]
      BY <1>b, <1>d, <2>1, <3>2, EntryYoungKept DEF Fill
    <3> QED
      BY <3>1, <3>2
  <2> QED
    BY <2>1, <2>3, <2>4
<1>13. ASSUME NEW p \in Proc, Restart(p)
       PROVE  /\ UNCHANGED <<redis, age>>
              /\ \A s \in Req : ReadNew(s)'
              /\ \A o \in Proc : EntryYoung(o)'
  <2>1. UNCHANGED <<redis, age>>
    BY <1>13 DEF Restart
  <2>2. ASSUME NEW s \in Req PROVE ReadNew(s)'
    <3>1. req'[s] = Idle \/ req'[s] = req[s]
      BY <1>13 DEF Restart
    <3> QED
      BY <1>a, <1>b, <2>1, <3>1 DEF ReadNew, Idle
  <2>3. ASSUME NEW o \in Proc PROVE EntryYoung(o)'
    <3>1. CASE o = p
      BY <1>13, <3>1, EntryCold DEF Restart, TypeOK
    <3>2. CASE o # p
      BY <1>13, <1>b, <1>d, <2>1, <3>2, EntryYoungKept DEF Restart
    <3> QED
      BY <3>1, <3>2
  <2> QED
    BY <2>1, <2>2, <2>3
<1>14. ASSUME RedisChanges \/ UNCHANGED vars
       PROVE  UNCHANGED <<redis, l1, age>> /\ \A s \in Req : ReadNew(s)'
  <2>1. UNCHANGED <<redis, l1, age, req>>
    BY <1>14 DEF RedisChanges, vars, stores, history
  <2> QED
    BY <1>a, <1>b, <2>1 DEF ReadNew
<1>15. ASSUME Tick
       PROVE  /\ \A p \in Proc : CurrentNew(p)'
              /\ \A s \in Req : ReadNew(s)'
              /\ \A p \in Proc : EntryYoung(p)'
  <2>1. \A s \in Req : ReadNew(s)'
    BY <1>15 DEF Tick, ReadNew
  <2> QED
    BY <1>15, <1>b, <2>1, TickAge
<1> QED
  BY <1>f, <1>g, <1>1, <1>2, <1>3, <1>4, <1>5, <1>6, <1>7, <1>8, <1>9, <1>10,
     <1>11, <1>12, <1>13, <1>14, <1>15 DEF Next

\* No process serves a value longer than the ttl after it stopped being current,
\* whatever the override, the number of processes and requests, and however
\* Redis outages, restarts and updates interleave.
THEOREM FreshForTtl == Spec => []FreshWithinTtl
<1>1. TypeOK /\ AgeInv => FreshWithinTtl
  <2> SUFFICES ASSUME TypeOK, AgeInv, NEW p \in Proc, Live(l1[p])
               PROVE  age[p][l1[p].value] <= Ttl
    BY DEF FreshWithinTtl
  <2>1. l1[p].value \in BOOLEAN /\ l1[p].left \in Nat
    BY ConstantsAssumption DEF TypeOK
  <2>2. age[p][l1[p].value] \in Nat
    BY <2>1, ConstantsAssumption DEF TypeOK
  <2>3. age[p][l1[p].value] + l1[p].left <= Ttl
    BY DEF AgeInv, EntryYoung
  <2> QED
    BY <2>1, <2>2, <2>3, ConstantsAssumption
<1> QED
  BY <1>1, TypeInit, TypeStep, AgeInit, AgeStep, PTL DEF Spec

-----------------------------------------------------------------------------
(***************************************************************************)
(* The environment.                                                        *)
(***************************************************************************)

LEMMA EnvStep ==
    ASSUME ~MayFail
    PROVE  TypeOK /\ EnvInv /\ [Next]_vars => EnvInv'
<1> SUFFICES ASSUME TypeOK, EnvInv, [Next]_vars PROVE EnvInv'
  OBVIOUS
<1> DEFINE Past == {"redisGet", "fill", "seed", "seeded"}
           ReqOK(r) == req[r].pc \notin Past
           EntryOK(p) == Live(l1[p]) => l1[p].value = Coerce(env)
<1>a. redisUp' /\ env' = env
  BY DEF EnvInv, Next, vars, stores, Hit, FromEnv, Miss, RedisGet,
         RedisGetFails, FillFromRedis, Seed, Seeded, Update, Set, SetFails,
         SetDone, Read, Boot, Disturb, Restart, RedisChanges, Tick
<1>b. SUFFICES ASSUME env # NoText
               PROVE  /\ \A r \in Req : ReqOK(r)'
                      /\ \A p \in Proc : EntryOK(p)'
  BY <1>a DEF EnvInv
<1>c. /\ \A r \in Req : ReqOK(r)
      /\ \A p \in Proc : EntryOK(p)
  BY <1>b DEF EnvInv
<1>d. \A r \in Req : Home[r] \in Proc
  BY ConstantsAssumption
<1>e. ASSUME NEW r \in Req, NEW q, Goto(r, q), q.pc \notin Past
      PROVE  \A s \in Req : ReqOK(s)'
  BY <1>c, <1>e DEF Goto, TypeOK
<1>f. ASSUME NEW r \in Req, NEW v \in BOOLEAN, Return(r, v)
      PROVE  \A s \in Req : ReqOK(s)'
  <2>1. Idle.pc = "idle" /\ [req[r] EXCEPT !.pc = "set"].pc = "set"
    BY DEF Idle, TypeOK, Request
  <2> QED
    BY <1>e, <1>f, <2>1, ReturnStep
<1>g. ASSUME UNCHANGED l1
      PROVE  \A p \in Proc : EntryOK(p)'
  BY <1>a, <1>c, <1>g
<1>h. ASSUME NEW r \in Req, NEW e, Fill(r, e), e = Cold \/ e = Cached(Coerce(env))
      PROVE  \A p \in Proc : EntryOK(p)'
  <2> TAKE p \in Proc
  <2>1. CASE p = Home[r]
    BY <1>a, <1>h, <2>1 DEF Fill, TypeOK, Live, Cold, Cached
  <2>2. CASE p # Home[r]
    BY <1>a, <1>c, <1>h, <2>2 DEF Fill, TypeOK
  <2> QED
    BY <2>1, <2>2
<1> HIDE DEF ReqOK, EntryOK
<1> DEFINE Kept == (\A r \in Req : ReqOK(r)') /\ (\A p \in Proc : EntryOK(p)')
<1>1. ASSUME NEW r \in Req, Hit(r) PROVE Kept
  <2>1. l1[Home[r]].value \in BOOLEAN
    BY <1>d DEF TypeOK
  <2> QED
    BY <1>1, <2>1, <1>f, <1>g DEF Hit
<1>2. ASSUME NEW r \in Req, FromEnv(r) PROVE Kept
  BY <1>2, <1>f, <1>h, CoerceType DEF FromEnv
<1>3. ASSUME NEW r \in Req,
             Miss(r) \/ RedisGet(r) \/ RedisGetFails(r) \/ FillFromRedis(r)
               \/ Seed(r) \/ Seeded(r) \/ SetFails(r)
      PROVE  FALSE
  BY <1>3, <1>b, <1>c DEF Miss, RedisGet, RedisGetFails, FillFromRedis, Seed,
     Seeded, SetFails, EnvInv, ReqOK
<1>4. ASSUME NEW r \in Req, NEW v \in BOOLEAN,
             Update(r, v) \/ Read(r) \/ Boot(r)
      PROVE  Kept
  <2>1. PICK q : Goto(r, q) /\ q.pc = "get"
    BY <1>4, Begins
  <2>2. UNCHANGED l1
    BY <1>4 DEF Update, Read, Boot, Disturb, stores
  <2> QED
    BY <2>1, <2>2, <1>e, <1>g
<1>5. ASSUME NEW r \in Req, Set(r) PROVE Kept
  <2>1. PICK q : Goto(r, q) /\ q.pc \in {"setDone", "get"}
    BY <1>5, GoesOn
  <2> QED
    BY <1>5, <2>1, <1>e, <1>g DEF Set
<1>6. ASSUME NEW r \in Req, SetDone(r) PROVE Kept
  <2>1. PICK q : Goto(r, q) /\ q.pc \in {"setDone", "get"}
    BY <1>6, GoesOn
  <2> QED
    BY <1>6, <2>1, <1>e, <1>h DEF SetDone
<1>7. ASSUME NEW p \in Proc, Restart(p) PROVE FALSE
  BY <1>7 DEF Restart
<1>8. CASE Tick
  <2>1. UNCHANGED req
    BY <1>8 DEF Tick
  <2>2. ASSUME NEW p \in Proc PROVE EntryOK(p)'
    <3>1. /\ l1'[p].value = l1[p].value
          /\ l1'[p].left = IF l1[p].left > 0 THEN l1[p].left - 1 ELSE 0
      BY <1>8 DEF Tick, Expire, TypeOK
    <3>2. Live(l1'[p]) => Live(l1[p])
      BY <3>1 DEF Live
    <3> QED
      BY <1>a, <1>c, <3>1, <3>2 DEF EntryOK
  <2> QED
    BY <1>c, <2>1, <2>2 DEF ReqOK
<1>9. CASE RedisChanges \/ UNCHANGED vars
  <2>1. UNCHANGED <<l1, req>>
    BY <1>9 DEF RedisChanges, vars, stores
  <2> QED
    BY <1>c, <1>g, <2>1 DEF ReqOK
<1> QED
  BY <1>1, <1>2, <1>3, <1>4, <1>5, <1>6, <1>7, <1>8, <1>9 DEF Next

\* While Redis never fails, a parameter with an override has the value of the
\* override in every process, whatever administrators store meanwhile.
THEOREM EnvironmentWins == ASSUME ~MayFail PROVE Spec => []EnvWins
<1>1. Init => EnvInv
  BY DEF Init, EnvInv, Live, Cold, Idle
<1>2. TypeOK /\ EnvInv /\ [Next]_vars => EnvInv'
  BY EnvStep
<1>3. EnvInv => EnvWins
  BY DEF EnvInv, EnvWins
<1> QED
  BY <1>1, <1>2, <1>3, TypeInit, TypeStep, PTL DEF Spec

-----------------------------------------------------------------------------
(* The answer of an update                                                 *)

\* A step of request r alone keeps the invariant when what it answers is the
\* value it set and it stays on its way.
LEMMA EchoKept ==
    ASSUME TypeOK, EchoInv, NEW r \in Req, NEW q, Goto(r, q),
           UNCHANGED env, UNCHANGED alone, req[r].pc # "idle",
           env = NoText => echoed',
           env = NoText /\ alone => Answers(r)'
    PROVE  EchoInv'
<1>1. \A s \in Req \ {r} : req'[s] = req[s]
  BY DEF Goto, TypeOK
<1> SUFFICES ASSUME env = NoText, alone
             PROVE  /\ \A s, t \in Req :
                         req'[s].pc # "idle" /\ req'[t].pc # "idle" => s = t
                    /\ \A s \in Req : Answers(s)'
  BY DEF EchoInv
<1>2. \A s \in Req \ {r} : req'[s].pc = "idle"
  BY <1>1 DEF EchoInv
<1>3. ASSUME NEW s \in Req \ {r} PROVE Answers(s)'
  BY <1>2 DEF Answers
<1> QED
  BY <1>2, <1>3

\* An interfered update owes nothing.
LEMMA EchoDisturbed ==
    ASSUME EchoInv, UNCHANGED <<env, echoed>>, alone' = FALSE
    PROVE  EchoInv'
BY DEF EchoInv

\* A request that ends answers its update, or changes nothing it owes.
LEMMA EchoReturn ==
    ASSUME TypeOK, EchoInv, NEW r \in Req, NEW v \in BOOLEAN, Return(r, v),
           UNCHANGED env, req[r].pc # "idle",
           env = NoText /\ alone /\ req[r].purpose = "answer" => v = req[r].value
    PROVE  EchoInv'
<1>1. PICK q : Goto(r, q) /\ (q = Idle \/ q = [req[r] EXCEPT !.pc = "set"])
  BY ReturnStep
<1>2. q.pc \in {"idle", "set"}
  BY <1>1 DEF Idle, TypeOK, Request
<1>3. Answers(r)'
  <2>1. req'[r] = q
    BY <1>1 DEF Goto, TypeOK
  <2> QED
    BY <1>2, <2>1 DEF Answers
<1>4. UNCHANGED alone
  BY DEF Return, outcomes
<1>5. echoed' = echoed \/ echoed' = (echoed /\ (alone => v = req[r].value))
  BY DEF Return, outcomes
<1>6. echoed' = echoed \/ req[r].purpose = "answer"
  BY DEF Return, outcomes
<1>7. env = NoText => echoed'
  BY <1>5, <1>6 DEF EchoInv
<1> QED
  BY <1>1, <1>3, <1>4, <1>7, EchoKept

\* What the steps of an update find in Redis.
LEMMA HoldsWritten ==
    ASSUME TypeOK, NEW r \in Req, NEW v \in BOOLEAN,
           redisUp, UNCHANGED redisUp, redis' = Stored(v), req'[r].value = v
    PROVE  Holds(r)'
<1>1. Coerce(String(v)) = v
  BY DEF Coerce, String
<1> QED
  BY <1>1, ConstantsAssumption DEF Holds, Stored, Live

LEMMA EchoStep == TypeOK /\ EchoInv /\ [Next]_vars => EchoInv'
<1> SUFFICES ASSUME TypeOK, EchoInv, [Next]_vars PROVE EchoInv'
  OBVIOUS
<1>a. \A r \in Req : Home[r] \in Proc /\ req[r] \in Request
  BY ConstantsAssumption DEF TypeOK
<1>b. \A r \in Req : env = NoText /\ alone => Answers(r)
  BY DEF EchoInv
<1>c. Default \in BOOLEAN
  BY ConstantsAssumption
<1>1. ASSUME NEW r \in Req, Hit(r) PROVE EchoInv'
  <2> DEFINE v == l1[Home[r]].value
  <2>1. v \in BOOLEAN
    BY <1>a DEF TypeOK
  <2>2. Return(r, v) /\ env' = env /\ req[r].pc = "get" /\ Live(l1[Home[r]])
    BY <1>1 DEF Hit
  <2>3. env = NoText /\ alone /\ req[r].purpose = "answer" => v = req[r].value
    BY <1>b, <2>2 DEF Answers
  <2> HIDE DEF v
  <2> QED
    BY <2>1, <2>2, <2>3, EchoReturn
<1>2. ASSUME NEW r \in Req, FromEnv(r) PROVE EchoInv'
  BY <1>2, CoerceType, EchoReturn DEF FromEnv
<1>3. ASSUME NEW r \in Req, Miss(r) PROVE EchoInv'
  <2>1. PICK q : q = [req[r] EXCEPT !.pc = "redisGet"]
    OBVIOUS
  <2>2. /\ q.pc = "redisGet" /\ q.purpose = req[r].purpose
        /\ q.value = req[r].value
    BY <1>a, <2>1 DEF Request
  <2>3. /\ Goto(r, q) /\ req[r].pc = "get" /\ ~Live(l1[Home[r]])
        /\ UNCHANGED <<env, redis, redisUp, alone, echoed>>
    BY <1>3, <2>1 DEF Miss, stores, history, outcomes
  <2>4. req'[r] = q
    BY <2>3 DEF Goto, TypeOK
  <2>5. env = NoText /\ alone => Answers(r)'
    BY <1>b, <2>2, <2>3, <2>4 DEF Answers, Holds, Live
  <2> QED
    BY <2>3, <2>5, EchoKept DEF EchoInv
<1>4. ASSUME NEW r \in Req, RedisGet(r) PROVE EchoInv'
  <2>1. PICK q : q = IF Live(redis)
                     THEN [req[r] EXCEPT !.pc = "fill", !.text = redis.text]
                     ELSE [req[r] EXCEPT !.pc = "seed"]
    OBVIOUS
  <2>2. /\ q.purpose = req[r].purpose /\ q.value = req[r].value
        /\ Live(redis) => q.pc = "fill" /\ q.text = redis.text
        /\ ~Live(redis) => q.pc = "seed"
    BY <1>a, <2>1 DEF Request
  <2>3. /\ Goto(r, q) /\ req[r].pc = "redisGet"
        /\ UNCHANGED <<env, redis, redisUp, alone, echoed>>
    BY <1>4, <2>1 DEF RedisGet, stores, history, outcomes
  <2>4. req'[r] = q
    BY <2>3 DEF Goto, TypeOK
  <2>5. env = NoText /\ alone => Answers(r)'
    BY <1>b, <2>2, <2>3, <2>4 DEF Answers, Holds
  <2> QED
    BY <2>3, <2>5, EchoKept DEF EchoInv
<1>5. ASSUME NEW r \in Req, RedisGetFails(r) PROVE EchoInv'
  <2>1. env = NoText /\ alone => req[r].purpose # "answer"
    BY <1>5, <1>b DEF RedisGetFails, Answers, Holds
  <2> QED
    BY <1>5, <1>c, <2>1, EchoReturn DEF RedisGetFails
<1>6. ASSUME NEW r \in Req, FillFromRedis(r) PROVE EchoInv'
  <2>1. env = NoText /\ alone /\ req[r].purpose = "answer" =>
          Coerce(req[r].text) = req[r].value
    BY <1>6, <1>b DEF FillFromRedis, Answers
  <2> QED
    BY <1>6, <2>1, CoerceType, EchoReturn DEF FillFromRedis
<1>7. ASSUME NEW r \in Req, Seed(r) PROVE EchoInv'
  <2>1. PICK q : q = [req[r] EXCEPT !.pc = "seeded"]
    OBVIOUS
  <2>2. q.pc = "seeded" /\ q.purpose = req[r].purpose
    BY <1>a, <2>1 DEF Request
  <2>3. /\ Goto(r, q) /\ req[r].pc = "seed"
        /\ UNCHANGED <<env, alone, echoed>>
    BY <1>7, <2>1 DEF Seed, outcomes
  <2>4. req'[r] = q
    BY <2>3 DEF Goto, TypeOK
  <2>5. env = NoText /\ alone => Answers(r)'
    BY <1>b, <2>2, <2>3, <2>4 DEF Answers
  <2> QED
    BY <2>3, <2>5, EchoKept DEF EchoInv
<1>8. ASSUME NEW r \in Req, Seeded(r) PROVE EchoInv'
  <2>1. env = NoText /\ alone => req[r].purpose # "answer"
    BY <1>8, <1>b DEF Seeded, Answers
  <2> QED
    BY <1>8, <1>c, <2>1, EchoReturn DEF Seeded
<1>9. ASSUME NEW r \in Req, NEW v \in BOOLEAN, Update(r, v) PROVE EchoInv'
  <2>1. PICK q : q = [Idle EXCEPT !.pc = "get", !.purpose = "check",
                                  !.value = v]
    OBVIOUS
  <2>2. q.pc = "get" /\ q.purpose = "check"
    BY <2>1 DEF Idle
  <2>3. /\ req' = [req EXCEPT ![r] = q]
        /\ alone' => \A s \in Req : req[s].pc = "idle"
        /\ UNCHANGED <<env, echoed>>
    BY <1>9, <2>1 DEF Update, Goto, stores
  <2>4. /\ req'[r] = q
        /\ \A s \in Req \ {r} : req'[s] = req[s]
    BY <2>3 DEF TypeOK
  <2>5. ASSUME alone'
        PROVE  /\ \A s \in Req \ {r} : req'[s].pc = "idle"
               /\ \A s \in Req : Answers(s)'
    <3>1. \A s \in Req \ {r} : req'[s].pc = "idle"
      BY <2>3, <2>4, <2>5
    <3>2. ASSUME NEW s \in Req PROVE Answers(s)'
      BY <2>2, <2>4, <3>1 DEF Answers
    <3> QED
      BY <3>1, <3>2
  <2> QED
    BY <2>3, <2>5 DEF EchoInv
<1>10. ASSUME NEW r \in Req, Set(r) PROVE EchoInv'
  <2>1. PICK q : q = [req[r] EXCEPT !.pc = "setDone"]
    OBVIOUS
  <2>2. q.pc = "setDone" /\ q.value = req[r].value /\ q.value \in BOOLEAN
    BY <1>a, <2>1 DEF Request
  <2>3. /\ Goto(r, q) /\ req[r].pc = "set" /\ redisUp
        /\ redis' = Stored(req[r].value)
        /\ UNCHANGED <<env, redisUp, alone, echoed>>
    BY <1>10, <2>1 DEF Set, Write, outcomes
  <2>4. req'[r] = q
    BY <2>3 DEF Goto, TypeOK
  <2>5. Answers(r)'
    BY <2>2, <2>3, <2>4, HoldsWritten DEF Answers
  <2> QED
    BY <2>3, <2>5, EchoKept DEF EchoInv
<1>11. ASSUME NEW r \in Req, SetFails(r) PROVE EchoInv'
  <2>1. PICK q : q = [req[r] EXCEPT !.pc = "get", !.purpose = "answer"]
    OBVIOUS
  <2>2. q.pc = "get" /\ q.value = req[r].value
    BY <1>a, <2>1 DEF Request
  <2>3. /\ Goto(r, q) /\ req[r].pc = "set"
        /\ Fill(r, Cached(req[r].value))
        /\ UNCHANGED <<env, alone, echoed>>
    BY <1>11, <2>1 DEF SetFails, outcomes
  <2>4. req'[r] = q /\ l1'[Home[r]] = Cached(req[r].value)
    BY <1>a, <2>3 DEF Goto, Fill, TypeOK
  <2>5. Answers(r)'
    BY <2>2, <2>3, <2>4, ConstantsAssumption DEF Answers, Cached, Live
  <2> QED
    BY <2>3, <2>5, EchoKept DEF EchoInv
<1>12. ASSUME NEW r \in Req, SetDone(r) PROVE EchoInv'
  <2>1. PICK q : q = [req[r] EXCEPT !.pc = "get", !.purpose = "answer"]
    OBVIOUS
  <2>2. q.pc = "get" /\ q.value = req[r].value
    BY <1>a, <2>1 DEF Request
  <2>3. /\ Goto(r, q) /\ req[r].pc = "setDone"
        /\ Fill(r, Cold)
        /\ UNCHANGED <<env, redis, redisUp, alone, echoed>>
    BY <1>12, <2>1 DEF SetDone, history, outcomes
  <2>4. req'[r] = q /\ ~Live(l1'[Home[r]])
    BY <1>a, <2>3 DEF Goto, Fill, TypeOK, Cold, Live
  <2>5. env = NoText /\ alone => Answers(r)'
    BY <1>b, <2>2, <2>3, <2>4 DEF Answers, Holds, Live
  <2> QED
    BY <2>3, <2>5, EchoKept DEF EchoInv
<1>13. ASSUME NEW r \in Req, Read(r) \/ Boot(r) PROVE EchoInv'
  BY <1>13, EchoDisturbed DEF Read, Boot, Disturb, stores
<1>14. ASSUME NEW p \in Proc, Restart(p) PROVE EchoInv'
  BY <1>14, EchoDisturbed DEF Restart
<1>15. CASE RedisChanges
  BY <1>15, EchoDisturbed DEF RedisChanges
<1>16. CASE Tick
  <2>1. /\ \A r \in Req : req'[r].pc = "idle"
        /\ UNCHANGED <<env, alone, echoed>>
    BY <1>16 DEF Tick, outcomes
  <2> QED
    BY <2>1 DEF EchoInv, Answers
<1>17. CASE UNCHANGED vars
  BY <1>17 DEF EchoInv, Answers, Holds, vars, stores, history, outcomes
<1> QED
  BY <1>1, <1>2, <1>3, <1>4, <1>5, <1>6, <1>7, <1>8, <1>9, <1>10, <1>11,
     <1>12, <1>13, <1>14, <1>15, <1>16, <1>17 DEF Next

\* An update that nothing interferes with, whether Redis is up or down, answers
\* the value it set unless the environment overrides it: neither the entry it
\* found in L1 nor the default that a miss seeds comes back.
THEOREM UpdateAnswers == Spec => []AnswerIsNew
<1>1. Init => EchoInv
  BY DEF Init, EchoInv
<1>2. EchoInv => AnswerIsNew
  BY DEF EchoInv, AnswerIsNew
<1> QED
  BY <1>1, <1>2, EchoStep, TypeInit, TypeStep, PTL DEF Spec
====
