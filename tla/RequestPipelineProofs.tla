----------------------- MODULE RequestPipelineProofs -----------------------
(***************************************************************************)
(* Proofs about RequestPipeline, for every set of requests, clients, users *)
(* and endpoints and every value of the other constants.                   *)
(***************************************************************************)
EXTENDS RequestPipeline, FiniteSetTheorems, TLAPS

Thrown == Failures \cup GuardFailures \cup {NoError}

LEMMA ThrownTyped ==
    /\ TooManyRequests \in Thrown /\ ValidationFailed \in Thrown
    /\ OtherError \in Thrown /\ Domain("INVALID_TOKEN") \in Thrown
    /\ Domain("FORBIDDEN") \in Thrown /\ NoError \in Thrown
    /\ Failures \subseteq Thrown
    /\ \A error \in Thrown : StatusOf(error) \in ErrorStatus
<1>1. \A kind : statusCode(kind) \in ErrorStatus
  BY DEF statusCode, ErrorStatus
<1>2. ASSUME NEW error \in Thrown, error.type = "http"
      PROVE  error.status \in ErrorStatus
  <2>1. /\ NoError.type = "none" /\ OtherError.type = "other"
        /\ TooManyRequests.status = 429 /\ ValidationFailed.status = 400
        /\ Domain("INVALID_TOKEN").type = "domain"
        /\ Domain("FORBIDDEN").type = "domain"
    BY DEF NoError, TooManyRequests, ValidationFailed, OtherError, Domain, Http
  <2> QED BY <1>2, <2>1, PipelineAssumption DEF Thrown, GuardFailures, ErrorStatus
<1>3. ASSUME NEW error \in Thrown PROVE StatusOf(error) \in ErrorStatus
  <2>1. CASE error.type = "http"
    BY <1>2, <2>1 DEF StatusOf
  <2>2. CASE error.type # "http"
    <3>1. StatusOf(error) \in {statusCode(error.kind), 400, 500}
      BY <2>2 DEF StatusOf
    <3>2. statusCode(error.kind) \in ErrorStatus
      BY <1>1
    <3> QED BY <3>1, <3>2 DEF ErrorStatus
  <2> QED BY <2>1, <2>2
<1> QED BY <1>3 DEF Thrown, GuardFailures

(***************************************************************************)
(* What is known of a request from where it stands: the guards it passed   *)
(* judged one account, the one request.user has; interceptors come after   *)
(* the guards and the effect after the interceptors.                       *)
(***************************************************************************)
Allowed(q, a) ==
    PermissionsPass(q.route, a.permissions) /\ RolesPass(q.route, a.role)

Guarded(q) == "jwt" \in q.route.guards

Sound(q, lvl, acc) ==
    /\ q.pc # "new" => q.route \in Served /\ q.url \in Urls
    /\ q.pc \in {"new", "throttle", "jwt"} => q.who = Nobody /\ q.seen = {}
    /\ q.pc \in {"permission", "roles", "intercept", "handle"} \/ q.entered =>
         q.who = IF Guarded(q) THEN q.bearer ELSE Nobody
    /\ q.pc \in {"permission", "roles", "intercept", "handle"} /\ Guarded(q) =>
         q.seen # {}
    /\ q.seen \subseteq q.held
    /\ q.pc \in {"roles", "intercept", "handle"} =>
         \A a \in q.seen : PermissionsPass(q.route, a.permissions)
    /\ q.pc \in {"intercept", "handle"} =>
         \A a \in q.seen : RolesPass(q.route, a.role)
    /\ q.pc \in Stages /\ q.acted /\ Guarded(q) => \E a \in q.held : Allowed(q, a)
    /\ q.pc \in {"new", "throttle", "jwt", "permission", "roles", "intercept"} =>
         ~q.entered
    /\ q.pc = "handle" => q.entered
    /\ q.pc = "tap" => q.acted
    /\ q.acted => q.entered /\ q.pc \in {"tap", "filter", "send", "done", "dropped"}
    /\ q.entered => (q.watched <=> shouldAudit(q.route.method, q.url, lvl))
    /\ ~q.entered => ~q.watched
    /\ q.pc = "send" => q.status # 0
    /\ q.pc \in Stages /\ q.bearer # Nobody => acc[q.bearer] \in q.held

AllSound == \A i \in Id : Sound(req[i], level, account)

Core == TypeOK /\ AllSound

\* A step of one request's own: where the request goes, and what it keeps.
Moves(i) ==
    \E q \in Request :
        /\ Sound(q, level, account)
        /\ req[i].pc \in Stages
        /\ q.route = req[i].route /\ q.url = req[i].url
        /\ q.client = req[i].client
        /\ q.age = req[i].age \/ (req[i].pc = "throttle" /\ q.age = 0)
        /\ req[i].pc # "send" => q.pc \in Stages
        /\ q.pc = "send" => req[i].pc = "tap" \/ q.status # 200
        /\ req[i].pc \in {"tap", "send"} =>
             q.who = req[i].who /\ q.acted = req[i].acted
             /\ q.entered = req[i].entered
        /\ req' = [req EXCEPT ![i] = q]

LEMMA StagesKnown ==
    /\ "new" \notin Stages /\ "done" \notin Stages /\ "dropped" \notin Stages
    /\ \A s \in {"throttle", "jwt", "permission", "roles", "intercept",
                 "handle", "tap", "filter", "send"} : s \in Stages
BY DEF Stages

LEMMA FreshOK ==
    /\ Fresh \in Request
    /\ ~Fresh.acted /\ ~Fresh.entered /\ ~Fresh.watched
    /\ Fresh.pc = "new" /\ Fresh.status = 0 /\ Fresh.age = Window /\ Fresh.who = Nobody
    /\ Fresh.seen = {} /\ Fresh.held = {}
<1>1. (CHOOSE c \in Client : TRUE) \in Client
  BY PipelineAssumption
<1> QED BY <1>1, PipelineAssumption DEF Fresh, Request, NoError, NoRoute

(***************************************************************************)
(* Each step of a request                                                  *)
(***************************************************************************)
LEMMA ThrowMoves ==
    ASSUME Core, NEW i \in Id, NEW error \in Thrown, Throw(i, error),
           req[i].pc \in {"throttle", "jwt", "permission", "roles", "handle"}
    PROVE  Moves(i)
<1> DEFINE q == req[i]
           r == [q EXCEPT !.pc = "filter", !.thrown = error]
<1>1. q \in Request /\ Sound(q, level, account)
  BY DEF Core, TypeOK, AllSound
<1>2. r \in Request
  BY <1>1, StagesKnown DEF Request, Thrown
<1>3. /\ r.pc = "filter" /\ r.route = q.route /\ r.url = q.url
      /\ r.client = q.client
      /\ r.bearer = q.bearer /\ r.who = q.who /\ r.seen = q.seen
      /\ r.held = q.held /\ r.age = q.age /\ r.acted = q.acted
      /\ r.entered = q.entered /\ r.watched = q.watched
  BY <1>1 DEF Request
<1>4. req' = [req EXCEPT ![i] = r]
  BY DEF Throw, Set
<1> HIDE DEF r
<1>5. Sound(r, level, account)
  BY <1>1, <1>3, StagesKnown DEF Sound, Guarded, Allowed
<1> QED BY <1>1, <1>2, <1>3, <1>4, <1>5, StagesKnown DEF Moves, Sound

LEMMA ThrottleMoves ==
    ASSUME Core, NEW i \in Id, Throttle(i) PROVE Moves(i)
<1> DEFINE q == req[i]
           r == [q EXCEPT !.pc = "jwt", !.age = 0]
<1>1. q \in Request /\ Sound(q, level, account) /\ q.pc = "throttle"
  BY DEF Core, TypeOK, AllSound, Throttle
<1>2. CASE Throw(i, TooManyRequests)
  BY <1>1, <1>2, ThrowMoves, ThrownTyped
<1>3. CASE Set(i, r)
  <2>0. "jwt" \in Stages /\ 0 \in 0..Window
    BY StagesKnown, PipelineAssumption
  <2>1. r \in Request
    BY <1>1, <2>0 DEF Request
  <2>2. /\ r.pc = "jwt" /\ r.route = q.route /\ r.url = q.url
        /\ r.client = q.client
        /\ r.bearer = q.bearer /\ r.who = q.who /\ r.seen = q.seen
        /\ r.held = q.held /\ r.age = 0 /\ r.acted = q.acted
        /\ r.entered = q.entered /\ r.watched = q.watched
    BY <1>1 DEF Request
  <2>3. req' = [req EXCEPT ![i] = r]
    BY <1>3 DEF Set
  <2> HIDE DEF r
  <2>4. Sound(r, level, account)
    BY <1>1, <2>2, StagesKnown DEF Sound, Guarded, Allowed
  <2> QED BY <1>1, <2>1, <2>2, <2>3, <2>4, StagesKnown DEF Moves, Sound
<1> QED BY <1>2, <1>3 DEF Throttle

LEMMA AuthenticateMoves ==
    ASSUME Core, NEW i \in Id, Authenticate(i) PROVE Moves(i)
<1> DEFINE q == req[i]
<1>1. q \in Request /\ Sound(q, level, account) /\ q.pc = "jwt"
  BY DEF Core, TypeOK, AllSound, Authenticate
<1>2. CASE ~Guarded(q) /\ Go(i, "permission")
  <2> DEFINE r == [q EXCEPT !.pc = "permission"]
  <2>1. r \in Request
    BY <1>1, <1>2, StagesKnown DEF Request
  <2>2. /\ r.pc = "permission" /\ r.route = q.route /\ r.url = q.url
        /\ r.client = q.client
        /\ r.bearer = q.bearer /\ r.who = q.who /\ r.seen = q.seen
        /\ r.held = q.held /\ r.age = q.age /\ r.acted = q.acted
        /\ r.entered = q.entered /\ r.watched = q.watched
    BY <1>1, <1>2 DEF Request
  <2>3. req' = [req EXCEPT ![i] = r]
    BY <1>1, <1>2 DEF Set, Go
  <2> HIDE DEF r
  <2>4. Sound(r, level, account)
    BY <1>1, <1>2, <2>2, StagesKnown DEF Sound, Guarded, Allowed
  <2> QED BY <1>1, <1>2, <2>1, <2>2, <2>3, <2>4, StagesKnown DEF Moves, Sound
<1>3. CASE Throw(i, Domain("INVALID_TOKEN")) \/ Throw(i, OtherError)
  BY <1>1, <1>3, ThrowMoves, ThrownTyped
<1>4. CASE /\ Guarded(q) /\ q.bearer # Nobody
           /\ Set(i, [q EXCEPT !.pc = "permission", !.who = q.bearer,
                              !.seen = {account[q.bearer]}])
  <2> DEFINE r == [q EXCEPT !.pc = "permission", !.who = q.bearer,
                     !.seen = {account[q.bearer]}]
  <2>0. account[q.bearer] \in Accounts
    BY <1>1, <1>4 DEF Core, TypeOK, Request
  <2>1. r \in Request
    BY <1>1, <1>4, <2>0, StagesKnown DEF Request
  <2>2. /\ r.pc = "permission" /\ r.route = q.route /\ r.url = q.url
        /\ r.client = q.client
        /\ r.bearer = q.bearer /\ r.who = q.bearer /\ r.seen = {account[q.bearer]}
        /\ r.held = q.held /\ r.age = q.age /\ r.acted = q.acted
        /\ r.entered = q.entered /\ r.watched = q.watched
    BY <1>1, <1>4 DEF Request
  <2>3. req' = [req EXCEPT ![i] = r]
    BY <1>1, <1>4 DEF Set, Go
  <2> HIDE DEF r
  <2>4. Sound(r, level, account)
    BY <1>1, <1>4, <2>2, StagesKnown DEF Sound, Guarded, Allowed
  <2> QED BY <1>1, <1>4, <2>1, <2>2, <2>3, <2>4, StagesKnown DEF Moves, Sound
<1> QED BY <1>1, <1>2, <1>3, <1>4 DEF Authenticate, Guarded

LEMMA PermissionsMove ==
    ASSUME Core, NEW i \in Id, CheckPermissions(i) PROVE Moves(i)
<1> DEFINE q == req[i]
<1>1. q \in Request /\ Sound(q, level, account) /\ q.pc = "permission"
  BY DEF Core, TypeOK, AllSound, CheckPermissions
<1>2. CASE (\A a \in q.seen : PermissionsPass(q.route, a.permissions)) /\ Go(i, "roles")
  <2> DEFINE r == [q EXCEPT !.pc = "roles"]
  <2>1. r \in Request
    BY <1>1, <1>2, StagesKnown DEF Request
  <2>2. /\ r.pc = "roles" /\ r.route = q.route /\ r.url = q.url
        /\ r.client = q.client
        /\ r.bearer = q.bearer /\ r.who = q.who /\ r.seen = q.seen
        /\ r.held = q.held /\ r.age = q.age /\ r.acted = q.acted
        /\ r.entered = q.entered /\ r.watched = q.watched
    BY <1>1, <1>2 DEF Request
  <2>3. req' = [req EXCEPT ![i] = r]
    BY <1>1, <1>2 DEF Set, Go
  <2> HIDE DEF r
  <2>4. Sound(r, level, account)
    BY <1>1, <1>2, <2>2, StagesKnown DEF Sound, Guarded, Allowed
  <2> QED BY <1>1, <1>2, <2>1, <2>2, <2>3, <2>4, StagesKnown DEF Moves, Sound
<1>3. CASE Throw(i, Domain("FORBIDDEN"))
  BY <1>1, <1>3, ThrowMoves, ThrownTyped
<1> QED BY <1>2, <1>3 DEF CheckPermissions

LEMMA RolesMove ==
    ASSUME Core, NEW i \in Id, CheckRoles(i) PROVE Moves(i)
<1> DEFINE q == req[i]
<1>1. q \in Request /\ Sound(q, level, account) /\ q.pc = "roles"
  BY DEF Core, TypeOK, AllSound, CheckRoles
<1>2. CASE (\A a \in q.seen : RolesPass(q.route, a.role)) /\ Go(i, "intercept")
  <2> DEFINE r == [q EXCEPT !.pc = "intercept"]
  <2>1. r \in Request
    BY <1>1, <1>2, StagesKnown DEF Request
  <2>2. /\ r.pc = "intercept" /\ r.route = q.route /\ r.url = q.url
        /\ r.client = q.client
        /\ r.bearer = q.bearer /\ r.who = q.who /\ r.seen = q.seen
        /\ r.held = q.held /\ r.age = q.age /\ r.acted = q.acted
        /\ r.entered = q.entered /\ r.watched = q.watched
    BY <1>1, <1>2 DEF Request
  <2>3. req' = [req EXCEPT ![i] = r]
    BY <1>1, <1>2 DEF Set, Go
  <2> HIDE DEF r
  <2>4. Sound(r, level, account)
    BY <1>1, <1>2, <2>2, StagesKnown DEF Sound, Guarded, Allowed
  <2> QED BY <1>1, <1>2, <2>1, <2>2, <2>3, <2>4, StagesKnown DEF Moves, Sound
<1>3. CASE Throw(i, Domain("FORBIDDEN"))
  BY <1>1, <1>3, ThrowMoves, ThrownTyped
<1> QED BY <1>2, <1>3 DEF CheckRoles

LEMMA AuditDecision ==
    \A method, url, lvl : shouldAudit(method, url, lvl) \in BOOLEAN
BY DEF shouldAudit

LEMMA InterceptMoves ==
    ASSUME Core, NEW i \in Id, Intercept(i) PROVE Moves(i)
<1> DEFINE q == req[i]
           w == shouldAudit(q.route.method, q.url, level)
           r == [q EXCEPT !.pc = "handle", !.entered = TRUE, !.watched = w]
<1>0. /\ q \in Request /\ Sound(q, level, account) /\ q.pc = "intercept"
      /\ req' = [req EXCEPT ![i] = r]
  BY DEF Core, TypeOK, AllSound, Intercept, Set
<1>5. w \in BOOLEAN
  BY AuditDecision
<1>6. w = shouldAudit(q.route.method, q.url, level)
  OBVIOUS
<1> HIDE DEF w
<1>1. r \in Request
  BY <1>0, <1>5, StagesKnown DEF Request
<1>2. /\ r.pc = "handle" /\ r.route = q.route /\ r.url = q.url
      /\ r.client = q.client
      /\ r.bearer = q.bearer /\ r.who = q.who /\ r.seen = q.seen
      /\ r.held = q.held /\ r.age = q.age /\ r.acted = q.acted
      /\ r.entered = TRUE /\ r.watched = w
  BY <1>0 DEF Request
<1>3. req' = [req EXCEPT ![i] = r]
  BY <1>0 DEF Set, Go
<1> HIDE DEF r
<1>7. r.watched <=> shouldAudit(r.route.method, r.url, level)
  BY <1>2, <1>6
<1>4. Sound(r, level, account)
  BY <1>0, <1>2, <1>7, StagesKnown DEF Sound, Guarded, Allowed
<1> QED BY <1>0, <1>1, <1>2, <1>3, <1>4, StagesKnown DEF Moves, Sound

\* An account the guards judged is one the bearer had.
LEMMA GuardsJudged ==
    ASSUME NEW q \in Request, NEW lvl, NEW acc, Sound(q, lvl, acc),
           q.pc = "handle", Guarded(q)
    PROVE  \E a \in q.held : Allowed(q, a)
<1>1. PICK a \in q.seen : TRUE
  BY DEF Sound
<1>2. a \in q.held
  BY <1>1 DEF Sound
<1>3. Allowed(q, a)
  BY <1>1 DEF Sound, Allowed
<1> QED BY <1>2, <1>3

LEMMA HandleMoves ==
    ASSUME Core, NEW i \in Id, Handle(i) PROVE Moves(i)
<1> DEFINE q == req[i]
<1>1. q \in Request /\ Sound(q, level, account) /\ q.pc = "handle"
  BY DEF Core, TypeOK, AllSound, Handle
<1>2. CASE Set(i, [q EXCEPT !.pc = "tap", !.acted = TRUE])
  <2> DEFINE r == [q EXCEPT !.pc = "tap", !.acted = TRUE]
  <2>1. r \in Request
    BY <1>1, <1>2, StagesKnown DEF Request
  <2>2. /\ r.pc = "tap" /\ r.route = q.route /\ r.url = q.url
        /\ r.client = q.client
        /\ r.bearer = q.bearer /\ r.who = q.who /\ r.seen = q.seen
        /\ r.held = q.held /\ r.age = q.age /\ r.acted = TRUE
        /\ r.entered = q.entered /\ r.watched = q.watched
    BY <1>1, <1>2 DEF Request
  <2>3. req' = [req EXCEPT ![i] = r]
    BY <1>1, <1>2 DEF Set, Go
  <2> HIDE DEF r
  <2>5. Guarded(r) => \E a \in r.held : Allowed(r, a)
    BY <1>1, <1>2, <2>2, GuardsJudged DEF Guarded, Allowed
  <2>4. Sound(r, level, account)
    BY <1>1, <1>2, <2>2, <2>5, StagesKnown DEF Sound, Guarded, Allowed
  <2> QED BY <1>1, <1>2, <2>1, <2>2, <2>3, <2>4, StagesKnown DEF Moves, Sound
<1>3. CASE \E error \in Failures \cup {ValidationFailed} : Throw(i, error)
  BY <1>1, <1>3, ThrowMoves, ThrownTyped
<1>4. ASSUME NEW error \in Failures,
             Set(i, [q EXCEPT !.pc = "filter", !.thrown = error, !.acted = TRUE])
      PROVE  Moves(i)
  <2> DEFINE r == [q EXCEPT !.pc = "filter", !.thrown = error, !.acted = TRUE]
  <2>1. r \in Request
    BY <1>1, <1>4, StagesKnown, ThrownTyped DEF Request, Thrown
  <2>2. /\ r.pc = "filter" /\ r.route = q.route /\ r.url = q.url
        /\ r.client = q.client
        /\ r.bearer = q.bearer /\ r.who = q.who /\ r.seen = q.seen
        /\ r.held = q.held /\ r.age = q.age /\ r.acted = TRUE
        /\ r.entered = q.entered /\ r.watched = q.watched
    BY <1>1, <1>4 DEF Request
  <2>3. req' = [req EXCEPT ![i] = r]
    BY <1>4 DEF Set
  <2> HIDE DEF r
  <2>5. Guarded(r) => \E a \in r.held : Allowed(r, a)
    BY <1>1, <2>2, GuardsJudged DEF Guarded, Allowed
  <2>4. Sound(r, level, account)
    BY <1>1, <2>2, <2>5, StagesKnown DEF Sound, Guarded, Allowed
  <2> QED BY <1>1, <2>1, <2>2, <2>3, <2>4, StagesKnown DEF Moves, Sound
<1> QED BY <1>2, <1>3, <1>4 DEF Handle

LEMMA TapMoves ==
    ASSUME Core, NEW i \in Id, Tap(i) PROVE Moves(i)
<1> DEFINE q == req[i]
<1>1. q \in Request /\ Sound(q, level, account) /\ q.pc = "tap"
  BY DEF Core, TypeOK, AllSound, Tap
<1>0. PICK n \in {0} \cup HttpStatus : n = 200
  BY DEF HttpStatus
<1>4. n \in {0} \cup HttpStatus
  BY <1>0
<1> DEFINE r == [q EXCEPT !.pc = "send", !.status = n]
<1>5. r \in Request
  BY <1>1, <1>4, StagesKnown DEF Request
<1>6. /\ r.pc = "send" /\ r.route = q.route /\ r.url = q.url
      /\ r.client = q.client
      /\ r.bearer = q.bearer /\ r.who = q.who /\ r.seen = q.seen
      /\ r.held = q.held /\ r.age = q.age /\ r.acted = q.acted
      /\ r.entered = q.entered /\ r.watched = q.watched
      /\ r.status # 0
  BY <1>0, <1>1 DEF Request
<1>7. req' = [req EXCEPT ![i] = r]
  BY <1>0 DEF Set, Tap
<1> HIDE DEF r
<1>8. Sound(r, level, account)
  BY <1>1, <1>6, StagesKnown DEF Sound, Guarded, Allowed
<1> QED BY <1>1, <1>5, <1>6, <1>7, <1>8, StagesKnown DEF Moves, Sound

LEMMA FilterMoves ==
    ASSUME Core, NEW i \in Id, Filter(i) PROVE Moves(i)
<1> DEFINE q == req[i]
<1>1. q \in Request /\ Sound(q, level, account) /\ q.pc = "filter"
  BY DEF Core, TypeOK, AllSound, Filter
<1>0. StatusOf(q.thrown) \in ErrorStatus
  BY <1>1, ThrownTyped DEF Request, Thrown
<1>2. PICK n \in ErrorStatus : n = StatusOf(q.thrown)
  BY <1>0
<1>4. n \in {0} \cup HttpStatus
  BY <1>2 DEF HttpStatus
<1> DEFINE r == [q EXCEPT !.pc = "send", !.status = n]
<1>5. r \in Request
  BY <1>1, <1>4, StagesKnown DEF Request
<1>6. /\ r.pc = "send" /\ r.route = q.route /\ r.url = q.url
      /\ r.client = q.client
      /\ r.bearer = q.bearer /\ r.who = q.who /\ r.seen = q.seen
      /\ r.held = q.held /\ r.age = q.age /\ r.acted = q.acted
      /\ r.entered = q.entered /\ r.watched = q.watched
      /\ r.status # 0 /\ r.status # 200
  BY <1>1, <1>2 DEF Request, ErrorStatus
<1>7. req' = [req EXCEPT ![i] = r]
  BY <1>2 DEF Set, Filter
<1> HIDE DEF r
<1>8. Sound(r, level, account)
  BY <1>1, <1>6, StagesKnown DEF Sound, Guarded, Allowed
<1> QED BY <1>1, <1>5, <1>6, <1>7, <1>8, StagesKnown DEF Moves, Sound

LEMMA SendMoves ==
    ASSUME Core, NEW i \in Id, Send(i) PROVE Moves(i)
<1> DEFINE q == req[i]
<1>1. q \in Request /\ Sound(q, level, account) /\ q.pc = "send"
  BY DEF Core, TypeOK, AllSound, Send
<1>2. CASE Set(i, Finished(q, "done"))
  <2> DEFINE r == Finished(q, "done")
  <2>1. r \in Request
    BY <1>1, <1>2, ThrownTyped DEF Request, Finished, Thrown
  <2>2. /\ r.pc = "done" /\ r.route = q.route /\ r.url = q.url
        /\ r.client = q.client
        /\ r.bearer = q.bearer /\ r.who = q.who /\ r.seen = {}
        /\ r.held = {} /\ r.age = q.age /\ r.acted = q.acted
        /\ r.entered = q.entered /\ r.watched = q.watched
    BY <1>1, <1>2 DEF Request, Finished
  <2>3. req' = [req EXCEPT ![i] = r]
    BY <1>1, <1>2 DEF Set, Go
  <2> HIDE DEF r
  <2>4. Sound(r, level, account)
    BY <1>1, <1>2, <2>2, StagesKnown DEF Sound, Guarded, Allowed
  <2> QED BY <1>1, <1>2, <2>1, <2>2, <2>3, <2>4, StagesKnown DEF Moves, Sound
<1>3. CASE Set(i, [Finished(q, "done") EXCEPT !.gone = TRUE])
  <2> DEFINE r == [Finished(q, "done") EXCEPT !.gone = TRUE]
  <2>1. r \in Request
    BY <1>1, <1>3, ThrownTyped DEF Request, Finished, Thrown
  <2>2. /\ r.pc = "done" /\ r.route = q.route /\ r.url = q.url
        /\ r.client = q.client
        /\ r.bearer = q.bearer /\ r.who = q.who /\ r.seen = {}
        /\ r.held = {} /\ r.age = q.age /\ r.acted = q.acted
        /\ r.entered = q.entered /\ r.watched = q.watched
    BY <1>1, <1>3 DEF Request, Finished
  <2>3. req' = [req EXCEPT ![i] = r]
    BY <1>1, <1>3 DEF Set, Go
  <2> HIDE DEF r
  <2>4. Sound(r, level, account)
    BY <1>1, <1>3, <2>2, StagesKnown DEF Sound, Guarded, Allowed
  <2> QED BY <1>1, <1>3, <2>1, <2>2, <2>3, <2>4, StagesKnown DEF Moves, Sound
<1> QED BY <1>2, <1>3 DEF Send

LEMMA ServeMoves ==
    ASSUME Core, NEW i \in Id, Serve(i) PROVE Moves(i)
BY ThrottleMoves, AuthenticateMoves, PermissionsMove, RolesMove, InterceptMoves,
   HandleMoves, TapMoves, FilterMoves, SendMoves DEF Serve

(***************************************************************************)
(* What a step of a request does to the rest                               *)
(***************************************************************************)
\* The entry of a request, of a kind.
Told(i, q, kind) ==
    [id |-> i, kind |-> kind, user |-> q.who,
     status |-> IF kind = "http" THEN q.status ELSE 0,
     subject |-> IF kind = "http" THEN "none" ELSE q.route.audit]

LEMMA EmitOne ==
    ASSUME NEW i \in Id, NEW kind \in {"http", "business"}, NEW status, NEW subject,
           Emit(i, kind, status, subject)
    PROVE  events' = events \cup
             {[id |-> i, kind |-> kind, user |-> req[i].who, status |-> status,
               subject |-> subject]}
BY DEF Emit

LEMMA ToldTyped ==
    ASSUME NEW i \in Id, NEW q \in Request, q.route \in Served,
           NEW kind \in {"http", "business"},
           kind = "http" => q.status # 0,
           kind = "business" => q.route.audit # NoAction
    PROVE  Told(i, q, kind) \in Entry
<1>1. q.who \in User \cup {Nobody} /\ q.status \in {0} \cup HttpStatus
  BY DEF Request
<1>2. CASE kind = "http"
  BY <1>1, <1>2 DEF Told, Entry, HttpEntry
<1>3. CASE kind = "business"
  BY <1>1, <1>3 DEF Told, Entry, BusinessEntry
<1> QED BY <1>2, <1>3

\* Of the trail, only Tap and Send touch anything, and they add an entry.
Silent(i) == req[i].pc \notin {"tap", "send"} /\ UNCHANGED trail

Taps(i) ==
    /\ req[i].pc = "tap" /\ req'[i].pc = "send" /\ req'[i].status = 200
    /\ UNCHANGED <<log, lost>>
    /\ IF isAction(req[i].route, level)
       THEN events' = events \cup {Told(i, req[i], "business")}
       ELSE UNCHANGED events

Sends(i) ==
    /\ req[i].pc = "send" /\ req'[i].pc = "done"
    /\ req'[i].status = req[i].status
    /\ UNCHANGED <<log, lost>>
    /\ \/ /\ req[i].watched
          /\ events' = events \cup {Told(i, req[i], "http")}
       \/ /\ req[i].watched => req'[i].gone
          /\ UNCHANGED events

LEMMA TapTells ==
    ASSUME Core, NEW i \in Id, Tap(i) PROVE Taps(i)
<1> DEFINE q == req[i]
<1>1. q \in Request /\ q.pc = "tap" /\ req \in [Id -> Request]
  BY DEF Core, TypeOK, Tap
<1>2. req'[i].pc = "send" /\ req'[i].status = 200
  BY <1>1 DEF Tap, Set, Request
<1>3. CASE isAction(q.route, level)
  <2>1. Emit(i, "business", 0, q.route.audit)
    BY <1>3 DEF Tap
  <2> QED BY <1>1, <1>2, <1>3, <2>1, EmitOne DEF Taps, Told, Tap
<1>4. CASE ~isAction(q.route, level)
  BY <1>1, <1>2, <1>4 DEF Taps, Tap
<1> QED BY <1>3, <1>4

LEMMA SendTells ==
    ASSUME Core, NEW i \in Id, Send(i) PROVE Sends(i)
<1> DEFINE q == req[i]
<1>1. q \in Request /\ q.pc = "send" /\ req \in [Id -> Request]
  BY DEF Core, TypeOK, Send
<1>2. CASE /\ Set(i, Finished(q, "done"))
           /\ IF q.watched THEN Emit(i, "http", q.status, "none")
                           ELSE UNCHANGED events
  <2>1. req'[i].pc = "done" /\ req'[i].status = q.status
    BY <1>1, <1>2 DEF Set, Finished, Request
  <2>2. CASE q.watched
    <3>1. Emit(i, "http", q.status, "none")
      BY <1>2, <2>2
    <3> QED BY <1>1, <2>1, <2>2, <3>1, EmitOne DEF Sends, Told, Send
  <2>3. CASE ~q.watched
    BY <1>1, <1>2, <2>1, <2>3 DEF Sends, Send
  <2> QED BY <2>2, <2>3
<1>3. CASE /\ Set(i, [Finished(q, "done") EXCEPT !.gone = TRUE])
           /\ UNCHANGED events
  <2>1. /\ req'[i].pc = "done" /\ req'[i].status = q.status
        /\ req'[i].gone
    BY <1>1, <1>3 DEF Set, Finished, Request
  <2> QED BY <1>1, <1>3, <2>1 DEF Sends, Send
<1> QED BY <1>2, <1>3 DEF Send

LEMMA ServeTells ==
    ASSUME Core, NEW i \in Id, Serve(i)
    PROVE  /\ Silent(i) \/ Taps(i) \/ Sends(i)
           /\ UNCHANGED <<level, conf, account>>
           /\ \A j \in Id : hits'[j] >= hits[j]
           /\ hits' \in [Id -> 0..Ttl]
<1>1. CASE Tap(i)
  <2>1. UNCHANGED <<level, conf, account, hits>>
    BY <1>1 DEF Tap, settings
  <2>2. hits \in [Id -> 0..Ttl] /\ \A j \in Id : hits[j] >= hits[j]
    BY PipelineAssumption DEF Core, TypeOK
  <2> QED BY <1>1, <2>1, <2>2, TapTells
<1>2. CASE Send(i)
  <2>1. UNCHANGED <<level, conf, account, hits>>
    BY <1>2 DEF Send, settings
  <2>2. hits \in [Id -> 0..Ttl] /\ \A j \in Id : hits[j] >= hits[j]
    BY PipelineAssumption DEF Core, TypeOK
  <2> QED BY <1>2, <2>1, <2>2, SendTells
<1>3. CASE Throttle(i)
  <2>1. Silent(i) /\ UNCHANGED <<level, conf, account>>
    BY <1>3 DEF Throttle, Silent, settings
  <2>2. /\ hits' = [hits EXCEPT ![i] = Ttl] /\ Ttl \in 0..Ttl
        /\ hits \in [Id -> 0..Ttl]
    BY <1>3, PipelineAssumption DEF Throttle, Core, TypeOK
  <2> QED BY <2>1, <2>2, PipelineAssumption
<1>4. CASE \/ Authenticate(i) \/ CheckPermissions(i) \/ CheckRoles(i)
           \/ Intercept(i) \/ Handle(i) \/ Filter(i)
  <2>1. Silent(i) /\ UNCHANGED <<level, conf, account, hits>>
    BY <1>4 DEF Authenticate, CheckPermissions, CheckRoles, Intercept, Handle,
                Filter, Silent, settings
  <2> QED BY <2>1, PipelineAssumption DEF Core, TypeOK
<1> QED BY <1>1, <1>2, <1>3, <1>4 DEF Serve

(***************************************************************************)
(* Types and guards                                                        *)
(***************************************************************************)
LEMMA ServeKeepsCore ==
    ASSUME Core, NEW i \in Id, Serve(i) PROVE Core'
<1>1. PICK q \in Request :
        /\ Sound(q, level, account) /\ req[i].pc \in Stages
        /\ req' = [req EXCEPT ![i] = q]
  BY ServeMoves DEF Moves
<1>2. UNCHANGED <<level, conf, account>> /\ hits' \in [Id -> 0..Ttl]
  BY ServeTells
<1>3. req[i] \in Request /\ req[i].route \in Served
  BY <1>1, StagesKnown DEF Core, TypeOK, AllSound, Sound
<1>4. events' \subseteq Entry /\ UNCHANGED <<log, lost>>
  <2>1. /\ isAction(req[i].route, level) => Told(i, req[i], "business") \in Entry
        /\ req[i].pc = "send" => Told(i, req[i], "http") \in Entry
    BY <1>3, ToldTyped DEF isAction, Core, AllSound, Sound
  <2>2. events \subseteq Entry
    BY DEF Core, TypeOK
  <2> QED BY <2>1, <2>2, ServeTells DEF Silent, Taps, Sends, trail
<1>5. TypeOK'
  BY <1>1, <1>2, <1>4 DEF Core, TypeOK
<1>6. AllSound'
  BY <1>1, <1>2 DEF Core, TypeOK, AllSound
<1> QED BY <1>5, <1>6 DEF Core

LEMMA ArriveKeepsCore ==
    ASSUME Core, NEW i \in Id, NEW route \in Served, NEW query \in Queries,
           NEW client \in Client, NEW bearer \in User \cup {Nobody},
           Arrive(i, route, query, client, bearer)
    PROVE  /\ Core'
           /\ req[i].pc = "new"
           /\ \E q \in Request : /\ q.pc = "throttle" /\ q.age = Window
                                 /\ ~q.entered /\ ~q.acted /\ q.status = 0
                                 /\ req' = [req EXCEPT ![i] = q]
<1> DEFINE held == IF bearer = Nobody THEN {} ELSE {account[bearer]}
           url == Url(route, query)
           q == [Fresh EXCEPT !.pc = "throttle", !.route = route, !.url = url,
                              !.client = client, !.bearer = bearer, !.held = held]
<1>1. held \subseteq Accounts
  BY DEF Core, TypeOK
<1>2. bearer # Nobody => account[bearer] \in held
  OBVIOUS
<1>3. req' = [req EXCEPT ![i] = q] /\ req[i].pc = "new"
      /\ UNCHANGED <<level, conf, account, hits, events, log, lost>>
  BY DEF Arrive, Set, settings, trail
<1>9. url \in Urls
  BY DEF Urls
<1> HIDE DEF held, url
<1>4. q \in Request
  <2> DEFINE g == [Fresh EXCEPT !.pc = "throttle"]
             f == [g EXCEPT !.route = route, !.url = url]
  <2>4. g \in Request
    BY FreshOK, StagesKnown DEF Request
  <2> HIDE DEF g
  <2>1. f \in Request
    BY <1>9, <2>4 DEF Request
  <2> USE DEF g
  <2>2. q = [f EXCEPT !.client = client, !.bearer = bearer, !.held = held]
    BY FreshOK DEF Request
  <2> HIDE DEF f, q
  <2>3. [f EXCEPT !.client = client, !.bearer = bearer, !.held = held] \in Request
    BY <1>1, <2>1 DEF Request
  <2> QED BY <2>2, <2>3
<1>5. /\ q.pc = "throttle" /\ q.route = route /\ q.url = url
      /\ q.bearer = bearer /\ q.status = 0 /\ q.who = Nobody
      /\ q.seen = {} /\ q.held = held /\ q.age = Window
      /\ ~q.acted /\ ~q.entered /\ ~q.watched
  BY FreshOK DEF Request
<1> HIDE DEF q
<1>6. Sound(q, level, account)
  BY <1>2, <1>5, <1>9, StagesKnown DEF Sound, Guarded, Allowed
<1>7. TypeOK'
  BY <1>3, <1>4 DEF Core, TypeOK
<1>8. AllSound'
  BY <1>3, <1>4, <1>6 DEF Core, TypeOK, AllSound
<1> QED BY <1>3, <1>4, <1>5, <1>7, <1>8 DEF Core

LEMMA PersistKeepsCore ==
    ASSUME Core, NEW e \in events, Persist(e) \/ PersistFails(e)
    PROVE  /\ Core' /\ UNCHANGED <<level, req, conf, hits>>
           /\ events' \cup log' \cup lost' = events \cup log \cup lost
<1>1. UNCHANGED <<level, conf, account, hits, req>>
  BY DEF Persist, PersistFails, settings
<1>2. /\ events' = events \ {e}
      /\ \/ log' = log \cup {e} /\ lost' = lost
         \/ log' = log /\ lost' = lost \cup {e}
  BY DEF Persist, PersistFails
<1>3. TypeOK'
  BY <1>1, <1>2 DEF Core, TypeOK
<1>4. AllSound'
  BY <1>1 DEF Core, AllSound
<1> QED BY <1>1, <1>2, <1>3, <1>4 DEF Core

LEMMA AccountKeepsCore ==
    ASSUME Core, NEW u \in User, NEW a \in Accounts, ChangeAccount(u, a)
    PROVE  /\ Core' /\ UNCHANGED <<level, conf, hits, events, log, lost>>
           /\ \A i \in Id : \E h \in SUBSET Accounts :
                              req'[i] = [req[i] EXCEPT !.held = h]
<1>1. /\ UNCHANGED <<level, conf, hits, events, log, lost>>
      /\ account' = [account EXCEPT ![u] = a]
      /\ req' = [i \in Id |-> IF InFlight(i) /\ req[i].bearer = u
                              THEN [req[i] EXCEPT !.held = @ \cup {a}] ELSE req[i]]
  BY DEF ChangeAccount, settings, trail
<1>2. ASSUME NEW i \in Id
      PROVE  /\ req'[i] \in Request /\ Sound(req'[i], level, account')
             /\ \E h \in SUBSET Accounts : req'[i] = [req[i] EXCEPT !.held = h]
  <2> DEFINE q == req[i]
             h == q.held \cup {a}
             r == [q EXCEPT !.held = h]
  <2>1. q \in Request /\ Sound(q, level, account) /\ account \in [User -> Accounts]
    BY DEF Core, TypeOK, AllSound
  <2>2. CASE q.pc \in Stages /\ q.bearer = u
    <3>1. req'[i] = r
      BY <1>1, <2>2 DEF InFlight
    <3>2. h \in SUBSET Accounts /\ q.held \subseteq h /\ a \in h
      BY <2>1 DEF Request
    <3>3. account'[u] = a
      BY <1>1, <2>1
    <3> HIDE DEF h
    <3>4. r \in Request
      BY <2>1, <3>2 DEF Request
    <3>5. /\ r.pc = q.pc /\ r.route = q.route /\ r.url = q.url
          /\ r.client = q.client
          /\ r.bearer = q.bearer /\ r.who = q.who /\ r.seen = q.seen
          /\ r.held = h /\ r.age = q.age /\ r.acted = q.acted
          /\ r.entered = q.entered /\ r.watched = q.watched
          /\ r.status = q.status
      BY <2>1 DEF Request
    <3> HIDE DEF r
    <3>6. q.pc \in Stages /\ q.acted /\ Guarded(q) =>
            \E b \in r.held : Allowed(r, b)
      BY <2>1, <3>2, <3>5 DEF Sound, Allowed
    <3>7. Sound(r, level, account')
      BY <2>1, <2>2, <3>2, <3>3, <3>5, <3>6 DEF Sound, Guarded
    <3>8. r = [q EXCEPT !.held = h]
      BY DEF r
    <3> QED BY <3>1, <3>2, <3>4, <3>7, <3>8
  <2>3. CASE ~(q.pc \in Stages /\ q.bearer = u)
    <3>1. req'[i] = q
      BY <1>1, <2>3 DEF InFlight
    <3>2. q.pc \in Stages /\ q.bearer # Nobody => account'[q.bearer] = account[q.bearer]
      BY <1>1, <2>1, <2>3 DEF Request
    <3>3. Sound(q, level, account')
      BY <2>1, <3>2 DEF Sound
    <3>4. q.held \in SUBSET Accounts /\ q = [q EXCEPT !.held = q.held]
      BY <2>1 DEF Request
    <3> QED BY <2>1, <3>1, <3>3, <3>4
  <2> QED BY <2>2, <2>3
<1>3. TypeOK'
  BY <1>1, <1>2 DEF Core, TypeOK
<1>4. AllSound'
  BY <1>1, <1>2 DEF AllSound
<1> QED BY <1>1, <1>2, <1>3, <1>4 DEF Core

LEMMA RestartKeepsCore ==
    ASSUME Core, Restart
    PROVE  /\ Core' /\ UNCHANGED level
           /\ conf' \in [Keys -> Limits]
           /\ events' \cup log' \cup lost' = events \cup log \cup lost
           /\ \A i \in Id :
                /\ req'[i].age = Window
                /\ \/ req[i].pc \in Stages /\ req'[i].pc = "dropped"
                   \/ req[i].pc \notin Stages /\ req'[i].pc = req[i].pc
                /\ req'[i].route = req[i].route /\ req'[i].url = req[i].url
                /\ req'[i].bearer = req[i].bearer
                /\ req'[i].who = req[i].who /\ req'[i].status = req[i].status
                /\ req'[i].acted = req[i].acted /\ req'[i].gone = req[i].gone
                /\ req'[i].entered = req[i].entered
                /\ req'[i].watched = req[i].watched
<1>1. /\ conf' \in [Keys -> Limits] /\ hits' = [i \in Id |-> 0]
      /\ req' = [i \in Id |->
                   IF InFlight(i)
                   THEN [Finished(req[i], "dropped") EXCEPT !.age = Window]
                   ELSE [req[i] EXCEPT !.age = Window]]
      /\ events' = {} /\ lost' = lost \cup events /\ UNCHANGED <<level, account, log>>
  BY DEF Restart
<1>2. ASSUME NEW i \in Id
      PROVE  /\ req'[i] \in Request /\ Sound(req'[i], level, account)
             /\ req'[i].age = Window
             /\ \/ req[i].pc \in Stages /\ req'[i].pc = "dropped"
                \/ req[i].pc \notin Stages /\ req'[i].pc = req[i].pc
             /\ req'[i].route = req[i].route /\ req'[i].url = req[i].url
             /\ req'[i].bearer = req[i].bearer
             /\ req'[i].who = req[i].who /\ req'[i].status = req[i].status
             /\ req'[i].acted = req[i].acted /\ req'[i].gone = req[i].gone
             /\ req'[i].entered = req[i].entered
             /\ req'[i].watched = req[i].watched
  <2> DEFINE q == req[i]
  <2>1. q \in Request /\ Sound(q, level, account)
    BY DEF Core, TypeOK, AllSound
  <2>2. Window \in 0..Window
    BY PipelineAssumption
  <2>3. CASE q.pc \in Stages
    <3> DEFINE r == [Finished(q, "dropped") EXCEPT !.age = Window]
    <3>1. req'[i] = r
      BY <1>1, <2>3 DEF InFlight
    <3>2. r \in Request
      BY <2>1, <2>2, ThrownTyped DEF Request, Finished, Thrown
    <3>3. /\ r.pc = "dropped" /\ r.route = q.route /\ r.url = q.url
          /\ r.bearer = q.bearer
          /\ r.who = q.who /\ r.seen = {} /\ r.held = {} /\ r.age = Window
          /\ r.acted = q.acted /\ r.entered = q.entered
          /\ r.watched = q.watched /\ r.status = q.status /\ r.gone = q.gone
      BY <2>1 DEF Request, Finished
    <3> HIDE DEF r
    <3>4. Sound(r, level, account)
      BY <2>1, <2>3, <3>3, StagesKnown DEF Sound, Guarded
    <3> QED BY <2>3, <3>1, <3>2, <3>3, <3>4
  <2>4. CASE q.pc \notin Stages
    <3> DEFINE r == [q EXCEPT !.age = Window]
    <3>1. req'[i] = r
      BY <1>1, <2>4 DEF InFlight
    <3>2. r \in Request
      BY <2>1, <2>2 DEF Request
    <3>3. /\ r.pc = q.pc /\ r.route = q.route /\ r.url = q.url
          /\ r.bearer = q.bearer
          /\ r.who = q.who /\ r.seen = q.seen /\ r.held = q.held
          /\ r.age = Window /\ r.acted = q.acted /\ r.entered = q.entered
          /\ r.watched = q.watched /\ r.status = q.status /\ r.gone = q.gone
      BY <2>1 DEF Request
    <3> HIDE DEF r
    <3>4. Sound(r, level, account)
      BY <2>1, <2>4, <3>3, StagesKnown DEF Sound, Guarded
    <3> QED BY <2>4, <3>1, <3>2, <3>3, <3>4
  <2> QED BY <2>3, <2>4
<1>3. TypeOK'
  <2>1. req' \in [Id -> Request]
    BY <1>1, <1>2
  <2>2. hits' \in [Id -> 0..Ttl]
    BY <1>1, PipelineAssumption
  <2> QED BY <1>1, <2>1, <2>2 DEF Core, TypeOK
<1>4. AllSound'
  BY <1>1, <1>2 DEF AllSound
<1> QED BY <1>1, <1>2, <1>3, <1>4 DEF Core

LEMMA TickKeepsCore ==
    ASSUME Core, Tick
    PROVE  /\ Core' /\ UNCHANGED <<level, conf, events, log, lost>>
           /\ \A i \in Id :
                /\ hits'[i] = IF hits[i] > 0 THEN hits[i] - 1 ELSE 0
                /\ req'[i] = [req[i] EXCEPT !.age = IF @ < Window THEN @ + 1 ELSE @]
<1>1. /\ hits' = [i \in Id |-> IF hits[i] > 0 THEN hits[i] - 1 ELSE 0]
      /\ req' = [i \in Id |->
                   [req[i] EXCEPT !.age = IF @ < Window THEN @ + 1 ELSE @]]
      /\ UNCHANGED <<level, conf, account, events, log, lost>>
  BY DEF Tick, settings, trail
<1>2. ASSUME NEW i \in Id
      PROVE  req'[i] \in Request /\ Sound(req'[i], level, account)
  <2> DEFINE q == req[i]
             n == IF q.age < Window THEN q.age + 1 ELSE q.age
             r == [q EXCEPT !.age = n]
  <2>1. q \in Request /\ Sound(q, level, account) /\ req'[i] = r
    BY <1>1 DEF Core, TypeOK, AllSound
  <2>2. n \in 0..Window
    BY <2>1, PipelineAssumption DEF Request
  <2> HIDE DEF n
  <2>3. r \in Request
    BY <2>1, <2>2 DEF Request
  <2>4. /\ r.pc = q.pc /\ r.route = q.route /\ r.url = q.url
          /\ r.bearer = q.bearer
        /\ r.who = q.who /\ r.seen = q.seen /\ r.held = q.held
        /\ r.acted = q.acted /\ r.entered = q.entered /\ r.watched = q.watched
        /\ r.status = q.status
    BY <2>1 DEF Request
  <2>5. Sound(r, level, account)
    BY <2>1, <2>4 DEF Sound, Guarded, Allowed
  <2> QED BY <2>1, <2>3, <2>5
<1>3. hits' \in [Id -> 0..Ttl]
  BY <1>1, PipelineAssumption DEF Core, TypeOK
<1>4. req' \in [Id -> Request]
  BY <1>1, <1>2
<1>5. TypeOK'
  BY <1>1, <1>3, <1>4 DEF Core, TypeOK
<1>6. AllSound'
  BY <1>1, <1>2 DEF AllSound
<1> QED BY <1>1, <1>5, <1>6 DEF Core

LEMMA CoreInit == Init => Core
<1> SUFFICES ASSUME Init PROVE Core
  OBVIOUS
<1>1. TypeOK
  BY FreshOK, PipelineAssumption DEF Init, TypeOK
<1>2. Sound(Fresh, level, account)
  BY FreshOK, StagesKnown DEF Sound, Guarded
<1>3. AllSound
  BY <1>2 DEF Init, AllSound
<1> QED BY <1>1, <1>3 DEF Core

LEMMA CoreNext == Core /\ [Next]_vars => Core'
<1> SUFFICES ASSUME Core, [Next]_vars PROVE Core'
  OBVIOUS
<1>1. ASSUME NEW i \in Id, Serve(i) PROVE Core'
  BY <1>1, ServeKeepsCore
<1>2. ASSUME NEW i \in Id, NEW route \in Served, NEW query \in Queries,
             NEW client \in Client, NEW bearer \in User \cup {Nobody},
             Arrive(i, route, query, client, bearer)
      PROVE  Core'
  BY <1>2, ArriveKeepsCore
<1>3. ASSUME NEW e \in events, Persist(e) \/ PersistFails(e) PROVE Core'
  BY <1>3, PersistKeepsCore
<1>4. ASSUME NEW u \in User, NEW a \in Accounts, ChangeAccount(u, a) PROVE Core'
  BY <1>4, AccountKeepsCore
<1>5. CASE Restart
  BY <1>5, RestartKeepsCore
<1>6. CASE Tick
  BY <1>6, TickKeepsCore
<1>7. CASE UNCHANGED vars
  BY <1>7 DEF vars, Core, TypeOK, AllSound
<1> QED BY <1>1, <1>2, <1>3, <1>4, <1>5, <1>6, <1>7 DEF Next

\* Whatever interleaving of requests, changes of accounts, crashes and ticks,
\* every request stands where its guards, interceptors and handler put it.
THEOREM Standing == Spec => []Core
BY CoreInit, CoreNext, PTL DEF Spec

\* Requests, the throttler's hits and the audit trail are well typed.
THEOREM TypeCorrect == Spec => []TypeOK
<1>1. Core => TypeOK
  BY DEF Core
<1> QED BY <1>1, Standing, PTL

\* An effect behind guards was allowed to one account its bearer had while the
\* request was served, permissions and role together, whatever changes between
\* the guards.
THEOREM Authorised == Spec => []EffectsAuthorised
<1>1. Core => EffectsAuthorised
  BY DEF Core, AllSound, Sound, EffectsAuthorised, InFlight, Guarded, Allowed
<1> QED BY <1>1, Standing, PTL

(***************************************************************************)
(* The audit trail                                                         *)
(***************************************************************************)
Trail == events \cup log \cup lost

Tells(e, q, lvl) ==
    /\ e.id \in Id /\ e.kind \in {"http", "business"}
    /\ e = Told(e.id, q, e.kind)
    /\ q.entered
    /\ e.kind = "http" => q.pc = "done" /\ shouldAudit(q.route.method, q.url, lvl)
    /\ e.kind = "business" =>
         /\ q.acted /\ q.status = 200 /\ isAction(q.route, lvl)
         /\ q.pc \in {"send", "done", "dropped"}

Full(i, q, lvl, told) ==
    /\ q.pc = "done" /\ q.entered /\ shouldAudit(q.route.method, q.url, lvl) /\ ~q.gone =>
         \E e \in told : e.id = i /\ e.kind = "http"
    /\ q.pc \in {"send", "done"} /\ q.status = 200 /\ isAction(q.route, lvl) =>
         \E e \in told : e.id = i /\ e.kind = "business"

AllTell == \A e \in Trail : Tells(e, req[e.id], level)
AllFull == \A i \in Id : Full(i, req[i], level, Trail)

Audit == Core /\ AllTell /\ AllFull

\* A step that only changes what the trail does not tell.
LEMMA QuietStep ==
    ASSUME Audit, level' = level, Trail' = Trail,
           \A i \in Id :
              /\ (\E e \in Trail : e.id = i) =>
                   /\ req'[i].who = req[i].who /\ req'[i].route = req[i].route
                   /\ req'[i].url = req[i].url /\ req'[i].status = req[i].status
                   /\ req'[i].entered = req[i].entered
                   /\ req'[i].acted = req[i].acted
                   /\ req[i].pc = "done" => req'[i].pc = "done"
                   /\ req[i].pc \in {"send", "done", "dropped"} =>
                        req'[i].pc \in {"send", "done", "dropped"}
              /\ Full(i, req'[i], level, Trail)
    PROVE  AllTell' /\ AllFull'
<1>1. ASSUME NEW e \in Trail PROVE Tells(e, req'[e.id], level)
  <2>1. Tells(e, req[e.id], level)
    BY DEF Audit, AllTell
  <2>2. e.id \in Id
    BY <2>1 DEF Tells
  <2> QED BY <2>1, <2>2 DEF Tells, Told
<1> QED BY <1>1 DEF AllTell, AllFull

\* Before its handler has succeeded, or its response has ended, a request has
\* nothing in the trail.
LEMMA NothingYet ==
    ASSUME Audit, NEW i \in Id, req[i].pc \notin {"send", "done", "dropped"}
    PROVE  \A e \in Trail : e.id # i
BY DEF Audit, AllTell, Tells

LEMMA SilentKeepsAudit ==
    ASSUME Audit, NEW i \in Id, Serve(i), Silent(i) PROVE AllTell' /\ AllFull'
<1>1. PICK q \in Request :
        /\ Sound(q, level, account) /\ req[i].pc \in Stages /\ q.pc \in Stages
        /\ q.pc = "send" => q.status # 200
        /\ req' = [req EXCEPT ![i] = q]
  BY ServeMoves DEF Moves, Silent, Audit
<1>2. level' = level /\ Trail' = Trail
  BY ServeTells DEF Audit, Silent, trail, Trail
<1>3. \A e \in Trail : e.id # i
  BY <1>1, StagesKnown, NothingYet DEF Silent
<1>4. Full(i, q, level, Trail)
  BY <1>1, StagesKnown DEF Full
<1>5. req \in [Id -> Request] /\ \A j \in Id : Full(j, req[j], level, Trail)
  BY DEF Audit, Core, TypeOK, AllFull
<1>6. \A j \in Id : j # i => req'[j] = req[j]
  BY <1>1, <1>5
<1>7. req'[i] = q
  BY <1>1, <1>5
<1>8. \A j \in Id :
        /\ (\E e \in Trail : e.id = j) => req'[j] = req[j]
        /\ Full(j, req'[j], level, Trail)
  BY <1>3, <1>4, <1>5, <1>6, <1>7
<1> QED BY <1>2, <1>8, QuietStep

\* A step that adds the entry of the request that takes it.
LEMMA EntryStep ==
    ASSUME Audit, NEW i \in Id, NEW q \in Request, NEW kind \in {"http", "business"},
           req' = [req EXCEPT ![i] = q], level' = level,
           Trail' = Trail \cup {Told(i, req[i], kind)},
           q.who = req[i].who, q.route = req[i].route, q.url = req[i].url, q.entered, q.acted = req[i].acted,
           kind = "http" => q.status = req[i].status,
           Tells(Told(i, q, kind), q, level),
           \A e \in Trail : e.id = i => Tells(e, q, level),
           Full(i, q, level, Trail')
    PROVE  AllTell' /\ AllFull'
<1>1. req \in [Id -> Request]
  BY DEF Audit, Core, TypeOK
<1>2. req'[i] = q /\ \A j \in Id : j # i => req'[j] = req[j]
  BY <1>1
<1>3. Told(i, q, kind) = Told(i, req[i], kind) /\ Told(i, q, kind).id = i
  BY DEF Told
<1>4. ASSUME NEW e \in Trail' PROVE Tells(e, req'[e.id], level)
  <2>1. CASE e = Told(i, req[i], kind)
    BY <1>2, <1>3, <2>1
  <2>2. CASE e \in Trail /\ e.id = i
    BY <1>2, <2>2
  <2>3. CASE e \in Trail /\ e.id # i
    <3>1. Tells(e, req[e.id], level)
      BY <2>3 DEF Audit, AllTell
    <3>2. e.id \in Id
      BY <3>1 DEF Tells
    <3> QED BY <1>2, <2>3, <3>1, <3>2
  <2> QED BY <2>1, <2>2, <2>3
<1>5. ASSUME NEW j \in Id PROVE Full(j, req'[j], level, Trail')
  <2>1. CASE j = i
    BY <1>2, <2>1
  <2>2. CASE j # i
    BY <1>2, <2>2 DEF Audit, AllFull, Full
  <2> QED BY <2>1, <2>2
<1> QED BY <1>4, <1>5 DEF AllTell, AllFull

LEMMA TapKeepsAudit ==
    ASSUME Audit, NEW i \in Id, Serve(i), Taps(i) PROVE AllTell' /\ AllFull'
<1>1. PICK q \in Request :
        /\ Sound(q, level, account) /\ q.route = req[i].route
        /\ q.url = req[i].url
        /\ q.who = req[i].who /\ q.acted = req[i].acted
        /\ q.entered = req[i].entered /\ req' = [req EXCEPT ![i] = q]
  BY ServeMoves DEF Moves, Taps, Audit
<1>2. req \in [Id -> Request] /\ level' = level /\ Sound(req[i], level, account)
  BY ServeTells DEF Audit, Core, TypeOK, AllSound
<1>3. req'[i] = q /\ q.pc = "send" /\ q.status = 200 /\ q.acted /\ q.entered
  BY <1>1, <1>2 DEF Taps, Sound
<1>4. \A e \in Trail : e.id # i
  BY NothingYet DEF Taps
<1>5. CASE isAction(req[i].route, level)
  <2>1. Trail' = Trail \cup {Told(i, req[i], "business")}
    BY <1>5 DEF Taps, Trail
  <2>2. /\ Told(i, q, "business").id = i /\ Told(i, q, "business").kind = "business"
        /\ Told(i, req[i], "business") = Told(i, q, "business")
    BY <1>1 DEF Told
  <2>3. Tells(Told(i, q, "business"), q, level)
    BY <1>1, <1>3, <1>5, <2>2 DEF Tells
  <2>4. Full(i, q, level, Trail')
    BY <1>3, <2>1, <2>2 DEF Full
  <2> QED BY <1>1, <1>2, <1>3, <1>4, <2>1, <2>3, <2>4, EntryStep
<1>6. CASE ~isAction(req[i].route, level)
  <2>1. Trail' = Trail
    BY <1>6 DEF Taps, Trail
  <2>2. Full(i, q, level, Trail)
    BY <1>1, <1>3, <1>6 DEF Full
  <2>3. \A j \in Id : j # i => req'[j] = req[j] /\ Full(j, req[j], level, Trail)
    BY <1>1, <1>2 DEF Audit, AllFull
  <2>4. \A j \in Id :
          /\ (\E e \in Trail : e.id = j) => req'[j] = req[j]
          /\ Full(j, req'[j], level, Trail)
    BY <1>3, <1>4, <2>2, <2>3
  <2> QED BY <1>2, <2>1, <2>4, QuietStep
<1> QED BY <1>5, <1>6

LEMMA SendKeepsAudit ==
    ASSUME Audit, NEW i \in Id, Serve(i), Sends(i) PROVE AllTell' /\ AllFull'
<1>1. PICK q \in Request :
        /\ Sound(q, level, account) /\ q.route = req[i].route
        /\ q.url = req[i].url
        /\ q.who = req[i].who /\ q.acted = req[i].acted
        /\ q.entered = req[i].entered /\ req' = [req EXCEPT ![i] = q]
  BY ServeMoves DEF Moves, Sends, Audit
<1>2. /\ req \in [Id -> Request] /\ level' = level
      /\ Sound(req[i], level, account) /\ Full(i, req[i], level, Trail)
  BY ServeTells DEF Audit, Core, TypeOK, AllSound, AllFull
<1>3. req'[i] = q /\ q.pc = "done" /\ q.status = req[i].status
  BY <1>1, <1>2 DEF Sends
<1>4. q.status = 200 /\ isAction(q.route, level) =>
        \E e \in Trail : e.id = i /\ e.kind = "business"
  BY <1>1, <1>2, <1>3 DEF Full, Sends
<1>5. ASSUME NEW e \in Trail, e.id = i PROVE Tells(e, q, level)
  <2>1. Tells(e, req[i], level)
    BY <1>5 DEF Audit, AllTell
  <2> QED BY <1>1, <1>3, <2>1 DEF Tells, Told, Sends
<1>6. CASE req[i].watched /\ events' = events \cup {Told(i, req[i], "http")}
  <2>1. Trail' = Trail \cup {Told(i, req[i], "http")}
    BY <1>6 DEF Sends, Trail
  <2>2. q.entered /\ shouldAudit(q.route.method, q.url, level)
    BY <1>1, <1>2, <1>6 DEF Sound
  <2>3. /\ Told(i, q, "http").id = i /\ Told(i, q, "http").kind = "http"
        /\ Told(i, req[i], "http") = Told(i, q, "http")
    BY <1>1, <1>3 DEF Told
  <2>4. Tells(Told(i, q, "http"), q, level)
    BY <1>3, <2>2, <2>3 DEF Tells
  <2>5. Full(i, q, level, Trail')
    BY <1>4, <2>1, <2>3 DEF Full
  <2> QED BY <1>1, <1>2, <1>3, <1>5, <2>1, <2>2, <2>4, <2>5, EntryStep
<1>7. CASE (req[i].watched => req'[i].gone) /\ events' = events
  <2>1. Trail' = Trail
    BY <1>7 DEF Sends, Trail
  <2>2. q.entered /\ shouldAudit(q.route.method, q.url, level) => q.gone
    BY <1>1, <1>2, <1>3, <1>7 DEF Sound
  <2>3. Full(i, q, level, Trail)
    BY <1>4, <2>2 DEF Full
  <2>4. \A j \in Id : j # i => req'[j] = req[j] /\ Full(j, req[j], level, Trail)
    BY <1>1, <1>2 DEF Audit, AllFull
  <2>5. /\ req'[i].who = req[i].who /\ req'[i].route = req[i].route
        /\ req'[i].url = req[i].url /\ req'[i].status = req[i].status
        /\ req'[i].entered = req[i].entered /\ req'[i].acted = req[i].acted /\ req'[i].pc = "done"
        /\ Full(i, req'[i], level, Trail)
    BY <1>1, <1>3, <2>3
  <2> QED BY <1>2, <2>1, <2>4, <2>5, QuietStep
<1> QED BY <1>6, <1>7 DEF Sends

LEMMA AuditInit == Init => Audit
<1> SUFFICES ASSUME Init PROVE Audit
  OBVIOUS
<1>1. Core
  BY CoreInit
<1>2. AllTell /\ AllFull
  BY FreshOK DEF Init, AllTell, AllFull, Trail, Full
<1> QED BY <1>1, <1>2 DEF Audit

LEMMA AuditNext == Audit /\ [Next]_vars => Audit'
<1> SUFFICES ASSUME Audit, [Next]_vars PROVE Audit'
  OBVIOUS
<1>1. Core /\ Core'
  BY CoreNext DEF Audit
<1>2. req \in [Id -> Request] /\ \A j \in Id : Full(j, req[j], level, Trail)
  BY <1>1 DEF Core, TypeOK, Audit, AllFull
<1>3. ASSUME NEW i \in Id, Serve(i) PROVE AllTell' /\ AllFull'
  BY <1>1, <1>3, ServeTells, SilentKeepsAudit, TapKeepsAudit, SendKeepsAudit
<1>4. ASSUME NEW i \in Id, NEW route \in Served, NEW query \in Queries,
             NEW client \in Client, NEW bearer \in User \cup {Nobody},
             Arrive(i, route, query, client, bearer)
      PROVE  AllTell' /\ AllFull'
  <2>1. PICK q \in Request : /\ q.pc = "throttle" /\ ~q.entered /\ ~q.acted
                             /\ req' = [req EXCEPT ![i] = q]
    BY <1>1, <1>4, ArriveKeepsCore
  <2>2. level' = level /\ Trail' = Trail
    BY <1>4 DEF Arrive, settings, trail, Trail
  <2>3. \A e \in Trail : e.id # i
    BY <1>1, <1>4, ArriveKeepsCore, NothingYet
  <2>4. Full(i, q, level, Trail)
    BY <2>1 DEF Full
  <2>5. \A j \in Id :
          /\ (\E e \in Trail : e.id = j) => req'[j] = req[j]
          /\ Full(j, req'[j], level, Trail)
    BY <1>2, <2>1, <2>3, <2>4
  <2> QED BY <2>2, <2>5, QuietStep
<1>5. ASSUME NEW e \in events, Persist(e) \/ PersistFails(e)
      PROVE  AllTell' /\ AllFull'
  <2>1. UNCHANGED <<level, req>> /\ Trail' = Trail
    BY <1>1, <1>5, PersistKeepsCore DEF Trail
  <2> QED BY <1>2, <2>1, QuietStep
<1>6. ASSUME NEW u \in User, NEW a \in Accounts, ChangeAccount(u, a)
      PROVE  AllTell' /\ AllFull'
  <2>1. level' = level /\ Trail' = Trail
    BY <1>1, <1>6, AccountKeepsCore DEF Trail
  <2>2. ASSUME NEW i \in Id
        PROVE  /\ req'[i].who = req[i].who /\ req'[i].route = req[i].route
               /\ req'[i].url = req[i].url /\ req'[i].status = req[i].status
               /\ req'[i].pc = req[i].pc
               /\ req'[i].entered = req[i].entered /\ req'[i].acted = req[i].acted
               /\ req'[i].gone = req[i].gone
    <3>1. PICK h \in SUBSET Accounts : req'[i] = [req[i] EXCEPT !.held = h]
      BY <1>1, <1>6, AccountKeepsCore
    <3> QED BY <1>2, <3>1 DEF Request
  <2>3. \A i \in Id : Full(i, req'[i], level, Trail)
    BY <1>2, <2>2 DEF Full
  <2> QED BY <2>1, <2>2, <2>3, QuietStep
<1>7. CASE Restart
  <2>1. level' = level /\ Trail' = Trail
    BY <1>1, <1>7, RestartKeepsCore DEF Trail
  <2>2. ASSUME NEW i \in Id
        PROVE  /\ req'[i].who = req[i].who /\ req'[i].route = req[i].route
               /\ req'[i].url = req[i].url /\ req'[i].status = req[i].status
               /\ \/ req[i].pc \in Stages /\ req'[i].pc = "dropped"
                  \/ req[i].pc \notin Stages /\ req'[i].pc = req[i].pc
               /\ req'[i].entered = req[i].entered /\ req'[i].acted = req[i].acted
               /\ req'[i].gone = req[i].gone
    BY <1>1, <1>7, RestartKeepsCore
  <2>3. \A i \in Id : Full(i, req'[i], level, Trail)
    BY <1>2, <2>2 DEF Full
  <2>4. \A i \in Id :
          /\ (\E e \in Trail : e.id = i) =>
               /\ req'[i].who = req[i].who /\ req'[i].route = req[i].route
               /\ req'[i].url = req[i].url /\ req'[i].status = req[i].status
               /\ req'[i].entered = req[i].entered
               /\ req'[i].acted = req[i].acted
               /\ req[i].pc = "done" => req'[i].pc = "done"
               /\ req[i].pc \in {"send", "done", "dropped"} =>
                    req'[i].pc \in {"send", "done", "dropped"}
          /\ Full(i, req'[i], level, Trail)
    BY <2>2, <2>3, StagesKnown
  <2> QED BY <1>1, <2>1, <2>4, QuietStep DEF Audit
<1>8. CASE Tick
  <2>1. level' = level /\ Trail' = Trail
    BY <1>1, <1>8, TickKeepsCore DEF Trail
  <2>2. ASSUME NEW i \in Id
        PROVE  /\ req'[i].who = req[i].who /\ req'[i].route = req[i].route
               /\ req'[i].url = req[i].url /\ req'[i].status = req[i].status
               /\ req'[i].pc = req[i].pc
               /\ req'[i].entered = req[i].entered /\ req'[i].acted = req[i].acted
               /\ req'[i].gone = req[i].gone
    <3>1. req'[i] = [req[i] EXCEPT !.age = IF @ < Window THEN @ + 1 ELSE @]
      BY <1>1, <1>8, TickKeepsCore
    <3> QED BY <1>2, <3>1 DEF Request
  <2>3. \A i \in Id : Full(i, req'[i], level, Trail)
    BY <1>2, <2>2 DEF Full
  <2>4. \A i \in Id :
          /\ (\E e \in Trail : e.id = i) =>
               /\ req'[i].who = req[i].who /\ req'[i].route = req[i].route
               /\ req'[i].url = req[i].url /\ req'[i].status = req[i].status
               /\ req'[i].entered = req[i].entered
               /\ req'[i].acted = req[i].acted
               /\ req[i].pc = "done" => req'[i].pc = "done"
               /\ req[i].pc \in {"send", "done", "dropped"} =>
                    req'[i].pc \in {"send", "done", "dropped"}
          /\ Full(i, req'[i], level, Trail)
    BY <2>2, <2>3
  <2> QED BY <1>1, <2>1, <2>4, QuietStep DEF Audit
<1>9. CASE UNCHANGED vars
  <2>1. level' = level /\ req' = req /\ Trail' = Trail
    BY <1>9 DEF vars, Trail
  <2> QED BY <1>1, <1>2, <2>1, QuietStep DEF Audit
<1> QED BY <1>1, <1>3, <1>4, <1>5, <1>6, <1>7, <1>8, <1>9 DEF Next, Audit

\* What the trail says of a request is what happened to it.
THEOREM Truthful == Spec => []TrailTruthful
<1>1. Audit => TrailTruthful
  <2> SUFFICES ASSUME Audit, NEW e \in Trail PROVE
        LET q == req[e.id] IN
        /\ q.entered
        /\ e.user = IF "jwt" \in q.route.guards THEN q.bearer ELSE Nobody
        /\ e.kind = "http" =>
              /\ q.pc = "done" /\ q.status = e.status
              /\ shouldAudit(q.route.method, q.url, level)
        /\ e.kind = "business" =>
              /\ q.acted /\ q.status = 200
              /\ isAction(q.route, level) /\ e.subject = q.route.audit
    BY DEF TrailTruthful, Trail
  <2>1. Tells(e, req[e.id], level)
    BY DEF Audit, AllTell
  <2>2. e.id \in Id /\ req[e.id].entered
    BY <2>1 DEF Tells
  <2>3. Sound(req[e.id], level, account)
    BY <2>2 DEF Audit, Core, AllSound
  <2>4. e.user = req[e.id].who
    BY <2>1 DEF Tells, Told
  <2>5. req[e.id].who = IF "jwt" \in req[e.id].route.guards
                        THEN req[e.id].bearer ELSE Nobody
    BY <2>2, <2>3 DEF Sound, Guarded
  <2>6. e.kind = "http" => e.status = req[e.id].status
    BY <2>1 DEF Tells, Told
  <2>7. e.kind = "business" => e.subject = req[e.id].route.audit
    BY <2>1 DEF Tells, Told
  <2> QED BY <2>1, <2>2, <2>4, <2>5, <2>6, <2>7 DEF Tells
<1> QED BY <1>1, AuditInit, AuditNext, PTL DEF Spec

\* A request the guards let pass leaves its entries, on every status.
THEOREM Complete == Spec => []TrailComplete
<1>1. Audit => TrailComplete
  BY DEF Audit, AllFull, Full, TrailComplete, Trail
<1> QED BY <1>1, AuditInit, AuditNext, PTL DEF Spec

(***************************************************************************)
(* The throttler: the requests of the last Ttl ticks still have a hit, so  *)
(* they are among those counted against a new one.                         *)
(***************************************************************************)
Passed(r, route, client) ==
    {i \in Id : r[i].route = route /\ r[i].client = client /\ r[i].age < Ttl}

PassedAs(r, route, client, key) ==
    {i \in Passed(r, route, client) : RouteKey(r[i].url) = key}

Within(r, limits, route, client) ==
    /\ \A key \in Keys : Cardinality(PassedAs(r, route, client, key)) <= limits[key]
    /\ \E key \in Keys : Cardinality(Passed(r, route, client)) <= limits[key]

AllCounted == \A i \in Id : req[i].age < Ttl => hits[i] + req[i].age >= Ttl

Flow == Core /\ AllCounted /\ ThrottleHolds

LEMMA CardinalityOfPart ==
    ASSUME NEW S, NEW T, S \subseteq T, T \subseteq Id
    PROVE  /\ Cardinality(S) \in Nat /\ Cardinality(T) \in Nat
           /\ Cardinality(S) <= Cardinality(T)
<1>1. IsFiniteSet(T)
  BY PipelineAssumption, FS_Subset
<1> QED BY <1>1, FS_Subset, FS_CardinalityType

LEMMA HoldsWithin ==
    ThrottleHolds <=> \A route \in Served, client \in Client :
                         Within(req, conf, route, client)
BY DEF ThrottleHolds, Within, Passed, PassedAs, Admitted

LEMMA HoldsWithinNext ==
    ThrottleHolds' <=> \A route \in Served, client \in Client :
                          Within(req', conf', route, client)
BY DEF ThrottleHolds, Within, Passed, PassedAs, Admitted

\* What passed may become less.
LEMMA LessIsWithin ==
    ASSUME NEW r, NEW s, NEW limits \in [Keys -> Nat], NEW route, NEW client,
           Passed(s, route, client) \subseteq Passed(r, route, client),
           \A key \in Keys : PassedAs(s, route, client, key)
                                \subseteq PassedAs(r, route, client, key),
           Within(r, limits, route, client)
    PROVE  Within(s, limits, route, client)
<1>1. /\ Passed(r, route, client) \subseteq Id
      /\ \A key : PassedAs(r, route, client, key) \subseteq Id
  BY DEF Passed, PassedAs
<1>2. ASSUME NEW key \in Keys
      PROVE  Cardinality(PassedAs(s, route, client, key)) <= limits[key]
  <2>1. Cardinality(PassedAs(r, route, client, key)) <= limits[key]
    BY DEF Within
  <2> QED BY <1>1, <2>1, CardinalityOfPart
<1>3. PICK key \in Keys : Cardinality(Passed(r, route, client)) <= limits[key]
  BY DEF Within
<1>4. Cardinality(Passed(s, route, client)) <= limits[key]
  BY <1>1, <1>3, CardinalityOfPart
<1> QED BY <1>2, <1>4 DEF Within

\* Nothing passed, nothing to count.
LEMMA NothingIsWithin ==
    ASSUME NEW r, NEW limits \in [Keys -> Nat], NEW route \in Served, NEW client,
           Passed(r, route, client) = {}
    PROVE  Within(r, limits, route, client)
<1>1. Url(route, {}) \in Urls
  BY PipelineAssumption DEF Urls
<1>2. PICK key : key \in Keys
  BY <1>1 DEF Keys
<1>3. \A k : PassedAs(r, route, client, k) = {}
  BY DEF PassedAs
<1> QED BY <1>2, <1>3, FS_EmptySet DEF Within

LEMMA LimitsTyped ==
    ASSUME Core PROVE conf \in [Keys -> Nat]
BY PipelineAssumption DEF Core, TypeOK

\* A step after which no request has passed more recently than before.
LEMMA NobodyNew ==
    ASSUME Flow, conf' = conf,
           \A i \in Id : \/ req'[i].age >= Ttl
                         \/ /\ req'[i].age >= req[i].age
                            /\ req'[i].route = req[i].route
                            /\ req'[i].url = req[i].url
                            /\ req'[i].client = req[i].client,
           \A i \in Id : req[i].age \in 0..Window /\ req'[i].age \in 0..Window
    PROVE  ThrottleHolds'
<1> SUFFICES ASSUME NEW route \in Served, NEW client \in Client
             PROVE  Within(req', conf, route, client)
  BY HoldsWithinNext
<1>1. Passed(req', route, client) \subseteq Passed(req, route, client)
  BY PipelineAssumption DEF Passed
<1>2. ASSUME NEW key \in Keys
      PROVE  PassedAs(req', route, client, key) \subseteq PassedAs(req, route, client, key)
  BY PipelineAssumption DEF Passed, PassedAs
<1>3. Within(req, conf, route, client) /\ conf \in [Keys -> Nat]
  BY HoldsWithin, LimitsTyped DEF Flow
<1> QED BY <1>1, <1>2, <1>3, LessIsWithin

LEMMA ThrottleKeepsFlow ==
    ASSUME Flow, NEW i \in Id, Throttle(i) PROVE AllCounted' /\ ThrottleHolds'
<1> DEFINE q == req[i]
           n == Cardinality(Counted(i, q.route, q.client) \cup {i})
<1>1. /\ hits' = [hits EXCEPT ![i] = Ttl] /\ conf' = conf
      /\ q.pc = "throttle" /\ q \in Request /\ RouteKey(q.url) \in Keys
      /\ hits \in [Id -> 0..Ttl] /\ req \in [Id -> Request]
  <2>1. Sound(q, level, account)
    BY DEF Flow, Core, AllSound
  <2> QED BY <2>1 DEF Flow, Core, TypeOK, Throttle, settings, Sound, Keys
<1>2. \A j \in Id : req[j].age \in 0..Window /\ hits[j] \in 0..Ttl
  BY <1>1 DEF Request
<1>6. conf \in [Keys -> Nat]
  BY LimitsTyped DEF Flow
<1>3. CASE Throw(i, TooManyRequests)
  <2>1. \A j \in Id : /\ req'[j].age = req[j].age /\ req'[j].route = req[j].route
                      /\ req'[j].url = req[j].url /\ req'[j].client = req[j].client
    BY <1>1, <1>3 DEF Throw, Set, Request
  <2>2. AllCounted'
    BY <1>1, <1>2, <2>1, PipelineAssumption DEF AllCounted, Flow
  <2>3. ThrottleHolds'
    BY <1>1, <1>2, <2>1, NobodyNew, PipelineAssumption
  <2> QED BY <2>2, <2>3
<1>4. CASE n <= conf[RouteKey(q.url)] /\ Set(i, [q EXCEPT !.pc = "jwt", !.age = 0])
  <2>1. /\ req'[i].age = 0 /\ req'[i].route = q.route /\ req'[i].client = q.client
        /\ req'[i].url = q.url
        /\ \A j \in Id : j # i => req'[j] = req[j]
    BY <1>1, <1>4 DEF Set, Request
  <2>2. AllCounted'
    BY <1>1, <1>2, <2>1, PipelineAssumption DEF AllCounted, Flow
  <2>3. ASSUME NEW route \in Served, NEW client \in Client
        PROVE  Within(req', conf, route, client)
    <3>1. Within(req, conf, route, client)
      BY HoldsWithin DEF Flow
    <3>2. CASE route = q.route /\ client = q.client
      <4> DEFINE C == Counted(i, q.route, q.client) \cup {i}
                 mine == RouteKey(q.url)
      <4>1. Passed(req', route, client) \subseteq C /\ C \subseteq Id
        BY <1>2, <2>1, <3>2, PipelineAssumption DEF Passed, Counted, Flow, AllCounted
      <4>2. Cardinality(C) <= conf[mine] /\ conf[mine] \in Nat
        BY <1>1, <1>4, <1>6
      <4> HIDE DEF C
      <4>3. Cardinality(Passed(req', route, client)) <= conf[mine]
        BY <4>1, <4>2, CardinalityOfPart
      <4>4. ASSUME NEW key \in Keys
            PROVE  Cardinality(PassedAs(req', route, client, key)) <= conf[key]
        <5>1. CASE key = mine
          <6>1. PassedAs(req', route, client, key) \subseteq C
            BY <4>1 DEF PassedAs
          <6> QED BY <4>1, <4>2, <5>1, <6>1, CardinalityOfPart
        <5>2. CASE key # mine
          <6>1. PassedAs(req', route, client, key)
                  \subseteq PassedAs(req, route, client, key)
            BY <2>1, <5>2 DEF PassedAs, Passed
          <6>2. PassedAs(req, route, client, key) \subseteq Id
            BY DEF PassedAs, Passed
          <6>3. Cardinality(PassedAs(req, route, client, key)) <= conf[key]
            BY <3>1 DEF Within
          <6> QED BY <1>6, <6>1, <6>2, <6>3, CardinalityOfPart
        <5> QED BY <5>1, <5>2
      <4> QED BY <1>1, <4>3, <4>4 DEF Within
    <3>3. CASE ~(route = q.route /\ client = q.client)
      <4>1. Passed(req', route, client) \subseteq Passed(req, route, client)
        BY <2>1, <3>3 DEF Passed
      <4>2. ASSUME NEW key \in Keys
            PROVE  PassedAs(req', route, client, key)
                     \subseteq PassedAs(req, route, client, key)
        BY <2>1, <3>3 DEF Passed, PassedAs
      <4> QED BY <1>6, <3>1, <4>1, <4>2, LessIsWithin
    <3> QED BY <3>2, <3>3
  <2>4. ThrottleHolds'
    BY <1>1, <2>3, HoldsWithinNext
  <2> QED BY <2>2, <2>4
<1>5. n \in Nat /\ conf[RouteKey(q.url)] \in Nat
  <2>1. Counted(i, q.route, q.client) \cup {i} \subseteq Id
    BY DEF Counted
  <2> QED BY <1>1, <1>6, <2>1, CardinalityOfPart
<1> QED BY <1>3, <1>4, <1>5 DEF Throttle

LEMMA ServeKeepsFlow ==
    ASSUME Flow, NEW i \in Id, Serve(i) PROVE AllCounted' /\ ThrottleHolds'
<1>1. CASE Throttle(i)
  BY <1>1, ThrottleKeepsFlow
<1>2. CASE ~Throttle(i)
  <2>1. req[i].pc # "throttle"
    BY <1>2 DEF Serve, Authenticate, CheckPermissions, CheckRoles, Intercept,
                Handle, Tap, Filter, Send
  <2>2. PICK q \in Request :
          /\ q.route = req[i].route /\ q.url = req[i].url
          /\ q.client = req[i].client
          /\ q.age = req[i].age /\ req' = [req EXCEPT ![i] = q]
    BY <2>1, ServeMoves DEF Moves, Flow
  <2>3. /\ conf' = conf /\ hits' \in [Id -> 0..Ttl] /\ hits \in [Id -> 0..Ttl]
        /\ req \in [Id -> Request] /\ \A j \in Id : hits'[j] >= hits[j]
    BY ServeTells DEF Flow, Core, TypeOK
  <2>4. \A j \in Id : /\ req'[j].age = req[j].age /\ req'[j].route = req[j].route
                      /\ req'[j].url = req[j].url /\ req'[j].client = req[j].client
                      /\ req[j].age \in 0..Window
    BY <2>2, <2>3 DEF Request
  <2>5. AllCounted'
    <3>1. \A j \in Id : hits'[j] \in Int /\ hits[j] \in Int
      BY <2>3
    <3> QED BY <2>3, <2>4, <3>1, PipelineAssumption DEF AllCounted, Flow
  <2>6. ThrottleHolds'
    BY <2>3, <2>4, NobodyNew, PipelineAssumption
  <2> QED BY <2>5, <2>6
<1> QED BY <1>1, <1>2

LEMMA FlowInit == Init => Flow
<1> SUFFICES ASSUME Init PROVE Flow
  OBVIOUS
<1>1. Core
  BY CoreInit
<1>2. AllCounted
  BY FreshOK, PipelineAssumption DEF Init, AllCounted
<1>3. ThrottleHolds
  <2> SUFFICES ASSUME NEW route \in Served, NEW client \in Client
               PROVE  Within(req, conf, route, client)
    BY HoldsWithin
  <2>1. Passed(req, route, client) = {}
    BY FreshOK, PipelineAssumption DEF Init, Passed
  <2> QED BY <1>1, <2>1, LimitsTyped, NothingIsWithin
<1> QED BY <1>1, <1>2, <1>3 DEF Flow

LEMMA FlowNext == Flow /\ [Next]_vars => Flow'
<1> SUFFICES ASSUME Flow, [Next]_vars PROVE Flow'
  OBVIOUS
<1>1. Core /\ Core'
  BY CoreNext DEF Flow
<1>2. /\ req \in [Id -> Request] /\ req' \in [Id -> Request]
      /\ hits \in [Id -> 0..Ttl] /\ hits' \in [Id -> 0..Ttl]
      /\ \A j \in Id : req[j].age \in 0..Window /\ req'[j].age \in 0..Window
  BY <1>1 DEF Core, TypeOK, Request
<1>3. ASSUME NEW i \in Id, Serve(i) PROVE Flow'
  BY <1>1, <1>3, ServeKeepsFlow DEF Flow
<1>4. ASSUME NEW i \in Id, NEW route \in Served, NEW query \in Queries,
             NEW client \in Client, NEW bearer \in User \cup {Nobody},
             Arrive(i, route, query, client, bearer)
      PROVE  Flow'
  <2>1. PICK q \in Request : q.age = Window /\ req' = [req EXCEPT ![i] = q]
    BY <1>1, <1>4, ArriveKeepsCore
  <2>2. conf' = conf /\ hits' = hits
    BY <1>4 DEF Arrive, settings
  <2>3. req'[i].age = Window /\ \A j \in Id : j # i => req'[j] = req[j]
    BY <1>2, <2>1
  <2>4. AllCounted'
    BY <1>2, <2>2, <2>3, PipelineAssumption DEF AllCounted, Flow
  <2>5. ThrottleHolds'
    BY <1>2, <2>2, <2>3, NobodyNew, PipelineAssumption
  <2> QED BY <1>1, <2>4, <2>5 DEF Flow
<1>5. ASSUME NEW e \in events, Persist(e) \/ PersistFails(e) PROVE Flow'
  <2>1. UNCHANGED <<req, conf, hits>>
    BY <1>1, <1>5, PersistKeepsCore
  <2> QED BY <1>1, <2>1, HoldsWithin, HoldsWithinNext DEF Flow, AllCounted
<1>6. ASSUME NEW u \in User, NEW a \in Accounts, ChangeAccount(u, a) PROVE Flow'
  <2>1. UNCHANGED <<conf, hits>>
    BY <1>1, <1>6, AccountKeepsCore
  <2>2. ASSUME NEW i \in Id
        PROVE  /\ req'[i].age = req[i].age /\ req'[i].route = req[i].route
               /\ req'[i].url = req[i].url /\ req'[i].client = req[i].client
    <3>1. PICK h \in SUBSET Accounts : req'[i] = [req[i] EXCEPT !.held = h]
      BY <1>1, <1>6, AccountKeepsCore
    <3> QED BY <1>2, <3>1 DEF Request
  <2>3. AllCounted'
    BY <2>1, <2>2 DEF Flow, AllCounted
  <2>4. ThrottleHolds'
    BY <1>2, <2>1, <2>2, NobodyNew, PipelineAssumption
  <2> QED BY <1>1, <2>3, <2>4 DEF Flow
<1>7. CASE Restart
  <2>1. \A i \in Id : req'[i].age = Window
    BY <1>1, <1>7, RestartKeepsCore
  <2>2. AllCounted'
    BY <2>1, PipelineAssumption DEF AllCounted
  <2>3. ASSUME NEW route \in Served, NEW client \in Client
        PROVE  Within(req', conf', route, client)
    <3>1. Passed(req', route, client) = {}
      BY <2>1, PipelineAssumption DEF Passed
    <3>2. conf' \in [Keys -> Nat]
      BY <1>1, PipelineAssumption DEF Core, TypeOK
    <3> QED BY <3>1, <3>2, NothingIsWithin
  <2>4. ThrottleHolds'
    BY <2>3, HoldsWithinNext
  <2> QED BY <1>1, <2>2, <2>4 DEF Flow
<1>8. CASE Tick
  <2>1. conf' = conf
    BY <1>1, <1>8, TickKeepsCore
  <2>2. ASSUME NEW i \in Id
        PROVE  /\ req'[i].age = IF req[i].age < Window THEN req[i].age + 1
                                ELSE req[i].age
               /\ req'[i].route = req[i].route /\ req'[i].url = req[i].url
               /\ req'[i].client = req[i].client
               /\ hits'[i] = IF hits[i] > 0 THEN hits[i] - 1 ELSE 0
    <3>1. req'[i] = [req[i] EXCEPT !.age = IF @ < Window THEN @ + 1 ELSE @]
      BY <1>1, <1>8, TickKeepsCore
    <3>2. hits'[i] = IF hits[i] > 0 THEN hits[i] - 1 ELSE 0
      BY <1>1, <1>8, TickKeepsCore
    <3> QED BY <1>2, <3>1, <3>2 DEF Request
  <2>3. AllCounted'
    BY <1>2, <2>2, PipelineAssumption DEF Flow, AllCounted
  <2>4. ThrottleHolds'
    BY <1>2, <2>1, <2>2, NobodyNew, PipelineAssumption
  <2> QED BY <1>1, <2>3, <2>4 DEF Flow
<1>9. CASE UNCHANGED vars
  <2>1. UNCHANGED <<req, conf, hits>>
    BY <1>9 DEF vars
  <2> QED BY <1>1, <2>1, HoldsWithin, HoldsWithinNext DEF Flow, AllCounted
<1> QED BY <1>3, <1>4, <1>5, <1>6, <1>7, <1>8, <1>9 DEF Next

\* In no window do more requests of a client get past the throttler of a
\* handler than the limit their urls ask for, nor, whatever the urls, more than
\* one of the limits, whatever the number of requests and their order.
THEOREM Throttled == Spec => []ThrottleHolds
<1>1. Flow => ThrottleHolds
  BY DEF Flow
<1> QED BY <1>1, FlowInit, FlowNext, PTL DEF Spec
=============================================================================
