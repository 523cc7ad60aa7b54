-------------------------- MODULE RequestPipeline --------------------------
(***************************************************************************)
(* What happens to a request before and after its handler: the throttler,  *)
(* the guards, the audit interceptors, validation, the exception filter,   *)
(* and the listener that stores the audit entries (src/config/throttle,    *)
(* src/auth/guards, src/common/audit, src/common/filters).                 *)
(*                                                                         *)
(*   req      one record per request; its pc is the stage it waits for     *)
(*   hits     the in-memory storage of the throttler: the ticks left of    *)
(*            the hit each request made, 0 when it does not count          *)
(*   conf     the limits, as loadConfig read them at the start             *)
(*   events   audit events emitted whose write has not ended               *)
(*   log      the audit_logs collection                                    *)
(*                                                                         *)
(* One process.  Handlers are abstract: they commit an effect, throw, or    *)
(* throw after the effect is committed.  The window is the same for the    *)
(* four route keys.  A restart is a crash   *)
(* and a new start in one step.                                            *)
(***************************************************************************)
EXTENDS Routes, Integers

CONSTANTS
    Id,             \* requests, identified by their correlation id
    Client, User,   \* ip addresses and users
    Nobody,         \* no valid bearer token; an anonymous audit entry
    Served,         \* the endpoints of this instance
    Queries,        \* the endpoint paths a query string may hold
    Accounts,       \* pairs of a role and its effective permissions
    Levels,         \* AUDIT_LEVEL, or "off" for AUDIT_ENABLED=false
    Limits, Ttl,    \* throttle limits, and the window as the library counts it
    Failures,       \* what the handlers of this instance throw
    Window,         \* how long the properties remember an admission
    MayFail         \* crashes, failed writes and clients that disconnect

\* The statuses of HTTP; 200 stands for every 2xx.
ErrorStatus == 400..599
HttpStatus == {200} \cup ErrorStatus

ASSUME PipelineAssumption ==
    /\ Served \subseteq Endpoints
    /\ Nobody \notin User
    /\ Client # {}
    /\ Limits \subseteq Nat \ {0}
    /\ {} \in Queries
    /\ \A error \in Failures : error.type = "http" => error.status \in ErrorStatus
    /\ Ttl \in Nat \ {0} /\ Window \in Nat /\ Ttl <= Window
    /\ IsFiniteSet(Id)

VARIABLES level, conf, account, hits, req, events, log, lost

vars == <<level, conf, account, hits, req, events, log, lost>>
trail == <<events, log, lost>>
settings == <<level, conf>>

-----------------------------------------------------------------------------
(* Errors                                                                  *)

\* The statusCode of each ErrorKind.
statusCode(kind) ==
    CASE kind \in {"VALIDATION_ERROR", "EXPIRED_RESET_TOKEN",
                   "EXPIRED_VERIFICATION_TOKEN", "EXPIRED_CONFIRMATION_TOKEN",
                   "NO_PENDING_EMAIL_CHANGE", "CURRENT_PASSWORD_INCORRECT",
                   "TEMPLATE_FILE_NOT_FOUND"} -> 400
      [] kind \in {"INVALID_CREDENTIALS", "ACCOUNT_INACTIVE",
                   "INVALID_REFRESH_TOKEN", "INVALID_EMAIL_CHANGE_CODE",
                   "INVALID_TOKEN"} -> 401
      [] kind = "FORBIDDEN" -> 403
      [] kind \in {"APP_VERSION_NOT_FOUND", "ENTITY_NOT_FOUND",
                   "USER_NOT_FOUND", "TEMPLATE_NOT_FOUND",
                   "PARAMETER_NOT_FOUND"} -> 404
      [] kind \in {"ENTITY_NAME_ALREADY_EXISTS", "ENTITY_EMAIL_ALREADY_EXISTS",
                   "ROLE_IN_USE", "EMAIL_OR_USERNAME_EXISTS",
                   "EMAIL_ALREADY_EXISTS", "TEMPLATE_SLUG_ALREADY_EXISTS",
                   "PARAMETER_OVERRIDDEN"} -> 409
      [] kind \in {"USER_ALREADY_DELETED", "EMAIL_REVERT_WINDOW_EXPIRED"} -> 410
      [] kind = "PARAMETER_VALUE_INVALID" -> 422
      [] kind = "ACCOUNT_LOCKED" -> 423
      [] kind = "MICROSERVICE_UNAVAILABLE" -> 503
      [] OTHER -> 500      \* INTERNAL, APP_ERROR; fromKind of an unknown name

\* What may be thrown: a DomainError by its kind, an HttpException with its
\* status, the CastError of mongoose, anything else.
Domain(kind) == [type |-> "domain", kind |-> kind, status |-> 0]
Http(status) == [type |-> "http", kind |-> "", status |-> status]
CastError == [type |-> "cast", kind |-> "", status |-> 0]
OtherError == [type |-> "other", kind |-> "", status |-> 0]

TooManyRequests == Http(429)
ValidationFailed == Http(400)
GuardFailures == {TooManyRequests, ValidationFailed, OtherError,
                  Domain("INVALID_TOKEN"), Domain("FORBIDDEN")}

\* A mutant: a DomainError is taken for an HttpException, whose status it has not.
StatusOfAny(thrown) ==
    CASE thrown.type \in {"domain", "http"} -> thrown.status
      [] thrown.type = "cast" -> 400
      [] OTHER -> 500

\* The status AllExceptionsFilter answers.
StatusOf(thrown) ==
    CASE thrown.type = "domain" -> statusCode(thrown.kind)
      [] thrown.type = "http" -> thrown.status
      [] thrown.type = "cast" -> 400
      [] OTHER -> 500

-----------------------------------------------------------------------------
(* State                                                                   *)

\* The urls that may come in, and the limits that count for them.
Urls == {Url(route, query) : route \in Served, query \in Queries}
Keys == {RouteKey(url) : url \in Urls}

Stages == {"throttle", "jwt", "permission", "roles", "intercept", "handle",
           "tap", "filter", "send"}

NoRoute == [method |-> "", path |-> "", needs |-> {}, audit |-> NoAction,
            guards |-> {}, roles |-> {}]
NoError == [type |-> "none", kind |-> "", status |-> 0]

\* who and seen are request.user, which the CLS store of the request repeats;
\* held collects the accounts the bearer had while the request was served; age
\* is the time since the throttler let the request pass.
Request ==
    [pc : Stages \cup {"new", "done", "dropped"},
     route : Served \cup {NoRoute}, url : Urls \cup {{}}, client : Client,
     bearer : User \cup {Nobody}, who : User \cup {Nobody}, seen : SUBSET Accounts,
     thrown : Failures \cup GuardFailures \cup {NoError}, status : {0} \cup HttpStatus,
     watched : BOOLEAN, entered : BOOLEAN, acted : BOOLEAN, gone : BOOLEAN,
     held : SUBSET Accounts, age : 0..Window]

HttpEntry ==
    [id : Id, kind : {"http"}, user : User \cup {Nobody}, status : HttpStatus,
     subject : {"none"}]

BusinessEntry ==
    [id : Id, kind : {"business"}, user : User \cup {Nobody}, status : {0},
     subject : {route.audit : route \in Served} \ {NoAction}]

Entry == HttpEntry \cup BusinessEntry

Fresh == [pc |-> "new", route |-> NoRoute, url |-> {},
          client |-> CHOOSE c \in Client : TRUE, bearer |-> Nobody,
          who |-> Nobody, seen |-> {}, thrown |-> NoError,
          status |-> 0, watched |-> FALSE, entered |-> FALSE, acted |-> FALSE,
          gone |-> FALSE, held |-> {}, age |-> Window]

Init ==
    /\ level \in Levels
    /\ conf \in [Keys -> Limits]
    /\ account \in [User -> Accounts]
    /\ hits = [i \in Id |-> 0]
    /\ req = [i \in Id |-> Fresh]
    /\ events = {} /\ log = {} /\ lost = {}

InFlight(i) == req[i].pc \in Stages

Set(i, q) == req' = [req EXCEPT ![i] = q]
Go(i, stage) == Set(i, [req[i] EXCEPT !.pc = stage])
Throw(i, error) == Set(i, [req[i] EXCEPT !.pc = "filter", !.thrown = error])

\* A request reaches the application.
Arrive(i, route, query, client, bearer) ==
    /\ req[i].pc = "new"
    /\ Set(i, [Fresh EXCEPT !.pc = "throttle", !.route = route,
                            !.url = Url(route, query),
                            !.client = client, !.bearer = bearer,
                            !.held = IF bearer = Nobody THEN {}
                                     ELSE {account[bearer]}])
    /\ UNCHANGED <<settings, account, hits, trail>>

-----------------------------------------------------------------------------
(* The throttler                                                           *)

\* The hits that count against a request: one handler, one client address.
Counted(i, route, client) ==
    {j \in Id : hits[j] > 0 /\ req[j].route = route /\ req[j].client = client}

\* A mutant: the hits are read before this one is counted.
ThrottleLate(i) ==
    /\ req[i].pc = "throttle"
    /\ hits' = [hits EXCEPT ![i] = Ttl]
    /\ IF Cardinality(Counted(i, req[i].route, req[i].client))
            > conf[RouteKey(req[i].url)]
       THEN Throw(i, TooManyRequests)
       ELSE Set(i, [req[i] EXCEPT !.pc = "jwt", !.age = 0])
    /\ UNCHANGED <<settings, account, trail>>

\* A refused request counts as well.  The hits are those of the handler, the
\* limit is the one the url asks for.
Throttle(i) ==
    /\ req[i].pc = "throttle"
    /\ hits' = [hits EXCEPT ![i] = Ttl]
    /\ IF Cardinality(Counted(i, req[i].route, req[i].client) \cup {i})
            > conf[RouteKey(req[i].url)]
       THEN Throw(i, TooManyRequests)
       ELSE Set(i, [req[i] EXCEPT !.pc = "jwt", !.age = 0])
    /\ UNCHANGED <<settings, account, trail>>

-----------------------------------------------------------------------------
(* The guards                                                              *)

\* JwtAuthGuard: validateUser answers the account once, and request.user and
\* the CLS store keep it; or it throws what the database threw.
Authenticate(i) ==
    /\ req[i].pc = "jwt"
    /\ \/ "jwt" \notin req[i].route.guards /\ Go(i, "permission")
       \/ /\ "jwt" \in req[i].route.guards /\ req[i].bearer = Nobody
          /\ Throw(i, Domain("INVALID_TOKEN"))
       \/ /\ "jwt" \in req[i].route.guards /\ req[i].bearer # Nobody
          /\ Set(i, [req[i] EXCEPT !.pc = "permission", !.who = req[i].bearer,
                                   !.seen = {account[req[i].bearer]}])
       \/ /\ MayFail /\ "jwt" \in req[i].route.guards /\ req[i].bearer # Nobody
          /\ Throw(i, OtherError)
    /\ UNCHANGED <<settings, account, hits, trail>>

CheckPermissions(i) ==
    /\ req[i].pc = "permission"
    /\ IF \A a \in req[i].seen : PermissionsPass(req[i].route, a.permissions)
       THEN Go(i, "roles")
       ELSE Throw(i, Domain("FORBIDDEN"))
    /\ UNCHANGED <<settings, account, hits, trail>>

\* A mutant: the guard loads the user again.
CheckRolesAgain(i) ==
    /\ req[i].pc = "roles"
    /\ IF req[i].who # Nobody => RolesPass(req[i].route, account[req[i].who].role)
       THEN Go(i, "intercept")
       ELSE Throw(i, Domain("FORBIDDEN"))
    /\ UNCHANGED <<settings, account, hits, trail>>

CheckRoles(i) ==
    /\ req[i].pc = "roles"
    /\ IF \A a \in req[i].seen : RolesPass(req[i].route, a.role)
       THEN Go(i, "intercept")
       ELSE Throw(i, Domain("FORBIDDEN"))
    /\ UNCHANGED <<settings, account, hits, trail>>

-----------------------------------------------------------------------------
(* Interceptors, handler and answer                                        *)

\* AuditInterceptor listens for the end of the response; AuditAspectInterceptor
\* wraps the handler.
Intercept(i) ==
    /\ req[i].pc = "intercept"
    /\ Set(i, [req[i] EXCEPT !.pc = "handle", !.entered = TRUE,
                             !.watched =
                                shouldAudit(req[i].route.method, req[i].url, level)])
    /\ UNCHANGED <<settings, account, hits, trail>>

\* ValidationPipe refuses the arguments, or the handler throws before it takes
\* effect, or takes effect and returns, or takes effect and then throws: register
\* after createWithRole, the controllers on the translation of their answer.
Handle(i) ==
    /\ req[i].pc = "handle"
    /\ \/ Set(i, [req[i] EXCEPT !.pc = "tap", !.acted = TRUE])
       \/ \E error \in Failures \cup {ValidationFailed} : Throw(i, error)
       \/ \E error \in Failures :
             Set(i, [req[i] EXCEPT !.pc = "filter", !.thrown = error, !.acted = TRUE])
    /\ UNCHANGED <<settings, account, hits, trail>>

\* A mutant: the entry is the bearer's, whether a guard looked or not.
EmitAsBearer(i, kind, status, subject) ==
    events' = events \cup
        {[id |-> i, kind |-> kind, user |-> req[i].bearer, status |-> status,
          subject |-> subject]}

Emit(i, kind, status, subject) ==
    events' = events \cup
        {[id |-> i, kind |-> kind, user |-> req[i].who, status |-> status,
          subject |-> subject]}

\* What tap does with the result of a handler that returned.
Tap(i) ==
    /\ req[i].pc = "tap"
    /\ Set(i, [req[i] EXCEPT !.pc = "send", !.status = 200])
    /\ IF isAction(req[i].route, level)
       THEN Emit(i, "business", 0, req[i].route.audit)
       ELSE UNCHANGED events
    /\ UNCHANGED <<settings, account, hits, log, lost>>

\* AllExceptionsFilter.
Filter(i) ==
    /\ req[i].pc = "filter"
    /\ Set(i, [req[i] EXCEPT !.pc = "send", !.status = StatusOf(req[i].thrown)])
    /\ UNCHANGED <<settings, account, hits, trail>>

\* Of a request that has ended the model keeps what the trail may tell.
Finished(q, pc) ==
    [q EXCEPT !.pc = pc, !.seen = {}, !.held = {}, !.thrown = NoError]

\* A mutant: the entry is emitted from the observable, which an error skips.
SendIfSuccessful(i) ==
    /\ req[i].pc = "send"
    /\ Set(i, Finished(req[i], "done"))
    /\ IF req[i].watched /\ req[i].status = 200
       THEN Emit(i, "http", req[i].status, "none")
       ELSE UNCHANGED events
    /\ UNCHANGED <<settings, account, hits, log, lost>>

\* The response ends and "finish" fires, unless the client has gone.
Send(i) ==
    /\ req[i].pc = "send"
    /\ \/ /\ Set(i, Finished(req[i], "done"))
          /\ IF req[i].watched
             THEN Emit(i, "http", req[i].status, "none")
             ELSE UNCHANGED events
       \/ /\ MayFail /\ req[i].watched
          /\ Set(i, [Finished(req[i], "done") EXCEPT !.gone = TRUE])
          /\ UNCHANGED events
    /\ UNCHANGED <<settings, account, hits, log, lost>>

-----------------------------------------------------------------------------
(* The audit listener                                                      *)

\* redactSensitiveFields descends without end into what contains itself, as
\* the request of the server does, and the listener logs what that throws.
Cyclic(subject) == subject = "request"

Persist(e) ==
    /\ e \in events
    /\ events' = events \ {e}
    /\ IF Cyclic(e.subject)
       THEN lost' = lost \cup {e} /\ UNCHANGED log
       ELSE log' = log \cup {e} /\ UNCHANGED lost
    /\ UNCHANGED <<settings, account, hits, req>>

PersistFails(e) ==
    /\ MayFail /\ e \in events
    /\ events' = events \ {e}
    /\ lost' = lost \cup {e}
    /\ UNCHANGED <<settings, account, hits, req, log>>

-----------------------------------------------------------------------------
(* The environment                                                         *)

\* What validateUser answers for a user changes.
ChangeAccount(u, a) ==
    /\ account[u] # a
    /\ account' = [account EXCEPT ![u] = a]
    /\ req' = [i \in Id |->
                 IF InFlight(i) /\ req[i].bearer = u
                 THEN [req[i] EXCEPT !.held = @ \cup {a}] ELSE req[i]]
    /\ UNCHANGED <<settings, hits, trail>>

\* The process dies and starts: loadConfig reads the limits, which an
\* administrator may have changed since.
Restart ==
    /\ MayFail
    /\ conf' \in [Keys -> Limits]
    /\ hits' = [i \in Id |-> 0]
    /\ req' = [i \in Id |->
                 IF InFlight(i)
                 THEN [Finished(req[i], "dropped") EXCEPT !.age = Window]
                 ELSE [req[i] EXCEPT !.age = Window]]
    /\ events' = {} /\ lost' = lost \cup events
    /\ UNCHANGED <<level, account, log>>

\* Time passes: the timers of the throttler's storage.
Tick ==
    /\ hits' = [i \in Id |-> IF hits[i] > 0 THEN hits[i] - 1 ELSE 0]
    /\ req' = [i \in Id |->
                 [req[i] EXCEPT !.age = IF @ < Window THEN @ + 1 ELSE @]]
    /\ UNCHANGED <<settings, account, trail>>

-----------------------------------------------------------------------------
Serve(i) ==
    \/ Throttle(i) \/ Authenticate(i) \/ CheckPermissions(i) \/ CheckRoles(i)
    \/ Intercept(i) \/ Handle(i) \/ Tap(i) \/ Filter(i) \/ Send(i)

Next ==
    \/ \E i \in Id :
          \/ \E route \in Served, query \in Queries, client \in Client,
                bearer \in User \cup {Nobody} : Arrive(i, route, query, client, bearer)
          \/ Serve(i)
    \/ \E e \in events : Persist(e) \/ PersistFails(e)
    \/ \E u \in User, a \in Accounts : ChangeAccount(u, a)
    \/ Restart
    \/ Tick

Spec == Init /\ [][Next]_vars

-----------------------------------------------------------------------------
(* Properties                                                              *)

\* Requests, settings, hits and audit entries are well typed.
TypeOK ==
    /\ level \in Levels
    /\ conf \in [Keys -> Limits]
    /\ account \in [User -> Accounts]
    /\ hits \in [Id -> 0..Ttl]
    /\ req \in [Id -> Request]
    /\ events \subseteq Entry /\ log \subseteq Entry /\ lost \subseteq Entry

\* Every entry, stored or not yet, tells what happened to the request whose
\* correlation id it has: the user is the bearer its jwt guard accepted and
\* nobody else's, an http entry has the status the client was answered, and a
\* business entry is about a handler that took effect and whose client was told so.
TrailTruthful ==
    \A e \in events \cup log \cup lost :
        LET q == req[e.id] IN
        /\ q.entered
        /\ e.user = IF "jwt" \in q.route.guards THEN q.bearer ELSE Nobody
        /\ e.kind = "http" =>
              /\ q.pc = "done" /\ q.status = e.status
              /\ shouldAudit(q.route.method, q.url, level)
        /\ e.kind = "business" =>
              /\ q.acted /\ q.status = 200
              /\ isAction(q.route, level) /\ e.subject = q.route.audit

\* A request that got past the guards leaves its http entry on every status,
\* and its business entry when its handler returned, unless the client went away
\* first or the entry was lost afterwards.
TrailComplete ==
    \A i \in Id :
        LET q == req[i]
            entries == {e \in events \cup log \cup lost : e.id = i}
        IN
        /\ q.pc = "done" /\ q.entered /\ ~q.gone =>
              \/ ~shouldAudit(q.route.method, q.url, level)
              \/ \E e \in entries : e.kind = "http"
        /\ q.pc \in {"send", "done"} /\ q.status = 200 /\ isAction(q.route, level)
              => \E e \in entries : e.kind = "business"

\* The requests the throttler let pass in the window that ends now.
Admitted(route, client) ==
    {i \in Id : /\ req[i].route = route /\ req[i].client = client
                /\ req[i].age < Ttl}

\* In any window of the throttler, and until the process restarts, a client gets
\* no more requests to a handler past the guard than the limit their urls ask for,
\* however many it makes and whenever it makes them; and mixing urls that ask for
\* different limits gets it no more, all together, than one of those limits.
ThrottleHolds ==
    \A route \in Served, client \in Client :
        LET admitted == Admitted(route, client) IN
        /\ \A key \in Keys :
              Cardinality({i \in admitted : RouteKey(req[i].url) = key}) <= conf[key]
        /\ \E key \in Keys : Cardinality(admitted) <= conf[key]

\* What a handler does behind guards, one account its bearer had while the
\* request was served was allowed to do: permissions and role are those of the
\* same account, though the three guards run one after the other.
EffectsAuthorised ==
    \A i \in Id :
        LET q == req[i] IN
        InFlight(i) /\ q.acted /\ "jwt" \in q.route.guards =>
            \E a \in q.held : /\ PermissionsPass(q.route, a.permissions)
                              /\ RolesPass(q.route, a.role)
=============================================================================
