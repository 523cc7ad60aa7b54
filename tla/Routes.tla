------------------------------- MODULE Routes -------------------------------
(***************************************************************************)
(* The endpoints of the controllers under src: for each one its method and *)
(* path, the guards in front of it, the permissions and roles its          *)
(* decorators ask for, and what its @AuditAction names as the resource.    *)
(* With them the decisions the guards, the throttler and the interceptors  *)
(* take from a route.                                                      *)
(*                                                                         *)
(* A permission is the pair of its resource and its action; Everything is  *)
(* the permission "*" and <<resource, "*">> the wildcard of a resource.    *)
(***************************************************************************)
EXTENDS FiniteSets

Everything == <<"*", "">>

\* What getResourceId (and getBefore) of an @AuditAction reads:
\*   "none"      nothing, or a constant
\*   "result"    the result of the handler
\*   "requestId" args[0].id
\*   "request"   args[0]
\* args are those of the interceptor's context, <<request, reply, next>>.
NoAction == "no action"
Subjects == {"none", "result", "requestId", "request", NoAction}

Route(method, path, needs, audit) ==
    [method |-> method, path |-> path, needs |-> needs, audit |-> audit]

\* The guards, and the role, that the decorators of the class ask for.
Behind(guards, roles, routes) ==
    {[method |-> r.method, path |-> r.path, needs |-> r.needs,
      audit |-> r.audit, guards |-> guards, roles |-> roles] : r \in routes}

Jwt == {"jwt"}
JwtPermission == {"jwt", "permission"}
AllGuards == {"jwt", "permission", "roles"}

AuthRoutes ==
    Behind({}, {},
        {Route("POST", "/auth/register", {}, "result"),
         Route("POST", "/auth/login", {}, "result"),
         Route("POST", "/auth/forgot-password", {}, NoAction),
         Route("POST", "/auth/reset-password", {}, NoAction),
         Route("POST", "/auth/refresh", {}, NoAction),
         Route("POST", "/auth/verify-email", {}, NoAction),
         Route("POST", "/auth/logout", {}, "none"),
         Route("POST", "/auth/confirm-email-change", {}, "none"),
         Route("POST", "/auth/revert-email-change", {}, "none"),
         Route("POST", "/auth/resend-verification", {}, NoAction)})
    \cup Behind(Jwt, {},
        {Route("POST", "/auth/logout-all", {}, "requestId"),
         Route("GET", "/auth/me", {}, NoAction)})

ProfileRoutes ==
    Behind(Jwt, {},
        {Route("GET", "/users/profile", {}, NoAction),
         Route("PATCH", "/users/profile", {}, NoAction),
         Route("POST", "/users/change-password", {}, NoAction),
         Route("POST", "/users/change-email/code", {}, "requestId"),
         Route("POST", "/users/change-email", {}, "requestId")})

UserRoutes ==
    Behind(AllGuards, {"admin"},
        {Route("POST", "/admin/users", {<<"user", "create">>}, NoAction),
         Route("GET", "/admin/users", {<<"user", "read">>}, NoAction),
         Route("GET", "/admin/users/metrics", {<<"user", "read">>}, NoAction),
         Route("GET", "/admin/users/export.csv", {<<"user", "read">>}, NoAction),
         Route("GET", "/admin/users/:id", {<<"user", "read">>}, NoAction),
         Route("PATCH", "/admin/users/:id/unlock", {<<"user", "unlock">>}, NoAction),
         Route("PATCH", "/admin/users/:id", {<<"user", "update">>}, "request"),
         Route("DELETE", "/admin/users/:id", {<<"user", "delete">>}, "request"),
         Route("PATCH", "/admin/users/:id/active", {<<"user", "update">>}, "request")})

\* findAll has no @Roles: any role that holds the permission may list.
RoleRoutes ==
    Behind(AllGuards, {},
        {Route("GET", "/roles", {<<"role", "read">>}, NoAction)})
    \cup Behind(AllGuards, {"admin"},
        {Route("POST", "/roles", {<<"role", "create">>}, "result"),
         Route("PATCH", "/roles/:id", {<<"role", "update">>}, "request"),
         Route("DELETE", "/roles/:id", {<<"role", "delete">>}, "request"),
         Route("PUT", "/roles/:id/permissions", {<<"role", "update">>}, NoAction)})

PermissionRoutes ==
    Behind(JwtPermission, {},
        {Route("GET", "/permissions", {<<"permission", "read">>}, NoAction)})

ParameterRoutes ==
    Behind(AllGuards, {"admin"},
        {Route("GET", "/admin/parameters", {<<"parameter", "read">>}, NoAction),
         Route("GET", "/admin/parameters/:group", {<<"parameter", "read">>}, NoAction),
         Route("PUT", "/admin/parameters/:key", {<<"parameter", "update">>}, "none")})

TemplateRoutes ==
    Behind(AllGuards, {"admin"},
        {Route("POST", "/email/templates", {<<"email", "create">>}, NoAction),
         Route("GET", "/email/templates", {<<"email", "read">>}, NoAction),
         Route("GET", "/email/templates/:slug", {<<"email", "read">>}, NoAction),
         Route("PATCH", "/email/templates/:slug", {<<"email", "update">>}, NoAction),
         Route("DELETE", "/email/templates/:slug", {<<"email", "delete">>}, NoAction)})

EmailRoutes ==
    Behind(AllGuards, {"admin"},
        {Route("POST", "/email/send", {<<"email", "send">>}, NoAction),
         Route("POST", "/email/send-direct", {<<"email", "send">>}, NoAction)})

AuditRoutes ==
    Behind(AllGuards, {"admin"},
        {Route("GET", "/admin/audit-logs", {<<"audit", "read">>}, NoAction)})

I18nRoutes ==
    Behind(JwtPermission, {},
        {Route("POST", "/admin/i18n/reload", {<<"i18n", "reload">>}, NoAction)})

AppRoutes ==
    Behind({}, {},
        {Route("GET", "/health", {}, NoAction),
         Route("GET", "/", {}, NoAction),
         Route("POST", "/message-microservice/:message-pattern", {}, NoAction)})

Endpoints ==
    AuthRoutes \cup ProfileRoutes \cup UserRoutes \cup RoleRoutes
    \cup PermissionRoutes \cup ParameterRoutes \cup TemplateRoutes
    \cup EmailRoutes \cup AuditRoutes \cup I18nRoutes \cup AppRoutes

-----------------------------------------------------------------------------
(* What the seeds store                                                    *)

DEFAULT_PERMISSIONS ==
    ({"user", "role", "permission", "email"}
        \X {"create", "read", "update", "delete"})
    \cup {<<"user", "unlock">>, <<"parameter", "read">>,
          <<"parameter", "update">>, <<"audit", "read">>,
          <<"email", "send">>, <<"i18n", "reload">>}

DEFAULT_ROLES ==
    [admin |-> {Everything},
     user |-> {<<"user", "read">>, <<"user", "update">>},
     viewer |-> {<<"user", "read">>}]

-----------------------------------------------------------------------------
(* Decisions                                                               *)

\* PermissionGuard: "*", the permission itself, or the wildcard of its resource.
Grants(permissions, needed) ==
    \/ Everything \in permissions
    \/ needed \in permissions
    \/ <<needed[1], "*">> \in permissions

PermissionsPass(route, permissions) ==
    "permission" \in route.guards =>
        \A needed \in route.needs : Grants(permissions, needed)

\* RolesGuard: no required role, or one that is the user's.
RolesPass(route, role) ==
    "roles" \in route.guards => route.roles = {} \/ role \in route.roles

\* request.url: the guard and the interceptor look for the path of an endpoint
\* anywhere in it, and after its own path a client may write what it likes.  The
\* model keeps of a url the endpoint paths that occur in it.
Url(route, query) == {route.path} \cup query

\* DynamicThrottlerGuard: the limit a url is counted against.
RouteKey(url) ==
    CASE "/auth/login" \in url -> "login"
      [] "/auth/login" \notin url /\ "/auth/register" \in url -> "register"
      [] /\ url \cap {"/auth/login", "/auth/register"} = {}
         /\ "/auth/forgot-password" \in url -> "forgot-password"
      [] OTHER -> "global"

AUTH_ENDPOINTS ==
    {"/auth/login", "/auth/register", "/auth/forgot-password",
     "/auth/reset-password", "/auth/verify-email",
     "/auth/confirm-email-change", "/auth/refresh-token"}

MUTATION_METHODS == {"POST", "PUT", "PATCH", "DELETE"}

\* AuditInterceptor.shouldAudit; "off" is AUDIT_ENABLED=false.
shouldAudit(method, url, level) ==
    /\ level # "off"
    /\ \/ level = "verbose"
       \/ level = "minimal" /\ url \cap AUTH_ENDPOINTS # {}
       \/ level \notin {"minimal", "verbose"} /\ method \in MUTATION_METHODS

\* AuditAspectInterceptor: whether a handler that succeeds is a business action.
isAction(route, level) == level # "off" /\ route.audit # NoAction
=============================================================================
