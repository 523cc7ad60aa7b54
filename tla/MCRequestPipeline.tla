------------------------- MODULE MCRequestPipeline -------------------------
(* Instances of RequestPipeline for TLC: an open endpoint and one behind   *)
(* all guards, accounts that pass none, one or both of the last two.       *)
EXTENDS RequestPipeline, TLC

LogoutRoute == CHOOSE r \in AuthRoutes : r.path = "/auth/logout"
DeleteRoute == CHOOSE r \in UserRoutes : r.method = "DELETE"

TwoRoutes == {LogoutRoute, DeleteRoute}

\* Nothing, or the path of the login, after the path of the endpoint.
AnyQuery == {{}, {"/auth/login"}}

\* An administrator who may delete, one whose explicit permissions are gone, and
\* a user who got the permission but not the role.
Admin == [role |-> "admin", permissions |-> {<<"user", "*">>}]
Stripped == [role |-> "admin", permissions |-> {}]
Granted == [role |-> "user", permissions |-> {<<"user", "delete">>}]

SomeAccounts == {Admin, Stripped, Granted}
NotFound == {Domain("USER_NOT_FOUND")}

\* Requests differ in nothing but their number.
Ids == Permutations(Id)

\* Guards, handlers and trail are explored apart from the throttler's windows: no
\* property relates the two.  Two requests, and no time passes; only at "minimal"
\* does the query of a url count for the audit, and there the guards see less ...
Arrived == {i \in Id : req[i].pc # "new"}

TrailHalf ==
    /\ level # "off"
    /\ Cardinality(Arrived) <= 2
    /\ \A i \in Arrived : level = "minimal" \/ req[i].url = Url(req[i].route, {})
    /\ level = "minimal" => \A u \in User : account[u] # Granted
    /\ \A key \in Keys : conf[key] = 2
    /\ \A i \in Id : hits[i] \in {0, Ttl} /\ req[i].age \in {0, Window}

\* ... or three anonymous requests to the open endpoint that do not fail, and no
\* audit.
WindowHalf ==
    /\ level = "off"
    /\ \A i \in Arrived : req[i].route = LogoutRoute /\ req[i].bearer = Nobody
    /\ \A i \in Arrived : req[i].thrown \in {NoError, TooManyRequests}
    /\ \A u \in User : account[u] = Admin

WindowsApart == TrailHalf \/ WindowHalf
=============================================================================
