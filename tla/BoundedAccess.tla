--------------------------- MODULE BoundedAccess ---------------------------
(***************************************************************************)
(* What the caches of users and roles promise, whatever they do inside: a  *)
(* request is authorised with a document of its user, and with one of the  *)
(* role that document names, and each of the two was the stored document   *)
(* at most the life of a cache entry ago.                                  *)
(*                                                                         *)
(*   current   the stored document of every user and every role name       *)
(*   recent    for how many more ticks a document may still be answered    *)
(*   request   the requests that guards let through: user and permissions  *)
(***************************************************************************)
EXTENDS AccessRules

CONSTANTS Req, NoRequest

VARIABLES current, recent, request

vars == <<current, recent, request>>

\* What is stored may be answered for a whole life from now.
Renewed(rec, cur) ==
    [k \in DecisiveKeys |-> [rec[k] EXCEPT ![cur[k]] = Life(k)]]

\* A tick brings the documents that are no longer stored nearer to their end.
Aged(rec, cur) ==
    [k \in DecisiveKeys |-> [v \in Value(k) |->
        IF v = cur[k] \/ rec[k][v] = 0 THEN rec[k][v] ELSE rec[k][v] - 1]]

Init ==
    /\ \A k \in DecisiveKeys : current[k] \in Value(k)
    /\ recent = [k \in DecisiveKeys |-> [v \in Value(k) |->
                    IF v = current[k] THEN Life(k) ELSE 0]]
    /\ request = [r \in Req |-> NoRequest]

Write ==
    /\ recent' = Renewed(recent, current')
    /\ UNCHANGED request

Tick ==
    /\ recent' = Aged(recent, current)
    /\ UNCHANGED <<current, request>>

Authorise(r, u) ==
    /\ \E doc \in UserDoc, role \in RoleDoc \cup {Absent} :
         /\ recent[UserKey(u)][doc] > 0
         /\ recent[RoleKey(doc.role)][role] > 0
         /\ request' = [request EXCEPT ![r] = <<u, Effective(doc, role)>>]
    /\ UNCHANGED <<current, recent>>

End(r) ==
    /\ request' = [request EXCEPT ![r] = NoRequest]
    /\ UNCHANGED <<current, recent>>

Next ==
    \/ Write \/ Tick
    \/ \E r \in Req : End(r) \/ \E u \in User : Authorise(r, u)

Spec == Init /\ [][Next]_vars
=============================================================================
