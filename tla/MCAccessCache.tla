--------------------------- MODULE MCAccessCache ---------------------------
(* Instances of AccessCache for TLC.                                       *)
EXTENDS AccessCache, TLC

Symmetry == Permutations(Req)

Role(i, n, p, s) == [id |-> i, name |-> n, perms |-> p, system |-> s]

\* Of the three roles of DEFAULT_ROLES two, one of them with a permission.
TwoDefaults == <<[name |-> "user", perms |-> {"read"}],
                 [name |-> "viewer", perms |-> {}]>>

WildcardGrants == {{}, {"*"}}

Empty == [i \in Rid |-> Absent]

\* A role that somebody called "viewer" before the seed: it can be assigned,
\* filled, renamed and removed, and the seed stops at it.
OneRole == {[Empty EXCEPT ![1] = Role(1, "viewer", {}, FALSE)]}

Beginnings == OneRole \cup {Empty}
=============================================================================
