---------------------------- MODULE MCAdminLists ----------------------------
(* Instances of AdminLists for TLC.                                        *)
EXTENDS AdminLists

\* The initial documents have different keys, in every order of the names: of a
\* walk over equal keys no property promises anything.
MCInit ==
    /\ Init
    /\ \A i \in DOMAIN docs : docs[i].created = i - 1
    /\ \A i, j \in DOMAIN docs : i # j => docs[i].name # docs[j].name

MCSpec == MCInit /\ [][Next]_vars

\* Nor of one whose matches change in two ways, or in another than growing or
\* shrinking: such walks are not followed further.
Promising == moves \subseteq {"left"} \/ moves \subseteq {"created"}
=============================================================================
