--------------------------- MODULE MCEmailChange ---------------------------
(* Instances of EmailChange for TLC.  Request slots are interchangeable,   *)
(* and so are the addresses the account does not start with.               *)
EXTENDS EmailChange, TLC

Symmetry == Permutations(Req) \cup Permutations(Emails \ {HomeEmail})

CodeKinds == {"code", "change"}
ChangeKinds == {"code", "change", "confirm", "revert"}
AllButLogins == ChangeKinds \cup {"admin"}
SessionKinds == ChangeKinds \cup {"login", "others"}
=============================================================================
