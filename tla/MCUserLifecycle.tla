-------------------------- MODULE MCUserLifecycle --------------------------
(* An instance of UserLifecycle for TLC: every operation.  Request slots   *)
(* are interchangeable.                                                    *)
EXTENDS UserLifecycle, TLC

Symmetry == Permutations(Req)

AllKinds == {"register", "create", "populate", "verify", "resend", "update",
             "delete", "toggle"}
=============================================================================
