-------------------------- MODULE MCParameterStore --------------------------
(* Instances of ParameterStore for TLC: two processes, a request in each.  *)
EXTENDS ParameterStore

TwoHomes == [r \in Req |-> IF r = "b" THEN "q" ELSE "p"]
=============================================================================
