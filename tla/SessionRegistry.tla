-------------------------- MODULE SessionRegistry --------------------------
(***************************************************************************)
(* What an account is promised about its sessions, without requests,       *)
(* epochs and denylist.  A session is a refresh token: it is opened once,  *)
(* by somebody who proved the password in force, and it is open until its  *)
(* own logout, a logout of all, a change of the password or its expiry.    *)
(*                                                                         *)
(*   password   the number of changes that led to it                       *)
(*   clock      in seconds                                                 *)
(*   issued     all sessions ever, each with its jti, exp and gen, the     *)
(*              password it goes back to                                   *)
(*   open       those that POST /auth/refresh exchanges                    *)
(*   loggedOut  the ids whose logout was confirmed                         *)
(***************************************************************************)
EXTENDS Integers

VARIABLES password, clock, issued, open, loggedOut

vars == <<password, clock, issued, open, loggedOut>>

\* Tokens of an earlier version of the service may be about; none is open.
Init == password = 0 /\ clock \in Nat /\ open = {} /\ loggedOut = {}

\* A login overtaken by a revocation issues a session that is never open.
Issue(s) ==
    /\ \A t \in issued : t.jti # s.jti
    /\ issued' = issued \cup {s}
    /\ \/ open' = open
       \/ open' = open \cup {s} /\ s.gen = password /\ clock < s.exp
    /\ UNCHANGED <<password, clock, loggedOut>>

LogOut(j) ==
    /\ open' = {s \in open : s.jti # j}
    /\ loggedOut' = loggedOut \cup {j}
    /\ UNCHANGED <<password, clock, issued>>

LogOutAll ==
    /\ open' = {}
    /\ UNCHANGED <<password, clock, issued, loggedOut>>

ChangePassword ==
    /\ password' = password + 1
    /\ open' = {}
    /\ UNCHANGED <<clock, issued, loggedOut>>

Tick ==
    /\ clock' >= clock
    /\ open' = {s \in open : clock' < s.exp}
    /\ UNCHANGED <<password, issued, loggedOut>>

Next ==
    \/ \E s \in issued' : Issue(s)
    \/ \E s \in issued : LogOut(s.jti)
    \/ LogOutAll \/ ChangePassword \/ Tick

Spec == Init /\ [][Next]_vars
=============================================================================
