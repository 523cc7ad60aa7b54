------------------------- MODULE EmailChangeProofs -------------------------
(***************************************************************************)
(* Proofs about EmailChange, for every set of requests and addresses and   *)
(* every value of the other constants.                                     *)
(***************************************************************************)
EXTENDS EmailChange, TLAPS

(***************************************************************************)
(* Types.  A handler changes at most the document, its own slot and the    *)
(* history of codes and changes.                                           *)
(***************************************************************************)
LEMMA NoPendingType == NoPending \in Pending
BY DEF NoPending, Pending

LEMMA IdleType == Idle \in Request
BY DEF Idle, Request, Pcs, Verdicts, Address

LEMMA PcType ==
    ASSUME NEW q \in Request, NEW p \in Pcs
    PROVE  /\ [q EXCEPT !.pc = p] \in Request
           /\ [q EXCEPT !.pc = p].pc = p
           /\ \A n \in Nat : [q EXCEPT !.pc = p, !.at = n] \in Request
BY DEF Request

LEMMA SlotType ==
    ASSUME req \in [Req -> Request], NEW r \in Req, NEW q \in Request, Goto(r, q)
    PROVE  req' \in [Req -> Request]
BY DEF Goto

\* Every write of the document leaves a document.
LEMMA CodeWritesType ==
    ASSUME NEW u \in User, NEW c \in Nat, NEW e \in Nat, NEW a \in Nat, NEW n \in Nat
    PROVE  /\ [u EXCEPT !.code = c, !.codeExpires = e, !.attempts = a,
                        !.codeSentAt = n] \in User
           /\ [u EXCEPT !.code = c, !.codeExpires = e] \in User
           /\ [u EXCEPT !.attempts = a] \in User
BY DEF User

LEMMA ChangeWritesType ==
    ASSUME NEW u \in User, NEW q \in Request
    PROVE  /\ \A p \in Pending : [u EXCEPT !.pending = p] \in User
           /\ \A e \in Emails : [u EXCEPT !.email = e] \in User
           /\ BumpSessionEpoch(u) \in User
           /\ UnsetPending(u) \in User
           /\ UnsetReverted(u) \in User
           /\ q.email \in Emails => RestoreEmail(u, q) \in User
           /\ q.email \in Emails => ApplyEmail(u, q) \in User
<1>1. \A p \in Pending : [u EXCEPT !.pending = p] \in User
  BY DEF User
<1>2. \A e \in Emails : [u EXCEPT !.email = e] \in User
  BY DEF User
<1>3. BumpSessionEpoch(u) \in User
  BY DEF BumpSessionEpoch, User
<1>4. UnsetPending(u) \in User
  BY <1>1, NoPendingType DEF UnsetPending
<1>5. UnsetReverted(u) \in User
  BY NoPendingType DEF UnsetReverted, User, Address
<1>6. q.email \in Emails => RestoreEmail(u, q) \in User
  BY <1>2 DEF RestoreEmail
<1>7. ASSUME q.email \in Emails PROVE ApplyEmail(u, q) \in User
  <2> DEFINE t == u.revertToken + 1
             n == q.at + RevertTicks
  <2>1. t \in Nat /\ n \in Nat /\ q.prev \in Address
    BY ConstantsAssumption DEF User, Request
  <2>2. [u EXCEPT !.email = q.email, !.previousEmail = q.prev,
                  !.revertToken = t, !.revertExpires = n] \in User
    <3> HIDE DEF t, n
    <3> QED BY <1>7, <2>1 DEF User
  <2> QED
    BY <2>2 DEF ApplyEmail
<1> QED
  BY <1>1, <1>2, <1>3, <1>4, <1>5, <1>6, <1>7
LEMMA CodesType ==
    ASSUME codes \in [1..MaxCode -> Code], NEW c
    PROVE  /\ [codes EXCEPT ![c].wrong = @ + 1] \in [1..MaxCode -> Code]
           /\ [codes EXCEPT ![c].uses = @ + 1] \in [1..MaxCode -> Code]
           /\ \A n \in Nat :
                [codes EXCEPT ![c].mailedAt = n] \in [1..MaxCode -> Code]
<1>1. CASE c \in 1..MaxCode
  <2>1. codes[c] \in Code
    BY <1>1
  <2>2. /\ [codes[c] EXCEPT !.wrong = @ + 1] \in Code
        /\ [codes[c] EXCEPT !.uses = @ + 1] \in Code
    BY <2>1 DEF Code
  <2>3. \A n \in Nat : [codes[c] EXCEPT !.mailedAt = n] \in Code
    BY <2>1 DEF Code
  <2> QED
    BY <1>1, <2>2, <2>3
<1>2. CASE c \notin 1..MaxCode
  BY <1>2
<1> QED
  BY <1>1, <1>2

\* Types, with what the handlers hold.
TypeInv == TypeOK /\ \A r \in Req : HoldsAddress(req[r])

\* A slot that moves on: what every action does to the requests.
LEMMA SlotStep ==
    ASSUME TypeInv, NEW r \in Req, NEW q \in Request, Goto(r, q), HoldsAddress(q)
    PROVE  /\ req' \in [Req -> Request]
           /\ \A s \in Req : HoldsAddress(req'[s])
BY DEF TypeInv, TypeOK, Goto

LEMMA IdleHolds == HoldsAddress(Idle)
BY DEF HoldsAddress, Idle
\* The requests that an action leaves behind, whatever it does to the stores.
ReqOK == /\ req' \in [Req -> Request]
         /\ \A s \in Req : HoldsAddress(req'[s])

LEMMA FinishStep ==
    ASSUME TypeInv, NEW r \in Req, Finish(r)
    PROVE  ReqOK
BY IdleType, IdleHolds, SlotStep DEF Finish, ReqOK

\* A handler that only moves on keeps what it holds.
LEMMA MoveStep ==
    ASSUME TypeInv, NEW r \in Req, NEW p \in Pcs,
           req[r].pc # "idle", ~HalfDone(req[r]),
           Goto(r, [req[r] EXCEPT !.pc = p])
    PROVE  ReqOK
<1>1. req[r] \in Request /\ req[r].email \in Emails
  BY DEF TypeInv, TypeOK, HoldsAddress
<1>2. /\ [req[r] EXCEPT !.pc = p] \in Request
      /\ [req[r] EXCEPT !.pc = p].email = req[r].email
  BY <1>1 DEF Request
<1> QED
  BY <1>1, <1>2, SlotStep DEF ReqOK, HoldsAddress

\* The fallback goes on without holding anything.
LEMMA HalfStep ==
    ASSUME TypeInv, NEW r \in Req,
           NEW p \in {"confirmUnset", "revertUnset", "bump"},
           Goto(r, [Idle EXCEPT !.pc = p])
    PROVE  ReqOK
<1>1. /\ [Idle EXCEPT !.pc = p] \in Request
      /\ [Idle EXCEPT !.pc = p].pc = p
  <2>1. p \in Pcs
    BY DEF Pcs
  <2> QED
    BY <2>1, IdleType, PcType
<1> QED
  BY <1>1, SlotStep DEF ReqOK, HoldsAddress, HalfDone

LEMMA TypeStep == TypeInv /\ [Next]_vars => TypeInv'
<1> SUFFICES ASSUME TypeInv, [Next]_vars PROVE TypeInv'
  OBVIOUS
<1> USE ConstantsAssumption
<1>a. TypeOK
  BY DEF TypeInv
<1>b. ASSUME ReqOK, UNCHANGED <<stores, codeHistory, changeHistory>>
      PROVE  TypeInv'
  BY <1>a, <1>b DEF ReqOK, TypeInv, TypeOK, stores, codeHistory, changeHistory
<1>c. ASSUME ReqOK, user' \in User,
             UNCHANGED <<taken, sessions, now, codeHistory, changeHistory>>
      PROVE  TypeInv'
  BY <1>a, <1>c DEF ReqOK, TypeInv, TypeOK, codeHistory, changeHistory
<1>d. \A r \in Req : req[r] \in Request
  BY <1>a DEF TypeOK
<1>f. ASSUME ReqOK, user' \in User, UNCHANGED <<taken, sessions, now, codeHistory>>,
             UNCHANGED changeHistory \/ Revoked
      PROVE  TypeInv'
  <2>1. CASE UNCHANGED changeHistory
    BY <1>c, <1>f, <2>1
  <2>2. CASE Revoked
    <3>1. raced' \subseteq Nat
      BY <1>a, <1>d, <2>2 DEF Revoked, TypeOK, Request
    <3> QED
      BY <1>a, <1>f, <2>2, <3>1 DEF Revoked, ReqOK, TypeInv, TypeOK, codeHistory
  <2> QED
    BY <1>f, <2>1, <2>2
<1>e. user \in User /\ now \in Nat
  BY <1>a DEF TypeOK
<1>1. ASSUME NEW r \in Req, CodeLookup(r) PROVE TypeInv'
  <2> DEFINE q == [Idle EXCEPT !.pc = "sendCode", !.email = user.email, !.at = now]
  <2>1. q \in Request /\ q.email \in Emails
    BY <1>e, IdleType DEF Request, Pcs, Address, User
  <2>2. ReqOK
    BY <1>1, <2>1, SlotStep DEF CodeLookup, HoldsAddress, ReqOK
  <2> QED
    BY <1>1, <1>b, <2>2 DEF CodeLookup
<1>2. ASSUME NEW r \in Req, SendCode(r) PROVE TypeInv'
  <2>1. ReqOK
    BY <1>2, FinishStep DEF SendCode
  <2>2. /\ lastCode + 1 \in 0..MaxCode /\ lastCode + 1 \in Nat
        /\ req[r].at \in Nat /\ req[r].at + CodeTicks \in Nat
        /\ req[r].email \in Address
    <3>1. lastCode \in 0..MaxCode /\ lastCode < MaxCode
      BY <1>2, <1>a DEF SendCode, TypeOK
    <3>2. req[r].at \in Nat /\ req[r].email \in Address
      BY <1>d DEF Request
    <3> QED
      BY <3>1, <3>2
  <2>3. user' \in User
    BY <1>2, <1>e, <2>2, CodeWritesType DEF SendCode
  <2>4. codes' \in [1..MaxCode -> Code]
    BY <1>2, <1>a, <2>2, CodesType DEF SendCode, TypeOK
  <2> QED
    BY <1>2, <1>a, <2>1, <2>2, <2>3, <2>4
       DEF SendCode, ReqOK, TypeInv, TypeOK, changeHistory
<1>3. ASSUME NEW r \in Req, NEW email \in Emails, NEW right \in BOOLEAN,
             ChangeLookup(r, email, right)
      PROVE  TypeInv'
  <2>1. PICK p \in Pcs, v \in Verdicts :
          Goto(r, [Idle EXCEPT !.pc = p, !.email = email, !.verdict = v,
                               !.code = user.code, !.attempts = user.attempts])
    BY <1>3 DEF ChangeLookup, Verdict, Pcs, Verdicts
  <2> DEFINE q == [Idle EXCEPT !.pc = p, !.email = email, !.verdict = v,
                               !.code = user.code, !.attempts = user.attempts]
  <2>2. q \in Request /\ q.email \in Emails
    BY <1>e, IdleType DEF Request, Address, User
  <2>3. ReqOK
    BY <2>1, <2>2, SlotStep DEF HoldsAddress, ReqOK
  <2>4. contested' \subseteq Nat
    <3>1. user.code \in Nat /\ \A s \in Req : req[s].code \in Nat
      BY <1>d, <1>e DEF User, Request
    <3> QED
      BY <1>3, <1>a, <3>1 DEF ChangeLookup, Contest, TypeOK
  <2> QED
    BY <1>3, <1>a, <2>3, <2>4
       DEF ChangeLookup, ReqOK, TypeInv, TypeOK, stores, changeHistory
<1>4. ASSUME NEW r \in Req, CountFailure(r) PROVE TypeInv'
  <2>1. ReqOK
    BY <1>4, FinishStep DEF CountFailure
  <2>2. user' \in User
    <3>1. req[r].attempts + 1 \in Nat
      BY <1>d DEF Request
    <3> QED
      BY <1>4, <1>e, <3>1, CodeWritesType DEF CountFailure
  <2>3. codes' \in [1..MaxCode -> Code]
    BY <1>4, <1>a, CodesType DEF CountFailure, Answered, TypeOK
  <2> QED
    BY <1>4, <1>a, <2>1, <2>2, <2>3
       DEF CountFailure, ReqOK, TypeInv, TypeOK, changeHistory
<1>5. ASSUME NEW r \in Req, ClearHash(r) PROVE TypeInv'
  <2>1. ReqOK
    BY <1>5, MoveStep DEF ClearHash, HalfDone, Pcs
  <2>2. user' \in User
    BY <1>5, <1>e, CodeWritesType DEF ClearHash
  <2> QED
    BY <1>5, <1>c, <2>1, <2>2 DEF ClearHash
<1>6. ASSUME NEW r \in Req, ClearAttempts(r) PROVE TypeInv'
  <2>1. ReqOK
    BY <1>6, FinishStep, MoveStep DEF ClearAttempts, HalfDone, Pcs
  <2>2. user' \in User
    BY <1>6, <1>e, CodeWritesType DEF ClearAttempts
  <2>3. codes' \in [1..MaxCode -> Code]
    <3>1. codes \in [1..MaxCode -> Code]
      BY <1>a DEF TypeOK
    <3>2. [codes EXCEPT ![req[r].code].wrong = @ + 1] \in [1..MaxCode -> Code]
      BY <3>1, CodesType
    <3>3. Answered(req[r]) \/ UNCHANGED codes
      BY <1>6 DEF ClearAttempts
    <3> QED
      BY <3>1, <3>2, <3>3 DEF Answered
  <2>4. UNCHANGED <<taken, sessions, now, lastCode, contested, changeHistory>>
    BY <1>6 DEF ClearAttempts
  <2> QED
    BY <1>a, <2>1, <2>2, <2>3, <2>4 DEF ReqOK, TypeInv, TypeOK, changeHistory
<1>7. ASSUME NEW r \in Req, FindTarget(r) PROVE TypeInv'
  <2> DEFINE q == [req[r] EXCEPT !.pc = "savePending", !.at = now]
  <2>1. /\ q \in Request
        /\ q.email = req[r].email
        /\ req[r].email \in Emails
    BY <1>7, <1>a, <1>d, <1>e DEF FindTarget, TypeInv, HoldsAddress, HalfDone,
       Request, Pcs
  <2>2. ReqOK
    BY <1>7, <2>1, FinishStep, SlotStep DEF FindTarget, HoldsAddress, ReqOK
  <2> QED
    BY <1>7, <1>b, <2>2 DEF FindTarget
<1>8. ASSUME NEW r \in Req, SavePending(r) PROVE TypeInv'
  <2>1. ReqOK
    BY <1>8, FinishStep DEF SavePending
  <2>2. /\ req[r].email \in Emails
        /\ lastPending + 1 \in Nat
        /\ req[r].at + ConfirmTicks \in Nat
    <3>1. req[r].email \in Emails
      BY <1>8 DEF SavePending, TypeInv, HoldsAddress, HalfDone
    <3>2. req[r].at \in Nat
      BY <1>d DEF Request
    <3>3. lastPending \in Nat
      BY <1>a DEF TypeOK
    <3> QED
      BY <3>1, <3>2, <3>3
  <2>3. user' \in User
    BY <1>8, <1>d, <1>e, <2>2, ChangeWritesType DEF SavePending, Pending
  <2>4. codes' \in [1..MaxCode -> Code]
    BY <1>8, <1>a, CodesType DEF SavePending, TypeOK
  <2> QED
    BY <1>8, <1>a, <2>1, <2>2, <2>3, <2>4 DEF SavePending, ReqOK, TypeInv, TypeOK
<1>9. ASSUME NEW r \in Req, ConfirmLookup(r) PROVE TypeInv'
  <2> DEFINE q == [Idle EXCEPT !.pc = "confirm", !.email = user.pending.email,
                     !.prev = user.email, !.at = now,
                     !.token = user.pending.token]
  <2>1. user.pending.email \in Emails /\ user.pending.token \in Nat
    BY <1>9, <1>e DEF ConfirmLookup, User, Pending
  <2>2. q \in Request /\ q.email \in Emails
    BY <1>e, <2>1, IdleType DEF Request, Pcs, Address, User
  <2>3. ReqOK
    BY <1>9, <2>2, SlotStep DEF ConfirmLookup, HoldsAddress, ReqOK
  <2> QED
    BY <1>9, <1>b, <2>3 DEF ConfirmLookup
<1>10. ASSUME NEW r \in Req, RevertLookup(r) PROVE TypeInv'
  <2> DEFINE q == [Idle EXCEPT !.pc = "revert", !.email = user.previousEmail]
  <2>1. user.previousEmail \in Emails
    BY <1>10, <1>e DEF RevertLookup, User, Address
  <2>2. q \in Request /\ q.email \in Emails
    BY <2>1, IdleType DEF Request, Pcs, Address
  <2>3. ReqOK
    BY <1>10, <2>2, SlotStep DEF RevertLookup, HoldsAddress, ReqOK
  <2> QED
    BY <1>10, <1>b, <2>3 DEF RevertLookup
<1>11. ASSUME NEW r \in Req, Duplicate(r) PROVE TypeInv'
  BY <1>11, <1>b, FinishStep DEF Duplicate
<1>12. ASSUME NEW r \in Req, ConfirmEmailChange(r) \/ RevertEmailChange(r)
       PROVE  TypeInv'
  <2>1. req[r].email \in Emails /\ req[r].token \in Nat
    BY <1>12, <1>d DEF ConfirmEmailChange, RevertEmailChange, TypeInv,
       HoldsAddress, HalfDone, Request
  <2>2. ReqOK
    BY <1>12, FinishStep, HalfStep DEF ConfirmEmailChange, RevertEmailChange
  <2>3. user' \in User
    <3>1. ApplyEmail(user, req[r]) \in User /\ RestoreEmail(user, req[r]) \in User
      BY <1>d, <1>e, <2>1, ChangeWritesType
    <3>2. /\ UnsetPending(ApplyEmail(user, req[r])) \in User
          /\ UnsetReverted(RestoreEmail(user, req[r])) \in User
      BY <1>d, <3>1, ChangeWritesType
    <3>3. /\ BumpSessionEpoch(UnsetPending(ApplyEmail(user, req[r]))) \in User
          /\ BumpSessionEpoch(UnsetReverted(RestoreEmail(user, req[r]))) \in User
      BY <1>d, <3>2, ChangeWritesType
    <3> QED
      BY <1>12, <3>1, <3>3 DEF ConfirmEmailChange, RevertEmailChange
  <2>4. UNCHANGED changeHistory \/ Revoked
    BY <1>12 DEF ConfirmEmailChange, RevertEmailChange
  <2>5. UNCHANGED <<taken, sessions, now, codeHistory>>
    BY <1>12 DEF ConfirmEmailChange, RevertEmailChange
  <2> QED
    BY <2>2, <2>3, <2>4, <2>5, <1>f
<1>13. ASSUME NEW r \in Req, UnsetAlone(r) \/ BumpAlone(r) PROVE TypeInv'
  <2>1. ReqOK
    BY <1>13, FinishStep, HalfStep DEF UnsetAlone, BumpAlone
  <2>2. user' \in User
    BY <1>13, <1>d, <1>e, ChangeWritesType DEF UnsetAlone, BumpAlone
  <2>3. UNCHANGED changeHistory \/ Revoked
    BY <1>13 DEF UnsetAlone, BumpAlone
  <2>4. UNCHANGED <<taken, sessions, now, codeHistory>>
    BY <1>13 DEF UnsetAlone, BumpAlone
  <2> QED
    BY <2>1, <2>2, <2>3, <2>4, <1>f
<1>14. ASSUME NEW r \in Req, LoginLookup(r) PROVE TypeInv'
  <2> DEFINE q == [Idle EXCEPT !.pc = "sign", !.email = user.email,
                               !.epoch = user.sessionEpoch]
  <2>1. q \in Request /\ q.email \in Emails
    BY <1>e, IdleType DEF Request, Pcs, Address, User
  <2>2. ReqOK
    BY <1>14, <2>1, SlotStep DEF LoginLookup, HoldsAddress, ReqOK
  <2> QED
    BY <1>14, <1>b, <2>2 DEF LoginLookup
<1>15. ASSUME NEW r \in Req, Sign(r) PROVE TypeInv'
  <2>1. ReqOK
    BY <1>15, FinishStep DEF Sign
  <2>2. req[r].email \in Emails /\ req[r].epoch \in Nat
    BY <1>15, <1>d DEF Sign, TypeInv, HoldsAddress, HalfDone, Request
  <2>3. sessions' \subseteq Session
    BY <1>15, <1>a, <2>2 DEF Sign, TypeOK, Session
  <2> QED
    BY <1>15, <1>a, <2>1, <2>3
       DEF Sign, ReqOK, TypeInv, TypeOK, codeHistory, changeHistory
<1>16. ASSUME NEW r \in Req, RequestFails(r) PROVE TypeInv'
  <2>1. ReqOK
    BY <1>16, FinishStep DEF RequestFails
  <2>2. torn' \in BOOLEAN
    BY <1>16 DEF RequestFails
  <2> QED
    BY <1>16, <1>a, <2>1, <2>2
       DEF RequestFails, ReqOK, TypeInv, TypeOK, stores, codeHistory
<1>17. ASSUME NEW email \in Emails, UpdateUser(email) PROVE TypeInv'
  <2>1. user' \in User
    BY <1>17, <1>d, <1>e, ChangeWritesType, IdleType DEF UpdateUser
  <2> QED
    BY <1>17, <1>a, <2>1
       DEF UpdateUser, TypeInv, TypeOK, codeHistory, changeHistory
<1>18. ASSUME NEW email \in Emails, OtherTakes(email) PROVE TypeInv'
  BY <1>18, <1>a DEF OtherTakes, TypeInv, TypeOK, codeHistory, changeHistory
<1>19. CASE Tick
  BY <1>19, <1>a DEF Tick, TypeInv, TypeOK, codeHistory, changeHistory
<1>20. CASE UNCHANGED vars
  BY <1>20, <1>a DEF TypeInv, TypeOK, vars, stores, codeHistory, changeHistory
<1> QED
  BY <1>1, <1>2, <1>3, <1>4, <1>5, <1>6, <1>7, <1>8, <1>9, <1>10, <1>11,
     <1>12, <1>13, <1>14, <1>15, <1>16, <1>17, <1>18, <1>19, <1>20 DEF Next
LEMMA TypeInit == Init => TypeInv
<1> SUFFICES ASSUME Init PROVE TypeInv
  OBVIOUS
<1> USE ConstantsAssumption DEF Init
<1>1. user \in User
  BY NoPendingType DEF User, Address
<1>2. sessions \subseteq Session
  BY DEF Session
<1>3. codes \in [1..MaxCode -> Code]
  BY DEF Code, Address
<1>4. req \in [Req -> Request]
  BY IdleType
<1>5. torn \in BOOLEAN
  OBVIOUS
<1>8. lastCode \in 0..MaxCode
  OBVIOUS
<1>9. taken \subseteq Emails
  OBVIOUS
<1>6. /\ now \in Nat
      /\ lastPending \in Nat /\ revertedUpTo \in Nat
      /\ raced \subseteq Nat /\ contested \subseteq Nat
  OBVIOUS
<1>7. TypeOK
  <2> HIDE DEF Init
  <2> QED
    BY <1>1, <1>2, <1>3, <1>4, <1>5, <1>6, <1>8, <1>9 DEF TypeOK
<1> QED
  BY <1>7, IdleHolds DEF TypeInv

\* Every variable keeps its type, and the address a handler works with is one.
THEOREM TypeCorrect == Spec => []TypeOK
<1>1. TypeInv => TypeOK
  BY DEF TypeInv
<1> QED
  BY <1>1, TypeInit, TypeStep, PTL DEF Spec

-----------------------------------------------------------------------------
(***************************************************************************)
(* Identity.  Every change of address raises the epoch in the same commit, *)
(* or leaves a handler that is about to; a snapshot of an older epoch can  *)
(* no longer become a usable session.                                      *)
(***************************************************************************)

\* A step that leaves the address, the epoch and the sessions alone, and whose
\* request neither comes from nor goes to a half-done change or a signature.
LEMMA IdentityKept ==
    ASSUME TypeInv, IdentityInv, NEW r \in Req, NEW q, Goto(r, q),
           q.pc # "sign", ~HalfDone(q), ~HalfDone(req[r]),
           user'.email = user.email, user'.sessionEpoch = user.sessionEpoch,
           UNCHANGED <<sessions, torn>>
    PROVE  IdentityInv'
<1>1. req'[r] = q /\ \A s \in Req \ {r} : req'[s] = req[s]
  BY DEF Goto, TypeInv, TypeOK
<1>2. Settled' => Settled
  BY <1>1 DEF Settled
<1>3. ASSUME NEW epoch, NEW email, Fresh(epoch, email)
      PROVE  Fresh(epoch, email)'
  BY <1>2, <1>3 DEF Fresh
<1> QED
  BY <1>1, <1>3 DEF IdentityInv

\* A step that raises the epoch outdates every snapshot.
LEMMA IdentityBumped ==
    ASSUME TypeInv, IdentityInv, NEW r \in Req, NEW q, Goto(r, q),
           q.pc # "sign", user'.sessionEpoch = user.sessionEpoch + 1,
           UNCHANGED sessions
    PROVE  IdentityInv'
<1>1. req'[r] = q /\ \A s \in Req \ {r} : req'[s] = req[s]
  BY DEF Goto, TypeInv, TypeOK
<1>2. user.sessionEpoch \in Nat
  BY DEF TypeInv, TypeOK, User
<1>3. \A epoch \in Nat : \A email : Fresh(epoch, email) => Fresh(epoch, email)'
  BY <1>2 DEF Fresh
<1>4. /\ \A s \in sessions : s.tv \in Nat
      /\ \A s \in Req : req[s].epoch \in Nat
  BY DEF TypeInv, TypeOK, Session, Request
<1> QED
  BY <1>1, <1>3, <1>4 DEF IdentityInv

\* A step after which some change is half done, or torn, promises nothing.
LEMMA IdentityHalf ==
    ASSUME TypeInv, IdentityInv, NEW r \in Req, NEW q, Goto(r, q),
           q.pc # "sign", HalfDone(q) \/ torn',
           user'.sessionEpoch = user.sessionEpoch, UNCHANGED sessions
    PROVE  IdentityInv'
<1>1. req'[r] = q /\ \A s \in Req \ {r} : req'[s] = req[s]
  BY DEF Goto, TypeInv, TypeOK
<1>2. ~Settled'
  BY <1>1 DEF Settled
<1>3. \A epoch, email : Fresh(epoch, email) => Fresh(epoch, email)'
  BY <1>2 DEF Fresh
<1> QED
  BY <1>1, <1>3 DEF IdentityInv
\* The writes of the fallback, and the ones that leave the identity alone.
LEMMA IdentityFields ==
    ASSUME NEW u \in User, NEW q
    PROVE  /\ ApplyEmail(u, q).sessionEpoch = u.sessionEpoch
           /\ RestoreEmail(u, q).sessionEpoch = u.sessionEpoch
           /\ UnsetPending(u).sessionEpoch = u.sessionEpoch
           /\ UnsetReverted(u).sessionEpoch = u.sessionEpoch
           /\ BumpSessionEpoch(u).sessionEpoch = u.sessionEpoch + 1
BY DEF ApplyEmail, RestoreEmail, UnsetPending, UnsetReverted,
       BumpSessionEpoch, User

LEMMA IdentityInit == Init => IdentityInv
BY DEF Init, IdentityInv, Fresh, Idle

LEMMA IdentityStep ==
    ASSUME "admin" \notin Kinds
    PROVE  TypeInv /\ TypeInv' /\ IdentityInv /\ [Next]_vars => IdentityInv'
<1> SUFFICES ASSUME TypeInv, TypeInv', IdentityInv, [Next]_vars
             PROVE  IdentityInv'
  OBVIOUS
<1>a. user \in User /\ \A r \in Req : req[r] \in Request
  BY DEF TypeInv, TypeOK
<1>b. Idle.pc = "idle" /\ ~HalfDone(Idle)
  BY DEF Idle, HalfDone
<1>c. ASSUME NEW r \in Req, NEW p \in Pcs
      PROVE  /\ [Idle EXCEPT !.pc = p].pc = p
             /\ [req[r] EXCEPT !.pc = p].pc = p
  BY <1>a, PcType, IdleType
<1>1. ASSUME NEW r \in Req,
             CodeLookup(r) \/ ConfirmLookup(r) \/ RevertLookup(r)
      PROVE  IdentityInv'
  <2>1. PICK q : Goto(r, q) /\ q.pc \in {"sendCode", "confirm", "revert"}
    <3>1. CASE CodeLookup(r)
      <4> DEFINE c == [Idle EXCEPT !.pc = "sendCode", !.email = user.email,
                                   !.at = now]
      <4>1. Goto(r, c)
        BY <3>1 DEF CodeLookup
      <4>2. c.pc = "sendCode"
        BY DEF Idle
      <4> HIDE DEF c
      <4> QED
        BY <4>1, <4>2
    <3>2. CASE ConfirmLookup(r)
      <4> DEFINE c == [Idle EXCEPT !.pc = "confirm", !.email = user.pending.email,
                                   !.prev = user.email, !.at = now,
                                   !.token = user.pending.token]
      <4>1. Goto(r, c)
        BY <3>2 DEF ConfirmLookup
      <4>2. c.pc = "confirm"
        BY DEF Idle
      <4> HIDE DEF c
      <4> QED
        BY <4>1, <4>2
    <3>3. CASE RevertLookup(r)
      <4> DEFINE c == [Idle EXCEPT !.pc = "revert", !.email = user.previousEmail]
      <4>1. Goto(r, c)
        BY <3>3 DEF RevertLookup
      <4>2. c.pc = "revert"
        BY DEF Idle
      <4> HIDE DEF c
      <4> QED
        BY <4>1, <4>2
    <3> QED
      BY <1>1, <3>1, <3>2, <3>3
  <2>2. ~HalfDone(q) /\ q.pc # "sign" /\ ~HalfDone(req[r])
    BY <1>1, <2>1 DEF HalfDone, CodeLookup, ConfirmLookup, RevertLookup, Starts
  <2>3. UNCHANGED <<user, sessions, torn>>
    BY <1>1 DEF CodeLookup, ConfirmLookup, RevertLookup, stores, changeHistory
  <2> QED
    BY <2>1, <2>2, <2>3, IdentityKept
<1>2. ASSUME NEW r \in Req, NEW email \in Emails, NEW right \in BOOLEAN,
             ChangeLookup(r, email, right)
      PROVE  IdentityInv'
  <2>1. PICK q : Goto(r, q) /\ q.pc \in {"countFailure", "clearHash"}
    <3>1. PICK p \in {"countFailure", "clearHash"}, v \in Verdicts :
            Goto(r, [Idle EXCEPT !.pc = p, !.email = email, !.verdict = v,
                                 !.code = user.code, !.attempts = user.attempts])
      BY <1>2 DEF ChangeLookup, Verdict, Verdicts
    <3> DEFINE c == [Idle EXCEPT !.pc = p, !.email = email, !.verdict = v,
                                 !.code = user.code, !.attempts = user.attempts]
    <3>2. Goto(r, c)
      BY <3>1
    <3>3. c.pc = p
      BY DEF Idle
    <3> HIDE DEF c
    <3> QED
      BY <3>2, <3>3
  <2>2. ~HalfDone(q) /\ q.pc # "sign" /\ ~HalfDone(req[r])
    BY <1>2, <2>1 DEF HalfDone, ChangeLookup, Starts
  <2>3. UNCHANGED <<user, sessions, torn>>
    BY <1>2 DEF ChangeLookup, stores, changeHistory
  <2> QED
    BY <2>1, <2>2, <2>3, IdentityKept
<1>3. ASSUME NEW r \in Req,
             SendCode(r) \/ CountFailure(r) \/ SavePending(r) \/ Duplicate(r)
      PROVE  IdentityInv'
  <2>1. Goto(r, Idle) /\ ~HalfDone(req[r]) /\ UNCHANGED <<sessions, torn>>
    BY <1>3 DEF SendCode, CountFailure, SavePending, Duplicate, Finish,
       HalfDone, stores, changeHistory
  <2>2. user'.email = user.email /\ user'.sessionEpoch = user.sessionEpoch
    BY <1>3, <1>a DEF SendCode, CountFailure, SavePending, Duplicate, stores, User
  <2> QED
    BY <2>1, <2>2, <1>b, IdentityKept
<1>4. ASSUME NEW r \in Req, ClearHash(r) \/ ClearAttempts(r) \/ FindTarget(r)
      PROVE  IdentityInv'
  <2>1. PICK q : Goto(r, q) /\ q.pc \in {"idle", "clearAttempts", "target", "savePending"}
    <3>1. CASE Goto(r, Idle)
      BY <3>1, <1>b
    <3>2. ASSUME NEW p \in {"clearAttempts", "target"},
                 Goto(r, [req[r] EXCEPT !.pc = p])
          PROVE  \E q : Goto(r, q) /\ q.pc \in {"idle", "clearAttempts", "target", "savePending"}
      <4> DEFINE c == [req[r] EXCEPT !.pc = p]
      <4>1. Goto(r, c)
        BY <3>2
      <4>2. c.pc = p
        BY <1>c DEF Pcs
      <4> HIDE DEF c
      <4> QED
        BY <4>1, <4>2
    <3>3. CASE Goto(r, [req[r] EXCEPT !.pc = "savePending", !.at = now])
      <4> DEFINE c == [req[r] EXCEPT !.pc = "savePending", !.at = now]
      <4>1. Goto(r, c)
        BY <3>3
      <4>2. c.pc = "savePending"
        BY <1>a DEF Request
      <4> HIDE DEF c
      <4> QED
        BY <4>1, <4>2
    <3> QED
      BY <1>4, <3>1, <3>2, <3>3 DEF ClearHash, ClearAttempts, FindTarget, Finish
  <2>2. ~HalfDone(q) /\ q.pc # "sign" /\ ~HalfDone(req[r])
    BY <1>4, <2>1 DEF HalfDone, ClearHash, ClearAttempts, FindTarget
  <2>3. UNCHANGED <<sessions, torn>>
    BY <1>4 DEF ClearHash, ClearAttempts, FindTarget, stores, changeHistory
  <2>4. user'.email = user.email /\ user'.sessionEpoch = user.sessionEpoch
    BY <1>4, <1>a DEF ClearHash, ClearAttempts, FindTarget, stores, User
  <2> QED
    BY <2>1, <2>2, <2>3, <2>4, IdentityKept
<1>5. ASSUME NEW r \in Req, ConfirmEmailChange(r) \/ RevertEmailChange(r)
      PROVE  IdentityInv'
  <2>0. UNCHANGED sessions
    BY <1>5 DEF ConfirmEmailChange, RevertEmailChange
  <2>1. CASE /\ Goto(r, Idle)
             /\ \/ user' = BumpSessionEpoch(UnsetPending(ApplyEmail(user, req[r])))
                \/ user' = BumpSessionEpoch(UnsetReverted(RestoreEmail(user, req[r])))
    <3>1. user'.sessionEpoch = user.sessionEpoch + 1
      <4>1. req[r].email \in Emails
        BY <1>5 DEF ConfirmEmailChange, RevertEmailChange, TypeInv,
           HoldsAddress, HalfDone
      <4>2. /\ ApplyEmail(user, req[r]) \in User
            /\ RestoreEmail(user, req[r]) \in User
        BY <4>1, <1>a, ChangeWritesType
      <4>3. /\ UnsetPending(ApplyEmail(user, req[r])) \in User
            /\ UnsetReverted(RestoreEmail(user, req[r])) \in User
        BY <4>2, <1>a, ChangeWritesType
      <4>4. /\ UnsetPending(ApplyEmail(user, req[r])).sessionEpoch = user.sessionEpoch
            /\ UnsetReverted(RestoreEmail(user, req[r])).sessionEpoch = user.sessionEpoch
        BY <4>2, <1>a, IdentityFields
      <4> QED
        BY <2>1, <4>3, <4>4, IdentityFields
    <3> QED
      BY <2>0, <2>1, <3>1, <1>b, IdentityBumped
  <2>2. CASE \/ /\ user' = ApplyEmail(user, req[r])
                /\ Goto(r, [Idle EXCEPT !.pc = "confirmUnset"])
             \/ /\ user' = RestoreEmail(user, req[r])
                /\ Goto(r, [Idle EXCEPT !.pc = "revertUnset"])
    <3>1. PICK p \in {"confirmUnset", "revertUnset"} : Goto(r, [Idle EXCEPT !.pc = p])
      BY <2>2
    <3>2. [Idle EXCEPT !.pc = p].pc = p
      BY <1>c DEF Pcs
    <3>3. HalfDone([Idle EXCEPT !.pc = p]) /\ [Idle EXCEPT !.pc = p].pc # "sign"
      BY <3>1, <3>2 DEF HalfDone
    <3>4. user'.sessionEpoch = user.sessionEpoch
      BY <2>2, <1>a, IdentityFields
    <3> QED
      BY <2>0, <3>1, <3>3, <3>4, IdentityHalf
  <2> QED
    BY <1>5, <2>1, <2>2 DEF ConfirmEmailChange, RevertEmailChange, Finish
<1>6. ASSUME NEW r \in Req, UnsetAlone(r) PROVE IdentityInv'
  <2>1. /\ Goto(r, [Idle EXCEPT !.pc = "bump"])
        /\ [Idle EXCEPT !.pc = "bump"].pc = "bump"
        /\ UNCHANGED sessions
    BY <1>6, <1>c DEF UnsetAlone, Pcs
  <2>2. user'.sessionEpoch = user.sessionEpoch
    BY <1>6, <1>a, IdentityFields DEF UnsetAlone
  <2>3. HalfDone([Idle EXCEPT !.pc = "bump"])
    BY <2>1 DEF HalfDone
  <2> QED
    BY <2>1, <2>2, <2>3, IdentityHalf
<1>7. ASSUME NEW r \in Req, BumpAlone(r) PROVE IdentityInv'
  BY <1>7, <1>a, <1>b, IdentityFields, IdentityBumped DEF BumpAlone, Finish
<1>8. ASSUME NEW r \in Req, LoginLookup(r) PROVE IdentityInv'
  <2> DEFINE q == [Idle EXCEPT !.pc = "sign", !.email = user.email,
                               !.epoch = user.sessionEpoch]
  <2>1. q.pc = "sign" /\ q.email = user.email /\ q.epoch = user.sessionEpoch
    BY DEF Idle
  <2>2. req'[r] = q /\ \A s \in Req \ {r} : req'[s] = req[s]
    BY <1>8 DEF LoginLookup, Goto, TypeInv, TypeOK
  <2>3. UNCHANGED <<user, sessions, torn>>
    BY <1>8 DEF LoginLookup, stores, changeHistory
  <2>4. ~HalfDone(req[r])
    BY <1>8 DEF LoginLookup, Starts, HalfDone
  <2> HIDE DEF q
  <2>5. Settled' => Settled
    BY <2>2, <2>3, <2>4 DEF Settled
  <2>6. user.sessionEpoch \in Nat
    BY <1>a DEF User
  <2>7. Fresh(user.sessionEpoch, user.email)'
    BY <2>3, <2>6 DEF Fresh
  <2>8. \A epoch, email : Fresh(epoch, email) => Fresh(epoch, email)'
    BY <2>3, <2>5 DEF Fresh
  <2>9. ASSUME NEW s \in Req, req'[s].pc = "sign"
        PROVE  Fresh(req[s].epoch, req[s].email)'
    <3>1. CASE s = r
      BY <2>1, <2>2, <2>3, <2>7, <3>1 DEF Fresh
    <3>2. CASE s # r
      <4>1. Fresh(req[s].epoch, req[s].email)
        BY <2>2, <2>9, <3>2 DEF IdentityInv
      <4> QED
        BY <2>2, <2>3, <2>5, <3>2, <4>1 DEF Fresh
    <3> QED
      BY <3>1, <3>2
  <2>10. ASSUME NEW s \in sessions' PROVE Fresh(s.tv, s.email)'
    BY <2>3, <2>8, <2>10 DEF IdentityInv
  <2> QED
    BY <2>9, <2>10 DEF IdentityInv
<1>9. ASSUME NEW r \in Req, Sign(r) PROVE IdentityInv'
  <2>1. req'[r] = Idle /\ \A s \in Req \ {r} : req'[s] = req[s]
    BY <1>9 DEF Sign, Finish, Goto, TypeInv, TypeOK
  <2>2. UNCHANGED <<user, torn>> /\ req[r].pc = "sign"
    BY <1>9 DEF Sign, changeHistory
  <2>3. Settled' => Settled
    BY <2>1, <2>2 DEF Settled, HalfDone
  <2>4. \A epoch, email : Fresh(epoch, email) => Fresh(epoch, email)'
    BY <2>2, <2>3 DEF Fresh
  <2>5. Fresh(req[r].epoch, req[r].email)
    BY <2>2 DEF IdentityInv
  <2>6. ASSUME NEW s \in sessions' PROVE Fresh(s.tv, s.email)'
    <3>1. s \in sessions \/ s = [email |-> req[r].email, tv |-> req[r].epoch]
      BY <1>9 DEF Sign
    <3> QED
      BY <2>4, <2>5, <3>1 DEF IdentityInv
  <2>7. ASSUME NEW s \in Req, req'[s].pc = "sign"
        PROVE  Fresh(req[s].epoch, req[s].email)'
    <3>1. s # r /\ req'[s] = req[s]
      BY <2>1, <2>7, <1>b
    <3>2. Fresh(req[s].epoch, req[s].email)
      BY <2>7, <3>1 DEF IdentityInv
    <3> QED
      BY <2>2, <2>3, <3>1, <3>2 DEF Fresh
  <2> QED
    BY <2>6, <2>7 DEF IdentityInv
<1>10. ASSUME NEW r \in Req, RequestFails(r) PROVE IdentityInv'
  <2>1. Goto(r, Idle) /\ UNCHANGED <<user, sessions>>
    BY <1>10 DEF RequestFails, Finish, stores
  <2>2. CASE HalfDone(req[r])
    BY <1>10, <2>1, <2>2, <1>b, IdentityHalf DEF RequestFails
  <2>3. CASE ~HalfDone(req[r])
    <3>1. torn' = torn
      BY <1>10, <2>3 DEF RequestFails, TypeInv, TypeOK
    <3> QED
      BY <2>1, <2>3, <3>1, <1>b, IdentityKept
  <2> QED
    BY <2>2, <2>3
<1>11. ASSUME NEW email \in Emails, UpdateUser(email) PROVE FALSE
  BY <1>11 DEF UpdateUser
<1>12. ASSUME \/ \E email \in Emails : OtherTakes(email)
              \/ Tick
              \/ UNCHANGED vars
       PROVE  IdentityInv'
  <2>1. UNCHANGED <<user, sessions, req, torn>>
    BY <1>12 DEF OtherTakes, Tick, vars, stores, changeHistory
  <2>2. Settled' <=> Settled
    BY <2>1 DEF Settled
  <2>3. \A epoch, email : Fresh(epoch, email) => Fresh(epoch, email)'
    BY <2>1, <2>2 DEF Fresh
  <2> QED
    BY <2>1, <2>3 DEF IdentityInv
<1> QED
  BY <1>1, <1>2, <1>3, <1>4, <1>5, <1>6, <1>7, <1>8, <1>9, <1>10, <1>11,
     <1>12 DEF Next

\* If administrators do not rewrite addresses, then outside half-done changes a
\* usable session carries the current address, whatever requests are in flight,
\* with transactions and without, and whichever of them die.
THEOREM CurrentIdentityOnly ==
    ASSUME "admin" \notin Kinds
    PROVE  Spec => []OnlyCurrentIdentitySessions
<1>1. TypeInv /\ IdentityInv => OnlyCurrentIdentitySessions
  <2> SUFFICES ASSUME TypeInv, IdentityInv, Settled, NEW s \in sessions,
                      Acceptable(s)
               PROVE  s.email = user.email
    BY DEF OnlyCurrentIdentitySessions
  <2>1. s.tv \in Nat /\ user.sessionEpoch \in Nat
    BY DEF TypeInv, TypeOK, Session, User
  <2>2. Fresh(s.tv, s.email)
    BY DEF IdentityInv
  <2> QED
    BY <2>1, <2>2 DEF Fresh, Acceptable
<1>2. TypeInv /\ IdentityInv /\ [Next]_vars => TypeInv' /\ IdentityInv'
  BY TypeStep, IdentityStep
<1> QED
  BY <1>1, <1>2, TypeInit, IdentityInit, PTL DEF Spec

-----------------------------------------------------------------------------
(* What the handlers that judge no code leave alone                        *)

\* The writes of a confirmation and of a revert leave the code alone.
LEMMA CodeFields ==
    ASSUME NEW u \in User, NEW q,
           NEW w \in {ApplyEmail(u, q), RestoreEmail(u, q), UnsetPending(u),
                      UnsetReverted(u), BumpSessionEpoch(u)}
    PROVE  w.code = u.code /\ w.attempts = u.attempts
BY DEF ApplyEmail, RestoreEmail, UnsetPending, UnsetReverted,
       BumpSessionEpoch, User

LEMMA PendingFields ==
    ASSUME NEW u \in User, NEW q
    PROVE  /\ ApplyEmail(u, q).pending = u.pending
           /\ RestoreEmail(u, q).pending = u.pending
           /\ BumpSessionEpoch(u).pending = u.pending
           /\ UnsetPending(u).pending = NoPending
           /\ UnsetReverted(u).pending = NoPending
BY DEF ApplyEmail, RestoreEmail, UnsetPending, UnsetReverted,
       BumpSessionEpoch, User

\* The steps of the other handlers, and the end of any.
Elsewhere(r) ==
    \/ CodeLookup(r) \/ ConfirmLookup(r) \/ RevertLookup(r) \/ Duplicate(r)
    \/ ConfirmEmailChange(r) \/ RevertEmailChange(r) \/ UnsetAlone(r)
    \/ BumpAlone(r) \/ LoginLookup(r) \/ Sign(r) \/ RequestFails(r)

LEMMA ElsewhereSlot ==
    ASSUME NEW r \in Req, Elsewhere(r)
    PROVE  \E q : /\ Goto(r, q) /\ q.pc \notin Judging
                  /\ q.pc = "sendCode" => CodeLookup(r)
                  /\ q.pc = "confirm" => ConfirmLookup(r)
<1>1. CASE CodeLookup(r)
  <2>1. PICK q : q = [Idle EXCEPT !.pc = "sendCode", !.email = user.email, !.at = now]
    OBVIOUS
  <2>2. Goto(r, q) /\ q.pc = "sendCode"
    BY <1>1, <2>1 DEF CodeLookup, Idle
  <2> QED
    BY <1>1, <2>2 DEF Judging
<1>2. CASE ConfirmLookup(r)
  <2>1. PICK q : q = [Idle EXCEPT !.pc = "confirm", !.email = user.pending.email,
                                  !.prev = user.email, !.at = now,
                                  !.token = user.pending.token]
    OBVIOUS
  <2>2. Goto(r, q) /\ q.pc = "confirm"
    BY <1>2, <2>1 DEF ConfirmLookup, Idle
  <2> QED
    BY <1>2, <2>2 DEF Judging
<1>3. CASE RevertLookup(r)
  <2>1. PICK q : q = [Idle EXCEPT !.pc = "revert", !.email = user.previousEmail]
    OBVIOUS
  <2>2. Goto(r, q) /\ q.pc = "revert"
    BY <1>3, <2>1 DEF RevertLookup, Idle
  <2> QED
    BY <2>2 DEF Judging
<1>4. CASE LoginLookup(r)
  <2>1. PICK q : q = [Idle EXCEPT !.pc = "sign", !.email = user.email,
                                  !.epoch = user.sessionEpoch]
    OBVIOUS
  <2>2. Goto(r, q) /\ q.pc = "sign"
    BY <1>4, <2>1 DEF LoginLookup, Idle
  <2> QED
    BY <2>2 DEF Judging
<1>5. ASSUME NEW p \in {"confirmUnset", "revertUnset", "bump"},
             Goto(r, [Idle EXCEPT !.pc = p])
      PROVE  \E q : Goto(r, q) /\ q.pc \in {"idle", "confirmUnset", "revertUnset", "bump"}
  <2>1. [Idle EXCEPT !.pc = p].pc = p
    BY DEF Idle
  <2> QED
    BY <1>5, <2>1
<1>6. ASSUME Goto(r, Idle)
      PROVE  \E q : Goto(r, q) /\ q.pc \in {"idle", "confirmUnset", "revertUnset", "bump"}
  BY <1>6 DEF Idle
<1>7. CASE \/ Duplicate(r) \/ ConfirmEmailChange(r) \/ RevertEmailChange(r)
           \/ UnsetAlone(r) \/ BumpAlone(r) \/ Sign(r) \/ RequestFails(r)
  <2>1. \/ Goto(r, Idle)
        \/ \E p \in {"confirmUnset", "revertUnset", "bump"} :
              Goto(r, [Idle EXCEPT !.pc = p])
    BY <1>7 DEF Duplicate, ConfirmEmailChange, RevertEmailChange, UnsetAlone,
         BumpAlone, Sign, RequestFails, Finish
  <2>2. PICK q : Goto(r, q) /\ q.pc \in {"idle", "confirmUnset", "revertUnset", "bump"}
    BY <1>5, <1>6, <2>1
  <2> QED
    BY <2>2 DEF Judging
<1> QED
  BY <1>1, <1>2, <1>3, <1>4, <1>7 DEF Elsewhere

LEMMA ElsewhereKeeps ==
    ASSUME TypeInv, NEW r \in Req, Elsewhere(r)
    PROVE  /\ user'.code = user.code /\ user'.attempts = user.attempts
           /\ UNCHANGED <<codeHistory, lastPending>>
<1>1. user \in User
  BY DEF TypeInv, TypeOK
<1>2. UNCHANGED <<codeHistory, lastPending>>
  BY DEF Elsewhere, CodeLookup, ConfirmLookup, RevertLookup, Duplicate,
     ConfirmEmailChange, RevertEmailChange, UnsetAlone, BumpAlone, LoginLookup,
     Sign, RequestFails, Revoked, stores, changeHistory
<1>3. CASE UNCHANGED user
  BY <1>2, <1>3
<1>4. CASE user' = UnsetPending(user) \/ user' = UnsetReverted(user)
             \/ user' = BumpSessionEpoch(user)
  BY <1>1, <1>2, <1>4, CodeFields
<1>5. CASE \/ user' = ApplyEmail(user, req[r]) \/ user' = RestoreEmail(user, req[r])
  BY <1>1, <1>2, <1>5, CodeFields
<1>6. CASE \/ user' = BumpSessionEpoch(UnsetPending(ApplyEmail(user, req[r])))
           \/ user' = BumpSessionEpoch(UnsetReverted(RestoreEmail(user, req[r])))
  <2>1. req[r] \in Request
    BY DEF TypeInv, TypeOK
  <2>2. CASE /\ req[r].email \in Emails
    <3>1. /\ ApplyEmail(user, req[r]) \in User /\ RestoreEmail(user, req[r]) \in User
      BY <1>1, <2>1, <2>2, ChangeWritesType
    <3>2. /\ UnsetPending(ApplyEmail(user, req[r])) \in User
          /\ UnsetReverted(RestoreEmail(user, req[r])) \in User
      BY <2>1, <3>1, ChangeWritesType
    <3>3. /\ \A w \in {ApplyEmail(user, req[r]), RestoreEmail(user, req[r])} :
               /\ w.code = user.code /\ w.attempts = user.attempts
      BY <1>1, CodeFields
    <3>4. PICK v \in User : /\ v \in {UnsetPending(ApplyEmail(user, req[r])),
                                      UnsetReverted(RestoreEmail(user, req[r]))}
                            /\ user' = BumpSessionEpoch(v)
      BY <1>6, <3>2
    <3>5. v.code = user.code /\ v.attempts = user.attempts
      BY <3>1, <3>3, <3>4, CodeFields
    <3> QED
      BY <1>2, <3>4, <3>5, CodeFields
  <2>3. CASE ~UNCHANGED user
    <3>1. req[r].pc \in {"confirm", "revert", "confirmUnset", "revertUnset", "bump"}
      BY <2>3 DEF Elsewhere, CodeLookup, ConfirmLookup, RevertLookup, Duplicate,
        ConfirmEmailChange, RevertEmailChange, UnsetAlone, BumpAlone, LoginLookup,
        Sign, RequestFails, stores
    <3>2. CASE req[r].pc \in {"confirm", "revert"}
      <4>1. req[r].email \in Emails
        BY <3>2 DEF TypeInv, HoldsAddress, HalfDone
      <4> QED
        BY <2>2, <4>1
    <3>3. CASE req[r].pc \in {"confirmUnset", "revertUnset", "bump"}
      <4>1. user' \in {UnsetPending(user), UnsetReverted(user), BumpSessionEpoch(user)}
        BY <2>3, <3>3 DEF Elsewhere, CodeLookup, ConfirmLookup, RevertLookup, Duplicate,
          ConfirmEmailChange, RevertEmailChange, UnsetAlone, BumpAlone, LoginLookup,
          Sign, RequestFails, stores, Starts
      <4> QED
        BY <1>4, <4>1
    <3> QED
      BY <3>1, <3>2, <3>3
  <2> QED
    BY <1>3, <2>3
<1> QED
  BY <1>3, <1>4, <1>5, <1>6 DEF Elsewhere, CodeLookup, ConfirmLookup, RevertLookup,
     Duplicate, ConfirmEmailChange, RevertEmailChange, UnsetAlone, BumpAlone,
     LoginLookup, Sign, RequestFails, stores

\* The disjuncts of Next, as the proofs below take them.
LEMMA NextCases ==
    ASSUME [Next]_vars
    PROVE  \/ \E r \in Req :
                \/ Elsewhere(r) \/ SendCode(r)
                \/ \E email \in Emails, right \in BOOLEAN : ChangeLookup(r, email, right)
                \/ CountFailure(r) \/ ClearHash(r) \/ ClearAttempts(r)
                \/ FindTarget(r) \/ SavePending(r)
           \/ \E email \in Emails : UpdateUser(email) \/ OtherTakes(email)
           \/ Tick \/ UNCHANGED vars
BY DEF Next, Elsewhere

-----------------------------------------------------------------------------
(***************************************************************************)
(* The life of a code.  Two requests that judge codes at once contest both *)
(* (Alone), so the request that works on an uncontested code is the only   *)
(* one that does: what it read is still so, except for a newer code.       *)
(***************************************************************************)

\* A slot that keeps its code, stops judging, or never did.
LEMMA AloneKept ==
    ASSUME TypeInv, Alone, NEW r \in Req, NEW q, Goto(r, q), contested' = contested,
           q.pc \in Judging => req[r].pc \in Judging /\ q.code = req[r].code
    PROVE  Alone'
<1>1. req'[r] = q /\ \A s \in Req \ {r} : req'[s] = req[s]
  BY DEF Goto, TypeInv, TypeOK
<1>2. ASSUME NEW s \in Req, req'[s].pc \in Judging
      PROVE  req[s].pc \in Judging /\ req'[s].code = req[s].code
  BY <1>1, <1>2
<1> QED
  BY <1>2 DEF Alone

\* A step of a request that judges a code, to what it holds afterwards.
LEMMA SlotsHold ==
    ASSUME TypeInv, CodeInv, NEW r \in Req, NEW q, Goto(r, q), Holds(q)',
           req[r].pc \in Judging, contested' = contested, lastCode' = lastCode,
           user'.code \in {user.code, 0},
           \A c \in 1..MaxCode : c # req[r].code => codes'[c].wrong = codes[c].wrong
    PROVE  \A s \in Req : Holds(req[s])'
<1>1. req'[r] = q /\ \A s \in Req \ {r} : req'[s] = req[s]
  BY DEF Goto, TypeInv, TypeOK
<1>2. lastCode \in 0..MaxCode /\ MaxCode \in Nat
  BY ConstantsAssumption DEF TypeInv, TypeOK
<1>3. ASSUME NEW s \in Req, s # r, req[s].pc \in Judging
      PROVE  Holds(req[s])'
  <2>1. req'[s] = req[s]
    BY <1>1, <1>3
  <2>2. req[s].code \in contested /\ req[r].code \in contested
    BY <1>3 DEF CodeInv, Alone
  <2>3. Holds(req[s])
    BY DEF CodeInv
  <2>4. Judged(req[s])'
    BY <2>1, <2>2 DEF Judged
  <2>5. ASSUME user'.code \notin contested' \cup {0, req[s].code}
        PROVE  codes'[user'.code].wrong = 0
    <3>1. /\ user'.code = user.code /\ user.code # req[r].code
          /\ user.code \notin contested \cup {0, req[s].code}
      BY <2>2, <2>5
    <3>2. codes[user.code].wrong = 0
      BY <1>3, <2>3, <3>1 DEF Holds, Untouched
    <3>3. user.code \in 1..MaxCode
      BY <1>2, <3>1 DEF CodeInv, LiveCode
    <3> QED
      BY <3>1, <3>2, <3>3
  <2>6. Untouched(req[s])'
    BY <2>1, <2>5 DEF Untouched
  <2> QED
    BY <1>3, <2>1, <2>3, <2>4, <2>6 DEF Holds
<1>4. ASSUME NEW s \in Req PROVE Holds(req[s])'
  <2>1. CASE s = r
    BY <1>1, <2>1 DEF Holds, Judged, Untouched
  <2>2. CASE s # r /\ req[s].pc \in Judging
    BY <1>3, <2>2
  <2>3. CASE s # r /\ req[s].pc \notin Judging
    BY <1>1, <2>3 DEF Holds
  <2> QED
    BY <2>1, <2>2, <2>3
<1> QED
  BY <1>4

\* A step that leaves codes alone, and whose request does not judge one.
LEMMA CodeKept ==
    ASSUME TypeInv, CodeInv, NEW r \in Req, NEW q, Goto(r, q), q.pc \notin Judging,
           user'.code = user.code, user'.attempts = user.attempts,
           UNCHANGED codeHistory
    PROVE  CodeInv'
<1>1. req'[r] = q /\ \A s \in Req \ {r} : req'[s] = req[s]
  BY DEF Goto, TypeInv, TypeOK
<1>2. UNCHANGED <<codes, lastCode, contested>>
  BY DEF codeHistory
<1>3. ASSUME NEW s \in Req PROVE Holds(req[s])'
  <2>1. CASE s = r
    BY <1>1, <2>1 DEF Holds
  <2>2. CASE s # r
    <3>1. req'[s] = req[s] /\ Holds(req[s])
      BY <1>1, <2>2 DEF CodeInv
    <3> QED
      BY <1>2, <3>1 DEF Holds, Judged, Untouched
  <2> QED
    BY <2>1, <2>2
<1>4. Alone'
  BY <1>2, AloneKept DEF CodeInv
<1>5. LiveCode' /\ Undrawn'
  BY <1>2 DEF CodeInv, LiveCode, Undrawn
<1>6. UncontestedSingleUse' /\ UncontestedBudget'
  BY <1>2 DEF CodeInv, UncontestedSingleUse, UncontestedBudget
<1> QED
  BY <1>3, <1>4, <1>5, <1>6 DEF CodeInv

\* The new code has no history, and nobody has judged it.
LEMMA SendCodeStep ==
    ASSUME TypeInv, CodeInv, NEW r \in Req, SendCode(r)
    PROVE  CodeInv'
<1>a. /\ user \in User /\ req \in [Req -> Request] /\ lastCode \in 0..MaxCode
      /\ codes \in [1..MaxCode -> Code] /\ MaxCode \in Nat
      /\ MaxCodeAttempts \in Nat \ {0}
  BY ConstantsAssumption DEF TypeInv, TypeOK
<1>b. Idle.pc = "idle" /\ Idle.pc \notin Judging
  BY DEF Idle, Judging
<1>1. /\ lastCode < MaxCode /\ lastCode' = lastCode + 1
      /\ user' = [user EXCEPT !.code = lastCode + 1,
                          !.codeExpires = req[r].at + CodeTicks,
                          !.attempts = 0,
                          !.codeSentAt = req[r].at]
      /\ codes' = [codes EXCEPT ![lastCode + 1].mailedAt = now]
      /\ Goto(r, Idle) /\ contested' = contested
  BY DEF SendCode, Finish
<1>2. user'.code = lastCode + 1 /\ user'.attempts = 0
  BY <1>a, <1>1 DEF User
<1>3. \A c \in 1..MaxCode : /\ codes'[c].uses = codes[c].uses
                            /\ codes'[c].wrong = codes[c].wrong
  BY <1>a, <1>1 DEF Code
<1>4. lastCode + 1 \in 1..MaxCode /\ lastCode + 1 > lastCode
  BY <1>a, <1>1
<1>5. codes[lastCode + 1].uses = 0 /\ codes[lastCode + 1].wrong = 0
  BY <1>4 DEF CodeInv, Undrawn
<1>6. ASSUME NEW s \in Req, req'[s].pc \in Judging
      PROVE  Holds(req[s])'
  <2>1. req'[s] = req[s] /\ Holds(req[s])
    BY <1>a, <1>b, <1>1, <1>6 DEF Goto, CodeInv
  <2>2. req[s].code \in 1..lastCode /\ Judged(req[s])
    BY <1>6, <2>1 DEF Holds
  <2>3. req[s].code \in 1..MaxCode /\ req[s].code # lastCode + 1
        /\ req[s].code \in 1..lastCode'
    BY <1>a, <1>1, <2>2
  <2>4. Judged(req[s])'
    BY <1>1, <1>2, <1>3, <2>1, <2>2, <2>3 DEF Judged
  <2>5. Untouched(req[s])'
    BY <1>2, <1>3, <1>4, <1>5 DEF Untouched
  <2> QED
    BY <1>6, <2>1, <2>3, <2>4, <2>5 DEF Holds
<1>7. \A s \in Req : Holds(req[s])'
  BY <1>6 DEF Holds
<1>8. Alone'
  BY <1>b, <1>1, AloneKept DEF CodeInv
<1>9. LiveCode'
  BY <1>a, <1>1, <1>2, <1>3, <1>4, <1>5 DEF LiveCode
<1>10. \A c \in 1..MaxCode : c > lastCode + 1 => codes[c].uses = 0 /\ codes[c].wrong = 0
  BY <1>a DEF CodeInv, Undrawn
<1>11. Undrawn'
  BY <1>1, <1>3, <1>10 DEF Undrawn
<1>12. UncontestedSingleUse' /\ UncontestedBudget'
  BY <1>1, <1>3 DEF CodeInv, UncontestedSingleUse, UncontestedBudget
<1> QED
  BY <1>7, <1>8, <1>9, <1>11, <1>12 DEF CodeInv

\* A request that begins to judge a code is alone with it, or contests it.
LEMMA ChangeLookupStep ==
    ASSUME TypeInv, CodeInv, NEW r \in Req, NEW email, NEW right \in BOOLEAN,
           ChangeLookup(r, email, right)
    PROVE  CodeInv'
<1>a. /\ user \in User /\ req \in [Req -> Request] /\ lastCode \in 0..MaxCode
      /\ codes \in [1..MaxCode -> Code] /\ MaxCode \in Nat
      /\ MaxCodeAttempts \in Nat \ {0}
  BY ConstantsAssumption DEF TypeInv, TypeOK
<1>1. PICK verdict, counted :
        /\ verdict = Verdict(right)
        /\ counted = (verdict = "wrong" /\ user.attempts + 1 < MaxCodeAttempts)
  OBVIOUS
<1>2. PICK q : q = [Idle EXCEPT
                    !.pc = IF counted THEN "countFailure" ELSE "clearHash",
                    !.email = email, !.verdict = verdict,
                    !.code = user.code, !.attempts = user.attempts]
  OBVIOUS
<1>3. /\ user.code # 0 /\ Goto(r, q) /\ Contest(r) /\ req[r].pc = "idle"
      /\ UNCHANGED <<user, codes, lastCode>>
  BY <1>1, <1>2 DEF ChangeLookup, Starts, stores
<1>4. /\ q.pc = IF counted THEN "countFailure" ELSE "clearHash"
      /\ q.verdict = verdict /\ q.code = user.code /\ q.attempts = user.attempts
  BY <1>2 DEF Idle
<1>5. req'[r] = q /\ \A s \in Req \ {r} : req'[s] = req[s]
  BY <1>a, <1>3 DEF Goto
<1>6. user.code \in 1..lastCode /\ user.code \in 1..MaxCode
  BY <1>a, <1>3 DEF CodeInv, LiveCode
<1>7. contested \subseteq contested'
  BY <1>3 DEF Contest
<1>8. codes[user.code].wrong \in Nat /\ user.attempts \in Nat
  BY <1>a, <1>6 DEF Code, User
<1>9. ASSUME user.code \notin contested
      PROVE  /\ codes[user.code].uses = 0
             /\ codes[user.code].wrong <= user.attempts
             /\ codes[user.code].wrong < MaxCodeAttempts
  BY <1>a, <1>3, <1>8, <1>9 DEF CodeInv, LiveCode
<1>10. Judged(q)'
  <2> SUFFICES ASSUME user.code \notin contested'
               PROVE  Judged(q)'
    BY <1>4 DEF Judged
  <2>1. user.code \notin contested
    BY <1>7
  <2> QED
    BY <1>1, <1>3, <1>4, <1>9, <2>1 DEF Judged
<1>11. Holds(q)'
  <2>1. q.pc = "countFailure" => q.attempts + 1 < MaxCodeAttempts
    BY <1>1, <1>4
  <2>2. Untouched(q)'
    BY <1>3, <1>4 DEF Untouched
  <2> QED
    BY <1>3, <1>4, <1>6, <1>10, <2>1, <2>2 DEF Holds
<1>12. PICK others : others = {s \in Req \ {r} : req[s].pc \in Judging}
  OBVIOUS
<1>13. contested' = IF others = {} THEN contested
                    ELSE contested \cup {user.code} \cup {req[s].code : s \in others}
  BY <1>3, <1>12 DEF Contest
<1>14. ASSUME NEW s \in others
       PROVE  req[s].code \in contested' /\ user.code \in contested'
  BY <1>13, <1>14
<1>15. ASSUME NEW s \in Req, s # r, req[s].pc \in Judging
       PROVE  Holds(req[s])'
  <2>1. req'[s] = req[s] /\ Holds(req[s])
    BY <1>5, <1>15 DEF CodeInv
  <2>2. req[s].code \in contested' /\ user.code \in contested'
    BY <1>12, <1>14, <1>15
  <2>3. Judged(req[s])' /\ Untouched(req[s])'
    BY <1>3, <2>1, <2>2 DEF Judged, Untouched
  <2> QED
    BY <1>3, <1>15, <2>1, <2>3 DEF Holds
<1>16. ASSUME NEW s \in Req PROVE Holds(req[s])'
  <2>1. CASE s = r
    BY <1>5, <1>11, <2>1 DEF Holds, Judged, Untouched
  <2>2. CASE s # r /\ req[s].pc \in Judging
    BY <1>15, <2>2
  <2>3. CASE s # r /\ req[s].pc \notin Judging
    BY <1>5, <2>3 DEF Holds
  <2> QED
    BY <2>1, <2>2, <2>3
<1>17. ASSUME NEW s \in Req, NEW t \in Req, s # t,
              req'[s].pc \in Judging, req'[t].pc \in Judging
       PROVE  req'[s].code \in contested'
  <2>1. CASE s = r
    <3>1. t \in others
      BY <1>5, <1>12, <1>17, <2>1
    <3> QED
      BY <1>4, <1>5, <1>14, <2>1, <3>1
  <2>2. CASE s # r /\ t = r
    <3>1. s \in others
      BY <1>5, <1>12, <1>17, <2>2
    <3> QED
      BY <1>5, <1>14, <2>2, <3>1
  <2>3. CASE s # r /\ t # r
    BY <1>5, <1>7, <1>17, <2>3 DEF CodeInv, Alone
  <2> QED
    BY <2>1, <2>2, <2>3
<1>18. Alone'
  BY <1>17 DEF Alone
<1>19. LiveCode'
  BY <1>3, <1>7 DEF CodeInv, LiveCode
<1>20. Undrawn' /\ UncontestedSingleUse' /\ UncontestedBudget'
  BY <1>3, <1>7 DEF CodeInv, Undrawn, UncontestedSingleUse, UncontestedBudget
<1> QED
  BY <1>16, <1>18, <1>19, <1>20 DEF CodeInv

\* The counter that was read is still the counter of the code, unless a newer
\* code is live, of which nothing has been answered.
LEMMA CountFailureStep ==
    ASSUME TypeInv, CodeInv, NEW r \in Req, CountFailure(r)
    PROVE  CodeInv'
<1>a. /\ user \in User /\ req \in [Req -> Request] /\ lastCode \in 0..MaxCode
      /\ codes \in [1..MaxCode -> Code] /\ MaxCode \in Nat
      /\ MaxCodeAttempts \in Nat \ {0}
  BY ConstantsAssumption DEF TypeInv, TypeOK
<1>b. Idle.pc = "idle" /\ Idle.pc \notin Judging
  BY DEF Idle, Judging
<1>1. PICK d, n : d = req[r].code /\ n = req[r].attempts
  OBVIOUS
<1>2. /\ req[r].pc = "countFailure" /\ Goto(r, Idle)
      /\ user' = [user EXCEPT !.attempts = n + 1]
      /\ codes' = [codes EXCEPT ![d].wrong = @ + 1]
      /\ UNCHANGED <<lastCode, contested>>
  BY <1>1 DEF CountFailure, Finish, Answered
<1>3. /\ d \in 1..lastCode /\ n + 1 < MaxCodeAttempts
      /\ Judged(req[r]) /\ Untouched(req[r])
  BY <1>1, <1>2 DEF CodeInv, Holds, Judging
<1>4. d \in 1..MaxCode /\ codes[d] \in Code /\ n \in Nat
  BY <1>a, <1>1, <1>3 DEF Request
<1>5. user'.code = user.code /\ user'.attempts = n + 1
  BY <1>a, <1>2 DEF User
<1>6. /\ \A c \in 1..MaxCode : codes'[c].uses = codes[c].uses
      /\ \A c \in 1..MaxCode : c # d => codes'[c].wrong = codes[c].wrong
      /\ codes'[d].wrong = codes[d].wrong + 1 /\ codes[d].wrong \in Nat
  BY <1>a, <1>2, <1>4 DEF Code
<1>7. d \notin contested => codes[d].wrong <= n
  BY <1>1, <1>2, <1>3 DEF Judged
<1>8. ASSUME user.code \notin contested \cup {0}
      PROVE  codes'[user.code].uses = 0 /\ codes'[user.code].wrong <= n + 1
  <2>1. user.code \in 1..MaxCode /\ codes[user.code].uses = 0
    BY <1>a, <1>8 DEF CodeInv, LiveCode
  <2>2. CASE user.code = d
    BY <1>4, <1>6, <1>7, <1>8, <2>1, <2>2
  <2>3. CASE user.code # d
    <3>1. codes[user.code].wrong = 0
      BY <1>1, <1>3, <1>8, <2>3 DEF Untouched
    <3> QED
      BY <1>4, <1>6, <2>1, <2>3, <3>1
  <2> QED
    BY <2>2, <2>3
<1>9. LiveCode'
  BY <1>2, <1>3, <1>5, <1>8 DEF CodeInv, LiveCode
<1>10. Holds(Idle)'
  BY <1>b DEF Holds
<1>11. \A s \in Req : Holds(req[s])'
  BY <1>1, <1>2, <1>5, <1>6, <1>10, SlotsHold DEF Judging
<1>12. Alone'
  BY <1>b, <1>2, AloneKept DEF CodeInv
<1>13. Undrawn'
  <2>1. \A c \in 1..MaxCode : c > lastCode => c # d
    BY <1>a, <1>3
  <2> QED
    BY <1>2, <1>6, <2>1 DEF CodeInv, Undrawn
<1>14. UncontestedSingleUse'
  BY <1>2, <1>6 DEF CodeInv, UncontestedSingleUse
<1>15. d \notin contested => codes'[d].wrong <= MaxCodeAttempts
  BY <1>a, <1>3, <1>4, <1>6, <1>7
<1>16. UncontestedBudget'
  BY <1>2, <1>6, <1>15 DEF CodeInv, UncontestedBudget
<1> QED
  BY <1>9, <1>11, <1>12, <1>13, <1>14, <1>16 DEF CodeInv

\* No code is live after the hash is gone.
LEMMA ClearHashStep ==
    ASSUME TypeInv, CodeInv, NEW r \in Req, ClearHash(r)
    PROVE  CodeInv'
<1>a. /\ user \in User /\ req \in [Req -> Request] /\ lastCode \in 0..MaxCode
  BY DEF TypeInv, TypeOK
<1>1. PICK q : q = [req[r] EXCEPT !.pc = "clearAttempts"]
  OBVIOUS
<1>2. /\ req[r].pc = "clearHash" /\ Goto(r, q)
      /\ user' = [user EXCEPT !.code = 0, !.codeExpires = 0]
      /\ UNCHANGED <<codes, lastCode, contested>>
  BY <1>1 DEF ClearHash, codeHistory
<1>3. q.pc = "clearAttempts" /\ q.code = req[r].code /\ q.verdict = req[r].verdict
  BY <1>a, <1>1 DEF Request
<1>4. user'.code = 0 /\ user'.attempts = user.attempts
  BY <1>a, <1>2 DEF User
<1>5. req[r].code \in 1..lastCode /\ Judged(req[r])
  BY <1>2 DEF CodeInv, Holds, Judging
<1>6. req[r].code # 0
  BY <1>a, <1>5
<1>7. Judged(q)'
  BY <1>2, <1>3, <1>4, <1>5, <1>6 DEF Judged
<1>8. Holds(q)'
  BY <1>2, <1>3, <1>4, <1>5, <1>7 DEF Holds, Untouched
<1>9. \A s \in Req : Holds(req[s])'
  BY <1>2, <1>4, <1>8, SlotsHold DEF Judging
<1>10. Alone'
  BY <1>2, <1>3, AloneKept DEF CodeInv, Judging
<1>11. LiveCode'
  BY <1>a, <1>2, <1>4 DEF CodeInv, LiveCode
<1>12. Undrawn' /\ UncontestedSingleUse' /\ UncontestedBudget'
  BY <1>2 DEF CodeInv, Undrawn, UncontestedSingleUse, UncontestedBudget
<1> QED
  BY <1>9, <1>10, <1>11, <1>12 DEF CodeInv

\* The counter restarts for a code that is gone, or for one mailed meanwhile.
LEMMA ClearAttemptsStep ==
    ASSUME TypeInv, CodeInv, NEW r \in Req, ClearAttempts(r)
    PROVE  CodeInv'
<1>a. /\ user \in User /\ req \in [Req -> Request] /\ lastCode \in 0..MaxCode
      /\ codes \in [1..MaxCode -> Code] /\ MaxCode \in Nat
      /\ MaxCodeAttempts \in Nat \ {0}
  BY ConstantsAssumption DEF TypeInv, TypeOK
<1>b. Idle.pc = "idle" /\ Idle.pc \notin Judging
  BY DEF Idle, Judging
<1>1. PICK d, t : d = req[r].code /\ t = [req[r] EXCEPT !.pc = "target"]
  OBVIOUS
<1>2. /\ req[r].pc = "clearAttempts" /\ UNCHANGED <<lastCode, contested>>
      /\ user' = [user EXCEPT !.attempts = 0]
      /\ IF req[r].verdict = "wrong" THEN codes' = [codes EXCEPT ![d].wrong = @ + 1]
                                     ELSE codes' = codes
      /\ Goto(r, t) \/ Goto(r, Idle)
  BY <1>1 DEF ClearAttempts, Answered, Finish
<1>3. d \in 1..lastCode /\ Judged(req[r]) /\ Untouched(req[r])
  BY <1>1, <1>2 DEF CodeInv, Holds, Judging
<1>4. d \in 1..MaxCode /\ codes[d] \in Code /\ codes[d].wrong \in Nat
  BY <1>a, <1>3 DEF Code
<1>5. user'.code = user.code /\ user'.attempts = 0
  BY <1>a, <1>2 DEF User
<1>6. d \notin contested => /\ codes[d].uses = 0 /\ user.code # d
                            /\ req[r].verdict = "wrong" => codes[d].wrong < MaxCodeAttempts
  BY <1>1, <1>2, <1>3 DEF Judged
<1>7. /\ \A c \in 1..MaxCode : codes'[c].uses = codes[c].uses
      /\ \A c \in 1..MaxCode : c # d => codes'[c].wrong = codes[c].wrong
  <2>1. CASE req[r].verdict = "wrong"
    <3>1. codes' = [codes EXCEPT ![d].wrong = @ + 1]
      BY <1>2, <2>1
    <3> QED
      BY <1>a, <1>4, <3>1 DEF Code
  <2>2. CASE req[r].verdict # "wrong"
    BY <1>2, <2>2
  <2> QED
    BY <2>1, <2>2
<1>8. d \notin contested => codes'[d].wrong <= MaxCodeAttempts
  <2>1. CASE req[r].verdict = "wrong"
    <3>1. codes'[d].wrong = codes[d].wrong + 1
      BY <1>a, <1>2, <1>4, <2>1 DEF Code
    <3> QED
      BY <1>a, <1>4, <1>6, <2>1, <3>1
  <2>2. CASE req[r].verdict # "wrong"
    BY <1>2, <1>4, <2>2 DEF CodeInv, UncontestedBudget
  <2> QED
    BY <2>1, <2>2
<1>9. ASSUME user.code \notin contested \cup {0}
      PROVE  codes'[user.code].uses = 0 /\ codes'[user.code].wrong = 0
  <2>1. user.code \in 1..MaxCode /\ codes[user.code].uses = 0 /\ user.code # d
    BY <1>a, <1>6, <1>9 DEF CodeInv, LiveCode
  <2>2. codes[user.code].wrong = 0
    BY <1>1, <1>3, <1>9, <2>1 DEF Untouched
  <2> QED
    BY <1>7, <2>1, <2>2
<1>10. LiveCode'
  BY <1>a, <1>2, <1>5, <1>9 DEF CodeInv, LiveCode
<1>11. t.pc = "target" /\ t.code = d
  BY <1>a, <1>1 DEF Request
<1>12. Judged(t)'
  BY <1>2, <1>4, <1>5, <1>6, <1>7, <1>11 DEF Judged
<1>13. Untouched(t)'
  BY <1>2, <1>5, <1>9, <1>11 DEF Untouched
<1>14. Holds(t)' /\ Holds(Idle)'
  BY <1>b, <1>2, <1>3, <1>11, <1>12, <1>13 DEF Holds
<1>15. PICK q \in {t, Idle} : Goto(r, q)
  BY <1>2
<1>16. \A s \in Req : Holds(req[s])'
  BY <1>1, <1>2, <1>5, <1>7, <1>14, <1>15, SlotsHold DEF Judging
<1>17. Alone'
  BY <1>b, <1>1, <1>2, <1>11, <1>15, AloneKept DEF CodeInv, Judging
<1>18. Undrawn'
  <2>1. \A c \in 1..MaxCode : c > lastCode => c # d
    BY <1>a, <1>3
  <2> QED
    BY <1>2, <1>7, <2>1 DEF CodeInv, Undrawn
<1>19. UncontestedSingleUse' /\ UncontestedBudget'
  BY <1>2, <1>7, <1>8 DEF CodeInv, UncontestedSingleUse, UncontestedBudget
<1> QED
  BY <1>10, <1>16, <1>17, <1>18, <1>19 DEF CodeInv

LEMMA FindTargetStep ==
    ASSUME TypeInv, CodeInv, NEW r \in Req, FindTarget(r)
    PROVE  CodeInv'
<1>a. req \in [Req -> Request]
  BY DEF TypeInv, TypeOK
<1>b. Idle.pc = "idle" /\ Idle.pc \notin Judging
  BY DEF Idle, Judging
<1>1. PICK t : t = [req[r] EXCEPT !.pc = "savePending", !.at = now]
  OBVIOUS
<1>2. /\ req[r].pc = "target"
      /\ Goto(r, Idle) \/ Goto(r, t)
      /\ UNCHANGED <<user, codeHistory>>
  BY <1>1 DEF FindTarget, Finish, stores
<1>3. UNCHANGED <<codes, lastCode, contested>>
  BY <1>2 DEF codeHistory
<1>4. CASE Goto(r, Idle)
  BY <1>b, <1>2, <1>4, CodeKept
<1>5. CASE Goto(r, t)
  <2>1. t.pc = "savePending" /\ t.code = req[r].code
    BY <1>a, <1>1 DEF Request
  <2>2. Holds(req[r])
    BY DEF CodeInv
  <2>3. Holds(t)'
    BY <1>2, <1>3, <2>1, <2>2 DEF Holds, Judged, Untouched, Judging
  <2>4. \A s \in Req : Holds(req[s])'
    BY <1>2, <1>3, <1>5, <2>3, SlotsHold DEF Judging
  <2>5. Alone'
    BY <1>2, <1>3, <1>5, <2>1, AloneKept DEF CodeInv, Judging
  <2>6. LiveCode' /\ Undrawn'
    BY <1>2, <1>3 DEF CodeInv, LiveCode, Undrawn
  <2>7. UncontestedSingleUse' /\ UncontestedBudget'
    BY <1>3 DEF CodeInv, UncontestedSingleUse, UncontestedBudget
  <2> QED
    BY <2>4, <2>5, <2>6, <2>7 DEF CodeInv
<1> QED
  BY <1>2, <1>4, <1>5

LEMMA SavePendingStep ==
    ASSUME TypeInv, CodeInv, NEW r \in Req, SavePending(r)
    PROVE  CodeInv'
<1>a. /\ user \in User /\ req \in [Req -> Request] /\ lastCode \in 0..MaxCode
      /\ codes \in [1..MaxCode -> Code] /\ MaxCode \in Nat
  BY ConstantsAssumption DEF TypeInv, TypeOK
<1>b. Idle.pc = "idle" /\ Idle.pc \notin Judging
  BY DEF Idle, Judging
<1>1. PICK d : d = req[r].code
  OBVIOUS
<1>2. /\ req[r].pc = "savePending" /\ Goto(r, Idle)
      /\ user' = [user EXCEPT !.pending =
                [email |-> req[r].email, token |-> lastPending + 1,
                 expires |-> req[r].at + ConfirmTicks]]
      /\ codes' = [codes EXCEPT ![d].uses = @ + 1]
      /\ UNCHANGED <<lastCode, contested>>
  BY <1>1 DEF SavePending, Finish
<1>3. d \in 1..lastCode /\ Judged(req[r])
  BY <1>1, <1>2 DEF CodeInv, Holds, Judging
<1>4. d \in 1..MaxCode /\ codes[d] \in Code
  BY <1>a, <1>3
<1>5. user'.code = user.code /\ user'.attempts = user.attempts
  BY <1>a, <1>2 DEF User
<1>6. d \notin contested => codes[d].uses = 0 /\ user.code # d
  BY <1>1, <1>2, <1>3 DEF Judged
<1>7. /\ \A c \in 1..MaxCode : codes'[c].wrong = codes[c].wrong
      /\ \A c \in 1..MaxCode : c # d => codes'[c].uses = codes[c].uses
      /\ codes'[d].uses = codes[d].uses + 1
  BY <1>a, <1>2, <1>4 DEF Code
<1>8. ASSUME user.code \notin contested \cup {0}
      PROVE  codes'[user.code].uses = 0 /\ codes'[user.code].wrong <= user.attempts
  <2>1. /\ user.code \in 1..MaxCode /\ user.code # d /\ codes[user.code].uses = 0
        /\ codes[user.code].wrong <= user.attempts
    BY <1>a, <1>6, <1>8 DEF CodeInv, LiveCode
  <2> QED
    BY <1>7, <2>1
<1>9. LiveCode'
  BY <1>2, <1>5, <1>8 DEF CodeInv, LiveCode
<1>10. Holds(Idle)'
  BY <1>b DEF Holds
<1>11. \A s \in Req : Holds(req[s])'
  BY <1>2, <1>5, <1>7, <1>10, SlotsHold DEF Judging
<1>12. Alone'
  BY <1>b, <1>2, AloneKept DEF CodeInv
<1>13. Undrawn'
  <2>1. \A c \in 1..MaxCode : c > lastCode => c # d
    BY <1>a, <1>3
  <2> QED
    BY <1>2, <1>7, <2>1 DEF CodeInv, Undrawn
<1>14. UncontestedSingleUse' /\ UncontestedBudget'
  BY <1>2, <1>4, <1>6, <1>7 DEF CodeInv, UncontestedSingleUse, UncontestedBudget
<1> QED
  BY <1>9, <1>11, <1>12, <1>13, <1>14 DEF CodeInv

LEMMA CodeStep == TypeInv /\ CodeInv /\ [Next]_vars => CodeInv'
<1> SUFFICES ASSUME TypeInv, CodeInv, [Next]_vars
             PROVE  CodeInv'
  OBVIOUS
<1>1. ASSUME NEW r \in Req, Elsewhere(r) PROVE CodeInv'
  <2>1. PICK q : Goto(r, q) /\ q.pc \notin Judging
    BY <1>1, ElsewhereSlot
  <2> QED
    BY <1>1, <2>1, ElsewhereKeeps, CodeKept
<1>2. ASSUME \/ \E email \in Emails : UpdateUser(email) \/ OtherTakes(email)
             \/ Tick \/ UNCHANGED vars
      PROVE  CodeInv'
  <2>1. /\ UNCHANGED <<codes, lastCode, contested, req>>
        /\ user'.code = user.code /\ user'.attempts = user.attempts
    BY <1>2 DEF UpdateUser, OtherTakes, Tick, vars, stores, codeHistory, TypeInv,
       TypeOK, User
  <2>2. \A s \in Req : Holds(req[s])'
    BY <2>1 DEF CodeInv, Holds, Judged, Untouched
  <2>3. LiveCode' /\ Undrawn' /\ Alone'
    BY <2>1 DEF CodeInv, LiveCode, Undrawn, Alone
  <2>4. UncontestedSingleUse' /\ UncontestedBudget'
    BY <2>1 DEF CodeInv, UncontestedSingleUse, UncontestedBudget
  <2> QED
    BY <2>2, <2>3, <2>4 DEF CodeInv
<1> QED
  BY <1>1, <1>2, SendCodeStep, ChangeLookupStep, CountFailureStep, ClearHashStep,
     ClearAttemptsStep, FindTargetStep, SavePendingStep, NextCases

LEMMA CodeInit == Init => CodeInv
<1> SUFFICES ASSUME Init PROVE CodeInv
  OBVIOUS
<1>1. /\ user.code = 0 /\ user.attempts = 0 /\ lastCode = 0
      /\ \A r \in Req : req[r].pc = "idle"
  BY DEF Init, Idle
<1>2. \A c \in 1..MaxCode : codes[c].uses = 0 /\ codes[c].wrong = 0
  BY DEF Init
<1>3. MaxCodeAttempts \in Nat \ {0}
  BY ConstantsAssumption
<1>4. \A r \in Req : req[r].pc \notin Judging
  BY <1>1 DEF Judging
<1>5. LiveCode /\ Undrawn
  BY <1>1, <1>2, <1>3 DEF LiveCode, Undrawn
<1>6. UncontestedSingleUse /\ UncontestedBudget
  BY <1>2, <1>3 DEF UncontestedSingleUse, UncontestedBudget
<1> QED
  BY <1>4, <1>5, <1>6 DEF CodeInv, Holds, Alone

LEMMA CodeAlways == Spec => []CodeInv
<1>1. TypeInv /\ CodeInv /\ [Next]_vars => TypeInv' /\ CodeInv'
  BY TypeStep, CodeStep
<1> QED
  BY <1>1, TypeInit, CodeInit, PTL DEF Spec

\* A code that two requests did not judge at once pays for one pending change,
\* whatever dies between the writes that destroy it and the change it pays for
\* (consumeEmailChangeCode, clearEmailChangeCode, requestEmailChange).
THEOREM SingleUse == Spec => []UncontestedSingleUse
<1>1. CodeInv => UncontestedSingleUse
  BY DEF CodeInv
<1> QED
  BY <1>1, CodeAlways, PTL

\* A code that two requests did not judge at once is answered wrong at most
\* MaxCodeAttempts times: the counter in the document is never behind, and an
\* answer that comes after a newer code was mailed is not counted against less.
THEOREM Budget == Spec => []UncontestedBudget
<1>1. CodeInv => UncontestedBudget
  BY DEF CodeInv
<1> QED
  BY <1>1, CodeAlways, PTL

-----------------------------------------------------------------------------
(***************************************************************************)
(* A revert puts an end to what was pending, for every confirmation that   *)
(* has not read it yet.                                                    *)
(***************************************************************************)
LEMMA PendingKept ==
    ASSUME TypeInv, PendingInv, NEW r \in Req, NEW q, Goto(r, q), q.pc # "confirm",
           user'.pending \in {user.pending, NoPending},
           UNCHANGED <<lastPending, revertedUpTo, raced>>
    PROVE  PendingInv'
<1>1. req'[r] = q /\ \A s \in Req \ {r} : req'[s] = req[s]
  BY DEF Goto, TypeInv, TypeOK
<1>2. user'.pending # NoPending => user'.pending.token > revertedUpTo
  BY DEF PendingInv
<1> QED
  BY <1>1, <1>2 DEF PendingInv

\* The write that unsets what was pending, with the confirmations it races.
LEMMA PendingRevoked ==
    ASSUME TypeInv, PendingInv, NEW r \in Req, NEW q, Goto(r, q), q.pc # "confirm",
           user'.pending = NoPending, Revoked
    PROVE  PendingInv'
<1>1. req'[r] = q /\ \A s \in Req \ {r} : req'[s] = req[s]
  BY DEF Goto, TypeInv, TypeOK
<1>2. lastPending \in Nat
  BY DEF TypeInv, TypeOK
<1>3. revertedUpTo' <= lastPending'
  BY <1>2 DEF Revoked
<1>4. ASSUME NEW s \in Req, req'[s].pc = "confirm"
      PROVE  req'[s].token \in raced'
  <2>1. s # r
    BY <1>1, <1>4
  <2>2. req'[s] = req[s] /\ req[s].pc = "confirm"
    BY <1>1, <1>4, <2>1
  <2> QED
    BY <2>2 DEF Revoked
<1> QED
  BY <1>3, <1>4 DEF PendingInv

LEMMA PendingStep == TypeInv /\ PendingInv /\ [Next]_vars => PendingInv'
<1> SUFFICES ASSUME TypeInv, PendingInv, [Next]_vars
             PROVE  PendingInv'
  OBVIOUS
<1>a. /\ user \in User /\ req \in [Req -> Request]
      /\ lastPending \in Nat /\ revertedUpTo \in Nat
  BY DEF TypeInv, TypeOK
<1>b. Idle.pc = "idle"
  BY DEF Idle
<1>1. ASSUME NEW r \in Req, ConfirmLookup(r) PROVE PendingInv'
  <2>1. PICK q : q = [Idle EXCEPT !.pc = "confirm", !.email = user.pending.email,
                                  !.prev = user.email, !.at = now,
                                  !.token = user.pending.token]
    OBVIOUS
  <2>2. /\ Goto(r, q) /\ user.pending # NoPending
        /\ UNCHANGED <<user, lastPending, revertedUpTo, raced>>
    BY <1>1, <2>1 DEF ConfirmLookup, stores, changeHistory
  <2>3. q.token = user.pending.token
    BY <2>1 DEF Idle
  <2>4. req'[r] = q /\ \A s \in Req \ {r} : req'[s] = req[s]
    BY <1>a, <2>2 DEF Goto
  <2> QED
    BY <2>2, <2>3, <2>4 DEF PendingInv
<1>2. ASSUME NEW r \in Req, ConfirmEmailChange(r) PROVE PendingInv'
  <2>2. PICK q : Goto(r, q) /\ q.pc # "confirm"
    <3>1. Goto(r, Idle) \/ Goto(r, [Idle EXCEPT !.pc = "confirmUnset"])
      BY <1>2 DEF ConfirmEmailChange, Finish
    <3>2. [Idle EXCEPT !.pc = "confirmUnset"].pc = "confirmUnset"
      BY DEF Idle
    <3> QED
      BY <1>b, <3>1, <3>2
  <2>3. UNCHANGED <<lastPending, revertedUpTo, raced>>
    BY <1>2 DEF ConfirmEmailChange, changeHistory
  <2>4. req[r].email \in Emails /\ req[r] \in Request
    BY <1>a, <1>2 DEF ConfirmEmailChange, TypeInv, HoldsAddress, HalfDone
  <2>5. user'.pending \in {user.pending, NoPending}
    <3>1. PICK u \in User : u = ApplyEmail(user, req[r]) /\ u.pending = user.pending
      BY <1>a, <2>4, ChangeWritesType, PendingFields
    <3>2. PICK v \in User : v = UnsetPending(u) /\ v.pending = NoPending
      BY <2>4, <3>1, ChangeWritesType, PendingFields
    <3>3. BumpSessionEpoch(v).pending = NoPending
      BY <3>2, PendingFields
    <3>4. user' = u \/ user' = BumpSessionEpoch(v)
      BY <1>2, <3>1, <3>2 DEF ConfirmEmailChange
    <3> QED
      BY <3>1, <3>3, <3>4
  <2> QED
    BY <2>2, <2>3, <2>5, PendingKept
<1>3. ASSUME NEW r \in Req, RevertEmailChange(r) PROVE PendingInv'
  <2>2. req[r].email \in Emails /\ req[r] \in Request
    BY <1>a, <1>3 DEF RevertEmailChange, TypeInv, HoldsAddress, HalfDone
  <2>3. PICK u \in User : u = RestoreEmail(user, req[r]) /\ u.pending = user.pending
    BY <1>a, <2>2, ChangeWritesType, PendingFields
  <2>4. PICK v \in User : v = UnsetReverted(u) /\ v.pending = NoPending
    BY <2>2, <2>3, ChangeWritesType, PendingFields
  <2>5. BumpSessionEpoch(v).pending = NoPending
    BY <2>4, PendingFields
  <2>6. CASE user' = BumpSessionEpoch(v) /\ Goto(r, Idle) /\ Revoked
    BY <1>b, <2>5, <2>6, PendingRevoked
  <2>7. CASE /\ user' = u /\ Goto(r, [Idle EXCEPT !.pc = "revertUnset"])
             /\ UNCHANGED changeHistory
    <3>1. PICK q : q = [Idle EXCEPT !.pc = "revertUnset"]
      OBVIOUS
    <3>2. Goto(r, q) /\ q.pc # "confirm"
      BY <2>7, <3>1 DEF Idle
    <3>3. UNCHANGED <<lastPending, revertedUpTo, raced>>
      BY <2>7 DEF changeHistory
    <3> QED
      BY <2>3, <2>7, <3>2, <3>3, PendingKept
  <2> QED
    BY <1>3, <2>3, <2>4, <2>6, <2>7 DEF RevertEmailChange, Finish
<1>4. ASSUME NEW r \in Req, UnsetAlone(r) PROVE PendingInv'
  <2>1. PICK q : q = [Idle EXCEPT !.pc = "bump"]
    OBVIOUS
  <2>2. Goto(r, q) /\ q.pc # "confirm"
    BY <1>4, <2>1 DEF UnsetAlone, Idle
  <2>3. UnsetPending(user).pending = NoPending /\ UnsetReverted(user).pending = NoPending
    BY <1>a, PendingFields
  <2>4. CASE user' = UnsetPending(user) /\ UNCHANGED changeHistory
    BY <2>2, <2>3, <2>4, PendingKept DEF changeHistory
  <2>5. CASE user' = UnsetReverted(user) /\ Revoked
    BY <2>2, <2>3, <2>5, PendingRevoked
  <2> QED
    BY <1>4, <2>4, <2>5 DEF UnsetAlone
<1>5. ASSUME NEW r \in Req, Elsewhere(r), ~ConfirmLookup(r), ~ConfirmEmailChange(r),
             ~RevertEmailChange(r), ~UnsetAlone(r)
      PROVE  PendingInv'
  <2>1. PICK q : Goto(r, q) /\ q.pc # "confirm"
    BY <1>5, ElsewhereSlot
  <2>2. UNCHANGED <<lastPending, revertedUpTo, raced>>
    BY <1>5 DEF Elsewhere, CodeLookup, RevertLookup, Duplicate, BumpAlone, LoginLookup,
       Sign, RequestFails, stores, changeHistory
  <2>3. user' \in {user, BumpSessionEpoch(user)}
    BY <1>5 DEF Elsewhere, CodeLookup, RevertLookup, Duplicate, BumpAlone, LoginLookup,
       Sign, RequestFails, stores
  <2>4. user'.pending \in {user.pending, NoPending}
    BY <1>a, <2>3, PendingFields
  <2> QED
    BY <2>1, <2>2, <2>4, PendingKept
<1>6. ASSUME NEW r \in Req,
             \/ SendCode(r) \/ CountFailure(r) \/ ClearHash(r)
             \/ ClearAttempts(r) \/ FindTarget(r)
             \/ \E email \in Emails, right \in BOOLEAN : ChangeLookup(r, email, right)
      PROVE  PendingInv'
  <2>1. \/ Goto(r, Idle)
        \/ \E p \in {"clearAttempts", "target"} : Goto(r, [req[r] EXCEPT !.pc = p])
        \/ Goto(r, [req[r] EXCEPT !.pc = "savePending", !.at = now])
        \/ \E p \in {"countFailure", "clearHash"}, v \in Verdicts, email \in Emails :
              Goto(r, [Idle EXCEPT !.pc = p, !.email = email, !.verdict = v,
                               !.code = user.code, !.attempts = user.attempts])
    BY <1>6 DEF SendCode, CountFailure, ClearHash, ClearAttempts, FindTarget,
       ChangeLookup, Verdict, Verdicts, Finish
  <2>2. PICK q : Goto(r, q) /\ q.pc # "confirm"
    <3>1. [req[r] EXCEPT !.pc = "savePending", !.at = now].pc = "savePending"
      BY <1>a DEF Request
    <3>2. \A p \in {"clearAttempts", "target"} : [req[r] EXCEPT !.pc = p].pc = p
      BY <1>a DEF Request
    <3>3. \A p \in {"countFailure", "clearHash"}, v \in Verdicts, email \in Emails :
            [Idle EXCEPT !.pc = p, !.email = email, !.verdict = v,
                         !.code = user.code, !.attempts = user.attempts].pc = p
      BY DEF Idle
    <3> QED
      BY <1>b, <2>1, <3>1, <3>2, <3>3
  <2>3. /\ user'.pending = user.pending
        /\ UNCHANGED <<lastPending, revertedUpTo, raced>>
    BY <1>a, <1>6 DEF SendCode, CountFailure, ClearHash, ClearAttempts, FindTarget,
       ChangeLookup, stores, changeHistory, User
  <2> QED
    BY <2>2, <2>3, PendingKept
<1>7. ASSUME NEW r \in Req, SavePending(r) PROVE PendingInv'
  <2>1. PICK p : p = [email |-> req[r].email, token |-> lastPending + 1,
                      expires |-> req[r].at + ConfirmTicks]
    OBVIOUS
  <2>2. /\ user' = [user EXCEPT !.pending = p] /\ lastPending' = lastPending + 1
        /\ revertedUpTo' = revertedUpTo /\ raced' = raced /\ Goto(r, Idle)
    BY <1>7, <2>1 DEF SavePending, Finish
  <2>3. user'.pending.token = lastPending + 1
    BY <1>a, <2>1, <2>2 DEF User
  <2>4. req'[r] = Idle /\ \A s \in Req \ {r} : req'[s] = req[s]
    BY <1>a, <2>2 DEF Goto
  <2> QED
    BY <1>a, <1>b, <2>2, <2>3, <2>4 DEF PendingInv
<1>8. ASSUME \/ \E email \in Emails : UpdateUser(email) \/ OtherTakes(email)
             \/ Tick \/ UNCHANGED vars
      PROVE  PendingInv'
  <2>1. /\ UNCHANGED <<lastPending, revertedUpTo, raced, req>>
        /\ user'.pending = user.pending
    BY <1>8, <1>a DEF UpdateUser, OtherTakes, Tick, vars, stores, changeHistory, User
  <2> QED
    BY <2>1 DEF PendingInv
<1> QED
  BY <1>1, <1>2, <1>3, <1>4, <1>5, <1>6, <1>7, <1>8, NextCases

\* A change that was pending when the previous owner undid another one is never
\* applied, with any number of requests, dying or not, in a transaction or not,
\* unless its confirmation had read it before the revert (revertEmailChange,
\* confirmEmailChange).
THEOREM Sticks == Spec => RevertSticks
<1>1. Init => PendingInv
  BY DEF Init, Idle, PendingInv
<1>2. TypeInv /\ PendingInv /\ [Next]_vars => TypeInv' /\ PendingInv'
  BY TypeStep, PendingStep
<1>3. PendingInv => \A r \in Req : ConfirmEmailChange(r) =>
                       req[r].token > revertedUpTo \/ req[r].token \in raced
  BY DEF PendingInv, ConfirmEmailChange
<1> QED
  BY <1>1, <1>2, <1>3, TypeInit, PTL DEF Spec, RevertSticks
=============================================================================
