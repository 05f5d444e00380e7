------------------------ MODULE PasswordResetProofs ------------------------
(***************************************************************************)
(* Proofs about PasswordReset, for any tokens, requests and times.        *)
(*                                                                        *)
(* The invariant says what a reset's transaction knows of the tokens at   *)
(* each statement (Knows), and that no row is locked twice (Exclusive).   *)
(***************************************************************************)
EXTENDS PasswordReset, TLAPS

\* A request at statement step with data d: only a transaction holds rows; it
\* holds its own token; what it holds is stored and not yet used by anyone; and
\* once the second UPDATE has begun, the tokens it knew at the claim are used,
\* held, or still to be visited.
Knows(step, d) ==
    /\ step \notin InTx => d.holds = {}
    /\ step = "claim" => d.token \in stored
    /\ step \in InTx => d.token \in d.holds
    /\ d.holds \subseteq stored \ used
    /\ d.todo \subseteq stored
    /\ d.known \subseteq stored
    /\ step = "visit" => d.known \subseteq used \cup d.holds \cup d.todo

Exclusive == \A r, q \in Reqs : r # q => req[r].holds \cap req[q].holds = {}

IInv ==
    /\ TypeOK
    /\ LinksAreStored
    /\ \A r \in Reqs : Knows(pc[r], req[r])
    /\ Exclusive

-----------------------------------------------------------------------------
LEMMA IdleKnows == Idle \in Request /\ Idle.holds = {} /\ Knows("idle", Idle)
  BY TimesAreNatural DEF Idle, Request, Knows, InTx

\* What Goto does to the request and leaves of the others.
LEMMA GotoMoves ==
    ASSUME TypeOK, NEW r \in Reqs, NEW step \in {"idle", "issue", "claim"} \cup InTx,
           NEW data \in Request, Goto(r, step, data)
    PROVE  /\ pc' \in [Reqs -> {"idle", "issue", "claim"} \cup InTx]
           /\ req' \in [Reqs -> Request]
           /\ pc'[r] = step
           /\ req'[r] = data
           /\ \A q \in Reqs \ {r} : pc'[q] = pc[q] /\ req'[q] = req[q]
  BY DEF TypeOK, Goto

\* The step of one request keeps the knowledge of all, when what becomes stored
\* or used is none of the others' business.
LEMMA StepKnows ==
    ASSUME IInv, NEW r \in Reqs,
           \A q \in Reqs \ {r} : pc'[q] = pc[q] /\ req'[q] = req[q],
           stored \subseteq stored', used \subseteq used',
           \A q \in Reqs \ {r} : req[q].holds \cap used' = {},
           \A q \in Reqs \ {r} : req[q].holds \cap req'[r].holds = {},
           Knows(pc[r], req[r])'
    PROVE  (\A q \in Reqs : Knows(pc[q], req[q])') /\ Exclusive'
<1>1. ASSUME NEW q \in Reqs PROVE Knows(pc[q], req[q])'
  <2>1. CASE q = r
    BY <2>1
  <2>2. CASE q # r
    <3>1. Knows(pc[q], req[q]) /\ req[q].holds \cap used' = {}
      BY <2>2 DEF IInv
    <3>2. pc'[q] = pc[q] /\ req'[q] = req[q]
      BY <2>2
    <3>3. QED
      BY <3>1, <3>2 DEF Knows
  <2>3. QED
    BY <2>1, <2>2
<1>2. Exclusive'
  BY DEF Exclusive, IInv
<1>3. QED
  BY <1>1, <1>2

\* A request that ends, having committed nothing.
LEMMA FinishKeeps ==
    ASSUME IInv, NEW r \in Reqs, Finish(r), UNCHANGED <<now, stored, at, used, version, mail>>
    PROVE  IInv'
<1>1. TypeOK /\ LinksAreStored
  BY DEF IInv
<1>2. /\ pc' \in [Reqs -> {"idle", "issue", "claim"} \cup InTx]
      /\ req' \in [Reqs -> Request]
      /\ pc'[r] = "idle" /\ req'[r] = Idle
      /\ \A q \in Reqs \ {r} : pc'[q] = pc[q] /\ req'[q] = req[q]
  BY <1>1, IdleKnows, GotoMoves DEF Finish
<1>3. TypeOK' /\ LinksAreStored'
  BY <1>1, <1>2 DEF TypeOK, LinksAreStored, mail
<1>4. Knows(pc[r], req[r])'
  BY <1>2 DEF Knows, Idle, InTx
<1>5. \A q \in Reqs \ {r} : /\ req[q].holds \cap used' = {}
                            /\ req[q].holds \cap req'[r].holds = {}
  BY <1>2, IdleKnows DEF IInv, Knows
<1>6. (\A q \in Reqs : Knows(pc[q], req[q])') /\ Exclusive'
  BY <1>2, <1>4, <1>5, StepKnows
<1>7. QED
  BY <1>3, <1>6 DEF IInv

\* A request that moves on within its reset, having committed nothing.
LEMMA MoveKeeps ==
    ASSUME IInv, NEW r \in Reqs, NEW step \in {"idle", "issue", "claim"} \cup InTx,
           NEW data \in Request, Goto(r, step, data),
           UNCHANGED <<now, stored, at, used, version, mail>>,
           \A q \in Reqs \ {r} : req[q].holds \cap data.holds = {},
           Knows(step, data)
    PROVE  IInv'
<1>1. TypeOK /\ LinksAreStored
  BY DEF IInv
<1>2. /\ pc' \in [Reqs -> {"idle", "issue", "claim"} \cup InTx]
      /\ req' \in [Reqs -> Request]
      /\ pc'[r] = step /\ req'[r] = data
      /\ \A q \in Reqs \ {r} : pc'[q] = pc[q] /\ req'[q] = req[q]
  BY <1>1, GotoMoves
<1>3. TypeOK' /\ LinksAreStored'
  BY <1>1, <1>2 DEF TypeOK, LinksAreStored, mail
<1>4. Knows(pc[r], req[r])'
  BY <1>2 DEF Knows
<1>5. \A q \in Reqs \ {r} : /\ req[q].holds \cap used' = {}
                            /\ req[q].holds \cap req'[r].holds = {}
  BY <1>2 DEF IInv, Knows
<1>6. (\A q \in Reqs : Knows(pc[q], req[q])') /\ Exclusive'
  BY <1>2, <1>4, <1>5, StepKnows
<1>7. QED
  BY <1>3, <1>6 DEF IInv

\* Steps that touch no request.
LEMMA OutsideKeeps ==
    ASSUME IInv, UNCHANGED <<stored, used, version, at, pc, req>>,
           now' \in 0..MaxTime, pending' \cup inbox' \subseteq pending \cup inbox
    PROVE  IInv'
<1>1. TypeOK' /\ LinksAreStored'
  BY DEF IInv, TypeOK, LinksAreStored
<1>2. \A q \in Reqs : Knows(pc[q], req[q])'
  BY DEF IInv, Knows
<1>3. QED
  BY <1>1, <1>2 DEF IInv, Exclusive

-----------------------------------------------------------------------------
(* One lemma per statement that does more than move on *)

LEMMA IssueKeeps ==
    ASSUME IInv, NEW r \in Reqs, IssueToken(r)
    PROVE  IInv'
<1>1. TypeOK /\ LinksAreStored
  BY DEF IInv
<1>2. /\ pc' \in [Reqs -> {"idle", "issue", "claim"} \cup InTx]
      /\ req' \in [Reqs -> Request]
      /\ pc'[r] = "idle" /\ req'[r] = Idle
      /\ \A q \in Reqs \ {r} : pc'[q] = pc[q] /\ req'[q] = req[q]
  BY <1>1, IdleKnows, GotoMoves DEF Finish, IssueToken
<1>3. PICK t \in Tokens \ stored :
          /\ stored' = stored \cup {t}
          /\ at' = [at EXCEPT ![t] = now]
          /\ pending' = pending \cup {t}
  BY DEF IssueToken
<1>4. TypeOK' /\ LinksAreStored'
  BY <1>1, <1>2, <1>3 DEF TypeOK, LinksAreStored, IssueToken
<1>5. Knows(pc[r], req[r])'
  BY <1>2 DEF Knows, Idle, InTx
<1>6. \A q \in Reqs \ {r} : /\ req[q].holds \cap used' = {}
                            /\ req[q].holds \cap req'[r].holds = {}
  BY <1>2, IdleKnows DEF IInv, Knows, IssueToken
<1>7. (\A q \in Reqs : Knows(pc[q], req[q])') /\ Exclusive'
  BY <1>2, <1>3, <1>5, <1>6, StepKnows DEF IssueToken
<1>8. QED
  BY <1>4, <1>7 DEF IInv

LEMMA ClaimKeeps ==
    ASSUME IInv, NEW r \in Reqs, ClaimToken(r)
    PROVE  IInv'
<1>1. CASE Finish(r)
  BY <1>1, FinishKeeps DEF ClaimToken
<1>2. CASE ~Finish(r)
  <2> DEFINE t    == req[r].token
             data == [req[r] EXCEPT !.holds = {t}, !.known = stored]
  <2>1. /\ pc[r] = "claim" /\ t \notin used /\ ~LockedByOther(r, t)
        /\ Goto(r, "invalidate", data)
        /\ UNCHANGED <<now, stored, at, used, version, mail>>
    BY <1>2 DEF ClaimToken
  <2>2. t \in stored /\ req[r] \in Request /\ stored \subseteq Tokens /\ req[r].todo \subseteq stored
    BY <2>1 DEF IInv, Knows, TypeOK
  <2>3. /\ data \in Request /\ data.holds = {t} /\ data.known = stored
        /\ data.token = t /\ data.todo = req[r].todo
    BY <2>2 DEF Request
  <2>4. \A q \in Reqs \ {r} : req[q].holds \cap {t} = {}
    BY <2>1 DEF LockedByOther
  <2> HIDE DEF data
  <2>5. Knows("invalidate", data)
    BY <2>1, <2>2, <2>3 DEF Knows, InTx
  <2>6. "invalidate" \in {"idle", "issue", "claim"} \cup InTx
    BY DEF InTx
  <2>7. QED
    BY <2>1, <2>3, <2>4, <2>5, <2>6, MoveKeeps
<1>3. QED
  BY <1>1, <1>2

LEMMA InvalidateKeeps ==
    ASSUME IInv, NEW r \in Reqs, InvalidateOthers(r)
    PROVE  IInv'
<1> DEFINE data == [req[r] EXCEPT !.todo = stored \ (used \cup {req[r].token})]
<1>1. Goto(r, "visit", data) /\ UNCHANGED <<now, stored, at, used, version, mail>>
  BY DEF InvalidateOthers
<1>2. req[r] \in Request /\ stored \subseteq Tokens /\ Knows("invalidate", req[r])
  BY DEF IInv, TypeOK, InvalidateOthers
<1>3. /\ data \in Request /\ data.holds = req[r].holds /\ data.known = req[r].known
      /\ data.token = req[r].token /\ data.todo = stored \ (used \cup {req[r].token})
  BY <1>2 DEF Request
<1>4. \A q \in Reqs \ {r} : req[q].holds \cap data.holds = {}
  BY <1>3 DEF IInv, Exclusive
<1> HIDE DEF data
<1>5. Knows("visit", data)
  BY <1>2, <1>3 DEF Knows, InTx
<1>6. "visit" \in {"idle", "issue", "claim"} \cup InTx
  BY DEF InTx
<1>7. QED
  BY <1>1, <1>3, <1>4, <1>5, <1>6, MoveKeeps

LEMMA VisitKeeps ==
    ASSUME IInv, NEW r \in Reqs, VisitToken(r)
    PROVE  IInv'
<1>1. PICK t \in req[r].todo :
          /\ ~LockedByOther(r, t)
          /\ Goto(r, "visit", [req[r] EXCEPT !.todo = @ \ {t},
                    !.holds = IF t \in used THEN @ ELSE @ \cup {t}])
  BY DEF VisitToken
<1> DEFINE data == [req[r] EXCEPT !.todo = @ \ {t},
                                  !.holds = IF t \in used THEN @ ELSE @ \cup {t}]
<1>2. req[r] \in Request /\ stored \subseteq Tokens /\ Knows("visit", req[r])
  BY DEF IInv, TypeOK, VisitToken
<1>3. t \in stored
  BY <1>2 DEF Knows
<1>4. /\ data \in Request /\ data.known = req[r].known /\ data.token = req[r].token
      /\ data.todo = req[r].todo \ {t}
      /\ data.holds = IF t \in used THEN req[r].holds ELSE req[r].holds \cup {t}
  BY <1>2, <1>3 DEF Request
<1>5. \A q \in Reqs \ {r} : req[q].holds \cap data.holds = {}
  BY <1>1, <1>4 DEF IInv, Exclusive, LockedByOther
<1>6. Goto(r, "visit", data) /\ UNCHANGED <<now, stored, at, used, version, mail>>
  BY <1>1 DEF VisitToken
<1> HIDE DEF data
<1>7. Knows("visit", data)
  BY <1>2, <1>3, <1>4 DEF Knows, InTx
<1>8. "visit" \in {"idle", "issue", "claim"} \cup InTx
  BY DEF InTx
<1>9. QED
  BY <1>4, <1>5, <1>6, <1>7, <1>8, MoveKeeps

LEMMA SetPasswordKeeps ==
    ASSUME IInv, NEW r \in Reqs, SetPassword(r)
    PROVE  IInv'
<1>1. TypeOK /\ LinksAreStored
  BY DEF IInv
<1>2. /\ pc' \in [Reqs -> {"idle", "issue", "claim"} \cup InTx]
      /\ req' \in [Reqs -> Request]
      /\ pc'[r] = "idle" /\ req'[r] = Idle
      /\ \A q \in Reqs \ {r} : pc'[q] = pc[q] /\ req'[q] = req[q]
  BY <1>1, IdleKnows, GotoMoves DEF Finish, SetPassword
<1>3. used' = used \cup req[r].holds /\ req[r].holds \subseteq stored
  BY DEF SetPassword, IInv, Knows
<1>4. TypeOK' /\ LinksAreStored'
  BY <1>1, <1>2, <1>3 DEF TypeOK, LinksAreStored, SetPassword, mail
<1>5. Knows(pc[r], req[r])'
  BY <1>2 DEF Knows, Idle, InTx
<1>6. \A q \in Reqs \ {r} : /\ req[q].holds \cap used' = {}
                            /\ req[q].holds \cap req'[r].holds = {}
  BY <1>2, <1>3, IdleKnows DEF IInv, Knows, Exclusive
<1>7. (\A q \in Reqs : Knows(pc[q], req[q])') /\ Exclusive'
  BY <1>2, <1>3, <1>5, <1>6, StepKnows DEF SetPassword
<1>8. QED
  BY <1>4, <1>7 DEF IInv

LEMMA CrashKeeps ==
    ASSUME IInv, Crash
    PROVE  IInv'
<1>1. TypeOK' /\ LinksAreStored'
  BY IdleKnows DEF IInv, TypeOK, LinksAreStored, Crash
<1>2. ASSUME NEW q \in Reqs PROVE pc'[q] = "idle" /\ req'[q] = Idle
  BY DEF Crash
<1>3. \A q \in Reqs : Knows(pc[q], req[q])'
  BY <1>2 DEF Knows, Idle, InTx
<1>4. Exclusive'
  BY <1>2, IdleKnows DEF Exclusive
<1>5. QED
  BY <1>1, <1>3, <1>4 DEF IInv

-----------------------------------------------------------------------------
(* The invariant *)

LEMMA InvariantInit == Init => IInv
<1> SUFFICES ASSUME Init PROVE IInv
  OBVIOUS
<1>1. TypeOK /\ LinksAreStored
  BY TimesAreNatural, IdleKnows DEF Init, TypeOK, LinksAreStored
<1>2. \A r \in Reqs : Knows(pc[r], req[r]) /\ req[r].holds = {}
  BY IdleKnows DEF Init
<1>3. QED
  BY <1>1, <1>2 DEF IInv, Exclusive

LEMMA InvariantStep == IInv /\ [Next]_vars => IInv'
<1> SUFFICES ASSUME IInv, [Next]_vars PROVE IInv'
  OBVIOUS
<1>1. ASSUME NEW r \in Reqs, ForgotPassword(r) PROVE IInv'
  <2>1. "issue" \in {"idle", "issue", "claim"} \cup InTx /\ Knows("issue", Idle)
    BY IdleKnows DEF Knows, InTx
  <2>2. QED
    BY <1>1, <2>1, IdleKnows, MoveKeeps DEF ForgotPassword
<1>2. ASSUME NEW r \in Reqs, NEW t \in Tokens, BeginReset(r, t) PROVE IInv'
  <2> DEFINE data == [Idle EXCEPT !.token = t, !.now = now]
  <2>1. Goto(r, "claim", data) /\ t \in stored
    BY <1>2 DEF BeginReset, IInv, LinksAreStored
  <2>2. /\ data \in Request /\ data.token = t /\ data.holds = {}
        /\ data.todo = {} /\ data.known = {}
    BY TimesAreNatural DEF Idle, Request, IInv, TypeOK
  <2> HIDE DEF data
  <2>3. "claim" \in {"idle", "issue", "claim"} \cup InTx /\ Knows("claim", data)
    BY <2>1, <2>2 DEF Knows, InTx
  <2>4. QED
    BY <1>2, <2>1, <2>2, <2>3, MoveKeeps DEF BeginReset
<1>3. ASSUME NEW r \in Reqs, IssueToken(r) \/ ClaimToken(r) PROVE IInv'
  BY <1>3, IssueKeeps, ClaimKeeps
<1>4. ASSUME NEW r \in Reqs, InvalidateOthers(r) \/ VisitToken(r) \/ SetPassword(r) PROVE IInv'
  BY <1>4, InvalidateKeeps, VisitKeeps, SetPasswordKeeps
<1>5. ASSUME NEW r \in Reqs, Abort(r) \/ DetectDeadlock(r) PROVE IInv'
  BY <1>5, FinishKeeps DEF Abort, DetectDeadlock
<1>6. ASSUME NEW t \in Tokens, DispatchEmail(t) PROVE IInv'
  <2>1. pending' \cup inbox' \subseteq pending \cup inbox
    BY <1>6 DEF DispatchEmail
  <2>2. now' \in 0..MaxTime /\ UNCHANGED <<stored, used, version, at, pc, req>>
    BY <1>6 DEF DispatchEmail, IInv, TypeOK
  <2>3. QED
    BY <2>1, <2>2, OutsideKeeps
<1>7. CASE Tick
  <2>1. now' \in 0..MaxTime
    BY <1>7, TimesAreNatural DEF Tick, IInv, TypeOK
  <2>2. QED
    BY <1>7, <2>1, OutsideKeeps DEF Tick, mail
<1>8. CASE UNCHANGED vars
  <2>1. now' \in 0..MaxTime
    BY <1>8 DEF vars, IInv, TypeOK
  <2>2. QED
    BY <1>8, <2>1, OutsideKeeps DEF vars, mail
<1>9. QED
  BY <1>1, <1>2, <1>3, <1>4, <1>5, <1>6, <1>7, <1>8, CrashKeeps DEF Next

LEMMA Invariance == Spec => []IInv
<1>1. QED
  BY InvariantInit, InvariantStep, PTL DEF Spec

\* Every reachable state is well typed, and a link the user can have is a link
\* the database knows.
THEOREM TypeCorrect == Spec => []TypeOK
<1>1. IInv => TypeOK
  BY DEF IInv
<1>2. QED
  BY <1>1, Invariance, PTL

THEOREM LinksStored == Spec => []LinksAreStored
<1>1. IInv => LinksAreStored
  BY DEF IInv
<1>2. QED
  BY <1>1, Invariance, PTL

-----------------------------------------------------------------------------
(* What a reset does *)

\* The only step that uses a token or changes the password.
LEMMA OnlySetPassword ==
    ASSUME [Next]_vars
    PROVE  (UNCHANGED <<used, version>>) \/ \E r \in Reqs : SetPassword(r)
  BY DEF Next, vars, ForgotPassword, IssueToken, ClaimToken, InvalidateOthers, VisitToken,
         Abort, DetectDeadlock, BeginReset, DispatchEmail, Crash, Tick

\* A committed reset uses its own token, which nobody had used: a token is never
\* consumed without a new password, and never gives a second one.
THEOREM AtomicReset == Spec => ResetIsAtomic
<1>1. IInv /\ [Next]_vars => [used' # used <=> version' # version]_vars
  <2> SUFFICES ASSUME IInv, [Next]_vars PROVE used' # used <=> version' # version
    OBVIOUS
  <2>1. CASE UNCHANGED <<used, version>>
    BY <2>1
  <2>2. ASSUME NEW r \in Reqs, SetPassword(r) PROVE used' # used /\ version' # version
    <3>1. version \in Nat /\ Knows("visit", req[r])
      BY <2>2 DEF IInv, TypeOK, SetPassword
    <3>2. req[r].token \in req[r].holds /\ req[r].token \notin used
      BY <3>1 DEF Knows, InTx
    <3>3. QED
      BY <2>2, <3>1, <3>2 DEF SetPassword
  <2>3. QED
    BY <2>1, <2>2, OnlySetPassword
<1>2. QED
  BY <1>1, Invariance, PTL DEF Spec, ResetIsAtomic

\* A reset that commits has used, or found used, every token there was when it
\* claimed its own: its second UPDATE waits for rows that other resets hold.
THEOREM OlderTokensDie == Spec => ResetKillsOlderTokens
<1>1. IInv /\ [Next]_vars
        => [\A r \in Reqs : pc[r] = "visit" /\ version' # version /\ pc'[r] = "idle"
                               => req[r].known \subseteq used']_vars
  <2> SUFFICES ASSUME IInv, [Next]_vars, NEW r \in Reqs,
                      pc[r] = "visit", version' # version, pc'[r] = "idle"
               PROVE  req[r].known \subseteq used'
    OBVIOUS
  <2>1. PICK q \in Reqs : SetPassword(q)
    BY OnlySetPassword
  <2>2. q = r
    BY <2>1 DEF SetPassword, Finish, Goto, IInv, TypeOK
  <2>3. Knows("visit", req[r])
    BY DEF IInv
  <2>4. QED
    BY <2>1, <2>2, <2>3 DEF SetPassword, Knows
<1>2. QED
  BY <1>1, Invariance, PTL DEF Spec, ResetKillsOlderTokens
=============================================================================
