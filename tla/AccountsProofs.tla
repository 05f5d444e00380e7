--------------------------- MODULE AccountsProofs ---------------------------
(***************************************************************************)
(* Proofs about Accounts, for any addresses, identities, secrets and      *)
(* requests.                                                              *)
(*                                                                        *)
(* A row in memory may be out of date when it is written back.  What      *)
(* saves the properties is that it is a whole row: it was sound when it   *)
(* was read, the handler kept it so, and soundness does not go out of     *)
(* date, because a secret once confirmed stays confirmed and an account   *)
(* that is root, or is not, remains so.                                   *)
(***************************************************************************)
EXTENDS Accounts, TLAPS

Sound(e, row) ==
    /\ row.mfa => <<e, row.secret>> \in proven
    /\ row.password \/ row.google # NoGoogle

\* A request at step with data d: it works on an account, that exists when a row
\* of it was read; a row to be written is sound and says of root what the account
\* says; a role is assigned to an account that is not root.
Knows(step, d) ==
    /\ step # "idle" => d.email \in Emails
    /\ step = "findByEmail" => d.google \in Googles
    /\ step \in {"insert", "save"} => Sound(d.email, d.row)
    /\ step \in {"save", "assign"} => d.email \in known
    /\ step = "save" => (d.row.role = "root" <=> users[d.email].role = "root")
    /\ step = "assign" => d.row.role # "root" /\ users[d.email].role # "root"

IInv ==
    /\ TypeOK
    /\ \A e \in known : Sound(e, users[e])
    /\ \A r \in Reqs : Knows(pc[r], req[r])

-----------------------------------------------------------------------------
LEMMA IdleKnows == Idle \in Request /\ Knows("idle", Idle)
  BY DEF Idle, Blank, Request, Row, Roles, Knows

\* What Goto does to the request and leaves of the others.
LEMMA GotoMoves ==
    ASSUME TypeOK, NEW r \in Reqs, NEW step \in Steps \cup {"idle"}, NEW data \in Request,
           Goto(r, step, data)
    PROVE  /\ pc' \in [Reqs -> Steps \cup {"idle"}]
           /\ req' \in [Reqs -> Request]
           /\ pc'[r] = step
           /\ req'[r] = data
           /\ \A q \in Reqs \ {r} : pc'[q] = pc[q] /\ req'[q] = req[q]
  BY DEF TypeOK, Goto

\* What no step undoes, and so every request may count on.
Kept ==
    /\ known \subseteq known'
    /\ proven \subseteq proven'
    /\ \A e \in known : users[e].role = "root" <=> users'[e].role = "root"

LEMMA KnowsKept ==
    ASSUME Kept, NEW q \in Reqs, pc'[q] = pc[q], req'[q] = req[q], Knows(pc[q], req[q])
    PROVE  Knows(pc[q], req[q])'
  BY DEF Knows, Kept, Sound

\* The step of one request keeps the invariant when it leaves types and sound
\* rows behind, undoes nothing, and its own request knows what it must.
LEMMA StepKeeps ==
    ASSUME IInv, Kept, known' \subseteq Emails, users' \in [Emails -> Row],
           proven' \subseteq Emails \X Secrets,
           \A e \in known' : Sound(e, users[e])',
           NEW r \in Reqs, NEW step \in Steps \cup {"idle"}, NEW data \in Request,
           Goto(r, step, data), Knows(pc[r], req[r])'
    PROVE  IInv'
<1>1. /\ pc' \in [Reqs -> Steps \cup {"idle"}]
      /\ req' \in [Reqs -> Request]
      /\ \A q \in Reqs \ {r} : pc'[q] = pc[q] /\ req'[q] = req[q]
  BY GotoMoves DEF IInv
<1>2. TypeOK'
  BY <1>1 DEF TypeOK
<1>3. ASSUME NEW q \in Reqs, q # r PROVE Knows(pc[q], req[q])'
  BY <1>1, <1>3, KnowsKept DEF IInv
<1>4. QED
  BY <1>2, <1>3 DEF IInv

\* A request that only reads.
LEMMA ReadKeeps ==
    ASSUME IInv, UNCHANGED <<known, users>>, proven \subseteq proven',
           proven' \subseteq Emails \X Secrets,
           NEW r \in Reqs, NEW step \in Steps \cup {"idle"}, NEW data \in Request,
           Goto(r, step, data), Knows(pc[r], req[r])'
    PROVE  IInv'
<1>1. Kept
  BY DEF Kept
<1>2. \A e \in known' : Sound(e, users[e])'
  BY DEF IInv, Sound
<1>3. QED
  BY <1>1, <1>2, StepKeeps DEF IInv, TypeOK

\* The end of a request.
LEMMA EndKeeps ==
    ASSUME IInv, Kept, known' \subseteq Emails, users' \in [Emails -> Row], UNCHANGED proven,
           \A e \in known' : Sound(e, users[e])',
           NEW r \in Reqs, Finish(r)
    PROVE  IInv'
<1>1. pc'[r] = "idle"
  BY IdleKnows, GotoMoves DEF IInv, Finish
<1>2. Knows(pc[r], req[r])'
  BY <1>1 DEF Knows
<1>3. QED
  BY <1>2, IdleKnows, StepKeeps DEF IInv, TypeOK, Finish

-----------------------------------------------------------------------------
(* One lemma per kind of step *)

\* A request goes on with a row it made from what it read.
LEMMA HoldingKeeps ==
    ASSUME IInv, UNCHANGED <<known, users>>, proven \subseteq proven',
           proven' \subseteq Emails \X Secrets,
           NEW r \in Reqs, NEW step \in {"insert", "save", "assign"}, NEW e \in Emails,
           NEW row \in Row, Holding(r, step, e, row),
           step \in {"insert", "save"} =>
               /\ row.mfa => <<e, row.secret>> \in proven'
               /\ row.password \/ row.google # NoGoogle,
           step \in {"save", "assign"} => e \in known,
           step = "save" => (row.role = "root" <=> users[e].role = "root"),
           step = "assign" => row.role # "root" /\ users[e].role # "root"
    PROVE  IInv'
<1> DEFINE data == [email |-> e, google |-> NoGoogle, row |-> row]
<1>1. data \in Request /\ data.email = e /\ data.row = row
  BY DEF Request
<1>2. Goto(r, step, data) /\ step \in Steps \cup {"idle"}
  BY DEF Holding, Steps
<1> HIDE DEF data
<1>3. pc'[r] = step /\ req'[r] = data
  BY <1>1, <1>2, GotoMoves DEF IInv
<1>4. req'[r].email = e /\ req'[r].row = row
  BY <1>1, <1>3
<1>5. Knows(pc[r], req[r])'
  BY <1>3, <1>4 DEF Knows, Sound
<1>6. QED
  BY <1>1, <1>2, <1>5, ReadKeeps

LEMMA BeginInsertKeeps ==
    ASSUME IInv, NEW r \in Reqs, NEW e \in Emails, Register(r, e) \/ SeedRoot(r, e)
    PROVE  IInv'
<1>1. PICK row \in {[Blank EXCEPT !.password = TRUE],
                    [Blank EXCEPT !.password = TRUE, !.role = "root"]} :
          Holding(r, "insert", e, row) /\ UNCHANGED <<known, users, proven>>
  BY DEF Register, SeedRoot
<1>2. row \in Row /\ ~row.mfa /\ row.password
  BY DEF Blank, Row, Roles
<1>3. QED
  BY <1>1, <1>2, HoldingKeeps DEF IInv, TypeOK

LEMMA FindByGoogleKeeps ==
    ASSUME IInv, NEW r \in Reqs, NEW g \in Googles, NEW e \in Emails, FindByGoogle(r, g, e)
    PROVE  IInv'
<1> DEFINE data == [email |-> e, google |-> g, row |-> Blank]
<1>1. data \in Request /\ data.email = e /\ data.google = g
  BY DEF Request, Blank, Row, Roles
<1>2. Goto(r, "findByEmail", data) /\ UNCHANGED <<known, users, proven>>
  BY DEF FindByGoogle
<1> HIDE DEF data
<1>3. pc'[r] = "findByEmail" /\ req'[r] = data
  BY <1>1, <1>2, GotoMoves DEF IInv, Steps
<1>4. req'[r].email = e /\ req'[r].google = g
  BY <1>1, <1>3
<1>5. Knows(pc[r], req[r])'
  BY <1>3, <1>4 DEF Knows
<1>6. QED
  BY <1>1, <1>2, <1>5, ReadKeeps DEF IInv, TypeOK, Steps

LEMMA FindByEmailKeeps ==
    ASSUME IInv, NEW r \in Reqs, FindByEmail(r)
    PROVE  IInv'
<1>1. TypeOK /\ req[r].email \in Emails /\ req[r].google \in Googles
  BY DEF IInv, Knows, FindByEmail
<1>2. CASE /\ req[r].email \in known
           /\ Holding(r, "save", req[r].email,
                      [users[req[r].email] EXCEPT !.google = req[r].google])
  <2>1. Sound(req[r].email, users[req[r].email]) /\ users[req[r].email] \in Row
    BY <1>1, <1>2 DEF IInv, TypeOK
  <2>2. PICK row \in Row : /\ Holding(r, "save", req[r].email, row)
                           /\ row = [users[req[r].email] EXCEPT !.google = req[r].google]
    BY <1>1, <1>2, <2>1 DEF Row
  <2>3. /\ row.mfa => <<req[r].email, row.secret>> \in proven
        /\ row.google # NoGoogle
        /\ row.role = users[req[r].email].role
    BY <1>1, <2>1, <2>2, NullsAreFresh DEF Row, Sound
  <2>4. QED
    BY <1>1, <1>2, <2>2, <2>3, HoldingKeeps DEF FindByEmail, TypeOK
<1>3. CASE Holding(r, "insert", req[r].email, [Blank EXCEPT !.google = req[r].google])
  <2>1. PICK row \in Row : /\ Holding(r, "insert", req[r].email, row)
                           /\ row = [Blank EXCEPT !.google = req[r].google]
    BY <1>1, <1>3 DEF Row, Blank, Roles
  <2>2. ~row.mfa /\ row.google # NoGoogle
    BY <1>1, <2>1, NullsAreFresh DEF Blank
  <2>3. QED
    BY <1>1, <2>1, <2>2, HoldingKeeps DEF FindByEmail, TypeOK
<1>4. QED
  BY <1>2, <1>3 DEF FindByEmail

\* The MFA handlers change two columns of a sound row.
LEMMA MFAKeeps ==
    ASSUME IInv, NEW r \in Reqs, NEW e \in Emails,
           SetupMFA(r, e) \/ EnableMFA(r, e) \/ DisableMFA(r, e)
    PROVE  IInv'
<1>1. TypeOK /\ e \in known /\ users[e] \in Row /\ Sound(e, users[e])
  BY DEF IInv, TypeOK, SetupMFA, EnableMFA, DisableMFA
<1>2. CASE SetupMFA(r, e)
  <2>1. PICK s \in Secrets : Holding(r, "save", e, [users[e] EXCEPT !.secret = s])
    BY <1>2 DEF SetupMFA
  <2>2. PICK row \in Row : /\ Holding(r, "save", e, row)
                           /\ row = [users[e] EXCEPT !.secret = s]
    BY <1>1, <2>1 DEF Row
  <2>3. ~row.mfa /\ (row.password \/ row.google # NoGoogle) /\ row.role = users[e].role
    BY <1>1, <1>2, <2>2 DEF SetupMFA, Sound, Row
  <2>4. QED
    BY <1>1, <1>2, <2>2, <2>3, HoldingKeeps DEF SetupMFA, TypeOK
<1>3. CASE EnableMFA(r, e) \/ DisableMFA(r, e)
  <2>1. PICK row \in {[users[e] EXCEPT !.mfa = TRUE],
                      [users[e] EXCEPT !.mfa = FALSE, !.secret = NoSecret]} :
            Holding(r, "save", e, row)
    BY <1>3 DEF EnableMFA, DisableMFA
  <2>2. proven' = proven \cup {<<e, users[e].secret>>} /\ users[e].secret \in Secrets
        /\ UNCHANGED <<known, users>>
    BY <1>1, <1>3 DEF EnableMFA, DisableMFA, Row
  <2>3. row \in Row /\ row.role = users[e].role
        /\ (row.password \/ row.google # NoGoogle)
        /\ (row.mfa => row.secret = users[e].secret)
    BY <1>1 DEF Row, Sound
  <2>4. proven \subseteq proven' /\ proven' \subseteq Emails \X Secrets
    BY <1>1, <2>2 DEF TypeOK
  <2>5. row.mfa => <<e, row.secret>> \in proven'
    BY <2>2, <2>3
  <2>6. QED
    BY <1>1, <2>1, <2>2, <2>3, <2>4, <2>5, HoldingKeeps
<1>4. QED
  BY <1>2, <1>3

LEMMA ReadRoleKeeps ==
    ASSUME IInv, NEW r \in Reqs, NEW e \in Emails, NEW role \in Roles, ReadRole(r, e, role)
    PROVE  IInv'
<1>1. PICK row \in Row : Holding(r, "assign", e, row) /\ row = [Blank EXCEPT !.role = role]
  BY DEF ReadRole, Row, Blank
<1>2. row.role # "root"
  BY <1>1 DEF ReadRole, Blank
<1>3. QED
  BY <1>1, <1>2, HoldingKeeps DEF ReadRole, IInv, TypeOK

\* An insert finds nobody at the address, so no request has a row of it.
LEMMA InsertKeeps ==
    ASSUME IInv, NEW r \in Reqs, InsertUser(r)
    PROVE  IInv' /\ Kept
<1>1. /\ TypeOK /\ req[r].email \in Emails /\ req[r].row \in Row
      /\ Sound(req[r].email, req[r].row) /\ Finish(r) /\ UNCHANGED proven
  BY DEF IInv, TypeOK, Request, Knows, InsertUser
<1>2. /\ Kept /\ known' \subseteq Emails /\ users' \in [Emails -> Row]
      /\ \A e \in known' : Sound(e, users[e])'
  <2>1. CASE /\ req[r].email \notin known
             /\ known' = known \cup {req[r].email}
             /\ users' = [users EXCEPT ![req[r].email] = req[r].row]
    BY <1>1, <2>1 DEF IInv, TypeOK, Kept, Sound
  <2>2. CASE UNCHANGED <<known, users>>
    BY <1>1, <2>2 DEF IInv, TypeOK, Kept, Sound
  <2>3. QED
    BY <2>1, <2>2 DEF InsertUser
<1>3. QED
  BY <1>1, <1>2, EndKeeps

LEMMA SaveKeeps ==
    ASSUME IInv, NEW r \in Reqs, SaveUser(r)
    PROVE  IInv' /\ Kept
<1>1. /\ TypeOK /\ req[r].email \in known /\ req[r].row \in Row
      /\ Sound(req[r].email, req[r].row) /\ Finish(r) /\ UNCHANGED <<known, proven>>
      /\ req[r].row.role = "root" <=> users[req[r].email].role = "root"
  BY DEF IInv, TypeOK, Request, Knows, SaveUser
<1>2. /\ Kept /\ users' \in [Emails -> Row] /\ \A e \in known' : Sound(e, users[e])'
  <2>1. CASE users' = [users EXCEPT ![req[r].email] = req[r].row]
    BY <1>1, <2>1 DEF IInv, TypeOK, Kept, Sound
  <2>2. CASE UNCHANGED users
    BY <1>1, <2>2 DEF IInv, TypeOK, Kept, Sound
  <2>3. QED
    BY <2>1, <2>2 DEF SaveUser
<1>3. QED
  BY <1>1, <1>2, EndKeeps DEF TypeOK

LEMMA AssignKeeps ==
    ASSUME IInv, NEW r \in Reqs, AssignRole(r)
    PROVE  IInv' /\ Kept
<1>1. /\ TypeOK /\ req[r].email \in known /\ req[r].row.role \in Roles
      /\ Finish(r) /\ UNCHANGED <<known, proven>>
      /\ req[r].row.role # "root" /\ users[req[r].email].role # "root"
  BY DEF IInv, TypeOK, Request, Row, Knows, AssignRole
<1>2. PICK row \in Row : /\ row = [users[req[r].email] EXCEPT !.role = req[r].row.role]
                         /\ users' = [users EXCEPT ![req[r].email] = row]
  <2>1. [users[req[r].email] EXCEPT !.role = req[r].row.role] \in Row
    BY <1>1 DEF TypeOK, Row
  <2>2. users' = [users EXCEPT ![req[r].email] =
                      [users[req[r].email] EXCEPT !.role = req[r].row.role]]
    BY DEF AssignRole
  <2>3. QED
    BY <2>1, <2>2
<1>3. /\ row.mfa = users[req[r].email].mfa /\ row.secret = users[req[r].email].secret
      /\ row.password = users[req[r].email].password
      /\ row.google = users[req[r].email].google /\ row.role # "root"
  BY <1>1, <1>2 DEF TypeOK, Row
<1>4. /\ Kept /\ users' \in [Emails -> Row] /\ \A e \in known' : Sound(e, users[e])'
  BY <1>1, <1>2, <1>3 DEF IInv, TypeOK, Kept, Sound
<1>5. QED
  BY <1>1, <1>4, EndKeeps DEF TypeOK

LEMMA ResetKeeps ==
    ASSUME IInv, NEW e \in Emails, ResetPassword(e)
    PROVE  IInv' /\ Kept
<1>1. PICK row \in Row : /\ row = [users[e] EXCEPT !.password = TRUE]
                         /\ users' = [users EXCEPT ![e] = row]
  BY DEF IInv, TypeOK, Row, ResetPassword
<1>2. /\ row.mfa = users[e].mfa /\ row.secret = users[e].secret
      /\ row.password /\ row.role = users[e].role
  BY <1>1 DEF IInv, TypeOK, Row
<1>3. Kept /\ TypeOK' /\ \A f \in known' : Sound(f, users[f])'
  BY <1>1, <1>2 DEF IInv, TypeOK, Kept, Sound, ResetPassword
<1>4. \A q \in Reqs : Knows(pc[q], req[q])'
  BY <1>3, KnowsKept DEF IInv, ResetPassword
<1>5. QED
  BY <1>3, <1>4 DEF IInv

-----------------------------------------------------------------------------
(* The invariant *)

LEMMA InvariantInit == Init => IInv
<1> SUFFICES ASSUME Init PROVE IInv
  OBVIOUS
<1>1. TypeOK
  BY IdleKnows DEF Init, TypeOK, Blank, Row, Roles
<1>2. QED
  BY <1>1, IdleKnows DEF Init, IInv

\* The steps that only read leave the rows alone.
LEMMA StepInvariant ==
    ASSUME IInv, [Next]_vars
    PROVE  IInv' /\ Kept
<1>1. ASSUME NEW r \in Reqs, InsertUser(r) \/ SaveUser(r) \/ AssignRole(r)
      PROVE  IInv' /\ Kept
  BY <1>1, InsertKeeps, SaveKeeps, AssignKeeps
<1>2. ASSUME NEW e \in Emails, ResetPassword(e) PROVE IInv' /\ Kept
  BY <1>2, ResetKeeps
<1>3. ASSUME NEW r \in Reqs, FindByEmail(r) PROVE IInv' /\ Kept
  BY <1>3, FindByEmailKeeps DEF FindByEmail, Kept
<1>4. ASSUME NEW r \in Reqs, Abort(r) PROVE IInv' /\ Kept
  <2>1. Kept /\ \A e \in known' : Sound(e, users[e])'
    BY <1>4 DEF Abort, Kept, IInv, Sound
  <2>2. QED
    BY <1>4, <2>1, EndKeeps DEF Abort, IInv, TypeOK
<1>5. ASSUME NEW r \in Reqs, NEW e \in Emails, Register(r, e) \/ SeedRoot(r, e)
      PROVE  IInv' /\ Kept
  BY <1>5, BeginInsertKeeps DEF Register, SeedRoot, Kept
<1>6. ASSUME NEW r \in Reqs, NEW e \in Emails,
             SetupMFA(r, e) \/ EnableMFA(r, e) \/ DisableMFA(r, e)
      PROVE  IInv' /\ Kept
  BY <1>6, MFAKeeps DEF SetupMFA, EnableMFA, DisableMFA, Kept
<1>7. ASSUME NEW r \in Reqs, NEW e \in Emails, NEW g \in Googles, FindByGoogle(r, g, e)
      PROVE  IInv' /\ Kept
  BY <1>7, FindByGoogleKeeps DEF FindByGoogle, Kept
<1>8. ASSUME NEW r \in Reqs, NEW e \in Emails, NEW role \in Roles, ReadRole(r, e, role)
      PROVE  IInv' /\ Kept
  BY <1>8, ReadRoleKeeps DEF ReadRole, Kept
<1>9. CASE UNCHANGED vars
  BY <1>9 DEF vars, IInv, TypeOK, Kept, Sound, Knows
<1>10. QED
  BY <1>1, <1>2, <1>3, <1>4, <1>5, <1>6, <1>7, <1>8, <1>9 DEF Next

THEOREM Invariance == Spec => []IInv
<1>1. Init => IInv
  BY InvariantInit
<1>2. IInv /\ [Next]_vars => IInv'
  BY StepInvariant
<1>3. QED
  BY <1>1, <1>2, PTL DEF Spec

-----------------------------------------------------------------------------
(* The properties *)

\* The users table and the requests only ever hold what their columns may hold.
THEOREM TypeCorrect == Spec => []TypeOK
<1>1. IInv => TypeOK
  BY DEF IInv
<1>2. QED
  BY <1>1, Invariance, PTL

\* The secret of an account with MFA on is one that EnableMFA saw a code for,
\* however late the handlers of profile.go write their rows back.
THEOREM FactorProven == Spec => []SecondFactorIsProven
<1>1. IInv => SecondFactorIsProven
  BY DEF IInv, Sound, SecondFactorIsProven
<1>2. QED
  BY <1>1, Invariance, PTL

\* A user can always log in with a password or with Google.
THEOREM LoginKept == Spec => []AccountsCanLogIn
<1>1. IInv => AccountsCanLogIn
  BY DEF IInv, Sound, AccountsCanLogIn
<1>2. QED
  BY <1>1, Invariance, PTL

\* AssignSystemRole and the rows written back neither make a root nor unmake one.
THEOREM RootFixed == Spec => RootIsFixed
<1>1. IInv /\ [Next]_vars => [\A e \in known : users[e].role = "root"
                                             <=> users'[e].role = "root"]_vars
  BY StepInvariant DEF Kept
<1>2. QED
  BY <1>1, Invariance, PTL DEF Spec, RootIsFixed
=============================================================================
