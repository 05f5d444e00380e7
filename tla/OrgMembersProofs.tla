-------------------------- MODULE OrgMembersProofs --------------------------
(***************************************************************************)
(* Proofs about OrgMembers, for any sets of users, row keys and requests. *)
(*                                                                        *)
(* The invariant is split in three, each proved from those before it:     *)
(*   Typing     types, and what a request has read at each statement;     *)
(*   Locking    who holds the organisation row, and what its transaction  *)
(*              knows of the table while it does;                         *)
(*   Room       the limit a transaction has checked still has room when   *)
(*              it writes.                                                *)
(* The refinement of module Membership rests on all three.                *)
(***************************************************************************)
EXTENDS OrgMembers, FiniteSetTheorems, TLAPS

InWrite == {"lock", "lookup", "limit", "write"}

\* What the fields of a request hold at the statement it has reached.
RequestData ==
    \A r \in Reqs :
       /\ pc[r] \in InWrite => /\ req[r].op \in {"AddMember", "UpdateMember"}
                               /\ req[r].target \in Users
                               /\ req[r].role \in OrgRoles
       /\ pc[r] \in {"limit", "write"} /\ req[r].op = "UpdateMember"
             => /\ req[r].row \in Row
                /\ req[r].row.id \in issued
                /\ req[r].row.user = req[r].target

Typing == TypeOK /\ RequestData

\* A key identifies a row, and the row an UpdateMember read is the only row its
\* user or its key can have while the organisation stays locked.
RowsIdentified ==
    /\ \A m, n \in rows : m.id = n.id => m = n
    /\ \A r \in Reqs : pc[r] \in {"limit", "write"} =>
          \A m \in rows :
             /\ req[r].op = "UpdateMember" =>
                   (m.user = req[r].target \/ m.id = req[r].row.id => m = req[r].row)
             /\ req[r].op = "AddMember" => m.user # req[r].target

Locking == ReadPlanIsCurrent /\ RowsIdentified /\ OneRowPerUser

Room ==
    /\ IsFiniteSet(rows)
    /\ \A r \in Reqs : pc[r] = "write" =>
          HasRoom(plan, req[r].role, Count(req[r].role))

IInv == Typing /\ Locking /\ Room

-----------------------------------------------------------------------------
(* Typing *)

\* A finished request is typed and holds no data.
LEMMA FinishTyped ==
    ASSUME TypeOK, NEW r \in Reqs, Finish(r)
    PROVE  /\ pc' \in [Reqs -> Steps \cup {"idle"}]
           /\ req' \in [Reqs -> Request]
           /\ lock' \in Reqs \cup {NoReq}
           /\ pc'[r] = "idle"
           /\ \A q \in Reqs \ {r} : pc'[q] = pc[q] /\ req'[q] = req[q]
<1>1. Idle \in Request
  BY DEF Idle, Request, Ops, PlanNames, Free
<1>2. QED
  BY <1>1 DEF TypeOK, Finish

\* A request that moves on is typed when its data is.
LEMMA GotoTyped ==
    ASSUME TypeOK, NEW r \in Reqs, NEW step \in Steps, NEW data \in Request,
           Goto(r, step, data)
    PROVE  /\ pc' \in [Reqs -> Steps \cup {"idle"}]
           /\ req' \in [Reqs -> Request]
           /\ pc'[r] = step
           /\ req'[r] = data
           /\ \A q \in Reqs \ {r} : pc'[q] = pc[q] /\ req'[q] = req[q]
  BY DEF TypeOK, Goto

\* The data of the other requests survives any step that forgets no key.
LEMMA OthersKeepData ==
    ASSUME RequestData, issued \subseteq issued', NEW r \in Reqs,
           \A q \in Reqs \ {r} : pc'[q] = pc[q] /\ req'[q] = req[q],
           /\ pc'[r] \in InWrite => /\ req'[r].op \in {"AddMember", "UpdateMember"}
                                    /\ req'[r].target \in Users
                                    /\ req'[r].role \in OrgRoles
           /\ pc'[r] \in {"limit", "write"} /\ req'[r].op = "UpdateMember"
                 => /\ req'[r].row \in Row
                    /\ req'[r].row.id \in issued'
                    /\ req'[r].row.user = req'[r].target
    PROVE  RequestData'
  BY DEF RequestData, InWrite

\* Ending a request keeps the data of all.
LEMMA FinishData ==
    ASSUME Typing, NEW r \in Reqs, Finish(r), issued \subseteq issued'
    PROVE  RequestData'
<1>1. TypeOK
  BY DEF Typing
<1>2. pc'[r] = "idle" /\ \A q \in Reqs \ {r} : pc'[q] = pc[q] /\ req'[q] = req[q]
  BY <1>1, FinishTyped
<1>3. QED
  BY <1>2, OthersKeepData DEF Typing, InWrite

LEMMA TypingInit == Init => Typing
<1>1. Idle \in Request
  BY DEF Idle, Request, Ops, PlanNames, Free
<1>2. Init => TypeOK
  BY <1>1 DEF Init, TypeOK, PlanNames
<1>3. Init => RequestData
  BY DEF Init, RequestData, InWrite
<1>4. QED
  BY <1>2, <1>3 DEF Typing

LEMMA TypingStep == Typing /\ [Next]_vars => Typing'
<1> SUFFICES ASSUME Typing, [Next]_vars PROVE Typing'
  OBVIOUS
<1> USE DEF Typing
<1>1. ASSUME NEW r \in Reqs, NEW op \in Ops, NEW actor \in OrgRoles \cup {System},
             NEW u \in Users, NEW role \in OrgRoles, BeginWrite(r, op, actor, u, role)
      PROVE  Typing'
  <2> DEFINE data == [Idle EXCEPT !.op = op, !.actor = actor, !.target = u, !.role = role]
  <2>1. data \in Request /\ data.op = op /\ data.target = u /\ data.role = role
    BY DEF Idle, Request, PlanNames, Free
  <2>2. "lock" \in Steps /\ Goto(r, "lock", data)
    BY <1>1 DEF BeginWrite, Steps
  <2> HIDE DEF data
  <2>3. TypeOK'
    BY <1>1, <2>1, <2>2, GotoTyped DEF BeginWrite, TypeOK, orgRow, table
  <2>4. RequestData'
    BY <1>1, <2>1, <2>2, GotoTyped, OthersKeepData DEF BeginWrite, InWrite, table
  <2>5. QED
    BY <2>3, <2>4
<1>2. ASSUME NEW r \in Reqs, NEW actor \in OrgRoles \cup {System}, NEW u \in Users,
             BeginRemove(r, actor, u)
      PROVE  Typing'
  <2> DEFINE data == [Idle EXCEPT !.op = "RemoveMember", !.actor = actor, !.target = u]
  <2>1. data \in Request
    BY DEF Idle, Request, PlanNames, Free, Ops
  <2>2. "read" \in Steps /\ Goto(r, "read", data)
    BY <1>2 DEF BeginRemove, Steps
  <2> HIDE DEF data
  <2>3. TypeOK'
    BY <1>2, <2>1, <2>2, GotoTyped DEF BeginRemove, TypeOK, orgRow, table
  <2>4. RequestData'
    BY <1>2, <2>1, <2>2, GotoTyped, OthersKeepData DEF BeginRemove, InWrite, table
  <2>5. QED
    BY <2>3, <2>4
<1>3. ASSUME NEW r \in Reqs, NEW op \in Ops, LoadOrg(r, op)
      PROVE  Typing'
  <2> DEFINE data == [Idle EXCEPT !.op = op, !.plan = plan]
             step == IF op = "DeleteOrg" THEN "delete" ELSE "save"
  <2>1. data \in Request
    BY DEF Idle, Request, TypeOK
  <2>2. step \in Steps /\ Goto(r, step, data) /\ step \notin InWrite
    BY <1>3 DEF LoadOrg, Steps, InWrite
  <2> HIDE DEF data, step
  <2>3. TypeOK'
    BY <1>3, <2>1, <2>2, GotoTyped DEF LoadOrg, TypeOK, orgRow, table
  <2>4. RequestData'
    BY <1>3, <2>1, <2>2, GotoTyped, OthersKeepData DEF LoadOrg, InWrite, table
  <2>5. QED
    BY <2>3, <2>4
<1>4. ASSUME NEW r \in Reqs, Abort(r)
      PROVE  Typing'
  BY <1>4, FinishTyped, FinishData DEF Abort, TypeOK, orgRow, table
<1>5. ASSUME NEW r \in Reqs, TakeLock(r)
      PROVE  Typing'
  <2>1. CASE deleted
    BY <1>5, <2>1, FinishTyped, FinishData DEF TakeLock, TypeOK, orgRow, table
  <2>2. CASE ~deleted
    <3> DEFINE data == [req[r] EXCEPT !.plan = plan]
    <3>1. /\ data \in Request
          /\ data.op = req[r].op /\ data.target = req[r].target /\ data.role = req[r].role
      BY DEF Request, TypeOK
    <3>2. "lookup" \in Steps /\ Goto(r, "lookup", data) /\ lock' = r
      BY <1>5, <2>2 DEF TakeLock, Steps
    <3> HIDE DEF data
    <3>3. TypeOK'
      BY <1>5, <3>1, <3>2, GotoTyped DEF TakeLock, TypeOK, orgRow, table
    <3>4. RequestData'
      BY <1>5, <3>1, <3>2, GotoTyped, OthersKeepData
      DEF TakeLock, RequestData, InWrite, table
    <3>5. QED
      BY <3>3, <3>4
  <2>3. QED
    BY <2>1, <2>2
<1>6. ASSUME NEW r \in Reqs, LookupExisting(r)
      PROVE  Typing'
  <2>1. CASE RowsOf(req[r].target) # {}
    BY <1>6, <2>1, FinishTyped, FinishData DEF LookupExisting, TypeOK, orgRow, table
  <2>2. CASE RowsOf(req[r].target) = {}
    <3>1. "limit" \in Steps /\ Goto(r, "limit", req[r]) /\ req[r] \in Request
      BY <1>6, <2>2 DEF LookupExisting, Steps, TypeOK
    <3>2. TypeOK'
      BY <1>6, <2>2, <3>1, GotoTyped DEF LookupExisting, TypeOK, orgRow, table
    <3>3. RequestData'
      BY <1>6, <3>1, GotoTyped, OthersKeepData
      DEF LookupExisting, RequestData, InWrite, table
    <3>4. QED
      BY <3>2, <3>3
  <2>3. QED
    BY <2>1, <2>2
<1>7. ASSUME NEW r \in Reqs, LookupMember(r)
      PROVE  Typing'
  <2>1. CASE Finish(r)
    BY <1>7, <2>1, FinishTyped, FinishData DEF LookupMember, TypeOK, orgRow, table
  <2>2. CASE ~Finish(r)
    <3>1. PICK m \in RowsOf(req[r].target) :
                /\ Goto(r, "limit", [req[r] EXCEPT !.row = m])
                /\ UNCHANGED lock
      BY <1>7, <2>2 DEF LookupMember
    <3> DEFINE data == [req[r] EXCEPT !.row = m]
    <3>2. m \in Row /\ m.id \in issued /\ m.user = req[r].target
      BY <3>1 DEF RowsOf, TypeOK
    <3>3. /\ data \in Request /\ data.row = m
          /\ data.op = req[r].op /\ data.target = req[r].target /\ data.role = req[r].role
      BY <3>2 DEF Request, TypeOK
    <3>4. "limit" \in Steps /\ Goto(r, "limit", data) /\ lock' = lock
      BY <3>1 DEF Steps
    <3> HIDE DEF data
    <3>5. TypeOK'
      BY <1>7, <3>3, <3>4, GotoTyped DEF LookupMember, TypeOK, orgRow, table
    <3>6. RequestData'
      BY <1>7, <3>2, <3>3, <3>4, GotoTyped, OthersKeepData
      DEF LookupMember, RequestData, InWrite, table
    <3>7. QED
      BY <3>5, <3>6
  <2>3. QED
    BY <2>1, <2>2
<1>8. ASSUME NEW r \in Reqs, CheckPlanLimit(r)
      PROVE  Typing'
  <2>1. CASE Finish(r)
    BY <1>8, <2>1, FinishTyped, FinishData DEF CheckPlanLimit, TypeOK, orgRow, table
  <2>2. CASE ~Finish(r)
    <3>1. /\ "write" \in Steps /\ Goto(r, "write", req[r]) /\ req[r] \in Request
          /\ lock' = lock
      BY <1>8, <2>2 DEF CheckPlanLimit, Steps, TypeOK
    <3>2. TypeOK'
      BY <1>8, <3>1, GotoTyped DEF CheckPlanLimit, TypeOK, orgRow, table
    <3>3. RequestData'
      BY <1>8, <3>1, GotoTyped, OthersKeepData
      DEF CheckPlanLimit, RequestData, InWrite, table
    <3>4. QED
      BY <3>2, <3>3
  <2>3. QED
    BY <2>1, <2>2
<1>9. ASSUME NEW r \in Reqs, CreateMember(r)
      PROVE  Typing'
  <2>1. req[r].target \in Users /\ req[r].role \in OrgRoles
    BY <1>9 DEF CreateMember, RequestData, InWrite
  <2>2. /\ rows' \subseteq Row /\ issued \subseteq issued' /\ issued' \subseteq RowIds
        /\ \A m \in rows' : m.id \in issued'
    BY <1>9, <2>1 DEF CreateMember, TypeOK, Row, table
  <2>3. QED
    BY <1>9, <2>2, FinishTyped, FinishData DEF CreateMember, TypeOK, orgRow
<1>10. ASSUME NEW r \in Reqs, SaveMember(r)
       PROVE  Typing'
  <2> DEFINE saved == [req[r].row EXCEPT !.role = req[r].role]
  <2>1. saved \in Row /\ saved.id \in issued
    BY <1>10 DEF SaveMember, RequestData, InWrite, Row
  <2>2. rows' \subseteq Row /\ \A m \in rows' : m.id \in issued
    BY <1>10, <2>1 DEF SaveMember, Save, TypeOK
  <2>3. QED
    BY <1>10, <2>2, FinishTyped, FinishData DEF SaveMember, TypeOK, orgRow
<1>11. ASSUME NEW r \in Reqs, ReadMember(r)
       PROVE  Typing'
  <2>1. CASE Finish(r)
    BY <1>11, <2>1, FinishTyped, FinishData DEF ReadMember, TypeOK, orgRow, table
  <2>2. CASE ~Finish(r)
    <3>1. PICK m \in RowsOf(req[r].target) :
                /\ Goto(r, "delete", [req[r] EXCEPT !.row = m])
                /\ UNCHANGED lock
      BY <1>11, <2>2 DEF ReadMember
    <3> DEFINE data == [req[r] EXCEPT !.row = m]
    <3>2. data \in Request
      BY <3>1 DEF Request, TypeOK, RowsOf
    <3>3. "delete" \in Steps /\ Goto(r, "delete", data) /\ lock' = lock
      BY <3>1 DEF Steps
    <3> HIDE DEF data
    <3>4. TypeOK'
      BY <1>11, <3>2, <3>3, GotoTyped DEF ReadMember, TypeOK, orgRow, table
    <3>5. RequestData'
      BY <1>11, <3>2, <3>3, GotoTyped, OthersKeepData DEF ReadMember, InWrite, table
    <3>6. QED
      BY <3>4, <3>5
  <2>3. QED
    BY <2>1, <2>2
<1>12. ASSUME NEW r \in Reqs, DeleteMember(r)
       PROVE  Typing'
  BY <1>12, FinishTyped, FinishData DEF DeleteMember, TypeOK, orgRow
<1>13. ASSUME NEW r \in Reqs, DeleteOrg(r)
       PROVE  Typing'
  BY <1>13, FinishTyped, FinishData DEF DeleteOrg, TypeOK, table
<1>14. ASSUME NEW r \in Reqs, SaveOrg(r)
       PROVE  Typing'
  <2>1. plan' \in PlanNames
    BY <1>14 DEF SaveOrg, TypeOK, Request
  <2>2. QED
    BY <1>14, <2>1, FinishTyped, FinishData DEF SaveOrg, TypeOK, table
<1>15. ASSUME NEW p \in PlanNames, UpdatePlan(p)
       PROVE  Typing'
  BY <1>15 DEF UpdatePlan, TypeOK, RequestData, table
<1>16. CASE UNCHANGED vars
  BY <1>16 DEF vars, TypeOK, RequestData
<1>17. QED
  BY <1>1, <1>2, <1>3, <1>4, <1>5, <1>6, <1>7, <1>8, <1>9, <1>10, <1>11, <1>12,
     <1>13, <1>14, <1>15, <1>16 DEF Next, Begin, Statement, LockingStatement

\* Every state of every behaviour is typed: no request carries a row or a role it
\* has not read, so nothing but a member row is ever written to org_members.
THEOREM TypeCorrect == Spec => []TypeOK
<1>1. Typing => TypeOK
  BY DEF Typing
<1>2. QED
  BY <1>1, TypingInit, TypingStep, PTL DEF Spec

-----------------------------------------------------------------------------
(* Locking *)

\* While the organisation's row is free, no transaction is under way; while one
\* is under way, no other is.
LEMMA OneTransaction ==
    ASSUME ReadPlanIsCurrent, NEW r \in Reqs
    PROVE  /\ lock = NoReq => pc[r] \notin InTx
           /\ \A q \in Reqs : pc[q] \in InTx /\ pc[r] \in InTx => q = r
  BY NullsAreFresh DEF ReadPlanIsCurrent

\* A step of r that writes nothing but deletions keeps what the others know.
LEMMA OthersKeepLocking ==
    ASSUME Locking, NEW r \in Reqs,
           \A q \in Reqs \ {r} : pc'[q] = pc[q] /\ req'[q] = req[q],
           \A q \in Reqs \ {r} : lock = q => lock' = q,
           rows' \subseteq rows, plan' = plan, deleted' = deleted,
           pc'[r] \in InTx => lock' = r /\ ~deleted /\ req'[r].plan = plan,
           pc'[r] \in {"limit", "write"} =>
              \A m \in rows :
                 /\ req'[r].op = "UpdateMember" =>
                       (m.user = req'[r].target \/ m.id = req'[r].row.id
                           => m = req'[r].row)
                 /\ req'[r].op = "AddMember" => m.user # req'[r].target
    PROVE  Locking'
<1>1. ReadPlanIsCurrent'
  BY DEF Locking, ReadPlanIsCurrent
<1>2. RowsIdentified'
  BY DEF Locking, RowsIdentified
<1>3. OneRowPerUser'
  <2>1. \A m, n \in rows' : m.user = n.user => m = n
    BY DEF Locking, OneRowPerUser
  <2>2. \A q \in Reqs : pc'[q] = "write" /\ req'[q].op = "AddMember"
                             => \A m \in rows' : m.user # req'[q].target
    BY <1>2 DEF RowsIdentified
  <2>3. QED
    BY <2>1, <2>2 DEF OneRowPerUser, RowsOf
<1>4. QED
  BY <1>1, <1>2, <1>3 DEF Locking

LEMMA FinishLocking ==
    ASSUME Typing, Locking, NEW r \in Reqs, Finish(r),
           rows' \subseteq rows, plan' = plan, deleted' = deleted
    PROVE  Locking'
<1>1. pc'[r] = "idle" /\ \A q \in Reqs \ {r} : pc'[q] = pc[q] /\ req'[q] = req[q]
  BY FinishTyped DEF Typing
<1>2. \A q \in Reqs \ {r} : lock = q => lock' = q
  BY DEF Finish
<1>3. QED
  BY <1>1, <1>2, OthersKeepLocking DEF InTx

\* A request that stays outside transactions disturbs none.
LEMMA OutsideLocking ==
    ASSUME Typing, Locking, NEW r \in Reqs,
           NEW step \in Steps \ InTx, NEW data \in Request, Goto(r, step, data),
           UNCHANGED <<plan, deleted, lock, rows>>
    PROVE  Locking'
<1>1. pc'[r] = step /\ \A q \in Reqs \ {r} : pc'[q] = pc[q] /\ req'[q] = req[q]
  BY GotoTyped DEF Typing
<1>2. QED
  BY <1>1, OthersKeepLocking DEF InTx

\* The holder of the row ends its transaction: whatever it wrote, what is left
\* to know is that keys and users identify rows.
LEMMA CommitLocking ==
    ASSUME Typing, Locking, NEW r \in Reqs, pc[r] \in InTx, Finish(r),
           \A m, n \in rows' : m.id = n.id \/ m.user = n.user => m = n
    PROVE  Locking'
<1>1. pc'[r] = "idle" /\ \A q \in Reqs \ {r} : pc'[q] = pc[q]
  BY FinishTyped DEF Typing
<1>2. \A q \in Reqs : pc'[q] \notin InTx
  BY <1>1, OneTransaction DEF Locking, InTx
<1>3. QED
  BY <1>2 DEF Locking, ReadPlanIsCurrent, RowsIdentified, OneRowPerUser, InTx

LEMMA LockingStep == Typing /\ Locking /\ [Next]_vars => Locking'
<1> SUFFICES ASSUME Typing, Locking, [Next]_vars PROVE Locking'
  OBVIOUS
<1>0. \A m, n \in rows : m.id = n.id \/ m.user = n.user => m = n
  BY DEF Locking, RowsIdentified, OneRowPerUser
<1>1. ASSUME NEW r \in Reqs, NEW op \in Ops, NEW actor \in OrgRoles \cup {System},
             NEW u \in Users, NEW role \in OrgRoles, BeginWrite(r, op, actor, u, role)
      PROVE  Locking'
  <2> DEFINE data == [Idle EXCEPT !.op = op, !.actor = actor, !.target = u, !.role = role]
  <2>1. data \in Request
    BY DEF Idle, Request, PlanNames, Free
  <2>2. "lock" \in Steps \ InTx /\ Goto(r, "lock", data)
    BY <1>1 DEF BeginWrite, Steps, InTx
  <2> HIDE DEF data
  <2>3. QED
    BY <1>1, <2>1, <2>2, OutsideLocking DEF BeginWrite, orgRow, table
<1>2. ASSUME NEW r \in Reqs, NEW actor \in OrgRoles \cup {System}, NEW u \in Users,
             BeginRemove(r, actor, u)
      PROVE  Locking'
  <2> DEFINE data == [Idle EXCEPT !.op = "RemoveMember", !.actor = actor, !.target = u]
  <2>1. data \in Request
    BY DEF Idle, Request, PlanNames, Free, Ops
  <2>2. "read" \in Steps \ InTx /\ Goto(r, "read", data)
    BY <1>2 DEF BeginRemove, Steps, InTx
  <2> HIDE DEF data
  <2>3. QED
    BY <1>2, <2>1, <2>2, OutsideLocking DEF BeginRemove, orgRow, table
<1>3. ASSUME NEW r \in Reqs, NEW op \in Ops, LoadOrg(r, op)
      PROVE  Locking'
  <2> DEFINE data == [Idle EXCEPT !.op = op, !.plan = plan]
             step == IF op = "DeleteOrg" THEN "delete" ELSE "save"
  <2>1. data \in Request
    BY DEF Idle, Request, Typing, TypeOK
  <2>2. step \in Steps \ InTx /\ Goto(r, step, data)
    BY <1>3 DEF LoadOrg, Steps, InTx
  <2> HIDE DEF data, step
  <2>3. QED
    BY <1>3, <2>1, <2>2, OutsideLocking DEF LoadOrg, orgRow, table
<1>4. ASSUME NEW r \in Reqs, Abort(r)
      PROVE  Locking'
  BY <1>4, FinishLocking DEF Abort, orgRow, table
<1>5. ASSUME NEW r \in Reqs, TakeLock(r)
      PROVE  Locking'
  <2>1. CASE deleted
    BY <1>5, <2>1, FinishLocking DEF TakeLock, orgRow, table
  <2>2. CASE ~deleted
    <3>1. /\ pc'[r] = "lookup" /\ req'[r].plan = plan
          /\ \A q \in Reqs \ {r} : pc'[q] = pc[q] /\ req'[q] = req[q]
      BY <1>5, <2>2 DEF TakeLock, Goto, Typing, TypeOK, Request
    <3>2. lock = NoReq /\ lock' = r /\ UNCHANGED <<plan, deleted, rows>>
      BY <1>5, <2>2 DEF TakeLock, orgRow, table
    <3>3. \A q \in Reqs : lock # q
      BY <3>2, NullsAreFresh
    <3>4. QED
      BY <2>2, <3>1, <3>2, <3>3, OthersKeepLocking
  <2>3. QED
    BY <2>1, <2>2
<1>6. ASSUME NEW r \in Reqs, LookupExisting(r)
      PROVE  Locking'
  <2>1. CASE Finish(r)
    BY <1>6, <2>1, FinishLocking DEF LookupExisting, orgRow, table
  <2>2. CASE ~Finish(r)
    <3>1. RowsOf(req[r].target) = {} /\ Goto(r, "limit", req[r])
      BY <1>6, <2>2 DEF LookupExisting
    <3>2. /\ pc'[r] = "limit" /\ req'[r] = req[r]
          /\ \A q \in Reqs \ {r} : pc'[q] = pc[q] /\ req'[q] = req[q]
      BY <3>1 DEF Goto, Typing, TypeOK
    <3>3. /\ pc[r] \in InTx /\ req[r].op = "AddMember"
          /\ UNCHANGED <<plan, deleted, lock, rows>>
      BY <1>6, <2>2 DEF LookupExisting, InTx, orgRow, table
    <3>4. \A m \in rows : m.user # req[r].target
      BY <3>1 DEF RowsOf
    <3>5. QED
      BY <3>2, <3>3, <3>4, OthersKeepLocking DEF Locking, ReadPlanIsCurrent
  <2>3. QED
    BY <2>1, <2>2
<1>7. ASSUME NEW r \in Reqs, LookupMember(r)
      PROVE  Locking'
  <2>1. CASE Finish(r)
    BY <1>7, <2>1, FinishLocking DEF LookupMember, orgRow, table
  <2>2. CASE ~Finish(r)
    <3>1. PICK m \in RowsOf(req[r].target) : Goto(r, "limit", [req[r] EXCEPT !.row = m])
      BY <1>7, <2>2 DEF LookupMember
    <3>2. /\ pc'[r] = "limit" /\ req'[r].row = m
          /\ req'[r].op = req[r].op /\ req'[r].target = req[r].target
          /\ req'[r].plan = req[r].plan
          /\ \A q \in Reqs \ {r} : pc'[q] = pc[q] /\ req'[q] = req[q]
      BY <3>1 DEF Goto, Typing, TypeOK, Request
    <3>3. /\ pc[r] \in InTx /\ req[r].op = "UpdateMember"
          /\ UNCHANGED <<plan, deleted, lock, rows>>
      BY <1>7, <2>2 DEF LookupMember, InTx, orgRow, table
    <3>4. m \in rows /\ m.user = req[r].target
      BY <3>1 DEF RowsOf
    <3>5. \A n \in rows : n.user = req[r].target \/ n.id = m.id => n = m
      BY <3>4, <1>0
    <3>6. QED
      BY <3>2, <3>3, <3>5, OthersKeepLocking DEF Locking, ReadPlanIsCurrent
  <2>3. QED
    BY <2>1, <2>2
<1>8. ASSUME NEW r \in Reqs, CheckPlanLimit(r)
      PROVE  Locking'
  <2>1. CASE Finish(r)
    BY <1>8, <2>1, FinishLocking DEF CheckPlanLimit, orgRow, table
  <2>2. CASE ~Finish(r)
    <3>1. /\ pc'[r] = "write" /\ req'[r] = req[r]
          /\ \A q \in Reqs \ {r} : pc'[q] = pc[q] /\ req'[q] = req[q]
      BY <1>8, <2>2 DEF CheckPlanLimit, Goto, Typing, TypeOK
    <3>2. pc[r] = "limit" /\ UNCHANGED <<plan, deleted, lock, rows>>
      BY <1>8, <2>2 DEF CheckPlanLimit, orgRow, table
    <3>3. QED
      BY <3>1, <3>2, OthersKeepLocking DEF Locking, ReadPlanIsCurrent, RowsIdentified, InTx
  <2>3. QED
    BY <2>1, <2>2
<1>9. ASSUME NEW r \in Reqs, CreateMember(r)
      PROVE  Locking'
  <2>1. pc[r] \in InTx /\ Finish(r)
    BY <1>9 DEF CreateMember, InTx
  <2>2. CASE rows' = rows
    BY <1>0, <2>1, <2>2, CommitLocking
  <2>3. CASE rows' # rows
    <3>1. PICK id \in RowIds \ issued :
             rows' = rows \cup {[id |-> id, user |-> req[r].target, role |-> req[r].role]}
      BY <1>9, <2>3 DEF CreateMember, table
    <3>2. \A m \in rows : m.id # id /\ m.user # req[r].target
      BY <1>9, <2>3 DEF CreateMember, RowsOf, table, Typing, TypeOK
    <3>3. QED
      BY <1>0, <2>1, <3>1, <3>2, CommitLocking
  <2>4. QED
    BY <2>2, <2>3
<1>10. ASSUME NEW r \in Reqs, SaveMember(r)
       PROVE  Locking'
  <2> DEFINE saved == [req[r].row EXCEPT !.role = req[r].role]
  <2>1. pc[r] \in {"limit", "write"} /\ req[r].op = "UpdateMember" /\ Finish(r)
    BY <1>10 DEF SaveMember
  <2>2. saved.id = req[r].row.id /\ saved.user = req[r].target
    BY <2>1 DEF Typing, RequestData, Row
  <2>3. rows' = {x \in rows : x.id # saved.id} \cup {saved}
    BY <1>10 DEF SaveMember, Save
  <2>4. \A m \in rows : m.user = saved.user => m = req[r].row
    BY <2>1, <2>2 DEF Locking, RowsIdentified
  <2> HIDE DEF saved
  <2>5. \A m, n \in rows' : m.id = n.id \/ m.user = n.user => m = n
    BY <1>0, <2>2, <2>3, <2>4
  <2>6. QED
    BY <2>1, <2>5, CommitLocking DEF InTx
<1>11. ASSUME NEW r \in Reqs, ReadMember(r)
       PROVE  Locking'
  <2>1. CASE Finish(r)
    BY <1>11, <2>1, FinishLocking DEF ReadMember, orgRow, table
  <2>2. CASE ~Finish(r)
    <3>1. PICK m \in RowsOf(req[r].target) : Goto(r, "delete", [req[r] EXCEPT !.row = m])
      BY <1>11, <2>2 DEF ReadMember
    <3> DEFINE data == [req[r] EXCEPT !.row = m]
    <3>2. data \in Request
      BY <3>1 DEF Request, Typing, TypeOK, RowsOf
    <3>3. "delete" \in Steps \ InTx /\ Goto(r, "delete", data)
      BY <3>1 DEF Steps, InTx
    <3>4. UNCHANGED <<plan, deleted, lock, rows>>
      BY <1>11, <2>2 DEF ReadMember, orgRow, table
    <3> HIDE DEF data
    <3>5. QED
      BY <3>2, <3>3, <3>4, OutsideLocking
  <2>3. QED
    BY <2>1, <2>2
<1>12. ASSUME NEW r \in Reqs, DeleteMember(r)
       PROVE  Locking'
  BY <1>12, FinishLocking DEF DeleteMember, orgRow
<1>13. ASSUME NEW r \in Reqs, DeleteOrg(r) \/ SaveOrg(r)
       PROVE  Locking'
  <2>1. lock = NoReq /\ Finish(r) /\ rows' = rows
    BY <1>13 DEF DeleteOrg, SaveOrg, table
  <2>2. pc'[r] = "idle" /\ \A q \in Reqs \ {r} : pc'[q] = pc[q]
    BY <2>1, FinishTyped DEF Typing
  <2>3. \A q \in Reqs : pc'[q] \notin InTx
    BY <2>1, <2>2, OneTransaction DEF Locking, InTx
  <2>4. QED
    BY <1>0, <2>1, <2>3 DEF Locking, ReadPlanIsCurrent, RowsIdentified, OneRowPerUser, InTx
<1>14. ASSUME NEW p \in PlanNames, UpdatePlan(p)
       PROVE  Locking'
  <2>1. lock = NoReq /\ rows' = rows /\ pc' = pc
    BY <1>14 DEF UpdatePlan, table
  <2>2. \A q \in Reqs : pc'[q] \notin InTx
    BY <2>1, OneTransaction DEF Locking
  <2>3. QED
    BY <1>0, <2>1, <2>2 DEF Locking, ReadPlanIsCurrent, RowsIdentified, OneRowPerUser, InTx
<1>15. CASE UNCHANGED vars
  BY <1>15 DEF vars, Locking, ReadPlanIsCurrent, RowsIdentified, OneRowPerUser, RowsOf
<1>16. QED
  BY <1>1, <1>2, <1>3, <1>4, <1>5, <1>6, <1>7, <1>8, <1>9, <1>10, <1>11, <1>12,
     <1>13, <1>14, <1>15 DEF Next, Begin, Statement, LockingStatement

-----------------------------------------------------------------------------
(* Room *)

Of(S, role) == {m \in S : m.role = role}

\* A count is a number, and deleting rows increases none.
LEMMA CountShrinks ==
    ASSUME NEW S, IsFiniteSet(S), NEW T \in SUBSET S, NEW role
    PROVE  /\ Cardinality(Of(S, role)) \in Nat
           /\ Cardinality(Of(T, role)) \in Nat
           /\ Cardinality(Of(T, role)) <= Cardinality(Of(S, role))
<1>0. Of(S, role) \in SUBSET S
  BY DEF Of
<1>1. IsFiniteSet(Of(S, role))
  BY <1>0, FS_Subset
<1>2. Of(T, role) \in SUBSET Of(S, role)
  BY DEF Of
<1>3. IsFiniteSet(Of(T, role)) /\ Cardinality(Of(T, role)) <= Cardinality(Of(S, role))
  BY <1>1, <1>2, FS_Subset
<1>4. QED
  BY <1>1, <1>3, FS_CardinalityType

\* Adding one row adds at most one holder, and only to the role of that row.
LEMMA CountAdds ==
    ASSUME NEW S, IsFiniteSet(S), NEW x, NEW T \in SUBSET (S \cup {x}), NEW role
    PROVE  /\ Cardinality(Of(T, role)) \in Nat
           /\ Cardinality(Of(T, role))
                 <= Cardinality(Of(S, role)) + (IF x.role = role THEN 1 ELSE 0)
<1>0. Of(S, role) \in SUBSET S
  BY DEF Of
<1>1. IsFiniteSet(Of(S, role)) /\ Cardinality(Of(S, role)) \in Nat
  BY <1>0, FS_Subset, FS_CardinalityType
<1>2. CASE x.role # role
  <2>1. Of(T, role) \in SUBSET Of(S, role)
    BY <1>2 DEF Of
  <2>2. IsFiniteSet(Of(T, role)) /\ Cardinality(Of(T, role)) <= Cardinality(Of(S, role))
    BY <1>1, <2>1, FS_Subset
  <2>3. QED
    BY <1>1, <1>2, <2>2, FS_CardinalityType
<1>3. CASE x.role = role
  <2>1. Of(T, role) \in SUBSET (Of(S, role) \cup {x})
    BY DEF Of
  <2>2. /\ IsFiniteSet(Of(S, role) \cup {x})
        /\ Cardinality(Of(S, role) \cup {x}) <= Cardinality(Of(S, role)) + 1
    BY <1>1, FS_AddElement
  <2>3. /\ IsFiniteSet(Of(T, role)) /\ Cardinality(Of(T, role)) \in Nat
        /\ Cardinality(Of(T, role)) <= Cardinality(Of(S, role) \cup {x})
    BY <2>1, <2>2, FS_Subset, FS_CardinalityType
  <2>4. Cardinality(Of(S, role) \cup {x}) \in Nat
    BY <2>2, FS_CardinalityType
  <2>5. QED
    BY <1>1, <1>3, <2>2, <2>3, <2>4
<1>4. QED
  BY <1>2, <1>3

\* Fewer holders leave at least as much room.
LEMMA RoomGrows ==
    ASSUME NEW p, NEW role \in OrgRoles, NEW c \in Nat, NEW d \in Nat,
           d <= c, HasRoom(p, role, c)
    PROVE  HasRoom(p, role, d)
<1>1. LimitsFor(p)[role] \in Int
  BY DEF LimitsFor, OrgRoles, Owner, Admin, Operational, Unlimited, Pro, Enterprise
<1>2. QED
  BY <1>1 DEF HasRoom

\* A step deletes rows at most, or it is the write that ends a transaction and
\* adds at most one row, of the role the request asked for.
LEMMA WritesOfStep ==
    ASSUME Typing, [Next]_vars
    PROVE  \/ rows' \subseteq rows
           \/ \E r \in Reqs, m \in Row :
                 /\ pc[r] = "write" /\ Finish(r)
                 /\ UNCHANGED <<plan, deleted>>
                 /\ rows' \subseteq rows \cup {m}
                 /\ m.role = req[r].role
<1>1. ASSUME NEW r \in Reqs, CreateMember(r), ~(rows' \subseteq rows)
      PROVE  \E m \in Row : rows' \subseteq rows \cup {m} /\ m.role = req[r].role
  <2>1. PICK id \in RowIds \ issued :
           rows' = rows \cup {[id |-> id, user |-> req[r].target, role |-> req[r].role]}
    BY <1>1 DEF CreateMember, table
  <2>2. [id |-> id, user |-> req[r].target, role |-> req[r].role] \in Row
    BY <1>1 DEF CreateMember, Typing, RequestData, InWrite, Row
  <2>3. QED
    BY <2>1, <2>2
<1>2. ASSUME NEW r \in Reqs, SaveMember(r)
      PROVE  \E m \in Row : rows' \subseteq rows \cup {m} /\ m.role = req[r].role
  <2>1. [req[r].row EXCEPT !.role = req[r].role] \in Row
    BY <1>2 DEF SaveMember, Typing, RequestData, InWrite, Row
  <2>2. [req[r].row EXCEPT !.role = req[r].role].role = req[r].role
    BY <1>2 DEF SaveMember, Typing, RequestData, Row
  <2>3. QED
    BY <1>2, <2>1, <2>2 DEF SaveMember, Save
<1>3. \A r \in Reqs : CreateMember(r) \/ SaveMember(r)
          => pc[r] = "write" /\ Finish(r) /\ UNCHANGED <<plan, deleted>>
  BY DEF CreateMember, SaveMember, orgRow
<1>4. (\E r \in Reqs : CreateMember(r) \/ SaveMember(r)) \/ rows' \subseteq rows
  BY DEF Next, Begin, Statement, LockingStatement, BeginWrite, BeginRemove, LoadOrg,
         Abort, TakeLock, LookupExisting, LookupMember, CheckPlanLimit, ReadMember,
         DeleteMember, DeleteOrg, SaveOrg, UpdatePlan, vars, table
<1>5. QED
  BY <1>1, <1>2, <1>3, <1>4

\* The room found in a table is still there when rows have been deleted.
LEMMA DeletionLeavesRoom ==
    ASSUME NEW S, IsFiniteSet(S), NEW T \in SUBSET S, NEW p, NEW role \in OrgRoles,
           HasRoom(p, role, Cardinality(Of(S, role)))
    PROVE  HasRoom(p, role, Cardinality(Of(T, role)))
  BY CountShrinks, RoomGrows

\* A request reaches its write by passing checkPlanLimit, and waits there.
LEMMA IntoWrite ==
    ASSUME Typing, [Next]_vars, NEW q \in Reqs, pc'[q] = "write"
    PROVE  \/ pc[q] = "write" /\ req'[q] = req[q]
           \/ /\ pc[q] = "limit" /\ Goto(q, "write", req[q]) /\ UNCHANGED <<orgRow, table>>
              /\ HasRoom(req[q].plan, req[q].role, Count(req[q].role))
<1>1. ASSUME NEW r \in Reqs, Finish(r)
      PROVE  pc[q] = "write" /\ req'[q] = req[q]
  BY <1>1 DEF Finish, Typing, TypeOK
<1>2. ASSUME NEW r \in Reqs, NEW step, step # "write", NEW data, Goto(r, step, data)
      PROVE  pc[q] = "write" /\ req'[q] = req[q]
  BY <1>2 DEF Goto, Typing, TypeOK
<1>3. ASSUME NEW r \in Reqs, Begin(r)
      PROVE  pc[q] = "write" /\ req'[q] = req[q]
  <2>1. \E step \in {"lock", "read", "delete", "save"} : \E data : Goto(r, step, data)
    BY <1>3 DEF Begin, BeginWrite, BeginRemove, LoadOrg
  <2>2. QED
    BY <1>2, <2>1
<1>4. ASSUME NEW r \in Reqs, Statement(r), ~CheckPlanLimit(r)
      PROVE  pc[q] = "write" /\ req'[q] = req[q]
  <2>1. \/ Finish(r)
        \/ \E step \in {"limit", "delete"} : \E data : Goto(r, step, data)
    BY <1>4 DEF Statement, LookupExisting, LookupMember, CreateMember, SaveMember,
                ReadMember, DeleteMember
  <2>2. QED
    BY <1>1, <1>2, <2>1
<1>5. ASSUME NEW r \in Reqs, LockingStatement(r)
      PROVE  pc[q] = "write" /\ req'[q] = req[q]
  <2>1. Finish(r) \/ \E data : Goto(r, "lookup", data)
    BY <1>5 DEF LockingStatement, TakeLock, DeleteOrg, SaveOrg
  <2>2. QED
    BY <1>1, <1>2, <2>1
<1>6. ASSUME NEW r \in Reqs, CheckPlanLimit(r)
      PROVE  \/ pc[q] = "write" /\ req'[q] = req[q]
             \/ /\ pc[q] = "limit" /\ Goto(q, "write", req[q]) /\ UNCHANGED <<orgRow, table>>
                /\ HasRoom(req[q].plan, req[q].role, Count(req[q].role))
  <2>1. CASE Finish(r)
    BY <1>1, <2>1
  <2>2. CASE ~Finish(r) /\ r = q
    BY <1>6, <2>2 DEF CheckPlanLimit
  <2>3. CASE ~Finish(r) /\ r # q
    BY <1>6, <2>3 DEF CheckPlanLimit, Goto, Typing, TypeOK
  <2>4. QED
    BY <2>1, <2>2, <2>3
<1>7. ASSUME NEW r \in Reqs, Abort(r)
      PROVE  pc[q] = "write" /\ req'[q] = req[q]
  BY <1>1, <1>7 DEF Abort
<1>8. CASE UNCHANGED <<pc, req>>
  BY <1>8
<1>9. QED
  BY <1>3, <1>4, <1>5, <1>6, <1>7, <1>8 DEF Next, UpdatePlan, vars

LEMMA RoomStep == Typing /\ Locking /\ Room /\ [Next]_vars => Room'
<1> SUFFICES ASSUME Typing, Locking, Room, [Next]_vars PROVE Room'
  OBVIOUS
<1>1. IsFiniteSet(rows')
  <2>1. CASE rows' \subseteq rows
    BY <2>1, FS_Subset DEF Room
  <2>2. CASE ~(rows' \subseteq rows)
    <3>1. PICK m \in Row : rows' \subseteq rows \cup {m}
      BY <2>2, WritesOfStep
    <3>2. QED
      BY <3>1, FS_AddElement, FS_Subset DEF Room
  <2>3. QED
    BY <2>1, <2>2
\* Where nobody is about to write, there is nothing more to show.
<1>2. CASE \A q \in Reqs : pc'[q] # "write"
  BY <1>1, <1>2 DEF Room
\* Otherwise the only transaction under way is that request's: the table and the
\* plan moved by deletions at most.
<1>3. CASE \E q \in Reqs : pc'[q] = "write"
  <2>1. PICK q \in Reqs : pc'[q] = "write"
    BY <1>3
  <2>2. Typing' /\ Locking'
    BY TypingStep, LockingStep
  <2>3. pc[q] \in InTx /\ lock = q /\ lock # NoReq
    BY <2>1, IntoWrite, NullsAreFresh DEF Locking, ReadPlanIsCurrent, InTx
  <2>4. \A r \in Reqs : pc'[r] = "write" => r = q
    BY <2>1, <2>2 DEF Locking, ReadPlanIsCurrent, InTx
  <2>5. rows' \subseteq rows
    <3>1. \A r \in Reqs : pc[r] = "write" => r = q
      BY <2>3 DEF Locking, ReadPlanIsCurrent, InTx
    <3>2. ~Finish(q)
      BY <2>1, FinishTyped DEF Typing
    <3>3. QED
      BY <3>1, <3>2, WritesOfStep
  <2>6. plan' = plan
    BY <2>3 DEF Next, Begin, Statement, LockingStatement, BeginWrite, BeginRemove, LoadOrg,
         Abort, TakeLock, LookupExisting, LookupMember, CheckPlanLimit, ReadMember,
         CreateMember, SaveMember, DeleteMember, DeleteOrg, SaveOrg, UpdatePlan, vars, orgRow
  <2>7. /\ req'[q] = req[q] /\ req[q].role \in OrgRoles
        /\ HasRoom(plan, req[q].role, Count(req[q].role))
    <3>1. CASE pc[q] = "write" /\ req'[q] = req[q]
      BY <3>1 DEF Room, Typing, RequestData, InWrite
    <3>2. CASE /\ pc[q] = "limit" /\ Goto(q, "write", req[q])
               /\ HasRoom(req[q].plan, req[q].role, Count(req[q].role))
      BY <3>2 DEF Goto, Locking, ReadPlanIsCurrent, InTx, Typing, TypeOK, RequestData, InWrite
    <3>3. QED
      BY <2>1, <3>1, <3>2, IntoWrite
  <2>8. ASSUME NEW role \in OrgRoles, HasRoom(plan, role, Count(role))
        PROVE  HasRoom(plan, role, Cardinality(Of(rows', role)))
    BY <2>5, <2>8, DeletionLeavesRoom DEF Room, Count, Of
  <2>9. HasRoom(plan', req'[q].role, Cardinality(Of(rows', req'[q].role)))
    BY <2>6, <2>7, <2>8
  <2>10. QED
    BY <1>1, <2>4, <2>9 DEF Room, Count, Of
<1>4. QED
  BY <1>2, <1>3

-----------------------------------------------------------------------------
(* The theorems *)

LEMMA Inductive == Spec => []IInv
<1>1. Init => IInv
  <2>1. Init => Locking
    BY DEF Init, Locking, ReadPlanIsCurrent, RowsIdentified, OneRowPerUser, InTx
  <2>2. Init => Room
    BY FS_EmptySet DEF Init, Room
  <2>3. QED
    BY <2>1, <2>2, TypingInit DEF IInv
<1>2. IInv /\ [Next]_vars => IInv'
  BY TypingStep, LockingStep, RoomStep DEF IInv
<1>3. QED
  BY <1>1, <1>2, PTL DEF Spec

\* Whatever else happens to the organisation, a transaction that has its row works
\* with the plan in force, alone, until it ends.
THEOREM PlanReadIsCurrent == Spec => []ReadPlanIsCurrent
<1>1. IInv => ReadPlanIsCurrent
  BY DEF IInv, Locking
<1>2. QED
  BY <1>1, Inductive, PTL

\* The duplicate check under the lock makes the UNIQUE constraint unreachable.
THEOREM UsersHaveOneRow == Spec => []OneRowPerUser
<1>1. IInv => OneRowPerUser
  BY DEF IInv, Locking
<1>2. QED
  BY <1>1, Inductive, PTL

\* No interleaving of any number of requests lets a role outgrow the plan in force.
THEOREM CapHolds == Spec => CapRespected
<1>1. IInv /\ [Next]_vars =>
         [\A role \in OrgRoles :
             Count(role)' > Count(role)
                 => \/ LimitsFor(plan)[role] = Unlimited
                    \/ Count(role)' <= LimitsFor(plan)[role]]_vars
  <2> SUFFICES ASSUME IInv, [Next]_vars, NEW role \in OrgRoles,
                      Cardinality(Of(rows', role)) > Cardinality(Of(rows, role))
               PROVE  \/ LimitsFor(plan)[role] = Unlimited
                      \/ Cardinality(Of(rows', role)) <= LimitsFor(plan)[role]
    BY DEF Count, Of
  <2>1. IsFiniteSet(rows)
    BY DEF IInv, Room
  <2>2. ~(rows' \subseteq rows)
    BY <2>1, CountShrinks
  <2>3. PICK r \in Reqs, m \in Row :
           /\ pc[r] = "write" /\ rows' \subseteq rows \cup {m} /\ m.role = req[r].role
    BY <2>2, WritesOfStep DEF IInv
  <2>4. /\ Cardinality(Of(rows, role)) \in Nat /\ Cardinality(Of(rows', role)) \in Nat
        /\ Cardinality(Of(rows', role))
              <= Cardinality(Of(rows, role)) + (IF m.role = role THEN 1 ELSE 0)
    BY <2>1, <2>3, CountAdds, CountShrinks
  <2>5. m.role = role /\ Cardinality(Of(rows', role)) <= Cardinality(Of(rows, role)) + 1
    BY <2>4
  <2>6. HasRoom(plan, role, Cardinality(Of(rows, role)))
    BY <2>3, <2>5 DEF IInv, Room, Count, Of
  <2>7. LimitsFor(plan)[role] \in Int
    BY DEF LimitsFor, OrgRoles, Owner, Admin, Operational, Unlimited, Pro, Enterprise
  <2>8. QED
    BY <2>4, <2>5, <2>6, <2>7 DEF HasRoom
<1>2. QED
  BY <1>1, Inductive, PTL DEF CapRespected, Spec

\* A request that passed the middleware before a deletion adds nobody after it.
THEOREM DeletedGainsNobody == Spec => DeletedOrgGainsNobody
<1>1. IInv /\ [Next]_vars => [deleted => rows' \subseteq rows]_vars
  BY WritesOfStep DEF IInv, Locking, ReadPlanIsCurrent, InTx
<1>2. QED
  BY <1>1, Inductive, PTL DEF DeletedOrgGainsNobody, Spec

-----------------------------------------------------------------------------
(* The refinement: the handlers keep the promise of module Membership.  A *)
(* request is a membership change only at its write, and the write of a   *)
(* row is the change of one user's role.                                  *)

\* The rows of a table identify users, so they say one role of each.
Identified(S) == \A m, n \in S : m.user = n.user => m = n

RoleIn(S) == [u \in Users |-> IF {m \in S : m.user = u} = {} THEN NoRow
                              ELSE (CHOOSE m \in S : m.user = u).role]

\* The role of a user with a row is that of the row.
LEMMA RoleOfMember ==
    ASSUME NEW S \in SUBSET Row, Identified(S), NEW m \in S
    PROVE  RoleIn(S)[m.user] = m.role
<1>1. m.user \in Users /\ m \in {n \in S : n.user = m.user}
  BY DEF Row
<1>2. PICK c : c = CHOOSE n \in S : n.user = m.user
  OBVIOUS
<1>3. c \in S /\ c.user = m.user
  BY <1>2
<1>4. c = m
  BY <1>3 DEF Identified
<1>5. RoleIn(S)[m.user] = c.role
  BY <1>1, <1>2 DEF RoleIn
<1>6. QED
  BY <1>4, <1>5

\* A user without a row has no role.
LEMMA RoleOfStranger ==
    ASSUME NEW S, NEW u \in Users, \A m \in S : m.user # u
    PROVE  RoleIn(S)[u] = NoRow
  BY DEF RoleIn

\* Tables that agree on the rows of a user agree on the user's role.
LEMMA SameRole ==
    ASSUME NEW S \in SUBSET Row, NEW T \in SUBSET Row, Identified(S), Identified(T),
           NEW u \in Users, \A m \in Row : m.user = u => (m \in S <=> m \in T)
    PROVE  RoleIn(T)[u] = RoleIn(S)[u]
<1>1. CASE \E m \in S : m.user = u
  BY <1>1, RoleOfMember
<1>2. CASE \A m \in S : m.user # u
  BY <1>2, RoleOfStranger
<1>3. QED
  BY <1>1, <1>2

\* A table that changes in the rows of one user changes the role of that user.
LEMMA OneRoleChanges ==
    ASSUME NEW S \in SUBSET Row, NEW T \in SUBSET Row, Identified(S), Identified(T),
           NEW u \in Users, \A m \in Row : m.user # u => (m \in S <=> m \in T)
    PROVE  RoleIn(T) = [RoleIn(S) EXCEPT ![u] = RoleIn(T)[u]]
<1>1. \A v \in Users \ {u} : RoleIn(T)[v] = RoleIn(S)[v]
  BY SameRole
<1>2. RoleIn(S) = [v \in Users |-> RoleIn(S)[v]] /\ RoleIn(T) = [v \in Users |-> RoleIn(T)[v]]
  BY DEF RoleIn
<1> HIDE DEF RoleIn
<1>3. QED
  BY <1>1, <1>2

\* A role has no more holders than rows.
LEMMA HoldersAreRows ==
    ASSUME NEW S \in SUBSET Row, IsFiniteSet(S), Identified(S), NEW role \in OrgRoles
    PROVE  LET H == {u \in Users : RoleIn(S)[u] = role}
           IN  /\ Cardinality(H) \in Nat
               /\ Cardinality(H) <= Cardinality(Of(S, role))
<1> DEFINE H == {u \in Users : RoleIn(S)[u] = role}
           user == [m \in Of(S, role) |-> m.user]
<1>1. IsFiniteSet(Of(S, role))
  BY FS_Subset DEF Of
<1>2. \A m \in Of(S, role) : m.user \in H
  BY RoleOfMember DEF Of, Row
<1>3. \A u \in H : \E m \in Of(S, role) : m.user = u
  <2> SUFFICES ASSUME NEW u \in H PROVE \E m \in Of(S, role) : m.user = u
    OBVIOUS
  <2>1. PICK m \in S : m.user = u
    BY RoleOfStranger, NullsAreFresh
  <2>2. m.role = role
    BY <2>1, RoleOfMember
  <2>3. QED
    BY <2>1, <2>2 DEF Of
<1> HIDE DEF H
<1>4. user \in Surjection(Of(S, role), H)
  BY <1>2, <1>3 DEF Surjection
<1>5. IsFiniteSet(H) /\ Cardinality(H) <= Cardinality(Of(S, role))
  BY <1>1, <1>4, FS_Surjection DEF ExistsSurjection
<1>6. QED
  BY <1>5, FS_CardinalityType DEF H

\* Between the handlers' table and the promise: what the invariant says of both.
LEMMA TableIsIdentified ==
    ASSUME IInv
    PROVE  /\ rows \in SUBSET Row /\ Identified(rows) /\ IsFiniteSet(rows)
           /\ RoleOf = RoleIn(rows)
           /\ \A role \in OrgRoles : HasRoom(plan, role, Count(role))
                 => Promise!HasRoom(plan, role, Promise!Cardinality(Promise!Holders(role)))
<1>1. rows \in SUBSET Row /\ Identified(rows) /\ IsFiniteSet(rows)
  BY DEF IInv, Typing, TypeOK, Locking, OneRowPerUser, Room, Identified
<1>2. RoleOf = RoleIn(rows)
  BY DEF RoleOf, RoleIn, RowsOf
<1>3. ASSUME NEW role \in OrgRoles, HasRoom(plan, role, Count(role))
      PROVE  Promise!HasRoom(plan, role, Promise!Cardinality(Promise!Holders(role)))
  <2>1. Promise!Holders(role) = {u \in Users : RoleIn(rows)[u] = role}
    BY <1>2 DEF Promise!Holders
  <2>2. /\ Cardinality(Promise!Holders(role)) \in Nat
        /\ Cardinality(Promise!Holders(role)) <= Cardinality(Of(rows, role))
    BY <1>1, <2>1, HoldersAreRows
  <2>3. Count(role) = Cardinality(Of(rows, role)) /\ Cardinality(Of(rows, role)) \in Nat
    BY <1>1, CountShrinks DEF Count, Of
  <2>4. HasRoom(plan, role, Cardinality(Promise!Holders(role)))
    BY <1>3, <2>2, <2>3, RoomGrows
  <2>5. Promise!Cardinality(Promise!Holders(role)) = Cardinality(Promise!Holders(role))
    BY DEF Cardinality, Promise!Cardinality
  <2>6. QED
    BY <2>4, <2>5 DEF HasRoom, LimitsFor, OrgRoles, Unlimited, Pro, Enterprise, Owner, Admin,
       Operational, Promise!HasRoom, Promise!LimitsFor, Promise!OrgRoles,
       Promise!Unlimited, Promise!Pro, Promise!Enterprise, Promise!Owner,
       Promise!Admin, Promise!Operational
<1>4. QED
  BY <1>1, <1>2, <1>3

\* The write of a request that has passed checkPlanLimit is a Gain of the promise.
LEMMA WriteIsGain ==
    ASSUME IInv, IInv', NEW r \in Reqs, pc[r] = "write", UNCHANGED <<plan, deleted>>,
           LET u == req[r].target
           IN  /\ \A m \in Row : m.user # u => (m \in rows <=> m \in rows')
               /\ \E m \in rows' : m.user = u /\ m.role = req[r].role
               /\ \A m \in rows : m.user = u => m.role # req[r].role
    PROVE  Promise!Gain(req[r].target, req[r].role)
<1> DEFINE u == req[r].target
           role == req[r].role
<1>1. u \in Users /\ role \in OrgRoles /\ ~deleted /\ HasRoom(plan, role, Count(role))
  BY DEF IInv, Typing, RequestData, InWrite, Locking, ReadPlanIsCurrent, InTx, Room
<1>2. /\ rows \in SUBSET Row /\ Identified(rows) /\ RoleOf = RoleIn(rows)
      /\ Promise!HasRoom(plan, role, Promise!Cardinality(Promise!Holders(role)))
  BY <1>1, TableIsIdentified
<1>3. rows' \in SUBSET Row /\ Identified(rows') /\ RoleOf' = RoleIn(rows')
  BY DEF IInv, Typing, TypeOK, Locking, OneRowPerUser, Identified, RoleOf, RoleIn, RowsOf
<1>4. RoleIn(rows')[u] = role
  BY <1>3, RoleOfMember
<1>5. RoleIn(rows)[u] # role
  <2>1. CASE \E m \in rows : m.user = u
    BY <1>2, <2>1, RoleOfMember
  <2>2. CASE \A m \in rows : m.user # u
    BY <1>1, <2>2, RoleOfStranger, NullsAreFresh
  <2>3. QED
    BY <2>1, <2>2
<1>6. RoleIn(rows') = [RoleIn(rows) EXCEPT ![u] = RoleIn(rows')[u]]
  BY <1>1, <1>2, <1>3, OneRoleChanges
<1>7. RoleOf' = [RoleOf EXCEPT ![u] = role] /\ RoleOf[u] # role
  BY <1>2, <1>3, <1>4, <1>5, <1>6
<1>8. QED
  BY <1>1, <1>2, <1>7 DEF Promise!Gain

\* Every step of the handlers is a step of the promise, or changes nothing there.
LEMMA StepKeepsPromise ==
    ASSUME IInv, IInv', [Next]_vars
    PROVE  [Promise!Next]_(Promise!vars)
<1>0. /\ rows \in SUBSET Row /\ Identified(rows) /\ RoleOf = RoleIn(rows)
      /\ \A m, n \in rows : m.id = n.id => m = n
  BY TableIsIdentified DEF IInv, Locking, RowsIdentified
<1>1. ASSUME NEW r \in Reqs, CreateMember(r), rows' # rows
      PROVE  [Promise!Next]_(Promise!vars)
  <2>1. PICK id \in RowIds \ issued :
           rows' = rows \cup {[id |-> id, user |-> req[r].target, role |-> req[r].role]}
    BY <1>1 DEF CreateMember, table
  <2> DEFINE new == [id |-> id, user |-> req[r].target, role |-> req[r].role]
  <2>2. new \in rows' /\ new.user = req[r].target /\ new.role = req[r].role
    BY <2>1
  <2>3. \A m \in rows : m.user # req[r].target
    BY <1>1, <2>1 DEF CreateMember, IInv, Locking, OneRowPerUser, RowsOf
  <2>4. \A m \in Row : m.user # req[r].target => (m \in rows <=> m \in rows')
    BY <2>1
  <2>5. pc[r] = "write" /\ UNCHANGED <<plan, deleted>>
    BY <1>1 DEF CreateMember, orgRow
  <2>6. Promise!Gain(req[r].target, req[r].role)
    BY <2>2, <2>3, <2>4, <2>5, WriteIsGain
  <2>7. QED
    BY <2>6, <2>5 DEF Promise!Next, IInv, Typing, RequestData, InWrite, OrgRoles,
       Promise!OrgRoles, Owner, Admin, Operational, Promise!Owner, Promise!Admin,
       Promise!Operational
<1>2. ASSUME NEW r \in Reqs, SaveMember(r), rows' # rows
      PROVE  [Promise!Next]_(Promise!vars)
  <2> DEFINE old == req[r].row
             new == [old EXCEPT !.role = req[r].role]
  <2>1. /\ pc[r] = "write" /\ req[r].op = "UpdateMember" /\ UNCHANGED <<plan, deleted>>
        /\ rows' = {x \in rows : x.id # new.id} \cup {new}
    BY <1>2 DEF SaveMember, Save, orgRow
  <2>2. /\ old \in Row /\ old.user = req[r].target
        /\ req[r].target \in Users /\ req[r].role \in OrgRoles
    BY <2>1 DEF IInv, Typing, RequestData, InWrite
  <2>3. /\ new \in Row /\ new.id = old.id /\ new.user = old.user /\ new.role = req[r].role
        /\ old.role = req[r].role => new = old
    BY <2>2 DEF Row
  <2>4. \A m \in rows : (m.user = req[r].target \/ m.id = old.id) => m = old
    BY <2>1 DEF IInv, Locking, RowsIdentified
  <2> HIDE DEF old, new
  <2>5. \A m \in rows : m.user = req[r].target => m.role # req[r].role
    BY <1>2, <2>1, <2>2, <2>3, <2>4
  <2>6. \A m \in Row : m.user # req[r].target => (m \in rows <=> m \in rows')
    BY <2>1, <2>2, <2>3, <2>4
  <2>7. \E m \in rows' : m.user = req[r].target /\ m.role = req[r].role
    BY <2>1, <2>2, <2>3
  <2>8. Promise!Gain(req[r].target, req[r].role)
    BY <2>1, <2>5, <2>6, <2>7, WriteIsGain
  <2>9. QED
    BY <2>8, <2>2 DEF Promise!Next, OrgRoles, Promise!OrgRoles, Owner, Admin,
       Operational, Promise!Owner, Promise!Admin, Promise!Operational
<1>3. ASSUME NEW r \in Reqs, DeleteMember(r), rows' # rows
      PROVE  [Promise!Next]_(Promise!vars)
  <2>1. rows' = {m \in rows : m.id # req[r].row.id} /\ UNCHANGED <<plan, deleted>>
    BY <1>3 DEF DeleteMember, orgRow
  <2>2. PICK n \in rows : n.id = req[r].row.id
    BY <1>3, <2>1
  <2>3. rows' = rows \ {n}
    BY <1>0, <2>1, <2>2
  <2>4. n.user \in Users /\ n.role \in OrgRoles /\ \A m \in rows' : m.user # n.user
    BY <1>0, <2>2, <2>3 DEF Identified, Row
  <2>5. rows' \in SUBSET Row /\ Identified(rows') /\ RoleOf' = RoleIn(rows')
    BY DEF IInv, Typing, TypeOK, Locking, OneRowPerUser, Identified, RoleOf, RoleIn, RowsOf
  <2>6. \A m \in Row : m.user # n.user => (m \in rows <=> m \in rows')
    BY <2>3
  <2>7. RoleIn(rows') = [RoleIn(rows) EXCEPT ![n.user] = RoleIn(rows')[n.user]]
    BY <1>0, <2>4, <2>5, <2>6, OneRoleChanges
  <2>8. RoleIn(rows')[n.user] = NoRow
    BY <2>4, RoleOfStranger
  <2>9. RoleIn(rows)[n.user] # NoRow
    BY <1>0, <2>2, <2>4, RoleOfMember, NullsAreFresh
  <2>10. RoleOf' = [RoleOf EXCEPT ![n.user] = NoRow] /\ RoleOf[n.user] # NoRow
    BY <1>0, <2>5, <2>7, <2>8, <2>9
  <2>11. Promise!Leave(n.user)
    BY <2>1, <2>10 DEF Promise!Leave
  <2>12. QED
    BY <2>4, <2>11 DEF Promise!Next
<1>4. CASE rows' = rows
  <2>1. RoleOf' = RoleOf
    BY <1>4 DEF RoleOf, RowsOf
  <2>2. plan' \in PlanNames /\ deleted' \in BOOLEAN
    BY DEF IInv, Typing, TypeOK
  <2>3. QED
    BY <2>1, <2>2 DEF Promise!Next, Promise!OrgRowChange, PlanNames, Free, Pro,
       Enterprise, Promise!PlanNames, Promise!Free, Promise!Pro, Promise!Enterprise
<1>5. \/ rows' = rows
      \/ \E r \in Reqs : CreateMember(r) \/ SaveMember(r) \/ DeleteMember(r)
  BY DEF Next, Begin, Statement, LockingStatement, BeginWrite, BeginRemove, LoadOrg,
         Abort, TakeLock, LookupExisting, LookupMember, CheckPlanLimit, ReadMember,
         DeleteOrg, SaveOrg, UpdatePlan, vars, table
<1>6. QED
  BY <1>1, <1>2, <1>3, <1>4, <1>5

\* The handlers implement the membership promise: whatever the interleaving of
\* requests, statements and rollbacks, the table only ever moves as if one user
\* at a time joined a role with room under the plan in force, or left.
THEOREM HandlersKeepPromise == Spec => KeepsPromise
<1>1. Init => Promise!Init
  BY DEF Init, Promise!Init, RoleOf, RowsOf, Free, Promise!Free
<1>2. IInv /\ IInv' /\ [Next]_vars => [Promise!Next]_(Promise!vars)
  BY StepKeepsPromise
<1>3. QED
  BY <1>1, <1>2, Inductive, PTL DEF Spec, KeepsPromise, Promise!Spec
=============================================================================
