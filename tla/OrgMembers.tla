----------------------------- MODULE OrgMembers -----------------------------
(***************************************************************************)
(* The members of one organisation and the organisation row that guards   *)
(* them (admin/backend/internal/handler/organization.go), at the          *)
(* granularity of SQL statements under READ COMMITTED.  Echo serves every *)
(* request on a goroutine of its own, so the statements of concurrent     *)
(* requests interleave; the only mutual exclusion is the row lock that    *)
(* SELECT ... FOR UPDATE takes on the organisation.                       *)
(*                                                                        *)
(* Organisations do not interact, so one is enough.  The last statement   *)
(* of a transaction and its COMMIT are one step: until the COMMIT nobody  *)
(* sees the write, and a statement that needs the written row waits for   *)
(* it.  What the handlers do after the commit (cache invalidation, the    *)
(* reply) touches no state of this module.                                *)
(***************************************************************************)
EXTENDS Plans, FiniteSets

CONSTANTS
    Users,     \* users that may be members
    RowIds,    \* primary keys org_members can hand out (the bound of a run)
    Reqs,      \* request slots: how many requests are served at once
    NoReq,     \* the org row is not locked
    NoRow      \* a request that has read no member row

ASSUME NullsAreFresh ==
    NoReq \notin Reqs /\ NoRow \notin RowIds /\ NoRow \notin OrgRoles

VARIABLES
    plan,      \* organizations.plan
    deleted,   \* organizations.deleted_at IS NOT NULL
    lock,      \* the request whose transaction holds the org row, or NoReq
    rows,      \* the table org_members
    issued,    \* primary keys already handed out by its sequence
    pc,        \* pc[r]: the next statement of request r
    req        \* req[r]: what request r asks for and what it has read

orgRow == <<plan, deleted>>
table  == <<rows, issued>>
vars   == <<plan, deleted, lock, rows, issued, pc, req>>

Row      == [id : RowIds, user : Users, role : OrgRoles]
NoMember == [id |-> NoRow, user |-> NoRow, role |-> NoRow]

Ops   == {"AddMember", "UpdateMember", "RemoveMember", "DeleteOrg", "UpdateOrg"}
Steps == {"lock", "lookup", "limit", "write", "read", "delete", "save"}
InTx  == {"lookup", "limit", "write"}

\* actor: the caller's role as the middleware read it; plan: the plan read with
\* the row; row: the member row read.
Request == [op : Ops, actor : OrgRoles \cup {System}, target : Users \cup {NoRow},
            role : OrgRoles \cup {NoRow}, plan : PlanNames,
            row : Row \cup {NoMember}]

Idle == [op |-> "DeleteOrg", actor |-> System, target |-> NoRow, role |-> NoRow,
         plan |-> Free, row |-> NoMember]

RowsOf(u) == {m \in rows : m.user = u}
Count(role) == Cardinality({m \in rows : m.role = role})

TypeOK ==
    /\ plan \in PlanNames
    /\ deleted \in BOOLEAN
    /\ lock \in Reqs \cup {NoReq}
    /\ rows \subseteq Row
    /\ issued \subseteq RowIds
    /\ \A m \in rows : m.id \in issued
    /\ pc \in [Reqs -> Steps \cup {"idle"}]
    /\ req \in [Reqs -> Request]

Init ==
    /\ plan = Free
    /\ deleted = FALSE
    /\ lock = NoReq
    /\ rows = {}
    /\ issued = {}
    /\ pc = [r \in Reqs |-> "idle"]
    /\ req = [r \in Reqs |-> Idle]

-----------------------------------------------------------------------------
(* Steps common to the requests *)

\* The request ends, with success or with an error: the transaction it may hold
\* is committed or rolled back, and its row lock goes with it.
Finish(r) ==
    /\ pc' = [pc EXCEPT ![r] = "idle"]
    /\ req' = [req EXCEPT ![r] = Idle]
    /\ lock' = IF lock = r THEN NoReq ELSE lock

Goto(r, step, data) ==
    /\ pc' = [pc EXCEPT ![r] = step]
    /\ req' = [req EXCEPT ![r] = data]

\* What RequireOrgRole puts in the context: System for root and system callers,
\* the role of the caller's row for a member; nobody else passes.
Callers == {System} \cup {m.role : m \in rows}

\* A statement fails, or the connection or the client goes away: the handler
\* returns an error and PostgreSQL rolls the transaction back.
Abort(r) ==
    /\ pc[r] # "idle"
    /\ Finish(r)
    /\ UNCHANGED <<orgRow, table>>

-----------------------------------------------------------------------------
(* AddMember and UpdateMember: middleware, then one transaction *)

\* RequireOrgRole, ValidOrgRole and enforceCanAssign on the role in the body.
BeginWrite(r, op, actor, target, role) ==
    /\ pc[r] = "idle"
    /\ op \in {"AddMember", "UpdateMember"}
    /\ ~deleted
    /\ actor \in Callers
    /\ CanAssignOrgRole(actor, role)
    /\ Goto(r, "lock", [Idle EXCEPT !.op = op, !.actor = actor,
                                    !.target = target, !.role = role])
    /\ UNCHANGED <<orgRow, table, lock>>

\* Mutant: an unscoped SELECT, which finds soft-deleted rows too.
TakeLockUnscoped(r) ==
    /\ pc[r] = "lock"
    /\ lock = NoReq
    /\ lock' = r
    /\ Goto(r, "lookup", [req[r] EXCEPT !.plan = plan])
    /\ UNCHANGED <<orgRow, table>>

\* SELECT id, plan ... FOR UPDATE.  It waits for the holder, then reads the
\* row the holder left behind: a deleted one is not found.
TakeLock(r) ==
    /\ pc[r] = "lock"
    /\ lock = NoReq
    /\ \/ /\ deleted
          /\ Finish(r)
       \/ /\ ~deleted
          /\ lock' = r
          /\ Goto(r, "lookup", [req[r] EXCEPT !.plan = plan])
    /\ UNCHANGED <<orgRow, table>>

\* Mutant: no duplicate check, the UNIQUE constraint is left to do it.
LookupExistingUnchecked(r) ==
    /\ pc[r] = "lookup"
    /\ req[r].op = "AddMember"
    /\ Goto(r, "limit", req[r])
    /\ UNCHANGED <<orgRow, table, lock>>

\* AddMember refuses a user that already has a row.
LookupExisting(r) ==
    /\ pc[r] = "lookup"
    /\ req[r].op = "AddMember"
    /\ \/ /\ RowsOf(req[r].target) # {}
          /\ Finish(r)
       \/ /\ RowsOf(req[r].target) = {}
          /\ Goto(r, "limit", req[r])
          /\ UNCHANGED lock
    /\ UNCHANGED <<orgRow, table>>

\* Mutant: a change of role skips checkPlanLimit.
LookupMemberSkipsLimit(r) ==
    /\ pc[r] = "lookup"
    /\ req[r].op = "UpdateMember"
    /\ \E m \in RowsOf(req[r].target) :
          Goto(r, "write", [req[r] EXCEPT !.row = m])
    /\ UNCHANGED <<orgRow, table, lock>>

\* UpdateMember reads the target's row; a missing row is refused, and the role
\* it already has needs no write.
LookupMember(r) ==
    /\ pc[r] = "lookup"
    /\ req[r].op = "UpdateMember"
    /\ \/ /\ \A m \in RowsOf(req[r].target) : m.role = req[r].role
          /\ Finish(r)
       \/ \E m \in RowsOf(req[r].target) :
              /\ m.role # req[r].role
              /\ Goto(r, "limit", [req[r] EXCEPT !.row = m])
              /\ UNCHANGED lock
    /\ UNCHANGED <<orgRow, table>>

\* Mutant: count > limit where the code has count >= limit.
CheckPlanLimitOffByOne(r) ==
    /\ pc[r] = "limit"
    /\ HasRoom(req[r].plan, req[r].role, Count(req[r].role) - 1)
    /\ Goto(r, "write", req[r])
    /\ UNCHANGED <<orgRow, table, lock>>

\* Mutant: the refusal returns without rolling the transaction back.
CheckPlanLimitLeaksLock(r) ==
    /\ pc[r] = "limit"
    /\ Goto(r, IF HasRoom(req[r].plan, req[r].role, Count(req[r].role))
               THEN "write" ELSE "idle", req[r])
    /\ UNCHANGED <<orgRow, table, lock>>

\* checkPlanLimit, against the plan read with the lock.
CheckPlanLimit(r) ==
    /\ pc[r] = "limit"
    /\ \/ /\ HasRoom(req[r].plan, req[r].role, Count(req[r].role))
          /\ Goto(r, "write", req[r])
          /\ UNCHANGED lock
       \/ /\ ~HasRoom(req[r].plan, req[r].role, Count(req[r].role))
          /\ Finish(r)
    /\ UNCHANGED <<orgRow, table>>

\* INSERT, refused by UNIQUE(org_id, user_id) when the user has a row, and by
\* the sequence when it has handed out its last key.
CreateMember(r) ==
    /\ pc[r] = "write"
    /\ req[r].op = "AddMember"
    /\ \/ /\ RowsOf(req[r].target) = {}
          /\ \E id \in RowIds \ issued :
                /\ issued' = issued \cup {id}
                /\ rows' = rows \cup {[id |-> id, user |-> req[r].target,
                                       role |-> req[r].role]}
       \/ /\ RowsOf(req[r].target) # {} \/ issued = RowIds
          /\ UNCHANGED table
    /\ Finish(r)
    /\ UNCHANGED orgRow

\* GORM's Save: UPDATE by primary key and, when that matches no row, INSERT ...
\* ON CONFLICT (id) DO UPDATE; either way the row is there afterwards.
Save(m) == {x \in rows : x.id # m.id} \cup {m}

SaveMember(r) ==
    /\ pc[r] = "write"
    /\ req[r].op = "UpdateMember"
    /\ rows' = Save([req[r].row EXCEPT !.role = req[r].role])
    /\ Finish(r)
    /\ UNCHANGED <<orgRow, issued>>

-----------------------------------------------------------------------------
(* RemoveMember: no transaction, no lock on the organisation *)

BeginRemove(r, actor, target) ==
    /\ pc[r] = "idle"
    /\ ~deleted
    /\ actor \in Callers
    /\ Goto(r, "read", [Idle EXCEPT !.op = "RemoveMember", !.actor = actor,
                                    !.target = target])
    /\ UNCHANGED <<orgRow, table, lock>>

\* The target's row, and enforceCanAssign on the role it holds.
ReadMember(r) ==
    /\ pc[r] = "read"
    /\ \/ \E m \in RowsOf(req[r].target) :
              /\ CanAssignOrgRole(req[r].actor, m.role)
              /\ Goto(r, "delete", [req[r] EXCEPT !.row = m])
              /\ UNCHANGED lock
       \/ /\ \A m \in RowsOf(req[r].target) :
                  ~CanAssignOrgRole(req[r].actor, m.role)
          /\ Finish(r)
    /\ UNCHANGED <<orgRow, table>>

\* DELETE by primary key: a hard delete.
DeleteMember(r) ==
    /\ pc[r] = "delete"
    /\ req[r].op = "RemoveMember"
    /\ rows' = {m \in rows : m.id # req[r].row.id}
    /\ Finish(r)
    /\ UNCHANGED <<orgRow, issued>>

-----------------------------------------------------------------------------
(* The organisation's own row *)

\* loadOrgByUUID for DeleteOrg and UpdateOrg, which are for system callers.
LoadOrg(r, op) ==
    /\ pc[r] = "idle"
    /\ ~deleted
    /\ op \in {"DeleteOrg", "UpdateOrg"}
    /\ Goto(r, IF op = "DeleteOrg" THEN "delete" ELSE "save",
            [Idle EXCEPT !.op = op, !.plan = plan])
    /\ UNCHANGED <<orgRow, table, lock>>

\* Soft delete: the member rows stay.
DeleteOrg(r) ==
    /\ pc[r] = "delete"
    /\ req[r].op = "DeleteOrg"
    /\ lock = NoReq
    /\ deleted' = TRUE
    /\ Finish(r)
    /\ UNCHANGED <<plan, table>>

\* Save writes back every column of the row that was read, so the plan it read;
\* when the row was deleted since, the upsert clears deleted_at.
SaveOrg(r) ==
    /\ pc[r] = "save"
    /\ lock = NoReq
    /\ plan' = req[r].plan
    /\ deleted' = FALSE
    /\ Finish(r)
    /\ UNCHANGED table

\* A billing handler sets the plan with one UPDATE: checkout completed,
\* subscription deleted, or enterprise assigned.
UpdatePlan(p) ==
    /\ ~deleted
    /\ lock = NoReq
    /\ plan' = p
    /\ UNCHANGED <<deleted, lock, table, pc, req>>

-----------------------------------------------------------------------------
Begin(r) ==
    \/ \E op \in Ops, actor \in OrgRoles \cup {System}, u \in Users, role \in OrgRoles :
          BeginWrite(r, op, actor, u, role)
    \/ \E actor \in OrgRoles \cup {System}, u \in Users : BeginRemove(r, actor, u)
    \/ \E op \in Ops : LoadOrg(r, op)

Statement(r) ==
    \/ LookupExisting(r) \/ LookupMember(r) \/ CheckPlanLimit(r)
    \/ CreateMember(r) \/ SaveMember(r)
    \/ ReadMember(r) \/ DeleteMember(r)

\* The statements that wait for the organisation's row.
LockingStatement(r) == TakeLock(r) \/ DeleteOrg(r) \/ SaveOrg(r)

Next ==
    \/ \E r \in Reqs : Begin(r) \/ Statement(r) \/ LockingStatement(r) \/ Abort(r)
    \/ \E p \in PlanNames : UpdatePlan(p)

\* A started request runs on; a waiter for a row lock is served in its turn
\* (PostgreSQL queues the waiters of a row).  Nobody has to send a request.
Fairness ==
    \A r \in Reqs : WF_vars(Statement(r)) /\ SF_vars(LockingStatement(r))

Spec == Init /\ [][Next]_vars /\ Fairness

-----------------------------------------------------------------------------
(* Properties *)

\* From the moment a transaction has the organisation's row until it ends, it
\* alone holds the row, the organisation exists and the plan it read is the
\* plan: what checkPlanLimit's comment demands of its callers
\* (organization.go:441-443).
ReadPlanIsCurrent ==
    \A r \in Reqs : pc[r] \in InTx => lock = r /\ ~deleted /\ req[r].plan = plan

\* No user ever has two rows, and a transaction about to insert finds none: the
\* duplicate check under the lock makes UNIQUE(org_id, user_id) unreachable,
\* RemoveMember and resurrected rows included.
OneRowPerUser ==
    /\ \A m, n \in rows : m.user = n.user => m = n
    /\ \A r \in Reqs : pc[r] = "write" /\ req[r].op = "AddMember"
                           => RowsOf(req[r].target) = {}

\* "Concurrent requests cannot race past the cap": a step that adds a holder to
\* a role leaves the role within the limit of the plan in force.  (The cap is
\* no invariant: a downgrade leaves the members there were.)
CapRespected ==
    [][\A role \in OrgRoles :
          Count(role)' > Count(role)
              => \/ LimitsFor(plan)[role] = Unlimited
                 \/ Count(role)' <= LimitsFor(plan)[role]]_vars

\* Membership of a deleted organisation only shrinks: a request that passed the
\* middleware before the deletion adds nobody and changes no role after it.
DeletedOrgGainsNobody ==
    [][deleted => rows' \subseteq rows]_vars

\* A removed row stays removed: a row appears only under a primary key that was
\* never used.  (organization.go:27 of the model package: "membership removal
\* is final".)
RemovalIsFinal ==
    [][\A m \in rows' : m.id \in issued => \E n \in rows : n.id = m.id]_vars

\* Every request is answered: the row lock is always released, so no request
\* waits for it for ever.
EveryRequestAnswered == \A r \in Reqs : pc[r] # "idle" ~> pc[r] = "idle"

\* What the table says of each user: the role in the user's row.
RoleOf == [u \in Users |-> IF RowsOf(u) = {} THEN NoRow
                           ELSE (CHOOSE m \in rows : m.user = u).role]

\* The handlers implement the membership promise of module Membership.
Promise == INSTANCE Membership WITH NoRole <- NoRow, roleOf <- RoleOf

KeepsPromise == Promise!Spec
=============================================================================
