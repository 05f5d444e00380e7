------------------------------- MODULE Plans -------------------------------
(***************************************************************************)
(* The vocabulary shared by the organisation and billing components:      *)
(* subscription plans, the member limits each plan grants, the org-level  *)
(* roles and the hierarchy that says who may assign which role            *)
(* (admin/backend/internal/model/plan.go and role.go).                    *)
(***************************************************************************)
EXTENDS Integers

Free       == "free"
Pro        == "pro"
Enterprise == "enterprise"
PlanNames  == {Free, Pro, Enterprise}

Owner       == "owner"
Admin       == "admin"
Operational == "operational"
OrgRoles    == {Owner, Admin, Operational}

\* RoleRoot and RoleSystem both bypass every org-level check; one value stands
\* for the two.
System == "system"

Unlimited == -1

\* The limits of a plan, by role: 0 forbids the role, Unlimited never refuses.
LimitsFor(plan) ==
    CASE plan = Pro        -> [owner |-> 1, admin |-> 3, operational |-> 15]
      [] plan = Enterprise -> [role \in OrgRoles |-> Unlimited]
      [] OTHER             -> [owner |-> 1, admin |-> 0, operational |-> 5]

\* owner assigns admin and operational, admin assigns operational, nobody
\* below system assigns owner.
CanAssignOrgRole(actor, role) ==
    \/ actor = System
    \/ actor = Owner /\ role \in {Admin, Operational}
    \/ actor = Admin /\ role = Operational

\* Whether a plan has room for one more holder of role when count hold it.
HasRoom(plan, role, count) ==
    \/ LimitsFor(plan)[role] = Unlimited
    \/ count < LimitsFor(plan)[role]
=============================================================================
