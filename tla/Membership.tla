----------------------------- MODULE Membership -----------------------------
(***************************************************************************)
(* What the membership of one organisation promises, with no requests, no *)
(* transactions and no locks: each user holds at most one role, a role    *)
(* gains a holder only while the plan of that very moment has room and    *)
(* the organisation exists, and anybody may leave at any time.  The       *)
(* organisation's own row (its plan, its soft-delete mark) is free to     *)
(* change between membership changes: a downgrade evicts nobody.          *)
(***************************************************************************)
EXTENDS Plans, FiniteSets

CONSTANTS Users, NoRole

VARIABLES
    plan,      \* the subscription plan of the organisation
    deleted,   \* whether the organisation is soft-deleted
    roleOf     \* roleOf[u]: the role of user u, NoRole when not a member

vars == <<plan, deleted, roleOf>>

Holders(role) == {u \in Users : roleOf[u] = role}

Init ==
    /\ plan = Free
    /\ deleted = FALSE
    /\ roleOf = [u \in Users |-> NoRole]

\* User u takes role, as a new member or by leaving another role.
Gain(u, role) ==
    /\ ~deleted
    /\ roleOf[u] # role
    /\ HasRoom(plan, role, Cardinality(Holders(role)))
    /\ roleOf' = [roleOf EXCEPT ![u] = role]
    /\ UNCHANGED <<plan, deleted>>

Leave(u) ==
    /\ roleOf[u] # NoRole
    /\ roleOf' = [roleOf EXCEPT ![u] = NoRole]
    /\ UNCHANGED <<plan, deleted>>

OrgRowChange ==
    /\ plan' \in PlanNames
    /\ deleted' \in BOOLEAN
    /\ UNCHANGED roleOf

Next ==
    \/ \E u \in Users, role \in OrgRoles : Gain(u, role)
    \/ \E u \in Users : Leave(u)
    \/ OrgRowChange

Spec == Init /\ [][Next]_vars
=============================================================================
