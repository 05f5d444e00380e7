---------------------------- MODULE MCOrgMembers ----------------------------
(***************************************************************************)
(* Small instances of OrgMembers for TLC.                                 *)
(***************************************************************************)
EXTENDS OrgMembers, TLC

Symmetric == Permutations(Users) \cup Permutations(Reqs) \cup Permutations(RowIds)
=============================================================================
