----------------------------- MODULE MCBilling -----------------------------
(***************************************************************************)
(* Small instances of Billing for TLC.                                    *)
(***************************************************************************)
EXTENDS Billing, TLC

Symmetric == Permutations(Subs) \cup Permutations(JobIds) \cup Permutations(Reqs)
=============================================================================
