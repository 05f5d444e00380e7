---------------------------- MODULE BillingProofs ----------------------------
(***************************************************************************)
(* Proofs about Billing, for any subscriptions, job keys and requests.    *)
(*                                                                        *)
(* The invariant has three parts: types; Ledger, what the organisation    *)
(* row, the jobs and Stripe have to do with each other; and Knows, what a *)
(* request may rely on at each step although it locks nothing.  It can,   *)
(* because what it relies on is never undone: an ended subscription stays *)
(* ended, a refund stays made, a job stays in its table.                  *)
(***************************************************************************)
EXTENDS Billing, TLAPS

RowAgrees(p, s) == (p = Pro => s # NoSub) /\ (p = Free => s = NoSub)

JobFor(id, s) == \E j \in jobs : j.id = id /\ j.sub = s

Cleanup == {"cleanupCancel", "cleanupRefund", "recordCleanup"}
OnSub   == Cleanup \cup {"upgrade", "persistJob", "downgrade", "cancel", "cancelFirst"}

\* A request at step with data d.  The steps that work on a subscription have
\* one; the cleanup has its job; a flag it carries is true at Stripe; a row to be
\* written back agrees with itself; a promotion follows the cancellation.
Knows(step, d) ==
    /\ step \in OnSub => d.sub \in Subs
    /\ step \in Cleanup => JobFor(d.job, d.sub)
    /\ d.cancelled => step \in Cleanup /\ status[d.sub] = "cancelled"
    /\ d.refunded => step \in Cleanup /\ payment[d.sub] = "refunded"
    /\ step = "save" => RowAgrees(d.plan, d.sub)
    /\ step = "promote" /\ d.sub # NoSub => status[d.sub] = "cancelled"

\* A key names one subscription's job, and nobody pays before checkout.
JobsIdentified == \A j, k \in jobs : j.id = k.id => j.sub = k.sub
PaidAfterCheckout == \A s \in Subs : status[s] \in {"none", "open"} => payment[s] = "none"

Ledger ==
    /\ RowAgrees(plan, sub)
    /\ RefundsHaveJobs
    /\ JobMarksAreTrue
    /\ JobsIdentified
    /\ PaidAfterCheckout

IInv == TypeOK /\ Ledger /\ \A r \in Reqs : Knows(pc[r], req[r])

\* What no step undoes.
Kept ==
    /\ \A s \in Subs : status[s] = "cancelled" => status'[s] = "cancelled"
    /\ \A s \in Subs : payment[s] = "refunded" => payment'[s] = "refunded"
    /\ \A j \in jobs : \E k \in jobs' : k.id = j.id /\ k.sub = j.sub

-----------------------------------------------------------------------------
LEMMA IdleKnows == Idle \in Request /\ Knows("idle", Idle)
  BY DEF Idle, Request, Knows, OnSub, Cleanup, PlanNames, Free

\* What Goto does to the request and leaves of the others.
LEMMA GotoMoves ==
    ASSUME TypeOK, NEW r \in Reqs, NEW step \in Steps \cup {"idle"}, NEW data \in Request,
           Goto(r, step, data)
    PROVE  /\ pc' \in [Reqs -> Steps \cup {"idle"}]
           /\ req' \in [Reqs -> Request]
           /\ pc'[r] = step
           /\ req'[r] = data
           /\ \A q \in Reqs \ {r} : pc'[q] = pc[q] /\ req'[q] = req[q]
  BY DEF TypeOK, Goto

LEMMA FinishMoves ==
    ASSUME TypeOK, NEW r \in Reqs, Finish(r)
    PROVE  /\ pc' \in [Reqs -> Steps \cup {"idle"}]
           /\ req' \in [Reqs -> Request]
           /\ pc'[r] = "idle"
           /\ req'[r] = Idle
           /\ \A q \in Reqs \ {r} : pc'[q] = pc[q] /\ req'[q] = req[q]
  BY IdleKnows, GotoMoves DEF Finish

\* What a request knows stays known while nothing is undone.
LEMMA KnowsKept ==
    ASSUME TypeOK, Kept, NEW q \in Reqs, pc'[q] = pc[q], req'[q] = req[q],
           Knows(pc[q], req[q])
    PROVE  Knows(pc[q], req[q])'
<1>1. pc[q] \in OnSub => req[q].sub \in Subs
  BY DEF Knows
<1>2. req[q].sub \in Subs \cup {NoSub}
  BY DEF TypeOK, Request
<1>3. pc[q] \in Cleanup => pc[q] \in OnSub
  BY DEF OnSub
<1>4. pc[q] \in Cleanup => JobFor(req[q].job, req[q].sub)'
  BY DEF Knows, Kept, JobFor
<1>5. QED
  BY <1>1, <1>2, <1>3, <1>4 DEF Knows, Kept

\* The step of one request: the others are untouched.
LEMMA StepKnows ==
    ASSUME IInv, Kept, NEW r \in Reqs,
           \A q \in Reqs \ {r} : pc'[q] = pc[q] /\ req'[q] = req[q],
           Knows(pc[r], req[r])'
    PROVE  \A q \in Reqs : Knows(pc[q], req[q])'
<1>1. ASSUME NEW q \in Reqs, q # r PROVE Knows(pc[q], req[q])'
  BY <1>1, KnowsKept DEF IInv
<1>2. QED
  BY <1>1

-----------------------------------------------------------------------------
(* What the steps at Stripe keep *)

StripeKeeps ==
    /\ status' \in [Subs -> {"none", "open", "active", "cancelled"}]
    /\ payment' \in [Subs -> {"none", "charged", "refunded"}]
    /\ events' \subseteq Events
    /\ Kept
    /\ (RefundsHaveJobs /\ JobMarksAreTrue /\ JobsIdentified /\ PaidAfterCheckout)'

LEMMA EndsKeeps ==
    ASSUME TypeOK, Ledger, NEW s \in Subs, EndsAtStripe(s), UNCHANGED jobs
    PROVE  StripeKeeps /\ status'[s] = "cancelled"
<1>1. status' = [status EXCEPT ![s] = "cancelled"] /\ events' = events \cup {Deleted(s)}
      /\ payment' = payment /\ status[s] = "active"
  BY DEF EndsAtStripe
<1>2. Kept
  BY <1>1 DEF Kept, TypeOK
<1>3. JobMarksAreTrue'
  BY <1>1 DEF TypeOK, Ledger, JobMarksAreTrue, Job
<1>4. (RefundsHaveJobs /\ JobsIdentified /\ PaidAfterCheckout)'
  BY <1>1 DEF TypeOK, Ledger, RefundsHaveJobs, JobsIdentified, PaidAfterCheckout
<1>5. QED
  BY <1>1, <1>2, <1>3, <1>4 DEF TypeOK, Events, StripeKeeps

LEMMA StripeIdleKeeps ==
    ASSUME TypeOK, Ledger, UNCHANGED stripe, UNCHANGED jobs
    PROVE  StripeKeeps
  BY DEF StripeKeeps, TypeOK, Ledger, stripe, Kept, RefundsHaveJobs, JobMarksAreTrue, JobsIdentified,
         PaidAfterCheckout

LEMMA AcknowledgeKeeps ==
    ASSUME TypeOK, Ledger, NEW e, Acknowledge(e), UNCHANGED jobs
    PROVE  StripeKeeps
  BY DEF StripeKeeps, TypeOK, Ledger, Acknowledge, Kept, RefundsHaveJobs, JobMarksAreTrue, JobsIdentified,
         PaidAfterCheckout

LEMMA RefundKeeps ==
    ASSUME TypeOK, Ledger, NEW s \in Subs, NEW id, JobFor(id, s), Refunded(s), UNCHANGED jobs
    PROVE  StripeKeeps /\ payment'[s] = "refunded"
<1>1. /\ payment' = [payment EXCEPT ![s] = "refunded"] /\ payment[s] = "charged"
      /\ status' = status /\ events' = events
  BY DEF Refunded
<1>2. Kept
  BY <1>1 DEF Kept, TypeOK
<1>3. JobMarksAreTrue'
  BY <1>1 DEF TypeOK, Ledger, JobMarksAreTrue, Job
<1>4. RefundsHaveJobs'
  BY <1>1 DEF TypeOK, Ledger, RefundsHaveJobs, JobFor
<1>5. (JobsIdentified /\ PaidAfterCheckout)'
  BY <1>1 DEF TypeOK, Ledger, JobsIdentified, PaidAfterCheckout
<1>6. QED
  BY <1>1, <1>2, <1>3, <1>4, <1>5 DEF TypeOK, StripeKeeps

-----------------------------------------------------------------------------
(* Steps of a request *)

\* A step that keeps Stripe's part, the types of the tables, the agreement of
\* the row, and what its own request knows, keeps the invariant.
LEMMA GotoKeeps ==
    ASSUME IInv, StripeKeeps, plan' \in PlanNames, sub' \in Subs \cup {NoSub},
           deleted' \in BOOLEAN, jobs' \subseteq Job, RowAgrees(plan, sub)',
           NEW r \in Reqs, NEW step \in Steps \cup {"idle"}, NEW data \in Request,
           Goto(r, step, data), Knows(pc[r], req[r])'
    PROVE  IInv'
<1>1. /\ pc' \in [Reqs -> Steps \cup {"idle"}]
      /\ req' \in [Reqs -> Request]
      /\ \A q \in Reqs \ {r} : pc'[q] = pc[q] /\ req'[q] = req[q]
  BY GotoMoves DEF IInv
<1>2. TypeOK'
  BY <1>1 DEF TypeOK, StripeKeeps
<1>3. Ledger'
  BY DEF Ledger, StripeKeeps
<1>4. \A q \in Reqs : Knows(pc[q], req[q])'
  BY <1>1, StepKnows DEF StripeKeeps
<1>5. QED
  BY <1>2, <1>3, <1>4 DEF IInv

\* The end of a request.
LEMMA EndKeeps ==
    ASSUME IInv, StripeKeeps, plan' \in PlanNames, sub' \in Subs \cup {NoSub},
           deleted' \in BOOLEAN, jobs' \subseteq Job, RowAgrees(plan, sub)',
           NEW r \in Reqs, Finish(r)
    PROVE  IInv'
<1>1. pc'[r] = "idle" /\ req'[r] = Idle
  BY FinishMoves DEF IInv
<1>2. Knows(pc[r], req[r])'
  BY <1>1 DEF Knows, OnSub, Cleanup, Idle
<1>3. QED
  BY <1>2, IdleKnows, GotoKeeps DEF Finish

\* A step that writes neither the row nor a job.
LEMMA RowIdle ==
    ASSUME IInv, UNCHANGED <<orgRow, jobs>>
    PROVE  /\ plan' \in PlanNames /\ sub' \in Subs \cup {NoSub}
           /\ deleted' \in BOOLEAN /\ jobs' \subseteq Job /\ RowAgrees(plan, sub)'
  BY DEF IInv, TypeOK, Ledger, RowAgrees, orgRow

\* A request that only reads.
LEMMA ReadKeeps ==
    ASSUME IInv, UNCHANGED <<orgRow, jobs, stripe>>,
           NEW r \in Reqs, NEW step \in Steps \cup {"idle"}, NEW data \in Request,
           Goto(r, step, data), Knows(step, data)
    PROVE  IInv'
<1>1. StripeKeeps
  BY StripeIdleKeeps DEF IInv
<1>2. pc'[r] = step /\ req'[r] = data
  BY GotoMoves DEF IInv
<1>3. Knows(pc[r], req[r])'
  BY <1>2 DEF Knows, JobFor, stripe
<1>4. QED
  BY <1>1, <1>3, RowIdle, GotoKeeps

LEMMA AbortKeeps ==
    ASSUME IInv, NEW r \in Reqs, Finish(r), UNCHANGED <<orgRow, jobs, stripe>>
    PROVE  IInv'
  BY IdleKnows, ReadKeeps DEF Finish

\* A step of Stripe, or an acknowledgement that ends at once.
LEMMA OutsideKeeps ==
    ASSUME IInv, StripeKeeps, UNCHANGED <<orgRow, jobs, pc, req>>
    PROVE  IInv'
<1>1. TypeOK' /\ Ledger'
  BY RowIdle DEF IInv, TypeOK, Ledger, StripeKeeps
<1>2. \A q \in Reqs : Knows(pc[q], req[q])'
  BY KnowsKept DEF IInv, StripeKeeps
<1>3. QED
  BY <1>1, <1>2 DEF IInv

\* A call that failed, its effect done or not.
LEMMA FailureKeeps ==
    ASSUME IInv, NEW s \in Subs, CancelFails(s), UNCHANGED jobs
    PROVE  StripeKeeps
  BY EndsKeeps, StripeIdleKeeps DEF CancelFails, IInv

-----------------------------------------------------------------------------
(* One lemma per step that writes *)

LEMMA PayKeeps ==
    ASSUME IInv, NEW s \in Subs, Pay(s)
    PROVE  IInv'
<1>1. /\ status' = [status EXCEPT ![s] = "active"] /\ status[s] = "open"
      /\ payment' = payment \/ payment' = [payment EXCEPT ![s] = "charged"]
      /\ events' = events \cup {Completed(s)}
      /\ UNCHANGED <<orgRow, jobs, pc, req>>
  BY DEF Pay
<1>2. TypeOK /\ Ledger /\ payment[s] = "none"
  BY <1>1 DEF IInv, Ledger, PaidAfterCheckout
<1>3. Kept
  BY <1>1, <1>2 DEF Kept, TypeOK
<1>4. JobMarksAreTrue'
  BY <1>1, <1>2 DEF TypeOK, Ledger, JobMarksAreTrue, Job
<1>5. (RefundsHaveJobs /\ JobsIdentified /\ PaidAfterCheckout)'
  BY <1>1, <1>2 DEF TypeOK, Ledger, RefundsHaveJobs, JobsIdentified, PaidAfterCheckout
<1>6. StripeKeeps
  BY <1>1, <1>2, <1>3, <1>4, <1>5 DEF TypeOK, Events, StripeKeeps
<1>7. QED
  BY <1>1, <1>6, OutsideKeeps

LEMMA SessionKeeps ==
    ASSUME IInv, NEW r \in Reqs, CreateSession(r)
    PROVE  IInv'
<1>1. /\ \/ status' = status
         \/ \E s \in Subs : status[s] = "none" /\ status' = [status EXCEPT ![s] = "open"]
      /\ UNCHANGED <<orgRow, jobs, payment, events>>
  BY DEF CreateSession
<1>2. TypeOK /\ Ledger
  BY DEF IInv
<1>3. Kept
  BY <1>1, <1>2 DEF Kept, TypeOK
<1>4. JobMarksAreTrue'
  BY <1>1, <1>2 DEF TypeOK, Ledger, JobMarksAreTrue, Job
<1>5. (RefundsHaveJobs /\ JobsIdentified /\ PaidAfterCheckout)'
  BY <1>1, <1>2 DEF TypeOK, Ledger, RefundsHaveJobs, JobsIdentified, PaidAfterCheckout
<1>6. StripeKeeps
  BY <1>1, <1>2, <1>3, <1>4, <1>5 DEF TypeOK, StripeKeeps
<1>7. QED
  BY <1>1, <1>6, RowIdle, EndKeeps DEF CreateSession

LEMMA UpgradeKeeps ==
    ASSUME IInv, NEW r \in Reqs, UpgradeToPro(r)
    PROVE  IInv'
<1>1. req[r].sub \in Subs
  BY DEF IInv, Knows, OnSub, UpgradeToPro
<1>2. StripeKeeps
  BY AcknowledgeKeeps DEF IInv, UpgradeToPro
<1>3. /\ plan' \in PlanNames /\ sub' \in Subs \cup {NoSub}
      /\ deleted' \in BOOLEAN /\ jobs' \subseteq Job /\ RowAgrees(plan, sub)'
  <2>1. CASE UNCHANGED orgRow
    BY <2>1, RowIdle DEF UpgradeToPro
  <2>2. CASE plan' = Pro /\ sub' = req[r].sub /\ UNCHANGED deleted
    BY <1>1, <2>2, NullsAreFresh
       DEF IInv, TypeOK, RowAgrees, PlanNames, Pro, Free, UpgradeToPro
  <2>3. QED
    BY <2>1, <2>2 DEF UpgradeToPro
<1>4. QED
  BY <1>2, <1>3, EndKeeps DEF UpgradeToPro

LEMMA DowngradeKeeps ==
    ASSUME IInv, NEW r \in Reqs, Downgrade(r)
    PROVE  IInv'
<1>1. StripeKeeps
  BY AcknowledgeKeeps DEF IInv, Downgrade
<1>2. /\ plan' \in PlanNames /\ sub' \in Subs \cup {NoSub}
      /\ deleted' \in BOOLEAN /\ jobs' \subseteq Job /\ RowAgrees(plan, sub)'
  <2>1. CASE UNCHANGED orgRow
    BY <2>1, RowIdle DEF Downgrade
  <2>2. CASE plan' = Free /\ sub' = NoSub /\ UNCHANGED deleted
    BY <2>2 DEF IInv, TypeOK, RowAgrees, PlanNames, Pro, Free, Downgrade
  <2>3. QED
    BY <2>1, <2>2 DEF Downgrade
<1>3. QED
  BY <1>1, <1>2, EndKeeps DEF Downgrade

LEMMA PersistKeeps ==
    ASSUME IInv, NEW r \in Reqs, PersistJob(r)
    PROVE  IInv'
<1>1. PICK id \in JobIds :
          /\ \A j \in jobs : j.id # id
          /\ jobs' = jobs \cup {[id |-> id, sub |-> req[r].sub,
                                 cancelled |-> FALSE, refunded |-> FALSE]}
          /\ Goto(r, "cleanupCancel", [req[r] EXCEPT !.job = id])
  BY DEF PersistJob
<1> DEFINE data == [req[r] EXCEPT !.job = id]
           job  == [id |-> id, sub |-> req[r].sub, cancelled |-> FALSE, refunded |-> FALSE]
<1>2. TypeOK /\ Ledger /\ Knows("persistJob", req[r]) /\ req[r] \in Request
  BY DEF IInv, TypeOK, PersistJob
<1>3. /\ data \in Request /\ data.job = id /\ data.sub = req[r].sub
      /\ data.cancelled = req[r].cancelled /\ data.refunded = req[r].refunded
      /\ data.plan = req[r].plan
  BY <1>2 DEF Request
<1>4. req[r].sub \in Subs /\ ~req[r].cancelled /\ ~req[r].refunded
  BY <1>2 DEF Knows, OnSub, Cleanup
<1>5. job \in Job /\ job.id = id /\ job.sub = req[r].sub /\ ~job.cancelled /\ ~job.refunded
  BY <1>4 DEF Job
<1>6. /\ Goto(r, "cleanupCancel", data) /\ jobs' = jobs \cup {job}
      /\ UNCHANGED <<orgRow, stripe>>
  BY <1>1 DEF PersistJob
<1> HIDE DEF data, job
<1>7. Kept
  BY <1>6 DEF Kept, stripe
<1>8. JobMarksAreTrue'
  BY <1>2, <1>5, <1>6 DEF Ledger, JobMarksAreTrue, stripe
<1>9. JobsIdentified'
  BY <1>1, <1>2, <1>5, <1>6 DEF Ledger, JobsIdentified
<1>10. (RefundsHaveJobs /\ PaidAfterCheckout)'
  BY <1>2, <1>6 DEF Ledger, RefundsHaveJobs, PaidAfterCheckout, stripe
<1>11. StripeKeeps
  BY <1>2, <1>6, <1>7, <1>8, <1>9, <1>10 DEF TypeOK, StripeKeeps, stripe
<1>12. jobs' \subseteq Job
  BY <1>2, <1>5, <1>6 DEF TypeOK
<1>13. pc'[r] = "cleanupCancel" /\ req'[r] = data
  BY <1>2, <1>3, <1>6, GotoMoves DEF Steps
<1>14. \E j \in jobs' : j.id = req'[r].job /\ j.sub = req'[r].sub
  BY <1>3, <1>5, <1>6, <1>13
<1>15. Knows(pc[r], req[r])'
  <2>1. /\ req'[r].sub \in Subs /\ ~req'[r].cancelled /\ ~req'[r].refunded
    BY <1>3, <1>4, <1>13
  <2>2. JobFor(req[r].job, req[r].sub)'
    BY <1>14 DEF JobFor
  <2>3. QED
    BY <1>13, <2>1, <2>2 DEF Knows
<1>16. plan' \in PlanNames /\ sub' \in Subs \cup {NoSub} /\ deleted' \in BOOLEAN
       /\ RowAgrees(plan, sub)'
  BY <1>2, <1>6 DEF TypeOK, Ledger, RowAgrees, orgRow
<1>17. QED
  BY <1>3, <1>6, <1>11, <1>12, <1>15, <1>16, GotoKeeps DEF Steps

\* A call for the subscription of a request, with or without an answer.
LEMMA CleanupCancelKeeps ==
    ASSUME IInv, NEW r \in Reqs, CleanupCancel(r)
    PROVE  IInv'
<1>1. TypeOK /\ Ledger /\ Knows("cleanupCancel", req[r]) /\ req[r] \in Request
  BY DEF IInv, TypeOK, CleanupCancel
<1>2. req[r].sub \in Subs /\ JobFor(req[r].job, req[r].sub) /\ UNCHANGED <<orgRow, jobs>>
  BY <1>1 DEF Knows, OnSub, Cleanup, CleanupCancel
<1>3. CASE /\ EndsAtStripe(req[r].sub)
           /\ Goto(r, "cleanupRefund", [req[r] EXCEPT !.cancelled = TRUE])
  <2>1. StripeKeeps /\ status'[req[r].sub] = "cancelled"
    BY <1>1, <1>2, <1>3, EndsKeeps
  <2>2. [req[r] EXCEPT !.cancelled = TRUE] \in Request
    BY <1>1 DEF Request
  <2>3. pc'[r] = "cleanupRefund" /\ req'[r] = [req[r] EXCEPT !.cancelled = TRUE]
    BY <1>1, <1>3, <2>2, GotoMoves DEF Steps
  <2>4. /\ req'[r].sub = req[r].sub /\ req'[r].job = req[r].job
        /\ req'[r].cancelled /\ req'[r].refunded = req[r].refunded
    BY <1>1, <2>3 DEF Request
  <2>5. Knows(pc[r], req[r])'
    BY <1>1, <1>2, <2>1, <2>3, <2>4 DEF Knows, OnSub, Cleanup, JobFor, StripeKeeps, Kept
  <2>6. QED
    BY <1>2, <1>3, <2>1, <2>2, <2>5, RowIdle, GotoKeeps DEF Steps
<1>4. CASE /\ CancelFails(req[r].sub)
           /\ Goto(r, "cleanupRefund", req[r])
  <2>1. StripeKeeps
    BY <1>2, <1>4, FailureKeeps
  <2>2. pc'[r] = "cleanupRefund" /\ req'[r] = req[r]
    BY <1>1, <1>4, GotoMoves DEF Steps
  <2>3. Knows(pc[r], req[r])'
    BY <1>1, <1>2, <2>1, <2>2 DEF Knows, OnSub, Cleanup, JobFor, StripeKeeps, Kept
  <2>4. QED
    BY <1>1, <1>2, <1>4, <2>1, <2>3, RowIdle, GotoKeeps DEF Steps
<1>5. QED
  BY <1>3, <1>4 DEF CleanupCancel

\* The refund: Knows gives it the job that accounts for the money.
LEMMA CleanupRefundKeeps ==
    ASSUME IInv, NEW r \in Reqs, CleanupRefund(r)
    PROVE  IInv'
<1>1. TypeOK /\ Ledger /\ Knows("cleanupRefund", req[r]) /\ req[r] \in Request
  BY DEF IInv, TypeOK, CleanupRefund
<1>2. req[r].sub \in Subs /\ JobFor(req[r].job, req[r].sub) /\ UNCHANGED <<orgRow, jobs>>
  BY <1>1 DEF Knows, OnSub, Cleanup, CleanupRefund
<1>3. CASE /\ Refunded(req[r].sub)
           /\ Goto(r, "recordCleanup", [req[r] EXCEPT !.refunded = TRUE])
  <2>1. StripeKeeps /\ payment'[req[r].sub] = "refunded"
    BY <1>1, <1>2, <1>3, RefundKeeps
  <2>2. [req[r] EXCEPT !.refunded = TRUE] \in Request
    BY <1>1 DEF Request
  <2>3. pc'[r] = "recordCleanup" /\ req'[r] = [req[r] EXCEPT !.refunded = TRUE]
    BY <1>1, <1>3, <2>2, GotoMoves DEF Steps
  <2>4. /\ req'[r].sub = req[r].sub /\ req'[r].job = req[r].job
        /\ req'[r].refunded /\ req'[r].cancelled = req[r].cancelled
    BY <1>1, <2>3 DEF Request
  <2>5. Knows(pc[r], req[r])'
    BY <1>1, <1>2, <2>1, <2>3, <2>4 DEF Knows, OnSub, Cleanup, JobFor, StripeKeeps, Kept
  <2>6. QED
    BY <1>2, <1>3, <2>1, <2>2, <2>5, RowIdle, GotoKeeps DEF Steps
<1>4. CASE /\ RefundFails(req[r].sub)
           /\ Goto(r, "recordCleanup", req[r])
  <2>1. StripeKeeps
    BY <1>1, <1>2, <1>4, RefundKeeps, StripeIdleKeeps DEF RefundFails
  <2>2. pc'[r] = "recordCleanup" /\ req'[r] = req[r]
    BY <1>1, <1>4, GotoMoves DEF Steps
  <2>3. Knows(pc[r], req[r])'
    BY <1>1, <1>2, <2>1, <2>2 DEF Knows, OnSub, Cleanup, JobFor, StripeKeeps, Kept
  <2>4. QED
    BY <1>1, <1>2, <1>4, <2>1, <2>3, RowIdle, GotoKeeps DEF Steps
<1>5. QED
  BY <1>3, <1>4 DEF CleanupRefund

\* The marks leave every job its key and its subscription, and add to the job of
\* the request what the request has achieved.
Marking(r) ==
    /\ \A k \in jobs' : \E j \in jobs :
          /\ k \in Job /\ k.id = j.id /\ k.sub = j.sub
          /\ k.cancelled => j.cancelled \/ (j.id = req[r].job /\ req[r].cancelled)
          /\ k.refunded => j.refunded \/ (j.id = req[r].job /\ req[r].refunded)
    /\ \A j \in jobs : \E k \in jobs' : k.id = j.id /\ k.sub = j.sub

LEMMA RecordMarks ==
    ASSUME TypeOK, NEW r \in Reqs, RecordCleanup(r)
    PROVE  Marking(r)
<1>1. CASE UNCHANGED jobs
  BY <1>1 DEF TypeOK, Marking
<1>2. CASE jobs' = {IF j.id = req[r].job
                    THEN [j EXCEPT !.cancelled = j.cancelled \/ req[r].cancelled,
                                   !.refunded = j.refunded \/ req[r].refunded]
                    ELSE j : j \in jobs}
  <2> DEFINE Marked(j) == IF j.id = req[r].job
                          THEN [j EXCEPT !.cancelled = j.cancelled \/ req[r].cancelled,
                                         !.refunded = j.refunded \/ req[r].refunded]
                          ELSE j
  <2>1. ASSUME NEW j \in jobs
        PROVE  /\ Marked(j) \in Job
               /\ Marked(j).id = j.id /\ Marked(j).sub = j.sub
               /\ Marked(j).cancelled => j.cancelled \/ (j.id = req[r].job /\ req[r].cancelled)
               /\ Marked(j).refunded => j.refunded \/ (j.id = req[r].job /\ req[r].refunded)
    BY DEF TypeOK, Job, Request
  <2>2. jobs' = {Marked(j) : j \in jobs}
    BY <1>2
  <2> HIDE DEF Marked
  <2>3. QED
    BY <2>1, <2>2 DEF Marking
<1>3. QED
  BY <1>1, <1>2 DEF RecordCleanup

\* The job of the request is the one for its subscription, because a key names
\* one subscription, so what the request achieved there is true of it.
LEMMA RecordKeeps ==
    ASSUME IInv, NEW r \in Reqs, RecordCleanup(r)
    PROVE  IInv'
<1>1. /\ TypeOK /\ Ledger /\ Knows("recordCleanup", req[r]) /\ Marking(r)
      /\ UNCHANGED <<orgRow, status, payment>> /\ Acknowledge(Completed(req[r].sub))
      /\ Finish(r)
  BY RecordMarks DEF IInv, RecordCleanup, Acknowledge
<1>2. Kept
  BY <1>1 DEF Kept, Marking
<1>3. ASSUME NEW j \in jobs, j.id = req[r].job PROVE j.sub = req[r].sub
  BY <1>1, <1>3 DEF Ledger, JobsIdentified, Knows, Cleanup, JobFor
<1>4. JobMarksAreTrue'
  BY <1>1, <1>3 DEF Ledger, JobMarksAreTrue, Knows, Marking
<1>5. (RefundsHaveJobs /\ JobsIdentified /\ PaidAfterCheckout)'
  BY <1>1 DEF Ledger, RefundsHaveJobs, JobsIdentified, PaidAfterCheckout, Marking
<1>6. StripeKeeps
  BY <1>1, <1>2, <1>4, <1>5 DEF StripeKeeps, TypeOK, Acknowledge
<1>7. /\ plan' \in PlanNames /\ sub' \in Subs \cup {NoSub} /\ deleted' \in BOOLEAN
      /\ jobs' \subseteq Job /\ RowAgrees(plan, sub)'
  BY <1>1 DEF TypeOK, Ledger, RowAgrees, orgRow, Marking
<1>8. QED
  BY <1>1, <1>6, <1>7, EndKeeps

\* An event arrives: its subscription is one of Stripe's.
LEMMA ReceiveKeeps ==
    ASSUME IInv, NEW r \in Reqs, NEW s \in Subs, Receive(r, s)
    PROVE  IInv'
<1>1. CASE UNCHANGED <<pc, req>>
  <2>1. StripeKeeps /\ UNCHANGED <<orgRow, jobs>>
    BY <1>1, AcknowledgeKeeps, StripeIdleKeeps
       DEF IInv, Receive, ReceiveCompleted, ReceiveDeleted
  <2>2. QED
    BY <1>1, <2>1, OutsideKeeps
<1>2. CASE /\ \E step \in {"persistJob", "upgrade", "downgrade"} :
                  Goto(r, step, [Idle EXCEPT !.sub = s])
           /\ UNCHANGED <<orgRow, jobs, stripe>>
  <2>1. [Idle EXCEPT !.sub = s] \in Request
    BY DEF Idle, Request, PlanNames, Free
  <2>2. \A step \in {"persistJob", "upgrade", "downgrade"} :
           Knows(step, [Idle EXCEPT !.sub = s])
    BY DEF Knows, OnSub, Cleanup, Idle
  <2>3. QED
    BY <1>2, <2>1, <2>2, ReadKeeps DEF Steps
<1>3. QED
  BY <1>1, <1>2 DEF Receive, ReceiveCompleted, ReceiveDeleted

\* A request starts with what the row says.
LEMMA BeginKeeps ==
    ASSUME IInv, NEW r \in Reqs,
           \/ BeginCheckout(r) \/ BeginCancel(r) \/ BeginEnterprise(r)
           \/ \E next \in {"save", "delete"} : LoadOrg(r, next)
    PROVE  IInv'
<1>1. TypeOK /\ Ledger
  BY DEF IInv
<1>2. CASE BeginCheckout(r)
  <2>1. Knows("createSession", Idle)
    BY DEF Knows, OnSub, Cleanup, Idle
  <2>2. QED
    BY <1>2, <2>1, IdleKnows, ReadKeeps DEF BeginCheckout, Steps
<1>3. CASE \/ BeginCancel(r) \/ BeginEnterprise(r)
  <2>1. [Idle EXCEPT !.sub = sub] \in Request
    BY <1>1 DEF TypeOK, Idle, Request, PlanNames, Free
  <2>2. /\ sub # NoSub => Knows("cancel", [Idle EXCEPT !.sub = sub])
        /\ sub # NoSub => Knows("cancelFirst", [Idle EXCEPT !.sub = sub])
        /\ sub = NoSub => Knows("promote", [Idle EXCEPT !.sub = sub])
    BY <1>1 DEF TypeOK, Knows, OnSub, Cleanup, Idle
  <2>3. QED
    BY <1>3, <2>1, <2>2, ReadKeeps DEF BeginCancel, BeginEnterprise, Steps
<1>4. CASE \E next \in {"save", "delete"} : LoadOrg(r, next)
  <2>1. [Idle EXCEPT !.plan = plan, !.sub = sub] \in Request
    BY <1>1 DEF TypeOK, Idle, Request
  <2>2. \A next \in {"save", "delete"} : Knows(next, [Idle EXCEPT !.plan = plan, !.sub = sub])
    BY <1>1 DEF Ledger, Knows, OnSub, Cleanup, Idle, RowAgrees
  <2>3. QED
    BY <1>4, <2>1, <2>2, ReadKeeps DEF LoadOrg, Steps
<1>5. QED
  BY <1>2, <1>3, <1>4

LEMMA CancelKeeps ==
    ASSUME IInv, NEW r \in Reqs, CancelSubscription(r)
    PROVE  IInv'
<1>1. req[r].sub \in Subs
  BY DEF IInv, Knows, OnSub, CancelSubscription
<1>2. StripeKeeps
  BY <1>1, EndsKeeps, FailureKeeps DEF IInv, CancelSubscription
<1>3. QED
  BY <1>2, RowIdle, EndKeeps DEF CancelSubscription

\* AssignEnterprisePlan passes its first step only with the subscription ended.
LEMMA CancelFirstKeeps ==
    ASSUME IInv, NEW r \in Reqs, CancelFirst(r)
    PROVE  IInv'
<1>1. TypeOK /\ Ledger /\ Knows("cancelFirst", req[r]) /\ req[r] \in Request
      /\ UNCHANGED <<orgRow, jobs>>
  BY DEF IInv, TypeOK, CancelFirst
<1>2. req[r].sub \in Subs /\ ~req[r].cancelled /\ ~req[r].refunded
  BY <1>1 DEF Knows, OnSub, Cleanup
<1>3. CASE EndsAtStripe(req[r].sub) /\ Goto(r, "promote", req[r])
  <2>1. StripeKeeps /\ status'[req[r].sub] = "cancelled"
    BY <1>1, <1>2, <1>3, EndsKeeps
  <2>2. pc'[r] = "promote" /\ req'[r] = req[r]
    BY <1>1, <1>3, GotoMoves DEF Steps
  <2>3. Knows(pc[r], req[r])'
    BY <1>2, <2>1, <2>2 DEF Knows, OnSub, Cleanup
  <2>4. QED
    BY <1>1, <1>3, <2>1, <2>3, RowIdle, GotoKeeps DEF Steps
<1>4. CASE CancelFails(req[r].sub) /\ Finish(r)
  BY <1>1, <1>2, <1>4, FailureKeeps, RowIdle, EndKeeps
<1>5. QED
  BY <1>3, <1>4 DEF CancelFirst

\* Promotion leaves a column it did not read, which may name a subscription by
\* now: an enterprise row agrees with either.
LEMMA PromoteKeeps ==
    ASSUME IInv, NEW r \in Reqs, Promote(r)
    PROVE  IInv'
<1>1. StripeKeeps
  BY StripeIdleKeeps DEF IInv, Promote
<1>2. /\ plan' \in PlanNames /\ sub' \in Subs \cup {NoSub}
      /\ deleted' \in BOOLEAN /\ jobs' \subseteq Job /\ RowAgrees(plan, sub)'
  <2>1. CASE UNCHANGED orgRow
    BY <2>1, RowIdle DEF Promote
  <2>2. CASE plan' = Enterprise /\ sub' \in {sub, NoSub} /\ UNCHANGED deleted
    BY <2>2 DEF IInv, TypeOK, RowAgrees, PlanNames, Pro, Free, Enterprise, Promote
  <2>3. QED
    BY <2>1, <2>2 DEF Promote
<1>3. QED
  BY <1>1, <1>2, EndKeeps DEF Promote

LEMMA SaveKeeps ==
    ASSUME IInv, NEW r \in Reqs, SaveOrg(r) \/ DeleteOrg(r)
    PROVE  IInv'
<1>1. StripeKeeps
  BY StripeIdleKeeps DEF IInv, SaveOrg, DeleteOrg
<1>2. req[r] \in Request /\ (pc[r] = "save" => RowAgrees(req[r].plan, req[r].sub))
  BY DEF IInv, TypeOK, Knows
<1>3. /\ plan' \in PlanNames /\ sub' \in Subs \cup {NoSub}
      /\ deleted' \in BOOLEAN /\ jobs' \subseteq Job /\ RowAgrees(plan, sub)'
  BY <1>2 DEF IInv, TypeOK, Ledger, Request, RowAgrees, SaveOrg, DeleteOrg
<1>4. QED
  BY <1>1, <1>3, EndKeeps DEF SaveOrg, DeleteOrg

-----------------------------------------------------------------------------
(* The invariant *)

LEMMA InvariantInit == Init => IInv
<1> SUFFICES ASSUME Init PROVE IInv
  OBVIOUS
<1>1. TypeOK
  BY IdleKnows DEF Init, TypeOK, PlanNames, Free
<1>2. Ledger
  BY DEF Init, Ledger, RowAgrees, RefundsHaveJobs, JobMarksAreTrue, JobsIdentified,
         PaidAfterCheckout, Pro, Free
<1>3. \A r \in Reqs : Knows(pc[r], req[r])
  BY IdleKnows DEF Init
<1>4. QED
  BY <1>1, <1>2, <1>3 DEF IInv

LEMMA InvariantStep == IInv /\ [Next]_vars => IInv'
<1> SUFFICES ASSUME IInv, [Next]_vars PROVE IInv'
  OBVIOUS
<1>1. ASSUME NEW s \in Subs, Pay(s) PROVE IInv'
  BY <1>1, PayKeeps
<1>2. ASSUME NEW s \in Subs, EndSubscription(s) PROVE IInv'
  BY <1>2, EndsKeeps, OutsideKeeps DEF EndSubscription, IInv
<1>3. ASSUME NEW r \in Reqs, Webhook(r) PROVE IInv'
  BY <1>3, UpgradeKeeps, PersistKeeps, CleanupCancelKeeps, CleanupRefundKeeps, RecordKeeps,
     DowngradeKeeps DEF Webhook
<1>4. ASSUME NEW r \in Reqs, Billed(r) PROVE IInv'
  BY <1>4, BeginKeeps, SessionKeeps, CancelKeeps, CancelFirstKeeps, PromoteKeeps, SaveKeeps
     DEF Billed
<1>5. ASSUME NEW r \in Reqs, Abort(r) PROVE IInv'
  BY <1>5, AbortKeeps DEF Abort
<1>6. ASSUME NEW r \in Reqs, NEW s \in Subs, Receive(r, s) PROVE IInv'
  BY <1>6, ReceiveKeeps
<1>7. CASE UNCHANGED vars
  BY <1>7, StripeIdleKeeps, OutsideKeeps DEF vars, orgRow, stripe, IInv
<1>8. QED
  BY <1>1, <1>2, <1>3, <1>4, <1>5, <1>6, <1>7 DEF Next

THEOREM Invariance == Spec => []IInv
<1>1. Init => IInv
  BY InvariantInit
<1>2. IInv /\ [Next]_vars => IInv'
  BY InvariantStep
<1>3. QED
  BY <1>1, <1>2, PTL DEF Spec

-----------------------------------------------------------------------------
(* The properties *)

\* The row, the jobs and the requests only ever hold what their columns and
\* fields may hold.
THEOREM TypeCorrect == Spec => []TypeOK
<1>1. IInv => TypeOK
  BY DEF IInv
<1>2. QED
  BY <1>1, Invariance, PTL

\* organizations.plan and stripe_subscription_id agree after any interleaving of
\* the webhooks, the promotion and UpdateOrg's write of the whole row.
THEOREM PlanAgrees == Spec => []PlanMatchesSub
<1>1. IInv => PlanMatchesSub
  BY DEF IInv, Ledger, RowAgrees, PlanMatchesSub
<1>2. QED
  BY <1>1, Invariance, PTL

\* handleCheckoutCompleted refunds nothing that no committed job accounts for.
THEOREM RefundsRecorded == Spec => []RefundsHaveJobs
<1>1. IInv => RefundsHaveJobs
  BY DEF IInv, Ledger
<1>2. QED
  BY <1>1, Invariance, PTL

\* A billing_cleanup_jobs row claims no cancellation and no refund that Stripe
\* has not made.
THEOREM MarksTrue == Spec => []JobMarksAreTrue
<1>1. IInv => JobMarksAreTrue
  BY DEF IInv, Ledger
<1>2. QED
  BY <1>1, Invariance, PTL

\* AssignEnterprisePlan stands before its UPDATE only when the subscription it
\* read has ended.
THEOREM PromotedAfterCancel == Spec => []PromotionAfterCancel
<1>1. IInv => PromotionAfterCancel
  BY DEF IInv, Knows, PromotionAfterCancel
<1>2. QED
  BY <1>1, Invariance, PTL

\* What one step must do for CompletionsAreAccounted.
Accounted ==
    \A s \in Subs : Completed(s) \in events \ events'
        => deleted \/ (plan' = Pro /\ sub' = s) \/ \E j \in jobs' : j.sub = s

\* Only the acknowledgement of an event takes it off Stripe's list.
LEMMA AcknowledgesOne ==
    ASSUME NEW s, NEW t, Acknowledge(t), Completed(s) \in events \ events'
    PROVE  t = Completed(s)
  BY DEF Acknowledge

LEMMA NothingLost ==
    ASSUME \/ events \subseteq events'
           \/ \E s \in Subs : Acknowledge(Deleted(s))
    PROVE  Accounted
<1>1. \A s, t : Completed(s) # Deleted(t)
  BY DEF Completed, Deleted
<1>2. QED
  BY <1>1, AcknowledgesOne DEF Accounted

LEMMA StepAccounted == IInv /\ [Next]_vars => Accounted
<1> SUFFICES ASSUME IInv, [Next]_vars PROVE Accounted
  OBVIOUS
<1>1. ASSUME NEW s, NEW t, Completed(s) = Completed(t) PROVE s = t
  BY <1>1 DEF Completed
<1>2. ASSUME NEW s \in Subs, EndsAtStripe(s) \/ CancelFails(s) \/ Refunded(s) \/ RefundFails(s)
      PROVE  events \subseteq events'
  BY <1>2 DEF EndsAtStripe, CancelFails, Refunded, RefundFails, stripe
<1>3. ASSUME NEW r \in Reqs PROVE pc[r] \in OnSub => req[r].sub \in Subs
  BY DEF IInv, Knows
<1>4. ASSUME NEW s \in Subs, Pay(s) \/ EndSubscription(s) PROVE Accounted
  BY <1>2, <1>4, NothingLost DEF Pay, EndSubscription
<1>5. ASSUME NEW r \in Reqs, UpgradeToPro(r) PROVE Accounted
  BY <1>1, <1>5, AcknowledgesOne DEF UpgradeToPro, Accounted
<1>6. ASSUME NEW r \in Reqs, RecordCleanup(r) PROVE Accounted
  <2>1. JobFor(req[r].job, req[r].sub) /\ Acknowledge(Completed(req[r].sub))
    BY <1>6 DEF IInv, Knows, Cleanup, RecordCleanup
  <2>2. Marking(r)
    BY <1>6, RecordMarks DEF IInv
  <2>3. \E j \in jobs' : j.sub = req[r].sub
    BY <2>1, <2>2 DEF JobFor, Marking
  <2>4. QED
    BY <1>1, <2>1, <2>3, AcknowledgesOne DEF Accounted
<1>7. ASSUME NEW r \in Reqs, \/ PersistJob(r) \/ CleanupCancel(r) \/ CleanupRefund(r)
                             \/ Downgrade(r)
      PROVE  Accounted
  <2>1. CASE Downgrade(r)
    BY <1>3, <2>1, NothingLost DEF Downgrade, OnSub
  <2>2. CASE PersistJob(r)
    BY <2>2, NothingLost DEF PersistJob, stripe
  <2>3. CASE CleanupCancel(r) \/ CleanupRefund(r)
    BY <1>2, <1>3, <2>3, NothingLost DEF CleanupCancel, CleanupRefund, OnSub, Cleanup
  <2>4. QED
    BY <1>7, <2>1, <2>2, <2>3
<1>8. ASSUME NEW r \in Reqs, Billed(r) \/ Abort(r) PROVE Accounted
  <2>1. CASE CancelSubscription(r) \/ CancelFirst(r)
    BY <1>2, <1>3, <2>1, NothingLost DEF CancelSubscription, CancelFirst, OnSub
  <2>2. CASE events' = events
    BY <2>2, NothingLost
  <2>3. QED
    BY <1>8, <2>1, <2>2 DEF Billed, Abort, BeginCheckout, CreateSession, BeginCancel,
       BeginEnterprise, Promote, SaveOrg, DeleteOrg, LoadOrg, stripe
<1>9. ASSUME NEW r \in Reqs, NEW s \in Subs, Receive(r, s) PROVE Accounted
  <2>1. CASE ReceiveCompleted(r, s)
    BY <1>1, <2>1, AcknowledgesOne DEF ReceiveCompleted, Accounted, stripe
  <2>2. CASE ReceiveDeleted(r, s)
    BY <2>2, NothingLost DEF ReceiveDeleted, stripe
  <2>3. QED
    BY <1>9, <2>1, <2>2 DEF Receive
<1>10. CASE UNCHANGED vars
  BY <1>10, NothingLost DEF vars
<1>11. QED
  BY <1>4, <1>5, <1>6, <1>7, <1>8, <1>9, <1>10 DEF Next, Webhook

\* handleCheckoutCompleted answers 200 only with the payment spent on the
\* organisation or recorded in a job, unless the organisation is gone.
THEOREM CompletionsAccounted == Spec => CompletionsAreAccounted
<1>1. IInv /\ [Next]_vars => [Accounted]_vars
  BY StepAccounted
<1>2. Spec => [][Accounted]_vars
  BY <1>1, Invariance, PTL DEF Spec
<1>3. QED
  BY <1>2 DEF CompletionsAreAccounted, Accounted
=============================================================================
