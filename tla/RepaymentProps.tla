--------------------------- MODULE RepaymentProps ---------------------------
(***************************************************************************)
(* What the repayment service should guarantee about a loan's balances,    *)
(* its schedule and its delinquency status.                                *)
(***************************************************************************)
EXTENDS Repayment, FiniteSetsExt

Registered == account.status # "ABSENT"

-----------------------------------------------------------------------------
(* Holding under any interleaving of webhooks and sweeps                   *)

(* The principal never falls by more than the records account for: a       *)
(* payment lost to a concurrent one leaves the borrower owing more, never  *)
(* less (apply_payment, balances and record in one transaction).           *)
NeverOverCredited ==
    Registered => account.principal + books.principal >= Principal

(* Every payment reference is booked exactly once and in full: the         *)
(* portions of the records add up to the money received, although two      *)
(* deliveries of a webhook may both pass the duplicate query.              *)
BookedOnce ==
    books.penalty + books.interest + books.principal + books.over
        = MapThenSumSet(LAMBDA p : AmountOf[p], refs)

(* The schedule is paid from the front: no installment is marked paid      *)
(* before an earlier one.                                                  *)
PaidInOrder == \A i \in marked : 1 .. i \subseteq marked

(* installments_paid and next_due_date never claim more than the schedule  *)
(* rows say, even when two payments mark the same installment.             *)
ProgressIsBacked ==
    1 .. account.paid \subseteq marked /\ 1 .. account.due - 1 \subseteq marked

(* No penalty is charged before the first installment is more than the     *)
(* grace period late.                                                      *)
NoPenaltyInGrace ==
    account.penalty + books.penalty > 0 => today > DueDay[1] + Grace

-----------------------------------------------------------------------------
(* Holding when requests and sweeps do not overlap                         *)

(* The principal still owed is the original one less what the records      *)
(* took from it.                                                           *)
BalancesMatchLedger ==
    Registered => account.principal + books.principal = Principal

(* A settled loan owes nothing: no principal, interest or penalty is left, *)
(* and it counts no late day.                                              *)
SettledOwesNothing ==
    account.status = "SETTLED" =>
        /\ account.principal = 0
        /\ account.interest = 0
        /\ account.penalty = 0
        /\ account.late = 0

(* The status of an open loan is the classification of its stored days     *)
(* past due, whichever of payment and sweep wrote last.                    *)
StatusMatchesDays ==
    Registered => account.status = Classify(account.late, account.principal = 0)
=============================================================================
