----------------------------- MODULE MCRepayment -----------------------------
(* An instance of Repayment for TLC: a loan of 8 without interest in three   *)
(* installments, a day of grace, default after three days.                  *)
EXTENDS RepaymentSerial, TLC

CONSTANTS p1, p2, p3

\* One installment exactly, less than one, and two; together more than the loan.
MCAmounts == (p1 :> 3) @@ (p2 :> 2) @@ (p3 :> 6)
MCDueDays == <<1, 2, 4>>
MCTotals == [i \in 1 .. 3 |-> Schedule(8, [num |-> 0, den |-> 1], 3)[i].total]

\* Nothing, a fiftieth and a tenth a month, for up to four months.
MCRates == {[num |-> 0, den |-> 1], [num |-> 1, den |-> 50], [num |-> 1, den |-> 10]}
MCPrincipals == 1 .. 60
MCMonths == 1 .. 4
\* The ends of months, in a leap year and before one.
MCDates == [year : {2023, 2024}, month : {1, 12}, day : {28, 30, 31}]

\* Workers are interchangeable.
WorkerSymmetry == Permutations(Workers)
=============================================================================
