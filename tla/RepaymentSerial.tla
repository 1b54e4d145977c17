--------------------------- MODULE RepaymentSerial ---------------------------
(***************************************************************************)
(* The repayment service with a history of its sessions, for what it       *)
(* promises only as long as no two of them overlap, and with the schedule  *)
(* its loans have.                                                         *)
(***************************************************************************)
EXTENDS RepaymentProps, Amortization

VARIABLE overlapped   \* history: two sessions were under way at the same time

Busy == {w \in Workers : pc[w] # "idle"}

InitSerial == Init /\ overlapped = FALSE
NextSerial ==
    /\ Next
    /\ overlapped' = (overlapped \/ \E v, w \in Busy' : v # w)
SpecSerial == InitSerial /\ [][NextSerial]_<<vars, overlapped>>

(* As long as no two sessions have overlapped, the principal owed is the   *)
(* original one less what the records took from it, a settled loan owes    *)
(* nothing, and the status of an open one is the classification of its     *)
(* stored days, whichever of payment and sweep wrote last.                 *)
SerialBooksAgree ==
    ~overlapped => BalancesMatchLedger /\ SettledOwesNothing /\ StatusMatchesDays

-----------------------------------------------------------------------------
CONSTANTS
    Principals, Rates, Months,   \* the loans a schedule is made for
    FirstDates                   \* the dates of their first installments

\* What the code accepts. Any tenure, and any rate that is a fraction.
ASSUME TermsAssumption ==
    /\ Principals \subseteq Nat \ {0}
    /\ Rates \subseteq [num : Nat, den : Nat \ {0}]
    /\ Months \subseteq Nat \ {0}
    /\ FirstDates \subseteq [year : Nat, month : 1 .. 12, day : 1 .. 31]

(* Every schedule ends at zero, and its principal parts make up at least   *)
(* the principal. They are exactly the principal when it is not below      *)
(* months * months units that bear interest to the last month, and then    *)
(* the last row differs from the others by less than a unit for each       *)
(* month, with that interest (for tiny loans the payments rounded up go on *)
(* after the balance is gone).                                             *)
RowsSound ==
    \A principal \in Principals, rate \in Rates, months \in Months :
        LET rows == Schedule(principal, rate, months)
            drift == rows[months].total - MonthlyInstallment(principal, rate, months)
            unit == Power(rate.den, months - 1)
            grown == months * Power(rate.den + rate.num, months - 1)
        IN  /\ rows[months].closing = 0
            /\ TotalPrincipal(rows) >= principal
            /\ TotalRepayable(rows) = TotalPrincipal(rows) + TotalInterest(rows)
            /\ principal * unit >= months * grown =>
                 /\ TotalPrincipal(rows) = principal
                 /\ -grown < drift * unit /\ drift * unit < grown

(* The due dates are one in each month, on the day of the first or on the  *)
(* last day of a month that does not have it.                              *)
DatesSound ==
    \A first \in FirstDates, i \in 1 .. 24 :
        LET due == DueDate(first, i)
            next == DueDate(first, i + 1)
        IN  /\ 12 * next.year + next.month = 12 * due.year + due.month + 1
            /\ due.day = first.day
                 \/ (due.day < first.day /\ due.day = LastDay(due.year, due.month))

(* Whatever the loan that is registered, the schedule saved for it is one  *)
(* the borrower can be held to: its rows repay the loan and its dates are  *)
(* a month apart.                                                          *)
ScheduleSound == account # NoAccount => RowsSound /\ DatesSound
=============================================================================
