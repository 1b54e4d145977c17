---------------------------- MODULE Amortization ----------------------------
(***************************************************************************)
(* The amortization schedule of a loan: one row a month, equal payments    *)
(* rounded up, the interest of each row rounded up, and a last row that    *)
(* pays what is left. A monthly rate is a fraction, so arithmetic is exact *)
(* where the code has floating point.                                      *)
(***************************************************************************)
EXTENDS Integers, FiniteSetsExt

CeilDiv(a, b) == (a + b - 1) \div b

Power(base, n) ==
    LET power[k \in Nat] == IF k = 0 THEN 1 ELSE base * power[k - 1] IN power[n]

\* _monthly_installment(), where (1 + r)^n is the quotient of two powers.
MonthlyInstallment(principal, rate, months) ==
    IF rate.num = 0 THEN CeilDiv(principal, months)
    ELSE LET grown == Power(rate.den + rate.num, months)
             base == Power(rate.den, months)
         IN  CeilDiv(principal * rate.num * grown, rate.den * (grown - base))

Interest(opening, rate) == CeilDiv(opening * rate.num, rate.den)

\* One row; `last' is that of the last month. A payment that would not exceed the
\* interest pays the balance off instead.
Row(opening, interest, monthly, last) ==
    LET payOff == last \/ monthly <= interest
        principal == IF payOff THEN opening ELSE monthly - interest
    IN  [opening |-> opening, interest |-> interest, principal |-> principal,
         total |-> IF payOff THEN opening + interest ELSE monthly,
         closing |-> IF principal <= opening THEN opening - principal ELSE 0]

\* Mutant: the last row is a payment like the others.
ScheduleWithoutLast(principal, rate, months) ==
    LET monthly == MonthlyInstallment(principal, rate, months)
        row[i \in 1 .. months] ==
            LET opening == IF i = 1 THEN principal ELSE row[i - 1].closing
            IN  Row(opening, Interest(opening, rate), monthly, FALSE)
    IN  row
\* The rows of generate(), but for their dates.
Schedule(principal, rate, months) ==
    LET monthly == MonthlyInstallment(principal, rate, months)
        row[i \in 1 .. months] ==
            LET opening == IF i = 1 THEN principal ELSE row[i - 1].closing
            IN  Row(opening, Interest(opening, rate), monthly, i = months)
    IN  row

Total(f) == MapThenSumSet(LAMBDA i : f[i], DOMAIN f)

\* total_interest() and total_repayable(), and the sum of the principal parts.
TotalInterest(rows) == Total([i \in DOMAIN rows |-> rows[i].interest])
TotalRepayable(rows) == Total([i \in DOMAIN rows |-> rows[i].total])
TotalPrincipal(rows) == Total([i \in DOMAIN rows |-> rows[i].principal])

-----------------------------------------------------------------------------
(* Due dates                                                               *)

LeapYear(year) == year % 4 = 0 /\ (year % 100 # 0 \/ year % 400 = 0)

LastDay(year, month) ==
    CASE month = 2 -> IF LeapYear(year) THEN 29 ELSE 28
      [] month \in {4, 6, 9, 11} -> 30
      [] OTHER -> 31

\* _add_months(): a day the month does not have becomes its last one.
AddMonths(date, months) ==
    LET month == date.month - 1 + months
        year == date.year + month \div 12
        next == (month % 12) + 1
        last == LastDay(year, next)
    IN  [year |-> year, month |-> next,
         day |-> IF date.day <= last THEN date.day ELSE last]

DueDate(first, i) == AddMonths(first, i - 1)
=============================================================================
