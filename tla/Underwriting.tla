---------------------------- MODULE Underwriting ----------------------------
(***************************************************************************)
(* The underwriting engine: what is offered to an applicant of a tier who  *)
(* asks for an amount over a tenure. Amounts are in kobo or any multiple   *)
(* of it. The annual rate of a tier is the monthly rate Rate.num / Rate.den*)
(* here, and the products of floating-point numbers the code rounds are    *)
(* rounded exactly.                                                        *)
(***************************************************************************)
EXTENDS Integers

CONSTANTS
    TierParams,  \* for each tier: approve, maxAmount, maxTenure, num, den
    MinAmount    \* _MIN_AMOUNT_KOBO

ASSUME TierAssumption ==
    \A t \in DOMAIN TierParams :
        /\ TierParams[t].approve \in BOOLEAN
        /\ TierParams[t].maxAmount \in Nat
        /\ TierParams[t].maxTenure \in Nat \ {0}
        /\ TierParams[t].num \in Nat \ {0} /\ TierParams[t].den \in Nat \ {0}
ASSUME MinAssumption == MinAmount \in Nat \ {0}

-----------------------------------------------------------------------------
Smaller(a, b) == IF a <= b THEN a ELSE b
CeilDiv(a, b) == (a + b - 1) \div b

Power(base, n) ==
    LET power[k \in Nat] == IF k = 0 THEN 1 ELSE base * power[k - 1] IN power[n]

\* The payment for a principal is principal * Cost / Gain: with r = num / den
\* and (1 + r) ** n = factor, Cost / Gain = r * factor / (factor - 1).
Cost(t, n) == TierParams[t].num * Power(TierParams[t].den + TierParams[t].num, n)
Gain(t, n) ==
    TierParams[t].den * (Power(TierParams[t].den + TierParams[t].num, n)
                           - Power(TierParams[t].den, n))

\* Rounded up to the next kobo.
MonthlyRepayment(principal, t, n) == CeilDiv(principal * Cost(t, n), Gain(t, n))

\* 40% of the monthly income, rounded down.
MaxRepayment(income) == (income * 2) \div 5

\* Mutant: the principal that fits is rounded up.
AffordableRoundedUp(payment, t, n) == CeilDiv(payment * Gain(t, n), Cost(t, n))
\* The largest principal whose payment fits, rounded down.
Affordable(payment, t, n) == (payment * Gain(t, n)) \div Cost(t, n)

Declined == [approved |-> FALSE, amount |-> 0, tenure |-> 0, monthly |-> 0,
             total |-> 0]
Terms(t, principal, n) ==
    [approved |-> TRUE, amount |-> principal, tenure |-> n,
     monthly |-> MonthlyRepayment(principal, t, n),
     total |-> MonthlyRepayment(principal, t, n) * n]

\* underwrite(): tier, amount and tenure caps, then the debt-to-income guard,
\* which an applicant without an income (0 here) does not meet.
Underwrite(t, requested, months, income) ==
    IF t \notin DOMAIN TierParams \/ ~TierParams[t].approve THEN Declined
    ELSE LET amount == Smaller(requested, TierParams[t].maxAmount)
             tenure == Smaller(months, TierParams[t].maxTenure)
             limit == MaxRepayment(income)
             fits == income = 0 \/ MonthlyRepayment(amount, t, tenure) <= limit
             granted == IF fits THEN amount ELSE Affordable(limit, t, tenure)
         IN  IF amount < MinAmount \/ granted < MinAmount THEN Declined
             ELSE Terms(t, granted, tenure)
=============================================================================
