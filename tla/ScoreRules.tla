----------------------------- MODULE ScoreRules -----------------------------
(***************************************************************************)
(* The scoring engine: ten rules award points out of what the signals      *)
(* given make available, and the share awarded is scaled to 300 .. 850.    *)
(* A factor is a pair of points, awarded and possible. Money is in whole   *)
(* units; the two divisions of the debt-to-income ratio are exact here.    *)
(***************************************************************************)
EXTENDS Integers, Sequences, FiniteSetsExt

CONSTANTS
    NoSignal,          \* a bucket or a field that was not given
    KycSignals,        \* status, risk, pep, sanctioned, documents (a sequence)
    IncomeSignals,     \* income, employment, months, businessMonths
    RepaymentSignals,  \* loans, onTime, payments, defaults, pastDue
    Amounts            \* requested amounts

\* What the comments of schemas/score.py say of the signals; the schemas enforce
\* the types alone.
ASSUME SignalsAssumption ==
    /\ \A kyc \in KycSignals \ {NoSignal} :
        /\ kyc.status \in {"approved", "in_review", "initiated", "pending",
                           "expired", "rejected"}
        /\ kyc.risk \in {NoSignal} \cup 0 .. 100
        /\ {kyc.pep, kyc.sanctioned} \subseteq BOOLEAN
        /\ kyc.documents \in Seq(STRING)
    /\ IncomeSignals \subseteq {NoSignal} \cup
        [income : {NoSignal} \cup Nat, employment : {NoSignal} \cup STRING,
         months : {NoSignal} \cup Nat, businessMonths : {NoSignal} \cup Nat]
    /\ RepaymentSignals \subseteq {NoSignal} \cup
        [loans : Nat, onTime : Nat, payments : Nat, defaults : Nat, pastDue : Nat]
    /\ Amounts \subseteq {NoSignal} \cup Nat

None == <<0, 0>>          \* the factor of a signal that is not available

ScoreMin == 300
ScoreMax == 850

Least(a, b) == IF a <= b THEN a ELSE b
Greatest(a, b) == IF a >= b THEN a ELSE b

\* The sum of the values of a function.
Total(f) == MapThenSumSet(LAMBDA x : f[x], DOMAIN f)

\* Python's round(n / d) for n >= 0, d > 0: ties go to the even side.
Round(n, d) ==
    LET down == n \div d
        twice == 2 * (n % d)
    IN  IF twice > d \/ (twice = d /\ down % 2 = 1) THEN down + 1 ELSE down

-----------------------------------------------------------------------------
(* KYC outcome and identity                                                *)

\* The points of a key a table lists, or the points of all others.
Points(table, key, others) == IF key \in DOMAIN table THEN table[key] ELSE others

StatusPoints == [approved |-> 35, in_review |-> 18, initiated |-> 10,
                 pending |-> 5, expired |-> -10, rejected |-> -40]

KycStatus(kyc) ==
    IF kyc = NoSignal THEN None ELSE <<Points(StatusPoints, kyc.status, 0), 35>>

\* At 95 the product 10 * (1 - 0.95) is a little above 0.5 in floating point.
KycRisk(kyc) ==
    IF kyc = NoSignal \/ kyc.risk = NoSignal THEN None
    ELSE <<IF kyc.risk = 95 THEN 1 ELSE Round(10 * (100 - kyc.risk), 100), 10>>

\* Mutant: the flag counts as a point in favour.
PepFlagReversed(kyc) ==
    IF kyc = NoSignal \/ ~kyc.pep THEN None ELSE <<20, 20>>
\* A penalty without anything to gain.
PepFlag(kyc) == IF kyc = NoSignal \/ ~kyc.pep THEN None ELSE <<-20, 0>>

DocumentPoints == [bvn |-> 12, nin |-> 10, passport |-> 8, drivers_license |-> 7,
                   voters_card |-> 6, utility_bill |-> 4]

\* A document listed twice counts twice.
IdentityDocuments(kyc) ==
    IF kyc = NoSignal \/ kyc.documents = << >> THEN None
    ELSE LET points == [i \in DOMAIN kyc.documents |->
                          Points(DocumentPoints, kyc.documents[i], 2)]
         IN  <<Least(Total(points), 25), 25>>

-----------------------------------------------------------------------------
(* Income and employment                                                   *)

EmploymentPoints == [salary |-> 12, business |-> 10, self_employed |-> 9,
                     contract |-> 7, retired |-> 6, unemployed |-> -5]

EmploymentType(income) ==
    IF income = NoSignal \/ income.employment = NoSignal THEN None
    ELSE <<Points(EmploymentPoints, income.employment, 0), 12>>

\* Zero months of employment fall through to the age of the business.
Tenure(income) ==
    IF income.months \in {NoSignal, 0} THEN income.businessMonths ELSE income.months

EmploymentTenure(income) ==
    IF income = NoSignal \/ Tenure(income) = NoSignal THEN None
    ELSE LET months == Tenure(income) IN
         <<CASE months < 6 -> 1
             [] months \in 6 .. 11 -> 3
             [] months \in 12 .. 23 -> 5
             [] months \in 24 .. 47 -> 7
             [] OTHER -> 8, 8>>

\* requested / 12 / income against a percentage.
WithinDti(requested, income, percent) ==
    income > 0 /\ 100 * requested <= percent * 12 * income

IncomeSufficiency(income, requested) ==
    IF income = NoSignal \/ income.income = NoSignal THEN None
    ELSE IF requested = NoSignal THEN <<3, 5>>
    ELSE LET Within(percent) == WithinDti(requested, income.income, percent)
         IN  <<IF Within(20) THEN 5
               ELSE IF Within(30) THEN 4
               ELSE IF Within(40) THEN 2
               ELSE IF Within(55) THEN 0 ELSE -5, 5>>

-----------------------------------------------------------------------------
(* Repayment history                                                       *)

HasHistory(repayment) == repayment # NoSignal /\ repayment.loans > 0

TrackRecord(repayment) ==
    IF ~HasHistory(repayment) \/ repayment.payments = 0 THEN None
    ELSE LET OnTime(percent) ==
               100 * repayment.onTime >= percent * repayment.payments
         IN  <<IF OnTime(97) THEN 8
               ELSE IF OnTime(90) THEN 6
               ELSE IF OnTime(80) THEN 3
               ELSE IF OnTime(70) THEN 1 ELSE -3, 8>>

Defaults(repayment) ==
    IF ~HasHistory(repayment) THEN None
    ELSE <<CASE repayment.defaults = 0 -> 4
             [] repayment.defaults = 1 -> -5
             [] OTHER -> -10, 4>>

DaysPastDue(repayment) ==
    IF ~HasHistory(repayment) THEN None
    ELSE LET days == repayment.pastDue IN
         <<CASE days = 0 -> 3
             [] days \in 1 .. 14 -> 1
             [] days \in 15 .. 29 -> 0
             [] days \in 30 .. 59 -> -3
             [] days \in 60 .. 89 -> -5
             [] OTHER -> -8, 3>>

-----------------------------------------------------------------------------
(* compute_score()                                                         *)

\* ALL_RULES, with the arguments each rule declares.
Factors(kyc, income, repayment, requested) ==
    << KycStatus(kyc), KycRisk(kyc), PepFlag(kyc), IdentityDocuments(kyc),
       EmploymentType(income), EmploymentTenure(income),
       IncomeSufficiency(income, requested),
       TrackRecord(repayment), Defaults(repayment), DaysPastDue(repayment) >>

\* Two ties that floating point lands above.
FloatsUp == {<<7, 100>>, <<69, 100>>}

\* The score of points awarded out of the points possible.
Scale(awarded, possible) ==
    LET clamped == Greatest(0, Least(awarded, possible))
        share == IF <<clamped, possible>> \in FloatsUp
                   THEN (clamped * (ScoreMax - ScoreMin)) \div possible + 1
                   ELSE Round(clamped * (ScoreMax - ScoreMin), possible)
    IN  Greatest(ScoreMin, Least(ScoreMax, ScoreMin + share))

\* A sanctioned customer is not scored, and neither is one of whom nothing is
\* known. Points that are not available count when they are negative.
Score(kyc, income, repayment, requested) ==
    LET factors == Factors(kyc, income, repayment, requested)
        awarded == Total([i \in DOMAIN factors |->
                            IF factors[i][2] > 0 \/ factors[i][1] < 0
                              THEN factors[i][1] ELSE 0])
        possible == Total([i \in DOMAIN factors |-> factors[i][2]])
    IN  IF (kyc # NoSignal /\ kyc.sanctioned) \/ possible = 0 THEN ScoreMin
        ELSE Scale(awarded, possible)

Tier(score) ==
    CASE score >= 750 -> "excellent"
      [] score \in 650 .. 749 -> "good"
      [] score \in 550 .. 649 -> "fair"
      [] score \in 450 .. 549 -> "poor"
      [] OTHER -> "very_poor"
=============================================================================
