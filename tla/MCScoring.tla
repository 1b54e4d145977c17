----------------------------- MODULE MCScoring -----------------------------
(* A small instance of the credit-scoring service, and signals on each side *)
(* of every threshold of the rules.                                         *)
EXTENDS ScoringProps

MCKycSignals == {NoSignal} \cup
    [status : {"approved", "in_review", "rejected"}, risk : {NoSignal, 45, 95, 100},
     pep : BOOLEAN, sanctioned : BOOLEAN, documents : {<< >>, <<"bvn", "nin">>}]

MCIncomeSignals == {NoSignal} \cup
    [income : {NoSignal, 0, 10, 25, 50}, employment : {"unemployed"},
     months : {0}, businessMonths : {12}]

MCRepaymentSignals == {NoSignal} \cup
    {r \in [loans : {1}, onTime : {0, 7, 10}, payments : {10}, defaults : 0 .. 2, pastDue : {0, 90}] :
        r.defaults = 0 => r.pastDue = 0}

MCAmounts == {NoSignal, 36, 120}
=============================================================================
