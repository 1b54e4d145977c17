---------------------------- MODULE MCOrigination ----------------------------
(* Instances of Origination for TLC: the tiers of the code with their rates, *)
(* amounts in units of 5000 naira, and tenures of at most two months, which  *)
(* keep the products within TLC's 32-bit integers.                           *)
EXTENDS OriginationProps, TLC

Approving(amount, tenure, num, den) ==
    [approve |-> TRUE, maxAmount |-> amount, maxTenure |-> tenure,
     num |-> num, den |-> den]
Declining == [approve |-> FALSE, maxAmount |-> 0, maxTenure |-> 1,
              num |-> 1, den |-> 1]

MCTiers ==
    [excellent |-> Approving(1000, 2, 3, 200), good |-> Approving(400, 2, 1, 50),
     fair |-> Approving(100, 1, 3, 100), poor |-> Declining,
     very_poor |-> Declining]

\* Below the minimum, at it, between the caps and above them all; no income,
\* and incomes the debt-to-income guard refuses, cuts down to or lets pass.
MCRequests ==
    [amount : {1, 2, 3, 101, 401, 1001}, tenure : {1, 2, 3},
     income : {0, 3, 60, 255, 900}]

\* Workers are interchangeable.
WorkerSymmetry == Permutations(Workers)
=============================================================================
