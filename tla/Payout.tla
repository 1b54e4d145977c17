------------------------------- MODULE Payout -------------------------------
(***************************************************************************)
(* What the disbursement service is to a borrower: the amount of the loan  *)
(* is sent, and sent again only after the sending failed, a bounded number *)
(* of times. It arrives once; it may be taken back; and the rest of the    *)
(* system is told of it only when it arrived.                              *)
(***************************************************************************)
EXTENDS Naturals

CONSTANTS Loans, MaxAttempts

VARIABLES
    money,   \* where the amount of each loan is
    tries,   \* how often it was sent
    told     \* the loans announced as disbursed

payoutVars == <<money, tries, told>>

MoneyStates == {"owed", "sending", "paid", "returned"}

PayoutType ==
    /\ money \in [Loans -> MoneyStates]
    /\ tries \in [Loans -> 0 .. MaxAttempts]
    /\ told \subseteq Loans

PayoutInit ==
    /\ money \in [Loans -> {"owed", "sending"}]
    /\ tries = [l \in Loans |-> IF money[l] = "owed" THEN 0 ELSE 1]
    /\ told = {}

Send(l) ==
    /\ money[l] = "owed" /\ tries[l] < MaxAttempts
    /\ money' = [money EXCEPT ![l] = "sending"]
    /\ tries' = [tries EXCEPT ![l] = @ + 1]
    /\ UNCHANGED told

Turn(l, from, to) ==
    /\ money[l] = from
    /\ money' = [money EXCEPT ![l] = to]
    /\ UNCHANGED <<tries, told>>

Tell(l) ==
    /\ money[l] \in {"paid", "returned"}
    /\ told' = told \cup {l}
    /\ UNCHANGED <<money, tries>>

PayoutNext ==
    \E l \in Loans :
        \/ Send(l)
        \/ Turn(l, "sending", "owed")       \* the transfer failed
        \/ Turn(l, "sending", "paid")
        \/ Turn(l, "sending", "returned")
        \/ Turn(l, "paid", "returned")      \* the bank reversed it
        \/ Tell(l)

PayoutSpec == PayoutInit /\ [][PayoutNext]_payoutVars
=============================================================================
