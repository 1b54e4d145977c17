---------------------------- MODULE ScoringProps ----------------------------
(* What the credit-scoring service promises of scores and of its stream.   *)
EXTENDS Scoring, ScoreRules

\* As long as sessions do not overlap, a customer has one current score at
\* most. Two that overlap each make stale what they saw, and both stay.
OneCurrentScore ==
    ~overlapped => Cardinality(With("computed")) <= 1

\* An acknowledged approval was scored once, and nothing is scored twice for
\* it, whatever errors and crashes meet the consumer between commit and XACK.
AckedIsScored ==
    /\ \A m \in acked : entry[m] = "approved" =>
         \E r \in Rows : score[r].message = m
    /\ \A r, q \in Rows :
         score[r].message = score[q].message /\ r # q =>
            score[r].message = NoMessage

\* A customer who has a score keeps one, however sessions overlap and fail,
\* unless the engine fails: only the step that records a failed computation
\* may leave no current score.
KeepsAScore ==
    [][With("computed") # {} /\ With("computed")' = {} =>
         \E r \in Rows : score[r].status = "absent" /\ score'[r].status = "failed"]_vars

\* The state of each entry, as the consumer group sees it.
Mail == [m \in Messages |->
            IF m > Len(entry) THEN "absent"
            ELSE IF m >= upto THEN "waiting"
            ELSE IF m \in acked THEN "acked"
            ELSE IF m \in left THEN "left"
            ELSE "taken"]

Box == INSTANCE Mailbox WITH mail <- Mail

\* The consumer implements the mailbox: what it has taken it acknowledges or
\* abandons, once.
ImplementsMailbox == Box!MailSpec

-----------------------------------------------------------------------------
(* The engine: w is worse than b, with the same signals available.         *)

StatusOrder == <<"rejected", "expired", "pending", "initiated", "in_review", "approved">>
Rank(status) == CHOOSE i \in DOMAIN StatusOrder : StatusOrder[i] = status

WorseKyc(w, b) ==
    \/ w = b
    \/ /\ NoSignal \notin {w, b}
       /\ Rank(w.status) <= Rank(b.status)
       /\ w.risk = b.risk \/ (NoSignal \notin {w.risk, b.risk} /\ w.risk >= b.risk)
       /\ b.pep => w.pep
       /\ b.sanctioned => w.sanctioned
       /\ w.documents = b.documents

WorseIncome(w, b) ==
    \/ w = b
    \/ /\ NoSignal \notin {w, b}
       /\ NoSignal \notin {w.income, b.income} /\ w.income <= b.income
       /\ w = [b EXCEPT !.income = w.income]

WorseRepayment(w, b) ==
    \/ w = b
    \/ /\ NoSignal \notin {w, b}
       /\ w.loans = b.loans /\ w.payments = b.payments
       /\ w.onTime <= b.onTime /\ w.defaults >= b.defaults /\ w.pastDue >= b.pastDue

\* The score of worse signals is never higher, one signal at a time.
ScoreIsMonotone ==
    \A kyc \in KycSignals, income \in IncomeSignals, repayment \in RepaymentSignals,
       requested \in Amounts :
        LET better == Score(kyc, income, repayment, requested) IN
        /\ \A w \in KycSignals : WorseKyc(w, kyc) =>
             Score(w, income, repayment, requested) <= better
        /\ \A w \in IncomeSignals : WorseIncome(w, income) =>
             Score(kyc, w, repayment, requested) <= better
        /\ \A w \in RepaymentSignals : WorseRepayment(w, repayment) =>
             Score(kyc, income, w, requested) <= better
        /\ \A a \in Amounts : NoSignal \notin {a, requested} /\ a >= requested =>
             Score(kyc, income, repayment, a) <= better

\* A customer is never scored higher for a worse signal: a worse outcome of the
\* verification, a higher risk, a flag, a lower income, fewer payments on time,
\* more defaults or days past due. (That is so only while the same signals are
\* available: to leave out a poor one altogether can raise the score.) The rules
\* read no state: what they say is the same whenever there is a score.
WorseIsNotBetter == With("computed") # {} => ScoreIsMonotone
=============================================================================
