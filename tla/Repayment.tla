------------------------------ MODULE Repayment ------------------------------
(***************************************************************************)
(* The repayment service for one loan: payment webhooks and delinquency    *)
(* sweeps, each in a database session of its own, on the loan's row in     *)
(* loan_accounts, its amortization schedule and its repayment records.     *)
(*                                                                         *)
(* Sessions run READ COMMITTED with autoflush off: a query sees committed  *)
(* rows, never the session's own pending changes. At the flush a session   *)
(* writes the columns whose value differs from the one it loaded, with the *)
(* values it computed; nothing external happens between that flush and the *)
(* commit, and the row stays locked, so the two are one step here.         *)
(***************************************************************************)
EXTENDS Integers

CONSTANTS
    Payments,      \* (provider, provider_reference) keys of this loan
    AmountOf,      \* the amount of each payment
    Principal,     \* original principal
    Tenure,        \* number of installments
    DueDay,        \* due date of each installment, in days
    TotalDue,      \* total_due_kobo of each installment
    Grace,         \* grace_period_days
    DefaultAfter,  \* default_threshold_days
    MaxDay,        \* the calendar stops here
    MaxPenalty,    \* sweeps stop once this much has been charged
    Workers,       \* concurrent sessions
    NoPayment      \* the job of a session that handles no payment

ASSUME PaymentsAssumption ==
    NoPayment \notin Payments /\ AmountOf \in [Payments -> Nat \ {0}]
ASSUME LoanAssumption == Principal \in Nat \ {0} /\ Tenure \in Nat \ {0}
ASSUME ScheduleAssumption ==   \* due dates do not precede the first one
    /\ DueDay \in [1 .. Tenure -> Nat] /\ TotalDue \in [1 .. Tenure -> Nat]
    /\ \A i \in 1 .. Tenure : DueDay[1] <= DueDay[i]
ASSUME ThresholdsAssumption == Grace \in Nat /\ DefaultAfter \in Nat
ASSUME BoundsAssumption == MaxDay \in Nat /\ MaxPenalty \in Nat

-----------------------------------------------------------------------------
(* Allocation of a payment: penalties, then interest, then principal       *)

Least(a, b) == IF a <= b THEN a ELSE b

\* Mutant: the penalties taken stay in the payment.
AllocateLeaky(pay, penalty, interest, principal) ==
    LET penaltyTaken == Least(pay, penalty)
        interestTaken == Least(pay, interest)
        principalTaken == Least(pay, principal)
    IN  [penalty |-> penaltyTaken, interest |-> interestTaken,
         principal |-> principalTaken,
         over |-> pay - penaltyTaken - interestTaken - principalTaken]
\* The portions of AllocationResult; what remains of a bucket is the balance
\* less its portion.
Allocate(pay, penalty, interest, principal) ==
    LET penaltyTaken == Least(pay, penalty)
        interestTaken == Least(pay - penaltyTaken, interest)
        principalTaken == Least(pay - penaltyTaken - interestTaken, principal)
    IN  [penalty |-> penaltyTaken, interest |-> interestTaken,
         principal |-> principalTaken,
         over |-> pay - penaltyTaken - interestTaken - principalTaken]

\* 0.1% of the principal for one day, rounded up.
DailyPenalty(principal) ==
    IF principal <= 0 THEN 0 ELSE (principal + 999) \div 1000

\* The sweep and apply_payment() never pass is_written_off, and days past due
\* are never negative.
Classify(days, settled) ==
    CASE settled -> "SETTLED"
      [] ~settled /\ days = 0 -> "CURRENT"
      [] ~settled /\ days > 0 /\ days <= Grace -> "AT_RISK"
      [] ~settled /\ days > Grace /\ days >= DefaultAfter -> "DEFAULT"
      [] OTHER -> "DELINQUENT"

-----------------------------------------------------------------------------
(* Rows                                                                    *)

Statuses == {"CURRENT", "AT_RISK", "DELINQUENT", "DEFAULT", "SETTLED",
             "WRITTEN_OFF"}
Closed == {"SETTLED", "WRITTEN_OFF"}

\* A loan_accounts row. next_due_date is kept as the installment it is the
\* due date of (`due'), Tenure + 1 standing for NULL; `paid' is
\* installments_paid and `late' days_past_due.
Accounts == [principal : Nat, interest : Nat, penalty : Nat, paid : Nat,
             due : 1 .. Tenure + 1, late : Nat,
             status : Statuses \cup {"ABSENT"}]

NoAccount == [principal |-> 0, interest |-> 0, penalty |-> 0, paid |-> 0,
              due |-> 1, late |-> 0, status |-> "ABSENT"]

\* Sums of the repayment_records rows of the loan, by column.
Books == [penalty : Nat, interest : Nat, principal : Nat, over : Nat]
NoBooks == [penalty |-> 0, interest |-> 0, principal |-> 0, over |-> 0]

\* The columns a session changed, written over the newest committed row.
Merge(row, loaded, new) ==
    [c \in DOMAIN row |-> IF new[c] = loaded[c] THEN row[c] ELSE new[c]]

-----------------------------------------------------------------------------
VARIABLES
    account,  \* the committed loan_accounts row
    marked,   \* installments whose committed row says is_paid
    refs,     \* provider references with a committed repayment record
    books,    \* the sums of those records
    today,
    pc, pay, loaded, work, pick  \* the sessions: step, payment, row as read,
                                 \* row as changed, installment marked

dbVars == <<account, marked, refs, books>>
workerVars == <<pc, pay, loaded, work, pick>>
vars == <<dbVars, today, workerVars>>

Steps == {"idle", "fetch", "pick", "advance", "flush", "save"}

TypeOK ==
    /\ account \in Accounts
    /\ marked \subseteq 1 .. Tenure
    /\ refs \subseteq Payments
    /\ books \in Books
    /\ today \in Nat
    /\ pc \in [Workers -> Steps]
    /\ pay \in [Workers -> Payments \cup {NoPayment}]
    /\ loaded \in [Workers -> Accounts]
    /\ work \in [Workers -> Accounts]
    /\ pick \in [Workers -> 0 .. Tenure]

Init ==
    /\ account = NoAccount
    /\ marked = {}
    /\ refs = {}
    /\ books = NoBooks
    /\ today = 0
    /\ pc = [w \in Workers |-> "idle"]
    /\ pay = [w \in Workers |-> NoPayment]
    /\ loaded = [w \in Workers |-> NoAccount]
    /\ work = [w \in Workers |-> NoAccount]
    /\ pick = [w \in Workers |-> 0]

-----------------------------------------------------------------------------
(* register_loan(): the account and its schedule in one transaction; a     *)
(* second registration is refused by the query or by the unique loan_id.   *)
Register ==
    /\ account.status = "ABSENT"
    /\ account' = [NoAccount EXCEPT !.principal = Principal,
                                    !.status = "CURRENT"]
    /\ UNCHANGED <<marked, refs, books, today, workerVars>>

End(w) ==
    /\ pc' = [pc EXCEPT ![w] = "idle"]
    /\ pay' = [pay EXCEPT ![w] = NoPayment]
    /\ loaded' = [loaded EXCEPT ![w] = NoAccount]
    /\ work' = [work EXCEPT ![w] = NoAccount]
    /\ pick' = [pick EXCEPT ![w] = 0]

-----------------------------------------------------------------------------
(* apply_payment()                                                         *)

\* Step 1: no record has the reference yet.
Receive(w, p) ==
    /\ pc[w] = "idle"
    /\ p \notin refs
    /\ pc' = [pc EXCEPT ![w] = "fetch"]
    /\ pay' = [pay EXCEPT ![w] = p]
    /\ UNCHANGED <<dbVars, today, loaded, work, pick>>

Portions(w) == Allocate(AmountOf[pay[w]], loaded[w].penalty,
                        loaded[w].interest, loaded[w].principal)

\* Steps 2 to 6: the account is there and open, and the payment allocated.
Fetch(w) ==
    /\ pc[w] = "fetch"
    /\ account.status \notin Closed \cup {"ABSENT"}
    /\ loaded' = [loaded EXCEPT ![w] = account]
    /\ LET taken == Allocate(AmountOf[pay[w]], account.penalty,
                             account.interest, account.principal)
       IN  /\ work' = [work EXCEPT ![w] =
                [account EXCEPT !.penalty = @ - taken.penalty,
                                !.interest = @ - taken.interest,
                                !.principal = @ - taken.principal]]
           /\ pc' = [pc EXCEPT ![w] =
                IF taken.principal > 0 THEN "pick" ELSE "flush"]
    /\ UNCHANGED <<dbVars, today, pay, pick>>

\* Mutant: the latest installment first.
FirstUnpaidDescending(i) ==
    i \notin marked /\ IF i > Tenure THEN marked = 1 .. Tenure
                                    ELSE i + 1 .. Tenure \subseteq marked
\* The earliest installment whose committed row is unpaid; Tenure + 1 if none.
FirstUnpaid(i) == i \notin marked /\ \A j \in 1 .. i - 1 : j \in marked

\* Mutant: installments_paid counts payments.
PickCountsAlways(w) ==
    /\ pc[w] = "pick"
    /\ \E i \in 1 .. Tenure + 1 :
        /\ FirstUnpaid(i)
        /\ work' = [work EXCEPT ![w].paid = @ + 1]
        /\ IF i <= Tenure /\ AmountOf[pay[w]] >= TotalDue[i]
             THEN /\ pick' = [pick EXCEPT ![w] = i]
                  /\ pc' = [pc EXCEPT ![w] = "advance"]
             ELSE /\ pc' = [pc EXCEPT ![w] = "flush"]
                  /\ UNCHANGED pick
    /\ UNCHANGED <<dbVars, today, pay, loaded>>
\* Step 7: mark the earliest unpaid installment if the payment covers it.
Pick(w) ==
    /\ pc[w] = "pick"
    /\ \E i \in 1 .. Tenure + 1 :
        /\ FirstUnpaid(i)
        /\ IF i <= Tenure /\ AmountOf[pay[w]] >= TotalDue[i]
             THEN /\ pick' = [pick EXCEPT ![w] = i]
                  /\ work' = [work EXCEPT ![w].paid = @ + 1]
                  /\ pc' = [pc EXCEPT ![w] = "advance"]
             ELSE /\ pc' = [pc EXCEPT ![w] = "flush"]
                  /\ UNCHANGED <<pick, work>>
    /\ UNCHANGED <<dbVars, today, pay, loaded>>

\* Step 7, the second query: the mark is not flushed, so the query does not
\* see it.
Advance(w) ==
    /\ pc[w] = "advance"
    /\ \E i \in 1 .. Tenure + 1 :
        FirstUnpaid(i) /\ work' = [work EXCEPT ![w].due = i]
    /\ pc' = [pc EXCEPT ![w] = "flush"]
    /\ UNCHANGED <<dbVars, today, pay, loaded, pick>>

\* Steps 8 and 9, on the days past due the last sweep stored.
Settle(a) ==
    LET cleared == a.principal = 0 /\ a.interest = 0
    IN  [a EXCEPT !.status = IF cleared THEN "SETTLED"
                             ELSE Classify(a.late, a.principal = 0),
                  !.late = IF cleared THEN 0 ELSE @]

\* Mutant: the unique constraint on the reference is missing.
FlushUnguarded(w) ==
    /\ pc[w] = "flush"
    /\ account' = Merge(account, loaded[w], Settle(work[w]))
    /\ marked' = marked \cup ({pick[w]} \ {0})
    /\ refs' = refs \cup {pay[w]}
    /\ books' = [c \in DOMAIN books |-> books[c] + Portions(w)[c]]
    /\ End(w)
    /\ UNCHANGED today
\* The flush and commit: one record per reference.
Flush(w) ==
    /\ pc[w] = "flush"
    /\ pay[w] \notin refs
    /\ account' = Merge(account, loaded[w], Settle(work[w]))
    /\ marked' = marked \cup ({pick[w]} \ {0})
    /\ refs' = refs \cup {pay[w]}
    /\ books' = [c \in DOMAIN books |-> books[c] + Portions(w)[c]]
    /\ End(w)
    /\ UNCHANGED today

-----------------------------------------------------------------------------
(* run_delinquency_sweep(): one account of the sweep; the loop does not    *)
(* await, so a sweep reads everything, then writes everything.             *)

\* Mutants: a penalty on the last day of grace; stored days without a status.
SweptInGrace(a) ==
    LET days == IF today > DueDay[a.due] THEN today - DueDay[a.due] ELSE 0
        charge == IF days >= Grace /\ days > 0 THEN DailyPenalty(a.principal)
                                               ELSE 0
    IN  [a EXCEPT !.late = days, !.penalty = @ + charge,
                  !.status = Classify(days, a.principal = 0)]
SweptSameStatus(a) ==
    LET days == IF today > DueDay[a.due] THEN today - DueDay[a.due] ELSE 0
        charge == IF days > Grace THEN DailyPenalty(a.principal) ELSE 0
    IN  [a EXCEPT !.late = days, !.penalty = @ + charge]
Swept(a) ==
    LET days == IF today > DueDay[a.due] THEN today - DueDay[a.due] ELSE 0
        charge == IF days > Grace THEN DailyPenalty(a.principal) ELSE 0
    IN  [a EXCEPT !.late = days, !.penalty = @ + charge,
                  !.status = Classify(days, a.principal = 0)]

SweepRead(w) ==
    /\ pc[w] = "idle"
    /\ account.status \notin Closed \cup {"ABSENT"}
    /\ account.due <= Tenure
    /\ account.penalty + books.penalty < MaxPenalty   \* bound of the model
    /\ loaded' = [loaded EXCEPT ![w] = account]
    /\ work' = [work EXCEPT ![w] = Swept(account)]
    /\ pc' = [pc EXCEPT ![w] = "save"]
    /\ UNCHANGED <<dbVars, today, pay, pick>>

\* The commit of the sweep's caller.
SweepSave(w) ==
    /\ pc[w] = "save"
    /\ account' = Merge(account, loaded[w], work[w])
    /\ End(w)
    /\ UNCHANGED <<marked, refs, books, today>>

-----------------------------------------------------------------------------
\* Mutant: a refused record does not undo the balances.
AbandonKeepsBalances(w) ==
    /\ pc[w] # "idle"
    /\ account' = IF pc[w] = "flush"
                    THEN Merge(account, loaded[w], Settle(work[w])) ELSE account
    /\ End(w)
    /\ UNCHANGED <<marked, refs, books, today>>
\* The session is rolled back: 404 or 422 at the fetch, the unique constraint
\* at the flush, a connection lost at any step, or a sweep nobody commits.
Abandon(w) ==
    /\ pc[w] # "idle"
    /\ End(w)
    /\ UNCHANGED <<dbVars, today>>

Tick ==
    /\ today < MaxDay
    /\ today' = today + 1
    /\ UNCHANGED <<dbVars, workerVars>>

PaymentStep(w) ==
    \/ \E p \in Payments : Receive(w, p)
    \/ Fetch(w)
    \/ Pick(w)
    \/ Advance(w)
    \/ Flush(w)

SweepStep(w) == SweepRead(w) \/ SweepSave(w)

Next ==
    \/ Register
    \/ Tick
    \/ \E w \in Workers : PaymentStep(w) \/ SweepStep(w) \/ Abandon(w)

Spec == Init /\ [][Next]_vars
=============================================================================
