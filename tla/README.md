# LendKit in TLA+

TLA+ modules, TLC model checks and TLAPS proofs for LendKit, a set of Python
services that score, originate, disburse, collect and track small loans. The
paths below are relative to the repository; `services/` lies under `src/`.

Every service that keeps state of its own about loans or customers is modelled:
disbursement, repayment, collections, origination, notification,
credit-scoring and KYC. What is left out is listed in section 7.

- [1. The system](#1-the-system)
- [2. The modules](#2-the-modules)
- [3. The runs](#3-the-runs)
- [4. Fairness](#4-fairness)
- [5. The proofs](#5-the-proofs)
- [6. Where the code and its documentation disagree](#6-where-the-code-and-its-documentation-disagree)
- [7. Not modelled](#7-not-modelled)

## 1. The system

Every service is a FastAPI application on asyncio with a PostgreSQL database of
its own (KYC adds a Celery worker). Each request, stream message and sweep works
in its own SQLAlchemy session, under READ COMMITTED, **without row locks or
version columns**. Services are meant to talk over HTTP through the gateway and
over Redis Streams. So the hard behaviour is everywhere of the same kind: a row
is read, something is awaited (a provider, another query, the commit), and
the row is written from what was read.

| Component | State it keeps | Operations | Interacts with |
|---|---|---|---|
| disbursement (`services/disbursement`) | one `disbursement_requests` row per loan, pending entries of a Redis consumer group | `initiate` (HTTP and stream), `retry_disbursement`, `run_retry_sweep`, `handle_webhook`, `get_status` | payment provider (calls, webhooks), stream `loan.events` in, `loan.disbursed` out |
| recipients (`recipient_service.py`) | one row per bank account | `create_recipient` | payment provider |
| repayment (`services/repayment`) | account, schedule and payment records of each loan | `register_loan`, `apply_payment`, `run_delinquency_sweep`, read-only queries | provider webhooks |
| collections (`services/collections`) | one case per loan, agents with a caseload counter, an activity log | open, assign, promise, broken promise, legal, recovery, write-off, escalate; stream consumer; two sweeps | stream with `loan.defaulted` |
| origination (`services/loan-origination`) | application and offer | submit (calls scoring, underwrites), accept offer, cancel | scoring over HTTP |
| notification (`services/notification`) | log rows keyed for idempotency, preferences | `dispatch` over the configured channels, stream consumer, reminder check | `loan.events`, `repayment.events`, e-mail and SMS providers |
| credit-scoring (`services/credit-scoring`) | scores, at most one meant to be current | `request_score`, KYC consumer, the rule engine | KYC stream |
| KYC (`services/kyc`) | verification, documents, BIN records (database and Redis) | initiate, update, upload, webhook, Celery tasks (identity, document, expiry, event), BIN lookup | identity and BIN providers, Celery |
| gateway (`services/gateway`) | request counters per minute in Redis | authenticate, forward | every service |
| shared library, dashboard, migrations, infrastructure | none that takes part | | |

What makes each of them hard, and what makes it correct:

- **Disbursement.** The provider takes a transfer at once, answers later or not
  at all, and reports through webhooks that may come twice, late, or before the
  transaction that knows the transfer. Requests, retries, sweeps, webhooks and
  the stream consumer all overlap. *Correct*: the borrower is paid once; the row
  says what the provider did; a final state is final; `loan.disbursed` is sent
  for a loan that was paid, and not forgotten; a message is acknowledged only
  when its work is committed; attempts stay within their limit; sessions never
  block each other for good.
- **Repayment.** Two webhooks, or a webhook and the sweep, read the same balances
  and each writes its own result. *Correct*: every payment is booked once and
  deducted once; principal, records, schedule, counters, due date and status agree;
  no penalty within the grace period; a schedule repays its loan despite rounding.
- **Collections.** Each operation checks a state it read without a lock and sets
  its own target; automatic assignment counts cases up, every resolution
  counts them down; `escalate_if_needed` may fail half way. *Correct*: log
  and state agree, no agent is overloaded, no promise is broken before its date.
- **Origination.** `accept_offer` and `cancel_loan` both pass their checks and the
  later commit wins; the affordability guard rounds twice. *Correct*: an offer is
  within the applicant's means, an accepted loan has an accepted, unexpired offer,
  and decisions stand.
- **Notification.** Send, then log, then acknowledge, two channels at a time on one
  session. *Correct*: the log tells the truth, nothing acknowledged is unaccounted for,
  who has opted out is left alone, every message is dealt with.
- **Scoring.** Check-then-insert on one customer's scores; a consumer that may die
  between commit and acknowledgement; forty-odd thresholds. *Correct*: one current
  score, none lost, no approval scored twice, a worse customer not scored higher.
- **KYC.** Read, call, write on one record, by tasks that may run again, beside
  webhooks, corrections and expiry; events after the commit. *Correct*: what was
  decided is what was checked, one active verification, events that tell what was decided;
  card answers that are not older than the caches promise together.

`PROJECT.json` lists every hazard at its line, and the properties about it.

## 2. The modules

| Component | Specification | Properties | Instance | Proofs |
|---|---|---|---|---|
| disbursement | `Disbursement`, abstract `Payout` | `DisbursementProps` | `MCDisbursement` | `DisbursementProofs` |
| repayment | `Repayment`, `Amortization` | `RepaymentProps`, `RepaymentSerial` | `MCRepayment` | `RepaymentProofs` |
| collections | `Collections` | `CollectionsProps` | `MCCollections` | `CollectionsProofs` |
| origination | `Underwriting`, `Origination` | `OriginationProps` | `MCOrigination` | `OriginationProofs` |
| notification | `Notification`, abstract `Mailbox` | `NotificationProps` | `MCNotification` | `NotificationProofs` |
| scoring | `Scoring`, `ScoreRules`, abstract `Mailbox` | `ScoringProps` | `MCScoring` | `ScoringProofs` |
| KYC verifications | `Kyc` | `KycProps` | `MCKyc` | `KycProofs` |
| KYC card lookups | `BinCache` | `BinCacheProps` | `MCBinCache` | `BinCacheProofs` |

In each specification a few definitions marked *Mutant* stand next to the one they vary;
they are plausible mistakes in that code and are used by no run. For every checked property one of
them, put in place of the real definition, makes TLC find the property violated.

### Sessions

All models share one picture of a session:

- a SELECT copies the committed row into the session. Objects stay in the session's
  identity map, so what was read first is what is used later;
- an assignment changes the copy only;
- the flush sends an UPDATE for the columns whose value differs from the one loaded
  (`Merge`). PostgreSQL applies it to the **newest** row: other columns keep what another
  session committed meanwhile;
- a commit publishes, a rollback or crash discards.

`Disbursement` separates flush and commit, because the provider is called in between
and the lock is what keeps two calls apart: `lock` names the session that flushed and
`draft` holds its unseen version. Elsewhere nothing happens in between, the
row stays locked, and flush and commit are one step.

Several properties hold only as long as sessions do not overlap; a history variable
`overlapped` records, in each model, the moment two of them did. It is not reset, and such a
property says nothing afterwards. Before that moment the runs still interleave
everything else: crashes, provider answers, the calendar, the stream, retried tasks.

### Disbursement

| State | Code |
|---|---|
| `row[l]` | `DisbursementRequest`: state, attempt_count, whose transfer_code, whether next_retry_at is set |
| `draft`, `lock` | uncommitted version and the session that holds it |
| `transfer[l][a]`, `hooks` | the provider: transfer of reference (loan, attempt), webhooks not yet answered |
| `stream[l]`, `emitted[l]` | `loan.offer_accepted` as new, pending entry or acknowledged; `loan.disbursed` sent |
| `pc, job, cur, todo, snap, hook` | the sessions |

Actions follow the code's steps: `HttpInitiate`/`Consume` then `Insert`;
`Retry`/`Sweep` then `Reset`; the provider's `Accept`; then `InitiateRaises` for a first attempt, and `CallReturns` or
`CallRaises` for a retry; `Webhook`, `EmitDisbursed`, `WriteWebhook`; `Commit`, `Ack`. `Settle` and
`Reverse` are the provider's own.

`initiate()` stores no row. Once the provider has answered, or raised, it builds its own answer with `_to_status_out(req)`
(`disbursement_service.py:149`, `:169`), which reads `req.events` (`:436`). Nothing has loaded that relationship of a row the
session has just inserted, and on an `AsyncSession` reading it raises: the transaction is rolled back, the transfer stays at the
provider, of a loan without a row, and the next request or message starts again with the same reference. `InitiateRaises` is
therefore the only end of a first attempt that reached the provider. (The row a retry or a webhook works on was loaded by
a SELECT, its events with it.) So the rows of the model are those `Init` allows: any set of loans that a data load put
into the table with their first transfer on its way. Retries, sweeps, webhooks and events are then those of the service.

`Faults` is the set of things that may go wrong:

- `crash`: a session ends at any step, its transaction undone;
- `ambiguous_call`: the call raises although the provider took the transfer;
- `redelivery`: an answered webhook comes again, or while it is being handled;
- `emit_failure`: XADD fails, which the code logs and ignores;
- `uncommitted_sweep`: the sweep's caller does not commit. Nothing in the repository calls
  `run_retry_sweep`, whose documentation leaves the commit to the caller.

Time enters only as "a scheduled retry may be due". Amounts, banks and wording are left
out. Recipients are the constant `Registered`.

`Payout` is the abstract specification: what the service is to a borrower. The amount of a loan is owed, on its
way, paid or returned; it is sent again only after the sending failed, at most `MaxAttempts` times, and announced only when it
arrived. `DisbursementProps` maps to it: `Money` and `Tries` are told from the transfers of the loan's references
at the provider (so the row and what the service believes play no part), `Announced` from the events sent. `Disbursement` implements it as
long as sessions do not share a loan and no call is ambiguous.

### Repayment

One loan. `account` is the `loan_accounts` row, with `due` for
`next_due_date` (the installment it is the date of) and `late` for
`days_past_due`; `marked` the installments whose row is paid; `refs` and `books` the
payment records, as the set of their unique references and the sums of their columns;
`today` the calendar. `apply_payment` is cut where it awaits: `Receive` (duplicate
query), `Fetch` (account, guard, allocation), `Pick` (earliest unpaid
installment), `Advance` (the second query), `Flush`. The sweep reads and computes without
awaiting (`SweepRead`) and writes with its caller's commit (`SweepSave`).
`Register` and `Abandon` (any rollback: 404, 422, the unique constraint, a lost connection)
complete it. `RepaymentSerial` adds the history `overlapped` and the properties that need it.

`accrued_interest_kobo` starts at zero and no code raises it, so the interest bucket is empty
in every run (the lemma about `Allocate` covers it); `WRITTEN_OFF` is tested for and never set.

`Amortization` is `engine/schedule.py`: the rounded-up installment from an exact rational rate,
rows as a recursive function of the month, totals, and due dates with months of 28 to 31 days.
The installments of the checked loan are computed by it.

### Collections

`cases[l]` is the row (state, agent, promise date), `count[a]` the
agent's `active_case_count`, `logged[l]` the state of the activity committed last, `overdue` the cases
a broken-promise sweep (`ListOverdue`) has listed. `Open` reads a case and checks the transition
(`Transitions`); `AssignAuto`, `AssignByHand`, `RecordPromise`, `ReferToLegal`, `Resolve`,
`Escalate` and the sweep's `MarkBroken` set what the session will write; `Pick` is the choice of
the agent with the fewest cases; `Commit` writes the changed columns of case and agent and the
activity; `Abandon` is any rollback. The ladder of `engine/escalation.py` is `Evaluate`.
`open_case` logs an activity with the id of a case that has none yet, into a column that is NOT
NULL, so it always fails: `OpenCase` leaves the tables as they were, and the cases of the model (`Loaded`)
are those a data load put there. The states are those of the code's enum; the migration's lower-case
labels are left out.

### Origination

`loan[l]` and `offer[l]` are the rows, `now` the clock, and each worker's request holds the copies it read.
`Submit` is the whole of `submit_application` for an application that is approved: the tier the scoring service answers (or `very_poor`
when it answers an error, an unknown tier or nothing), the decision of `Underwriting!Underwrite`,
application and offer in one commit. A declined one is never added to the session (`loan_service.py:168-173`): its `refresh` raises and
nothing is stored, so that no loan is ever REJECTED. `Accept` and `Cancel` read and check, `Commit` writes what they changed, `Abandon` is any rollback.
`Underwriting` is the arithmetic with the tier table as a constant: rational rates, the powers
of the annuity, and the two roundings.

### Notification

One consumer, two channels. (Two worker processes run one each; the group gives a message to one of them, and the model is of one with its messages.) `entry`, `unread`, `batch`, `current` place every message: published,
read from the group in batches, begun in order. `Begin` routes and renders (with
the variables each template mentions and those `_build_context` supplies); each channel's delivery is
`Check` (idempotency query), `SendTaken`, `SendRefused` or `SendLost` (retried up to `MaxTries`), and `Log`, interleaved with
the other's on the same session, where a statement that meets another may raise. `Finish` acknowledges
whatever the outcome; `Abort` is a process death or an error of the loop, after which the pending
messages are never read again. `Remind` is the reminder worker, `OptOut` a borrower changing preferences.
The consumer implements `Mailbox` (below) under the mapping `Mail` of `NotificationProps`, in which a message that is in no
place would be "lost".

### Scoring

One customer. `score` is the table, `prior[s]` what a session has read; `entry`, `upto`, `at`, `acked`,
`left` the stream as one consumer of the group sees it. The service runs as four worker processes (`Dockerfile:93`), each with a
consumer (`main.py:99`): `Deliver`, `Handle`, `Skip`, `Handled`, `Ack`, `Abandon`, `Crash` are one of them with the entries
it is given, `PeerHandle`/`PeerHandled`/`PeerFails` the sessions of the others on the same customer. `POST /scores` has no action: its answer
reads the factors of the new row (`routes/scores.py:42`), which were never loaded, before `get_db` commits, so it raises and changes nothing.
`ScoreRules` is `engine/rules.py` and `engine/scorer.py`: each rule as an operator on the signals, in points,
with the score of 300 to 850. Quotients that the code computes in floating point are compared with a choice left open
where rounding could decide (`FloatsUp`). The sets of signals are constants; `SignalsAssumption` is what the comments of
`schemas/score.py` say of them (statuses, a risk of 0 to 100) and that counts and amounts are not negative. The schemas themselves enforce
the types alone.

`Mailbox` is the abstract specification of a consumer that reads new entries only: each message is
absent, waiting, taken, and then acknowledged or left, for good. `Scoring` and `Notification` implement it, each under the
mapping `Mail` of its properties; the runs check it and the proof modules prove it. The consumers of disbursement and collections read one
message a loan, which is there from the start, and have no mapping of their own.

### KYC

`Kyc` is one customer's verifications. A job (`job[w]`) is a request or a Celery task with its session: the row as
read (`copy`), as it will be written (`new`) and the task. `Open`/`Opened`, `Edit`/`Edited`,
`Upload`/`Uploaded` are the requests, `Webhook` the provider's, `CheckIdentity`, `Call`, `Retry`, `Save`,
`Announce` the identity task, `CheckDocument` the document task, `Expire` the expiry statement, `Crash` the death of
a process, which leaves the task in the queue or loses it. `Announce` only queues the event; `Emit` is the second task, which sends it
(`kyc_tasks.py:253`), at any later time and in any order with everything else. `told` is what the stream has been told. `verdicts`, `reopened` and `edited` are
histories that stop when jobs overlap, `decided`, the decisions each record was committed with, does not.

`BinCache` is `BINLookupService` for one card: Redis and the database, each with a period of `Ttl` ticks,
the provider that may change its mind, lookups that overlap, and `Permits`, the policy check. A lookup that fails changes nothing
and gives no answer: the result `validate()` builds for it lacks the required `bin_info`, so the request ends with an error. A lookup takes
seconds and the period is a day, so no tick passes while a lookup is under way: this is an assumption of the model.

## 3. The runs

| Run | Instance | Asks |
|---|---|---|
| `DisbursementConcurrent` | 1 loan, 2 sessions, 3 attempts; crash, redelivery, ambiguous call, uncommitted sweep | what holds under every interleaving and fault |
| `DisbursementLedger` | 2 loans, 1 session, 3 attempts; emission failures | without overlap: is anyone paid twice, do rows agree with the provider, what does a row go through, does the service implement `Payout` |
| `DisbursementSweeps` | 2 loans, 2 sessions, 2 attempts; no fault | can sessions block each other for good |
| `DisbursementLive` | 1 loan, 2 sessions, 2 attempts, fair; emission failures, ambiguous calls | does every job end, is every webhook answered |
| `DisbursementLostAnswer` | 1 loan, 1 session; ambiguous call | a disagreement, see section 6 |
| `RepaymentConcurrent` | 2 sessions, 3 payments, 3 installments, days 0 to 7 | what survives lost updates, and what holds without overlap; schedules of loans of 1 to 60 over 1 to 4 months |
| `Collections` | 2 cases, 1 agent with room for 1, 1 agent assigned by hand, 2 sessions, days 1 and 2 | activities, caseload, transitions and promises |
| `Origination` | 1 loan, 2 requests at a time, 5 tiers, 90 applications | offers, acceptance, decisions |
| `Notification` | 2 messages of 3 kinds and reminders, 2 channels, 2 attempts, fair | truth and completeness of the log, opt-outs, refinement of `Mailbox`, progress |
| `Kyc` | 2 verifications, 2 jobs, 1 retry, 1 document, 2 answers | record, uniqueness and events |
| `Scoring` | the consumer and 2 peers, 3 messages, 3 scores, batches of 2 | scores, acknowledgements, refinement, monotonicity |
| `BinCache` | 2 lookups, 2 cards and the unknown one, 4 policies, `Ttl` = 2 | age of an answer |

Deadlock checking is off: every model may legitimately stop (all attempts spent, the
calendar at its end, the last message read). `SomeJobCanMove` states the absence of deadlock among
the sessions of disbursement directly; nowhere else does a session hold a lock while it waits.

**What holds.**

- *Disbursement, concurrent*: a loan is COMPLETED or announced only if the
  provider paid it; two sessions are never in the provider call of the same loan;
  the provider sees at most `MAX_ATTEMPTS` references; as long as a loan has no row it sees one at most, however often
  `initiate()` is called and rolled back (`InitiateIsIdempotent`); an acknowledged message has a
  row; a COMPLETED loan was announced (without `emit_failure`: the error of XADD is swallowed).
  *One session*: `NoDoublePayout`, `RowAgreesWithProvider`, `ImplementsPayout`, and `RowsKeepToLifecycle`: a committed row
  changes only by one whole attempt or one true answer of the provider, and is final when terminal. With a second session on the same loan
  all four fail, with an ambiguous call all but the last do even without one. `RowAgreesWithProvider` speaks of loans that have a row.
- *Repayment*: updates can be lost, but only in the lender's favour (`NeverOverCredited`);
  each reference is booked once and in full (`BookedOnce`); the schedule is paid from the front
  (`PaidInOrder`); counter and due date never run ahead of it (`ProgressIsBacked`); no penalty
  before the grace period is over (`NoPenaltyInGrace`). Without overlap (`SerialBooksAgree`) balances equal original
  principal less records, a settled loan owes nothing, the status is the class of the stored days.
  Schedules end at zero and repay the principal, exactly unless the loan is small, in nearly equal parts
  (`ScheduleSound`).
- *Collections*: the state of a case is that of the activity committed last, under any overlap and failure (`StateIsLogged`): a transition
  and its activity are committed together. The table dates an activity by `func.now()`, the start of its transaction
  (`models.py:126`), so that of sessions that overlap the one that commits last may not have the newest date; the property speaks of the order of commits.
  The counter
  stays within the limit, and without overlap so do an agent's open cases (`LoadsBounded`); without overlap a case only takes
  steps of the transition table and a promise is marked broken after its date only, although the sweep lists it in one session and marks
  it in another (`TransitionsStand`).
- *Origination*: an offer costs at most 40% of the stated income, lies within tier and request, and repays at least what is
  lent (`OfferIsSound`); an accepted loan has an offer accepted in time under any overlap (`AcceptedIsBacked`);
  a cancellation and an acceptance stand as long as requests do not overlap (`DecisionsAreFinal`).
- *Notification*: what is logged as sent was taken and what is acknowledged is accounted for (`DeliveriesAccounted`), who had opted out
  is left alone (`OptOutRespected`), the consumer is a mailbox, and under fairness every message is dealt with (`MessagesHandled`).
- *KYC*: without overlap the record is one answer of the provider and an approved one is not edited (`ApprovedAsChecked`);
  unless jobs overlapped or a closed verification was approved late there is one
  active (`OneActiveVerification`). Under any overlap the stream is told only of a decision the record was committed with (`EventsAreFounded`);
  when it is told, the record may already say something else.
- *Scoring*: one current score without overlap; an acknowledged approval scored exactly once; only a failed computation takes a
  current score away; the consumer is a mailbox; no rule rewards a worse signal.
- *Cards*: an answer rests on what the provider said less than two periods ago.

**Bounds and why they suffice.**

- *Sessions: 2* everywhere (3 in `Scoring`). The races here are between a session that read and one that wrote since;
  a third adds another writer, not another kind of stale read. The proofs are for any number.
- *Loans, cases*: 2 where they interact (a sweep's shared transaction and locks; cases that share an agent), otherwise 1.
- *Attempts: 3*, the code's own limit, where attempts are counted; 2 where only
  locks or progress matter. `EmitCap` = 1: the properties only ask whether an announcement was made.
- *Payments: 3*, of 3, 2 and 6 on a principal of 8: one installment exactly, one too small for an
  installment, one of two installments. Depending on the order the loan is settled exactly,
  settled and overpaid, or left open by a penalty. *Installments: 3*: first, middle, last.
  *Days*: grace is 1 and the default threshold 3, so on day 7 the last installment, due on day 4, is in default.
  `MaxPenalty` = 2: a second penalty after one was paid.
- *Schedules*: every principal up to 60 with up to four months is on both sides of the square of the months (with interest),
  where rounding stops exhausting the loan; dates cover the ends of months of a leap year, before and after December, 24 months on.
- *`MaxCases` = 1* with two cases puts the counter at its limit; the days past due stand on each side of each
  rung of the ladder; an agent assigned by hand is one nobody counts.
- *Tiers* have the rates of the code and its caps in units of 5000 naira; amounts are below the minimum, at it, and on each side
  of each cap; incomes make the guard refuse, cut and pass. Tenures are one to three months, cut to one or two, to stay within
  TLC's integers.
- *Messages: 2 or 3*, so that a batch has a first and a second, and a crash may leave both.
- *Verifications: 2*: one closed or active and the next.
- *Signals* stand on each side of the thresholds that differ in what they award.
- *`Ttl` = 2*: a row is fresh, at its last tick, or expired, and the same for an entry.

Symmetry is used only in runs without liveness properties, over workers and, in `Collections`, cases that are interchangeable. Two runs use a VIEW that leaves
out what no other step reads and no property needs: the stream of `Collections`, and in `Kyc` the outcome of a document
check, what the stream has been told, and the histories that stop when jobs have overlapped.

## 4. Fairness

`Disbursement!FairSpec` assumes strong fairness of three things, and of nothing else.

- *A job's next step* (`JobStep(w)`). The event loop runs every ready coroutine, the provider's
  client times out after 30 seconds and at most three tries, and PostgreSQL serves lock waits
  in order and breaks cycles. A step that waits for a lock is enabled and disabled as
  holders come and go, hence strong.
- *Delivery of some pending webhook to some worker*: the provider repeats a webhook until
  it is answered, and a worker is free again and again, not continuously.
- *The consumer's read*: the loop of `start_consumer`; same reason.

`Notification!FairSpec` assumes weak fairness of `Consume`, the step of the one consumer task, which runs as
long as its service does; a send times out, so no step of a delivery waits for ever.

A crash, a sweep, a manual retry, an opt-out, the provider's decision on a transfer and an
HTTP request are not fair: nobody promises them. In the code nothing schedules the retry sweep.

## 5. The proofs

The proof modules hold for all values of the constants, under the named assumptions of each
specification (null values that are not members, limits that are naturals or positive, and the shape of tables and
inputs). Each theorem goes through an inductive
invariant, shown to hold initially and to be kept by every action.

| Theorem | Establishes | Carried by |
|---|---|---|
| **`DisbursementProofs`** | | |
| `TypeOKHolds` | types; in particular attempts stay in range | `JobInv`: a job that will call holds a loan and a row whose count was below the limit when read |
| `CallsExclusive` | `ProviderCallsExclusive` | `LockInv`: a session at the call holds the row's lock |
| `AttemptsLimited` | `AttemptLimit` | `JobInv`: the reference comes from the row as read, so staleness cannot raise it |
| `DisbursedImpliesPaid` | `DisbursedOnlyIfPaid` | `PaidInv`: a success webhook, in flight or being handled, tells the truth |
| `AcknowledgedHasRow` | `AckedHasRow` | `AckInv`: a consumer at its commit has a row, its own or another's; rows stay |
| `CompletedAnnounced` | `CompletedIsAnnounced` if XADD does not fail | `AnnounceInv`: a session about to write COMPLETED has announced |
| `JobsNeverStuck` | while a session is under way the guard of some session's step holds (`SomeJobCanMove` without ENABLED) | `HolderInv`: a session holds rows from its first flush to its end, and never one it has still to flush |
| `InitiateRepeatsItsReference` | `InitiateIsIdempotent` for any faults | `FirstInv`: a session without a committed row counts its attempts from none, a retry has found a row, and rows stay |
| `TerminalStaysFinal` | `TerminalIsFinal` under `Separate`, which `LifecycleIsKept` extends | `SessionInv`: what a session read is still the committed row |
| `PaidOnce` | `NoDoublePayout` under `Separate`, if no call is ambiguous | `LedgerInv`: only the reference of the row, or after FAILED the next one, can have a live transfer |
| `LifecycleIsKept` | `RowsKeepToLifecycle` under `Separate` | `CodeInv`: a FAILED row has the code of a transfer that failed, a draft is one attempt ahead of its row; `TruthInv` |
| `ServiceIsPayout` | `ImplementsPayout` under `Separate`, if no call is ambiguous: every step is one of `Payout` or leaves it alone | `LedgerInv`, of which the step `Send` needs that every earlier reference failed; `PaidInv`, `AttemptLimit` |
| `LedgerAgrees` | `RowAgreesWithProvider` under `Separate`, of loans with a row, if in addition no retry dies or is rolled back | `AgreeInv`: row, webhooks on their way and last transfer of each loan; `TruthInv`: webhooks tell the truth |
| **`RepaymentProofs`** | | |
| `AllocationIsExact` | `allocate` for all inputs: portions add up, stay in their buckets, principal comes last | arithmetic |
| `TypeOKHolds` | no balance or book is ever negative | `HasPayment`, and the lemmas on the operators |
| `CreditIsBacked` | `NeverOverCredited` | `CreditInv`: what a session read plus what is booked by now covers the principal, as books only grow |
| `SchedulePaidInOrder`, `ProgressNeverAhead` | `PaidInOrder`, `ProgressIsBacked` | `ScheduleInv`: what a session read or will write of the schedule is backed by marks, but for the installment it holds |
| `GraceIsRespected` | `NoPenaltyInGrace` | `PenaltyInv`: no copy of the account carries a penalty too early |
| `PaymentsBookedOnce` | `BookedOnce` | `BookInv`: each column is the sum over the booked references; `SumOverAdd` |
| `SerialBooks` | `SerialBooksAgree` | `SerialInv`: a session that runs alone holds the row as it is, and has computed from it |
| `SchedulesAreSound` | `ScheduleSound` for every principal, rational rate and tenure, and every first date | `OnTrack`, see below |
| **`CollectionsProofs`** | | |
| `TypeOKHolds`, `StateLogged` | `TypeOK`, `StateIsLogged` | `SessionInv`, `LogInv`: a session logs, in the transaction that writes it, the state it commits, and that state differs from the one it read |
| `LoadsStayBounded` | `LoadsBounded` | `LoadInv`: alone, a session's count and case are still the rows, and the counter is at least the open cases |
| `CasesKeepToTheTable` | `TransitionsStand` | `DueInv`: alone, a session's copy is still the row; out of a listed promise there is no way back to one with a later date |
| **`OriginationProofs`** | | |
| `AcceptanceIsBacked`, `DecisionsStand` | `AcceptedIsBacked`, `DecisionsAreFinal` | `RequestInv`, `FreshInv`: what the stale copy of a request may be, and that it is fresh without overlap |
| `UnderwritingIsSound` | `Underwrite` for every application and tier table: within 40% of the income, tier and request, and repays at least what is lent | the two roundings cancel (`AffordableFits`, `AffordableCuts`); lemmas on powers |
| `OffersAreSound` | `OfferIsSound` | `TermsInv`: no copy of a request differs from the rows in what was asked for or offered |
| **`NotificationProofs`** | | |
| `DeliveriesAreAccounted` | `DeliveriesAccounted` | `DeliveryInv`: what each channel's delivery has done at each step |
| `OptOutsAreRespected` | `OptOutRespected` | `QueueInv`: messages are begun in the order of the stream; opt-outs only grow |
| `ConsumerIsMailbox` | `ImplementsMailbox`: every step is one of `Mailbox` or leaves it alone | `PlaceInv`: each message is in one place, told from how many were published, handed out and begun |
| **`ScoringProofs`** | | |
| `TypeOKHolds`, `AScoreIsKept` | types, `KeepsAScore` | the type invariant |
| `OneScoreIsCurrent`, `AcknowledgedIsScored` | `OneCurrentScore`, `AckedIsScored` | `OneInv`, `AckInv`: the message at hand has a score exactly between commit and XACK |
| `WorseNeverScoresHigher` | `WorseIsNotBetter` for all signals as the schemas describe them | a lemma for each rule (`NoBetter`), for sums (`TotalGrows`) and the scale (`ScaleGrows`) |
| `ConsumerIsMailbox` | `ImplementsMailbox`: every step is one of `Mailbox` or leaves it alone | the type invariant |
| **`KycProofs`** | | |
| `ApprovalIsWhatWasChecked`, `OneIsActive` | `ApprovedAsChecked`, `OneActiveVerification` | `AloneInv`: without overlap what a job read is still the row, what it will write is one answer, and an opening request has found nothing active |
| `EventsTellDecisions` | `EventsAreFounded` under any overlap | `EventInv`: a decision a job has read or is about to announce, and one a queued event tells, was committed before |
| **`BinCacheProofs`** | | |
| `TypeOKHolds`, `AnswersAreRecent` | types, `AnswerIsRecent` | `EntriesAreRecent`: row, entry and fetched answers leave enough time |

The invariants are needed because the properties alone are not inductive: a stale copy
in a session is written back later, so the invariant must speak of every copy.

**Hypotheses.** Five theorems about disbursement assume `Separate`: no two sessions work on the same loan at the
same time. Nothing in the code sees to that (no lock is taken before the flush, and the consumer, the API, the
webhooks and a sweep may all pick one loan), so these theorems say what sequential use guarantees, with any number
of sessions on other loans, and TLC finds each property violated as soon as two sessions share a loan. Likewise
the absence of a fault is assumed only where the property fails with it. The `~overlapped` in the properties of the other
services plays the same part.

**Sums, powers and recursion.** What a recursive definition computes is proved by looking at a smallest input for which
it would be something else: `SmallestSubset` for the sums over finite sets (`SumOver`), `SmallestNat` for the naturals.
From the latter follow `SetInduction`, that a recursion has a solution (`RecursionExists`, which the recursive functions
`Power` and `Schedule` need before anything can be said of them), and the laws of powers and annuities.

**Schedules.** With a rate of `m/d` a month, `q = d + m` and n months, let `g[k]` be the annuity of k months
(`g[k + 1] = d g[k] + q^k`). `InstallmentFits` shows the rounded-up installment M to be the least with
`P q^n <= M d g[n]`. When k rows are done, o is owed and j + 1 rows are left, `Error` is `M d g[j + 1] - q^(j + 1) o`, which would be zero
without rounding; `OnTrack` bounds it from both sides. `RowsStayOnTrack` shows a row to keep the bounds, and
`PaysInterest` and `StaysOpen` that while they hold the installment exceeds the interest and not the debt, so that no row but the
last takes the branches that pay off early. `LastDiffers` reads the last row off the bounds. Small loans fall under
`ScheduleRepays`, which needs no bound.

**Only proved.** Type invariants, but for that of `Repayment`, whose natural balances are what clamping must keep, are no
property of a run: the theorems say more. Nor is `TerminalIsFinal`, which the property
`RowsKeepToLifecycle` of a run implies.

**Only model-checked.** The properties under fairness (`JobsEnd`, `WebhooksAnswered`, `MessagesHandled`) and
`SomeJobCanMove`, which speaks of ENABLED: both are out of the prover's reach (of the latter `JobsNeverStuck` proves the guards).
That the proofs' `CanMove` is what enables a step is not proved; TLC checks the ENABLED form.

## 6. Where the code and its documentation disagree

One run ends in the counterexample it is there to show. `DisbursementLostAnswer`: the transfer call of a retry raises after
the provider took it; the row is FAILED and the next retry uses a new reference: two live transfers of one loan.

The following were met while reading and modelling. The models have what the code does, and the
properties above are stated so as to hold of it.

*Disbursement*

- `initiate()` raises after its provider call (`disbursement_service.py:149`, `:169`, see section 2) and is rolled back, though line 12
  promises the row. One request is enough: the provider has a transfer of a loan without a row, whose webhooks find nothing, and a
  stream message that led to it stays a pending entry.
- A retry that read FAILED waits for a lock while another session completes the loan, then writes PENDING over
  COMPLETED, though `engine/state_machine.py:71` calls terminal states final.
- A call that raises leaves FAILED without `next_retry_at`, so the sweep never retries it, though
  `main.py:15` promises retries with backoff.
- A webhook before the commit of its transfer_code finds no row, is answered 200 and dropped (`disbursement_service.py:193`).
- `transition()` is called nowhere; states are
  assigned directly and take steps its table lacks (PENDING to FAILED, for one).
- A reversal after a success meets a terminal row and is ignored, though `paystack.py:17` maps
  it to REVERSED.
- A stream message whose processing died stays in the pending entries list; the consumer reads only
  new ones, though `event_consumer.py:21` says such messages are retried.
- A failing XADD is swallowed, though `main.py:16` promises the event on success.
- `initiate` answers 409 for a loan that has a row, unless it is COMPLETED.

*Repayment*

- Two overlapping payments are both recorded, one is deducted (`repayment_service.py:156`).
- Autoflush is off, so the query for the *next* installment (line 228) returns the one just marked; the due date lags by one, and the
  next sweep counts a punctual borrower as late.
- The sweep speaks of "called daily" (`delinquency_worker.py:99`) and "every hour" (line 4) and
  adds a day's penalty each time it runs; events it says it emits it does not.
- `schedule.py:15` says the last installment differs by a kobo; it differs by up to one for every month, and with
  interest by a little more (28 for 2488 over 27 months at 58% a year). A loan not larger than about the square of its
  months can be paid off before its last installments, which are asked for all the same.

*Collections*

- `open_case` always fails (above); nobody publishes `loan.defaulted`; the API only reads. So no case is ever opened by the
  service itself.
- The migration's enum has lower-case labels, the model's column sends the member names. (The KYC service has the same mismatch.)
- `CollectionActivity` is called an audit log; ordered by its `created_at` it need not end in the state of the case when sessions overlapped.
- An agent assigned by hand is not counted, and reassignment never lowers the old agent's counter.
- The rule for 90 days and more changes nothing.

*Origination*

- The scoring route the client asks for a latest score does not exist (404) and requesting a score needs a
  token the client does not send (401): every applicant is scored `very_poor` and rejected. The model lets the answer be any.
- A declined application is not stored: it is added to no session, `refresh` raises (`loan_service.py:173`) and the applicant gets an error
  instead of the rejection.
- An accepted offer is announced to nobody, while disbursement waits for `loan.offer_accepted`.
- `MIN_LOAN_AMOUNT` is 10 000 naira; its comment says 100 000.

*Notification, scoring, KYC, gateway*

- Disbursement publishes on `disbursement_events_stream` with a field `event`; notification reads neither.
- A customer with zero months of employment is scored by the age of a business; the points add up to 110, documented as 100;
  a customer with nothing but an approved verification gets 850; leaving out a poor signal can raise the score; duplicate
  documents count twice.
- KYC writes its stream entries as one field `data`, which the scoring consumer skips as malformed; the webhook emits no event; an
  enhanced verification queues no check; beat names an expiry task that does not exist; a second active verification makes
  the next request fail in `scalar_one_or_none`.
- An event of KYC is sent by a task of its own and may contradict the record by then, or follow the event of a later decision.
- `POST /scores` raises before its commit: scores come from the consumer alone.
- `block_international`, described as "Reject non-domestic cards" (`routes/bin.py:69`, `:59`), refuses every card whose country is
  known (`bin_lookup.py:107`), the lender's own included.
- A card the provider does not know (404) is cached, and passes every policy. A card that cannot be looked up is to be refused
  ("card cannot be verified", `bin_lookup.py:95`), and the request fails instead, as the result lacks its required `bin_info`.
- `services/gateway/app/main.py:45` speaks of rate limiting; `check_rate_limit` is never called.

## 7. Not modelled

- HTTP, JSON, signatures, logging, metrics, formats and money display.
- Other isolation levels; the connection pool's limit (a request waits or fails before it has any effect).
- The floating-point product in `daily_penalty`: the model uses the exact thousandth, rounded up. Floating-point rates of
  schedules and offers: the models use exact rationals.
- Transfer recipients: one insert around a provider call, behind a unique index.
- Document extraction: calls to an external service; the status its task writes is in `Kyc`.
- The gateway: tokens and forwarding are cryptography and I/O, and nothing calls its rate limiter, the one part with a state.
- The shared library: no service imports its publisher. The dashboard only displays. Migrations, infrastructure, scripts and tests
  are no part of the running system.
- Compositions of services over the streams: as written, no entry one service publishes is understood by the next
  (section 6), so each is modelled with any stream its own code could read.
- A payment addressed to another loan with a reference already used: `Payments` are this loan's.
