---------------------------- MODULE Disbursement ----------------------------
(***************************************************************************)
(* The disbursement service: HTTP handlers, the loan.events consumer and   *)
(* the retry sweep run concurrently, each in a database session of its     *)
(* own, against one PostgreSQL table (a row per loan), a payment provider  *)
(* that answers calls and sends webhooks, and a Redis stream on which      *)
(* loan.disbursed is announced.                                            *)
(*                                                                         *)
(* A worker runs one job at a time. A job reads rows into its session      *)
(* (`snap', the ORM snapshot), writes at its first flush (which takes the  *)
(* row's lock and opens a `draft' nobody else sees) and ends in a commit   *)
(* or a rollback. The database is READ COMMITTED: a SELECT sees committed  *)
(* rows, an UPDATE waits for the row's lock and then changes, in the       *)
(* newest committed row, only the columns its own session changed.         *)
(*                                                                         *)
(* initiate() always raises once it has called the provider, so it stores  *)
(* no row: the rows of this model are those a data load put in the table.  *)
(***************************************************************************)
EXTENDS Integers, FiniteSets

CONSTANTS
    Loans,           \* loans whose offer was accepted
    Registered,      \* those whose recipient_id names a stored recipient
    Workers,         \* concurrent sessions: requests, consumers, sweeps
    MaxAttempts,     \* state_machine.MAX_ATTEMPTS
    RowMaxAttempts,  \* settings.max_disbursement_attempts, kept in the row
    EmitCap,         \* announcements are counted up to this bound
    Faults,          \* what may go wrong around the service
    Nobody, NoLoan   \* no lock holder, no current loan

(* "crash": a job dies, or raises, after any of its steps;                 *)
(* "emit_failure": XADD to disbursement.events fails and is swallowed;     *)
(* "redelivery": the provider sends a webhook again, at any later time;    *)
(* "ambiguous_call": a transfer call raises although the provider took it  *)
(* (a response that is lost, or a repeated reference that is refused);     *)
(* "uncommitted_sweep": the caller of run_retry_sweep, which does not      *)
(* commit, closes its session without committing either.                   *)
FaultKinds == {"crash", "emit_failure", "redelivery", "ambiguous_call",
               "uncommitted_sweep"}

ASSUME LoansAssumption == Registered \subseteq Loans /\ NoLoan \notin Loans
ASSUME WorkersAssumption == Nobody \notin Workers
ASSUME AttemptsAssumption ==
    MaxAttempts \in Nat \ {0} /\ RowMaxAttempts \in Nat \ {0}
ASSUME EmitCapAssumption == EmitCap \in Nat \ {0}
ASSUME FaultsAssumption == Faults \subseteq FaultKinds

-----------------------------------------------------------------------------
(* Rows, transfers and webhooks                                            *)

Attempts == 1 .. MaxAttempts + 1   \* one more than the code should reach

States == {"PENDING", "RECIPIENT_READY", "TRANSFER_INITIATED", "COMPLETED",
           "FAILED", "REVERSED", "CANCELLED"}

\* A disbursement_requests row. `code' is the attempt whose transfer_code the
\* row holds, 0 for none; `retry' says next_retry_at is set.
Rows == [state : States \cup {"ABSENT"}, attempt : 0 .. MaxAttempts + 1,
         code : 0 .. MaxAttempts + 1, retry : BOOLEAN]

NoRow == [state |-> "ABSENT", attempt |-> 0, code |-> 0, retry |-> FALSE]

\* The row initiate() inserts, as the session sees it once the recipient is
\* resolved.
FirstRow == [NoRow EXCEPT !.state = "RECIPIENT_READY"]

\* What a call of attempt a makes of row r.
Initiated(r, a) ==
    [r EXCEPT !.state = "TRANSFER_INITIATED", !.attempt = a, !.code = a]
NotInitiated(r, a) == [r EXCEPT !.state = "FAILED", !.attempt = a]

Terminal == {"COMPLETED", "REVERSED", "CANCELLED"}

\* Mutants: one attempt too many; a transfer in flight may be retried.
RetryEligibleOffByOne(state, attempts) ==
    state = "FAILED" /\ attempts <= MaxAttempts
RetryEligibleInFlight(state, attempts) ==
    state \in {"FAILED", "TRANSFER_INITIATED"} /\ attempts < MaxAttempts
RetryEligible(state, attempts) == state = "FAILED" /\ attempts < MaxAttempts

TransferStates == {"none", "pending", "success", "failed", "reversed"}
Hooks == [loan : Loans, attempt : Attempts,
          status : {"success", "failed", "reversed"}]
NoHook == [loan |-> NoLoan, attempt |-> 0, status |-> "none"]

-----------------------------------------------------------------------------
VARIABLES
    row,       \* committed disbursement_requests row of each loan
    draft,     \* its uncommitted version, inside the session that locks it
    lock,      \* the session holding the row (or its unique-index entry)
    transfer,  \* the provider's transfer for each loan and attempt
    hooks,     \* webhooks the provider still has to deliver
    stream,    \* loan.offer_accepted of each loan: new, pending entry, acked
    emitted,   \* loan.disbursed announcements of each loan
    pc, job, cur, todo, snap, hook   \* the workers' jobs

dbVars == <<row, draft, lock>>
providerVars == <<transfer, hooks>>
busVars == <<stream, emitted>>
workerVars == <<pc, job, cur, todo, snap, hook>>
vars == <<dbVars, providerVars, busVars, workerVars>>

Jobs == {"http", "consume", "retry", "sweep", "webhook"}
Steps == {"insert", "reset", "call", "emit", "write", "commit", "ack"}

TypeOK ==
    /\ row \in [Loans -> Rows]
    /\ draft \in [Loans -> Rows]
    /\ lock \in [Loans -> Workers \cup {Nobody}]
    /\ transfer \in [Loans -> [Attempts -> TransferStates]]
    /\ hooks \subseteq Hooks
    /\ stream \in [Loans -> {"new", "pel", "acked"}]
    /\ emitted \in [Loans -> 0 .. EmitCap]
    /\ pc \in [Workers -> Steps \cup {"idle"}]
    /\ job \in [Workers -> Jobs \cup {"none"}]
    /\ cur \in [Workers -> Loans \cup {NoLoan}]
    /\ todo \in [Workers -> SUBSET Loans]
    /\ snap \in [Workers -> [Loans -> Rows]]
    /\ hook \in [Workers -> Hooks \cup {NoHook}]

\* The loans in the table have their first transfer on its way.
Init ==
    /\ \E known \in SUBSET Registered :
         /\ row = [l \in Loans |->
                     IF l \in known THEN Initiated(FirstRow, 1) ELSE NoRow]
         /\ transfer = [l \in Loans |-> [a \in Attempts |->
                          IF l \in known /\ a = 1 THEN "pending" ELSE "none"]]
    /\ draft = [l \in Loans |-> NoRow]
    /\ lock = [l \in Loans |-> Nobody]
    /\ hooks = {}
    /\ stream = [l \in Loans |-> "new"]
    /\ emitted = [l \in Loans |-> 0]
    /\ pc = [w \in Workers |-> "idle"]
    /\ job = [w \in Workers |-> "none"]
    /\ cur = [w \in Workers |-> NoLoan]
    /\ todo = [w \in Workers |-> {}]
    /\ snap = [w \in Workers |-> [l \in Loans |-> NoRow]]
    /\ hook = [w \in Workers |-> NoHook]

-----------------------------------------------------------------------------
(* Sessions                                                                *)

Start(w, kind, l, step) ==
    /\ pc[w] = "idle"
    /\ pc' = [pc EXCEPT ![w] = step]
    /\ job' = [job EXCEPT ![w] = kind]
    /\ cur' = [cur EXCEPT ![w] = l]

Goto(w, step) ==
    /\ pc' = [pc EXCEPT ![w] = step]
    /\ UNCHANGED <<job, cur, todo, snap, hook>>

End(w) ==
    /\ pc' = [pc EXCEPT ![w] = "idle"]
    /\ job' = [job EXCEPT ![w] = "none"]
    /\ cur' = [cur EXCEPT ![w] = NoLoan]
    /\ todo' = [todo EXCEPT ![w] = {}]
    /\ snap' = [snap EXCEPT ![w] = [l \in Loans |-> NoRow]]
    /\ hook' = [hook EXCEPT ![w] = NoHook]

\* A session that flushes a change to loan l's row waits for the row.
Lock(w, l, new) ==
    /\ lock[l] = Nobody
    /\ lock' = [lock EXCEPT ![l] = w]
    /\ draft' = [draft EXCEPT ![l] = new]
    /\ UNCHANGED row

Release(w) ==
    /\ lock' = [l \in Loans |-> IF lock[l] = w THEN Nobody ELSE lock[l]]
    /\ draft' = [l \in Loans |-> IF lock[l] = w THEN NoRow ELSE draft[l]]

Rollback(w) == Release(w) /\ UNCHANGED row

\* Mutant: the session is not given back, and keeps its locks.
CommitLeaky(w) ==
    /\ pc[w] = "commit"
    /\ row' = [l \in Loans |-> IF lock[l] = w THEN draft[l] ELSE row[l]]
    /\ UNCHANGED <<lock, draft>>
    /\ IF job[w] = "consume" THEN Goto(w, "ack") ELSE End(w)
    /\ UNCHANGED <<providerVars, busVars>>

\* get_db commits after the handler, the consumer after initiate(), and the
\* caller of the sweep when the sweep returns.
Commit(w) ==
    /\ pc[w] = "commit"
    /\ Release(w)
    /\ row' = [l \in Loans |-> IF lock[l] = w THEN draft[l] ELSE row[l]]
    /\ IF job[w] = "consume" THEN Goto(w, "ack") ELSE End(w)
    /\ UNCHANGED <<providerVars, busVars>>

-----------------------------------------------------------------------------
(* initiate(), from POST /disbursements and from the stream consumer       *)

\* SELECT ... WHERE loan_id: a COMPLETED row is returned, any other row is a
\* 409, and a loan without a stored recipient a 404 or 422.
HttpInitiate(w, l) ==
    /\ row[l] = NoRow
    /\ l \in Registered
    /\ Start(w, "http", l, "insert")
    /\ UNCHANGED <<todo, snap, hook, dbVars, providerVars, busVars>>

\* Mutant: the message is acknowledged as it is read.
ConsumeAckFirst(w, l) ==
    /\ stream[l] = "new"
    /\ stream' = [stream EXCEPT ![l] = "acked"]
    /\ row[l] = NoRow /\ l \in Registered
    /\ Start(w, "consume", l, "insert")
    /\ UNCHANGED <<todo, snap, hook, dbVars, providerVars, emitted>>

\* XREADGROUP ">" hands each message to the group once. initiate() raising
\* leaves the message a pending entry, which nothing reads again.
Consume(w, l) ==
    /\ stream[l] = "new"
    /\ stream' = [stream EXCEPT ![l] = "pel"]
    /\ pc[w] = "idle"
    /\ \/ /\ row[l] = NoRow
          /\ l \in Registered
          /\ Start(w, "consume", l, "insert")
       \/ /\ row[l].state = "COMPLETED"
          /\ Start(w, "consume", l, "commit")
       \/ /\ row[l].state # "COMPLETED"
          /\ row[l] = NoRow => l \notin Registered
          /\ UNCHANGED <<pc, job, cur>>
    /\ UNCHANGED <<todo, snap, hook, dbVars, providerVars, emitted>>

\* INSERT and flush. A concurrent uncommitted insert of the same loan_id is
\* waited for; a committed one is an IntegrityError, which ends the job.
Insert(w) ==
    /\ pc[w] = "insert"
    /\ LET l == cur[w] IN
         \/ /\ row[l] = NoRow
            /\ Lock(w, l, FirstRow)
            /\ Goto(w, "call")
         \/ /\ row[l] # NoRow
            /\ lock[l] = Nobody
            /\ End(w)
            /\ UNCHANGED dbVars
    /\ UNCHANGED <<providerVars, busVars>>

\* Mutant: a webhook about a terminal or an unknown transfer is refused.
AckProcessedOnly(w) ==
    /\ pc[w] = "ack"
    /\ stream' = IF job[w] = "consume"
                   THEN [stream EXCEPT ![cur[w]] = "acked"] ELSE stream
    /\ hooks' = IF job[w] = "webhook" /\ snap[w][cur[w]] # NoRow
                  THEN hooks \ {hook[w]} ELSE hooks
    /\ End(w)
    /\ UNCHANGED <<dbVars, transfer, emitted>>

\* XACK after the commit; HTTP 200 to the provider after the commit.
Ack(w) ==
    /\ pc[w] = "ack"
    /\ stream' = IF job[w] = "consume"
                   THEN [stream EXCEPT ![cur[w]] = "acked"] ELSE stream
    /\ hooks' = IF "redelivery" \in Faults THEN hooks ELSE hooks \ {hook[w]}
    /\ End(w)
    /\ UNCHANGED <<dbVars, transfer, emitted>>

-----------------------------------------------------------------------------
(* retry_disbursement(), from POST .../retry and from run_retry_sweep()    *)

Retry(w, l) ==
    /\ RetryEligible(row[l].state, row[l].attempt)
    /\ Start(w, "retry", l, "reset")
    /\ snap' = [snap EXCEPT ![w][l] = row[l]]
    /\ UNCHANGED <<todo, hook, dbVars, providerVars, busVars>>

SweepCandidates ==
    {l \in Loans : /\ row[l].state = "FAILED"
                   /\ row[l].retry
                   /\ row[l].attempt < RowMaxAttempts}

\* One SELECT loads every candidate whose next_retry_at has passed (any of
\* the scheduled ones may have); the session's identity map keeps these
\* values, so can_retry is later decided on them too. No ORDER BY.
Sweep(w) ==
    \E due \in SUBSET SweepCandidates :
        LET retried == {l \in due : RetryEligible(row[l].state, row[l].attempt)}
        IN  \E l \in retried :
              /\ Start(w, "sweep", l, "reset")
              /\ todo' = [todo EXCEPT ![w] = retried \ {l}]
              /\ snap' = [snap EXCEPT ![w] =
                            [m \in Loans |->
                               IF m \in retried THEN row[m] ELSE NoRow]]
              /\ UNCHANGED <<hook, dbVars, providerVars, busVars>>

\* Mutant: the reset stays in the session, unflushed, during the call.
ResetUnflushed(w) ==
    /\ pc[w] = "reset"
    /\ Goto(w, "call")
    /\ UNCHANGED <<dbVars, providerVars, busVars>>

\* Reset to PENDING and flush: only the columns that differ from the values
\* the session loaded are in the UPDATE.
Reset(w) ==
    /\ pc[w] = "reset"
    /\ LET l == cur[w] IN
         Lock(w, l, [row[l] EXCEPT !.state = "PENDING",
                                   !.retry = @ /\ ~snap[w][l].retry])
    /\ Goto(w, "call")
    /\ UNCHANGED <<providerVars, busVars>>

Waits(w) == pc[w] = "reset" /\ lock[cur[w]] \notin {w, Nobody}

\* PostgreSQL aborts a transaction that is part of a cycle of waits; every
\* later statement of that session raises, so its sweep ends with nothing.
DeadlockAbort(w) ==
    /\ \E S \in SUBSET Workers :
         w \in S /\ \A v \in S : Waits(v) /\ lock[cur[v]] \in S
    /\ Rollback(w)
    /\ End(w)
    /\ UNCHANGED <<providerVars, busVars>>

\* The caller of the sweep closes its session without committing.
SweepDiscarded(w) ==
    /\ "uncommitted_sweep" \in Faults
    /\ pc[w] = "commit" /\ job[w] = "sweep"
    /\ Rollback(w)
    /\ End(w)
    /\ UNCHANGED <<providerVars, busVars>>

-----------------------------------------------------------------------------
(* provider.initiate_transfer(), the reference being (loan, attempt)       *)

\* Mutant: the reference counts the calls, not the attempts on record.
AttemptOfCall(w) ==
    LET used == {a \in Attempts : transfer[cur[w]][a] # "none"} IN
    IF MaxAttempts + 1 \in used THEN MaxAttempts + 1 ELSE Cardinality(used) + 1
AttemptOf(w) == snap[w][cur[w]].attempt + 1

\* The provider takes the reference of a call it has not seen yet.
Accept(w) ==
    /\ pc[w] = "call"
    /\ transfer[cur[w]][AttemptOf(w)] = "none"
    /\ transfer' = [transfer EXCEPT ![cur[w]][AttemptOf(w)] = "pending"]
    /\ UNCHANGED <<hooks, dbVars, busVars, workerVars>>

\* initiate() raises whatever the provider has answered: the answer it builds
\* reads req.events, which nothing has loaded for a row of this session's own
\* insert. The row and the attempt are rolled back, the transfer is not.
InitiateRaises(w) ==
    /\ pc[w] = "call" /\ job[w] \in {"http", "consume"}
    /\ Rollback(w)
    /\ End(w)
    /\ UNCHANGED <<providerVars, busVars>>

\* The row of a retry was loaded by a SELECT, its events with it.
Retrying(w) == job[w] \in {"retry", "sweep"}

\* A sweep goes on to its next candidate, every other job commits.
Proceed(w) ==
    /\ \/ /\ todo[w] = {}
          /\ pc' = [pc EXCEPT ![w] = "commit"]
          /\ UNCHANGED <<cur, todo>>
       \/ \E l \in todo[w] :
            /\ pc' = [pc EXCEPT ![w] = "reset"]
            /\ cur' = [cur EXCEPT ![w] = l]
            /\ todo' = [todo EXCEPT ![w] = @ \ {l}]
    /\ UNCHANGED <<job, snap, hook>>

\* Mutants: the provider's answer is taken for the outcome; a retry keeps the
\* first transfer_code.
CallReturnsFinal(w) ==
    /\ pc[w] = "call" /\ Retrying(w)
    /\ transfer[cur[w]][AttemptOf(w)] # "none"
    /\ draft' = [draft EXCEPT ![cur[w]] =
                     [Initiated(@, AttemptOf(w)) EXCEPT !.state = "COMPLETED"]]
    /\ Proceed(w)
    /\ UNCHANGED <<row, lock, providerVars, busVars>>
CallReturnsOldCode(w) ==
    /\ pc[w] = "call" /\ Retrying(w)
    /\ transfer[cur[w]][AttemptOf(w)] # "none"
    /\ LET old == draft[cur[w]].code IN
         draft' = [draft EXCEPT ![cur[w]] =
                     [Initiated(@, AttemptOf(w)) EXCEPT
                        !.code = IF old = 0 THEN @ ELSE old]]
    /\ Proceed(w)
    /\ UNCHANGED <<row, lock, providerVars, busVars>>

\* The transfer_code of this reference, which may be one already given.
CallReturns(w) ==
    /\ pc[w] = "call" /\ Retrying(w)
    /\ transfer[cur[w]][AttemptOf(w)] # "none"
    /\ draft' = [draft EXCEPT ![cur[w]] = Initiated(@, AttemptOf(w))]
    /\ Proceed(w)
    /\ UNCHANGED <<row, lock, providerVars, busVars>>

\* FAILED, with the attempt spent, no code and no next_retry_at.
CallRaises(w) ==
    /\ pc[w] = "call" /\ Retrying(w)
    /\ \/ transfer[cur[w]][AttemptOf(w)] = "none"
       \/ "ambiguous_call" \in Faults
    /\ draft' = [draft EXCEPT ![cur[w]] = NotInitiated(@, AttemptOf(w))]
    /\ Proceed(w)
    /\ UNCHANGED <<row, lock, providerVars, busVars>>

-----------------------------------------------------------------------------
(* handle_webhook()                                                        *)

\* Mutants: a terminal row is written too; the announcement is forgotten; it
\* is made of every transfer.
WebhookUnguarded(w, h) ==
    /\ h \in hooks
    /\ row[h.loan].code = h.attempt
    /\ Start(w, "webhook", h.loan,
             IF h.status = "success" THEN "emit" ELSE "write")
    /\ snap' = [snap EXCEPT ![w][h.loan] = row[h.loan]]
    /\ hook' = [hook EXCEPT ![w] = h]
    /\ UNCHANGED <<todo, dbVars, providerVars, busVars>>
WebhookSilent(w, h) ==
    /\ h \in hooks
    /\ row[h.loan].code = h.attempt
    /\ row[h.loan].state \notin Terminal
    /\ Start(w, "webhook", h.loan, "write")
    /\ snap' = [snap EXCEPT ![w][h.loan] = row[h.loan]]
    /\ hook' = [hook EXCEPT ![w] = h]
    /\ UNCHANGED <<todo, dbVars, providerVars, busVars>>
WebhookTellsAll(w, h) ==
    /\ h \in hooks
    /\ row[h.loan].code = h.attempt
    /\ row[h.loan].state \notin Terminal
    /\ Start(w, "webhook", h.loan, "emit")
    /\ snap' = [snap EXCEPT ![w][h.loan] = row[h.loan]]
    /\ hook' = [hook EXCEPT ![w] = h]
    /\ UNCHANGED <<todo, dbVars, providerVars, busVars>>

\* SELECT ... WHERE transfer_code. An unknown code and a terminal row are
\* acknowledged without effect.
Webhook(w, h) ==
    /\ h \in hooks
    /\ "redelivery" \in Faults \/ \A v \in Workers : hook[v] # h
    /\ \/ /\ row[h.loan].code = h.attempt
          /\ row[h.loan].state \notin Terminal
          /\ Start(w, "webhook", h.loan,
                   IF h.status = "success" THEN "emit" ELSE "write")
          /\ snap' = [snap EXCEPT ![w][h.loan] = row[h.loan]]
       \/ /\ row[h.loan].code = h.attempt => row[h.loan].state \in Terminal
          /\ Start(w, "webhook", h.loan, "ack")
          /\ UNCHANGED snap
    /\ hook' = [hook EXCEPT ![w] = h]
    /\ UNCHANGED <<todo, dbVars, providerVars, busVars>>

\* loan.disbursed is sent before the row is flushed; a failure is logged.
EmitDisbursed(w) ==
    /\ pc[w] = "emit"
    /\ LET l == cur[w] IN
         \/ emitted' = [emitted EXCEPT
                          ![l] = IF @ < EmitCap THEN @ + 1 ELSE @]
         \/ "emit_failure" \in Faults /\ UNCHANGED emitted
    /\ Goto(w, "write")
    /\ UNCHANGED <<stream, dbVars, providerVars>>

\* Flush and commit of the handler's changes, in the newest row. A state the
\* session loaded with the same value is not part of the UPDATE.
WriteWebhook(w) ==
    /\ pc[w] = "write"
    /\ LET l == cur[w]
           target == CASE hook[w].status = "success"  -> "COMPLETED"
                       [] hook[w].status = "failed"   -> "FAILED"
                       [] hook[w].status = "reversed" -> "REVERSED"
       IN  /\ lock[l] = Nobody
           /\ row' = [row EXCEPT
                ![l].state = IF snap[w][l].state = target THEN @ ELSE target,
                ![l].retry = @ \/ /\ target = "FAILED"
                                  /\ RetryEligible(target, snap[w][l].attempt)]
    /\ Goto(w, "ack")
    /\ UNCHANGED <<draft, lock, providerVars, busVars>>

-----------------------------------------------------------------------------
(* The provider's own steps, and a job that dies                           *)

Settle(l, a) ==
    /\ transfer[l][a] = "pending"
    /\ \E s \in {"success", "failed"} :
         /\ transfer' = [transfer EXCEPT ![l][a] = s]
         /\ hooks' = hooks \cup {[loan |-> l, attempt |-> a, status |-> s]}
    /\ UNCHANGED <<dbVars, busVars, workerVars>>

Reverse(l, a) ==
    /\ transfer[l][a] \in {"pending", "success"}
    /\ transfer' = [transfer EXCEPT ![l][a] = "reversed"]
    /\ hooks' = hooks \cup {[loan |-> l, attempt |-> a, status |-> "reversed"]}
    /\ UNCHANGED <<dbVars, busVars, workerVars>>

Crash(w) ==
    /\ "crash" \in Faults
    /\ pc[w] # "idle"
    /\ Rollback(w)
    /\ End(w)
    /\ UNCHANGED <<providerVars, busVars>>

-----------------------------------------------------------------------------
JobStep(w) ==
    \/ Insert(w) \/ Reset(w) \/ DeadlockAbort(w)
    \/ InitiateRaises(w) \/ CallReturns(w) \/ CallRaises(w)
    \/ EmitDisbursed(w) \/ WriteWebhook(w)
    \/ Commit(w) \/ SweepDiscarded(w) \/ Ack(w)

Next ==
    \/ \E w \in Workers :
         \/ JobStep(w)
         \/ Accept(w)
         \/ Crash(w)
         \/ Sweep(w)
         \/ \E l \in Loans : HttpInitiate(w, l) \/ Consume(w, l) \/ Retry(w, l)
         \/ \E h \in hooks : Webhook(w, h)
    \/ \E l \in Loans, a \in Attempts : Settle(l, a) \/ Reverse(l, a)

Spec == Init /\ [][Next]_vars

(* Fairness. The event loop runs every ready job, a provider call ends     *)
(* (30 s timeout, three tries) and PostgreSQL grants a row lock in the     *)
(* order of the requests while every holder ends: a job whose next step is *)
(* possible again and again takes it, SF. The provider goes on delivering  *)
(* and the consumer loop goes on reading whenever a worker is free, which  *)
(* happens again and again but not all the time: SF too. Nothing schedules *)
(* a sweep or a manual retry, so neither is fair.                          *)
Fairness ==
    /\ \A w \in Workers : SF_vars(JobStep(w))
    /\ SF_vars(\E w \in Workers, h \in hooks : Webhook(w, h))
    /\ SF_vars(\E w \in Workers, l \in Loans : Consume(w, l))

FairSpec == Spec /\ Fairness
=============================================================================
