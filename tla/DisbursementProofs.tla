------------------------- MODULE DisbursementProofs -------------------------
(***************************************************************************)
(* Machine-checked proofs about the disbursement service, for any number   *)
(* of loans and workers, any attempt limits and any subset of the faults.  *)
(***************************************************************************)
EXTENDS DisbursementProps, FiniteSetTheorems, TLAPS

(* What a worker's step says of its job: an idle worker holds nothing, any *)
(* other works on a loan, only an initiation or a retry calls the provider *)
(* and the loans it may still call for were read with an attempt left.     *)
JobInv ==
    \A w \in Workers :
        /\ pc[w] = "idle" => /\ todo[w] = {}
                             /\ snap[w] = [l \in Loans |-> NoRow]
        /\ pc[w] # "idle" => cur[w] \in Loans
        /\ pc[w] \in {"insert", "reset", "call"} =>
             /\ job[w] \in {"http", "consume", "retry", "sweep"}
             /\ \A l \in todo[w] \cup {cur[w]} : snap[w][l].attempt < MaxAttempts
        /\ pc[w] \in {"emit", "write"} => hook[w] \in Hooks

TypeInv == TypeOK /\ JobInv

USE LoansAssumption, WorkersAssumption, AttemptsAssumption,
    EmitCapAssumption

\* The absent row and the row initiate() inserts are rows.
LEMMA NoRowType == NoRow \in Rows /\ FirstRow \in Rows
<1>1. 0 \in 0 .. MaxAttempts + 1
  OBVIOUS
<1>2. NoRow \in Rows
  BY <1>1 DEF NoRow, Rows
<1>3. FirstRow \in Rows
  BY <1>1 DEF NoRow, FirstRow, Rows, States
<1> QED BY <1>2, <1>3

\* A loan starts without a row and without a transfer, or with its first
\* transfer on its way.
LEMMA InitRow ==
    ASSUME Init, NEW l \in Loans
    PROVE  \/ /\ row[l] = NoRow
              /\ \A a \in Attempts : transfer[l][a] = "none"
           \/ /\ row[l] \in Rows /\ row[l].state = "TRANSFER_INITIATED"
              /\ row[l].attempt = 1 /\ row[l].code = 1
              /\ \A a \in Attempts :
                   transfer[l][a] = IF a = 1 THEN "pending" ELSE "none"
<1>1. PICK known \in SUBSET Registered :
        /\ row = [m \in Loans |->
                    IF m \in known THEN Initiated(FirstRow, 1) ELSE NoRow]
        /\ transfer = [m \in Loans |-> [a \in Attempts |->
                         IF m \in known /\ a = 1 THEN "pending" ELSE "none"]]
  BY DEF Init
<1>2. /\ 1 \in 0 .. MaxAttempts + 1 /\ FirstRow \in Rows
      /\ "TRANSFER_INITIATED" \in States \cup {"ABSENT"}
  BY NoRowType DEF States
<1>3. /\ Initiated(FirstRow, 1) \in Rows
      /\ Initiated(FirstRow, 1).state = "TRANSFER_INITIATED"
      /\ Initiated(FirstRow, 1).attempt = 1 /\ Initiated(FirstRow, 1).code = 1
  BY <1>2 DEF Initiated, Rows
<1>4. CASE l \in known
  BY <1>1, <1>3, <1>4
<1>5. CASE l \notin known
  BY <1>1, <1>5
<1> QED BY <1>4, <1>5

\* The initial state has the right types.
LEMMA InitTypeInv == Init => TypeInv
<1> SUFFICES ASSUME Init PROVE TypeInv
  OBVIOUS
<1>1. /\ row \in [Loans -> Rows]
      /\ transfer \in [Loans -> [Attempts -> TransferStates]]
  <2>1. \A l \in Loans : row[l] \in Rows
    BY InitRow, NoRowType
  <2>2. row = [l \in Loans |-> row[l]]
    BY DEF Init
  <2>3. transfer \in [Loans -> [Attempts -> {"pending", "none"}]]
    BY DEF Init
  <2> QED BY <2>1, <2>2, <2>3 DEF TransferStates
<1>2. TypeOK
  BY <1>1, NoRowType DEF Init, TypeOK
<1>3. JobInv
  BY DEF Init, JobInv
<1> QED BY <1>2, <1>3 DEF TypeInv

\* Giving back a session's locks keeps locks and drafts in their types.
LEMMA ReleaseType ==
    ASSUME TypeOK, NEW w \in Workers, Release(w)
    PROVE  /\ lock' \in [Loans -> Workers \cup {Nobody}]
           /\ draft' \in [Loans -> Rows]
BY NoRowType DEF Release, TypeOK

\* A worker whose job ends is idle with nothing left over.
LEMMA EndType ==
    ASSUME TypeInv, NEW w \in Workers, End(w)
    PROVE  /\ pc' \in [Workers -> Steps \cup {"idle"}]
           /\ job' \in [Workers -> Jobs \cup {"none"}]
           /\ cur' \in [Workers -> Loans \cup {NoLoan}]
           /\ todo' \in [Workers -> SUBSET Loans]
           /\ snap' \in [Workers -> [Loans -> Rows]]
           /\ hook' \in [Workers -> Hooks \cup {NoHook}]
           /\ JobInv'
<1>1. /\ pc' \in [Workers -> Steps \cup {"idle"}]
      /\ job' \in [Workers -> Jobs \cup {"none"}]
      /\ cur' \in [Workers -> Loans \cup {NoLoan}]
      /\ todo' \in [Workers -> SUBSET Loans]
      /\ hook' \in [Workers -> Hooks \cup {NoHook}]
  BY DEF End, TypeInv, TypeOK
<1>2. snap' \in [Workers -> [Loans -> Rows]]
  BY NoRowType DEF End, TypeInv, TypeOK
<1>3. JobInv'
  BY DEF End, TypeInv, TypeOK, JobInv, Steps
<1> QED BY <1>1, <1>2, <1>3

\* Going on to the next candidate, or to the commit, keeps the types.
LEMMA ProceedType ==
    ASSUME TypeOK, NEW w \in Workers, Proceed(w)
    PROVE  /\ pc' \in [Workers -> Steps \cup {"idle"}]
           /\ cur' \in [Workers -> Loans \cup {NoLoan}]
           /\ todo' \in [Workers -> SUBSET Loans]
<1>1. CASE /\ pc' = [pc EXCEPT ![w] = "commit"]
           /\ UNCHANGED <<cur, todo>>
  BY <1>1 DEF TypeOK, Steps
<1>2. ASSUME NEW l \in todo[w],
             pc' = [pc EXCEPT ![w] = "reset"],
             cur' = [cur EXCEPT ![w] = l],
             todo' = [todo EXCEPT ![w] = @ \ {l}]
      PROVE  /\ pc' \in [Workers -> Steps \cup {"idle"}]
             /\ cur' \in [Workers -> Loans \cup {NoLoan}]
             /\ todo' \in [Workers -> SUBSET Loans]
  BY <1>2 DEF TypeOK, Steps
<1> QED BY <1>1, <1>2 DEF Proceed

\* HttpInitiate keeps every variable in its type, and JobInv.
LEMMA HttpInitiateTypeInv ==
    ASSUME TypeInv, NEW w \in Workers, NEW l \in Loans, HttpInitiate(w, l)
    PROVE  TypeInv'
<1>1. TypeOK'
  BY DEF HttpInitiate, TypeInv, TypeOK, Start, dbVars, providerVars, busVars,
         Steps, Jobs
<1>2. JobInv'
  BY DEF HttpInitiate, TypeInv, TypeOK, JobInv, Start, dbVars, providerVars,
         busVars, Steps, Jobs, NoRow
<1> QED BY <1>1, <1>2 DEF TypeInv

\* Consume keeps every variable in its type, and JobInv.
LEMMA ConsumeTypeInv ==
    ASSUME TypeInv, NEW w \in Workers, NEW l \in Loans, Consume(w, l)
    PROVE  TypeInv'
<1>1. TypeOK'
  <2>1. /\ pc' \in [Workers -> Steps \cup {"idle"}]
        /\ job' \in [Workers -> Jobs \cup {"none"}]
        /\ cur' \in [Workers -> Loans \cup {NoLoan}]
    <3>1. CASE \E step \in {"insert", "commit"} : Start(w, "consume", l, step)
      BY <3>1 DEF Start, TypeInv, TypeOK, Steps, Jobs
    <3>2. CASE UNCHANGED <<pc, job, cur>>
      BY <3>2 DEF TypeInv, TypeOK
    <3> QED BY <3>1, <3>2 DEF Consume
  <2>2. stream' \in [Loans -> {"new", "pel", "acked"}]
    BY DEF Consume, TypeInv, TypeOK
  <2> QED
    BY <2>1, <2>2 DEF Consume, TypeInv, TypeOK, dbVars, providerVars
<1>2. JobInv'
  BY DEF Consume, TypeInv, TypeOK, JobInv, Start, dbVars, providerVars,
         busVars, Steps, Jobs, NoRow
<1> QED BY <1>1, <1>2 DEF TypeInv

\* Retry keeps every variable in its type, and JobInv.
LEMMA RetryTypeInv ==
    ASSUME TypeInv, NEW w \in Workers, NEW l \in Loans, Retry(w, l)
    PROVE  TypeInv'
<1>1. TypeOK'
  BY DEF Retry, TypeInv, TypeOK, Start, dbVars, providerVars, busVars, Steps,
         Jobs
<1>2. JobInv'
  BY DEF Retry, TypeInv, TypeOK, JobInv, Start, dbVars, providerVars, busVars,
         Steps, Jobs, RetryEligible
<1> QED BY <1>1, <1>2 DEF TypeInv

\* Sweep keeps every variable in its type, and JobInv.
LEMMA SweepTypeInv ==
    ASSUME TypeInv, NEW w \in Workers, Sweep(w) PROVE TypeInv'
<1>1. TypeOK'
  BY NoRowType
  DEF Sweep, TypeInv, TypeOK, Start, dbVars, providerVars, busVars, Steps,
      Jobs, SweepCandidates
<1>2. JobInv'
  BY DEF Sweep, TypeInv, TypeOK, JobInv, Start, dbVars, providerVars, busVars,
         Steps, Jobs, RetryEligible, SweepCandidates
<1> QED BY <1>1, <1>2 DEF TypeInv

\* Insert keeps every variable in its type, and JobInv.
LEMMA InsertTypeInv ==
    ASSUME TypeInv, NEW w \in Workers, Insert(w) PROVE TypeInv'
<1>1. TypeOK'
  <2>1. CASE /\ Lock(w, cur[w], FirstRow)
             /\ Goto(w, "call")
    BY <2>1, NoRowType
    DEF Insert, Lock, Goto, TypeInv, TypeOK, JobInv, providerVars, busVars, Steps
  <2>2. CASE /\ End(w)
             /\ UNCHANGED dbVars
    BY <2>2, EndType
    DEF Insert, TypeInv, TypeOK, dbVars, providerVars, busVars
  <2> QED BY <2>1, <2>2 DEF Insert
<1>2. JobInv'
  <2>1. CASE Goto(w, "call")
    BY <2>1 DEF Insert, TypeInv, TypeOK, JobInv, Goto
  <2>2. CASE End(w)
    BY <2>2, EndType
  <2> QED BY <2>1, <2>2 DEF Insert
<1> QED BY <1>1, <1>2 DEF TypeInv

\* Reset keeps every variable in its type, and JobInv.
LEMMA ResetTypeInv ==
    ASSUME TypeInv, NEW w \in Workers, Reset(w) PROVE TypeInv'
<1>1. TypeOK'
  <2> DEFINE new == [row[cur[w]] EXCEPT !.state = "PENDING",
                                        !.retry = @ /\ ~snap[w][cur[w]].retry]
  <2>1. cur[w] \in Loans /\ row[cur[w]] \in Rows /\ snap[w][cur[w]] \in Rows
    BY DEF Reset, TypeInv, TypeOK, JobInv
  <2>2. new \in Rows
    BY <2>1 DEF Rows, States
  <2>3. draft' \in [Loans -> Rows] /\ lock' \in [Loans -> Workers \cup {Nobody}]
    BY <2>1, <2>2 DEF Reset, Lock, TypeInv, TypeOK
  <2>4. UNCHANGED row
    BY DEF Reset, Lock
  <2> QED
    BY <2>3, <2>4
    DEF Reset, Goto, TypeInv, TypeOK, providerVars, busVars, Steps
<1>2. JobInv'
  BY DEF Reset, TypeInv, TypeOK, JobInv, Goto, dbVars, providerVars, busVars,
         Steps, Lock
<1> QED BY <1>1, <1>2 DEF TypeInv

\* Commit keeps every variable in its type, and JobInv.
LEMMA CommitTypeInv ==
    ASSUME TypeInv, NEW w \in Workers, Commit(w) PROVE TypeInv'
<1>1. TypeOK'
  BY ReleaseType, EndType
  DEF Commit, TypeInv, TypeOK, Goto, dbVars, providerVars, busVars, Steps
<1>2. JobInv'
  BY ZenonT(60), EndType
  DEF Commit, TypeInv, TypeOK, JobInv, Goto, dbVars, providerVars, busVars,
      Steps
<1> QED BY <1>1, <1>2 DEF TypeInv

\* Ack keeps every variable in its type, and JobInv.
LEMMA AckTypeInv ==
    ASSUME TypeInv, NEW w \in Workers, Ack(w) PROVE TypeInv'
<1>1. TypeOK'
  BY EndType
  DEF Ack, TypeInv, TypeOK, Goto, dbVars, providerVars, busVars, Steps
<1>2. JobInv'
  BY EndType
  DEF Ack, TypeInv, TypeOK, JobInv, Goto, dbVars, providerVars, busVars, Steps
<1> QED BY <1>1, <1>2 DEF TypeInv

\* DeadlockAbort keeps every variable in its type, and JobInv.
LEMMA DeadlockAbortTypeInv ==
    ASSUME TypeInv, NEW w \in Workers, DeadlockAbort(w) PROVE TypeInv'
<1>1. TypeOK'
  BY ReleaseType, EndType
  DEF DeadlockAbort, TypeInv, TypeOK, Goto, dbVars, providerVars, busVars,
      Steps, Rollback
<1>2. JobInv'
  BY EndType
  DEF DeadlockAbort, TypeInv, TypeOK, JobInv, Goto, dbVars, providerVars,
      busVars, Steps
<1> QED BY <1>1, <1>2 DEF TypeInv

\* SweepDiscarded keeps every variable in its type, and JobInv.
LEMMA SweepDiscardedTypeInv ==
    ASSUME TypeInv, NEW w \in Workers, SweepDiscarded(w) PROVE TypeInv'
<1>1. TypeOK'
  BY ReleaseType, EndType
  DEF SweepDiscarded, TypeInv, TypeOK, Goto, dbVars, providerVars, busVars,
      Steps, Rollback
<1>2. JobInv'
  BY EndType
  DEF SweepDiscarded, TypeInv, TypeOK, JobInv, Goto, dbVars, providerVars,
      busVars, Steps
<1> QED BY <1>1, <1>2 DEF TypeInv

\* Crash keeps every variable in its type, and JobInv.
LEMMA CrashTypeInv ==
    ASSUME TypeInv, NEW w \in Workers, Crash(w) PROVE TypeInv'
<1>1. TypeOK'
  BY ReleaseType, EndType
  DEF Crash, TypeInv, TypeOK, Goto, dbVars, providerVars, busVars, Steps,
      Rollback
<1>2. JobInv'
  BY EndType
  DEF Crash, TypeInv, TypeOK, JobInv, Goto, dbVars, providerVars, busVars,
      Steps
<1> QED BY <1>1, <1>2 DEF TypeInv

\* InitiateRaises keeps every variable in its type, and JobInv.
LEMMA InitiateRaisesTypeInv ==
    ASSUME TypeInv, NEW w \in Workers, InitiateRaises(w) PROVE TypeInv'
<1>1. TypeOK'
  BY ReleaseType, EndType
  DEF InitiateRaises, TypeInv, TypeOK, Goto, dbVars, providerVars, busVars, Steps,
      Rollback
<1>2. JobInv'
  BY EndType
  DEF InitiateRaises, TypeInv, TypeOK, JobInv, Goto, dbVars, providerVars, busVars,
      Steps
<1> QED BY <1>1, <1>2 DEF TypeInv

\* Accept keeps every variable in its type, and JobInv.
LEMMA AcceptTypeInv ==
    ASSUME TypeInv, NEW w \in Workers, Accept(w) PROVE TypeInv'
<1>1. TypeOK'
  BY DEF Accept, TypeInv, TypeOK, dbVars, busVars, workerVars, AttemptOf,
         TransferStates, Attempts
<1>2. JobInv'
  BY DEF Accept, TypeInv, TypeOK, JobInv, dbVars, busVars, workerVars
<1> QED BY <1>1, <1>2 DEF TypeInv

\* CallReturns keeps every variable in its type, and JobInv.
LEMMA CallReturnsTypeInv ==
    ASSUME TypeInv, NEW w \in Workers, CallReturns(w) PROVE TypeInv'
<1>1. TypeOK'
  <2>1. cur[w] \in Loans /\ AttemptOf(w) \in 0 .. MaxAttempts + 1
    BY DEF CallReturns, TypeInv, TypeOK, JobInv, AttemptOf, Rows
  <2>2. draft' \in [Loans -> Rows]
    <3>1. draft[cur[w]] \in Rows
      BY <2>1 DEF TypeInv, TypeOK
    <3>2. Initiated(draft[cur[w]], AttemptOf(w)) \in Rows
      BY <2>1, <3>1 DEF Initiated, Rows, States
    <3> QED
      BY <2>1, <3>2 DEF CallReturns, TypeInv, TypeOK
  <2>3. /\ pc' \in [Workers -> Steps \cup {"idle"}]
        /\ cur' \in [Workers -> Loans \cup {NoLoan}]
        /\ todo' \in [Workers -> SUBSET Loans]
    BY ProceedType DEF CallReturns, TypeInv
  <2> QED
    BY <2>2, <2>3
    DEF CallReturns, Proceed, TypeInv, TypeOK, providerVars, busVars
<1>2. JobInv'
  BY DEF CallReturns, TypeInv, TypeOK, JobInv, Proceed, AttemptOf, Rows,
         States, Steps, providerVars, busVars
<1> QED BY <1>1, <1>2 DEF TypeInv

\* CallRaises keeps every variable in its type, and JobInv.
LEMMA CallRaisesTypeInv ==
    ASSUME TypeInv, NEW w \in Workers, CallRaises(w) PROVE TypeInv'
<1>1. TypeOK'
  <2>1. cur[w] \in Loans /\ AttemptOf(w) \in 0 .. MaxAttempts + 1
    BY DEF CallRaises, TypeInv, TypeOK, JobInv, AttemptOf, Rows
  <2>2. draft' \in [Loans -> Rows]
    <3>1. draft[cur[w]] \in Rows
      BY <2>1 DEF TypeInv, TypeOK
    <3>2. NotInitiated(draft[cur[w]], AttemptOf(w)) \in Rows
      BY <2>1, <3>1 DEF NotInitiated, Rows, States
    <3> QED
      BY <2>1, <3>2 DEF CallRaises, TypeInv, TypeOK
  <2>3. /\ pc' \in [Workers -> Steps \cup {"idle"}]
        /\ cur' \in [Workers -> Loans \cup {NoLoan}]
        /\ todo' \in [Workers -> SUBSET Loans]
    BY ProceedType DEF CallRaises, TypeInv
  <2> QED
    BY <2>2, <2>3
    DEF CallRaises, Proceed, TypeInv, TypeOK, providerVars, busVars
<1>2. JobInv'
  BY DEF CallRaises, TypeInv, TypeOK, JobInv, Proceed, AttemptOf, Rows,
         States, Steps, providerVars, busVars
<1> QED BY <1>1, <1>2 DEF TypeInv

\* Webhook keeps every variable in its type, and JobInv.
LEMMA WebhookTypeInv ==
    ASSUME TypeInv, NEW w \in Workers, NEW h \in hooks, Webhook(w, h)
    PROVE  TypeInv'
<1>1. TypeOK'
  <2>1. h \in Hooks /\ h.loan \in Loans /\ row[h.loan] \in Rows
    BY DEF TypeInv, TypeOK, Hooks
  <2>2. /\ pc' \in [Workers -> Steps \cup {"idle"}]
        /\ job' \in [Workers -> Jobs \cup {"none"}]
        /\ cur' \in [Workers -> Loans \cup {NoLoan}]
    BY <2>1 DEF Webhook, Start, TypeInv, TypeOK, Steps, Jobs
  <2>3. snap' \in [Workers -> [Loans -> Rows]]
    <3>1. CASE UNCHANGED snap
      BY <3>1 DEF TypeInv, TypeOK
    <3>2. CASE snap' = [snap EXCEPT ![w][h.loan] = row[h.loan]]
      BY <2>1, <3>2 DEF TypeInv, TypeOK
    <3> QED BY <3>1, <3>2 DEF Webhook
  <2>4. hook' \in [Workers -> Hooks \cup {NoHook}]
    BY <2>1 DEF Webhook, TypeInv, TypeOK
  <2> QED
    BY <2>2, <2>3, <2>4
    DEF Webhook, TypeInv, TypeOK, dbVars, providerVars, busVars
<1>2. JobInv'
  BY DEF Webhook, TypeInv, TypeOK, JobInv, Start, dbVars, providerVars,
         busVars, Steps, Jobs, Hooks
<1> QED BY <1>1, <1>2 DEF TypeInv

\* EmitDisbursed keeps every variable in its type, and JobInv.
LEMMA EmitDisbursedTypeInv ==
    ASSUME TypeInv, NEW w \in Workers, EmitDisbursed(w) PROVE TypeInv'
<1>1. TypeOK'
  <2>1. emitted' \in [Loans -> 0 .. EmitCap]
    <3>1. cur[w] \in Loans /\ emitted[cur[w]] \in 0 .. EmitCap
      BY DEF EmitDisbursed, TypeInv, TypeOK, JobInv
    <3> QED BY <3>1 DEF EmitDisbursed, TypeInv, TypeOK
  <2>2. pc' \in [Workers -> Steps \cup {"idle"}]
    BY DEF EmitDisbursed, Goto, TypeInv, TypeOK, Steps
  <2> QED
    BY <2>1, <2>2
    DEF EmitDisbursed, Goto, TypeInv, TypeOK, dbVars, providerVars
<1>2. JobInv'
  BY DEF EmitDisbursed, TypeInv, TypeOK, JobInv, Goto, dbVars, providerVars,
         busVars, Steps
<1> QED BY <1>1, <1>2 DEF TypeInv

\* WriteWebhook keeps every variable in its type, and JobInv.
LEMMA WriteWebhookTypeInv ==
    ASSUME TypeInv, NEW w \in Workers, WriteWebhook(w) PROVE TypeInv'
<1>1. TypeOK'
  <2>1. /\ cur[w] \in Loans
        /\ row[cur[w]] \in Rows
        /\ hook[w].status \in {"success", "failed", "reversed"}
    BY DEF WriteWebhook, TypeInv, TypeOK, JobInv, Hooks
  <2>2. row' \in [Loans -> Rows]
    BY ZenonT(60), <2>1 DEF WriteWebhook, TypeInv, TypeOK, Rows, States
  <2>3. pc' \in [Workers -> Steps \cup {"idle"}]
    BY DEF WriteWebhook, Goto, TypeInv, TypeOK, Steps
  <2> QED
    BY <2>2, <2>3
    DEF WriteWebhook, Goto, TypeInv, TypeOK, providerVars, busVars
<1>2. JobInv'
  BY DEF WriteWebhook, TypeInv, TypeOK, JobInv, Goto, dbVars, providerVars,
         busVars, Steps
<1> QED BY <1>1, <1>2 DEF TypeInv

\* Settle keeps every variable in its type, and JobInv.
LEMMA SettleTypeInv ==
    ASSUME TypeInv, NEW l \in Loans, NEW a \in Attempts, Settle(l, a)
    PROVE  TypeInv'
<1>1. TypeOK'
  BY DEF Settle, TypeInv, TypeOK, dbVars, busVars, workerVars, TransferStates,
         Hooks
<1>2. JobInv'
  BY DEF Settle, TypeInv, TypeOK, JobInv, dbVars, busVars, workerVars
<1> QED BY <1>1, <1>2 DEF TypeInv

\* Reverse keeps every variable in its type, and JobInv.
LEMMA ReverseTypeInv ==
    ASSUME TypeInv, NEW l \in Loans, NEW a \in Attempts, Reverse(l, a)
    PROVE  TypeInv'
<1>1. TypeOK'
  BY DEF Reverse, TypeInv, TypeOK, dbVars, busVars, workerVars,
         TransferStates, Hooks
<1>2. JobInv'
  BY DEF Reverse, TypeInv, TypeOK, JobInv, dbVars, busVars, workerVars
<1> QED BY <1>1, <1>2 DEF TypeInv

-----------------------------------------------------------------------------
(* Type correctness, by the inductive invariant TypeInv: without JobInv an *)
(* attempt counter could leave its range.                                  *)

\* Every step, or stuttering step, preserves the invariant.
LEMMA NextTypeInv == TypeInv /\ [Next]_vars => TypeInv'
<1> SUFFICES ASSUME TypeInv, [Next]_vars PROVE TypeInv'
  OBVIOUS
<1>1. ASSUME NEW w \in Workers, Insert(w) PROVE TypeInv'
  BY <1>1, InsertTypeInv
<1>2. ASSUME NEW w \in Workers, Reset(w) PROVE TypeInv'
  BY <1>2, ResetTypeInv
<1>3. ASSUME NEW w \in Workers, DeadlockAbort(w) PROVE TypeInv'
  BY <1>3, DeadlockAbortTypeInv
<1>4. ASSUME NEW w \in Workers, CallReturns(w) PROVE TypeInv'
  BY <1>4, CallReturnsTypeInv
<1>5. ASSUME NEW w \in Workers, CallRaises(w) PROVE TypeInv'
  BY <1>5, CallRaisesTypeInv
<1>6. ASSUME NEW w \in Workers, EmitDisbursed(w) PROVE TypeInv'
  BY <1>6, EmitDisbursedTypeInv
<1>7. ASSUME NEW w \in Workers, WriteWebhook(w) PROVE TypeInv'
  BY <1>7, WriteWebhookTypeInv
<1>8. ASSUME NEW w \in Workers, Commit(w) PROVE TypeInv'
  BY <1>8, CommitTypeInv
<1>9. ASSUME NEW w \in Workers, SweepDiscarded(w) PROVE TypeInv'
  BY <1>9, SweepDiscardedTypeInv
<1>10. ASSUME NEW w \in Workers, Ack(w) PROVE TypeInv'
  BY <1>10, AckTypeInv
<1>11. ASSUME NEW w \in Workers, Accept(w) PROVE TypeInv'
  BY <1>11, AcceptTypeInv
<1>12. ASSUME NEW w \in Workers, Crash(w) PROVE TypeInv'
  BY <1>12, CrashTypeInv
<1>13. ASSUME NEW w \in Workers, Sweep(w) PROVE TypeInv'
  BY <1>13, SweepTypeInv
<1>14. ASSUME NEW w \in Workers, NEW l \in Loans, HttpInitiate(w, l)
      PROVE  TypeInv'
  BY <1>14, HttpInitiateTypeInv
<1>15. ASSUME NEW w \in Workers, NEW l \in Loans, Consume(w, l) PROVE TypeInv'
  BY <1>15, ConsumeTypeInv
<1>16. ASSUME NEW w \in Workers, NEW l \in Loans, Retry(w, l) PROVE TypeInv'
  BY <1>16, RetryTypeInv
<1>17. ASSUME NEW w \in Workers, NEW h \in hooks, Webhook(w, h) PROVE TypeInv'
  BY <1>17, WebhookTypeInv
<1>18. ASSUME NEW l \in Loans, NEW a \in Attempts, Settle(l, a) PROVE TypeInv'
  BY <1>18, SettleTypeInv
<1>19. ASSUME NEW l \in Loans, NEW a \in Attempts, Reverse(l, a) PROVE TypeInv'
  BY <1>19, ReverseTypeInv
<1>20. ASSUME NEW w \in Workers, InitiateRaises(w) PROVE TypeInv'
  BY <1>20, InitiateRaisesTypeInv
<1>s. CASE UNCHANGED vars
  BY <1>s
  DEF TypeInv, TypeOK, JobInv, vars, dbVars, providerVars, busVars, workerVars
<1> QED
  BY <1>1, <1>2, <1>3, <1>4, <1>5, <1>6, <1>7, <1>8, <1>9, <1>10,
     <1>11, <1>12, <1>13, <1>14, <1>15, <1>16, <1>17, <1>18, <1>19,
     <1>20, <1>s
  DEF Next, JobStep

(* Every variable keeps its type, whatever the interleaving and faults.    *)
THEOREM TypeCorrect == Spec => []TypeInv
<1>1. TypeInv /\ [Next]_vars => TypeInv'
  BY NextTypeInv
<1> QED BY <1>1, InitTypeInv, PTL DEF Spec

(* The type invariant the runs check.                                      *)
THEOREM TypeOKHolds == Spec => []TypeOK
<1>1. TypeInv => TypeOK
  BY DEF TypeInv
<1> QED BY <1>1, TypeCorrect, PTL

-----------------------------------------------------------------------------
(* The inductive invariants of the safety theorems.                        *)

(* A session inside the provider call holds the row it calls for, and a    *)
(* held row has a draft that is neither absent nor COMPLETED: a session    *)
(* that locks a row for longer than one step never completes it.           *)
LockInv ==
    /\ \A w \in Workers : pc[w] = "call" => lock[cur[w]] = w
    /\ \A l \in Loans :
         lock[l] # Nobody =>
           draft[l].state \in {"PENDING", "RECIPIENT_READY",
                               "TRANSFER_INITIATED", "FAILED"}

(* A success webhook, in flight or being handled, tells the truth.         *)
PaidInv ==
    /\ \A h \in hooks :
         h.status = "success" =>
           transfer[h.loan][h.attempt] \in {"success", "reversed"}
    /\ \A w \in Workers :
         pc[w] \in {"emit", "write"} =>
           /\ hook[w].loan = cur[w]
           /\ pc[w] = "emit" => hook[w].status = "success"
           /\ hook[w].status = "success" =>
                transfer[cur[w]][hook[w].attempt] \in {"success", "reversed"}
    /\ DisbursedOnlyIfPaid

(* A consumer that reached its commit has a row to acknowledge.            *)
AckInv ==
    /\ \A w \in Workers :
         job[w] = "consume" =>
           /\ pc[w] \in {"insert", "call", "commit", "ack"}
           /\ todo[w] = {}
           /\ pc[w] = "commit" => row[cur[w]] # NoRow \/ lock[cur[w]] = w
           /\ pc[w] = "ack" => row[cur[w]] # NoRow
    /\ AckedHasRow

(* A success webhook is past its emission when it writes the row.          *)
AnnounceInv ==
    /\ \A w \in Workers :
         pc[w] = "write" /\ hook[w].status = "success" => emitted[cur[w]] > 0
    /\ CompletedIsAnnounced

-----------------------------------------------------------------------------
(* The steps preserve them.                                                *)

\* Every step, or stuttering step, preserves the invariant.
LEMMA NextLockInv ==
    ASSUME TypeInv, LockInv, [Next]_vars PROVE LockInv'
<1>1. ASSUME NEW w \in Workers, Insert(w) PROVE LockInv'
  <2>1. CASE Lock(w, cur[w], FirstRow) /\ Goto(w, "call")
    BY <1>1, <2>1 DEF Insert, Lock, Goto, LockInv, NoRow, FirstRow, TypeInv,
      TypeOK, JobInv
  <2>2. CASE End(w) /\ UNCHANGED dbVars
    BY <1>1, <2>2 DEF End, LockInv, TypeInv, TypeOK, dbVars
  <2> QED BY <1>1, <2>1, <2>2 DEF Insert
<1>2. ASSUME NEW w \in Workers, Reset(w) PROVE LockInv'
  BY <1>2 DEF Reset, Lock, Goto, LockInv, NoRow, FirstRow, TypeInv, TypeOK,
      JobInv, dbVars, providerVars, busVars, workerVars
<1>3. ASSUME NEW w \in Workers, DeadlockAbort(w) PROVE LockInv'
  BY <1>3 DEF DeadlockAbort, Rollback, Release, End, Waits, LockInv, NoRow,
      FirstRow, TypeInv, TypeOK, JobInv, dbVars, providerVars,
      busVars, workerVars
<1>4. ASSUME NEW w \in Workers, CallReturns(w) PROVE LockInv'
  <2>1. /\ cur[w] \in Loans /\ draft[cur[w]] \in Rows
        /\ pc \in [Workers -> Steps \cup {"idle"}]
        /\ draft \in [Loans -> Rows]
        /\ cur \in [Workers -> Loans \cup {NoLoan}]
    BY <1>4 DEF CallReturns, TypeInv, TypeOK, JobInv
  <2>2. Initiated(draft[cur[w]], AttemptOf(w)).state = "TRANSFER_INITIATED"
    BY <2>1 DEF Initiated, Rows
  <2>3. \A l \in Loans : draft'[l].state = draft[l].state \/ draft'[l].state = "TRANSFER_INITIATED"
    BY <1>4, <2>1, <2>2 DEF CallReturns
  <2>4. \A v \in Workers : pc'[v] = "call" => pc[v] = "call" /\ cur'[v] = cur[v]
    BY <1>4, <2>1 DEF CallReturns, Proceed, TypeInv, TypeOK
  <2> QED BY <1>4, <2>3, <2>4 DEF CallReturns, LockInv
<1>5. ASSUME NEW w \in Workers, CallRaises(w) PROVE LockInv'
  <2>1. /\ cur[w] \in Loans /\ draft[cur[w]] \in Rows
        /\ draft \in [Loans -> Rows]
    BY <1>5 DEF CallRaises, TypeInv, TypeOK, JobInv
  <2>2. NotInitiated(draft[cur[w]], AttemptOf(w)).state = "FAILED"
    BY <2>1 DEF NotInitiated, Rows
  <2>3. \A l \in Loans : draft'[l].state = draft[l].state \/ draft'[l].state = "FAILED"
    BY <1>5, <2>1, <2>2 DEF CallRaises
  <2>4. \A v \in Workers : pc'[v] = "call" => pc[v] = "call" /\ cur'[v] = cur[v]
    BY <1>5 DEF CallRaises, Proceed, TypeInv, TypeOK
  <2> QED BY <1>5, <2>3, <2>4 DEF CallRaises, LockInv
<1>6. ASSUME NEW w \in Workers, EmitDisbursed(w) PROVE LockInv'
  BY <1>6 DEF EmitDisbursed, Goto, LockInv, NoRow, FirstRow, TypeInv, TypeOK,
      JobInv, dbVars, providerVars, busVars, workerVars
<1>7. ASSUME NEW w \in Workers, WriteWebhook(w) PROVE LockInv'
  BY <1>7 DEF WriteWebhook, Goto, LockInv, NoRow, FirstRow, TypeInv, TypeOK,
      JobInv, dbVars, providerVars, busVars, workerVars
<1>8. ASSUME NEW w \in Workers, Commit(w) PROVE LockInv'
  BY <1>8 DEF Commit, Release, Goto, End, LockInv, NoRow, FirstRow, TypeInv,
      TypeOK, JobInv, dbVars, providerVars, busVars, workerVars
<1>9. ASSUME NEW w \in Workers, SweepDiscarded(w) PROVE LockInv'
  BY <1>9 DEF SweepDiscarded, Rollback, Release, End, LockInv, NoRow,
      FirstRow, TypeInv, TypeOK, JobInv, dbVars, providerVars,
      busVars, workerVars
<1>10. ASSUME NEW w \in Workers, Ack(w) PROVE LockInv'
  BY <1>10 DEF Ack, End, LockInv, NoRow, FirstRow, TypeInv, TypeOK, JobInv,
      dbVars, providerVars, busVars, workerVars
<1>11. ASSUME NEW w \in Workers, Accept(w) PROVE LockInv'
  BY <1>11 DEF Accept, LockInv, NoRow, FirstRow, TypeInv, TypeOK, JobInv,
      dbVars, providerVars, busVars, workerVars
<1>12. ASSUME NEW w \in Workers, Crash(w) PROVE LockInv'
  BY <1>12 DEF Crash, Rollback, Release, End, LockInv, NoRow, FirstRow,
      TypeInv, TypeOK, JobInv, dbVars, providerVars, busVars,
      workerVars
<1>13. ASSUME NEW w \in Workers, Sweep(w) PROVE LockInv'
  BY <1>13 DEF Sweep, Start, LockInv, NoRow, FirstRow, TypeInv, TypeOK, JobInv,
      dbVars, providerVars, busVars, workerVars
<1>14. ASSUME NEW w \in Workers, NEW l \in Loans, HttpInitiate(w, l)
      PROVE  LockInv'
  BY <1>14 DEF HttpInitiate, Start, LockInv, NoRow, FirstRow, TypeInv, TypeOK,
      JobInv, dbVars, providerVars, busVars, workerVars
<1>15. ASSUME NEW w \in Workers, NEW l \in Loans, Consume(w, l) PROVE LockInv'
  <2>1. CASE \E step \in {"insert", "commit"} : Start(w, "consume", l, step)
    BY <1>15, <2>1 DEF Consume, Start, LockInv, TypeInv, TypeOK, dbVars
  <2>2. CASE UNCHANGED <<pc, job, cur>>
    BY <1>15, <2>2 DEF Consume, LockInv, dbVars
  <2> QED BY <1>15, <2>1, <2>2 DEF Consume
<1>16. ASSUME NEW w \in Workers, NEW l \in Loans, Retry(w, l) PROVE LockInv'
  BY <1>16 DEF Retry, Start, LockInv, NoRow, FirstRow, TypeInv, TypeOK, JobInv,
      dbVars, providerVars, busVars, workerVars
<1>17. ASSUME NEW w \in Workers, NEW h \in hooks, Webhook(w, h) PROVE LockInv'
  <2>1. \E step \in {"emit", "write", "ack"} : Start(w, "webhook", h.loan, step)
    BY <1>17 DEF Webhook
  <2>2. UNCHANGED <<lock, draft>>
    BY <1>17 DEF Webhook, dbVars
  <2> QED
    BY <2>1, <2>2 DEF Start, LockInv, TypeInv, TypeOK
<1>18. ASSUME NEW l \in Loans, NEW a \in Attempts, Settle(l, a) PROVE LockInv'
  BY <1>18 DEF Settle, LockInv, NoRow, FirstRow, TypeInv, TypeOK, JobInv,
      dbVars, providerVars, busVars, workerVars
<1>19. ASSUME NEW l \in Loans, NEW a \in Attempts, Reverse(l, a) PROVE LockInv'
  BY <1>19 DEF Reverse, LockInv, NoRow, FirstRow, TypeInv, TypeOK, JobInv,
      dbVars, providerVars, busVars, workerVars
<1>20. ASSUME NEW w \in Workers, InitiateRaises(w) PROVE LockInv'
  BY <1>20 DEF InitiateRaises, Rollback, Release, End, LockInv, NoRow, FirstRow,
      TypeInv, TypeOK, JobInv, dbVars, providerVars, busVars,
      workerVars
<1>s. CASE UNCHANGED vars
  BY <1>s
  DEF vars, LockInv, NoRow, FirstRow, dbVars, providerVars, busVars,
      workerVars
<1> QED
  BY <1>1, <1>2, <1>3, <1>4, <1>5, <1>6, <1>7, <1>8, <1>9, <1>10,
     <1>11, <1>12, <1>13, <1>14, <1>15, <1>16, <1>17, <1>18, <1>19,
     <1>20, <1>s
  DEF Next, JobStep

\* Locks are held as LockInv says, in every reachable state.
LEMMA LockInvHolds == Spec => []LockInv
<1>1. Init => LockInv
  BY DEF Init, LockInv
<1>2. TypeInv /\ LockInv /\ [Next]_vars => LockInv'
  BY NextLockInv
<1> QED BY <1>1, <1>2, TypeCorrect, PTL DEF Spec

(* Provider calls for one loan exclude each other, since both paths flush  *)
(* their change to the row, and so lock it, before they call.              *)
THEOREM CallsExclusive == Spec => []ProviderCallsExclusive
<1>1. LockInv => ProviderCallsExclusive
  BY DEF LockInv, ProviderCallsExclusive
<1> QED BY <1>1, LockInvHolds, PTL

\* Every step, or stuttering step, preserves the invariant.
LEMMA NextAttemptLimit ==
    ASSUME TypeInv, AttemptLimit, [Next]_vars PROVE AttemptLimit'
<1>1. ASSUME NEW w \in Workers, Insert(w) PROVE AttemptLimit'
  BY <1>1 DEF Insert, Lock, Goto, End, AttemptLimit, AttemptOf, Attempts,
      Rows, TypeInv, TypeOK, JobInv, dbVars, providerVars, busVars,
      workerVars
<1>2. ASSUME NEW w \in Workers, Reset(w) PROVE AttemptLimit'
  BY <1>2 DEF Reset, Lock, Goto, AttemptLimit, AttemptOf, Attempts, Rows,
      TypeInv, TypeOK, JobInv, dbVars, providerVars, busVars,
      workerVars
<1>3. ASSUME NEW w \in Workers, DeadlockAbort(w) PROVE AttemptLimit'
  BY <1>3 DEF DeadlockAbort, Rollback, Release, End, Waits, AttemptLimit,
      AttemptOf, Attempts, Rows, TypeInv, TypeOK, JobInv, dbVars,
      providerVars, busVars, workerVars
<1>4. ASSUME NEW w \in Workers, CallReturns(w) PROVE AttemptLimit'
  BY <1>4 DEF CallReturns, Proceed, Initiated, AttemptLimit, AttemptOf,
      Attempts, Rows, TypeInv, TypeOK, JobInv, dbVars, providerVars,
      busVars, workerVars
<1>5. ASSUME NEW w \in Workers, CallRaises(w) PROVE AttemptLimit'
  BY <1>5 DEF CallRaises, Proceed, NotInitiated, AttemptLimit, AttemptOf,
      Attempts, Rows, TypeInv, TypeOK, JobInv, dbVars, providerVars,
      busVars, workerVars
<1>6. ASSUME NEW w \in Workers, EmitDisbursed(w) PROVE AttemptLimit'
  BY <1>6 DEF EmitDisbursed, Goto, AttemptLimit, AttemptOf, Attempts, Rows,
      TypeInv, TypeOK, JobInv, dbVars, providerVars, busVars,
      workerVars
<1>7. ASSUME NEW w \in Workers, WriteWebhook(w) PROVE AttemptLimit'
  BY <1>7 DEF WriteWebhook, Goto, AttemptLimit, AttemptOf, Attempts, Rows,
      TypeInv, TypeOK, JobInv, dbVars, providerVars, busVars,
      workerVars
<1>8. ASSUME NEW w \in Workers, Commit(w) PROVE AttemptLimit'
  BY <1>8 DEF Commit, Release, Goto, End, AttemptLimit, AttemptOf, Attempts,
      Rows, TypeInv, TypeOK, JobInv, dbVars, providerVars, busVars,
      workerVars
<1>9. ASSUME NEW w \in Workers, SweepDiscarded(w) PROVE AttemptLimit'
  BY <1>9 DEF SweepDiscarded, Rollback, Release, End, AttemptLimit, AttemptOf,
      Attempts, Rows, TypeInv, TypeOK, JobInv, dbVars, providerVars,
      busVars, workerVars
<1>10. ASSUME NEW w \in Workers, Ack(w) PROVE AttemptLimit'
  BY <1>10 DEF Ack, End, AttemptLimit, AttemptOf, Attempts, Rows, TypeInv,
      TypeOK, JobInv, dbVars, providerVars, busVars, workerVars
<1>11. ASSUME NEW w \in Workers, Accept(w) PROVE AttemptLimit'
  BY <1>11 DEF Accept, AttemptLimit, AttemptOf, Attempts, Rows, TypeInv,
      TypeOK, JobInv, dbVars, providerVars, busVars, workerVars
<1>12. ASSUME NEW w \in Workers, Crash(w) PROVE AttemptLimit'
  BY <1>12 DEF Crash, Rollback, Release, End, AttemptLimit, AttemptOf,
      Attempts, Rows, TypeInv, TypeOK, JobInv, dbVars, providerVars,
      busVars, workerVars
<1>13. ASSUME NEW w \in Workers, Sweep(w) PROVE AttemptLimit'
  BY <1>13 DEF Sweep, Start, AttemptLimit, AttemptOf, Attempts, Rows, TypeInv,
      TypeOK, JobInv, dbVars, providerVars, busVars, workerVars
<1>14. ASSUME NEW w \in Workers, NEW l \in Loans, HttpInitiate(w, l)
      PROVE  AttemptLimit'
  BY <1>14 DEF HttpInitiate, Start, AttemptLimit, AttemptOf, Attempts, Rows,
      TypeInv, TypeOK, JobInv, dbVars, providerVars, busVars,
      workerVars
<1>15. ASSUME NEW w \in Workers, NEW l \in Loans, Consume(w, l)
      PROVE  AttemptLimit'
  BY <1>15 DEF Consume, Start, AttemptLimit, AttemptOf, Attempts, Rows,
      TypeInv, TypeOK, JobInv, dbVars, providerVars, busVars,
      workerVars
<1>16. ASSUME NEW w \in Workers, NEW l \in Loans, Retry(w, l)
      PROVE  AttemptLimit'
  BY <1>16 DEF Retry, Start, AttemptLimit, AttemptOf, Attempts, Rows, TypeInv,
      TypeOK, JobInv, dbVars, providerVars, busVars, workerVars
<1>17. ASSUME NEW w \in Workers, NEW h \in hooks, Webhook(w, h)
      PROVE  AttemptLimit'
  BY <1>17 DEF Webhook, Start, AttemptLimit, AttemptOf, Attempts, Rows,
      TypeInv, TypeOK, JobInv, dbVars, providerVars, busVars,
      workerVars
<1>18. ASSUME NEW l \in Loans, NEW a \in Attempts, Settle(l, a)
      PROVE  AttemptLimit'
  BY <1>18 DEF Settle, AttemptLimit, AttemptOf, Attempts, Rows, TypeInv,
      TypeOK, JobInv, dbVars, providerVars, busVars, workerVars
<1>19. ASSUME NEW l \in Loans, NEW a \in Attempts, Reverse(l, a)
      PROVE  AttemptLimit'
  BY <1>19 DEF Reverse, AttemptLimit, AttemptOf, Attempts, Rows, TypeInv,
      TypeOK, JobInv, dbVars, providerVars, busVars, workerVars
<1>20. ASSUME NEW w \in Workers, InitiateRaises(w) PROVE AttemptLimit'
  BY <1>20 DEF InitiateRaises, Rollback, Release, End, AttemptLimit, AttemptOf,
      Attempts, Rows, TypeInv, TypeOK, JobInv, dbVars, providerVars,
      busVars, workerVars
<1>s. CASE UNCHANGED vars
  BY <1>s
  DEF vars, AttemptLimit, AttemptOf, Attempts, Rows, dbVars, providerVars,
      busVars, workerVars
<1> QED
  BY <1>1, <1>2, <1>3, <1>4, <1>5, <1>6, <1>7, <1>8, <1>9, <1>10,
     <1>11, <1>12, <1>13, <1>14, <1>15, <1>16, <1>17, <1>18, <1>19,
     <1>20, <1>s
  DEF Next, JobStep

(* No reference beyond MAX_ATTEMPTS is ever sent for a loan, whatever      *)
(* stale snapshots the retries decide on.                                  *)
THEOREM AttemptsLimited == Spec => []AttemptLimit
<1>1. Init => AttemptLimit
  BY DEF Init, AttemptLimit, Attempts
<1>2. TypeInv /\ AttemptLimit /\ [Next]_vars => AttemptLimit'
  BY NextAttemptLimit
<1> QED BY <1>1, <1>2, TypeCorrect, PTL DEF Spec

(* What a step must leave alone for PaidInv to survive it.                 *)
LEMMA PaidFrame ==
    ASSUME TypeInv, PaidInv,
           \A l \in Loans, a \in Attempts :
             transfer[l][a] \in {"success", "reversed"} =>
               transfer'[l][a] \in {"success", "reversed"},
           \A h \in hooks' :
             \/ h \in hooks
             \/ h.status = "success" =>
                  transfer'[h.loan][h.attempt] \in {"success", "reversed"},
           emitted' = emitted,
           \A l \in Loans :
             row'[l].state = "COMPLETED" => row[l].state = "COMPLETED",
           \A v \in Workers :
             pc'[v] \in {"emit", "write"} =>
               pc'[v] = pc[v] /\ hook'[v] = hook[v] /\ cur'[v] = cur[v]
    PROVE  PaidInv'
<1>1. \A l \in Loans : Paid(l) => Paid(l)'
  BY DEF Paid
<1>2. DisbursedOnlyIfPaid'
  BY <1>1 DEF PaidInv, DisbursedOnlyIfPaid
<1>3. \A h \in hooks' :
        h.status = "success" =>
          transfer'[h.loan][h.attempt] \in {"success", "reversed"}
  BY DEF PaidInv, TypeInv, TypeOK, Hooks
<1>4. \A v \in Workers :
        pc'[v] \in {"emit", "write"} =>
          /\ hook'[v].loan = cur'[v]
          /\ pc'[v] = "emit" => hook'[v].status = "success"
          /\ hook'[v].status = "success" =>
               transfer'[cur'[v]][hook'[v].attempt] \in {"success", "reversed"}
  BY DEF PaidInv, TypeInv, JobInv, Hooks
<1> QED BY <1>2, <1>3, <1>4 DEF PaidInv

\* Every step, or stuttering step, preserves the invariant.
LEMMA NextPaidInv ==
    ASSUME TypeInv, LockInv, PaidInv, [Next]_vars PROVE PaidInv'
<1>1. ASSUME NEW w \in Workers, Insert(w) PROVE PaidInv'
  <2>1. UNCHANGED <<transfer, emitted>> /\ hooks' \subseteq hooks
    BY <1>1 DEF Insert, providerVars, busVars
  <2>2. \A l \in Loans : row'[l].state = "COMPLETED" => row[l].state = "COMPLETED"
    BY <1>1 DEF Insert, Lock, Goto, End, TypeInv, TypeOK, dbVars
  <2>3. \A v \in Workers :
          pc'[v] \in {"emit", "write"} =>
            pc'[v] = pc[v] /\ hook'[v] = hook[v] /\ cur'[v] = cur[v]
    BY <1>1 DEF Insert, Lock, Goto, End, TypeInv, TypeOK, JobInv
  <2> QED BY <2>1, <2>2, <2>3, PaidFrame
<1>2. ASSUME NEW w \in Workers, Reset(w) PROVE PaidInv'
  BY <1>2 DEF Reset, Lock, Goto, PaidInv, LockInv, DisbursedOnlyIfPaid, Paid,
      Hooks, Rows, TypeInv, TypeOK, JobInv, dbVars, providerVars,
      busVars, workerVars
<1>3. ASSUME NEW w \in Workers, DeadlockAbort(w) PROVE PaidInv'
  BY <1>3 DEF DeadlockAbort, Rollback, Release, End, Waits, PaidInv, LockInv,
      DisbursedOnlyIfPaid, Paid, Hooks, Rows, TypeInv, TypeOK, JobInv,
      dbVars, providerVars, busVars, workerVars
<1>4. ASSUME NEW w \in Workers, CallReturns(w) PROVE PaidInv'
  BY <1>4 DEF CallReturns, Proceed, Initiated, PaidInv, LockInv,
      DisbursedOnlyIfPaid, Paid, Hooks, Rows, TypeInv, TypeOK, JobInv,
      dbVars, providerVars, busVars, workerVars
<1>5. ASSUME NEW w \in Workers, CallRaises(w) PROVE PaidInv'
  <2>1. UNCHANGED <<transfer, emitted>> /\ hooks' \subseteq hooks
    BY <1>5 DEF CallRaises, providerVars, busVars
  <2>2. \A l \in Loans : row'[l].state = "COMPLETED" => row[l].state = "COMPLETED"
    BY <1>5 DEF CallRaises, Proceed, TypeInv, TypeOK, dbVars
  <2>3. \A v \in Workers :
          pc'[v] \in {"emit", "write"} =>
            pc'[v] = pc[v] /\ hook'[v] = hook[v] /\ cur'[v] = cur[v]
    BY <1>5 DEF CallRaises, Proceed, TypeInv, TypeOK, JobInv
  <2> QED BY <2>1, <2>2, <2>3, PaidFrame
<1>6. ASSUME NEW w \in Workers, EmitDisbursed(w) PROVE PaidInv'
  <2>1. /\ cur[w] \in Loans
        /\ hook[w] \in Hooks
        /\ transfer[cur[w]][hook[w].attempt] \in {"success", "reversed"}
    BY <1>6 DEF EmitDisbursed, TypeInv, JobInv, PaidInv
  <2>2. Paid(cur[w])
    BY <2>1 DEF Paid, Hooks
  <2>3. \A l \in Loans : emitted'[l] > 0 => emitted[l] > 0 \/ l = cur[w]
    BY <1>6, <2>1 DEF EmitDisbursed, TypeInv, TypeOK
  <2>4. UNCHANGED <<row, transfer, hooks, cur, hook>>
    BY <1>6 DEF EmitDisbursed, Goto, dbVars, providerVars
  <2>5. DisbursedOnlyIfPaid'
    BY <2>2, <2>3, <2>4 DEF PaidInv, DisbursedOnlyIfPaid, Paid
  <2>6. \A v \in Workers : pc'[v] = pc[v] \/ (v = w /\ pc'[v] = "write" /\ pc[v] = "emit")
    BY <1>6 DEF EmitDisbursed, Goto, TypeInv, TypeOK
  <2> QED BY <2>4, <2>5, <2>6 DEF PaidInv
<1>7. ASSUME NEW w \in Workers, WriteWebhook(w) PROVE PaidInv'
  <2>1. /\ cur[w] \in Loans
        /\ hook[w] \in Hooks
        /\ hook[w].status = "success" => Paid(cur[w])
    BY <1>7 DEF WriteWebhook, TypeInv, JobInv, PaidInv, Paid, Hooks
  <2>2. UNCHANGED <<transfer, hooks, emitted, cur, hook>>
    BY <1>7 DEF WriteWebhook, Goto, providerVars, busVars
  <2>3. \A l \in Loans :
          row'[l].state = "COMPLETED" =>
            row[l].state = "COMPLETED" \/ Paid(l)
    BY <1>7, <2>1 DEF WriteWebhook, TypeInv, TypeOK, Rows, Hooks
  <2>4. DisbursedOnlyIfPaid'
    BY <2>2, <2>3 DEF PaidInv, DisbursedOnlyIfPaid, Paid
  <2>5. \A v \in Workers : pc'[v] = pc[v] \/ pc'[v] = "ack"
    BY <1>7 DEF WriteWebhook, Goto, TypeInv, TypeOK
  <2> QED BY <2>2, <2>4, <2>5 DEF PaidInv
<1>8. ASSUME NEW w \in Workers, Commit(w) PROVE PaidInv'
  <2>1. UNCHANGED <<transfer, emitted>> /\ hooks' \subseteq hooks
    BY <1>8 DEF Commit, providerVars, busVars
  <2>2. \A l \in Loans : row'[l].state = "COMPLETED" => row[l].state = "COMPLETED"
    BY <1>8 DEF Commit, Release, Goto, End, LockInv, TypeInv, TypeOK, dbVars
  <2>3. \A v \in Workers :
          pc'[v] \in {"emit", "write"} =>
            pc'[v] = pc[v] /\ hook'[v] = hook[v] /\ cur'[v] = cur[v]
    BY <1>8 DEF Commit, Release, Goto, End, LockInv, TypeInv, TypeOK, JobInv
  <2> QED BY <2>1, <2>2, <2>3, PaidFrame
<1>9. ASSUME NEW w \in Workers, SweepDiscarded(w) PROVE PaidInv'
  BY <1>9 DEF SweepDiscarded, Rollback, Release, End, PaidInv, LockInv,
      DisbursedOnlyIfPaid, Paid, Hooks, Rows, TypeInv, TypeOK, JobInv,
      dbVars, providerVars, busVars, workerVars
<1>10. ASSUME NEW w \in Workers, Ack(w) PROVE PaidInv'
  BY <1>10 DEF Ack, End, PaidInv, LockInv, DisbursedOnlyIfPaid, Paid, Hooks,
      Rows, TypeInv, TypeOK, JobInv, dbVars, providerVars, busVars,
      workerVars
<1>11. ASSUME NEW w \in Workers, Accept(w) PROVE PaidInv'
  <2>1. \A l \in Loans, a \in Attempts :
          transfer[l][a] \in {"success", "reversed"} => transfer'[l][a] = transfer[l][a]
    BY <1>11 DEF Accept, TypeInv, TypeOK
  <2> QED
    BY <1>11, <2>1, PaidFrame DEF Accept, dbVars, busVars, workerVars
<1>12. ASSUME NEW w \in Workers, Crash(w) PROVE PaidInv'
  BY <1>12 DEF Crash, Rollback, Release, End, PaidInv, LockInv,
      DisbursedOnlyIfPaid, Paid, Hooks, Rows, TypeInv, TypeOK, JobInv,
      dbVars, providerVars, busVars, workerVars
<1>13. ASSUME NEW w \in Workers, Sweep(w) PROVE PaidInv'
  BY <1>13 DEF Sweep, Start, PaidInv, LockInv, DisbursedOnlyIfPaid, Paid,
      Hooks, Rows, TypeInv, TypeOK, JobInv, dbVars, providerVars,
      busVars, workerVars
<1>14. ASSUME NEW w \in Workers, NEW l \in Loans, HttpInitiate(w, l)
      PROVE  PaidInv'
  BY <1>14 DEF HttpInitiate, Start, PaidInv, LockInv, DisbursedOnlyIfPaid,
      Paid, Hooks, Rows, TypeInv, TypeOK, JobInv, dbVars,
      providerVars, busVars, workerVars
<1>15. ASSUME NEW w \in Workers, NEW l \in Loans, Consume(w, l) PROVE PaidInv'
  <2>1. UNCHANGED <<transfer, emitted>> /\ hooks' \subseteq hooks
    BY <1>15 DEF Consume, providerVars, busVars
  <2>2. \A m \in Loans : row'[m].state = "COMPLETED" => row[m].state = "COMPLETED"
    BY <1>15 DEF Consume, Start, TypeInv, TypeOK, dbVars
  <2>3. \A v \in Workers :
          pc'[v] \in {"emit", "write"} =>
            pc'[v] = pc[v] /\ hook'[v] = hook[v] /\ cur'[v] = cur[v]
    BY <1>15 DEF Consume, Start, TypeInv, TypeOK, JobInv
  <2> QED BY <2>1, <2>2, <2>3, PaidFrame
<1>16. ASSUME NEW w \in Workers, NEW l \in Loans, Retry(w, l) PROVE PaidInv'
  BY <1>16 DEF Retry, Start, PaidInv, LockInv, DisbursedOnlyIfPaid, Paid,
      Hooks, Rows, TypeInv, TypeOK, JobInv, dbVars, providerVars,
      busVars, workerVars
<1>17. ASSUME NEW w \in Workers, NEW h \in hooks, Webhook(w, h) PROVE PaidInv'
  BY <1>17 DEF Webhook, Start, PaidInv, LockInv, DisbursedOnlyIfPaid, Paid,
      Hooks, Rows, TypeInv, TypeOK, JobInv, dbVars, providerVars,
      busVars, workerVars
<1>18. ASSUME NEW l \in Loans, NEW a \in Attempts, Settle(l, a) PROVE PaidInv'
  <2>1. \A m \in Loans, b \in Attempts :
          transfer[m][b] \in {"success", "reversed"} =>
            transfer'[m][b] \in {"success", "reversed"}
    BY <1>18 DEF Settle, TypeInv, TypeOK
  <2>2. \A h \in hooks' :
          \/ h \in hooks
          \/ h.status = "success" =>
               transfer'[h.loan][h.attempt] \in {"success", "reversed"}
    BY <1>18 DEF Settle, TypeInv, TypeOK
  <2> QED
    BY <1>18, <2>1, <2>2, PaidFrame DEF Settle, dbVars, busVars, workerVars
<1>19. ASSUME NEW l \in Loans, NEW a \in Attempts, Reverse(l, a) PROVE PaidInv'
  <2>1. \A m \in Loans, b \in Attempts :
          transfer[m][b] \in {"success", "reversed"} =>
            transfer'[m][b] \in {"success", "reversed"}
    BY <1>19 DEF Reverse, TypeInv, TypeOK
  <2>2. \A h \in hooks' :
          \/ h \in hooks
          \/ h.status = "success" =>
               transfer'[h.loan][h.attempt] \in {"success", "reversed"}
    BY <1>19 DEF Reverse, TypeInv, TypeOK
  <2> QED
    BY <1>19, <2>1, <2>2, PaidFrame DEF Reverse, dbVars, busVars, workerVars
<1>20. ASSUME NEW w \in Workers, InitiateRaises(w) PROVE PaidInv'
  BY <1>20 DEF InitiateRaises, Rollback, Release, End, PaidInv, LockInv,
      DisbursedOnlyIfPaid, Paid, Hooks, Rows, TypeInv, TypeOK, JobInv,
      dbVars, providerVars, busVars, workerVars
<1>s. CASE UNCHANGED vars
  BY <1>s
  DEF vars, PaidInv, LockInv, DisbursedOnlyIfPaid, Paid, Hooks, Rows, dbVars,
      providerVars, busVars, workerVars
<1> QED
  BY <1>1, <1>2, <1>3, <1>4, <1>5, <1>6, <1>7, <1>8, <1>9, <1>10,
     <1>11, <1>12, <1>13, <1>14, <1>15, <1>16, <1>17, <1>18, <1>19,
     <1>20, <1>s
  DEF Next, JobStep

\* Webhooks tell the truth and only they complete a row.
LEMMA PaidInvHolds == Spec => []PaidInv
<1>1. Init => PaidInv
  <2> SUFFICES ASSUME Init PROVE PaidInv
    OBVIOUS
  <2>1. \A l \in Loans : row[l].state # "COMPLETED"
    BY InitRow DEF NoRow
  <2>2. /\ hooks = {} /\ \A l \in Loans : emitted[l] = 0
        /\ \A w \in Workers : pc[w] = "idle"
    BY DEF Init
  <2> QED BY <2>1, <2>2 DEF PaidInv, DisbursedOnlyIfPaid
<1>2. TypeInv /\ LockInv /\ PaidInv /\ [Next]_vars => PaidInv'
  BY NextPaidInv
<1> QED BY <1>1, <1>2, TypeCorrect, LockInvHolds, PTL DEF Spec

(* A loan is recorded as COMPLETED or announced as disbursed only if the   *)
(* provider paid one of its transfers.                                     *)
THEOREM DisbursedImpliesPaid == Spec => []DisbursedOnlyIfPaid
<1>1. PaidInv => DisbursedOnlyIfPaid
  BY DEF PaidInv
<1> QED BY <1>1, PaidInvHolds, PTL

-----------------------------------------------------------------------------
(* Rows and acknowledgements.                                              *)

\* A webhook that writes a row leaves it a row.
LEMMA WriteWebhookRow ==
    ASSUME TypeInv, NEW w \in Workers, WriteWebhook(w),
           NEW l \in Loans, row[l] # NoRow
    PROVE  row'[l] # NoRow
<1> DEFINE r == row[cur[w]]
           s == snap[w][cur[w]]
<1>1. /\ cur[w] \in Loans /\ r \in Rows
      /\ hook[w].status \in {"success", "failed", "reversed"}
  BY DEF WriteWebhook, TypeInv, TypeOK, JobInv, Hooks
<1>2. CASE l # cur[w]
  BY <1>2, <1>1 DEF WriteWebhook, TypeInv, TypeOK
<1>3. CASE l = cur[w]
  <2>1. PICK t \in {"COMPLETED", "FAILED", "REVERSED"}, b \in BOOLEAN :
          row'[l] = [r EXCEPT !.state = IF s.state = t THEN @ ELSE t,
                              !.retry = @ \/ b]
    BY <1>1, <1>3 DEF WriteWebhook, TypeInv, TypeOK, RetryEligible
  <2>2. CASE row'[l].state # "ABSENT"
    BY <2>2 DEF NoRow
  <2>3. CASE row'[l].state = "ABSENT"
    <3>1. r.state = "ABSENT" /\ row'[l] = [r EXCEPT !.retry = @ \/ b]
      BY ZenonT(60), <1>1, <2>1, <2>3 DEF Rows
    <3>2. CASE b
      <4>1. row'[l].retry = TRUE
        BY <1>1, <3>1, <3>2 DEF Rows
      <4>2. NoRow.retry = FALSE
        BY DEF NoRow
      <4> QED BY <4>1, <4>2
    <3>3. CASE ~b
      BY <1>1, <1>3, <3>1, <3>3 DEF NoRow, Rows
    <3> QED BY <3>2, <3>3
  <2> QED BY <2>2, <2>3
<1> QED BY <1>2, <1>3

(* A committed row is never deleted: no code path deletes one.             *)
RowsStay == \A l \in Loans : row[l] # NoRow => row'[l] # NoRow

\* Every step, or stuttering step, preserves the invariant.
LEMMA NextRowsStay ==
    ASSUME TypeInv, LockInv, [Next]_vars PROVE RowsStay
<1>1. ASSUME NEW w \in Workers, Insert(w) PROVE RowsStay
  BY <1>1 DEF Insert, Lock, Goto, End, RowsStay, LockInv, NoRow, TypeInv,
      TypeOK, JobInv, dbVars, providerVars, busVars, workerVars
<1>2. ASSUME NEW w \in Workers, Reset(w) PROVE RowsStay
  BY <1>2 DEF Reset, Lock, Goto, RowsStay, LockInv, NoRow, TypeInv, TypeOK,
      JobInv, dbVars, providerVars, busVars, workerVars
<1>3. ASSUME NEW w \in Workers, DeadlockAbort(w) PROVE RowsStay
  BY <1>3 DEF DeadlockAbort, Rollback, Release, End, Waits, RowsStay, LockInv,
      NoRow, TypeInv, TypeOK, JobInv, dbVars, providerVars, busVars,
      workerVars
<1>4. ASSUME NEW w \in Workers, CallReturns(w) PROVE RowsStay
  BY <1>4 DEF CallReturns, Proceed, Initiated, RowsStay, LockInv, NoRow,
      TypeInv, TypeOK, JobInv, dbVars, providerVars, busVars,
      workerVars
<1>5. ASSUME NEW w \in Workers, CallRaises(w) PROVE RowsStay
  BY <1>5 DEF CallRaises, Proceed, NotInitiated, RowsStay, LockInv, NoRow,
      TypeInv, TypeOK, JobInv, dbVars, providerVars, busVars,
      workerVars
<1>6. ASSUME NEW w \in Workers, EmitDisbursed(w) PROVE RowsStay
  BY <1>6 DEF EmitDisbursed, Goto, RowsStay, LockInv, NoRow, TypeInv, TypeOK,
      JobInv, dbVars, providerVars, busVars, workerVars
<1>7. ASSUME NEW w \in Workers, WriteWebhook(w) PROVE RowsStay
  BY <1>7, WriteWebhookRow DEF RowsStay
<1>8. ASSUME NEW w \in Workers, Commit(w) PROVE RowsStay
  <2>1. \A l \in Loans : lock[l] = w => draft[l] # NoRow
    BY DEF LockInv, NoRow
  <2> QED BY <1>8, <2>1 DEF Commit, RowsStay
<1>9. ASSUME NEW w \in Workers, SweepDiscarded(w) PROVE RowsStay
  BY <1>9 DEF SweepDiscarded, Rollback, Release, End, RowsStay, LockInv,
      NoRow, TypeInv, TypeOK, JobInv, dbVars, providerVars, busVars,
      workerVars
<1>10. ASSUME NEW w \in Workers, Ack(w) PROVE RowsStay
  BY <1>10 DEF Ack, End, RowsStay, LockInv, NoRow, TypeInv, TypeOK, JobInv,
      dbVars, providerVars, busVars, workerVars
<1>11. ASSUME NEW w \in Workers, Accept(w) PROVE RowsStay
  BY <1>11 DEF Accept, RowsStay, LockInv, NoRow, TypeInv, TypeOK, JobInv,
      dbVars, providerVars, busVars, workerVars
<1>12. ASSUME NEW w \in Workers, Crash(w) PROVE RowsStay
  BY <1>12 DEF Crash, Rollback, Release, End, RowsStay, LockInv, NoRow,
      TypeInv, TypeOK, JobInv, dbVars, providerVars, busVars,
      workerVars
<1>13. ASSUME NEW w \in Workers, Sweep(w) PROVE RowsStay
  BY <1>13 DEF Sweep, Start, RowsStay, LockInv, NoRow, TypeInv, TypeOK, JobInv,
      dbVars, providerVars, busVars, workerVars
<1>14. ASSUME NEW w \in Workers, NEW l \in Loans, HttpInitiate(w, l)
      PROVE  RowsStay
  BY <1>14 DEF HttpInitiate, Start, RowsStay, LockInv, NoRow, TypeInv, TypeOK,
      JobInv, dbVars, providerVars, busVars, workerVars
<1>15. ASSUME NEW w \in Workers, NEW l \in Loans, Consume(w, l) PROVE RowsStay
  BY <1>15 DEF Consume, Start, RowsStay, LockInv, NoRow, TypeInv, TypeOK,
      JobInv, dbVars, providerVars, busVars, workerVars
<1>16. ASSUME NEW w \in Workers, NEW l \in Loans, Retry(w, l) PROVE RowsStay
  BY <1>16 DEF Retry, Start, RowsStay, LockInv, NoRow, TypeInv, TypeOK, JobInv,
      dbVars, providerVars, busVars, workerVars
<1>17. ASSUME NEW w \in Workers, NEW h \in hooks, Webhook(w, h) PROVE RowsStay
  BY <1>17 DEF Webhook, Start, RowsStay, LockInv, NoRow, TypeInv, TypeOK,
      JobInv, dbVars, providerVars, busVars, workerVars
<1>18. ASSUME NEW l \in Loans, NEW a \in Attempts, Settle(l, a) PROVE RowsStay
  BY <1>18 DEF Settle, RowsStay, LockInv, NoRow, TypeInv, TypeOK, JobInv,
      dbVars, providerVars, busVars, workerVars
<1>19. ASSUME NEW l \in Loans, NEW a \in Attempts, Reverse(l, a) PROVE RowsStay
  BY <1>19 DEF Reverse, RowsStay, LockInv, NoRow, TypeInv, TypeOK, JobInv,
      dbVars, providerVars, busVars, workerVars
<1>20. ASSUME NEW w \in Workers, InitiateRaises(w) PROVE RowsStay
  BY <1>20 DEF InitiateRaises, Rollback, Release, End, RowsStay, LockInv, NoRow,
      TypeInv, TypeOK, JobInv, dbVars, providerVars, busVars,
      workerVars
<1>s. CASE UNCHANGED vars
  BY <1>s
  DEF vars, RowsStay, LockInv, NoRow, dbVars, providerVars, busVars,
      workerVars
<1> QED
  BY <1>1, <1>2, <1>3, <1>4, <1>5, <1>6, <1>7, <1>8, <1>9, <1>10,
     <1>11, <1>12, <1>13, <1>14, <1>15, <1>16, <1>17, <1>18, <1>19,
     <1>20, <1>s
  DEF Next, JobStep

\* What a worker's step must leave alone, and establish, for AckInv.
LEMMA AckFrame ==
    ASSUME TypeInv, AckInv, RowsStay, NEW w \in Workers,
           \A l \in Loans :
             stream'[l] = "acked" => stream[l] = "acked" \/ row'[l] # NoRow,
           \A v \in Workers \ {w} :
             /\ pc'[v] = pc[v] /\ job'[v] = job[v]
             /\ cur'[v] = cur[v] /\ todo'[v] = todo[v]
             /\ \A l \in Loans : lock[l] = v => lock'[l] = v,
           job'[w] = "consume" =>
             /\ pc'[w] \in {"insert", "call", "commit", "ack"}
             /\ todo'[w] = {}
             /\ pc'[w] = "commit" => row'[cur'[w]] # NoRow \/ lock'[cur'[w]] = w
             /\ pc'[w] = "ack" => row'[cur'[w]] # NoRow
    PROVE  AckInv'
<1>1. AckedHasRow'
  BY DEF AckInv, AckedHasRow, RowsStay
<1>2. ASSUME NEW v \in Workers, job'[v] = "consume"
      PROVE  /\ pc'[v] \in {"insert", "call", "commit", "ack"}
             /\ todo'[v] = {}
             /\ pc'[v] = "commit" => row'[cur'[v]] # NoRow \/ lock'[cur'[v]] = v
             /\ pc'[v] = "ack" => row'[cur'[v]] # NoRow
  <2>1. CASE v = w
    BY <1>2, <2>1
  <2>2. CASE v # w
    BY <1>2, <2>2 DEF AckInv, RowsStay, TypeInv, JobInv
  <2> QED BY <2>1, <2>2
<1> QED BY <1>1, <1>2 DEF AckInv

\* Every step, or stuttering step, preserves the invariant.
LEMMA NextAckInv ==
    ASSUME TypeInv, LockInv, AckInv, [Next]_vars PROVE AckInv'
<1>1. ASSUME NEW w \in Workers, Insert(w) PROVE AckInv'
  <2>1. \A l \in Loans :
          stream'[l] = "acked" => stream[l] = "acked" \/ row'[l] # NoRow
    BY <1>1 DEF Insert, busVars, TypeInv, TypeOK
  <2>2. \A v \in Workers \ {w} :
          /\ pc'[v] = pc[v] /\ job'[v] = job[v]
          /\ cur'[v] = cur[v] /\ todo'[v] = todo[v]
          /\ \A l \in Loans : lock[l] = v => lock'[l] = v
    BY <1>1 DEF Insert, Lock, Goto, End, TypeInv, TypeOK, dbVars
  <2>3. job'[w] = "consume" =>
          /\ pc'[w] \in {"insert", "call", "commit", "ack"}
          /\ todo'[w] = {}
          /\ pc'[w] = "commit" => row'[cur'[w]] # NoRow \/ lock'[cur'[w]] = w
          /\ pc'[w] = "ack" => row'[cur'[w]] # NoRow
    BY <1>1 DEF Insert, Lock, Goto, End, AckInv, TypeInv, TypeOK, JobInv
  <2>4. RowsStay
    BY <1>1, NextRowsStay DEF Next, JobStep
  <2> QED BY <2>1, <2>2, <2>3, <2>4, AckFrame
<1>2. ASSUME NEW w \in Workers, Reset(w) PROVE AckInv'
  BY <1>2 DEF Reset, Lock, Goto, AckInv, LockInv, AckedHasRow, NoRow, TypeInv,
      TypeOK, JobInv, dbVars, providerVars, busVars, workerVars
<1>3. ASSUME NEW w \in Workers, DeadlockAbort(w) PROVE AckInv'
  BY <1>3 DEF DeadlockAbort, Rollback, Release, End, Waits, AckInv, LockInv,
      AckedHasRow, NoRow, TypeInv, TypeOK, JobInv, dbVars,
      providerVars, busVars, workerVars
<1>4. ASSUME NEW w \in Workers, CallReturns(w) PROVE AckInv'
  <2>1. \A l \in Loans :
          stream'[l] = "acked" => stream[l] = "acked" \/ row'[l] # NoRow
    BY <1>4 DEF CallReturns, busVars, TypeInv, TypeOK
  <2>2. \A v \in Workers \ {w} :
          /\ pc'[v] = pc[v] /\ job'[v] = job[v]
          /\ cur'[v] = cur[v] /\ todo'[v] = todo[v]
          /\ \A l \in Loans : lock[l] = v => lock'[l] = v
    BY <1>4 DEF CallReturns, Proceed, TypeInv, TypeOK, dbVars
  <2>3. job'[w] = "consume" =>
          /\ pc'[w] \in {"insert", "call", "commit", "ack"}
          /\ todo'[w] = {}
          /\ pc'[w] = "commit" => row'[cur'[w]] # NoRow \/ lock'[cur'[w]] = w
          /\ pc'[w] = "ack" => row'[cur'[w]] # NoRow
    BY <1>4 DEF CallReturns, Proceed, AckInv, LockInv, TypeInv, TypeOK, JobInv
  <2>4. RowsStay
    BY <1>4, NextRowsStay DEF Next, JobStep
  <2> QED BY <2>1, <2>2, <2>3, <2>4, AckFrame
<1>5. ASSUME NEW w \in Workers, CallRaises(w) PROVE AckInv'
  <2>1. \A l \in Loans :
          stream'[l] = "acked" => stream[l] = "acked" \/ row'[l] # NoRow
    BY <1>5 DEF CallRaises, busVars, TypeInv, TypeOK
  <2>2. \A v \in Workers \ {w} :
          /\ pc'[v] = pc[v] /\ job'[v] = job[v]
          /\ cur'[v] = cur[v] /\ todo'[v] = todo[v]
          /\ \A l \in Loans : lock[l] = v => lock'[l] = v
    BY <1>5 DEF CallRaises, Proceed, TypeInv, TypeOK, dbVars
  <2>3. job'[w] = "consume" =>
          /\ pc'[w] \in {"insert", "call", "commit", "ack"}
          /\ todo'[w] = {}
          /\ pc'[w] = "commit" => row'[cur'[w]] # NoRow \/ lock'[cur'[w]] = w
          /\ pc'[w] = "ack" => row'[cur'[w]] # NoRow
    BY <1>5 DEF CallRaises, Proceed, AckInv, LockInv, TypeInv, TypeOK, JobInv
  <2>4. RowsStay
    BY <1>5, NextRowsStay DEF Next, JobStep
  <2> QED BY <2>1, <2>2, <2>3, <2>4, AckFrame
<1>6. ASSUME NEW w \in Workers, EmitDisbursed(w) PROVE AckInv'
  BY <1>6 DEF EmitDisbursed, Goto, AckInv, LockInv, AckedHasRow, NoRow,
      TypeInv, TypeOK, JobInv, dbVars, providerVars, busVars,
      workerVars
<1>7. ASSUME NEW w \in Workers, WriteWebhook(w) PROVE AckInv'
  <2>1. \A l \in Loans :
          stream'[l] = "acked" => stream[l] = "acked" \/ row'[l] # NoRow
    BY <1>7 DEF WriteWebhook, busVars, TypeInv, TypeOK
  <2>2. \A v \in Workers \ {w} :
          /\ pc'[v] = pc[v] /\ job'[v] = job[v]
          /\ cur'[v] = cur[v] /\ todo'[v] = todo[v]
          /\ \A l \in Loans : lock[l] = v => lock'[l] = v
    BY <1>7 DEF WriteWebhook, Goto, TypeInv, TypeOK, dbVars
  <2>3. job'[w] = "consume" =>
          /\ pc'[w] \in {"insert", "call", "commit", "ack"}
          /\ todo'[w] = {}
          /\ pc'[w] = "commit" => row'[cur'[w]] # NoRow \/ lock'[cur'[w]] = w
          /\ pc'[w] = "ack" => row'[cur'[w]] # NoRow
    BY <1>7 DEF WriteWebhook, Goto, AckInv, TypeInv, TypeOK, JobInv
  <2>4. RowsStay
    BY <1>7, NextRowsStay DEF Next, JobStep
  <2> QED BY <2>1, <2>2, <2>3, <2>4, AckFrame
<1>8. ASSUME NEW w \in Workers, Commit(w) PROVE AckInv'
  <2>1. \A l \in Loans :
          stream'[l] = "acked" => stream[l] = "acked" \/ row'[l] # NoRow
    BY <1>8 DEF Commit, busVars, TypeInv, TypeOK
  <2>2. \A v \in Workers \ {w} :
          /\ pc'[v] = pc[v] /\ job'[v] = job[v]
          /\ cur'[v] = cur[v] /\ todo'[v] = todo[v]
          /\ \A l \in Loans : lock[l] = v => lock'[l] = v
    BY <1>8 DEF Commit, Release, Goto, End, TypeInv, TypeOK, dbVars
  <2>3. job'[w] = "consume" =>
          /\ pc'[w] \in {"insert", "call", "commit", "ack"}
          /\ todo'[w] = {}
          /\ pc'[w] = "commit" => row'[cur'[w]] # NoRow \/ lock'[cur'[w]] = w
          /\ pc'[w] = "ack" => row'[cur'[w]] # NoRow
    <3>1. CASE job[w] = "consume"
      <4>1. cur[w] \in Loans /\ todo[w] = {}
        BY <1>8, <3>1 DEF Commit, AckInv, TypeInv, JobInv
      <4>2. row'[cur[w]] # NoRow
        <5>1. lock[cur[w]] = w => draft[cur[w]] # NoRow
          BY <4>1 DEF LockInv, NoRow
        <5>2. row[cur[w]] # NoRow \/ lock[cur[w]] = w
          BY <1>8, <3>1 DEF Commit, AckInv
        <5> QED BY <1>8, <4>1, <5>1, <5>2 DEF Commit
      <4>3. pc'[w] = "ack" /\ cur' = cur /\ todo' = todo
        BY <1>8, <3>1 DEF Commit, Goto, TypeInv, TypeOK
      <4> QED BY <4>1, <4>2, <4>3
    <3>2. CASE job[w] # "consume"
      BY <1>8, <3>2 DEF Commit, End, TypeInv, TypeOK
    <3> QED BY <3>1, <3>2
  <2>4. RowsStay
    BY <1>8, NextRowsStay DEF Next, JobStep
  <2> QED BY <2>1, <2>2, <2>3, <2>4, AckFrame
<1>9. ASSUME NEW w \in Workers, SweepDiscarded(w) PROVE AckInv'
  BY <1>9 DEF SweepDiscarded, Rollback, Release, End, AckInv, LockInv,
      AckedHasRow, NoRow, TypeInv, TypeOK, JobInv, dbVars,
      providerVars, busVars, workerVars
<1>10. ASSUME NEW w \in Workers, Ack(w) PROVE AckInv'
  BY ZenonT(60), <1>10 DEF Ack, End, AckInv, LockInv, AckedHasRow, NoRow, TypeInv, TypeOK,
      JobInv, dbVars, providerVars, busVars, workerVars
<1>11. ASSUME NEW w \in Workers, Accept(w) PROVE AckInv'
  BY <1>11 DEF Accept, AckInv, LockInv, AckedHasRow, NoRow, TypeInv, TypeOK,
      JobInv, dbVars, providerVars, busVars, workerVars
<1>12. ASSUME NEW w \in Workers, Crash(w) PROVE AckInv'
  BY <1>12 DEF Crash, Rollback, Release, End, AckInv, LockInv, AckedHasRow,
      NoRow, TypeInv, TypeOK, JobInv, dbVars, providerVars, busVars,
      workerVars
<1>13. ASSUME NEW w \in Workers, Sweep(w) PROVE AckInv'
  BY <1>13 DEF Sweep, Start, AckInv, LockInv, AckedHasRow, NoRow, TypeInv,
      TypeOK, JobInv, dbVars, providerVars, busVars, workerVars
<1>14. ASSUME NEW w \in Workers, NEW l \in Loans, HttpInitiate(w, l)
      PROVE  AckInv'
  BY <1>14 DEF HttpInitiate, Start, AckInv, LockInv, AckedHasRow, NoRow,
      TypeInv, TypeOK, JobInv, dbVars, providerVars, busVars,
      workerVars
<1>15. ASSUME NEW w \in Workers, NEW l \in Loans, Consume(w, l) PROVE AckInv'
  <2>1. \A m \in Loans :
          stream'[m] = "acked" => stream[m] = "acked" \/ row'[m] # NoRow
    BY <1>15 DEF Consume, busVars, TypeInv, TypeOK
  <2>2. \A v \in Workers \ {w} :
          /\ pc'[v] = pc[v] /\ job'[v] = job[v]
          /\ cur'[v] = cur[v] /\ todo'[v] = todo[v]
          /\ \A m \in Loans : lock[m] = v => lock'[m] = v
    BY <1>15 DEF Consume, Start, TypeInv, TypeOK, dbVars
  <2>3. job'[w] = "consume" =>
          /\ pc'[w] \in {"insert", "call", "commit", "ack"}
          /\ todo'[w] = {}
          /\ pc'[w] = "commit" => row'[cur'[w]] # NoRow \/ lock'[cur'[w]] = w
          /\ pc'[w] = "ack" => row'[cur'[w]] # NoRow
    BY <1>15 DEF Consume, Start, AckInv, TypeInv, TypeOK, JobInv, NoRow, dbVars
  <2>4. RowsStay
    BY <1>15, NextRowsStay DEF Next, JobStep
  <2> QED BY <2>1, <2>2, <2>3, <2>4, AckFrame
<1>16. ASSUME NEW w \in Workers, NEW l \in Loans, Retry(w, l) PROVE AckInv'
  BY <1>16 DEF Retry, Start, AckInv, LockInv, AckedHasRow, NoRow, TypeInv,
      TypeOK, JobInv, dbVars, providerVars, busVars, workerVars
<1>17. ASSUME NEW w \in Workers, NEW h \in hooks, Webhook(w, h) PROVE AckInv'
  <2>1. \A l \in Loans :
          stream'[l] = "acked" => stream[l] = "acked" \/ row'[l] # NoRow
    BY <1>17 DEF Webhook, busVars, TypeInv, TypeOK
  <2>2. \A v \in Workers \ {w} :
          /\ pc'[v] = pc[v] /\ job'[v] = job[v]
          /\ cur'[v] = cur[v] /\ todo'[v] = todo[v]
          /\ \A l \in Loans : lock[l] = v => lock'[l] = v
    BY <1>17 DEF Webhook, Start, TypeInv, TypeOK, dbVars
  <2>3. job'[w] = "consume" =>
          /\ pc'[w] \in {"insert", "call", "commit", "ack"}
          /\ todo'[w] = {}
          /\ pc'[w] = "commit" => row'[cur'[w]] # NoRow \/ lock'[cur'[w]] = w
          /\ pc'[w] = "ack" => row'[cur'[w]] # NoRow
    BY <1>17 DEF Webhook, Start, AckInv, TypeInv, TypeOK, JobInv
  <2>4. RowsStay
    BY <1>17, NextRowsStay DEF Next, JobStep
  <2> QED BY <2>1, <2>2, <2>3, <2>4, AckFrame
<1>18. ASSUME NEW l \in Loans, NEW a \in Attempts, Settle(l, a) PROVE AckInv'
  BY <1>18 DEF Settle, AckInv, LockInv, AckedHasRow, NoRow, TypeInv, TypeOK,
      JobInv, dbVars, providerVars, busVars, workerVars
<1>19. ASSUME NEW l \in Loans, NEW a \in Attempts, Reverse(l, a) PROVE AckInv'
  BY <1>19 DEF Reverse, AckInv, LockInv, AckedHasRow, NoRow, TypeInv, TypeOK,
      JobInv, dbVars, providerVars, busVars, workerVars
<1>20. ASSUME NEW w \in Workers, InitiateRaises(w) PROVE AckInv'
  BY <1>20 DEF InitiateRaises, Rollback, Release, End, AckInv, LockInv, AckedHasRow,
      NoRow, TypeInv, TypeOK, JobInv, dbVars, providerVars, busVars,
      workerVars
<1>s. CASE UNCHANGED vars
  BY <1>s
  DEF vars, AckInv, LockInv, AckedHasRow, NoRow, dbVars, providerVars,
      busVars, workerVars
<1> QED
  BY <1>1, <1>2, <1>3, <1>4, <1>5, <1>6, <1>7, <1>8, <1>9, <1>10,
     <1>11, <1>12, <1>13, <1>14, <1>15, <1>16, <1>17, <1>18, <1>19,
     <1>20, <1>s
  DEF Next, JobStep

(* A loan.offer_accepted message is acknowledged only if its loan has a    *)
(* committed disbursement row.                                             *)
THEOREM AcknowledgedHasRow == Spec => []AckedHasRow
<1>1. Init => AckInv
  BY DEF Init, AckInv, AckedHasRow
<1>2. TypeInv /\ LockInv /\ AckInv /\ [Next]_vars => AckInv'
  BY NextAckInv
<1>3. AckInv => AckedHasRow
  BY DEF AckInv
<1> QED BY <1>1, <1>2, <1>3, TypeCorrect, LockInvHolds, PTL DEF Spec

-----------------------------------------------------------------------------
(* Announcements, when XADD does not fail.                                 *)

\* Every step, or stuttering step, preserves the invariant.
LEMMA NextAnnounceInv ==
    ASSUME "emit_failure" \notin Faults, TypeInv, LockInv, PaidInv, AnnounceInv, [Next]_vars
    PROVE  AnnounceInv'
<1>1. ASSUME NEW w \in Workers, Insert(w) PROVE AnnounceInv'
  <2>1. UNCHANGED <<row, emitted>>
    BY <1>1 DEF Insert, Lock, dbVars, busVars
  <2>2. \A v \in Workers : pc'[v] = "write" =>
          pc[v] = "write" /\ hook'[v] = hook[v] /\ cur'[v] = cur[v]
    BY <1>1 DEF Insert, Goto, End, TypeInv, TypeOK
  <2> QED BY <2>1, <2>2 DEF AnnounceInv, CompletedIsAnnounced
<1>2. ASSUME NEW w \in Workers, Reset(w) PROVE AnnounceInv'
  BY <1>2 DEF Reset, Lock, Goto, AnnounceInv, LockInv, CompletedIsAnnounced,
      TypeInv, TypeOK, JobInv, dbVars, providerVars, busVars,
      workerVars
<1>3. ASSUME NEW w \in Workers, DeadlockAbort(w) PROVE AnnounceInv'
  BY <1>3 DEF DeadlockAbort, Rollback, Release, End, Waits, AnnounceInv,
      LockInv, CompletedIsAnnounced, TypeInv, TypeOK, JobInv, dbVars,
      providerVars, busVars, workerVars
<1>4. ASSUME NEW w \in Workers, CallReturns(w) PROVE AnnounceInv'
  BY <1>4 DEF CallReturns, Proceed, Initiated, AnnounceInv, LockInv,
      CompletedIsAnnounced, TypeInv, TypeOK, JobInv, dbVars,
      providerVars, busVars, workerVars
<1>5. ASSUME NEW w \in Workers, CallRaises(w) PROVE AnnounceInv'
  BY <1>5 DEF CallRaises, Proceed, NotInitiated, AnnounceInv, LockInv,
      CompletedIsAnnounced, TypeInv, TypeOK, JobInv, dbVars,
      providerVars, busVars, workerVars
<1>6. ASSUME NEW w \in Workers, EmitDisbursed(w) PROVE AnnounceInv'
  <2>1. cur[w] \in Loans /\ UNCHANGED <<row, cur, hook>>
    BY <1>6 DEF EmitDisbursed, Goto, TypeInv, JobInv, dbVars
  <2>2. emitted'[cur[w]] > 0
    <3>1. emitted[cur[w]] \in 0 .. EmitCap
      BY <2>1 DEF TypeInv, TypeOK
    <3>2. emitted' = [emitted EXCEPT
            ![cur[w]] = IF emitted[cur[w]] < EmitCap
                          THEN emitted[cur[w]] + 1 ELSE emitted[cur[w]]]
      BY <1>6 DEF EmitDisbursed
    <3>3. emitted'[cur[w]] =
            IF emitted[cur[w]] < EmitCap THEN emitted[cur[w]] + 1
                                         ELSE emitted[cur[w]]
      BY <2>1, <3>2 DEF TypeInv, TypeOK
    <3> QED BY <3>1, <3>3
  <2>3. \A l \in Loans : emitted[l] > 0 => emitted'[l] > 0
    BY <1>6, <2>1, <2>2 DEF EmitDisbursed, TypeInv, TypeOK
  <2>4. \A v \in Workers : v # w => pc'[v] = pc[v]
    BY <1>6 DEF EmitDisbursed, Goto, TypeInv, TypeOK
  <2>5. CompletedIsAnnounced'
    BY <2>1, <2>3 DEF AnnounceInv, CompletedIsAnnounced
  <2>6. ASSUME NEW v \in Workers, pc'[v] = "write", hook'[v].status = "success"
        PROVE  emitted'[cur'[v]] > 0
    <3>1. CASE v = w
      BY <2>1, <2>2, <3>1
    <3>2. CASE v # w
      BY <2>1, <2>3, <2>4, <2>6, <3>2 DEF AnnounceInv, TypeInv, JobInv
    <3> QED BY <3>1, <3>2
  <2> QED BY <2>5, <2>6 DEF AnnounceInv
<1>7. ASSUME NEW w \in Workers, WriteWebhook(w) PROVE AnnounceInv'
  <2>1. /\ cur[w] \in Loans
        /\ hook[w] \in Hooks
        /\ hook[w].status = "success" => emitted[cur[w]] > 0
    BY <1>7 DEF WriteWebhook, TypeInv, JobInv, AnnounceInv
  <2>2. UNCHANGED <<emitted, cur, hook>>
    BY <1>7 DEF WriteWebhook, Goto, busVars
  <2>3. \A l \in Loans :
          row'[l].state = "COMPLETED" =>
            row[l].state = "COMPLETED" \/ emitted[l] > 0
    BY <1>7, <2>1 DEF WriteWebhook, TypeInv, TypeOK, Rows, Hooks
  <2>4. \A v \in Workers : pc'[v] = pc[v] \/ pc'[v] = "ack"
    BY <1>7 DEF WriteWebhook, Goto, TypeInv, TypeOK
  <2> QED BY <2>2, <2>3, <2>4 DEF AnnounceInv, CompletedIsAnnounced
<1>8. ASSUME NEW w \in Workers, Commit(w) PROVE AnnounceInv'
  <2>1. \A l \in Loans :
          row'[l].state = "COMPLETED" => row[l].state = "COMPLETED"
    BY <1>8 DEF Commit, LockInv
  <2>2. \A v \in Workers :
          pc'[v] = "write" =>
            pc[v] = "write" /\ hook'[v] = hook[v] /\ cur'[v] = cur[v]
    BY <1>8 DEF Commit, Goto, End, TypeInv, TypeOK
  <2>3. UNCHANGED emitted
    BY <1>8 DEF Commit, busVars
  <2> QED BY <2>1, <2>2, <2>3 DEF AnnounceInv, CompletedIsAnnounced
<1>9. ASSUME NEW w \in Workers, SweepDiscarded(w) PROVE AnnounceInv'
  BY <1>9 DEF SweepDiscarded, Rollback, Release, End, AnnounceInv, LockInv,
      CompletedIsAnnounced, TypeInv, TypeOK, JobInv, dbVars,
      providerVars, busVars, workerVars
<1>10. ASSUME NEW w \in Workers, Ack(w) PROVE AnnounceInv'
  BY <1>10 DEF Ack, End, AnnounceInv, LockInv, CompletedIsAnnounced, TypeInv,
      TypeOK, JobInv, dbVars, providerVars, busVars, workerVars
<1>11. ASSUME NEW w \in Workers, Accept(w) PROVE AnnounceInv'
  BY <1>11 DEF Accept, AnnounceInv, LockInv, CompletedIsAnnounced, TypeInv,
      TypeOK, JobInv, dbVars, providerVars, busVars, workerVars
<1>12. ASSUME NEW w \in Workers, Crash(w) PROVE AnnounceInv'
  BY <1>12 DEF Crash, Rollback, Release, End, AnnounceInv, LockInv,
      CompletedIsAnnounced, TypeInv, TypeOK, JobInv, dbVars,
      providerVars, busVars, workerVars
<1>13. ASSUME NEW w \in Workers, Sweep(w) PROVE AnnounceInv'
  BY <1>13 DEF Sweep, Start, AnnounceInv, LockInv, CompletedIsAnnounced,
      TypeInv, TypeOK, JobInv, dbVars, providerVars, busVars,
      workerVars
<1>14. ASSUME NEW w \in Workers, NEW l \in Loans, HttpInitiate(w, l)
      PROVE  AnnounceInv'
  BY <1>14 DEF HttpInitiate, Start, AnnounceInv, LockInv, CompletedIsAnnounced,
      TypeInv, TypeOK, JobInv, dbVars, providerVars, busVars,
      workerVars
<1>15. ASSUME NEW w \in Workers, NEW l \in Loans, Consume(w, l)
      PROVE  AnnounceInv'
  BY ZenonT(60), <1>15 DEF Consume, Start, AnnounceInv, LockInv, CompletedIsAnnounced,
      TypeInv, TypeOK, JobInv, dbVars, providerVars, busVars,
      workerVars
<1>16. ASSUME NEW w \in Workers, NEW l \in Loans, Retry(w, l)
      PROVE  AnnounceInv'
  BY <1>16 DEF Retry, Start, AnnounceInv, LockInv, CompletedIsAnnounced,
      TypeInv, TypeOK, JobInv, dbVars, providerVars, busVars,
      workerVars
<1>17. ASSUME NEW w \in Workers, NEW h \in hooks, Webhook(w, h)
      PROVE  AnnounceInv'
  BY <1>17 DEF Webhook, Start, AnnounceInv, LockInv, CompletedIsAnnounced,
      TypeInv, TypeOK, JobInv, dbVars, providerVars, busVars,
      workerVars
<1>18. ASSUME NEW l \in Loans, NEW a \in Attempts, Settle(l, a)
      PROVE  AnnounceInv'
  BY <1>18 DEF Settle, AnnounceInv, LockInv, CompletedIsAnnounced, TypeInv,
      TypeOK, JobInv, dbVars, providerVars, busVars, workerVars
<1>19. ASSUME NEW l \in Loans, NEW a \in Attempts, Reverse(l, a)
      PROVE  AnnounceInv'
  BY <1>19 DEF Reverse, AnnounceInv, LockInv, CompletedIsAnnounced, TypeInv,
      TypeOK, JobInv, dbVars, providerVars, busVars, workerVars
<1>20. ASSUME NEW w \in Workers, InitiateRaises(w) PROVE AnnounceInv'
  BY <1>20 DEF InitiateRaises, Rollback, Release, End, AnnounceInv, LockInv,
      CompletedIsAnnounced, TypeInv, TypeOK, JobInv, dbVars,
      providerVars, busVars, workerVars
<1>s. CASE UNCHANGED vars
  BY <1>s
  DEF vars, AnnounceInv, LockInv, CompletedIsAnnounced, dbVars, providerVars,
      busVars, workerVars
<1> QED
  BY <1>1, <1>2, <1>3, <1>4, <1>5, <1>6, <1>7, <1>8, <1>9, <1>10,
     <1>11, <1>12, <1>13, <1>14, <1>15, <1>16, <1>17, <1>18, <1>19,
     <1>20, <1>s
  DEF Next, JobStep

(* As long as XADD does not fail, a COMPLETED loan was announced, whatever *)
(* crashes and repeated webhooks: the event is sent before the commit.     *)
THEOREM CompletedAnnounced ==
    ASSUME "emit_failure" \notin Faults
    PROVE  Spec => []CompletedIsAnnounced
<1>1. Init => AnnounceInv
  <2> SUFFICES ASSUME Init PROVE AnnounceInv
    OBVIOUS
  <2>1. \A l \in Loans : row[l].state # "COMPLETED"
    BY InitRow DEF NoRow
  <2>2. \A w \in Workers : pc[w] = "idle"
    BY DEF Init
  <2> QED BY <2>1, <2>2 DEF AnnounceInv, CompletedIsAnnounced
<1>2. TypeInv /\ LockInv /\ PaidInv /\ AnnounceInv /\ [Next]_vars => AnnounceInv'
  BY NextAnnounceInv
<1>3. AnnounceInv => CompletedIsAnnounced
  BY DEF AnnounceInv
<1> QED
  BY <1>1, <1>2, <1>3, TypeCorrect, LockInvHolds, PaidInvHolds, PTL DEF Spec

-----------------------------------------------------------------------------
(* Steps of one session, and what they leave alone.                       *)

(* What a step of session w leaves alone: the other sessions, their locks, *)
(* and the loans w does not work on.                                       *)
Alone(w) ==
    /\ \A v \in Workers \ {w} :
         /\ pc'[v] = pc[v] /\ cur'[v] = cur[v] /\ todo'[v] = todo[v]
         /\ snap'[v] = snap[v] /\ hook'[v] = hook[v] /\ job'[v] = job[v]
         /\ \A l \in Loans : lock'[l] = v <=> lock[l] = v
    /\ \A l \in Loans \ Touches(w) :
         row'[l] = row[l] /\ lock'[l] = lock[l] /\ draft'[l] = draft[l]

\* The steps of session w.
SessionStep(w) ==
    \/ JobStep(w) \/ Accept(w) \/ Crash(w) \/ Sweep(w)
    \/ \E l \in Loans : HttpInitiate(w, l) \/ Consume(w, l) \/ Retry(w, l)
    \/ \E h \in hooks : Webhook(w, h)

\* Every step of a session is its own.
LEMMA StepAlone ==
    ASSUME TypeInv, NEW w \in Workers, SessionStep(w) PROVE Alone(w)
<1>1. w \in Workers /\ (pc[w] # "idle" => cur[w] \in Loans)
  BY DEF TypeInv, JobInv
<1>2. CASE Insert(w)
  BY <1>1, <1>2
  DEF Insert, Lock, Goto, End, Alone, Touches, TypeInv, TypeOK, dbVars,
      workerVars
<1>3. CASE Reset(w)
  BY <1>1, <1>3
  DEF Reset, Lock, Goto, Alone, Touches, TypeInv, TypeOK, dbVars,
      workerVars
<1>4. CASE DeadlockAbort(w)
  BY <1>1, <1>4
  DEF DeadlockAbort, Rollback, Release, End, Alone, Touches, TypeInv,
      TypeOK, dbVars, workerVars
<1>5. CASE CallReturns(w)
  BY <1>1, <1>5
  DEF CallReturns, Proceed, Alone, Touches, TypeInv, TypeOK, dbVars,
      workerVars
<1>6. CASE CallRaises(w)
  BY <1>1, <1>6
  DEF CallRaises, Proceed, Alone, Touches, TypeInv, TypeOK, dbVars,
      workerVars
<1>7. CASE EmitDisbursed(w)
  BY <1>1, <1>7
  DEF EmitDisbursed, Goto, Alone, Touches, TypeInv, TypeOK, dbVars,
      workerVars
<1>8. CASE WriteWebhook(w)
  BY <1>1, <1>8
  DEF WriteWebhook, Goto, Alone, Touches, TypeInv, TypeOK, dbVars,
      workerVars
<1>9. CASE Commit(w)
  BY <1>1, <1>9
  DEF Commit, Release, Goto, End, Alone, Touches, TypeInv, TypeOK, dbVars,
      workerVars
<1>10. CASE SweepDiscarded(w)
  BY <1>1, <1>10
  DEF SweepDiscarded, Rollback, Release, End, Alone, Touches, TypeInv,
      TypeOK, dbVars, workerVars
<1>11. CASE Ack(w)
  BY <1>1, <1>11
  DEF Ack, End, Alone, Touches, TypeInv, TypeOK, dbVars, workerVars
<1>12. CASE Accept(w)
  BY <1>1, <1>12 DEF Accept, Alone, Touches, TypeInv, TypeOK, dbVars, workerVars
<1>13. CASE Crash(w)
  BY <1>1, <1>13
  DEF Crash, Rollback, Release, End, Alone, Touches, TypeInv, TypeOK,
      dbVars, workerVars
<1>14. CASE Sweep(w)
  BY <1>1, <1>14
  DEF Sweep, Start, Alone, Touches, TypeInv, TypeOK, dbVars, workerVars
<1>19. CASE InitiateRaises(w)
  BY <1>1, <1>19
  DEF InitiateRaises, Rollback, Release, End, Alone, Touches, TypeInv, TypeOK,
      dbVars, workerVars
<1>15. ASSUME NEW l \in Loans, HttpInitiate(w, l) PROVE Alone(w)
  BY <1>1, <1>15
  DEF HttpInitiate, Start, Alone, Touches, TypeInv, TypeOK, dbVars,
      workerVars
<1>16. ASSUME NEW l \in Loans, Consume(w, l) PROVE Alone(w)
  BY <1>1, <1>16
  DEF Consume, Start, Alone, Touches, TypeInv, TypeOK, dbVars, workerVars
<1>17. ASSUME NEW l \in Loans, Retry(w, l) PROVE Alone(w)
  BY <1>1, <1>17
  DEF Retry, Start, Alone, Touches, TypeInv, TypeOK, dbVars, workerVars
<1>18. ASSUME NEW h \in hooks, Webhook(w, h) PROVE Alone(w)
  BY <1>1, <1>18
  DEF Webhook, Start, Alone, Touches, TypeInv, TypeOK, dbVars, workerVars
<1> QED
  BY <1>2, <1>3, <1>4, <1>5, <1>6, <1>7, <1>8, <1>9, <1>10, <1>11, <1>12,
     <1>13, <1>14, <1>15, <1>16, <1>17, <1>18, <1>19
  DEF SessionStep, JobStep

-----------------------------------------------------------------------------
(* Row locks never hold every job up.                                     *)

\* Where a session may hold rows, and which it does not hold yet.
HolderOf(w) ==
    /\ pc[w] \notin {"reset", "call", "commit"} => \A l \in Loans : lock[l] # w
    /\ pc[w] \notin {"reset", "call"} => todo[w] = {}
    /\ pc[w] = "reset" => lock[cur[w]] # w
    /\ \A l \in todo[w] : l # cur[w] /\ lock[l] # w

HolderInv == \A w \in Workers : HolderOf(w)

\* A session's step keeps its rows, and the others', where they belong.
LEMMA StepHolder ==
    ASSUME TypeInv, HolderInv, NEW w \in Workers, SessionStep(w)
    PROVE  HolderInv'
<1>1. HolderOf(w) /\ (pc[w] # "idle" => cur[w] \in Loans)
  BY DEF HolderInv, TypeInv, JobInv
<1>2. ASSUME NEW v \in Workers, v # w PROVE HolderOf(v)'
  <2>1. /\ pc'[v] = pc[v] /\ cur'[v] = cur[v] /\ todo'[v] = todo[v]
        /\ \A l \in Loans : lock'[l] = v <=> lock[l] = v
    BY <1>2, StepAlone DEF Alone
  <2>2. todo[v] \subseteq Loans /\ (pc[v] # "idle" => cur[v] \in Loans)
    BY DEF TypeInv, TypeOK, JobInv
  <2> QED BY <2>1, <2>2 DEF HolderInv, HolderOf
<1> SUFFICES HolderOf(w)'
  BY <1>2 DEF HolderInv
<1>3. ASSUME Release(w), End(w) PROVE HolderOf(w)'
  <2>1. pc'[w] = "idle" /\ todo'[w] = {} /\ \A l \in Loans : lock'[l] # w
    BY <1>3 DEF Release, End, TypeInv, TypeOK
  <2> QED BY <2>1 DEF HolderOf
<1>4. CASE \/ DeadlockAbort(w) \/ SweepDiscarded(w)
           \/ InitiateRaises(w) \/ Crash(w)
  BY <1>3, <1>4
  DEF DeadlockAbort, SweepDiscarded, InitiateRaises, Crash, Rollback
<1>5. CASE Insert(w) \/ Reset(w)
  BY <1>1, <1>5
  DEF Insert, Reset, Lock, Goto, End, HolderOf, TypeInv, TypeOK, dbVars
<1>6. CASE CallReturns(w) \/ CallRaises(w)
  BY <1>1, <1>6 DEF CallReturns, CallRaises, Proceed, HolderOf, TypeInv, TypeOK
<1>7. CASE EmitDisbursed(w) \/ WriteWebhook(w)
  BY <1>1, <1>7
  DEF EmitDisbursed, WriteWebhook, Goto, HolderOf, TypeInv, TypeOK, dbVars
<1>8. CASE Commit(w)
  <2>1. /\ \A l \in Loans : lock'[l] # w
        /\ todo'[w] = {} /\ pc'[w] \in {"idle", "ack"}
    BY <1>1, <1>8 DEF Commit, Release, Goto, End, HolderOf, TypeInv, TypeOK
  <2> QED BY <2>1 DEF HolderOf
<1>9. CASE Ack(w) \/ Accept(w)
  BY <1>1, <1>9
  DEF Ack, Accept, End, HolderOf, TypeInv, TypeOK, dbVars, workerVars
<1>10. CASE Sweep(w)
  <2>1. /\ pc'[w] = "reset" /\ cur'[w] \in Loans /\ todo'[w] \subseteq Loans
        /\ cur'[w] \notin todo'[w] /\ lock' = lock
    BY <1>10 DEF Sweep, SweepCandidates, Start, TypeInv, TypeOK, dbVars
  <2>2. \A l \in Loans : lock[l] # w
    BY <1>1, <1>10 DEF Sweep, Start, HolderOf
  <2> QED BY <2>1, <2>2 DEF HolderOf
<1>11. ASSUME NEW l \in Loans, HttpInitiate(w, l) \/ Consume(w, l) \/ Retry(w, l)
       PROVE  HolderOf(w)'
  BY <1>1, <1>11
  DEF HttpInitiate, Consume, Retry, Start, HolderOf, TypeInv, TypeOK,
      JobInv, dbVars
<1>12. ASSUME NEW h \in hooks, Webhook(w, h) PROVE HolderOf(w)'
  BY <1>1, <1>12 DEF Webhook, Start, HolderOf, TypeInv, TypeOK, JobInv, dbVars
<1> QED
  BY <1>4, <1>5, <1>6, <1>7, <1>8, <1>9, <1>10, <1>11, <1>12
  DEF SessionStep, JobStep

\* Every step, or stuttering step, preserves the invariant.
LEMMA NextHolderInv ==
    ASSUME TypeInv, HolderInv, [Next]_vars PROVE HolderInv'
<1>1. ASSUME NEW w \in Workers, SessionStep(w) PROVE HolderInv'
  BY <1>1, StepHolder
<1>2. ASSUME NEW l \in Loans, NEW a \in Attempts, Settle(l, a) \/ Reverse(l, a)
      PROVE  HolderInv'
  BY <1>2 DEF Settle, Reverse, HolderInv, HolderOf, dbVars, workerVars
<1>3. CASE UNCHANGED vars
  BY <1>3 DEF vars, HolderInv, HolderOf, dbVars, workerVars
<1> QED BY <1>1, <1>2, <1>3 DEF Next, SessionStep

(* The guards of the steps of a job: a step that waits for no row is       *)
(* always possible, one that flushes needs the row free, and a session in  *)
(* a circle of waits is aborted.                                           *)
CanMove(w) ==
    \/ pc[w] \in {"emit", "commit", "ack"}
    \/ pc[w] = "call" /\ job[w] \in {"http", "consume", "retry", "sweep"}
    \/ pc[w] \in {"insert", "reset", "write"} /\ lock[cur[w]] = Nobody
    \/ \E S \in SUBSET Workers :
         w \in S /\ \A v \in S : Waits(v) /\ lock[cur[v]] \in S

NeverStuck ==
    (\E w \in Workers : pc[w] # "idle") => \E w \in Workers : CanMove(w)

(* While some job runs, some job has a step whose guard holds: the session *)
(* that holds a row another one waits for is itself able to go on, or      *)
(* waits, and then all the waiting sessions form the circle that           *)
(* PostgreSQL aborts. For any number of sessions, loans and faults.        *)
THEOREM JobsNeverStuck == Spec => []NeverStuck
<1>1. Init => HolderInv
  BY DEF Init, HolderInv, HolderOf
<1>2. TypeInv /\ HolderInv /\ [Next]_vars => HolderInv'
  BY NextHolderInv
<1>3. ASSUME TypeInv, HolderInv, NEW w \in Workers, pc[w] # "idle",
             \A v \in Workers : ~CanMove(v)
      PROVE  FALSE
  <2> DEFINE S == {v \in Workers : Waits(v)}
  <2>1. ASSUME NEW v \in Workers, pc[v] # "idle"
        PROVE  /\ pc[v] \in {"insert", "reset", "write"}
               /\ cur[v] \in Loans /\ lock[cur[v]] \in Workers
    BY <1>3, <2>1 DEF CanMove, TypeInv, TypeOK, JobInv, Steps
  <2>2. ASSUME NEW v \in Workers, NEW l \in Loans, lock[l] = v PROVE v \in S
    <3>1. pc[v] \in {"reset", "call", "commit"}
      BY <1>3, <2>2 DEF HolderInv, HolderOf
    <3>2. pc[v] = "reset" /\ lock[cur[v]] \in Workers
      BY <2>1, <3>1
    <3>3. lock[cur[v]] # v
      BY <1>3, <3>2 DEF HolderInv, HolderOf
    <3> QED BY <3>2, <3>3 DEF Waits
  <2>3. \A v \in S : Waits(v) /\ lock[cur[v]] \in S
    BY <2>1, <2>2 DEF Waits
  <2>4. PICK v \in Workers : v \in S
    BY <1>3, <2>1, <2>2
  <2>5. CanMove(v)
    BY <2>3, <2>4 DEF CanMove
  <2> QED BY <1>3, <2>5
<1>4. TypeInv /\ HolderInv => NeverStuck
  BY <1>3 DEF NeverStuck
<1> QED BY <1>1, <1>2, <1>4, TypeCorrect, PTL DEF Spec

-----------------------------------------------------------------------------
(* One reference of a loan until the loan has a row.                      *)

(* Whatever a session may still call for has a row, or was read without    *)
(* one: its next reference is then the first.                              *)
FirstOf(w) ==
    pc[w] \in {"insert", "reset", "call"} =>
        \A l \in todo[w] \cup {cur[w]} :
            row[l] = NoRow => snap[w][l].attempt = 0

FirstInv == (\A w \in Workers : FirstOf(w)) /\ InitiateIsIdempotent

\* After a step, whatever the session may still call for is so.
LEMMA StepFirstOf ==
    ASSUME TypeInv, RowsStay, NEW w \in Workers, FirstOf(w), SessionStep(w)
    PROVE  FirstOf(w)'
<1>1. ASSUME pc'[w] \notin {"insert", "reset", "call"} PROVE FirstOf(w)'
  BY <1>1 DEF FirstOf
<1>2. ASSUME pc[w] \in {"insert", "reset", "call"}, snap' = snap,
             todo'[w] \cup {cur'[w]} \subseteq todo[w] \cup {cur[w]}
      PROVE  FirstOf(w)'
  <2>1. todo[w] \cup {cur[w]} \subseteq Loans
    BY <1>2 DEF TypeInv, TypeOK, JobInv
  <2> QED BY <1>2, <2>1 DEF FirstOf, RowsStay
<1>3. ASSUME End(w) PROVE FirstOf(w)'
  BY <1>1, <1>3 DEF End, TypeInv, TypeOK
<1>4. CASE Insert(w) \/ Reset(w)
  BY <1>2, <1>3, <1>4 DEF Insert, Reset, Goto
<1>5. CASE CallReturns(w) \/ CallRaises(w)
  BY <1>2, <1>5 DEF CallReturns, CallRaises, Proceed, TypeInv, TypeOK
<1>6. CASE Accept(w)
  <2>1. pc[w] = "call" /\ snap' = snap /\ todo' = todo /\ cur' = cur
    BY <1>6 DEF Accept, workerVars
  <2> QED BY <1>2, <2>1
<1>7. CASE \/ DeadlockAbort(w) \/ InitiateRaises(w) \/ SweepDiscarded(w)
           \/ Ack(w) \/ Crash(w)
  BY <1>3, <1>7 DEF DeadlockAbort, InitiateRaises, SweepDiscarded, Ack, Crash
<1>8. CASE EmitDisbursed(w) \/ WriteWebhook(w) \/ Commit(w)
  BY <1>1, <1>3, <1>8
  DEF EmitDisbursed, WriteWebhook, Commit, Goto, TypeInv, TypeOK
<1>9. NoRow.attempt = 0 /\ NoRow.state # "FAILED"
  BY DEF NoRow
<1>10. CASE Sweep(w)
  <2>1. /\ cur'[w] \in Loans /\ row' = row
        /\ \A l \in todo'[w] \cup {cur'[w]} : row[l].state = "FAILED"
    BY <1>10 DEF Sweep, SweepCandidates, Start, TypeInv, TypeOK, dbVars
  <2> QED BY <1>9, <2>1 DEF FirstOf
<1>11. ASSUME NEW l \in Loans, HttpInitiate(w, l) \/ Consume(w, l)
       PROVE  FirstOf(w)'
  <2>1. CASE pc'[w] # "idle" /\ pc[w] = "idle"
    <3>1. /\ todo'[w] = {} /\ cur'[w] = l
          /\ snap'[w] = [m \in Loans |-> NoRow]
      BY <1>11, <2>1
      DEF HttpInitiate, Consume, Start, TypeInv, TypeOK, JobInv
    <3> QED BY <1>9, <3>1 DEF FirstOf
  <2>2. CASE pc'[w] = "idle"
    BY <1>1, <2>2
  <2> QED BY <1>11, <2>1, <2>2 DEF HttpInitiate, Consume, Start
<1>12. ASSUME NEW l \in Loans, Retry(w, l) PROVE FirstOf(w)'
  <2>1. /\ pc[w] = "idle" /\ todo'[w] = {} /\ cur'[w] = l
        /\ row' = row /\ row[l].state = "FAILED"
    BY <1>12
    DEF Retry, RetryEligible, Start, TypeInv, TypeOK, JobInv, dbVars
  <2> QED BY <1>9, <2>1 DEF FirstOf
<1>13. ASSUME NEW h \in hooks, Webhook(w, h) PROVE FirstOf(w)'
  BY <1>1, <1>13 DEF Webhook, Start, TypeInv, TypeOK
<1> QED
  BY <1>4, <1>5, <1>6, <1>7, <1>8, <1>10, <1>11, <1>12, <1>13
  DEF SessionStep, JobStep

\* Every step, or stuttering step, preserves the invariant.
LEMMA NextFirstInv ==
    ASSUME TypeInv, LockInv, FirstInv, [Next]_vars PROVE FirstInv'
<1>1. ASSUME NEW w \in Workers, SessionStep(w) PROVE FirstInv'
  <2>1. RowsStay
    BY <1>1, NextRowsStay DEF Next, SessionStep
  <2>2. ASSUME NEW v \in Workers, v # w PROVE FirstOf(v)'
    <3>1. /\ pc'[v] = pc[v] /\ cur'[v] = cur[v] /\ todo'[v] = todo[v]
          /\ snap'[v] = snap[v]
      BY <1>1, <2>2, StepAlone DEF Alone
    <3>2. pc[v] # "idle" => todo[v] \cup {cur[v]} \subseteq Loans
      BY DEF TypeInv, TypeOK, JobInv
    <3> QED BY <2>1, <3>1, <3>2 DEF FirstInv, FirstOf, RowsStay
  <2>3. \A v \in Workers : FirstOf(v)'
    BY <1>1, <2>1, <2>2, StepFirstOf DEF FirstInv
  <2>4. ASSUME NEW l \in Loans, row'[l] = NoRow, NEW a \in Attempts \ {1},
               transfer'[l][a] # "none"
        PROVE  FALSE
    <3>1. row[l] = NoRow /\ transfer[l][a] = "none"
      BY <2>1, <2>4 DEF RowsStay, FirstInv, InitiateIsIdempotent
    <3>2. Accept(w) /\ l = cur[w] /\ a = AttemptOf(w)
      BY <1>1, <2>4, <3>1
      DEF SessionStep, JobStep, Insert, Reset, DeadlockAbort, CallReturns,
          CallRaises, InitiateRaises, EmitDisbursed, WriteWebhook, Commit,
          SweepDiscarded, Ack, Accept, Crash, Sweep, HttpInitiate, Consume,
          Retry, Webhook, TypeInv, TypeOK, providerVars
    <3>3. snap[w][cur[w]].attempt = 0
      BY <3>1, <3>2 DEF Accept, FirstInv, FirstOf
    <3> QED BY <2>4, <3>2, <3>3 DEF AttemptOf
  <2> QED BY <2>3, <2>4 DEF FirstInv, InitiateIsIdempotent
<1>2. ASSUME NEW l \in Loans, NEW a \in Attempts, Settle(l, a) \/ Reverse(l, a)
      PROVE  FirstInv'
  <2>1. \A m \in Loans, b \in Attempts :
          transfer'[m][b] # "none" => transfer[m][b] # "none"
    <3>1. transfer[l][a] # "none"
      BY <1>2 DEF Settle, Reverse
    <3>2. \A m \in Loans, b \in Attempts :
            transfer'[m][b] = transfer[m][b] \/ (m = l /\ b = a)
      BY <1>2 DEF Settle, Reverse, TypeInv, TypeOK
    <3> QED BY <3>1, <3>2
  <2>2. UNCHANGED <<dbVars, workerVars>>
    BY <1>2 DEF Settle, Reverse
  <2> QED
    BY <2>1, <2>2
    DEF FirstInv, FirstOf, InitiateIsIdempotent, dbVars, workerVars
<1>3. CASE UNCHANGED vars
  BY <1>3
  DEF vars, FirstInv, FirstOf, InitiateIsIdempotent, dbVars, providerVars,
      workerVars
<1> QED BY <1>1, <1>2, <1>3 DEF Next, SessionStep

(* However many requests and messages initiate one loan, in whatever       *)
(* overlap, and whichever of them die: as long as the loan has no row, the *)
(* provider has seen one reference of it at most, since initiate() sends   *)
(* the first whenever it finds no row, and a retry finds one.              *)
THEOREM InitiateRepeatsItsReference == Spec => []InitiateIsIdempotent
<1>1. Init => FirstInv
  BY InitRow DEF Init, FirstInv, FirstOf, InitiateIsIdempotent
<1>2. TypeInv /\ LockInv /\ FirstInv /\ [Next]_vars => FirstInv'
  BY NextFirstInv
<1>3. FirstInv => InitiateIsIdempotent
  BY DEF FirstInv
<1> QED BY <1>1, <1>2, <1>3, TypeCorrect, LockInvHolds, PTL DEF Spec

-----------------------------------------------------------------------------
(* Sessions that do not work on the same loan at the same time.           *)

(* What one session knows, as long as no other works on its loans: the     *)
(* rows it read are the committed ones, it holds locks only between its    *)
(* first flush and its end, and the rows it holds are FAILED, or the one   *)
(* initiate() inserts, which it never keeps beyond the call.               *)
SessionOf(w) ==
    /\ HolderOf(w)
    /\ pc[w] = "insert" => ~Retrying(w) /\ snap[w][cur[w]] = NoRow
    /\ pc[w] \in {"reset", "call"} =>
         /\ snap[w][cur[w]] = row[cur[w]]
         /\ \A l \in todo[w] : snap[w][l] = row[l] /\ row[l].state = "FAILED"
    /\ pc[w] = "reset" => Retrying(w) /\ row[cur[w]].state = "FAILED"
    /\ pc[w] \in {"emit", "write"} =>
         /\ cur[w] = hook[w].loan
         /\ snap[w][cur[w]] = row[cur[w]]
         /\ row[cur[w]].code = hook[w].attempt
         /\ row[cur[w]].state \notin Terminal
    /\ \A l \in Loans : lock[l] = w =>
         \/ row[l].state = "FAILED" /\ Retrying(w)
         \/ /\ row[l].state = "ABSENT" /\ ~Retrying(w)
            /\ pc[w] = "call" /\ l = cur[w]

SessionInv == \A w \in Workers : SessionOf(w)

\* A step of one session leaves what the others know true.
LEMMA SessionFrame ==
    ASSUME TypeInv, Separate, SessionInv, NEW w \in Workers, Alone(w),
           SessionOf(w)'
    PROVE  SessionInv'
<1> SUFFICES ASSUME NEW v \in Workers, v # w PROVE SessionOf(v)'
  BY DEF SessionInv
<1>1. \A l \in Touches(v) : row'[l] = row[l]
  BY DEF Alone, Separate, Touches
<1>2. /\ pc'[v] = pc[v] /\ cur'[v] = cur[v] /\ todo'[v] = todo[v]
      /\ snap'[v] = snap[v] /\ hook'[v] = hook[v] /\ job'[v] = job[v]
      /\ \A l \in Loans : lock'[l] = v <=> lock[l] = v
  BY DEF Alone
<1>3. todo[v] \subseteq Loans /\ (pc[v] # "idle" => cur[v] \in Loans)
  BY DEF TypeInv, TypeOK, JobInv
<1>4. pc[v] # "idle" => row'[cur[v]] = row[cur[v]]
  BY <1>1, <1>3 DEF Touches
<1>5. \A l \in todo[v] : row'[l] = row[l]
  BY <1>1, <1>3 DEF Touches
<1>6. \A l \in Loans : lock[l] = v => row'[l] = row[l]
  BY <1>1 DEF Touches
<1>7. SessionOf(v)
  BY DEF SessionInv
<1> QED BY <1>2, <1>3, <1>4, <1>5, <1>6, <1>7 DEF SessionOf, HolderOf, Retrying

\* After a step, the session still knows what it did.
LEMMA StepSessionOf ==
    ASSUME TypeInv, SessionInv, NEW w \in Workers, SessionStep(w)
    PROVE  SessionOf(w)'
<1>1. SessionOf(w) /\ (pc[w] # "idle" => cur[w] \in Loans)
  BY DEF SessionInv, TypeInv, JobInv
<1>2. CASE Insert(w)
  <2>1. /\ cur[w] \in Loans /\ todo[w] = {} /\ snap[w][cur[w]] = NoRow
        /\ \A l \in Loans : lock[l] # w
        /\ ~Retrying(w)
    BY <1>1, <1>2 DEF Insert, SessionOf, HolderOf
  <2>2. CASE row[cur[w]] = NoRow /\ Lock(w, cur[w], FirstRow) /\ Goto(w, "call")
    <3>1. NoRow.state = "ABSENT"
      BY DEF NoRow
    <3>2. /\ pc'[w] = "call" /\ row' = row
          /\ cur' = cur /\ todo' = todo /\ snap' = snap
          /\ ~Retrying(w)'
          /\ \A l \in Loans : lock'[l] = w => l = cur[w]
      BY <2>1, <2>2 DEF Lock, Goto, Retrying, TypeInv, TypeOK
    <3> QED BY <2>1, <2>2, <3>1, <3>2 DEF SessionOf, HolderOf
  <2>3. CASE End(w) /\ UNCHANGED dbVars
    BY <2>1, <2>3 DEF End, SessionOf, HolderOf, Retrying, TypeInv, TypeOK, dbVars
  <2> QED BY <1>2, <2>2, <2>3 DEF Insert
<1>3. CASE Reset(w)
  BY <1>1, <1>3
  DEF Reset, Lock, Goto, SessionOf, HolderOf, Retrying, NoRow, TypeInv, TypeOK,
      JobInv, dbVars, workerVars
<1>4. CASE DeadlockAbort(w)
  BY <1>1, <1>4
  DEF DeadlockAbort, Rollback, Release, End, SessionOf, HolderOf, Retrying, NoRow,
      TypeInv, TypeOK, JobInv, dbVars, workerVars
<1>5. CASE CallReturns(w)
  BY <1>1, <1>5
  DEF CallReturns, Proceed, SessionOf, HolderOf, Retrying, NoRow, TypeInv, TypeOK,
      JobInv, dbVars, workerVars
<1>6. CASE CallRaises(w)
  BY <1>1, <1>6
  DEF CallRaises, Proceed, SessionOf, HolderOf, Retrying, NoRow, TypeInv, TypeOK,
      JobInv, dbVars, workerVars
<1>7. CASE EmitDisbursed(w)
  BY SMTT(30), <1>1, <1>7
  DEF EmitDisbursed, Goto, SessionOf, HolderOf, Retrying, NoRow, TypeInv, TypeOK,
      JobInv, dbVars, workerVars
<1>8. CASE WriteWebhook(w)
  BY <1>1, <1>8
  DEF WriteWebhook, Goto, SessionOf, HolderOf, Retrying, NoRow, TypeInv, TypeOK,
      JobInv, dbVars, workerVars
<1>9. CASE Commit(w)
  BY <1>1, <1>9
  DEF Commit, Release, Goto, End, SessionOf, HolderOf, Retrying, NoRow, TypeInv,
      TypeOK, JobInv, dbVars, workerVars
<1>10. CASE SweepDiscarded(w)
  BY <1>1, <1>10
  DEF SweepDiscarded, Rollback, Release, End, SessionOf, HolderOf, Retrying, NoRow,
      TypeInv, TypeOK, JobInv, dbVars, workerVars
<1>11. CASE Ack(w)
  BY <1>1, <1>11
  DEF Ack, End, SessionOf, HolderOf, Retrying, NoRow, TypeInv, TypeOK, JobInv, dbVars,
      workerVars
<1>12. CASE Accept(w)
  BY <1>1, <1>12
  DEF Accept, SessionOf, HolderOf, Retrying, NoRow, TypeInv, TypeOK, JobInv, dbVars,
      workerVars
<1>13. CASE Crash(w)
  BY <1>1, <1>13
  DEF Crash, Rollback, Release, End, SessionOf, HolderOf, Retrying, NoRow, TypeInv,
      TypeOK, JobInv, dbVars, workerVars
<1>19. CASE InitiateRaises(w)
  BY <1>1, <1>19
  DEF InitiateRaises, Rollback, Release, End, SessionOf, HolderOf, Retrying, NoRow,
      TypeInv, TypeOK, JobInv, dbVars, workerVars
<1>14. CASE Sweep(w)
  BY <1>1, <1>14
  DEF Sweep, Start, SweepCandidates, SessionOf, HolderOf, Retrying, NoRow, TypeInv,
      TypeOK, JobInv, dbVars, workerVars
<1>15. ASSUME NEW l \in Loans, HttpInitiate(w, l) PROVE SessionOf(w)'
  BY <1>1, <1>15
  DEF HttpInitiate, Start, SessionOf, HolderOf, Retrying, TypeInv, TypeOK, JobInv,
      dbVars, workerVars
<1>16. ASSUME NEW l \in Loans, Consume(w, l) PROVE SessionOf(w)'
  BY <1>1, <1>16
  DEF Consume, Start, SessionOf, HolderOf, Retrying, TypeInv, TypeOK, JobInv, dbVars,
      workerVars
<1>17. ASSUME NEW l \in Loans, Retry(w, l) PROVE SessionOf(w)'
  BY <1>1, <1>17
  DEF Retry, Start, RetryEligible, SessionOf, HolderOf, Retrying, NoRow, TypeInv,
      TypeOK, JobInv, dbVars, workerVars
<1>18. ASSUME NEW h \in hooks, Webhook(w, h) PROVE SessionOf(w)'
  <2>1. /\ h.loan \in Loans /\ pc[w] = "idle" /\ todo[w] = {}
        /\ \A l \in Loans : lock[l] # w
    BY <1>1, <1>18
    DEF Webhook, Start, SessionOf, HolderOf, Retrying, Hooks, TypeInv, TypeOK, JobInv
  <2>2. /\ cur'[w] = h.loan /\ hook'[w] = h
        /\ todo' = todo /\ row' = row /\ lock' = lock
        /\ pc'[w] \in {"emit", "write", "ack"}
    BY <1>18 DEF Webhook, Start, TypeInv, TypeOK, dbVars
  <2>3. pc'[w] \in {"emit", "write"} =>
          /\ snap'[w][h.loan] = row[h.loan]
          /\ row[h.loan].code = h.attempt /\ row[h.loan].state \notin Terminal
    BY <1>18, <2>1, <2>2 DEF Webhook, Start, TypeInv, TypeOK
  <2> QED BY <2>1, <2>2, <2>3 DEF SessionOf, HolderOf, Retrying
<1> QED
  BY <1>2, <1>3, <1>4, <1>5, <1>6, <1>7, <1>8, <1>9, <1>10, <1>11, <1>12,
     <1>13, <1>14, <1>15, <1>16, <1>17, <1>18, <1>19
  DEF SessionStep, JobStep

\* Every step, or stuttering step, preserves the invariant.
LEMMA NextSessionInv ==
    ASSUME TypeInv, Separate, SessionInv, [Next]_vars PROVE SessionInv'
<1>1. ASSUME NEW w \in Workers, SessionStep(w) PROVE SessionInv'
  BY <1>1, StepAlone, StepSessionOf, SessionFrame
<1>2. ASSUME NEW l \in Loans, NEW a \in Attempts, Settle(l, a) \/ Reverse(l, a)
      PROVE  SessionInv'
  BY <1>2
  DEF Settle, Reverse, SessionInv, SessionOf, HolderOf, Retrying, dbVars, workerVars
<1>3. CASE UNCHANGED vars
  BY <1>3 DEF vars, SessionInv, SessionOf, HolderOf, Retrying, dbVars, workerVars
<1> QED BY <1>1, <1>2, <1>3 DEF Next, SessionStep

\* Sessions that keep apart know what SessionOf says.
LEMMA SessionInvHolds == Spec /\ []Separate => []SessionInv
<1>1. Init => SessionInv
  BY DEF Init, SessionInv, SessionOf, HolderOf
<1>2. TypeInv /\ Separate /\ SessionInv /\ [Next]_vars => SessionInv'
  BY NextSessionInv
<1> QED BY <1>1, <1>2, TypeCorrect, PTL DEF Spec

(* As long as no two sessions work on the same loan at the same time, a    *)
(* terminal row keeps its state, whatever crashes, repeated webhooks and   *)
(* ambiguous calls: the guard of handle_webhook and the eligibility of a   *)
(* retry still hold when the row is written.                               *)
THEOREM TerminalStaysFinal == Spec /\ []Separate => TerminalIsFinal
<1>1. ASSUME TypeInv, SessionInv, [Next]_vars
      PROVE  [\A l \in Loans :
                row[l].state \in Terminal => row'[l].state = row[l].state]_vars
  <2>1. ASSUME NEW w \in Workers, SessionStep(w), NEW l \in Loans,
               row[l].state \in Terminal
        PROVE  row'[l].state = row[l].state
    <3>1. lock[l] # w /\ (pc[w] = "write" => l # cur[w])
      BY <1>1, <2>1 DEF SessionInv, SessionOf, HolderOf, Terminal
    <3>2. CASE Commit(w)
      BY <3>1, <3>2 DEF Commit
    <3>3. CASE WriteWebhook(w)
      BY <1>1, <3>1, <3>3 DEF WriteWebhook, TypeInv, TypeOK
    <3>4. CASE UNCHANGED row
      BY <3>4
    <3> QED
      BY <2>1, <3>2, <3>3, <3>4
      DEF SessionStep, JobStep, Insert, Reset, DeadlockAbort, CallReturns,
          CallRaises, InitiateRaises, EmitDisbursed, SweepDiscarded, Ack,
          Accept, Crash, Sweep, HttpInitiate, Consume, Retry, Webhook, Lock,
          Rollback, dbVars
  <2>2. ASSUME NEW l \in Loans, NEW a \in Attempts, Settle(l, a) \/ Reverse(l, a)
        PROVE  UNCHANGED row
    BY <2>2 DEF Settle, Reverse, dbVars
  <2>3. CASE UNCHANGED vars
    BY <2>3
  <2>4. CASE Next
    BY <2>1, <2>2, <2>4 DEF Next, SessionStep
  <2> QED BY <2>3, <2>4, <1>1
<1> QED BY <1>1, TypeCorrect, SessionInvHolds, PTL DEF Spec, TerminalIsFinal
(* A webhook, in flight or being handled, says what became of the        *)
(* transfer it is about.                                                   *)
HookTrue(h) ==
    /\ h.status = "success" =>
         transfer[h.loan][h.attempt] \in {"success", "reversed"}
    /\ h.status # "success" => transfer[h.loan][h.attempt] = h.status

TruthInv ==
    /\ \A h \in hooks : HookTrue(h)
    /\ \A w \in Workers : pc[w] \in {"emit", "write"} => HookTrue(hook[w])

\* Every step, or stuttering step, preserves the invariant.
LEMMA NextTruthInv ==
    ASSUME TypeInv, TruthInv, [Next]_vars PROVE TruthInv'
<1>1. ASSUME NEW l \in Loans, NEW a \in Attempts,
             NEW s \in {"success", "failed", "reversed"},
             transfer[l][a] \in {"pending", "success"},
             s # "reversed" => transfer[l][a] = "pending",
             transfer' = [transfer EXCEPT ![l][a] = s],
             hooks' = hooks \cup {[loan |-> l, attempt |-> a, status |-> s]},
             UNCHANGED workerVars
      PROVE  TruthInv'
  <2>1. ASSUME NEW h \in Hooks, HookTrue(h) PROVE HookTrue(h)'
    BY <1>1, <2>1 DEF HookTrue, Hooks, TypeInv, TypeOK
  <2>2. HookTrue([loan |-> l, attempt |-> a, status |-> s])'
    BY <1>1 DEF HookTrue, TypeInv, TypeOK
  <2>3. \A w \in Workers : pc[w] \in {"emit", "write"} => hook[w] \in Hooks
    BY DEF TypeInv, JobInv
  <2> QED BY <1>1, <2>1, <2>2, <2>3 DEF TruthInv, TypeInv, TypeOK, workerVars
<1>2. ASSUME NEW l \in Loans, NEW a \in Attempts, Settle(l, a) PROVE TruthInv'
  <2>1. PICK s \in {"success", "failed"} :
          /\ transfer' = [transfer EXCEPT ![l][a] = s]
          /\ hooks' = hooks \cup {[loan |-> l, attempt |-> a, status |-> s]}
    BY <1>2 DEF Settle
  <2> QED BY <1>1, <1>2, <2>1 DEF Settle
<1>3. ASSUME NEW l \in Loans, NEW a \in Attempts, Reverse(l, a) PROVE TruthInv'
  BY <1>1, <1>3 DEF Reverse
<1>4. ASSUME NEW w \in Workers, Accept(w) PROVE TruthInv'
  <2>1. \A m \in Loans, a \in Attempts :
          transfer[m][a] # "none" => transfer'[m][a] = transfer[m][a]
    BY <1>4 DEF Accept, TypeInv, TypeOK
  <2>2. ASSUME NEW h \in Hooks, HookTrue(h) PROVE HookTrue(h)'
    BY <2>1, <2>2 DEF HookTrue, Hooks
  <2>3. \A v \in Workers : pc[v] \in {"emit", "write"} => hook[v] \in Hooks
    BY DEF TypeInv, JobInv
  <2> QED BY <1>4, <2>2, <2>3 DEF Accept, TruthInv, TypeInv, TypeOK, workerVars
<1>5. ASSUME NEW w \in Workers, SessionStep(w), ~Accept(w) PROVE TruthInv'
  <2>1. UNCHANGED transfer /\ hooks' \subseteq hooks
    BY <1>5
    DEF SessionStep, JobStep, Insert, Reset, DeadlockAbort, CallReturns,
        CallRaises, InitiateRaises, EmitDisbursed, WriteWebhook, Commit,
        SweepDiscarded, Ack, Crash, Sweep, HttpInitiate, Consume, Retry, Webhook, providerVars
  <2>2. \A v \in Workers \ {w} : pc'[v] = pc[v] /\ hook'[v] = hook[v]
    BY SMTT(30), <1>5, StepAlone DEF Alone
  <2>3. pc'[w] \in {"emit", "write"} =>
          hook'[w] \in hooks \/ (pc[w] \in {"emit", "write"} /\ hook'[w] = hook[w])
    BY <1>5
    DEF SessionStep, JobStep, Insert, Reset, DeadlockAbort, CallReturns,
        CallRaises, InitiateRaises, EmitDisbursed, WriteWebhook, Commit,
        SweepDiscarded, Ack, Crash, Sweep, HttpInitiate, Consume, Retry, Webhook, Start, Goto, End,
        Proceed, TypeInv, TypeOK
  <2>4. \A h : HookTrue(h) => HookTrue(h)'
    BY <2>1 DEF HookTrue
  <2> QED BY <2>1, <2>2, <2>3, <2>4 DEF TruthInv
<1>6. CASE UNCHANGED vars
  BY <1>6 DEF vars, TruthInv, HookTrue, providerVars, workerVars
<1> QED BY <1>2, <1>3, <1>4, <1>5, <1>6 DEF Next, SessionStep
\* The session holding loan l's row is inside the provider call for it.
Calling(l) == lock[l] # Nobody /\ pc[lock[l]] = "call" /\ cur[lock[l]] = l

\* The attempt the next call for a loan with row r will send, or the one the
\* row's transfer was sent with.
NextRef(r) == IF r.state \in {"FAILED", "ABSENT"} THEN r.attempt + 1 ELSE r.attempt

(* Only the next reference of a loan, or the current one of its row, can   *)
(* have a transfer that did not fail, none beyond it was ever sent, and a  *)
(* FAILED row with a transfer_code has the code of a transfer that failed. *)
RowLedger(l) ==
    /\ row[l].state \in {"ABSENT", "TRANSFER_INITIATED", "FAILED",
                         "COMPLETED", "REVERSED"}
    /\ row[l].state = "ABSENT" => row[l] = NoRow
    /\ row[l].state \in {"TRANSFER_INITIATED", "COMPLETED", "REVERSED"} =>
         row[l].code = row[l].attempt /\ row[l].attempt > 0
    /\ row[l].state = "FAILED" /\ row[l].code # 0 =>
         transfer[l][row[l].code] = "failed"
    /\ \A a \in Attempts :
         /\ a # NextRef(row[l]) => transfer[l][a] \in {"none", "failed"}
         /\ a > NextRef(row[l]) => transfer[l][a] = "none"

(* The draft of a row is the row itself during the call, and after it what *)
(* the call made of it.                                                    *)
DraftLedger(l) ==
    /\ Calling(l) =>
         /\ draft[l].code = row[l].code /\ draft[l].attempt = row[l].attempt
         /\ draft[l].state \in {"PENDING", "RECIPIENT_READY"}
    /\ lock[l] # Nobody /\ ~Calling(l) =>
         /\ draft[l].attempt = NextRef(row[l])
         /\ \/ draft[l].state = "TRANSFER_INITIATED" /\ draft[l].code = NextRef(row[l])
            \/ /\ draft[l].state = "FAILED" /\ draft[l].code = row[l].code
               /\ transfer[l][NextRef(row[l])] = "none"

LedgerInv == \A l \in Loans : RowLedger(l) /\ DraftLedger(l)

\* RowLedger and DraftLedger depend on the loan's own row and transfers.
LEMMA LedgerOfSame ==
    ASSUME NEW l \in Loans, RowLedger(l), DraftLedger(l),
           row'[l] = row[l], lock'[l] = lock[l], draft'[l] = draft[l],
           transfer'[l] = transfer[l], Calling(l)' <=> Calling(l)
    PROVE  RowLedger(l)' /\ DraftLedger(l)'
BY DEF RowLedger, DraftLedger, NextRef

\* Nothing of a loan a session does not work on is changed by its steps.
LEMMA CallingElsewhere ==
    ASSUME TypeInv, NEW w \in Workers, Alone(w), NEW l \in Loans, l \notin Touches(w)
    PROVE  /\ row'[l] = row[l] /\ lock'[l] = lock[l] /\ draft'[l] = draft[l]
           /\ Calling(l)' <=> Calling(l)
<1>1. row'[l] = row[l] /\ lock'[l] = lock[l] /\ draft'[l] = draft[l] /\ lock[l] # w
  BY DEF Alone, Touches
<1>2. CASE lock[l] = Nobody
  BY <1>1, <1>2 DEF Calling
<1>3. CASE lock[l] # Nobody
  <2>1. lock[l] \in Workers \ {w}
    BY <1>1, <1>3 DEF TypeInv, TypeOK
  <2>2. pc'[lock[l]] = pc[lock[l]] /\ cur'[lock[l]] = cur[lock[l]]
    BY <2>1 DEF Alone
  <2> QED BY <1>1, <2>2 DEF Calling
<1> QED BY <1>1, <1>2, <1>3

\* A step of one session that leaves the transfers alone.
LEMMA LedgerFrame ==
    ASSUME TypeInv, LedgerInv, NEW w \in Workers, Alone(w), UNCHANGED transfer,
           \A l \in Touches(w) : RowLedger(l)' /\ DraftLedger(l)'
    PROVE  LedgerInv'
<1> SUFFICES ASSUME NEW l \in Loans, l \notin Touches(w)
             PROVE  RowLedger(l)' /\ DraftLedger(l)'
  BY DEF LedgerInv
<1> QED BY CallingElsewhere, LedgerOfSame DEF LedgerInv

\* Every step of a session preserves LedgerInv.
LEMMA StepLedger ==
    ASSUME "ambiguous_call" \notin Faults,
           TypeInv, LockInv, Separate, SessionInv, TruthInv, LedgerInv,
           NEW w \in Workers, SessionStep(w)
    PROVE  LedgerInv'
<1> DEFINE Kept == \A l \in Touches(w) : RowLedger(l)' /\ DraftLedger(l)'
<1>1. /\ Alone(w) /\ SessionOf(w)
      /\ pc[w] # "idle" => cur[w] \in Loans
      /\ pc[w] = "call" => lock[cur[w]] = w
      /\ \A l \in Loans : l \in Touches(w) => lock[l] \in {w, Nobody}
  BY StepAlone
  DEF SessionInv, LockInv, TypeInv, TypeOK, JobInv, Separate, Touches
<1>2. \A l \in Touches(w) : l \in Loans /\ RowLedger(l) /\ DraftLedger(l)
  BY DEF LedgerInv, Touches
<1>3. ASSUME UNCHANGED <<dbVars, transfer>>, \A l \in Loans : lock[l] # w
      PROVE  LedgerInv'
  <2>1. ASSUME NEW l \in Touches(w) PROVE Calling(l) <=> Calling(l)'
    BY <1>1, <1>3 DEF Calling, Touches, dbVars
  <2>2. Kept
    BY <1>2, <1>3, <2>1, LedgerOfSame DEF dbVars
  <2> QED BY <1>1, <1>3, <2>2, LedgerFrame
<1>4. ASSUME Rollback(w), End(w), UNCHANGED transfer PROVE LedgerInv'
  <2>1. \A l \in Touches(w) : row'[l] = row[l] /\ lock'[l] = Nobody
    BY <1>1, <1>2, <1>4 DEF Rollback, Release
  <2>2. Kept
    BY <1>2, <1>4, <2>1 DEF RowLedger, DraftLedger, Calling, NextRef
  <2> QED BY <1>1, <1>4, <2>2, LedgerFrame
<1>5. ASSUME pc[w] = "call", Proceed(w), UNCHANGED <<row, lock, transfer>>,
             NEW d, draft' = [draft EXCEPT ![cur[w]] = d],
             d.attempt = AttemptOf(w),
             \/ d.state = "TRANSFER_INITIATED" /\ d.code = AttemptOf(w)
             \/ /\ d.state = "FAILED" /\ d.code = draft[cur[w]].code
                /\ transfer[cur[w]][AttemptOf(w)] = "none"
      PROVE  LedgerInv'
  <2>1. row[cur[w]].state \in {"FAILED", "ABSENT"} /\ Calling(cur[w])
    BY <1>1, <1>5 DEF SessionOf, HolderOf, Calling
  <2>2. AttemptOf(w) = NextRef(row[cur[w]])
    BY <1>1, <1>5, <2>1 DEF SessionOf, HolderOf, AttemptOf, NextRef
  <2>3. pc' = [pc EXCEPT ![w] = "commit"] \/ pc' = [pc EXCEPT ![w] = "reset"]
    BY <1>5 DEF Proceed
  <2>4. pc'[w] # "call"
    BY <2>3 DEF TypeInv, TypeOK
  <2>5. ASSUME NEW l \in Touches(w), l = cur[w]
        PROVE  RowLedger(l)' /\ DraftLedger(l)'
    <3>1. lock[l] = w /\ lock'[l] = w /\ draft'[l] = d
      BY <1>1, <1>2, <1>5, <2>5 DEF TypeInv, TypeOK
    <3>2. ~Calling(l)'
      BY <2>4, <3>1 DEF Calling
    <3>3. RowLedger(l) /\ draft[l].code = row[l].code
      BY <1>2, <2>1, <2>5 DEF DraftLedger
    <3>4. RowLedger(l)'
      BY <1>5, <3>3 DEF RowLedger
    <3>5. DraftLedger(l)'
      BY <1>5, <2>2, <2>5, <3>1, <3>2, <3>3 DEF DraftLedger
    <3> QED BY <3>4, <3>5
  <2>6. ASSUME NEW l \in Touches(w), l # cur[w]
        PROVE  RowLedger(l)' /\ DraftLedger(l)'
    <3>1. draft'[l] = draft[l] /\ ~Calling(l) /\ ~Calling(l)'
      BY <1>1, <1>2, <1>5, <2>4, <2>6 DEF Calling, TypeInv, TypeOK, Touches
    <3> QED BY <1>2, <1>5, <3>1, LedgerOfSame
  <2> QED BY <1>1, <1>5, <2>5, <2>6, LedgerFrame
<1>6. ASSUME NEW r, Lock(w, cur[w], r), pc[w] \in {"insert", "reset"}, Goto(w, "call"),
             UNCHANGED transfer, r.state \in {"PENDING", "RECIPIENT_READY"},
             r.code = row[cur[w]].code, r.attempt = row[cur[w]].attempt
      PROVE  LedgerInv'
  <2>1. /\ cur[w] \in Loans /\ draft'[cur[w]] = r /\ lock'[cur[w]] = w
        /\ pc'[w] = "call" /\ cur' = cur /\ row' = row
        /\ \A l \in Loans : l # cur[w] => lock'[l] = lock[l] /\ draft'[l] = draft[l]
    BY <1>1, <1>6 DEF Lock, Goto, TypeInv, TypeOK
  <2>2. ASSUME NEW l \in Touches(w), l = cur[w]
        PROVE  RowLedger(l)' /\ DraftLedger(l)'
    BY <1>2, <1>6, <2>1, <2>2 DEF RowLedger, DraftLedger, NextRef, Calling
  <2>3. ASSUME NEW l \in Touches(w), l # cur[w]
        PROVE  RowLedger(l)' /\ DraftLedger(l)'
    <3>1. ~Calling(l) /\ ~Calling(l)'
      BY <1>1, <1>2, <1>6, <2>1, <2>3 DEF Calling, Touches
    <3> QED BY <1>2, <1>6, <2>1, <2>3, <3>1, LedgerOfSame
  <2> QED BY <1>1, <1>6, <2>2, <2>3, LedgerFrame
<1>7. CASE Insert(w)
  <2>1. CASE row[cur[w]] = NoRow /\ Lock(w, cur[w], FirstRow) /\ Goto(w, "call")
    <3>1. /\ FirstRow.state = "RECIPIENT_READY"
          /\ FirstRow.code = NoRow.code /\ FirstRow.attempt = NoRow.attempt
      BY DEF FirstRow, NoRow
    <3> QED BY <1>6, <1>7, <2>1, <3>1 DEF Insert, providerVars
  <2>2. CASE End(w) /\ UNCHANGED dbVars
    BY <1>1, <1>3, <1>7, <2>2 DEF Insert, SessionOf, HolderOf, providerVars
  <2> QED BY <1>7, <2>1, <2>2 DEF Insert
<1>8. CASE Reset(w)
  <2> DEFINE r == [row[cur[w]] EXCEPT !.state = "PENDING",
                                      !.retry = @ /\ ~snap[w][cur[w]].retry]
  <2>1. row[cur[w]] \in Rows
    BY <1>1, <1>8 DEF Reset, TypeInv, TypeOK
  <2>2. /\ r.state = "PENDING" /\ r.code = row[cur[w]].code
        /\ r.attempt = row[cur[w]].attempt
    BY <2>1 DEF Rows
  <2>3. Lock(w, cur[w], r) /\ Goto(w, "call") /\ UNCHANGED transfer /\ pc[w] = "reset"
    BY <1>8 DEF Reset, providerVars
  <2> HIDE DEF r
  <2> QED BY <1>6, <2>2, <2>3
<1>9. CASE CallReturns(w)
  <2> DEFINE d == Initiated(draft[cur[w]], AttemptOf(w))
  <2>1. draft[cur[w]] \in Rows
    BY <1>1, <1>9 DEF CallReturns, TypeInv, TypeOK
  <2>2. /\ d.attempt = AttemptOf(w) /\ d.code = AttemptOf(w)
        /\ d.state = "TRANSFER_INITIATED"
    BY <2>1 DEF Initiated, Rows
  <2>3. /\ pc[w] = "call" /\ Proceed(w) /\ UNCHANGED <<row, lock, transfer>>
        /\ draft' = [draft EXCEPT ![cur[w]] = d]
    BY <1>9 DEF CallReturns, providerVars
  <2> HIDE DEF d
  <2> QED BY <1>5, <2>2, <2>3
<1>10. CASE CallRaises(w)
  <2> DEFINE d == NotInitiated(draft[cur[w]], AttemptOf(w))
  <2>1. draft[cur[w]] \in Rows
    BY <1>1, <1>10 DEF CallRaises, TypeInv, TypeOK
  <2>2. d.attempt = AttemptOf(w) /\ d.state = "FAILED" /\ d.code = draft[cur[w]].code
    BY <2>1 DEF NotInitiated, Rows
  <2>3. /\ pc[w] = "call" /\ Proceed(w) /\ UNCHANGED <<row, lock, transfer>>
        /\ draft' = [draft EXCEPT ![cur[w]] = d]
        /\ transfer[cur[w]][AttemptOf(w)] = "none"
    BY <1>10 DEF CallRaises, providerVars
  <2> HIDE DEF d
  <2> QED BY <1>5, <2>2, <2>3
<1>11. CASE \/ DeadlockAbort(w) \/ SweepDiscarded(w)
            \/ InitiateRaises(w) \/ Crash(w)
  BY <1>4, <1>11
  DEF DeadlockAbort, SweepDiscarded, InitiateRaises, Crash, providerVars
<1>12. CASE EmitDisbursed(w) \/ Ack(w)
  BY <1>1, <1>3, <1>12 DEF EmitDisbursed, Ack, SessionOf, HolderOf, providerVars
<1>13. ASSUME pc[w] = "idle", UNCHANGED <<dbVars, transfer>> PROVE LedgerInv'
  BY <1>1, <1>3, <1>13 DEF SessionOf, HolderOf
<1>14. CASE \/ Sweep(w)
            \/ \E l \in Loans : HttpInitiate(w, l) \/ Consume(w, l) \/ Retry(w, l)
            \/ \E h \in hooks : Webhook(w, h)
  BY <1>13, <1>14
  DEF Sweep, HttpInitiate, Consume, Retry, Webhook, Start, providerVars
<1>15. CASE Commit(w)
  <2>1. ASSUME NEW l \in Touches(w), lock[l] = w
        PROVE  RowLedger(l)' /\ DraftLedger(l)'
    <3>1. /\ row'[l] = draft[l] /\ lock'[l] = Nobody /\ transfer' = transfer
          /\ ~Calling(l)
      BY <1>2, <1>15, <2>1 DEF Commit, Release, Calling, providerVars
    <3>2. /\ draft[l].attempt = NextRef(row[l])
          /\ row[l].state \in {"FAILED", "ABSENT"}
          /\ \/ draft[l].state = "TRANSFER_INITIATED" /\ draft[l].code = NextRef(row[l])
             \/ /\ draft[l].state = "FAILED" /\ draft[l].code = row[l].code
                /\ transfer[l][NextRef(row[l])] = "none"
      BY <1>1, <1>2, <2>1, <3>1 DEF DraftLedger, SessionOf, HolderOf
    <3>3. row[l].attempt \in Nat /\ NextRef(row[l]) = row[l].attempt + 1
      BY <1>2, <3>2 DEF TypeInv, TypeOK, Rows, NextRef
    <3>4. row[l].state = "ABSENT" => row[l].code = 0
      BY <1>2 DEF RowLedger, NoRow
    <3>5. DraftLedger(l)'
      BY <3>1 DEF DraftLedger, Calling
    <3>6. RowLedger(l)'
      <4>1. CASE draft[l].state = "TRANSFER_INITIATED"
        BY <1>2, <3>1, <3>2, <3>3, <4>1 DEF RowLedger, NextRef
      <4>2. CASE draft[l].state = "FAILED"
        <5>1. NextRef(row'[l]) = NextRef(row[l]) + 1
          BY <3>1, <3>2, <4>2 DEF NextRef
        <5>2. \A a \in Attempts : a \in Nat
          BY DEF Attempts
        <5> QED BY <1>2, <3>1, <3>2, <3>3, <3>4, <4>2, <5>1, <5>2 DEF RowLedger
      <4> QED BY <3>2, <4>1, <4>2
    <3> QED BY <3>5, <3>6
  <2>2. ASSUME NEW l \in Touches(w), lock[l] # w
        PROVE  RowLedger(l)' /\ DraftLedger(l)'
    <3>1. /\ lock[l] = Nobody /\ lock'[l] = Nobody /\ row'[l] = row[l]
          /\ draft'[l] = draft[l] /\ transfer' = transfer
      BY <1>1, <1>2, <1>15, <2>2 DEF Commit, Release, providerVars
    <3> QED BY <1>2, <3>1, LedgerOfSame DEF Calling
  <2> QED BY <1>1, <1>15, <2>1, <2>2, LedgerFrame DEF Commit, providerVars
<1>16. CASE WriteWebhook(w)
  <2>1. /\ hook[w] \in Hooks /\ HookTrue(hook[w]) /\ hook[w].loan = cur[w]
        /\ row[cur[w]].code = hook[w].attempt
        /\ row[cur[w]].state \notin Terminal
        /\ snap[w][cur[w]] = row[cur[w]]
    BY <1>1, <1>16
    DEF WriteWebhook, SessionOf, HolderOf, TypeInv, JobInv, TruthInv
  <2>2. ASSUME NEW l \in Touches(w), l = cur[w]
        PROVE  RowLedger(l)' /\ DraftLedger(l)'
    <3>1. /\ lock'[l] = Nobody /\ transfer' = transfer
          /\ row'[l].code = row[l].code /\ row'[l].attempt = row[l].attempt
          /\ hook[w].status = "success" => row'[l].state = "COMPLETED"
          /\ hook[w].status = "failed" => row'[l].state = "FAILED"
          /\ hook[w].status = "reversed" => row'[l].state = "REVERSED"
      BY <1>2, <1>16, <2>1, <2>2
      DEF WriteWebhook, TypeInv, TypeOK, Rows, providerVars
    <3>2. DraftLedger(l)'
      BY <3>1 DEF DraftLedger, Calling
    <3>3. /\ hook[w].attempt \in Attempts /\ row[l].code # 0
          /\ hook[w].status \in {"success", "failed", "reversed"}
          /\ row[l].attempt \in Nat
          /\ \A a \in Attempts : a \in Nat
      BY <1>2, <2>1, <2>2 DEF Hooks, Attempts, TypeInv, TypeOK, Rows
    <3>4. RowLedger(l)'
      <4>1. CASE row[l].state = "TRANSFER_INITIATED"
        <5>1. row[l].attempt = hook[w].attempt /\ NextRef(row[l]) = row[l].attempt
          BY <1>2, <2>1, <2>2, <4>1 DEF RowLedger, NextRef
        <5>2. CASE hook[w].status = "failed"
          <6>1. NextRef(row'[l]) = row[l].attempt + 1
            BY <3>1, <5>2 DEF NextRef
          <6>2. transfer[l][row[l].code] = "failed"
            BY <2>1, <2>2, <5>2 DEF HookTrue
          <6> QED BY <1>2, <3>1, <3>3, <5>1, <5>2, <6>1, <6>2, <2>1, <2>2 DEF RowLedger
        <5>3. CASE hook[w].status # "failed"
          <6>1. NextRef(row'[l]) = row[l].attempt
            BY <3>1, <3>3, <5>3 DEF NextRef
          <6> QED BY <1>2, <3>1, <3>3, <4>1, <5>1, <5>3, <6>1 DEF RowLedger
        <5> QED BY <5>2, <5>3
      <4>2. CASE row[l].state = "FAILED"
        <5>1. hook[w].status = "failed"
          BY <1>2, <2>1, <2>2, <3>3, <4>2 DEF RowLedger, HookTrue
        <5> QED BY <1>2, <3>1, <4>2, <5>1 DEF RowLedger, NextRef
      <4>3. row[l].state # "ABSENT"
        BY <1>2, <3>3 DEF RowLedger, NoRow
      <4> QED BY <1>2, <2>1, <2>2, <4>1, <4>2, <4>3 DEF RowLedger, Terminal
    <3> QED BY <3>2, <3>4
  <2>3. ASSUME NEW l \in Touches(w), l # cur[w]
        PROVE  RowLedger(l)' /\ DraftLedger(l)'
    <3>1. /\ row'[l] = row[l] /\ lock' = lock /\ draft' = draft
          /\ transfer' = transfer /\ ~Calling(l) /\ ~Calling(l)'
      BY <1>1, <1>2, <1>16, <2>3
      DEF WriteWebhook, Goto, Calling, providerVars, TypeInv, TypeOK
    <3> QED BY <1>2, <3>1, LedgerOfSame
  <2> QED BY <1>1, <1>16, <2>2, <2>3, LedgerFrame DEF WriteWebhook, providerVars
<1>17. CASE Accept(w)
  <2>1. row[cur[w]].state \in {"FAILED", "ABSENT"} /\ Calling(cur[w])
    BY <1>1, <1>17 DEF Accept, SessionOf, HolderOf, Calling
  <2>2. AttemptOf(w) = NextRef(row[cur[w]])
    BY <1>1, <1>17, <2>1 DEF Accept, SessionOf, HolderOf, AttemptOf, NextRef
  <2>3. UNCHANGED <<dbVars, pc, cur>>
    BY <1>17 DEF Accept, workerVars
  <2>4. \A l \in Loans : Calling(l)' <=> Calling(l)
    BY <2>3 DEF Calling, dbVars
  <2>5. \A l \in Loans, a \in Attempts :
          \/ transfer'[l][a] = transfer[l][a]
          \/ l = cur[w] /\ a = NextRef(row[l]) /\ transfer[l][a] = "none"
    BY <1>17, <2>2 DEF Accept, TypeInv, TypeOK
  <2>6. ASSUME NEW l \in Loans PROVE RowLedger(l)'
    <3>1. row[l].code \in Attempts \cup {0}
      BY DEF TypeInv, TypeOK, Rows, Attempts
    <3>2. /\ row[l].attempt \in Nat
          /\ NextRef(row[l]) \in Nat /\ \A a \in Attempts : a \in Nat
      BY DEF TypeInv, TypeOK, Rows, Attempts, NextRef
    <3>3. row'[l] = row[l] /\ RowLedger(l)
      BY <2>3 DEF LedgerInv, dbVars
    <3>4. \A a \in Attempts :
            /\ a # NextRef(row'[l]) => transfer'[l][a] \in {"none", "failed"}
            /\ a > NextRef(row'[l]) => transfer'[l][a] = "none"
      BY <2>5, <3>2, <3>3 DEF RowLedger
    <3>5. row[l].code # 0 => (transfer[l][row[l].code] = "failed" =>
                              transfer'[l][row[l].code] = "failed")
      BY <2>5, <3>1
    <3> QED BY <3>3, <3>4, <3>5 DEF RowLedger
  <2>7. ASSUME NEW l \in Loans PROVE DraftLedger(l)'
    <3>1. CASE l = cur[w]
      BY <2>1, <2>3, <2>4, <3>1 DEF LedgerInv, DraftLedger, dbVars
    <3>2. CASE l # cur[w]
      BY <1>17, <2>3, <2>4, <3>2
      DEF Accept, LedgerInv, DraftLedger, dbVars, TypeInv, TypeOK
    <3> QED BY <3>1, <3>2
  <2> QED BY <2>6, <2>7 DEF LedgerInv
<1> QED
  BY <1>7, <1>8, <1>9, <1>10, <1>11, <1>12, <1>14, <1>15, <1>16, <1>17
  DEF SessionStep, JobStep

\* Every step, or stuttering step, preserves the invariant.
LEMMA NextLedgerInv ==
    ASSUME "ambiguous_call" \notin Faults,
           TypeInv, LockInv, Separate, SessionInv, TruthInv, LedgerInv,
           [Next]_vars
    PROVE  LedgerInv'
<1>1. ASSUME NEW w \in Workers, SessionStep(w) PROVE LedgerInv'
  BY <1>1, StepLedger
<1>2. ASSUME NEW l \in Loans, NEW a \in Attempts, Settle(l, a) \/ Reverse(l, a)
      PROVE  LedgerInv'
  <2>1. UNCHANGED <<dbVars, pc, cur>>
    BY <1>2 DEF Settle, Reverse, workerVars
  <2>2. \A m \in Loans : Calling(m)' <=> Calling(m)
    BY <2>1 DEF Calling, dbVars
  <2>3. /\ transfer[l][a] \in {"pending", "success"}
        /\ \A m \in Loans, b \in Attempts :
             transfer'[m][b] = transfer[m][b] \/ (m = l /\ b = a)
    BY <1>2 DEF Settle, Reverse, TypeInv, TypeOK
  <2>4. a = NextRef(row[l])
    BY <2>3 DEF LedgerInv, RowLedger
  <2>5. ASSUME NEW m \in Loans PROVE RowLedger(m)' /\ DraftLedger(m)'
    <3>1. CASE m # l
      <4>1. transfer'[m] = transfer[m]
        BY <1>2, <3>1 DEF Settle, Reverse, TypeInv, TypeOK
      <4> QED BY <2>1, <2>2, <4>1, LedgerOfSame DEF LedgerInv, dbVars
    <3>2. CASE m = l
      <4>1. /\ row'[l] = row[l] /\ lock'[l] = lock[l] /\ draft'[l] = draft[l]
            /\ RowLedger(l) /\ DraftLedger(l)
        BY <2>1 DEF LedgerInv, dbVars
      <4>2. row[l].code \in Attempts \cup {0} /\ \A b \in Attempts : b \in Nat
        BY DEF TypeInv, TypeOK, Rows, Attempts
      <4>3. \A b \in Attempts :
              /\ b # NextRef(row'[l]) => transfer'[l][b] \in {"none", "failed"}
              /\ b > NextRef(row'[l]) => transfer'[l][b] = "none"
        BY <2>3, <2>4, <4>1, <4>2 DEF RowLedger
      <4>4. row[l].code # 0 => (transfer[l][row[l].code] = "failed" =>
                                transfer'[l][row[l].code] = "failed")
        BY <2>3, <4>2
      <4>5. RowLedger(l)'
        BY <4>1, <4>3, <4>4 DEF RowLedger
      <4>6. DraftLedger(l)'
        BY <2>2, <2>3, <2>4, <4>1 DEF DraftLedger
      <4> QED BY <3>2, <4>5, <4>6
    <3> QED BY <3>1, <3>2
  <2> QED BY <2>5 DEF LedgerInv
<1>3. CASE UNCHANGED vars
  <2>1. \A m \in Loans : Calling(m)' <=> Calling(m)
    BY <1>3 DEF Calling, vars, dbVars, workerVars
  <2> QED BY <1>3, <2>1, LedgerOfSame DEF LedgerInv, vars, dbVars, providerVars
<1> QED BY <1>1, <1>2, <1>3 DEF Next, SessionStep

\* Webhooks tell the truth in every reachable state.
LEMMA TruthInvHolds == Spec => []TruthInv
<1>1. Init => TruthInv
  BY DEF Init, TruthInv
<1>2. TypeInv /\ TruthInv /\ [Next]_vars => TruthInv'
  BY NextTruthInv
<1> QED BY <1>1, <1>2, TypeCorrect, PTL DEF Spec

\* The ledger of references, when no call raises after it was accepted.
LEMMA LedgerInvHolds ==
    ASSUME "ambiguous_call" \notin Faults
    PROVE  Spec /\ []Separate => []LedgerInv
<1>1. Init => LedgerInv
  <2> SUFFICES ASSUME Init, NEW l \in Loans PROVE RowLedger(l) /\ DraftLedger(l)
    BY DEF LedgerInv
  <2>1. lock[l] = Nobody
    BY DEF Init
  <2>2. DraftLedger(l)
    BY <2>1 DEF DraftLedger, Calling
  <2>3. RowLedger(l)
    BY InitRow DEF RowLedger, NextRef, NoRow, Attempts
  <2> QED BY <2>2, <2>3
<1>2. TypeInv /\ LockInv /\ Separate /\ SessionInv /\ TruthInv /\ LedgerInv
        /\ [Next]_vars => LedgerInv'
  BY NextLedgerInv
<1> QED
  BY <1>1, <1>2, TypeCorrect, LockInvHolds, SessionInvHolds, TruthInvHolds, PTL
  DEF Spec

(* As long as no two sessions work on the same loan at the same time and   *)
(* no call raises although the provider took it, a loan never has two live *)
(* transfers: crashes, rolled back sweeps and repeated webhooks make a     *)
(* retry reuse the reference, which the provider recognises.               *)
THEOREM PaidOnce ==
    ASSUME "ambiguous_call" \notin Faults
    PROVE  Spec /\ []Separate => []NoDoublePayout
<1>1. ASSUME LedgerInv PROVE NoDoublePayout
  <2>1. ASSUME NEW l \in Loans PROVE Cardinality(Live(l)) <= 1
    <3>1. Live(l) \subseteq {NextRef(row[l])}
      BY <1>1 DEF LedgerInv, RowLedger, Live
    <3>2. IsFiniteSet({NextRef(row[l])}) /\ Cardinality({NextRef(row[l])}) = 1
      BY FS_Singleton
    <3> QED BY <3>1, <3>2, FS_Subset
  <2> QED BY <2>1 DEF NoDoublePayout
<1> QED BY <1>1, LedgerInvHolds, PTL

\* The provider still has something to say about attempt a of loan l.
Told(l, a) ==
    \/ transfer[l][a] = "pending"
    \/ \E h \in hooks : h.loan = l /\ h.attempt = a

(* Row r of loan l is what the provider has, or will be once the webhooks  *)
(* on their way are handled.                                               *)
Agrees(l, r) ==
    /\ r.state = "TRANSFER_INITIATED" => Told(l, r.code)
    /\ r.state = "COMPLETED" => transfer[l][r.code] \in {"success", "reversed"}
    /\ r.state = "REVERSED" => transfer[l][r.code] = "reversed"
    /\ r.state = "FAILED" =>
         \A a \in Attempts :
           /\ transfer[l][a] \notin {"pending", "success"}
           /\ a > r.attempt => transfer[l][a] = "none"

\* During the call the draft says nothing yet of the transfer, and a loan
\* without a row nothing at all.
AgreeLoan(l) ==
    row[l].state # "ABSENT" =>
        /\ Calling(l) => \/ transfer[l][NextRef(row[l])] = "none"
                         \/ Told(l, NextRef(row[l]))
        /\ ~Calling(l) => Agrees(l, IF lock[l] = Nobody THEN row[l] ELSE draft[l])

(* A webhook is acknowledged once its transfer needs it no more.           *)
AgreeHook(w) ==
    /\ pc[w] \notin {"emit", "write", "ack"} => hook[w] = NoHook
    /\ pc[w] = "ack" /\ hook[w] # NoHook =>
         /\ cur[w] = hook[w].loan
         /\ row[cur[w]].code = hook[w].attempt =>
              row[cur[w]].state # "TRANSFER_INITIATED"

AgreeInv == (\A w \in Workers : AgreeHook(w)) /\ (\A l \in Loans : AgreeLoan(l))

\* AgreeLoan depends on the loan's own row, transfers and webhooks.
LEMMA AgreeSame ==
    ASSUME NEW l \in Loans, AgreeLoan(l),
           row'[l] = row[l], lock'[l] = lock[l], draft'[l] = draft[l],
           transfer'[l] = transfer[l], Calling(l)' <=> Calling(l),
           \A a : Told(l, a) => Told(l, a)'
    PROVE  AgreeLoan(l)'
BY DEF AgreeLoan, Agrees, NextRef

\* A step that leaves the transfers and the webhooks alone.
LEMMA AgreeFrame ==
    ASSUME TypeInv, Separate, AgreeInv, NEW w \in Workers, Alone(w),
           UNCHANGED providerVars,
           \A l \in Touches(w) : AgreeLoan(l)', AgreeHook(w)'
    PROVE  AgreeInv'
<1>1. \A l, a : Told(l, a) <=> Told(l, a)'
  BY DEF Told, providerVars
<1>2. ASSUME NEW l \in Loans PROVE AgreeLoan(l)'
  <2>1. CASE l \in Touches(w)
    BY <2>1
  <2>2. CASE l \notin Touches(w)
    BY <1>1, <2>2, CallingElsewhere, AgreeSame DEF AgreeInv, providerVars
  <2> QED BY <2>1, <2>2
<1>3. ASSUME NEW v \in Workers PROVE AgreeHook(v)'
  <2>1. CASE v # w
    <3>1. /\ pc'[v] = pc[v] /\ cur'[v] = cur[v] /\ hook'[v] = hook[v]
          /\ \A l \in Touches(v) : row'[l] = row[l]
      BY <2>1 DEF Alone, Separate, Touches
    <3>2. pc[v] = "ack" => cur[v] \in Touches(v)
      BY DEF TypeInv, JobInv, Touches
    <3> QED BY <3>1, <3>2 DEF AgreeInv, AgreeHook
  <2> QED BY <2>1
<1> QED BY <1>2, <1>3 DEF AgreeInv
\* Every step of a session preserves AgreeInv.
LEMMA StepAgree ==
    ASSUME Faults \cap {"crash", "ambiguous_call", "uncommitted_sweep"} = {},
           TypeInv, LockInv, Separate, SessionInv, TruthInv, LedgerInv, AgreeInv,
           NEW w \in Workers, SessionStep(w)
    PROVE  AgreeInv'
<1>1. /\ Alone(w) /\ SessionOf(w) /\ AgreeHook(w)
      /\ pc[w] # "idle" => cur[w] \in Touches(w)
      /\ pc[w] = "call" => lock[cur[w]] = w
      /\ \A l \in Loans : l \in Touches(w) => lock[l] \in {w, Nobody}
  BY StepAlone
  DEF SessionInv, LockInv, TypeInv, TypeOK, JobInv, Separate, Touches, AgreeInv
<1>2. \A l \in Touches(w) :
        l \in Loans /\ RowLedger(l) /\ DraftLedger(l) /\ AgreeLoan(l)
  BY DEF LedgerInv, AgreeInv, Touches
<1>3. ASSUME UNCHANGED <<dbVars, providerVars>>, \A l \in Loans : lock[l] # w,
             AgreeHook(w)'
      PROVE  AgreeInv'
  <2>1. ASSUME NEW l \in Touches(w) PROVE AgreeLoan(l)'
    <3>1. /\ Calling(l) <=> Calling(l)'
          /\ \A a : Told(l, a) => Told(l, a)'
      BY <1>1, <1>2, <1>3 DEF Calling, Told, dbVars, providerVars
    <3> QED BY <1>2, <1>3, <3>1, AgreeSame DEF dbVars, providerVars
  <2> QED BY <1>1, <1>3, <2>1, AgreeFrame
<1>4. ASSUME pc[w] = "call", Retrying(w), Proceed(w),
             UNCHANGED <<row, lock, providerVars>>,
             NEW d, draft' = [draft EXCEPT ![cur[w]] = d],
             d.attempt = AttemptOf(w),
             \/ /\ d.state = "TRANSFER_INITIATED" /\ d.code = AttemptOf(w)
                /\ transfer[cur[w]][AttemptOf(w)] # "none"
             \/ /\ d.state = "FAILED"
                /\ transfer[cur[w]][AttemptOf(w)] = "none"
      PROVE  AgreeInv'
  <2>1. row[cur[w]].state = "FAILED" /\ Calling(cur[w]) /\ cur[w] \in Loans
    BY <1>1, <1>2, <1>4 DEF SessionOf, HolderOf, Calling
  <2>2. AttemptOf(w) = NextRef(row[cur[w]])
    BY <1>1, <1>4, <2>1 DEF SessionOf, HolderOf, AttemptOf, NextRef
  <2>3. /\ pc' = [pc EXCEPT ![w] = "commit"] \/ pc' = [pc EXCEPT ![w] = "reset"]
        /\ hook' = hook
    BY <1>4 DEF Proceed
  <2>4. pc'[w] \in {"commit", "reset"}
    BY <2>3 DEF TypeInv, TypeOK
  <2>5. AgreeHook(w)'
    BY <1>1, <1>4, <2>3, <2>4 DEF AgreeHook
  <2>6. ASSUME NEW l \in Touches(w), l = cur[w] PROVE AgreeLoan(l)'
    <3>1. lock[l] = w /\ lock'[l] = w /\ draft'[l] = d
      BY <1>1, <1>2, <1>4, <2>6 DEF TypeInv, TypeOK
    <3>2. ~Calling(l)'
      BY <2>4, <3>1 DEF Calling
    <3>3. \A a : Told(l, a) <=> Told(l, a)'
      BY <1>4 DEF Told, providerVars
    <3>4. Agrees(l, d)'
      <4>1. CASE d.state = "TRANSFER_INITIATED"
        BY <1>2, <1>4, <2>1, <2>2, <2>6, <3>3, <4>1 DEF AgreeLoan, Agrees
      <4>2. CASE d.state = "FAILED"
        BY <1>2, <1>4, <2>2, <2>6, <4>2 DEF RowLedger, Agrees, providerVars
      <4> QED BY <1>4, <4>1, <4>2
    <3> QED BY <3>1, <3>2, <3>4 DEF AgreeLoan
  <2>7. ASSUME NEW l \in Touches(w), l # cur[w] PROVE AgreeLoan(l)'
    <3>1. draft'[l] = draft[l] /\ ~Calling(l) /\ ~Calling(l)'
      BY <1>1, <1>2, <1>4, <2>4, <2>7 DEF Calling, TypeInv, TypeOK
    <3>2. \A a : Told(l, a) <=> Told(l, a)'
      BY <1>4 DEF Told, providerVars
    <3> QED BY <1>2, <1>4, <3>1, <3>2, AgreeSame DEF providerVars
  <2> QED BY <1>1, <1>4, <2>5, <2>6, <2>7, AgreeFrame
<1>5. ASSUME NEW r, Lock(w, cur[w], r), pc[w] \in {"insert", "reset"}, Goto(w, "call"),
             UNCHANGED providerVars, row[cur[w]].state \in {"ABSENT", "FAILED"},
             row[cur[w]].attempt < MaxAttempts
      PROVE  AgreeInv'
  <2>1. /\ cur[w] \in Loans /\ lock[cur[w]] = Nobody /\ lock'[cur[w]] = w
        /\ pc'[w] = "call" /\ cur' = cur /\ row' = row /\ hook' = hook
        /\ \A l \in Loans : l # cur[w] => lock'[l] = lock[l] /\ draft'[l] = draft[l]
    BY <1>1, <1>2, <1>5 DEF Lock, Goto, TypeInv, TypeOK
  <2>2. AgreeHook(w)'
    BY <1>1, <1>5, <2>1 DEF AgreeHook
  <2>3. ASSUME NEW l \in Touches(w), l = cur[w], row[l].state # "ABSENT"
        PROVE  AgreeLoan(l)'
    <3>1. row[l].attempt \in 0 .. MaxAttempts
      BY <1>5, <2>1, <2>3 DEF TypeInv, TypeOK, Rows
    <3>2. /\ NextRef(row[l]) = row[l].attempt + 1 /\ NextRef(row[l]) \in Attempts
          /\ NextRef(row[l]) > row[l].attempt
      BY <1>5, <2>3, <3>1 DEF NextRef, Attempts
    <3>3. Agrees(l, row[l])
      BY <1>2, <2>1, <2>3 DEF AgreeLoan, Calling
    <3>4. transfer[l][NextRef(row[l])] = "none"
      BY <1>5, <2>3, <3>2, <3>3 DEF Agrees
    <3>5. Calling(l)' /\ transfer' = transfer /\ row' = row
      BY <1>5, <2>1, <2>3 DEF Calling, providerVars
    <3> QED BY <3>4, <3>5 DEF AgreeLoan
  <2>4. ASSUME NEW l \in Touches(w), l # cur[w] PROVE AgreeLoan(l)'
    <3>1. ~Calling(l) /\ ~Calling(l)'
      BY <1>1, <1>2, <1>5, <2>1, <2>4 DEF Calling
    <3>2. \A a : Told(l, a) <=> Told(l, a)'
      BY <1>5 DEF Told, providerVars
    <3> QED BY <1>2, <1>5, <2>1, <2>4, <3>1, <3>2, AgreeSame DEF providerVars
  <2>5. ASSUME NEW l \in Touches(w), row[l].state = "ABSENT" PROVE AgreeLoan(l)'
    BY <2>1, <2>5 DEF AgreeLoan
  <2> QED BY <1>1, <1>5, <2>2, <2>3, <2>4, <2>5, AgreeFrame
<1>6. CASE Insert(w)
  <2>1. CASE row[cur[w]] = NoRow /\ Lock(w, cur[w], FirstRow) /\ Goto(w, "call")
    <3>1. NoRow.state = "ABSENT" /\ NoRow.attempt < MaxAttempts
      BY DEF NoRow
    <3> QED BY <1>5, <1>6, <2>1, <3>1 DEF Insert
  <2>2. CASE End(w) /\ UNCHANGED dbVars
    <3>1. AgreeHook(w)'
      BY <2>2 DEF End, AgreeHook, TypeInv, TypeOK
    <3> QED BY <1>1, <1>3, <1>6, <2>2, <3>1 DEF Insert, SessionOf, HolderOf
  <2> QED BY <1>6, <2>1, <2>2 DEF Insert
<1>7. CASE Reset(w)
  <2>1. /\ row[cur[w]].state = "FAILED" /\ pc[w] = "reset"
        /\ snap[w][cur[w]] = row[cur[w]]
    BY <1>1, <1>7 DEF Reset, SessionOf, HolderOf
  <2>2. row[cur[w]].attempt < MaxAttempts
    BY <2>1 DEF TypeInv, JobInv
  <2> QED BY <1>5, <1>7, <2>1, <2>2 DEF Reset
<1>8. CASE CallReturns(w)
  <2> DEFINE d == Initiated(draft[cur[w]], AttemptOf(w))
  <2>1. draft[cur[w]] \in Rows
    BY <1>1, <1>2, <1>8 DEF CallReturns, TypeInv, TypeOK
  <2>2. /\ d.attempt = AttemptOf(w) /\ d.code = AttemptOf(w)
        /\ d.state = "TRANSFER_INITIATED"
    BY <2>1 DEF Initiated, Rows
  <2>3. /\ pc[w] = "call" /\ Retrying(w) /\ Proceed(w)
        /\ UNCHANGED <<row, lock, providerVars>>
        /\ draft' = [draft EXCEPT ![cur[w]] = d]
        /\ transfer[cur[w]][AttemptOf(w)] # "none"
    BY <1>8 DEF CallReturns
  <2> HIDE DEF d
  <2> QED BY <1>4, <2>2, <2>3
<1>9. CASE CallRaises(w)
  <2> DEFINE d == NotInitiated(draft[cur[w]], AttemptOf(w))
  <2>1. draft[cur[w]] \in Rows
    BY <1>1, <1>2, <1>9 DEF CallRaises, TypeInv, TypeOK
  <2>2. d.attempt = AttemptOf(w) /\ d.state = "FAILED"
    BY <2>1 DEF NotInitiated, Rows
  <2>3. /\ pc[w] = "call" /\ Retrying(w) /\ Proceed(w)
        /\ UNCHANGED <<row, lock, providerVars>>
        /\ draft' = [draft EXCEPT ![cur[w]] = d]
        /\ transfer[cur[w]][AttemptOf(w)] = "none"
    BY <1>9 DEF CallRaises
  <2> HIDE DEF d
  <2> QED BY <1>4, <2>2, <2>3
<1>10. ~DeadlockAbort(w) /\ ~SweepDiscarded(w) /\ ~Crash(w)
  <2>1. ~Waits(w)
    BY <1>1, <1>2 DEF Waits
  <2> QED BY <2>1 DEF DeadlockAbort, SweepDiscarded, Crash
<1>19. CASE InitiateRaises(w)
  <2>1. ~Retrying(w) /\ pc[w] = "call" /\ Release(w) /\ UNCHANGED row
    BY <1>19 DEF InitiateRaises, Rollback, Retrying
  <2>2. AgreeHook(w)'
    BY <1>19 DEF InitiateRaises, End, AgreeHook, TypeInv, TypeOK
  <2>3. ASSUME NEW l \in Touches(w) PROVE AgreeLoan(l)'
    <3>1. CASE lock[l] = w
      BY <1>1, <1>2, <2>1, <3>1 DEF SessionOf, AgreeLoan
    <3>2. CASE lock[l] # w
      <4>1. /\ lock[l] = Nobody /\ lock'[l] = Nobody /\ draft'[l] = draft[l]
            /\ row' = row /\ UNCHANGED providerVars
        BY <1>1, <1>2, <1>19, <2>1, <3>2 DEF Release, InitiateRaises
      <4>2. \A a : Told(l, a) => Told(l, a)'
        BY <4>1 DEF Told, providerVars
      <4> QED
        BY <1>2, <4>1, <4>2, AgreeSame DEF Calling, providerVars
    <3> QED BY <3>1, <3>2
  <2> QED BY <1>1, <1>19, <2>2, <2>3, AgreeFrame DEF InitiateRaises
<1>11. CASE EmitDisbursed(w)
  <2>1. AgreeHook(w)'
    BY <1>11 DEF EmitDisbursed, Goto, AgreeHook, TypeInv, TypeOK
  <2> QED BY <1>1, <1>3, <1>11, <2>1 DEF EmitDisbursed, SessionOf, HolderOf
<1>12. ASSUME pc[w] = "idle", UNCHANGED <<dbVars, providerVars>>, AgreeHook(w)'
       PROVE  AgreeInv'
  BY <1>1, <1>3, <1>12 DEF SessionOf, HolderOf
<1>13. CASE \/ Sweep(w)
            \/ \E l \in Loans : HttpInitiate(w, l) \/ Consume(w, l) \/ Retry(w, l)
  <2>1. /\ pc[w] = "idle" /\ UNCHANGED <<dbVars, providerVars, hook>>
        /\ pc'[w] \notin {"emit", "write", "ack"}
    BY <1>13 DEF Sweep, HttpInitiate, Consume, Retry, Start, TypeInv, TypeOK
  <2>2. AgreeHook(w)'
    BY <1>1, <2>1 DEF AgreeHook
  <2> QED BY <1>12, <2>1, <2>2
<1>14. ASSUME NEW h \in hooks, Webhook(w, h) PROVE AgreeInv'
  <2>1. /\ pc[w] = "idle" /\ UNCHANGED <<dbVars, providerVars>>
        /\ hook'[w] = h /\ cur'[w] = h.loan /\ pc'[w] \in {"emit", "write", "ack"}
    BY <1>14 DEF Webhook, Start, TypeInv, TypeOK
  <2>2. pc'[w] = "ack" /\ row[h.loan].code = h.attempt =>
          row[h.loan].state \in Terminal
    BY <1>14 DEF Webhook, Start, TypeInv, TypeOK
  <2>3. AgreeHook(w)'
    BY <2>1, <2>2 DEF AgreeHook, Terminal, dbVars
  <2> QED BY <1>12, <2>1, <2>3
<1>15. CASE Ack(w)
  <2>1. /\ pc[w] = "ack" /\ UNCHANGED <<dbVars, transfer>>
        /\ hooks' = hooks \/ hooks' = hooks \ {hook[w]}
        /\ \A l \in Loans : lock[l] # w
    BY <1>1, <1>15 DEF Ack, SessionOf, HolderOf
  <2>2. \A l \in Loans : Calling(l) <=> Calling(l)'
    <3>1. ASSUME NEW l \in Loans PROVE Calling(l) <=> Calling(l)'
      <4>1. lock'[l] = lock[l] /\ lock[l] # w
        BY <2>1 DEF dbVars
      <4>2. lock[l] \in Workers \ {w} =>
              pc'[lock[l]] = pc[lock[l]] /\ cur'[lock[l]] = cur[lock[l]]
        BY <1>1 DEF Alone
      <4> QED BY <4>1, <4>2 DEF Calling, TypeInv, TypeOK
    <3> QED BY <3>1
  <2>3. ASSUME NEW l \in Loans PROVE AgreeLoan(l)'
    <3>1. CASE hook[w] # NoHook /\ l = hook[w].loan
      <4>1. /\ l = cur[w] /\ lock[l] = Nobody /\ ~Calling(l) /\ AgreeLoan(l)
            /\ row[l].code = hook[w].attempt => row[l].state # "TRANSFER_INITIATED"
        BY <1>1, <1>2, <2>1, <3>1 DEF AgreeHook, Calling
      <4>2. ASSUME row[l].state = "TRANSFER_INITIATED", Told(l, row[l].code)
            PROVE  Told(l, row[l].code)'
        BY <2>1, <4>1, <4>2 DEF Told, dbVars
      <4> QED BY <2>1, <2>2, <4>1, <4>2 DEF AgreeLoan, Agrees, dbVars
    <3>2. CASE hook[w] = NoHook \/ l # hook[w].loan
      <4>1. \A h \in hooks : h.loan = l => h \in hooks'
        <5>1. NoHook \notin hooks
          BY DEF TypeInv, TypeOK, NoHook, Hooks
        <5> QED BY <2>1, <3>2, <5>1
      <4>2. \A a : Told(l, a) => Told(l, a)'
        BY <2>1, <4>1 DEF Told
      <4> QED BY <2>1, <2>2, <4>2, AgreeSame DEF AgreeInv, dbVars
    <3> QED BY <3>1, <3>2
  <2>4. AgreeHook(w)'
    BY <1>15 DEF Ack, End, AgreeHook, TypeInv, TypeOK
  <2>5. ASSUME NEW v \in Workers, v # w PROVE AgreeHook(v)'
    <3>1. pc'[v] = pc[v] /\ cur'[v] = cur[v] /\ hook'[v] = hook[v] /\ row' = row
      BY <1>1, <2>1, <2>5 DEF Alone, dbVars
    <3> QED BY <3>1 DEF AgreeInv, AgreeHook
  <2> QED BY <2>3, <2>4, <2>5 DEF AgreeInv
<1>16. CASE Commit(w)
  <2>1. AgreeHook(w)'
    BY <1>1, <1>16 DEF Commit, Goto, End, AgreeHook, TypeInv, TypeOK
  <2>2. ASSUME NEW l \in Touches(w) PROVE AgreeLoan(l)'
    <3>1. /\ row'[l] = (IF lock[l] = w THEN draft[l] ELSE row[l])
          /\ lock'[l] = Nobody /\ ~Calling(l) /\ ~Calling(l)'
          /\ lock[l] = w => row[l].state = "FAILED"
      BY <1>1, <1>2, <1>16 DEF Commit, Release, Calling, SessionOf
    <3>2. row'[l].state # "ABSENT" => Agrees(l, row'[l])
      BY <1>1, <1>2, <3>1 DEF AgreeLoan
    <3>3. /\ \A a : Told(l, a) <=> Told(l, a)'
          /\ transfer' = transfer
      BY <1>16 DEF Commit, Told, providerVars
    <3> QED BY <3>1, <3>2, <3>3 DEF AgreeLoan, Agrees
  <2> QED BY <1>1, <1>16, <2>1, <2>2, AgreeFrame DEF Commit
<1>17. CASE WriteWebhook(w)
  <2>1. /\ hook[w] \in Hooks /\ HookTrue(hook[w]) /\ hook[w].loan = cur[w]
        /\ row[cur[w]].code = hook[w].attempt /\ pc[w] = "write"
        /\ row[cur[w]].state \notin Terminal
        /\ snap[w][cur[w]] = row[cur[w]] /\ lock[cur[w]] = Nobody
    BY <1>1, <1>17
    DEF WriteWebhook, SessionOf, HolderOf, TypeInv, JobInv, TruthInv
  <2>2. /\ UNCHANGED <<lock, draft, providerVars, cur, hook>> /\ pc'[w] = "ack"
    BY <1>17 DEF WriteWebhook, Goto, TypeInv, TypeOK
  <2>3. ASSUME NEW l \in Touches(w), l = cur[w]
        PROVE  /\ lock'[l] = Nobody
               /\ row'[l].code = row[l].code /\ row'[l].attempt = row[l].attempt
               /\ hook[w].status = "success" => row'[l].state = "COMPLETED"
               /\ hook[w].status = "failed" => row'[l].state = "FAILED"
               /\ hook[w].status = "reversed" => row'[l].state = "REVERSED"
               /\ hook[w].status \in {"success", "failed", "reversed"}
    BY <1>2, <1>17, <2>1, <2>3 DEF WriteWebhook, TypeInv, TypeOK, Rows, Hooks
  <2>4. AgreeHook(w)'
    BY <1>1, <2>1, <2>2, <2>3 DEF AgreeHook
  <2>5. ASSUME NEW l \in Touches(w), l = cur[w] PROVE AgreeLoan(l)'
    <3>1. hook[w].attempt # 0 /\ \A a \in Attempts : a \in Nat
      BY <2>1 DEF Hooks, Attempts
    <3>2. row[l].state \in {"TRANSFER_INITIATED", "FAILED"} /\ RowLedger(l)
      BY <1>2, <2>1, <2>5, <3>1 DEF RowLedger, NoRow, Terminal
    <3>3. ASSUME row'[l].state = "FAILED", NEW a \in Attempts
          PROVE  /\ transfer[l][a] \notin {"pending", "success"}
                 /\ a > row[l].attempt => transfer[l][a] = "none"
      <4>1. transfer[l][row[l].code] = "failed"
        BY <2>1, <2>3, <2>5, <3>3 DEF HookTrue
      <4>2. CASE row[l].state = "TRANSFER_INITIATED"
        BY <3>2, <4>1, <4>2 DEF RowLedger, NextRef
      <4>3. CASE row[l].state = "FAILED"
        BY <1>2, <2>1, <2>5, <4>3 DEF AgreeLoan, Agrees, Calling
      <4> QED BY <3>2, <4>2, <4>3
    <3>4. Agrees(l, row'[l])
      BY <2>1, <2>3, <2>5, <3>3 DEF Agrees, HookTrue
    <3>5. /\ lock'[l] = Nobody /\ ~Calling(l)' /\ transfer' = transfer
          /\ row'[l].state # "TRANSFER_INITIATED"
      BY <2>2, <2>3, <2>5 DEF Calling, providerVars
    <3> QED BY <3>4, <3>5 DEF AgreeLoan, Agrees
  <2>6. ASSUME NEW l \in Touches(w), l # cur[w] PROVE AgreeLoan(l)'
    <3>1. /\ row'[l] = row[l] /\ lock' = lock /\ draft' = draft
          /\ ~Calling(l) /\ ~Calling(l)'
      BY <1>1, <1>2, <1>17, <2>1, <2>2, <2>6
      DEF WriteWebhook, Calling, TypeInv, TypeOK
    <3>2. \A a : Told(l, a) <=> Told(l, a)'
      BY <2>2 DEF Told, providerVars
    <3> QED BY <1>2, <2>2, <3>1, <3>2, AgreeSame DEF providerVars
  <2> QED BY <1>1, <2>2, <2>4, <2>5, <2>6, AgreeFrame
<1>18. CASE Accept(w)
  <2>1. /\ row[cur[w]].state \in {"FAILED", "ABSENT"} /\ Calling(cur[w])
        /\ cur[w] \in Loans
    BY <1>1, <1>2, <1>18 DEF Accept, SessionOf, HolderOf, Calling
  <2>2. AttemptOf(w) = NextRef(row[cur[w]])
    BY <1>1, <1>18, <2>1 DEF Accept, SessionOf, HolderOf, AttemptOf, NextRef
  <2>3. UNCHANGED <<dbVars, workerVars, hooks>>
    BY <1>18 DEF Accept
  <2>4. \A l \in Loans : Calling(l)' <=> Calling(l)
    BY <2>3 DEF Calling, dbVars, workerVars
  <2>5. AttemptOf(w) \in Attempts
    <3>1. snap[w][cur[w]].attempt \in 0 .. MaxAttempts
      BY <1>18, <2>1 DEF Accept, TypeInv, TypeOK, JobInv, Rows
    <3> QED BY <3>1 DEF AttemptOf, Attempts
  <2>6. transfer'[cur[w]][AttemptOf(w)] = "pending"
    BY <1>18, <2>1, <2>5 DEF Accept, TypeInv, TypeOK
  <2>7. ASSUME NEW l \in Loans PROVE AgreeLoan(l)'
    <3>1. CASE l = cur[w]
      <4>1. Told(l, NextRef(row[l]))'
        BY <2>2, <2>3, <2>6, <3>1
        DEF Told, dbVars, workerVars, NextRef, AttemptOf
      <4> QED BY <2>1, <2>3, <2>4, <3>1, <4>1 DEF AgreeLoan, dbVars
    <3>2. CASE l # cur[w]
      <4>1. transfer'[l] = transfer[l]
        BY <1>18, <3>2 DEF Accept, TypeInv, TypeOK
      <4>2. \A a : Told(l, a) => Told(l, a)'
        BY <2>3, <4>1 DEF Told
      <4> QED BY <2>3, <2>4, <4>1, <4>2, AgreeSame DEF AgreeInv, dbVars
    <3> QED BY <3>1, <3>2
  <2>8. \A v \in Workers : AgreeHook(v)'
    BY <2>3 DEF AgreeInv, AgreeHook, dbVars, workerVars
  <2> QED BY <2>7, <2>8 DEF AgreeInv
<1> QED
  BY <1>6, <1>7, <1>8, <1>9, <1>10, <1>11, <1>13, <1>14, <1>15, <1>16, <1>17,
     <1>18, <1>19
  DEF SessionStep, JobStep

\* Every step, or stuttering step, preserves the invariant.
LEMMA NextAgreeInv ==
    ASSUME Faults \cap {"crash", "ambiguous_call", "uncommitted_sweep"} = {},
           TypeInv, LockInv, Separate, SessionInv, TruthInv, LedgerInv, AgreeInv,
           [Next]_vars
    PROVE  AgreeInv'
<1>1. ASSUME NEW w \in Workers, SessionStep(w) PROVE AgreeInv'
  BY <1>1, StepAgree
<1>2. ASSUME NEW l \in Loans, NEW a \in Attempts, Settle(l, a) \/ Reverse(l, a)
      PROVE  AgreeInv'
  <2>1. UNCHANGED <<dbVars, workerVars>>
    BY <1>2 DEF Settle, Reverse
  <2>2. \A m \in Loans : Calling(m)' <=> Calling(m)
    BY <2>1 DEF Calling, dbVars, workerVars
  <2>3. PICK s \in {"success", "failed", "reversed"} :
          /\ transfer[l][a] \in {"pending", "success"}
          /\ s # "reversed" => transfer[l][a] = "pending"
          /\ transfer' = [transfer EXCEPT ![l][a] = s]
          /\ hooks' = hooks \cup {[loan |-> l, attempt |-> a, status |-> s]}
    BY <1>2 DEF Settle, Reverse
  <2>4. \A m \in Loans, b \in Attempts :
          transfer'[m][b] = IF m = l /\ b = a THEN s ELSE transfer[m][b]
    BY <2>3 DEF TypeInv, TypeOK
  <2>5. ASSUME NEW m \in Loans, NEW b \in Attempts, Told(m, b) PROVE Told(m, b)'
    <3>1. CASE m = l /\ b = a
      <4> DEFINE h == [loan |-> l, attempt |-> a, status |-> s]
      <4>1. h \in hooks' /\ h.loan = m /\ h.attempt = b
        BY <2>3, <3>1
      <4> QED BY <4>1 DEF Told
    <3>2. CASE ~(m = l /\ b = a)
      BY <2>3, <2>4, <2>5, <3>2 DEF Told
    <3> QED BY <3>1, <3>2
  <2>6. ASSUME NEW m \in Loans, NEW r \in Rows, Agrees(m, r),
               r.state \in {"COMPLETED", "REVERSED", "TRANSFER_INITIATED"} => r.code # 0
        PROVE  Agrees(m, r)'
    <3>1. r.code \in Attempts \cup {0}
      BY DEF Rows, Attempts
    <3>2. r.state = "TRANSFER_INITIATED" => Told(m, r.code)'
      BY <2>5, <2>6, <3>1 DEF Agrees
    <3>3. r.state = "COMPLETED" => transfer'[m][r.code] \in {"success", "reversed"}
      BY <2>3, <2>4, <2>6, <3>1 DEF Agrees
    <3>4. r.state = "REVERSED" => transfer'[m][r.code] = "reversed"
      BY <2>3, <2>4, <2>6, <3>1 DEF Agrees
    <3>5. r.state = "FAILED" => m # l
      BY <2>3, <2>6 DEF Agrees
    <3> QED BY <2>4, <2>6, <3>2, <3>3, <3>4, <3>5 DEF Agrees
  <2>7. ASSUME NEW m \in Loans, row[m].state # "ABSENT" PROVE AgreeLoan(m)'
    <3>1. CASE Calling(m)
      <4>1. lock[m] \in Workers /\ pc[lock[m]] = "call" /\ cur[lock[m]] = m
        BY <3>1 DEF Calling, TypeInv, TypeOK
      <4>2. row[m].state \in {"FAILED", "ABSENT"} /\ row[m].attempt \in 0 .. MaxAttempts
        <5>1. snap[lock[m]][m] = row[m] /\ snap[lock[m]][m].attempt < MaxAttempts
          BY <4>1 DEF SessionInv, SessionOf, HolderOf, TypeInv, JobInv
        <5>2. row[m].state \in {"FAILED", "ABSENT"}
          BY <4>1 DEF SessionInv, SessionOf, HolderOf
        <5> QED BY <5>1, <5>2 DEF TypeInv, TypeOK, Rows
      <4>3. NextRef(row[m]) \in Attempts
        BY <4>2 DEF NextRef, Attempts
      <4>4. AgreeLoan(m) /\ row' = row
        BY <2>1 DEF AgreeInv, dbVars
      <4>5. CASE transfer[m][NextRef(row[m])] = "none"
        BY <2>2, <2>3, <2>4, <2>7, <3>1, <4>3, <4>4, <4>5 DEF AgreeLoan
      <4>6. CASE Told(m, NextRef(row[m]))
        BY <2>2, <2>5, <2>7, <3>1, <4>3, <4>4, <4>6 DEF AgreeLoan, Told
      <4> QED BY <2>7, <3>1, <4>4, <4>5, <4>6 DEF AgreeLoan
    <3>2. CASE ~Calling(m)
      <4>1. lock' = lock /\ draft' = draft /\ row' = row
        BY <2>1 DEF dbVars
      <4>2. row[m].attempt \in Nat /\ row[m] \in Rows /\ draft[m] \in Rows
        BY DEF TypeInv, TypeOK, Rows
      <4>3. CASE lock[m] = Nobody
        <5>1. row[m].state \in {"COMPLETED", "REVERSED", "TRANSFER_INITIATED"} =>
                row[m].code # 0
          BY <4>2 DEF LedgerInv, RowLedger
        <5>2. Agrees(m, row[m])
          BY <2>7, <3>2, <4>3 DEF AgreeInv, AgreeLoan
        <5> QED
          BY <2>2, <2>6, <3>2, <4>1, <4>2, <4>3, <5>1, <5>2
          DEF AgreeLoan, Agrees, Told
      <4>4. CASE lock[m] # Nobody
        <5>1. row[m].state \in {"FAILED", "ABSENT"}
          BY <4>4 DEF SessionInv, SessionOf, HolderOf, TypeInv, TypeOK
        <5>2. /\ NextRef(row[m]) # 0
              /\ draft[m].state \in {"TRANSFER_INITIATED", "FAILED"}
              /\ draft[m].state = "TRANSFER_INITIATED" => draft[m].code # 0
          BY <3>2, <4>2, <4>4, <5>1 DEF LedgerInv, DraftLedger, NextRef
        <5>3. Agrees(m, draft[m])
          BY <2>7, <3>2, <4>4 DEF AgreeInv, AgreeLoan
        <5> QED
          BY <2>2, <2>6, <3>2, <4>1, <4>2, <4>4, <5>2, <5>3
          DEF AgreeLoan, Agrees, Told
      <4> QED BY <4>3, <4>4
    <3> QED BY <3>1, <3>2
  <2>8. \A v \in Workers : AgreeHook(v)'
    BY <2>1 DEF AgreeInv, AgreeHook, dbVars, workerVars
  <2>9. ASSUME NEW m \in Loans, row[m].state = "ABSENT" PROVE AgreeLoan(m)'
    BY <2>1, <2>9 DEF AgreeLoan, dbVars
  <2> QED BY <2>7, <2>8, <2>9 DEF AgreeInv
<1>3. CASE UNCHANGED vars
  <2>1. \A m \in Loans : /\ Calling(m)' <=> Calling(m)
                         /\ \A a : Told(m, a) => Told(m, a)'
    BY <1>3 DEF Calling, Told, vars, dbVars, providerVars, workerVars
  <2>2. \A m \in Loans : AgreeLoan(m)'
    BY <1>3, <2>1, AgreeSame DEF AgreeInv, vars, dbVars, providerVars
  <2> QED BY <1>3, <2>2 DEF AgreeInv, AgreeHook, vars, dbVars, workerVars
<1> QED BY <1>1, <1>2, <1>3 DEF Next, SessionStep

(* As long as no two sessions work on the same loan at the same time, no   *)
(* retry dies or is rolled back and no call is ambiguous, a row of a loan  *)
(* about which nothing is in flight says what the provider did, webhooks   *)
(* repeated, reordered or not. (initiate() is rolled back after each call, *)
(* and leaves no row to say it.)                                           *)
THEOREM LedgerAgrees ==
    ASSUME Faults \cap {"crash", "ambiguous_call", "uncommitted_sweep"} = {}
    PROVE  Spec /\ []Separate => []RowAgreesWithProvider
<1>1. Init => AgreeInv
  <2> SUFFICES ASSUME Init PROVE AgreeInv
    OBVIOUS
  <2>1. \A w \in Workers : AgreeHook(w)
    BY DEF Init, AgreeHook
  <2>2. ASSUME NEW l \in Loans PROVE AgreeLoan(l)
    <3>1. lock[l] = Nobody /\ ~Calling(l) /\ 1 \in Attempts
      BY DEF Init, Calling, Attempts
    <3>2. row[l].state = "ABSENT" \/ Agrees(l, row[l])
      BY <3>1, InitRow DEF Agrees, Told, NoRow
    <3> QED BY <3>1, <3>2 DEF AgreeLoan
  <2> QED BY <2>1, <2>2 DEF AgreeInv
<1>2. TypeInv /\ LockInv /\ Separate /\ SessionInv /\ TruthInv /\ LedgerInv
        /\ AgreeInv /\ [Next]_vars => AgreeInv'
  BY NextAgreeInv
<1>3. ASSUME LedgerInv, AgreeInv PROVE RowAgreesWithProvider
  <2>1. ASSUME NEW l \in Loans, Quiet(l), row[l] # NoRow
        PROVE  /\ row[l].state = "TRANSFER_INITIATED" =>
                    transfer[l][row[l].code] = "pending"
               /\ row[l].state = "COMPLETED" =>
                    transfer[l][row[l].code] \in {"success", "reversed"}
               /\ row[l].state = "REVERSED" => transfer[l][row[l].code] = "reversed"
               /\ row[l].state = "FAILED" => Live(l) = {}
               /\ row[l].state \in {"FAILED", "TRANSFER_INITIATED",
                                    "COMPLETED", "REVERSED"}
    <3>1. ~\E h \in hooks : h.loan = l
      BY <2>1 DEF Quiet
    <3>2. RowLedger(l) /\ row[l].state # "ABSENT"
      BY <1>3, <2>1 DEF LedgerInv, RowLedger
    <3>3. Agrees(l, row[l])
      BY <1>3, <2>1, <3>2 DEF AgreeInv, AgreeLoan, Calling, Quiet
    <3> QED BY <3>1, <3>2, <3>3 DEF Agrees, Told, Live, RowLedger
  <2> QED BY <2>1 DEF RowAgreesWithProvider
<1>4. "ambiguous_call" \notin Faults
  OBVIOUS
<1> QED
  BY <1>1, <1>2, <1>3, <1>4, TypeCorrect, LockInvHolds, SessionInvHolds,
     TruthInvHolds, LedgerInvHolds, PTL
  DEF Spec

-----------------------------------------------------------------------------
(* Refinement: the service implements Payout.                              *)

\* What the borrower has been sent, when all references but one failed.
LEMMA WhereOne ==
    ASSUME NEW t, NEW r \in Attempts,
           \A a \in Attempts : a # r => t[a] \in {"none", "failed"}
    PROVE  /\ t[r] \in {"none", "failed"} => Where(t) = "owed"
           /\ t[r] = "pending" => Where(t) = "sending"
           /\ t[r] = "success" => Where(t) = "paid"
           /\ t[r] = "reversed" => Where(t) = "returned"
BY DEF Where

\* The transfers of one loan change, and with them where its money is.
LEMMA PayoutFrame ==
    ASSUME TypeInv, NEW l \in Loans, NEW t,
           transfer' = [transfer EXCEPT ![l] = t], UNCHANGED emitted
    PROVE  /\ Money' = [Money EXCEPT ![l] = Where(t)]
           /\ Tries' = [Tries EXCEPT ![l] = Cardinality(Sent(t))]
           /\ Announced' = Announced
<1>1. \A m \in Loans : transfer'[m] = IF m = l THEN t ELSE transfer[m]
  BY DEF TypeInv, TypeOK
<1>2. Money' = [Money EXCEPT ![l] = Where(t)]
  <2>1. \A m \in Loans :
          Where(transfer'[m]) = IF m = l THEN Where(t) ELSE Where(transfer[m])
    BY <1>1
  <2>2. Money' = [m \in Loans |-> Where(transfer'[m])]
    BY DEF Money
  <2> QED BY <2>1, <2>2 DEF Money
<1>3. Tries' = [Tries EXCEPT ![l] = Cardinality(Sent(t))]
  <2>1. \A m \in Loans :
          Cardinality(Sent(transfer'[m])) =
            IF m = l THEN Cardinality(Sent(t)) ELSE Cardinality(Sent(transfer[m]))
    BY <1>1
  <2>2. Tries' = [m \in Loans |-> Cardinality(Sent(transfer'[m]))]
    BY DEF Tries
  <2> QED BY <2>1, <2>2 DEF Tries
<1>4. Announced' = Announced
  BY DEF Announced
<1> QED BY <1>2, <1>3, <1>4

\* The provider decides on a transfer under way, or reverses one it paid.
LEMMA ProviderPays ==
    ASSUME TypeInv, LedgerInv, NEW l \in Loans, NEW a \in Attempts,
           Settle(l, a) \/ Reverse(l, a)
    PROVE  Borrower!PayoutNext
<1> DEFINE t == transfer[l]
           u == transfer'[l]
<1>1. PICK s \in {"success", "failed", "reversed"} :
        /\ transfer' = [transfer EXCEPT ![l][a] = s]
        /\ t[a] = "pending" \/ (t[a] = "success" /\ s = "reversed")
  <2>1. CASE Settle(l, a)
    BY <2>1 DEF Settle
  <2>2. CASE Reverse(l, a)
    BY <2>2 DEF Reverse
  <2> QED BY <2>1, <2>2
<1>2. /\ transfer' = [transfer EXCEPT ![l] = u]
      /\ u[a] = s /\ \A b \in Attempts : b # a => u[b] = t[b]
  BY <1>1 DEF TypeInv, TypeOK
<1>3. \A b \in Attempts : b # a => t[b] \in {"none", "failed"} /\ u[b] = t[b]
  BY <1>1, <1>2 DEF LedgerInv, RowLedger
<1>4. Sent(u) = Sent(t)
  BY <1>1, <1>2 DEF Sent
<1>5. /\ Money[l] = Where(t) /\ Tries[l] = Cardinality(Sent(t))
      /\ Tries = [Tries EXCEPT ![l] = Tries[l]]
  BY DEF Money, Tries
<1>6. /\ Money' = [Money EXCEPT ![l] = Where(u)]
      /\ Tries' = Tries /\ Announced' = Announced
  <2>1. UNCHANGED emitted
    BY DEF Settle, Reverse, busVars
  <2> HIDE DEF u
  <2>2. /\ Money' = [Money EXCEPT ![l] = Where(u)]
        /\ Tries' = [Tries EXCEPT ![l] = Cardinality(Sent(u))]
        /\ Announced' = Announced
    BY <1>2, <2>1, PayoutFrame
  <2>3. Cardinality(Sent(u)) = Tries[l]
    BY <1>4, <1>5
  <2> QED BY <1>5, <2>2, <2>3
<1>7. /\ t[a] = "pending" => Where(t) = "sending"
      /\ t[a] = "success" => Where(t) = "paid"
      /\ s = "failed" => Where(u) = "owed"
      /\ s = "success" => Where(u) = "paid"
      /\ s = "reversed" => Where(u) = "returned"
  <2> HIDE DEF t, u
  <2> QED BY <1>2, <1>3, WhereOne
<1>8. \/ Borrower!Turn(l, "sending", "owed")
      \/ Borrower!Turn(l, "sending", "paid")
      \/ Borrower!Turn(l, "sending", "returned")
      \/ Borrower!Turn(l, "paid", "returned")
  <2> HIDE DEF t, u
  <2> QED BY <1>1, <1>5, <1>6, <1>7 DEF Borrower!Turn
<1> QED BY <1>8 DEF Borrower!PayoutNext

\* The provider is presented a reference it has not seen.
LEMMA ServiceSends ==
    ASSUME TypeInv, LockInv, SessionInv, LedgerInv, AttemptLimit',
           NEW w \in Workers, Accept(w)
    PROVE  Borrower!PayoutNext
<1> DEFINE l == cur[w]
           a == AttemptOf(w)
           t == transfer[l]
           u == transfer'[l]
<1>1. l \in Loans /\ a \in Attempts /\ t[a] = "none" /\ a = NextRef(row[l])
  <2>1. row[l].state \in {"FAILED", "ABSENT"} /\ Calling(l) /\ l \in Loans
    BY DEF Accept, SessionInv, SessionOf, HolderOf, Calling, LockInv, TypeInv,
           TypeOK, JobInv
  <2>2. a = NextRef(row[l])
    BY <2>1 DEF Accept, SessionInv, SessionOf, HolderOf, AttemptOf, NextRef
  <2>3. a \in Attempts
    <3>1. snap[w][l].attempt \in Nat /\ snap[w][l].attempt < MaxAttempts
      BY <2>1 DEF Accept, TypeInv, TypeOK, Rows, JobInv
    <3> QED BY <3>1, AttemptsAssumption DEF AttemptOf, Attempts
  <2> QED BY <2>1, <2>2, <2>3 DEF Accept
<1>2. /\ transfer' = [transfer EXCEPT ![l] = u] /\ UNCHANGED emitted
      /\ u[a] = "pending" /\ \A b \in Attempts : b # a => u[b] = t[b]
  BY <1>1 DEF Accept, TypeInv, TypeOK, busVars
<1>3. \A b \in Attempts : b # a => t[b] \in {"none", "failed"} /\ u[b] = t[b]
  BY <1>1, <1>2 DEF LedgerInv, RowLedger
<1>4. /\ Money[l] = Where(t) /\ Tries[l] = Cardinality(Sent(t))
      /\ Money' = [Money EXCEPT ![l] = Where(u)]
      /\ Tries' = [Tries EXCEPT ![l] = Cardinality(Sent(u))]
      /\ Announced' = Announced
  <2>1. Money[l] = Where(t) /\ Tries[l] = Cardinality(Sent(t))
    BY <1>1 DEF Money, Tries
  <2> HIDE DEF u, t, l
  <2> QED BY <1>1, <1>2, <2>1, PayoutFrame
<1>5. Where(t) = "owed" /\ Where(u) = "sending"
  <2> HIDE DEF t, u, a, l
  <2> QED BY <1>1, <1>2, <1>3, WhereOne
<1>6. /\ Cardinality(Sent(u)) = Cardinality(Sent(t)) + 1
      /\ Cardinality(Sent(t)) < MaxAttempts
  <2>1. Sent(u) = Sent(t) \cup {a} /\ a \notin Sent(t)
    BY <1>1, <1>2, <1>3 DEF Sent
  <2>2. u[MaxAttempts + 1] = "none"
    BY <1>1 DEF AttemptLimit
  <2>3. Sent(u) \subseteq 1 .. MaxAttempts
    BY <2>2, AttemptsAssumption DEF Sent, Attempts
  <2>4. MaxAttempts \in Nat /\ 1 \in Int /\ MaxAttempts \in Int
    BY AttemptsAssumption
  <2>5. IsFiniteSet(1 .. MaxAttempts) /\ Cardinality(1 .. MaxAttempts) = MaxAttempts
    BY <2>4, FS_Interval
  <2>6. IsFiniteSet(Sent(u)) /\ Cardinality(Sent(u)) <= MaxAttempts
    BY <2>3, <2>5, FS_Subset
  <2>7. IsFiniteSet(Sent(t))
    BY <2>1, <2>6, FS_Subset
  <2>8. Cardinality(Sent(u)) = Cardinality(Sent(t)) + 1
    BY <2>1, <2>7, FS_AddElement
  <2>9. Cardinality(Sent(t)) \in Nat
    BY <2>7, FS_CardinalityType
  <2> QED BY <2>4, <2>6, <2>8, <2>9
<1>7. Borrower!Send(l)
  <2> HIDE DEF u, t
  <2> QED BY <1>4, <1>5, <1>6 DEF Borrower!Send
<1> QED BY <1>1, <1>7 DEF Borrower!PayoutNext

\* A loan is announced.
LEMMA ServiceTells ==
    ASSUME TypeInv, SessionInv, TruthInv, LedgerInv, PaidInv,
           NEW w \in Workers, EmitDisbursed(w)
    PROVE  Borrower!PayoutNext \/ UNCHANGED <<Money, Tries, Announced>>
<1> DEFINE l == cur[w]
           a == hook[w].attempt
<1>1. UNCHANGED <<Money, Tries>>
  BY DEF EmitDisbursed, providerVars, Money, Tries
<1>2. CASE UNCHANGED emitted
  BY <1>1, <1>2 DEF Announced
<1>3. CASE emitted' = [emitted EXCEPT ![l] = IF @ < EmitCap THEN @ + 1 ELSE @]
  <2>1. /\ l \in Loans /\ a \in Attempts
        /\ transfer[l][a] \in {"success", "reversed"}
    BY DEF EmitDisbursed, PaidInv, TypeInv, TypeOK, JobInv, Hooks
  <2>2. \A b \in Attempts : b # a => transfer[l][b] \in {"none", "failed"}
    BY <2>1 DEF LedgerInv, RowLedger
  <2>3. Money[l] \in {"paid", "returned"}
    BY <2>1, <2>2, WhereOne DEF Money
  <2>4. \A m \in Loans : emitted'[m] > 0 <=> emitted[m] > 0 \/ m = l
    BY <1>3, <2>1, EmitCapAssumption DEF TypeInv, TypeOK
  <2>5. Announced' = Announced \cup {l}
    BY <2>1, <2>4 DEF Announced
  <2>6. Borrower!Tell(l)
    BY <1>1, <2>3, <2>5 DEF Borrower!Tell
  <2> QED BY <2>1, <2>6 DEF Borrower!PayoutNext
<1> QED BY <1>2, <1>3 DEF EmitDisbursed

\* Every step of the service is a step of the payout, or none.
LEMMA PayoutSteps ==
    ASSUME TypeInv, LockInv, SessionInv, TruthInv, PaidInv, LedgerInv,
           AttemptLimit', [Next]_vars
    PROVE  [Borrower!PayoutNext]_(Borrower!payoutVars)
<1> SUFFICES Borrower!PayoutNext \/ UNCHANGED <<Money, Tries, Announced>>
  BY DEF Borrower!payoutVars
<1>1. ASSUME UNCHANGED <<transfer, emitted>>
      PROVE  UNCHANGED <<Money, Tries, Announced>>
  BY <1>1 DEF Money, Tries, Announced
<1>2. ASSUME NEW w \in Workers,
             \/ Insert(w) \/ Reset(w) \/ DeadlockAbort(w) \/ CallReturns(w)
             \/ CallRaises(w) \/ WriteWebhook(w) \/ Commit(w)
             \/ SweepDiscarded(w) \/ InitiateRaises(w) \/ Ack(w) \/ Crash(w)
             \/ Sweep(w)
             \/ \E l \in Loans : HttpInitiate(w, l) \/ Consume(w, l) \/ Retry(w, l)
             \/ \E h \in hooks : Webhook(w, h)
      PROVE  UNCHANGED <<transfer, emitted>>
  BY <1>2
  DEF Insert, Reset, DeadlockAbort, CallReturns, CallRaises, WriteWebhook, Commit,
      SweepDiscarded, InitiateRaises, Ack, Crash, Sweep, HttpInitiate, Consume,
      Retry, Webhook, providerVars, busVars
<1>3. CASE UNCHANGED vars
  BY <1>1, <1>3 DEF vars, providerVars, busVars
<1> QED
  BY <1>1, <1>2, <1>3, ProviderPays, ServiceSends, ServiceTells DEF Next, JobStep

(* As long as no two sessions work on the same loan at the same time and   *)
(* no call is ambiguous, the service implements Payout whatever else fails: *)
(* the amount of a loan is sent again only after the sending failed, at    *)
(* most MAX_ATTEMPTS times, and announced only when it arrived.            *)
THEOREM ServiceIsPayout ==
    ASSUME "ambiguous_call" \notin Faults
    PROVE  Spec /\ []Separate => ImplementsPayout
<1>1. Init => Borrower!PayoutInit
  <2> SUFFICES ASSUME Init PROVE Borrower!PayoutInit
    OBVIOUS
  <2>1. ASSUME NEW l \in Loans
        PROVE  \/ Where(transfer[l]) = "owed" /\ Sent(transfer[l]) = {}
               \/ Where(transfer[l]) = "sending" /\ Sent(transfer[l]) = {1}
    <3>1. CASE \A a \in Attempts : transfer[l][a] = "none"
      BY <3>1 DEF Where, Sent
    <3>2. CASE \A a \in Attempts :
                 transfer[l][a] = IF a = 1 THEN "pending" ELSE "none"
      <4>1. 1 \in Attempts
        BY DEF Attempts
      <4> QED BY <3>2, <4>1 DEF Where, Sent
    <3> QED BY <3>1, <3>2, InitRow
  <2>2. Cardinality({}) = 0 /\ Cardinality({1}) = 1
    BY FS_EmptySet, FS_Singleton
  <2>3. \A l \in Loans :
          /\ Money[l] \in {"owed", "sending"}
          /\ Tries[l] = IF Money[l] = "owed" THEN 0 ELSE 1
    BY <2>1, <2>2 DEF Money, Tries
  <2>4. Announced = {}
    BY DEF Announced, Init
  <2>5. Money = [l \in Loans |-> Money[l]] /\ Tries = [l \in Loans |-> Tries[l]]
    BY DEF Money, Tries
  <2> HIDE DEF Money, Tries
  <2>6. Money \in [Loans -> {"owed", "sending"}]
    BY <2>3, <2>5
  <2>7. Tries = [l \in Loans |-> IF Money[l] = "owed" THEN 0 ELSE 1]
    BY <2>3, <2>5
  <2> QED BY <2>4, <2>6, <2>7 DEF Borrower!PayoutInit
<1>2. TypeInv /\ LockInv /\ SessionInv /\ TruthInv /\ PaidInv /\ LedgerInv
        /\ AttemptLimit' /\ [Next]_vars
        => [Borrower!PayoutNext]_(Borrower!payoutVars)
  BY PayoutSteps
<1> QED
  BY <1>1, <1>2, TypeCorrect, LockInvHolds, SessionInvHolds, TruthInvHolds,
     PaidInvHolds, LedgerInvHolds, AttemptsLimited, PTL
  DEF Spec, ImplementsPayout, Borrower!PayoutSpec
-----------------------------------------------------------------------------
(* The lifecycle of a row, whatever fails.                                 *)

(* What a row says of its transfer: an initiated one is that of its last   *)
(* attempt, and a FAILED row with a transfer_code is of one that failed.   *)
RowCode(l) ==
    /\ row[l].state \in {"ABSENT", "TRANSFER_INITIATED", "FAILED",
                         "COMPLETED", "REVERSED"}
    /\ row[l].state = "ABSENT" => row[l] = NoRow
    /\ row[l].state = "TRANSFER_INITIATED" =>
         row[l].code = row[l].attempt /\ row[l].attempt > 0
    /\ row[l].state = "FAILED" /\ row[l].code # 0 =>
         transfer[l][row[l].code] = "failed"

(* During a call the draft has the attempt and the code of the row, after  *)
(* it one attempt more.                                                    *)
DraftCode(l) ==
    /\ Calling(l) =>
         draft[l].code = row[l].code /\ draft[l].attempt = row[l].attempt
    /\ lock[l] # Nobody /\ ~Calling(l) => Called(row[l], draft[l])

CodeInv == \A l \in Loans : RowCode(l) /\ DraftCode(l)

\* RowCode and DraftCode depend on the loan's own row and on what failed.
LEMMA CodeOfSame ==
    ASSUME TypeInv, NEW l \in Loans, RowCode(l), DraftCode(l),
           row'[l] = row[l], lock'[l] = lock[l], draft'[l] = draft[l],
           \A a \in Attempts :
             transfer[l][a] = "failed" => transfer'[l][a] = "failed",
           Calling(l)' <=> Calling(l)
    PROVE  RowCode(l)' /\ DraftCode(l)'
<1>1. row[l].code \in Attempts \cup {0}
  BY DEF TypeInv, TypeOK, Rows, Attempts
<1> QED BY <1>1 DEF RowCode, DraftCode

\* A step of one session that leaves the transfers alone.
LEMMA CodeFrame ==
    ASSUME TypeInv, CodeInv, NEW w \in Workers, Alone(w), UNCHANGED transfer,
           \A l \in Touches(w) : RowCode(l)' /\ DraftCode(l)'
    PROVE  CodeInv'
<1> SUFFICES ASSUME NEW l \in Loans, l \notin Touches(w)
             PROVE  RowCode(l)' /\ DraftCode(l)'
  BY DEF CodeInv
<1> QED BY CallingElsewhere, CodeOfSame DEF CodeInv

\* Provider steps forget no failure, and change no session.
LEMMA CodeOfProvider ==
    ASSUME TypeInv, CodeInv, UNCHANGED <<dbVars, pc, cur>>,
           \A l \in Loans, a \in Attempts :
             transfer[l][a] = "failed" => transfer'[l][a] = "failed"
    PROVE  CodeInv'
<1>1. \A l \in Loans : Calling(l)' <=> Calling(l)
  BY DEF Calling, dbVars
<1> QED BY <1>1, CodeOfSame DEF CodeInv, dbVars

\* What handle_webhook() writes is a true answer about the row's transfer.
LEMMA WebhookAnswers ==
    ASSUME TypeInv, TruthInv, NEW w \in Workers, WriteWebhook(w), SessionOf(w),
           cur[w] \in Loans, RowCode(cur[w])
    PROVE  Answered(row[cur[w]], row'[cur[w]],
                    transfer[cur[w]][row[cur[w]].code])
<1> DEFINE l == cur[w]
<1>1. /\ hook[w] \in Hooks /\ HookTrue(hook[w]) /\ hook[w].loan = l
      /\ row[l].code = hook[w].attempt
      /\ row[l].state \notin Terminal
      /\ snap[w][l] = row[l]
  BY DEF WriteWebhook, SessionOf, TypeInv, JobInv, TruthInv
<1>2. /\ row'[l].code = row[l].code /\ row'[l].attempt = row[l].attempt
      /\ hook[w].status = "success" => row'[l].state = "COMPLETED"
      /\ hook[w].status = "failed" => row'[l].state = "FAILED"
      /\ hook[w].status = "reversed" => row'[l].state = "REVERSED"
  BY <1>1 DEF WriteWebhook, TypeInv, TypeOK, Rows
<1>3. /\ row[l].code # 0
      /\ hook[w].status \in {"success", "failed", "reversed"}
  BY <1>1 DEF Hooks, Attempts
<1>4. row[l].state \in {"TRANSFER_INITIATED", "FAILED"}
  BY <1>1, <1>3 DEF RowCode, NoRow, Terminal
<1>5. row[l].state = "FAILED" => hook[w].status = "failed"
  BY <1>1, <1>3 DEF RowCode, HookTrue
<1> QED BY <1>1, <1>2, <1>3, <1>4, <1>5 DEF Answered, HookTrue

\* Every step of a session preserves CodeInv.
LEMMA StepCode ==
    ASSUME TypeInv, LockInv, Separate, SessionInv, TruthInv, CodeInv,
           NEW w \in Workers, SessionStep(w)
    PROVE  CodeInv'
<1> DEFINE Kept == \A l \in Touches(w) : RowCode(l)' /\ DraftCode(l)'
<1>1. /\ Alone(w) /\ SessionOf(w)
      /\ pc[w] # "idle" => cur[w] \in Loans
      /\ pc[w] = "call" => lock[cur[w]] = w
      /\ \A l \in Loans : l \in Touches(w) => lock[l] \in {w, Nobody}
  BY StepAlone
  DEF SessionInv, LockInv, TypeInv, TypeOK, JobInv, Separate, Touches
<1>2. \A l \in Touches(w) : l \in Loans /\ RowCode(l) /\ DraftCode(l)
  BY DEF CodeInv, Touches
<1>3. ASSUME UNCHANGED <<dbVars, transfer>>, \A l \in Loans : lock[l] # w
      PROVE  CodeInv'
  <2>1. ASSUME NEW l \in Touches(w) PROVE Calling(l) <=> Calling(l)'
    BY <1>1, <1>3 DEF Calling, Touches, dbVars
  <2>2. Kept
    BY <1>2, <1>3, <2>1, CodeOfSame DEF dbVars
  <2> QED BY <1>1, <1>3, <2>2, CodeFrame
<1>4. ASSUME Rollback(w), End(w), UNCHANGED transfer PROVE CodeInv'
  <2>1. \A l \in Touches(w) : row'[l] = row[l] /\ lock'[l] = Nobody
    BY <1>1, <1>2, <1>4 DEF Rollback, Release
  <2>2. Kept
    BY <1>2, <1>4, <2>1 DEF RowCode, DraftCode, Calling
  <2> QED BY <1>1, <1>4, <2>2, CodeFrame
<1>5. ASSUME pc[w] = "call", Retrying(w), Proceed(w),
             UNCHANGED <<row, lock, transfer>>,
             NEW d, draft' = [draft EXCEPT ![cur[w]] = d],
             d.attempt = AttemptOf(w),
             \/ d.state = "TRANSFER_INITIATED" /\ d.code = AttemptOf(w)
             \/ d.state = "FAILED" /\ d.code = draft[cur[w]].code
      PROVE  CodeInv'
  <2>1. row[cur[w]].state = "FAILED" /\ Calling(cur[w])
    BY <1>1, <1>5 DEF SessionOf, HolderOf, Calling
  <2>2. AttemptOf(w) = row[cur[w]].attempt + 1
    BY <1>1, <1>5 DEF SessionOf, AttemptOf
  <2>3. pc' = [pc EXCEPT ![w] = "commit"] \/ pc' = [pc EXCEPT ![w] = "reset"]
    BY <1>5 DEF Proceed
  <2>4. pc'[w] # "call"
    BY <2>3 DEF TypeInv, TypeOK
  <2>5. ASSUME NEW l \in Touches(w), l = cur[w] PROVE RowCode(l)' /\ DraftCode(l)'
    <3>1. lock[l] = w /\ lock'[l] = w /\ draft'[l] = d
      BY <1>1, <1>2, <1>5, <2>5 DEF TypeInv, TypeOK
    <3>2. ~Calling(l)'
      BY <2>4, <3>1 DEF Calling
    <3>3. RowCode(l) /\ draft[l].code = row[l].code
      BY <1>2, <2>1, <2>5 DEF DraftCode
    <3>4. Called(row[l], d)
      BY <1>5, <2>1, <2>2, <2>5, <3>3 DEF Called
    <3> QED BY <1>5, <3>1, <3>2, <3>3, <3>4 DEF RowCode, DraftCode
  <2>6. ASSUME NEW l \in Touches(w), l # cur[w] PROVE RowCode(l)' /\ DraftCode(l)'
    <3>1. draft'[l] = draft[l] /\ ~Calling(l) /\ ~Calling(l)'
      BY <1>1, <1>2, <1>5, <2>4, <2>6 DEF Calling, TypeInv, TypeOK, Touches
    <3> QED BY <1>2, <1>5, <3>1, CodeOfSame
  <2> QED BY <1>1, <1>5, <2>5, <2>6, CodeFrame
<1>6. ASSUME NEW r, Lock(w, cur[w], r), pc[w] \in {"insert", "reset"}, Goto(w, "call"),
             UNCHANGED transfer,
             r.code = row[cur[w]].code, r.attempt = row[cur[w]].attempt
      PROVE  CodeInv'
  <2>1. /\ cur[w] \in Loans /\ draft'[cur[w]] = r /\ lock'[cur[w]] = w
        /\ pc'[w] = "call" /\ cur' = cur /\ row' = row
        /\ \A l \in Loans : l # cur[w] => lock'[l] = lock[l] /\ draft'[l] = draft[l]
    BY <1>1, <1>6 DEF Lock, Goto, TypeInv, TypeOK
  <2>2. ASSUME NEW l \in Touches(w), l = cur[w] PROVE RowCode(l)' /\ DraftCode(l)'
    BY <1>2, <1>6, <2>1, <2>2 DEF RowCode, DraftCode, Calling
  <2>3. ASSUME NEW l \in Touches(w), l # cur[w] PROVE RowCode(l)' /\ DraftCode(l)'
    <3>1. ~Calling(l) /\ ~Calling(l)'
      BY <1>1, <1>2, <1>6, <2>1, <2>3 DEF Calling, Touches
    <3> QED BY <1>2, <1>6, <2>1, <2>3, <3>1, CodeOfSame
  <2> QED BY <1>1, <1>6, <2>2, <2>3, CodeFrame
<1>7. CASE Insert(w)
  <2>1. CASE row[cur[w]] = NoRow /\ Lock(w, cur[w], FirstRow) /\ Goto(w, "call")
    <3>1. FirstRow.code = NoRow.code /\ FirstRow.attempt = NoRow.attempt
      BY DEF FirstRow, NoRow
    <3> QED BY <1>6, <1>7, <2>1, <3>1 DEF Insert, providerVars
  <2>2. CASE End(w) /\ UNCHANGED dbVars
    BY <1>1, <1>3, <1>7, <2>2 DEF Insert, SessionOf, HolderOf, providerVars
  <2> QED BY <1>7, <2>1, <2>2 DEF Insert
<1>8. CASE Reset(w)
  <2> DEFINE r == [row[cur[w]] EXCEPT !.state = "PENDING",
                                      !.retry = @ /\ ~snap[w][cur[w]].retry]
  <2>1. row[cur[w]] \in Rows
    BY <1>1, <1>8 DEF Reset, TypeInv, TypeOK
  <2>2. r.code = row[cur[w]].code /\ r.attempt = row[cur[w]].attempt
    BY <2>1 DEF Rows
  <2>3. Lock(w, cur[w], r) /\ Goto(w, "call") /\ UNCHANGED transfer /\ pc[w] = "reset"
    BY <1>8 DEF Reset, providerVars
  <2> HIDE DEF r
  <2> QED BY <1>6, <2>2, <2>3
<1>9. CASE CallReturns(w)
  <2> DEFINE d == Initiated(draft[cur[w]], AttemptOf(w))
  <2>1. draft[cur[w]] \in Rows
    BY <1>1, <1>9 DEF CallReturns, TypeInv, TypeOK
  <2>2. /\ d.attempt = AttemptOf(w) /\ d.code = AttemptOf(w)
        /\ d.state = "TRANSFER_INITIATED"
    BY <2>1 DEF Initiated, Rows
  <2>3. /\ pc[w] = "call" /\ Retrying(w) /\ Proceed(w)
        /\ UNCHANGED <<row, lock, transfer>>
        /\ draft' = [draft EXCEPT ![cur[w]] = d]
    BY <1>9 DEF CallReturns, providerVars
  <2> HIDE DEF d
  <2> QED BY <1>5, <2>2, <2>3
<1>10. CASE CallRaises(w)
  <2> DEFINE d == NotInitiated(draft[cur[w]], AttemptOf(w))
  <2>1. draft[cur[w]] \in Rows
    BY <1>1, <1>10 DEF CallRaises, TypeInv, TypeOK
  <2>2. d.attempt = AttemptOf(w) /\ d.state = "FAILED" /\ d.code = draft[cur[w]].code
    BY <2>1 DEF NotInitiated, Rows
  <2>3. /\ pc[w] = "call" /\ Retrying(w) /\ Proceed(w)
        /\ UNCHANGED <<row, lock, transfer>>
        /\ draft' = [draft EXCEPT ![cur[w]] = d]
    BY <1>10 DEF CallRaises, providerVars
  <2> HIDE DEF d
  <2> QED BY <1>5, <2>2, <2>3
<1>11. CASE \/ DeadlockAbort(w) \/ SweepDiscarded(w)
            \/ InitiateRaises(w) \/ Crash(w)
  BY <1>4, <1>11
  DEF DeadlockAbort, SweepDiscarded, InitiateRaises, Crash, providerVars
<1>12. CASE EmitDisbursed(w) \/ Ack(w)
  BY <1>1, <1>3, <1>12 DEF EmitDisbursed, Ack, SessionOf, HolderOf, providerVars
<1>13. ASSUME pc[w] = "idle", UNCHANGED <<dbVars, transfer>> PROVE CodeInv'
  BY <1>1, <1>3, <1>13 DEF SessionOf, HolderOf
<1>14. CASE \/ Sweep(w)
            \/ \E l \in Loans : HttpInitiate(w, l) \/ Consume(w, l) \/ Retry(w, l)
            \/ \E h \in hooks : Webhook(w, h)
  BY <1>13, <1>14
  DEF Sweep, HttpInitiate, Consume, Retry, Webhook, Start, providerVars
<1>15. CASE Commit(w)
  <2>1. ASSUME NEW l \in Touches(w), lock[l] = w PROVE RowCode(l)' /\ DraftCode(l)'
    <3>1. /\ row'[l] = draft[l] /\ lock'[l] = Nobody /\ transfer' = transfer
          /\ ~Calling(l)
      BY <1>2, <1>15, <2>1 DEF Commit, Release, Calling, providerVars
    <3>2. Called(row[l], draft[l]) /\ row[l].attempt \in Nat
      BY <1>2, <2>1, <3>1 DEF DraftCode, TypeInv, TypeOK, Rows
    <3>3. row[l].state = "ABSENT" => row[l].code = 0
      BY <1>2 DEF RowCode, NoRow
    <3> QED BY <1>2, <3>1, <3>2, <3>3 DEF RowCode, DraftCode, Called, Calling
  <2>2. ASSUME NEW l \in Touches(w), lock[l] # w PROVE RowCode(l)' /\ DraftCode(l)'
    <3>1. /\ lock[l] = Nobody /\ lock'[l] = Nobody /\ row'[l] = row[l]
          /\ draft'[l] = draft[l] /\ transfer' = transfer
      BY <1>1, <1>2, <1>15, <2>2 DEF Commit, Release, providerVars
    <3> QED BY <1>2, <3>1, CodeOfSame DEF Calling
  <2> QED BY <1>1, <1>15, <2>1, <2>2, CodeFrame DEF Commit, providerVars
<1>16. CASE WriteWebhook(w)
  <2>1. ASSUME NEW l \in Touches(w), l = cur[w] PROVE RowCode(l)' /\ DraftCode(l)'
    <3>1. Answered(row[l], row'[l], transfer[l][row[l].code])
      BY <1>1, <1>2, <1>16, <2>1, WebhookAnswers
    <3>2. lock'[l] = Nobody /\ transfer' = transfer
      BY <1>16, <2>1 DEF WriteWebhook, providerVars
    <3> QED BY <1>2, <3>1, <3>2 DEF RowCode, DraftCode, Answered, Calling
  <2>2. ASSUME NEW l \in Touches(w), l # cur[w] PROVE RowCode(l)' /\ DraftCode(l)'
    <3>1. /\ row'[l] = row[l] /\ lock' = lock /\ draft' = draft
          /\ transfer' = transfer /\ ~Calling(l) /\ ~Calling(l)'
      BY <1>1, <1>2, <1>16, <2>2
      DEF WriteWebhook, Goto, Calling, providerVars, TypeInv, TypeOK
    <3> QED BY <1>2, <3>1, CodeOfSame
  <2> QED BY <1>1, <1>16, <2>1, <2>2, CodeFrame DEF WriteWebhook, providerVars
<1>17. CASE Accept(w)
  <2>1. \A l \in Loans, a \in Attempts :
          transfer[l][a] = "failed" => transfer'[l][a] = "failed"
    BY <1>17 DEF Accept, TypeInv, TypeOK
  <2> QED BY <1>17, <2>1, CodeOfProvider DEF Accept, workerVars
<1> QED
  BY <1>7, <1>8, <1>9, <1>10, <1>11, <1>12, <1>14, <1>15, <1>16, <1>17
  DEF SessionStep, JobStep

\* Every step, or stuttering step, preserves the invariant.
LEMMA NextCodeInv ==
    ASSUME TypeInv, LockInv, Separate, SessionInv, TruthInv, CodeInv, [Next]_vars
    PROVE  CodeInv'
<1>1. ASSUME NEW w \in Workers, SessionStep(w) PROVE CodeInv'
  BY <1>1, StepCode
<1>2. ASSUME NEW l \in Loans, NEW a \in Attempts, Settle(l, a) \/ Reverse(l, a)
      PROVE  CodeInv'
  <2>1. \A m \in Loans, b \in Attempts :
          transfer'[m][b] = transfer[m][b] \/ (m = l /\ b = a)
    BY <1>2 DEF Settle, Reverse, TypeInv, TypeOK
  <2>2. transfer[l][a] # "failed"
    BY <1>2 DEF Settle, Reverse
  <2>3. \A m \in Loans, b \in Attempts :
          transfer[m][b] = "failed" => transfer'[m][b] = "failed"
    BY <2>1, <2>2
  <2> QED BY <1>2, <2>3, CodeOfProvider DEF Settle, Reverse, workerVars
<1>3. CASE UNCHANGED vars
  BY <1>3, CodeOfProvider DEF vars, providerVars, workerVars
<1> QED BY <1>1, <1>2, <1>3 DEF Next, SessionStep

\* Sessions that keep apart write rows and codes that belong together.
LEMMA CodeInvHolds == Spec /\ []Separate => []CodeInv
<1>1. Init => CodeInv
  <2> SUFFICES ASSUME Init, NEW l \in Loans PROVE RowCode(l) /\ DraftCode(l)
    BY DEF CodeInv
  <2>1. lock[l] = Nobody
    BY DEF Init
  <2>2. DraftCode(l)
    BY <2>1 DEF DraftCode, Calling
  <2>3. RowCode(l)
    BY InitRow DEF RowCode, NoRow
  <2> QED BY <2>2, <2>3
<1>2. TypeInv /\ LockInv /\ Separate /\ SessionInv /\ TruthInv /\ CodeInv
        /\ [Next]_vars => CodeInv'
  BY NextCodeInv
<1> QED
  BY <1>1, <1>2, TypeCorrect, LockInvHolds, SessionInvHolds, TruthInvHolds, PTL
  DEF Spec

(* As long as no two sessions work on the same loan at the same time, a    *)
(* committed row changes only by one whole attempt or by one true answer   *)
(* about its transfer, with crashes, repeated webhooks, ambiguous calls    *)
(* and discarded sweeps.                                                   *)
THEOREM LifecycleIsKept == Spec /\ []Separate => RowsKeepToLifecycle
<1> DEFINE Moves ==
      \A l \in Loans :
        row'[l] # row[l] =>
          \/ Called(row[l], row'[l])
          \/ Answered(row[l], row'[l], transfer[l][row[l].code])
<1>1. ASSUME TypeInv, LockInv, SessionInv, TruthInv, CodeInv, [Next]_vars
      PROVE  [Moves]_vars
  <2>1. ASSUME NEW w \in Workers, SessionStep(w) PROVE Moves
    <3> SUFFICES ASSUME NEW l \in Loans, row'[l] # row[l]
                 PROVE  \/ Called(row[l], row'[l])
                        \/ Answered(row[l], row'[l], transfer[l][row[l].code])
      OBVIOUS
    <3>1. CASE Commit(w)
      <4>1. /\ lock[l] = w /\ row'[l] = draft[l] /\ w # Nobody
            /\ ~Calling(l)
        BY <3>1 DEF Commit, Calling
      <4> QED BY <1>1, <4>1 DEF CodeInv, DraftCode
    <3>2. CASE WriteWebhook(w)
      <4>1. l = cur[w] /\ SessionOf(w) /\ RowCode(l)
        BY <1>1, <3>2 DEF WriteWebhook, SessionInv, CodeInv, TypeInv, TypeOK
      <4> QED BY <1>1, <3>2, <4>1, WebhookAnswers
    <3>3. CASE UNCHANGED row
      BY <3>3
    <3> QED
      BY <2>1, <3>1, <3>2, <3>3
      DEF SessionStep, JobStep, Insert, Reset, DeadlockAbort, CallReturns,
          CallRaises, InitiateRaises, EmitDisbursed, SweepDiscarded, Ack,
          Accept, Crash, Sweep, HttpInitiate, Consume, Retry, Webhook, Lock,
          Rollback, dbVars
  <2>2. ASSUME NEW l \in Loans, NEW a \in Attempts, Settle(l, a) \/ Reverse(l, a)
        PROVE  UNCHANGED row
    BY <2>2 DEF Settle, Reverse, dbVars
  <2>3. CASE UNCHANGED vars
    BY <2>3
  <2>4. CASE Next
    BY <2>1, <2>2, <2>4 DEF Next, SessionStep
  <2> QED BY <1>1, <2>3, <2>4
<1> QED
  BY <1>1, TypeCorrect, LockInvHolds, SessionInvHolds, TruthInvHolds,
     CodeInvHolds, PTL
  DEF Spec, RowsKeepToLifecycle
=============================================================================
