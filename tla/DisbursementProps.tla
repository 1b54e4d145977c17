------------------------- MODULE DisbursementProps -------------------------
(***************************************************************************)
(* What the disbursement service should guarantee, whatever the order of   *)
(* its requests, webhooks, sweeps and failures.                            *)
(***************************************************************************)
EXTENDS Disbursement

Live(l) == {a \in Attempts : transfer[l][a] \in {"pending", "success"}}
Paid(l) == \E a \in Attempts : transfer[l][a] \in {"success", "reversed"}

\* No job works on loan l, no transaction on it is open, and no webhook about
\* it is still to be handled.
Quiet(l) ==
    /\ lock[l] = Nobody
    /\ \A w \in Workers : cur[w] # l /\ l \notin todo[w]
    /\ \A h \in hooks : h.loan # l

-----------------------------------------------------------------------------
(* A loan is recorded COMPLETED, or announced as disbursed on              *)
(* disbursement.events, only if the provider did pay one of its transfers  *)
(* (handle_webhook, whatever stale snapshot it works on).                  *)
DisbursedOnlyIfPaid ==
    \A l \in Loans : row[l].state = "COMPLETED" \/ emitted[l] > 0 => Paid(l)

(* Two sessions are never inside provider.initiate_transfer() for the same *)
(* loan: both initiate() and retry_disbursement() flush, and so lock, the  *)
(* row before they call.                                                   *)
ProviderCallsExclusive ==
    \A v, w \in Workers :
        pc[v] = "call" /\ pc[w] = "call" /\ cur[v] = cur[w] => v = w

(* The provider never sees more than MAX_ATTEMPTS references of a loan,    *)
(* although retries decide on rows they read long before they call.        *)
AttemptLimit == \A l \in Loans : transfer[l][MaxAttempts + 1] = "none"

(* A loan.offer_accepted message is acknowledged only when its loan has a  *)
(* committed disbursement row (_process_message: commit, then xack).       *)
AckedHasRow == \A l \in Loans : stream[l] = "acked" => row[l] # NoRow

(* A COMPLETED loan was announced at least once: the event is sent before  *)
(* the row is committed, so a crash repeats it rather than losing it.      *)
CompletedIsAnnounced ==
    \A l \in Loans : row[l].state = "COMPLETED" => emitted[l] > 0

(* However often initiate() is called for a loan, by requests and messages *)
(* that overlap, and although each call raises with nothing on record, the *)
(* provider sees one reference of the loan until the loan has a row: the   *)
(* borrower is not sent the amount twice.                                  *)
InitiateIsIdempotent ==
    \A l \in Loans :
        row[l] = NoRow => \A a \in Attempts \ {1} : transfer[l][a] = "none"

(* Jobs never all wait for each other: while some job runs, some job has a *)
(* next step, even when two sweeps hold rows the other one wants.          *)
SomeJobCanMove ==
    (\E w \in Workers : pc[w] # "idle")
        => \E w \in Workers : ENABLED JobStep(w)

(* At most one transfer of a loan is on its way or paid: the borrower is   *)
(* not paid twice by two attempts.                                         *)
NoDoublePayout == \A l \in Loans : Cardinality(Live(l)) <= 1

(* Once nothing about a loan with a row is in flight, the row agrees with  *)
(* the provider: an initiated transfer is pending, a completed one was     *)
(* paid, a reversed one was taken back, a failed loan has no live          *)
(* transfer. (Of a loan without a row the provider may have a transfer     *)
(* nobody here knows of.)                                                  *)
RowAgreesWithProvider ==
    \A l \in Loans :
        Quiet(l) /\ row[l] # NoRow =>
            CASE row[l].state = "TRANSFER_INITIATED" ->
                    transfer[l][row[l].code] = "pending"
              [] row[l].state = "COMPLETED" ->
                    transfer[l][row[l].code] \in {"success", "reversed"}
              [] row[l].state = "REVERSED" ->
                    transfer[l][row[l].code] = "reversed"
              [] OTHER -> Live(l) = {}

-----------------------------------------------------------------------------
\* The loans a session works on: its current one, the rest of its sweep, and
\* the rows it holds.
Touches(w) == {l \in Loans : l = cur[w] \/ l \in todo[w] \/ lock[l] = w}

\* No two sessions work on the same loan at the same time. Nothing in the code
\* keeps them apart: this is the hypothesis under which the properties below
\* hold, and TLC refutes each of them for two sessions on one loan.
Separate ==
    \A v, w \in Workers : v # w => Touches(v) \cap Touches(w) = {}

-----------------------------------------------------------------------------
(* A terminal row never changes its state again.                           *)
TerminalIsFinal ==
    [][\A l \in Loans :
         row[l].state \in Terminal => row'[l].state = row[l].state]_vars

\* What a retry makes of row r: the next attempt is spent, and the row has the
\* transfer_code of its reference or is FAILED.
Called(r, s) ==
    /\ r.state = "FAILED"
    /\ s.attempt = r.attempt + 1
    /\ \/ s.state = "TRANSFER_INITIATED" /\ s.code = s.attempt
       \/ s.state = "FAILED" /\ s.code = r.code

\* What a webhook makes of row r, whose transfer is in state t. One that comes
\* again may only set next_retry_at.
Answered(r, s, t) ==
    /\ s.attempt = r.attempt /\ s.code = r.code
    /\ \/ /\ r.state = "TRANSFER_INITIATED"
          /\ \/ s.state = "COMPLETED" /\ t \in {"success", "reversed"}
             \/ s.state = "FAILED" /\ t = "failed"
             \/ s.state = "REVERSED" /\ t = "reversed"
       \/ r.state = "FAILED" /\ s.state = "FAILED"

(* Every change of a committed row is one whole attempt or one true answer *)
(* about its transfer: no attempt is skipped or spent twice, a row does    *)
(* not go back to an earlier transfer, and none leaves a terminal state.   *)
(* This is the lifecycle the service has; the table of state_machine.py,   *)
(* whose steps a transaction hides or skips, is consulted by nobody.       *)
RowsKeepToLifecycle ==
    [][\A l \in Loans :
         row'[l] # row[l] =>
           \/ Called(row[l], row'[l])
           \/ Answered(row[l], row'[l], transfer[l][row[l].code])]_vars

-----------------------------------------------------------------------------
(* The mapping of the service to Payout: where the amount of a loan is and *)
(* how often it was sent, told from the loan's transfers, by attempt.      *)
Where(transfers) ==
    LET some(state) == \E a \in Attempts : transfers[a] = state
    IN  IF some("pending") THEN "sending"
        ELSE IF some("success") THEN "paid"
        ELSE IF some("reversed") THEN "returned"
        ELSE "owed"
Sent(transfers) == {a \in Attempts : transfers[a] # "none"}

Money == [l \in Loans |-> Where(transfer[l])]
Tries == [l \in Loans |-> Cardinality(Sent(transfer[l]))]
Announced == {l \in Loans : emitted[l] > 0}

Borrower == INSTANCE Payout WITH money <- Money, tries <- Tries, told <- Announced

(* The service implements the payout: a reference is first presented only  *)
(* when every earlier transfer of the loan failed, at most MAX_ATTEMPTS    *)
(* are, and loan.disbursed is sent of an amount that arrived. It does so   *)
(* while no two sessions work on one loan and no call fails ambiguously.   *)
ImplementsPayout == Borrower!PayoutSpec

-----------------------------------------------------------------------------
(* Every job ends: waits for rows are resolved, by a commit or by the      *)
(* deadlock abort, and a provider call times out.                          *)
JobsEnd == \A w \in Workers : pc[w] # "idle" ~> pc[w] = "idle"

(* Every webhook is answered with a 200, so that the provider stops        *)
(* sending it.                                                             *)
WebhooksAnswered == \A h \in Hooks : h \in hooks ~> h \notin hooks
=============================================================================
