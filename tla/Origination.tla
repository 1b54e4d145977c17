----------------------------- MODULE Origination -----------------------------
(***************************************************************************)
(* The loan-origination service: applications scored and underwritten in   *)
(* one request, offers accepted and loans cancelled by requests that may   *)
(* overlap. accept_offer() and cancel_loan() read the loan without a lock, *)
(* check its state on what they read, and commit the columns they changed. *)
(*                                                                         *)
(* Nothing in the service sets DRAFT, DISBURSING or ACTIVE, and an         *)
(* accepted offer is announced to nobody. An application that is declined  *)
(* is never added to the session: nothing of it is stored.                 *)
(***************************************************************************)
EXTENDS Underwriting

CONSTANTS
    Loans,      \* identifiers of applications
    Requests,   \* what applicants ask for: amount, tenure, income (0: unknown)
    Answers,    \* tiers the scoring service may answer with
    Methods,    \* disbursement methods
    DefaultMethod,
    ValidFor,   \* offer_validity_hours
    MaxNow,     \* the clock stops here
    Workers,    \* concurrent requests
    NoLoan      \* the loan of an idle worker

ASSUME RequestsAssumption ==
    Requests \subseteq [amount : Nat \ {0}, tenure : Nat \ {0}, income : Nat]
ASSUME MethodsAssumption == DefaultMethod \in Methods
ASSUME ClockAssumption == ValidFor \in Nat /\ MaxNow \in Nat
ASSUME LoansAssumption == NoLoan \notin Loans

-----------------------------------------------------------------------------
(* Rows                                                                    *)

States == {"ABSENT", "OFFER_SENT", "OFFER_ACCEPTED", "CANCELLED"}

\* A loan_applications row and its loan_offers row; `at' is accepted_at.
NoTerms == [amount |-> 0, tenure |-> 0, monthly |-> 0, total |-> 0]
NoApplication == [state |-> "ABSENT", tier |-> "none",
                  request |-> [amount |-> 0, tenure |-> 0, income |-> 0]]
NoOffer == [terms |-> NoTerms, expires |-> 0, accepted |-> FALSE, at |-> 0,
            method |-> DefaultMethod]

\* The columns a session changed, written over the newest committed row.
Merge(row, loaded, new) ==
    [c \in DOMAIN row |-> IF new[c] = loaded[c] THEN row[c] ELSE new[c]]

-----------------------------------------------------------------------------
VARIABLES
    loan, offer,   \* the two tables, by loan
    now,
    pc, on,        \* the requests: step and loan
    loadedLoan, newLoan, loadedOffer, newOffer,   \* rows read and changed
    overlapped     \* history: two requests on a loan were open at once

rowVars == <<loan, offer>>
requestVars == <<pc, on, loadedLoan, newLoan, loadedOffer, newOffer>>
vars == <<rowVars, now, requestVars, overlapped>>

Applications == [state : States, tier : Answers \cup {"very_poor", "none"},
                 request : Requests \cup {NoApplication.request}]
OfferTerms == [amount : Nat, tenure : Nat, monthly : Nat, total : Nat]
Offers == [terms : OfferTerms, expires : Nat, accepted : BOOLEAN, at : Nat,
           method : Methods]

TypeOK ==
    /\ loan \in [Loans -> Applications]
    /\ offer \in [Loans -> Offers]
    /\ now \in Nat
    /\ pc \in [Workers -> {"idle", "commit"}]
    /\ on \in [Workers -> Loans \cup {NoLoan}]
    /\ loadedLoan \in [Workers -> Applications]
    /\ newLoan \in [Workers -> Applications]
    /\ loadedOffer \in [Workers -> Offers]
    /\ newOffer \in [Workers -> Offers]
    /\ overlapped \in BOOLEAN

Init ==
    /\ loan = [l \in Loans |-> NoApplication]
    /\ offer = [l \in Loans |-> NoOffer]
    /\ now = 0
    /\ pc = [w \in Workers |-> "idle"]
    /\ on = [w \in Workers |-> NoLoan]
    /\ loadedLoan = [w \in Workers |-> NoApplication]
    /\ newLoan = [w \in Workers |-> NoApplication]
    /\ loadedOffer = [w \in Workers |-> NoOffer]
    /\ newOffer = [w \in Workers |-> NoOffer]
    /\ overlapped = FALSE

-----------------------------------------------------------------------------
\* submit_application(): the score on file, or a fresh one, or `very_poor'
\* when the scoring service cannot be reached. An approved application and its
\* offer are committed together and nobody can name the loan before; a declined
\* one raises at its refresh() and leaves no row.
Submit(l, request, tier) ==
    LET decision == Underwrite(tier, request.amount, request.tenure,
                               request.income)
    IN  /\ loan[l].state = "ABSENT"
        /\ decision.approved
        /\ loan' = [loan EXCEPT ![l] =
                [state |-> "OFFER_SENT", tier |-> tier, request |-> request]]
        /\ offer' = [offer EXCEPT ![l].expires = now + ValidFor,
                        ![l].terms = [c \in DOMAIN NoTerms |-> decision[c]]]
        /\ UNCHANGED <<now, requestVars, overlapped>>

\* Request w has read loan l and its offer and means to commit the new rows.
Open(w, l, application, terms) ==
    /\ pc[w] = "idle"
    /\ pc' = [pc EXCEPT ![w] = "commit"]
    /\ on' = [on EXCEPT ![w] = l]
    /\ loadedLoan' = [loadedLoan EXCEPT ![w] = loan[l]]
    /\ newLoan' = [newLoan EXCEPT ![w] = application]
    /\ loadedOffer' = [loadedOffer EXCEPT ![w] = offer[l]]
    /\ newOffer' = [newOffer EXCEPT ![w] = terms]
    /\ overlapped' = (overlapped \/ \E v \in Workers : on[v] = l)
    /\ UNCHANGED <<rowVars, now>>

Close(w) ==
    /\ pc' = [pc EXCEPT ![w] = "idle"]
    /\ on' = [on EXCEPT ![w] = NoLoan]
    /\ loadedLoan' = [loadedLoan EXCEPT ![w] = NoApplication]
    /\ newLoan' = [newLoan EXCEPT ![w] = NoApplication]
    /\ loadedOffer' = [loadedOffer EXCEPT ![w] = NoOffer]
    /\ newOffer' = [newOffer EXCEPT ![w] = NoOffer]

\* Mutants: the expiry is not checked, or the state too loosely.
AcceptExpired(w, l, method) ==
    /\ loan[l].state = "OFFER_SENT"
    /\ Open(w, l, [loan[l] EXCEPT !.state = "OFFER_ACCEPTED"],
            [offer[l] EXCEPT !.accepted = TRUE, !.at = now, !.method = method])
AcceptAgain(w, l, method) ==
    /\ loan[l].state \in {"OFFER_SENT", "OFFER_ACCEPTED"}
    /\ offer[l].expires >= now
    /\ Open(w, l, [loan[l] EXCEPT !.state = "OFFER_ACCEPTED"],
            [offer[l] EXCEPT !.accepted = TRUE, !.at = now, !.method = method])
\* accept_offer(), up to its commit.
Accept(w, l, method) ==
    /\ loan[l].state = "OFFER_SENT"
    /\ offer[l].expires >= now
    /\ Open(w, l, [loan[l] EXCEPT !.state = "OFFER_ACCEPTED"],
            [offer[l] EXCEPT !.accepted = TRUE, !.at = now, !.method = method])

\* cancel_loan(), up to its commit: an accepted offer stays accepted.
Cancel(w, l) ==
    /\ loan[l].state \notin {"ABSENT", "CANCELLED"}
    /\ Open(w, l, [loan[l] EXCEPT !.state = "CANCELLED"], offer[l])

Commit(w) ==
    /\ pc[w] = "commit"
    /\ loan' = [loan EXCEPT ![on[w]] = Merge(@, loadedLoan[w], newLoan[w])]
    /\ offer' = [offer EXCEPT ![on[w]] = Merge(@, loadedOffer[w], newOffer[w])]
    /\ Close(w)
    /\ UNCHANGED <<now, overlapped>>

\* The connection or the process is lost before the commit.
Abandon(w) ==
    /\ pc[w] = "commit"
    /\ Close(w)
    /\ UNCHANGED <<rowVars, now, overlapped>>

Tick ==
    /\ now < MaxNow
    /\ now' = now + 1
    /\ UNCHANGED <<rowVars, requestVars, overlapped>>

Next ==
    \/ \E l \in Loans, request \in Requests, tier \in Answers \cup {"very_poor"} :
        Submit(l, request, tier)
    \/ \E w \in Workers, l \in Loans :
        \/ \E method \in Methods : Accept(w, l, method)
        \/ Cancel(w, l)
    \/ \E w \in Workers : Commit(w) \/ Abandon(w)
    \/ Tick

Spec == Init /\ [][Next]_vars
=============================================================================
