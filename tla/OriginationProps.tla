-------------------------- MODULE OriginationProps --------------------------
(* What the loan-origination service promises of its offers and its loans. *)
EXTENDS Origination

Offered(l) == offer[l].terms.amount > 0

\* An offer never costs more than 40% of the income the applicant stated: the
\* principal the guard cuts the loan down to is computed from the payment and
\* the payment from that principal again, each with its own rounding.
OfferWithinMeans ==
    \A l \in Loans :
        Offered(l) /\ loan[l].request.income > 0 =>
            offer[l].terms.monthly <= MaxRepayment(loan[l].request.income)

\* Only applicants of an approving tier get an offer, of at least the minimum
\* loan and of no more than they asked for or their tier allows.
OfferWithinTier ==
    \A l \in Loans : Offered(l) =>
        LET tier == TierParams[loan[l].tier] IN
        /\ tier.approve
        /\ offer[l].terms.amount >= MinAmount
        /\ offer[l].terms.amount <= loan[l].request.amount
        /\ offer[l].terms.amount <= tier.maxAmount
        /\ offer[l].terms.tenure <= tier.maxTenure

\* What is repaid covers what is lent, whatever rounding did.
OfferCoversPrincipal ==
    \A l \in Loans : Offered(l) => offer[l].terms.total >= offer[l].terms.amount

\* Every offer is one the underwriting may make: within the means of the
\* applicant, within the tier, and covering what is lent.
OfferIsSound == OfferWithinMeans /\ OfferWithinTier /\ OfferCoversPrincipal

\* A loan is OFFER_ACCEPTED only with an offer marked accepted, and an offer
\* is accepted no later than it expires, however acceptances and cancellations
\* overlap.
AcceptedIsBacked ==
    \A l \in Loans :
        /\ loan[l].state = "OFFER_ACCEPTED" => offer[l].accepted
        /\ offer[l].accepted => /\ loan[l].state \in {"OFFER_ACCEPTED", "CANCELLED"}
                                /\ offer[l].at <= offer[l].expires

\* As long as the requests on a loan do not overlap, a cancelled loan stays
\* cancelled; with overlap an acceptance that read the offer before the
\* cancellation brings the loan back.
CancelledIsFinal(l) ==
    loan[l].state = "CANCELLED" /\ ~overlapped => loan'[l] = loan[l]

\* As long as the requests on a loan do not overlap, an offer is accepted once
\* and the disbursement method it was accepted with stays.
AcceptedOnce(l) ==
    offer[l].accepted /\ ~overlapped => offer'[l] = offer[l]

\* Decisions stand, a cancellation and an acceptance, as long as the requests on
\* a loan do not overlap.
DecisionsAreFinal ==
    [][\A l \in Loans : CancelledIsFinal(l) /\ AcceptedOnce(l)]_vars
=============================================================================
