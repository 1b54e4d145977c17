-------------------------- MODULE OriginationProofs --------------------------
(***************************************************************************)
(* Theorems about the loan-origination service, for any applications, any  *)
(* tier table and any number of requests.                                  *)
(*                                                                         *)
(* They rest on what a request that has passed its check holds             *)
(* (RequestInv): it means to commit a state other than the one it read, of *)
(* a loan that was not rejected, and either the offer as it read it or one *)
(* it found unaccepted, accepted before it expires.                        *)
(***************************************************************************)
EXTENDS OriginationProps, WellFoundedInduction, TLAPS

\* Offers whose terms are among T. What the terms are does not matter here.
OffersOf(T) == [terms : T, expires : Nat, accepted : BOOLEAN, at : Nat,
                method : Methods]

ShapedBy(T) ==
    /\ loan \in [Loans -> Applications]
    /\ offer \in [Loans -> OffersOf(T)]
    /\ now \in Nat
    /\ pc \in [Workers -> {"idle", "commit"}]
    /\ on \in [Workers -> Loans \cup {NoLoan}]
    /\ loadedLoan \in [Workers -> Applications]
    /\ newLoan \in [Workers -> Applications]
    /\ loadedOffer \in [Workers -> OffersOf(T)]
    /\ newOffer \in [Workers -> OffersOf(T)]
    /\ overlapped \in BOOLEAN

Shaped == \E T : ShapedBy(T)

\* The new offer of a request that accepts it.
Accepts(w) ==
    /\ newLoan[w].state = "OFFER_ACCEPTED"
    /\ ~loadedOffer[w].accepted /\ newOffer[w].accepted
    /\ newOffer[w].expires = loadedOffer[w].expires
    /\ newOffer[w].terms = loadedOffer[w].terms
    /\ newOffer[w].at <= offer[on[w]].expires
Cancels(w) ==
    /\ newLoan[w].state = "CANCELLED"
    /\ newOffer[w] = loadedOffer[w]

RequestOf(w) ==
    /\ pc[w] = "idle" => on[w] = NoLoan
    /\ pc[w] = "commit" =>
        /\ on[w] \in Loans
        /\ loan[on[w]].state # "ABSENT"
        /\ loadedLoan[w].state # "CANCELLED"
        /\ newLoan[w].state # loadedLoan[w].state
        /\ Accepts(w) \/ Cancels(w)

OfferOf(l) ==
    /\ loan[l].state = "OFFER_ACCEPTED" => offer[l].accepted
    /\ offer[l].accepted => loan[l].state \in {"OFFER_ACCEPTED", "CANCELLED"}
    /\ IF offer[l].accepted THEN offer[l].at <= offer[l].expires
                            ELSE offer[l].at = 0
    /\ loan[l].state = "ABSENT" => offer[l] = NoOffer

RequestInv ==
    /\ Shaped
    /\ \A w \in Workers : RequestOf(w)
    /\ \A l \in Loans : OfferOf(l)

\* What a request read is still the row, as long as requests do not overlap.
FreshInv ==
    ~overlapped =>
        /\ \A v, w \in Workers : on[v] = on[w] /\ on[v] # NoLoan => v = w
        /\ \A w \in Workers : pc[w] = "commit" =>
               loadedLoan[w] = loan[on[w]] /\ loadedOffer[w] = offer[on[w]]

OriginationInv == RequestInv /\ FreshInv

\* Writing back the columns of a record that changed.
LEMMA MergeApplication ==
    ASSUME NEW row \in Applications, NEW old \in Applications, NEW new \in Applications
    PROVE  /\ Merge(row, old, new) \in Applications
           /\ new.state # old.state => Merge(row, old, new).state = new.state
BY DEF Merge, Applications

LEMMA MergeOffer ==
    ASSUME NEW T, NEW row \in OffersOf(T), NEW old \in OffersOf(T),
           NEW new \in OffersOf(T)
    PROVE  /\ Merge(row, old, new) \in OffersOf(T)
           /\ new = old => Merge(row, old, new) = row
           /\ Merge(row, old, new).accepted =
                IF new.accepted = old.accepted THEN row.accepted ELSE new.accepted
           /\ Merge(row, old, new).expires =
                IF new.expires = old.expires THEN row.expires ELSE new.expires
           /\ Merge(row, old, new).terms =
                IF new.terms = old.terms THEN row.terms ELSE new.terms
           /\ Merge(row, old, new).at = IF new.at = old.at THEN row.at ELSE new.at
BY DEF Merge, OffersOf

LEMMA InitHolds ==
    ASSUME Init
    PROVE  OriginationInv
<1>1. NoApplication \in Applications /\ NoOffer \in OffersOf({NoTerms})
  BY MethodsAssumption DEF NoApplication, Applications, NoOffer, OffersOf, States,
                           MethodsAssumption
<1>2. /\ loan = [l \in Loans |-> NoApplication] /\ offer = [l \in Loans |-> NoOffer]
      /\ NoApplication.state = "ABSENT" /\ ~NoOffer.accepted /\ NoOffer.at = 0
  BY DEF Init, NoApplication, NoOffer
<1>3. ShapedBy({NoTerms})
  BY <1>1 DEF Init, ShapedBy
<1>4. RequestInv
  BY <1>2, <1>3 DEF Init, RequestInv, Shaped, RequestOf, OfferOf
<1>5. FreshInv
  BY DEF Init, FreshInv
<1> QED
  BY <1>4, <1>5 DEF OriginationInv

-----------------------------------------------------------------------------
(* submit_application()                                                    *)

\* What a submission does, whatever was offered.
Submitted(l) ==
    \E application \in Applications : \E terms :
        /\ loan[l].state = "ABSENT" /\ application.state = "OFFER_SENT"
        /\ loan' = [loan EXCEPT ![l] = application]
        /\ offer' = [offer EXCEPT ![l].expires = now + ValidFor, ![l].terms = terms]
        /\ UNCHANGED <<now, requestVars, overlapped>>

LEMMA SubmitShape ==
    ASSUME NEW l \in Loans, NEW request \in Requests,
           NEW tier \in Answers \cup {"very_poor"}, Submit(l, request, tier)
    PROVE  Submitted(l)
<1> DEFINE decision == Underwrite(tier, request.amount, request.tenure, request.income)
           application == [state |-> "OFFER_SENT", tier |-> tier, request |-> request]
           terms == [c \in DOMAIN NoTerms |-> decision[c]]
<1> HIDE DEF decision
<1>1. application \in Applications /\ application.state = "OFFER_SENT"
  BY DEF Applications, States
<1>2. /\ loan[l].state = "ABSENT"
      /\ loan' = [loan EXCEPT ![l] = application]
      /\ offer' = [offer EXCEPT ![l].expires = now + ValidFor, ![l].terms = terms]
      /\ UNCHANGED <<now, requestVars, overlapped>>
  BY DEF Submit, decision
<1> HIDE DEF application, terms
<1> QED
  BY <1>1, <1>2 DEF Submitted

LEMMA Wider ==
    ASSUME NEW T, NEW U, T \subseteq U, ShapedBy(T)
    PROVE  ShapedBy(U)
<1>1. \A o \in OffersOf(T) : o \in OffersOf(U)
  BY DEF OffersOf
<1> QED
  BY <1>1 DEF ShapedBy

LEMMA SubmitKeeps ==
    ASSUME OriginationInv, NEW l \in Loans, Submitted(l)
    PROVE  OriginationInv'
<1>1. PICK application, terms :
        /\ application \in Applications
        /\ loan[l].state = "ABSENT" /\ application.state = "OFFER_SENT"
        /\ loan' = [loan EXCEPT ![l] = application]
        /\ offer' = [offer EXCEPT ![l].expires = now + ValidFor, ![l].terms = terms]
        /\ UNCHANGED <<now, requestVars, overlapped>>
  BY DEF Submitted
<1>2. PICK T : ShapedBy(T)
  BY DEF OriginationInv, RequestInv, Shaped
<1> DEFINE U == T \cup {terms}
<1>3. ShapedBy(U)
  BY <1>2, Wider
<1>4. offer[l] = NoOffer /\ offer[l] \in OffersOf(U) /\ offer \in [Loans -> OffersOf(U)]
  BY <1>1, <1>3 DEF OriginationInv, RequestInv, OfferOf, ShapedBy
<1>5. /\ offer' \in [Loans -> OffersOf(U)]
      /\ \A m \in Loans \ {l} : offer'[m] = offer[m]
      /\ ~offer'[l].accepted /\ offer'[l].at = 0
  <2>1. ~offer[l].accepted /\ offer[l].at = 0
    BY <1>4 DEF NoOffer
  <2>2. now + ValidFor \in Nat
    BY <1>2, ClockAssumption DEF ShapedBy, ClockAssumption
  <2> HIDE DEF U
  <2>3. terms \in U
    BY DEF U
  <2> DEFINE due == now + ValidFor
  <2>4. due \in Nat /\ offer' = [offer EXCEPT ![l].expires = due, ![l].terms = terms]
    BY <1>1, <2>2
  <2> DEFINE dated == [offer[l] EXCEPT !.expires = due]
             row == [dated EXCEPT !.terms = terms]
  <2>5. offer' = [offer EXCEPT ![l] = row]
    BY <1>4, <2>4
  <2>6. dated \in OffersOf(U) /\ ~dated.accepted /\ dated.at = 0
    <3> HIDE DEF due
    <3> QED
      BY <1>4, <2>1, <2>4 DEF OffersOf
  <2> HIDE DEF dated
  <2>7. row \in OffersOf(U) /\ ~row.accepted /\ row.at = 0
    BY <2>3, <2>6 DEF OffersOf
  <2> HIDE DEF row
  <2> QED
    BY <1>4, <2>5, <2>7
<1>6. ShapedBy(U)'
  <2>1. loan' \in [Loans -> Applications]
    BY <1>1, <1>2 DEF ShapedBy
  <2> HIDE DEF U
  <2> QED
    BY <1>1, <1>3, <1>5, <2>1 DEF ShapedBy, requestVars
<1>7. loan'[l] = application /\ \A m \in Loans \ {l} : loan'[m] = loan[m]
  BY <1>1, <1>2 DEF ShapedBy
<1>8. \A w \in Workers : pc[w] = "commit" => on[w] \in Loans \ {l}
  BY <1>1 DEF OriginationInv, RequestInv, RequestOf
<1>9. \A w \in Workers : RequestOf(w)'
  BY <1>1, <1>5, <1>7, <1>8
  DEF OriginationInv, RequestInv, RequestOf, Accepts, Cancels, requestVars
<1>10. \A m \in Loans : OfferOf(m)'
  BY <1>1, <1>5, <1>7 DEF OriginationInv, RequestInv, OfferOf
<1>11. FreshInv'
  BY <1>1, <1>5, <1>7, <1>8 DEF OriginationInv, FreshInv, requestVars
<1> QED
  BY <1>6, <1>9, <1>10, <1>11 DEF OriginationInv, RequestInv, Shaped

-----------------------------------------------------------------------------
(* accept_offer() and cancel_loan() up to the commit                       *)

\* What a request that passed its check means to write.
Means(l, application, terms) ==
    /\ application \in Applications
    /\ loan[l].state \notin {"ABSENT", "CANCELLED"}
    /\ application.state # loan[l].state
    /\ \/ application.state = "CANCELLED" /\ terms = offer[l]
       \/ /\ application.state = "OFFER_ACCEPTED"
          /\ ~offer[l].accepted /\ terms.accepted
          /\ terms.expires = offer[l].expires
          /\ terms.terms = offer[l].terms
          /\ terms.at <= offer[l].expires

LEMMA RequestShape ==
    ASSUME OriginationInv, NEW T, ShapedBy(T), NEW w \in Workers, NEW l \in Loans,
           Cancel(w, l) \/ \E method \in Methods : Accept(w, l, method)
    PROVE  \E application : \E terms \in OffersOf(T) :
               Means(l, application, terms) /\ Open(w, l, application, terms)
<1>1. /\ loan[l] \in Applications /\ offer[l] \in OffersOf(T) /\ now \in Nat
      /\ OfferOf(l)
  BY DEF ShapedBy, OriginationInv, RequestInv
<1>2. CASE Cancel(w, l)
  <2> DEFINE application == [loan[l] EXCEPT !.state = "CANCELLED"]
  <2>1. application \in Applications /\ application.state = "CANCELLED"
    BY <1>1 DEF Applications, States
  <2>2. /\ loan[l].state \notin {"ABSENT", "CANCELLED"}
        /\ Open(w, l, application, offer[l])
    BY <1>2 DEF Cancel
  <2> HIDE DEF application
  <2> QED
    BY <1>1, <2>1, <2>2 DEF Means
<1>3. ASSUME NEW method \in Methods, Accept(w, l, method)
      PROVE  \E application : \E terms \in OffersOf(T) :
                 Means(l, application, terms) /\ Open(w, l, application, terms)
  <2> DEFINE application == [loan[l] EXCEPT !.state = "OFFER_ACCEPTED"]
             marked == [offer[l] EXCEPT !.accepted = TRUE]
             dated == [marked EXCEPT !.at = now]
             terms == [dated EXCEPT !.method = method]
  <2>1. application \in Applications /\ application.state = "OFFER_ACCEPTED"
    BY <1>1 DEF Applications, States
  <2>2. loan[l].state = "OFFER_SENT" /\ offer[l].expires >= now
    BY <1>3 DEF Accept
  <2>3. ~offer[l].accepted
    BY <1>1, <2>2 DEF OfferOf
  <2>4. [offer[l] EXCEPT !.accepted = TRUE, !.at = now, !.method = method] = terms
    BY <1>1 DEF OffersOf
  <2>5. Open(w, l, application, terms)
    <3> HIDE DEF application, terms
    <3> QED
      BY <1>3, <2>4 DEF Accept, application
  <2>6. /\ marked \in OffersOf(T) /\ marked.accepted
        /\ marked.expires = offer[l].expires /\ marked.terms = offer[l].terms
    BY <1>1 DEF OffersOf
  <2>7. /\ dated \in OffersOf(T) /\ dated.accepted /\ dated.at = now
        /\ dated.expires = offer[l].expires /\ dated.terms = offer[l].terms
    <3> HIDE DEF marked
    <3> QED
      BY <1>1, <2>6 DEF OffersOf
  <2>8. /\ terms \in OffersOf(T) /\ terms.accepted /\ terms.at = now
        /\ terms.expires = offer[l].expires /\ terms.terms = offer[l].terms
    <3> HIDE DEF dated
    <3> QED
      BY <2>7 DEF OffersOf
  <2> HIDE DEF application, terms
  <2>9. now <= offer[l].expires
    BY <1>1, <2>2 DEF OffersOf
  <2>10. Means(l, application, terms)
    BY <2>1, <2>2, <2>3, <2>8, <2>9 DEF Means
  <2> QED
    BY <2>5, <2>8, <2>10
<1> QED
  BY <1>2, <1>3

LEMMA OpenKeeps ==
    ASSUME OriginationInv, NEW T, ShapedBy(T), NEW w \in Workers, NEW l \in Loans,
           NEW application, NEW terms \in OffersOf(T),
           Means(l, application, terms), Open(w, l, application, terms)
    PROVE  OriginationInv'
<1>1. ShapedBy(T)'
  BY DEF ShapedBy, Open, Means, rowVars
<1>2. /\ pc[w] = "idle" /\ pc'[w] = "commit" /\ on'[w] = l
      /\ loadedLoan'[w] = loan[l] /\ newLoan'[w] = application
      /\ loadedOffer'[w] = offer[l] /\ newOffer'[w] = terms
      /\ loan' = loan /\ offer' = offer
  BY DEF Open, ShapedBy, rowVars
<1>3. \A v \in Workers \ {w} :
        /\ pc'[v] = pc[v] /\ on'[v] = on[v]
        /\ loadedLoan'[v] = loadedLoan[v] /\ newLoan'[v] = newLoan[v]
        /\ loadedOffer'[v] = loadedOffer[v] /\ newOffer'[v] = newOffer[v]
  BY DEF Open, ShapedBy
<1>4. RequestOf(w)'
  BY <1>2 DEF RequestOf, Means, Accepts, Cancels
<1>5. \A v \in Workers \ {w} : RequestOf(v)'
  BY <1>2, <1>3 DEF RequestOf, Accepts, Cancels, OriginationInv, RequestInv
<1>6. \A m \in Loans : OfferOf(m)'
  BY <1>2 DEF OfferOf, OriginationInv, RequestInv
<1>7. FreshInv'
  <2> SUFFICES ASSUME ~overlapped' PROVE FreshInv!2'
    BY DEF FreshInv
  <2>1. ~overlapped /\ \A v \in Workers : on[v] # l
    BY DEF Open
  <2>2. FreshInv!2
    BY <2>1 DEF OriginationInv, FreshInv
  <2> QED
    BY <1>2, <1>3, <2>1, <2>2
<1> QED
  BY <1>1, <1>4, <1>5, <1>6, <1>7 DEF OriginationInv, RequestInv, Shaped

-----------------------------------------------------------------------------
(* The end of a request                                                    *)

LEMMA CloseKeeps ==
    ASSUME OriginationInv, NEW T, ShapedBy(T), NEW w \in Workers, Close(w),
           NEW v \in Workers
    PROVE  /\ v = w => pc'[v] = "idle" /\ on'[v] = NoLoan
           /\ v # w => /\ pc'[v] = pc[v] /\ on'[v] = on[v]
                      /\ loadedLoan'[v] = loadedLoan[v] /\ newLoan'[v] = newLoan[v]
                      /\ loadedOffer'[v] = loadedOffer[v]
                      /\ newOffer'[v] = newOffer[v]
BY DEF Close, ShapedBy

LEMMA CloseShapes ==
    ASSUME NEW T, ShapedBy(T), NEW w \in Workers, Close(w),
           NoOffer \in OffersOf(T)
    PROVE  /\ pc' \in [Workers -> {"idle", "commit"}]
           /\ on' \in [Workers -> Loans \cup {NoLoan}]
           /\ loadedLoan' \in [Workers -> Applications]
           /\ newLoan' \in [Workers -> Applications]
           /\ loadedOffer' \in [Workers -> OffersOf(T)]
           /\ newOffer' \in [Workers -> OffersOf(T)]
<1>1. NoApplication \in Applications
  BY DEF NoApplication, Applications, States
<1> QED
  BY <1>1 DEF Close, ShapedBy

\* The empty offer may be among them.
LEMMA NoOfferShaped ==
    ASSUME OriginationInv
    PROVE  \E T : ShapedBy(T) /\ NoOffer \in OffersOf(T)
<1>1. PICK T : ShapedBy(T)
  BY DEF OriginationInv, RequestInv, Shaped
<1>2. ShapedBy(T \cup {NoTerms})
  BY <1>1, Wider
<1>3. NoOffer \in OffersOf(T \cup {NoTerms})
  BY MethodsAssumption DEF NoOffer, OffersOf, MethodsAssumption
<1> QED
  BY <1>2, <1>3

\* What a commit leaves in the two tables.
LEMMA CommitWrites ==
    ASSUME OriginationInv, NEW T, ShapedBy(T), NEW w \in Workers, Commit(w)
    PROVE  /\ on[w] \in Loans
           /\ loan' \in [Loans -> Applications] /\ offer' \in [Loans -> OffersOf(T)]
           /\ loan'[on[w]].state = newLoan[w].state
           /\ newLoan[w].state \in {"OFFER_ACCEPTED", "CANCELLED"}
           /\ offer'[on[w]].expires = offer[on[w]].expires
           /\ Cancels(w) => offer'[on[w]] = offer[on[w]]
           /\ Accepts(w) => /\ offer'[on[w]].accepted
                            /\ \/ offer'[on[w]].at = newOffer[w].at
                               \/ offer'[on[w]].at = offer[on[w]].at
           /\ \A m \in Loans \ {on[w]} : loan'[m] = loan[m] /\ offer'[m] = offer[m]
<1> DEFINE l == on[w]
           application == Merge(loan[l], loadedLoan[w], newLoan[w])
           terms == Merge(offer[l], loadedOffer[w], newOffer[w])
<1>1. RequestOf(w) /\ pc[w] = "commit" /\ l \in Loans
  BY DEF OriginationInv, RequestInv, RequestOf, Commit
<1>2. /\ loan' = [loan EXCEPT ![l] = application]
      /\ offer' = [offer EXCEPT ![l] = terms]
  BY DEF Commit
<1>3. application \in Applications /\ application.state = newLoan[w].state
  BY <1>1, MergeApplication DEF ShapedBy, RequestOf
<1>4. /\ offer[l] \in OffersOf(T) /\ loadedOffer[w] \in OffersOf(T)
      /\ newOffer[w] \in OffersOf(T)
  BY <1>1 DEF ShapedBy
<1>5. /\ terms \in OffersOf(T)
      /\ newOffer[w] = loadedOffer[w] => terms = offer[l]
      /\ terms.accepted = IF newOffer[w].accepted = loadedOffer[w].accepted
                            THEN offer[l].accepted ELSE newOffer[w].accepted
      /\ terms.expires = IF newOffer[w].expires = loadedOffer[w].expires
                           THEN offer[l].expires ELSE newOffer[w].expires
      /\ terms.at = IF newOffer[w].at = loadedOffer[w].at
                      THEN offer[l].at ELSE newOffer[w].at
  BY <1>4, MergeOffer
<1> HIDE DEF application, terms
<1>6. /\ loan'[l] = application /\ offer'[l] = terms
      /\ loan' \in [Loans -> Applications] /\ offer' \in [Loans -> OffersOf(T)]
      /\ \A m \in Loans \ {l} : loan'[m] = loan[m] /\ offer'[m] = offer[m]
  BY <1>1, <1>2, <1>3, <1>5 DEF ShapedBy
<1>7. Accepts(w) \/ Cancels(w)
  BY <1>1 DEF RequestOf
<1>8. /\ Cancels(w) => terms = offer[l]
      /\ Accepts(w) => terms.accepted /\ terms.expires = offer[l].expires
  BY <1>5 DEF Accepts, Cancels
<1>9. newLoan[w].state \in {"OFFER_ACCEPTED", "CANCELLED"}
  BY <1>7 DEF Accepts, Cancels
<1> QED
  BY <1>1, <1>3, <1>5, <1>6, <1>7, <1>8, <1>9

LEMMA CommitKeeps ==
    ASSUME OriginationInv, NEW w \in Workers, Commit(w)
    PROVE  OriginationInv'
<1>1. PICK T : ShapedBy(T) /\ NoOffer \in OffersOf(T)
  BY NoOfferShaped
<1>0. PICK l \in Loans : l = on[w]
  BY <1>1, CommitWrites
<1>2. Close(w) /\ now' = now /\ overlapped' = overlapped
  BY DEF Commit
<1>3. /\ loan' \in [Loans -> Applications] /\ offer' \in [Loans -> OffersOf(T)]
      /\ loan'[l].state = newLoan[w].state
      /\ newLoan[w].state \in {"OFFER_ACCEPTED", "CANCELLED"}
      /\ offer'[l].expires = offer[l].expires
      /\ Cancels(w) => offer'[l] = offer[l]
      /\ Accepts(w) => /\ offer'[l].accepted
                       /\ \/ offer'[l].at = newOffer[w].at
                          \/ offer'[l].at = offer[l].at
      /\ \A m \in Loans \ {l} : loan'[m] = loan[m] /\ offer'[m] = offer[m]
  BY <1>0, <1>1, CommitWrites
<1>4. ShapedBy(T)'
  BY <1>1, <1>2, <1>3, CloseShapes DEF ShapedBy
<1>5. /\ RequestOf(w) /\ pc[w] = "commit" /\ OfferOf(l)
      /\ Accepts(w) \/ Cancels(w)
  BY <1>0 DEF OriginationInv, RequestInv, RequestOf, Commit
<1>6. OfferOf(l)'
  <2>0. /\ offer[l] \in OffersOf(T) /\ offer'[l] \in OffersOf(T)
        /\ offer[l].accepted \in BOOLEAN /\ offer'[l].accepted \in BOOLEAN
    BY <1>1, <1>3 DEF ShapedBy, OffersOf
  <2>1. CASE Cancels(w)
    <3>1. loan'[l].state = "CANCELLED" /\ offer'[l] = offer[l]
      BY <1>3, <2>1 DEF Cancels
    <3> QED
      BY <1>5, <3>1 DEF OfferOf
  <2>2. CASE Accepts(w)
    <3>1. newLoan[w].state = "OFFER_ACCEPTED"
      BY <2>2 DEF Accepts
    <3>2. offer[l].at <= offer[l].expires
      <4>1. offer[l].at \in Nat /\ offer[l].expires \in Nat
        BY <2>0 DEF OffersOf
      <4>2. offer[l].at <= offer[l].expires \/ offer[l].at = 0
        BY <1>5 DEF OfferOf
      <4> QED
        BY <4>1, <4>2
    <3>3. newOffer[w].at <= offer[l].expires
      BY <1>0, <2>2 DEF Accepts
    <3>4. offer'[l].accepted /\ offer'[l].at <= offer'[l].expires
      BY <1>3, <2>2, <3>2, <3>3
    <3>5. loan'[l].state = "OFFER_ACCEPTED"
      BY <1>3, <3>1
    <3> QED
      BY <3>4, <3>5 DEF OfferOf
  <2> QED
    BY <1>5, <2>1, <2>2
<1>7. \A m \in Loans \ {l} : OfferOf(m)'
  BY <1>3 DEF OfferOf, OriginationInv, RequestInv
<1>8. ASSUME NEW v \in Workers PROVE RequestOf(v)'
  <2>1. CASE v = w
    BY <1>1, <1>2, <2>1, CloseKeeps DEF RequestOf
  <2>2. CASE v # w
    <3>1. /\ pc'[v] = pc[v] /\ on'[v] = on[v]
          /\ loadedLoan'[v] = loadedLoan[v] /\ newLoan'[v] = newLoan[v]
          /\ loadedOffer'[v] = loadedOffer[v] /\ newOffer'[v] = newOffer[v]
      BY <1>1, <1>2, <2>2, CloseKeeps
    <3>2. RequestOf(v)
      BY DEF OriginationInv, RequestInv
    <3>3. CASE pc[v] = "idle"
      BY <3>1, <3>2, <3>3 DEF RequestOf
    <3>4. CASE pc[v] = "commit"
      <4>1. on[v] \in Loans /\ loan[on[v]].state # "ABSENT"
        BY <3>2, <3>4 DEF RequestOf
      <4>2. /\ loan'[on[v]].state # "ABSENT"
            /\ offer'[on[v]].expires = offer[on[v]].expires
        BY <1>3, <4>1
      <4>3. Accepts(v) => Accepts(v)'
        BY <3>1, <4>2 DEF Accepts
      <4>4. Cancels(v) => Cancels(v)'
        BY <3>1 DEF Cancels
      <4> QED
        BY <3>1, <3>2, <3>4, <4>1, <4>2, <4>3, <4>4 DEF RequestOf
    <3> QED
      BY <1>1, <3>3, <3>4 DEF ShapedBy
  <2> QED
    BY <2>1, <2>2
<1>9. FreshInv'
  <2> SUFFICES ASSUME ~overlapped' PROVE FreshInv!2'
    BY DEF FreshInv
  <2>1. FreshInv!2
    BY <1>2 DEF OriginationInv, FreshInv
  <2>2. \A v \in Workers \ {w} : on[v] # l
    BY <1>0, <2>1, LoansAssumption DEF LoansAssumption
  <2>3. \A v \in Workers :
          /\ v = w => pc'[v] = "idle" /\ on'[v] = NoLoan
          /\ v # w => /\ pc'[v] = pc[v] /\ on'[v] = on[v]
                     /\ loadedLoan'[v] = loadedLoan[v]
                     /\ loadedOffer'[v] = loadedOffer[v]
    BY <1>1, <1>2, CloseKeeps
  <2>4. \A v \in Workers : pc[v] = "commit" => on[v] \in Loans
    BY DEF OriginationInv, RequestInv, RequestOf
  <2> QED
    BY <1>3, <2>1, <2>2, <2>3, <2>4
<1>10. \A m \in Loans : OfferOf(m)'
  BY <1>6, <1>7
<1> QED
  BY <1>4, <1>8, <1>9, <1>10 DEF OriginationInv, RequestInv, Shaped

LEMMA AbandonKeeps ==
    ASSUME OriginationInv, NEW w \in Workers, Abandon(w)
    PROVE  OriginationInv'
<1>1. PICK T : ShapedBy(T) /\ NoOffer \in OffersOf(T)
  BY NoOfferShaped
<1>2. Close(w) /\ UNCHANGED <<rowVars, now, overlapped>>
  BY DEF Abandon
<1>3. ShapedBy(T)'
  BY <1>1, <1>2, CloseShapes DEF ShapedBy, rowVars
<1>4. ASSUME NEW v \in Workers PROVE RequestOf(v)'
  <2>1. RequestOf(v)
    BY DEF OriginationInv, RequestInv
  <2>2. CASE v = w
    BY <1>1, <1>2, <2>2, CloseKeeps DEF RequestOf
  <2>3. CASE v # w
    <3>1. /\ pc'[v] = pc[v] /\ on'[v] = on[v]
          /\ loadedLoan'[v] = loadedLoan[v] /\ newLoan'[v] = newLoan[v]
          /\ loadedOffer'[v] = loadedOffer[v] /\ newOffer'[v] = newOffer[v]
          /\ loan' = loan /\ offer' = offer
      BY <1>1, <1>2, <2>3, CloseKeeps DEF rowVars
    <3> QED
      BY <2>1, <3>1 DEF RequestOf, Accepts, Cancels
  <2> QED
    BY <2>2, <2>3
<1>5. \A l \in Loans : OfferOf(l)'
  BY <1>2 DEF OfferOf, rowVars, OriginationInv, RequestInv
<1>6. FreshInv'
  <2> SUFFICES ASSUME ~overlapped' PROVE FreshInv!2'
    BY DEF FreshInv
  <2>1. FreshInv!2 /\ loan' = loan /\ offer' = offer
    BY <1>2 DEF OriginationInv, FreshInv, rowVars
  <2>2. \A v \in Workers :
          /\ v = w => pc'[v] = "idle" /\ on'[v] = NoLoan
          /\ v # w => /\ pc'[v] = pc[v] /\ on'[v] = on[v]
                     /\ loadedLoan'[v] = loadedLoan[v]
                     /\ loadedOffer'[v] = loadedOffer[v]
    BY <1>1, <1>2, CloseKeeps
  <2> QED
    BY <2>1, <2>2
<1> QED
  BY <1>3, <1>4, <1>5, <1>6 DEF OriginationInv, RequestInv, Shaped

LEMMA TickKeeps ==
    ASSUME OriginationInv, UNCHANGED <<rowVars, requestVars, overlapped>>, now' \in Nat
    PROVE  OriginationInv'
<1>1. PICK T : ShapedBy(T)
  BY DEF OriginationInv, RequestInv, Shaped
<1>2. ShapedBy(T)'
  BY <1>1 DEF ShapedBy, rowVars, requestVars
<1>3. \A w \in Workers : RequestOf(w)' = RequestOf(w)
  BY DEF RequestOf, Accepts, Cancels, rowVars, requestVars
<1>4. \A l \in Loans : OfferOf(l)' = OfferOf(l)
  BY DEF OfferOf, rowVars
<1>5. FreshInv' = FreshInv
  BY DEF FreshInv, rowVars, requestVars
<1> QED
  BY <1>2, <1>3, <1>4, <1>5 DEF OriginationInv, RequestInv, Shaped

\* The steps of Next, as these proofs look at them.
Quiet == UNCHANGED <<rowVars, requestVars, overlapped>> /\ now' \in Nat
Requested(w, l) == Cancel(w, l) \/ \E method \in Methods : Accept(w, l, method)

LEMMA NextShape ==
    ASSUME OriginationInv, [Next]_vars
    PROVE  \/ \E l \in Loans : Submitted(l)
           \/ \E w \in Workers, l \in Loans : Requested(w, l)
           \/ \E w \in Workers : Commit(w) \/ Abandon(w)
           \/ Quiet
<1>0. now \in Nat
  BY DEF OriginationInv, RequestInv, Shaped, ShapedBy
<1>1. CASE Tick
  BY <1>0, <1>1 DEF Tick, Quiet
<1>2. CASE UNCHANGED vars
  BY <1>0, <1>2 DEF vars, rowVars, requestVars, Quiet
<1> QED
  BY <1>1, <1>2, SubmitShape DEF Next, Requested

LEMMA NextKeeps ==
    ASSUME OriginationInv, [Next]_vars
    PROVE  OriginationInv'
<1>1. CASE \E l \in Loans : Submitted(l)
  BY <1>1, SubmitKeeps
<1>2. ASSUME NEW w \in Workers, NEW l \in Loans, Requested(w, l)
      PROVE  OriginationInv'
  <2>1. PICK T : ShapedBy(T)
    BY DEF OriginationInv, RequestInv, Shaped
  <2>2. PICK application : \E terms \in OffersOf(T) :
            Means(l, application, terms) /\ Open(w, l, application, terms)
    BY <1>2, <2>1, RequestShape DEF Requested
  <2> QED
    BY <2>1, <2>2, OpenKeeps
<1>3. CASE \E w \in Workers : Commit(w) \/ Abandon(w)
  BY <1>3, CommitKeeps, AbandonKeeps
<1>4. CASE Quiet
  BY <1>4, TickKeeps DEF Quiet
<1> QED
  BY <1>1, <1>2, <1>3, <1>4, NextShape

-----------------------------------------------------------------------------
\* A loan is OFFER_ACCEPTED only with an offer accepted before it expired, for
\* any number of acceptances and cancellations that overlap.
THEOREM AcceptanceIsBacked == Spec => []AcceptedIsBacked
<1>1. OriginationInv => AcceptedIsBacked
  BY DEF OriginationInv, RequestInv, OfferOf, AcceptedIsBacked
<1> QED
  BY <1>1, InitHolds, NextKeeps, PTL DEF Spec

Final(l) == CancelledIsFinal(l) /\ AcceptedOnce(l)

\* Final, unfolded.
Stands(l) ==
    /\ loan[l].state = "CANCELLED" /\ ~overlapped => loan'[l] = loan[l]
    /\ offer[l].accepted /\ ~overlapped => offer'[l] = offer[l]

\* A decision that stood before the step stands after it.
LEMMA DecisionStands ==
    ASSUME OriginationInv, [Next]_vars, NEW l \in Loans
    PROVE  Final(l)
<1>0. OfferOf(l)
  BY DEF OriginationInv, RequestInv
<1>1. SUFFICES Stands(l)
  BY DEF Stands, Final, CancelledIsFinal, AcceptedOnce
<1>2. ASSUME NEW m \in Loans, Submitted(m)
      PROVE  Stands(l)
  <2>1. PICK T : ShapedBy(T)
    BY DEF OriginationInv, RequestInv, Shaped
  <2>2. loan[m].state = "ABSENT" /\ (m # l => loan'[l] = loan[l] /\ offer'[l] = offer[l])
    BY <1>2, <2>1 DEF Submitted, ShapedBy
  <2>3. m = l => ~offer[l].accepted
    BY <1>0, <2>2 DEF OfferOf
  <2> QED
    BY <2>2, <2>3 DEF Stands
<1>3. ASSUME UNCHANGED rowVars
      PROVE  Stands(l)
  BY <1>3 DEF Stands, rowVars
<1>4. ASSUME NEW w \in Workers, Commit(w)
      PROVE  Stands(l)
  <2>1. PICK T : ShapedBy(T)
    BY DEF OriginationInv, RequestInv, Shaped
  <2>2. RequestOf(w) /\ pc[w] = "commit"
    BY <1>4 DEF OriginationInv, RequestInv, Commit
  <2>3. on[w] # l => loan'[l] = loan[l] /\ offer'[l] = offer[l]
    BY <1>4, <2>1, CommitWrites
  <2>4. on[w] = l /\ ~overlapped => loan[l].state # "CANCELLED"
    BY <2>2 DEF RequestOf, OriginationInv, FreshInv
  <2>5. on[w] = l /\ ~overlapped /\ offer[l].accepted => offer'[l] = offer[l]
    <3>1. on[w] = l /\ Cancels(w) => offer'[l] = offer[l]
      BY <1>4, <2>1, CommitWrites
    <3>2. on[w] = l /\ ~overlapped /\ Accepts(w) => ~offer[l].accepted
      BY <2>2 DEF Accepts, OriginationInv, FreshInv
    <3> QED
      BY <2>2, <3>1, <3>2 DEF RequestOf
  <2> QED
    BY <2>3, <2>4, <2>5 DEF Stands
<1>5. ASSUME NEW w \in Workers, NEW m \in Loans, Requested(w, m)
      PROVE  UNCHANGED rowVars
  BY <1>5 DEF Requested, Cancel, Accept, Open
<1>6. ASSUME NEW w \in Workers, Abandon(w)
      PROVE  UNCHANGED rowVars
  BY <1>6 DEF Abandon
<1> QED
  BY <1>2, <1>3, <1>4, <1>5, <1>6, NextShape DEF Quiet

\* A cancellation and an acceptance stand as long as the requests on a loan do
\* not overlap, for any number of loans.
THEOREM DecisionsStand == Spec => DecisionsAreFinal
<1>1. OriginationInv /\ [Next]_vars => [\A l \in Loans : Final(l)]_vars
  BY DecisionStands
<1>2. (\A l \in Loans : Final(l)) =>
        \A l \in Loans : CancelledIsFinal(l) /\ AcceptedOnce(l)
  BY DEF Final
<1> QED
  BY <1>1, <1>2, InitHolds, NextKeeps, PTL DEF Spec, DecisionsAreFinal

-----------------------------------------------------------------------------
(* The arithmetic of the underwriting engine.                              *)

LEMMA DivBounds ==
    ASSUME NEW a \in Nat, NEW b \in Nat \ {0}
    PROVE  /\ a \div b \in Nat
           /\ (a \div b) * b <= a
           /\ a < (a \div b) * b + b
  OBVIOUS

LEMMA CancelFactor ==
    ASSUME NEW x \in Nat, NEW y \in Nat, NEW b \in Nat \ {0}, x * b < (y + 1) * b
    PROVE  x <= y
<1>1. CASE x >= y + 1
  <2>1. PICK d \in Nat : x = y + 1 + d
    <3>1. x - (y + 1) \in Nat /\ x = y + 1 + (x - (y + 1))
      BY <1>1
    <3> QED
      BY <3>1
  <2>2. x * b = (y + 1) * b + d * b
    BY <2>1
  <2>3. d * b >= 0
    OBVIOUS
  <2> QED
    BY <2>2, <2>3
<1> QED
  BY <1>1

-----------------------------------------------------------------------------
(* Powers. Power is a recursive function: that it is defined, and what it  *)
(* computes, is proved by looking at a least exponent for which it would   *)
(* not be so.                                                              *)

\* A set of naturals has a least member.
LEMMA SmallestNat ==
    ASSUME NEW T, T \subseteq Nat, T # {}
    PROVE  \E n \in T : \A m \in T : n <= m
<1>. DEFINE R == {ss \in Nat \X Nat : ss[1] < ss[2]}
<1>1. IsWellFoundedOn(R, Nat)
  BY NatLessThanWellFounded DEF OpToRel
<1>2. \E n \in T : \A m \in T : ~(<<m, n>> \in R)
  <2>. HIDE DEF R
  <2>. QED
    BY <1>1, WFMin
<1>3. PICK n \in T : \A m \in T : ~(<<m, n>> \in R)
  BY <1>2
<1>4. ASSUME NEW m \in T
      PROVE  n <= m
  <2>1. ~(<<m, n>> \in R) /\ m \in Nat /\ n \in Nat
    BY <1>3
  <2>. QED
    BY <2>1
<1>. QED
  BY <1>4

\* The recursion behind a power, up to an exponent.
Powers(g, base, n) ==
    g = [k \in 0 .. n |-> IF k = 0 THEN 1 ELSE base * g[k - 1]]

LEMMA PowersExist ==
    ASSUME NEW base, NEW n \in Nat
    PROVE  \E g : Powers(g, base, n)
<1>. DEFINE B == {k \in Nat : ~\E g : Powers(g, base, k)}
<1>. SUFFICES ASSUME B # {} PROVE FALSE
  OBVIOUS
<1>1. PICK k \in B : \A j \in B : k <= j
  <2>. HIDE DEF B
  <2>1. B \subseteq Nat
    BY DEF B
  <2>. QED
    BY <2>1, SmallestNat
<1>2. k # 0
  <2>. DEFINE h == [i \in 0 .. 0 |-> 1]
  <2>1. h = [i \in 0 .. 0 |-> IF i = 0 THEN 1 ELSE base * h[i - 1]]
    OBVIOUS
  <2>2. Powers(h, base, 0)
    BY <2>1 DEF Powers
  <2>. QED
    BY <1>1, <2>2
<1>3. PICK g : Powers(g, base, k - 1)
  BY <1>1, <1>2
<1>. DEFINE h == [i \in 0 .. k |-> IF i = 0 THEN 1 ELSE base * g[i - 1]]
<1>4. ASSUME NEW i \in 0 .. k - 1
      PROVE  h[i] = g[i]
  BY <1>3 DEF Powers
<1>5. h = [i \in 0 .. k |-> IF i = 0 THEN 1 ELSE base * h[i - 1]]
  <2>. DEFINE f == [i \in 0 .. k |-> IF i = 0 THEN 1 ELSE base * h[i - 1]]
  <2>1. ASSUME NEW i \in 0 .. k
        PROVE  h[i] = f[i]
    <3>1. CASE i = 0
      BY <3>1
    <3>2. CASE i # 0
      <4>1. i - 1 \in 0 .. k - 1
        BY <3>2
      <4>2. h[i - 1] = g[i - 1]
        BY <1>4, <4>1
      <4>. QED
        BY <3>2, <4>2
    <3>. QED
      BY <3>1, <3>2
  <2>. QED
    BY <2>1
<1>6. Powers(h, base, k)
  BY <1>5 DEF Powers
<1>. QED
  BY <1>1, <1>6

LEMMA PowersUnique ==
    ASSUME NEW base, NEW m \in Nat, NEW n \in Nat, NEW g, NEW h,
           Powers(g, base, m), Powers(h, base, n), NEW k \in Nat, k <= m, k <= n
    PROVE  g[k] = h[k]
<1>. DEFINE B == {j \in Nat : j <= m /\ j <= n /\ g[j] # h[j]}
<1>. SUFFICES ASSUME B # {} PROVE FALSE
  OBVIOUS
<1>1. PICK j \in B : \A i \in B : j <= i
  <2>. HIDE DEF B
  <2>1. B \subseteq Nat
    BY DEF B
  <2>. QED
    BY <2>1, SmallestNat
<1>2. /\ g[j] = IF j = 0 THEN 1 ELSE base * g[j - 1]
      /\ h[j] = IF j = 0 THEN 1 ELSE base * h[j - 1]
  BY DEF Powers
<1>3. j # 0 => g[j - 1] = h[j - 1]
  BY <1>1
<1>. QED
  BY <1>2, <1>3

\* The recursive function of Power is defined.
LEMMA PowerIsDefined ==
    ASSUME NEW base
    PROVE  \E g : g = [k \in Nat |-> IF k = 0 THEN 1 ELSE base * g[k - 1]]
<1>. DEFINE G(n) == CHOOSE g : Powers(g, base, n)
            h == [n \in Nat |-> G(n)[n]]
<1>1. ASSUME NEW n \in Nat
      PROVE  Powers(G(n), base, n)
  BY PowersExist
<1>. HIDE DEF G
<1>2. ASSUME NEW n \in Nat
      PROVE  h[n] = IF n = 0 THEN 1 ELSE base * h[n - 1]
  <2>1. h[n] = IF n = 0 THEN 1 ELSE base * G(n)[n - 1]
    BY <1>1 DEF Powers
  <2>2. CASE n # 0
    <3>1. n - 1 \in Nat
      BY <2>2
    <3>2. G(n)[n - 1] = G(n - 1)[n - 1]
      BY <1>1, <3>1, PowersUnique
    <3>. QED
      BY <2>1, <2>2, <3>1, <3>2
  <2>. QED
    BY <2>1, <2>2
<1>3. h = [k \in Nat |-> IF k = 0 THEN 1 ELSE base * h[k - 1]]
  <2>. DEFINE f == [k \in Nat |-> IF k = 0 THEN 1 ELSE base * h[k - 1]]
  <2>1. \A n \in Nat : h[n] = f[n]
    BY <1>2
  <2>. QED
    BY <2>1
<1>. QED
  BY <1>3

LEMMA PowerSteps ==
    ASSUME NEW base, NEW n \in Nat
    PROVE  /\ Power(base, 0) = 1
           /\ Power(base, n + 1) = base * Power(base, n)
<1>. DEFINE p == CHOOSE g : g = [k \in Nat |-> IF k = 0 THEN 1 ELSE base * g[k - 1]]
<1>1. \A k : Power(base, k) = p[k]
  BY DEF Power
<1>2. p = [k \in Nat |-> IF k = 0 THEN 1 ELSE base * p[k - 1]]
  BY PowerIsDefined
<1>. HIDE DEF p
<1>3. p[0] = 1 /\ p[n + 1] = base * p[n]
  <2>1. n + 1 \in Nat /\ n + 1 # 0 /\ (n + 1) - 1 = n
    OBVIOUS
  <2>2. \A k \in Nat : p[k] = IF k = 0 THEN 1 ELSE base * p[k - 1]
    BY <1>2
  <2>. QED
    BY <2>1, <2>2
<1>. QED
  BY <1>1, <1>3

LEMMA PowerType ==
    ASSUME NEW base \in Nat \ {0}, NEW n \in Nat
    PROVE  Power(base, n) \in Nat \ {0}
<1>. DEFINE B == {k \in Nat : Power(base, k) \notin Nat \ {0}}
<1>. SUFFICES ASSUME B # {} PROVE FALSE
  OBVIOUS
<1>1. PICK k \in B : \A j \in B : k <= j
  <2>. HIDE DEF B
  <2>1. B \subseteq Nat
    BY DEF B
  <2>. QED
    BY <2>1, SmallestNat
<1>2. k # 0
  BY PowerSteps
<1>3. k - 1 \in Nat /\ Power(base, k - 1) \in Nat \ {0}
  BY <1>1, <1>2
<1>4. Power(base, k) = base * Power(base, k - 1)
  <2>1. Power(base, (k - 1) + 1) = base * Power(base, k - 1)
    BY <1>3, PowerSteps
  <2>2. (k - 1) + 1 = k
    OBVIOUS
  <2>. QED
    BY <2>1, <2>2
<1>5. base * Power(base, k - 1) \in Nat \ {0}
  <2>1. \A x, y \in Nat \ {0} : x * y \in Nat \ {0}
    OBVIOUS
  <2>. QED
    BY <1>3, <2>1
<1>. QED
  BY <1>4, <1>5

\* One step of the growth of a sum and its difference to the base: from
\* v < u (or v <= u) and b (u - v) <= k m u to the next exponent.
LEMMA GrowthStep ==
    ASSUME NEW b \in Nat \ {0}, NEW m \in Nat \ {0}, NEW k \in Nat,
           NEW u \in Nat \ {0}, NEW v \in Nat \ {0}, v <= u,
           b * (u - v) <= (k * m) * u
    PROVE  /\ b * v < (b + m) * u
           /\ b * ((b + m) * u - b * v) <= ((k + 1) * m) * ((b + m) * u)
<1>. DEFINE d == u - v
<1>1. d \in Nat /\ v = u - d
  OBVIOUS
<1>2. (b + m) * u - b * v = b * d + m * u
  BY <1>1
<1>3. b * d \in Nat /\ m * u \in Nat \ {0}
  BY <1>1
<1>4. b * (b * d) <= b * ((k * m) * u)
  <2>. DEFINE x == b * d  y == (k * m) * u
  <2>1. x \in Nat /\ y \in Nat /\ x <= y
    BY <1>3
  <2>. HIDE DEF x, y
  <2>2. b * x <= b * y
    BY <2>1
  <2>. QED
    BY <2>2 DEF x, y
<1>5. ((k + 1) * m) * ((b + m) * u) =
        b * ((k * m) * u) + b * (m * u) + m * (((k + 1) * m) * u)
  OBVIOUS
<1>6. m * (((k + 1) * m) * u) \in Nat
  OBVIOUS
<1>7. b * (b * d + m * u) = b * (b * d) + b * (m * u)
  BY <1>3
<1>8. b * v < (b + m) * u
  BY <1>2, <1>3
<1>9. b * ((b + m) * u - b * v) <= ((k + 1) * m) * ((b + m) * u)
  <2>. DEFINE p == b * (b * d)  q == b * (m * u)  r == b * ((k * m) * u)
              s == m * (((k + 1) * m) * u)
  <2>1. p \in Nat /\ q \in Nat /\ r \in Nat /\ s \in Nat /\ p <= r
    BY <1>3, <1>4, <1>6
  <2>. HIDE DEF p, q, r, s
  <2>2. p + q <= r + q + s
    BY <2>1
  <2>. QED
    BY <1>2, <1>5, <1>7, <2>2 DEF p, q, r, s
<1>. QED
  BY <1>8, <1>9

\* A rate m / b over k months: growth is strict from the first, and is at most
\* the simple interest of k months on what has grown.
LEMMA PowerGrowth ==
    ASSUME NEW b \in Nat \ {0}, NEW m \in Nat \ {0}, NEW n \in Nat
    PROVE  /\ Power(b, n) <= Power(b + m, n)
           /\ n # 0 => Power(b, n) < Power(b + m, n)
           /\ b * (Power(b + m, n) - Power(b, n)) <= (n * m) * Power(b + m, n)
<1>. DEFINE Grows(k) ==
              /\ Power(b, k) <= Power(b + m, k)
              /\ k # 0 => Power(b, k) < Power(b + m, k)
              /\ b * (Power(b + m, k) - Power(b, k)) <= (k * m) * Power(b + m, k)
            B == {k \in Nat : ~Grows(k)}
<1>. SUFFICES ASSUME B # {} PROVE FALSE
  OBVIOUS
<1>1. PICK k \in B : \A j \in B : k <= j
  <2>. HIDE DEF B
  <2>1. B \subseteq Nat
    BY DEF B
  <2>. QED
    BY <2>1, SmallestNat
<1>2. k # 0
  <2>1. Power(b, 0) = 1 /\ Power(b + m, 0) = 1
    BY PowerSteps
  <2>2. Grows(0)
    BY <2>1
  <2>. QED
    BY <2>2
<1>. DEFINE j == k - 1  u == Power(b + m, j)  v == Power(b, j)
<1>3. j \in Nat /\ k = j + 1 /\ Grows(j)
  <2>1. j \in Nat /\ ~(k <= j)
    BY <1>2
  <2>. HIDE DEF Grows, j
  <2>2. Grows(j)
    BY <1>1, <2>1
  <2>. QED
    BY <2>1, <2>2 DEF j
<1>4. u \in Nat \ {0} /\ v \in Nat \ {0}
  BY <1>3, PowerType
<1>5. Power(b + m, k) = (b + m) * u /\ Power(b, k) = b * v
  <2>. HIDE DEF j
  <2>. QED
    BY <1>3, PowerSteps
<1>6. v <= u /\ b * (u - v) <= (j * m) * u
  BY <1>3
<1>7. /\ b * v < (b + m) * u
      /\ b * ((b + m) * u - b * v) <= (k * m) * ((b + m) * u)
  <2>. HIDE DEF j, u, v
  <2>1. /\ b * v < (b + m) * u
        /\ b * ((b + m) * u - b * v) <= ((j + 1) * m) * ((b + m) * u)
    BY <1>3, <1>4, <1>6, GrowthStep
  <2>. QED
    BY <1>3, <2>1
<1>8. Grows(k)
  <2>. DEFINE x == Power(b + m, k)  y == Power(b, k)
  <2>1. y < x /\ b * (x - y) <= (k * m) * x
    BY <1>5, <1>7
  <2>2. x \in Nat /\ y \in Nat
    <3>1. b + m \in Nat \ {0}
      OBVIOUS
    <3>. QED
      BY <3>1, PowerType
  <2>. HIDE DEF x, y, B
  <2>3. y <= x
    BY <2>1, <2>2
  <2>. QED
    BY <2>1, <2>3 DEF x, y
<1>. QED
  BY <1>8

HasRate(t, n) == Cost(t, n) \in Nat \ {0} /\ Gain(t, n) \in Nat \ {0}

\* What the installments cost over n months is at least what they gain.
LEMMA RateHolds ==
    ASSUME NEW t \in DOMAIN TierParams, NEW n \in Nat \ {0}
    PROVE  HasRate(t, n) /\ Gain(t, n) <= n * Cost(t, n)
<1> DEFINE b == TierParams[t].den  m == TierParams[t].num
           u == Power(b + m, n)  v == Power(b, n)
<1>1. b \in Nat \ {0} /\ m \in Nat \ {0}
  BY TierAssumption DEF TierAssumption
<1>2. Cost(t, n) = m * u /\ Gain(t, n) = b * (u - v)
  BY DEF Cost, Gain
<1> HIDE DEF b, m
<1>3. u \in Nat \ {0} /\ v \in Nat \ {0}
  <2>1. b + m \in Nat \ {0}
    BY <1>1
  <2> QED
    BY <1>1, <2>1, PowerType
<1>4. v < u /\ b * (u - v) <= (n * m) * u
  BY <1>1, PowerGrowth
<1> HIDE DEF u, v
<1>5. \A x, y \in Nat \ {0} : x * y \in Nat \ {0}
  OBVIOUS
<1>6. u - v \in Nat \ {0}
  BY <1>3, <1>4
<1>7. m * u \in Nat \ {0} /\ b * (u - v) \in Nat \ {0}
  BY <1>1, <1>3, <1>5, <1>6
<1>8. (n * m) * u = n * (m * u)
  BY <1>1, <1>3
<1> QED
  BY <1>2, <1>4, <1>7, <1>8 DEF HasRate

\* The installments together cover the principal.
LEMMA PaymentCovers ==
    ASSUME NEW t \in DOMAIN TierParams, NEW n \in Nat \ {0}, NEW p \in Nat
    PROVE  /\ MonthlyRepayment(p, t, n) \in Nat
           /\ p <= MonthlyRepayment(p, t, n) * n
<1> DEFINE C == Cost(t, n)  G == Gain(t, n)
           r == (p * C + G - 1) \div G
<1>1. C \in Nat \ {0} /\ G \in Nat \ {0} /\ G <= n * C
  BY RateHolds DEF HasRate
<1>2. MonthlyRepayment(p, t, n) = r
  BY DEF MonthlyRepayment, CeilDiv
<1> HIDE DEF C, G
<1>3. p * C \in Nat /\ p * C + G - 1 \in Nat
  <2>1. p * C \in Nat
    BY <1>1
  <2> DEFINE pc1 == p * C
  <2> HIDE DEF pc1
  <2> QED
    BY <1>1, <2>1
<1>4. r \in Nat /\ p * C + G - 1 < r * G + G
  BY <1>1, <1>3, DivBounds
<1> HIDE DEF r
<1>5. p * C <= r * G
  <2> DEFINE x == p * C  y == r * G
  <2>1. x \in Nat /\ y \in Nat /\ x + G - 1 < y + G
    BY <1>1, <1>3, <1>4
  <2> HIDE DEF x, y
  <2>2. x <= y
    BY <1>1, <2>1
  <2> QED
    BY <2>2 DEF x, y
<1>6. r * G <= r * (n * C)
  <2> DEFINE y == n * C
  <2>1. y \in Nat /\ G <= y
    BY <1>1
  <2> HIDE DEF y
  <2>2. r * G <= r * y
    BY <1>1, <1>4, <2>1
  <2> QED
    BY <2>2 DEF y
<1>7. r * (n * C) = (r * n) * C
  BY <1>1, <1>4
<1>8. r * n \in Nat
  BY <1>4
<1>9. p * C < (r * n + 1) * C
  <2> DEFINE q == r * n
  <2>1. q \in Nat /\ p * C <= q * C
    <3>1. r * G \in Nat /\ r * (n * C) \in Nat
      BY <1>1, <1>4
    <3> QED
      BY <1>3, <1>5, <1>6, <1>7, <1>8, <3>1
  <2> HIDE DEF q
  <2>2. (q + 1) * C = q * C + C
    BY <1>1, <2>1
  <2>3. q * C \in Nat /\ p * C \in Nat
    BY <1>1, <2>1
  <2>4. p * C < (q + 1) * C
    BY <1>1, <2>1, <2>2, <2>3
  <2> QED
    BY <2>4 DEF q
<1>10. p <= r * n
  BY <1>1, <1>8, <1>9, CancelFactor
<1> QED
  BY <1>2, <1>4, <1>10

\* The payment for the principal the guard computes from a limit is within the
\* limit: rounding one down makes up for rounding the other up.
LEMMA AffordableFits ==
    ASSUME NEW t, NEW n, HasRate(t, n), NEW limit \in Nat
    PROVE  /\ Affordable(limit, t, n) \in Nat
           /\ MonthlyRepayment(Affordable(limit, t, n), t, n) <= limit
<1> DEFINE C == Cost(t, n)  G == Gain(t, n)
           q == (limit * G) \div C
           r == (q * C + G - 1) \div G
<1>0. C \in Nat \ {0} /\ G \in Nat \ {0}
  BY DEF HasRate
<1> HIDE DEF C, G
<1>1. limit * G \in Nat
  BY <1>0
<1>2. q \in Nat /\ q * C <= limit * G
  BY <1>0, <1>1, DivBounds
<1> HIDE DEF q
<1>3. q * C \in Nat
  BY <1>0, <1>2
<1>4. r \in Nat /\ r * G <= q * C + G - 1
  <2>1. q * C + G - 1 \in Nat
    BY <1>0, <1>3
  <2> QED
    BY <1>0, <2>1, DivBounds
<1> HIDE DEF r
<1>5. r * G < limit * G + G
  <2> DEFINE rg == r * G
             qc == q * C
             lg == limit * G
  <2>1. rg <= qc + G - 1 /\ qc <= lg
    BY <1>2, <1>4
  <2>2. rg \in Nat /\ qc \in Nat /\ lg \in Nat
    BY <1>0, <1>1, <1>3, <1>4
  <2> HIDE DEF rg, qc, lg
  <2>3. rg < lg + G
    BY <1>0, <2>1, <2>2
  <2> QED
    BY <2>3 DEF rg, lg
<1>6. limit * G + G = (limit + 1) * G
  BY <1>0
<1>7. r <= limit
  BY <1>0, <1>4, <1>5, <1>6, CancelFactor
<1> QED
  BY <1>2, <1>7 DEF MonthlyRepayment, Affordable, CeilDiv, q, r, C, G

\* A principal whose payment does not fit is cut down, never up.
LEMMA AffordableCuts ==
    ASSUME NEW t, NEW n, HasRate(t, n), NEW limit \in Nat, NEW amount \in Nat,
           ~(MonthlyRepayment(amount, t, n) <= limit)
    PROVE  Affordable(limit, t, n) <= amount
<1> DEFINE C == Cost(t, n)  G == Gain(t, n)
           q == (limit * G) \div C
           r == (amount * C + G - 1) \div G
<1>0. C \in Nat \ {0} /\ G \in Nat \ {0}
  BY DEF HasRate
<1>a. ~(r <= limit)
  BY DEF MonthlyRepayment, CeilDiv
<1> HIDE DEF C, G
<1>1. limit * G \in Nat /\ amount * C \in Nat
  BY <1>0
<1>2. q \in Nat /\ q * C <= limit * G
  BY <1>0, <1>1, DivBounds
<1> HIDE DEF q
<1>3. r \in Nat /\ r * G <= amount * C + G - 1
  <2>1. amount * C + G - 1 \in Nat
    BY <1>0, <1>1
  <2> QED
    BY <1>0, <2>1, DivBounds
<1> HIDE DEF r
<1>4. limit * G + G <= r * G
  <2>1. PICK d \in Nat : r = limit + 1 + d
    <3>1. r - (limit + 1) \in Nat /\ r = limit + 1 + (r - (limit + 1))
      BY <1>a, <1>3
    <3> QED
      BY <3>1
  <2>2. r * G = limit * G + G + d * G
    BY <1>0, <2>1
  <2>3. d * G >= 0 /\ d * G \in Nat
    BY <1>0
  <2> QED
    BY <1>0, <1>1, <2>2, <2>3
<1>5. q * C < (amount + 1) * C
  <2> DEFINE qc == q * C
             lg == limit * G
             rg == r * G
             ac == amount * C
  <2>1. qc <= lg /\ lg + G <= rg /\ rg <= ac + G - 1
    BY <1>2, <1>3, <1>4
  <2>2. qc \in Nat /\ lg \in Nat /\ rg \in Nat /\ ac \in Nat
    BY <1>0, <1>1, <1>2, <1>3
  <2> HIDE DEF qc, lg, rg, ac
  <2>3. qc < ac + C
    BY <1>0, <2>1, <2>2
  <2>4. (amount + 1) * C = amount * C + C
    BY <1>0
  <2> QED
    BY <2>3, <2>4 DEF qc, ac
<1>6. q <= amount
  BY <1>0, <1>2, <1>5, CancelFactor
<1> QED
  BY <1>6 DEF Affordable, q, C, G

\* What is approved is within 40% of the income, within the tier and within what
\* was asked for, and repays what is lent, for every tier table and every
\* application: the guard computes the principal from the payment and the payment
\* from the principal again, each with its own rounding.
THEOREM UnderwritingIsSound ==
    ASSUME NEW t, NEW requested \in Nat, NEW months \in Nat \ {0}, NEW income \in Nat,
           Underwrite(t, requested, months, income).approved
    PROVE  /\ t \in DOMAIN TierParams /\ TierParams[t].approve
           /\ LET d == Underwrite(t, requested, months, income)
              IN  /\ d.amount >= MinAmount
                  /\ d.amount <= requested /\ d.amount <= TierParams[t].maxAmount
                  /\ d.tenure <= months /\ d.tenure <= TierParams[t].maxTenure
                  /\ income > 0 => d.monthly <= MaxRepayment(income)
                  /\ d.total >= d.amount
<1> DEFINE amount == Smaller(requested, TierParams[t].maxAmount)
           tenure == Smaller(months, TierParams[t].maxTenure)
           limit == MaxRepayment(income)
           fits == income = 0 \/ MonthlyRepayment(amount, t, tenure) <= limit
           granted == IF fits THEN amount ELSE Affordable(limit, t, tenure)
           d == Underwrite(t, requested, months, income)
<1>1. /\ t \in DOMAIN TierParams /\ TierParams[t].approve
      /\ ~(amount < MinAmount \/ granted < MinAmount)
      /\ d = Terms(t, granted, tenure)
  BY DEF Underwrite, Declined
<1>2. /\ TierParams[t].maxAmount \in Nat /\ TierParams[t].maxTenure \in Nat \ {0}
  BY <1>1, TierAssumption DEF TierAssumption
<1>3. /\ amount \in Nat /\ amount <= requested /\ amount <= TierParams[t].maxAmount
      /\ tenure \in Nat \ {0} /\ tenure <= months
      /\ tenure <= TierParams[t].maxTenure
  BY <1>2 DEF Smaller
<1>4. limit \in Nat
  <2>1. income * 2 \in Nat
    OBVIOUS
  <2> QED
    BY <2>1, DivBounds DEF MaxRepayment
<1> HIDE DEF amount, tenure, limit
<1>5. HasRate(t, tenure)
  BY <1>1, <1>3, RateHolds
<1>6. /\ granted \in Nat /\ granted <= amount
      /\ income > 0 => MonthlyRepayment(granted, t, tenure) <= limit
  <2>1. CASE fits
    BY <1>3, <2>1
  <2>2. CASE ~fits
    BY <1>3, <1>4, <1>5, <2>2, AffordableFits, AffordableCuts
  <2> QED
    BY <2>1, <2>2
<1> HIDE DEF fits, granted
<1>7. /\ d.amount = granted /\ d.tenure = tenure
      /\ d.monthly = MonthlyRepayment(granted, t, tenure)
      /\ d.total = MonthlyRepayment(granted, t, tenure) * tenure
  BY <1>1 DEF Terms
<1>8. granted >= MinAmount /\ granted <= requested
      /\ granted <= TierParams[t].maxAmount
  BY <1>1, <1>2, <1>3, <1>6, MinAssumption DEF MinAssumption
<1> HIDE DEF d
<1>10. d.total >= d.amount
  <2>1. granted <= MonthlyRepayment(granted, t, tenure) * tenure
    BY <1>1, <1>3, <1>6, PaymentCovers
  <2>2. MonthlyRepayment(granted, t, tenure) * tenure \in Nat
    BY <1>1, <1>3, <1>6, PaymentCovers
  <2> DEFINE total == MonthlyRepayment(granted, t, tenure) * tenure
  <2> HIDE DEF total
  <2> QED
    BY <1>6, <1>7, <2>1, <2>2 DEF total
<1>9. d.amount >= MinAmount /\ d.amount <= requested
      /\ d.amount <= TierParams[t].maxAmount
      /\ d.tenure <= months /\ d.tenure <= TierParams[t].maxTenure
      /\ (income > 0 => d.monthly <= MaxRepayment(income))
  BY <1>3, <1>6, <1>7, <1>8 DEF limit
<1> QED
  BY <1>1, <1>9, <1>10 DEF d

-----------------------------------------------------------------------------
(* Offers                                                                  *)

\* What OfferIsSound asks of one application and its terms.
SoundTerms(application, terms) ==
    LET tier == TierParams[application.tier]
        request == application.request
    IN  /\ tier.approve
        /\ request.income > 0 => terms.monthly <= MaxRepayment(request.income)
        /\ terms.amount >= MinAmount
        /\ terms.amount <= request.amount
        /\ terms.amount <= tier.maxAmount
        /\ terms.tenure <= tier.maxTenure
        /\ terms.total >= terms.amount

\* No request means to change what was asked for or offered, so that what a
\* commit writes over a newer row leaves the two together.
TermsInv ==
    /\ \A l \in Loans : Offered(l) => SoundTerms(loan[l], offer[l].terms)
    /\ \A w \in Workers : pc[w] = "commit" =>
          /\ newLoan[w].tier = loadedLoan[w].tier
          /\ newLoan[w].request = loadedLoan[w].request
          /\ newOffer[w].terms = loadedOffer[w].terms

LEMMA InitTermsInv == Init => TermsInv
  BY DEF Init, TermsInv, Offered, NoOffer, NoTerms

LEMMA SubmitTerms ==
    ASSUME OriginationInv, TermsInv, NEW l \in Loans, NEW request \in Requests,
           NEW tier \in Answers \cup {"very_poor"}, Submit(l, request, tier)
    PROVE  TermsInv'
<1> DEFINE decision == Underwrite(tier, request.amount, request.tenure,
                                  request.income)
           terms == [c \in DOMAIN NoTerms |-> decision[c]]
           application == [state |-> "OFFER_SENT", tier |-> tier, request |-> request]
<1>1. /\ loan[l].state = "ABSENT" /\ decision.approved
      /\ loan' = [loan EXCEPT ![l] = application]
      /\ offer' = [offer EXCEPT ![l].expires = now + ValidFor, ![l].terms = terms]
      /\ UNCHANGED requestVars
  BY DEF Submit
<1>2. PICK T : ShapedBy(T)
  BY DEF OriginationInv, RequestInv, Shaped
<1>3. offer[l] = NoOffer /\ offer[l] \in OffersOf(T)
  BY <1>1, <1>2 DEF OriginationInv, RequestInv, OfferOf, ShapedBy
<1>4. /\ loan'[l] = application
      /\ \A m \in Loans \ {l} : loan'[m] = loan[m]
  BY <1>1, <1>2 DEF ShapedBy
<1>5. \A m \in Loans \ {l} : offer'[m] = offer[m]
  BY <1>1, <1>2 DEF ShapedBy
<1>6. application.tier = tier /\ application.request = request
  OBVIOUS
<1> HIDE DEF application
<1>7. Offered(l)' => SoundTerms(loan[l], offer[l].terms)'
  <2>1. /\ request.amount \in Nat /\ request.tenure \in Nat \ {0}
        /\ request.income \in Nat
    BY RequestsAssumption DEF RequestsAssumption
  <2>2. /\ TierParams[tier].approve
        /\ decision.amount >= MinAmount
        /\ decision.amount <= request.amount
        /\ decision.amount <= TierParams[tier].maxAmount
        /\ decision.tenure <= TierParams[tier].maxTenure
        /\ request.income > 0 => decision.monthly <= MaxRepayment(request.income)
        /\ decision.total >= decision.amount
    BY <1>1, <2>1, UnderwritingIsSound
  <2> HIDE DEF decision
  <2>3. /\ terms.amount = decision.amount /\ terms.tenure = decision.tenure
        /\ terms.monthly = decision.monthly /\ terms.total = decision.total
    BY DEF NoTerms
  <2> HIDE DEF terms
  <2>4. offer'[l].terms = terms
    BY <1>1, <1>2, <1>3 DEF ShapedBy, OffersOf
  <2>5. SoundTerms(application, terms)
    BY <1>6, <2>2, <2>3 DEF SoundTerms
  <2>6. SoundTerms(loan[l], offer[l].terms)' = SoundTerms(application, terms)
    BY <1>4, <2>4 DEF SoundTerms
  <2> QED
    BY <2>5, <2>6
<1>8. ASSUME NEW m \in Loans
      PROVE  Offered(m)' => SoundTerms(loan[m], offer[m].terms)'
  <2>1. CASE m = l
    BY <1>7, <2>1
  <2>2. CASE m # l
    <3>1. loan'[m] = loan[m] /\ offer'[m] = offer[m]
      BY <1>4, <1>5, <2>2
    <3> QED
      BY <3>1 DEF TermsInv, Offered, SoundTerms
  <2> QED
    BY <2>1, <2>2
<1> QED
  BY <1>1, <1>8 DEF TermsInv, requestVars

LEMMA NextTermsInv == OriginationInv /\ TermsInv /\ [Next]_vars => TermsInv'
<1> SUFFICES ASSUME OriginationInv, TermsInv, [Next]_vars
             PROVE  TermsInv'
  OBVIOUS
<1>0. PICK T : ShapedBy(T)
  BY DEF OriginationInv, RequestInv, Shaped
<1>1. CASE UNCHANGED <<rowVars, requestVars>>
  BY <1>1 DEF TermsInv, Offered, SoundTerms, rowVars, requestVars
<1>2. ASSUME UNCHANGED rowVars
      PROVE  \A l \in Loans : Offered(l)' => SoundTerms(loan[l], offer[l].terms)'
  BY <1>2 DEF TermsInv, Offered, SoundTerms, rowVars
<1>3. ASSUME NEW w \in Workers, NEW l \in Loans, Requested(w, l)
      PROVE  TermsInv'
  <2>0. /\ loan[l] \in Applications /\ offer[l] \in OffersOf(T)
    BY <1>0 DEF ShapedBy
  <2>1. PICK application, terms :
          /\ Open(w, l, application, terms)
          /\ application.tier = loan[l].tier
          /\ application.request = loan[l].request
          /\ terms.terms = offer[l].terms
    <3>1. CASE Cancel(w, l)
      <4> DEFINE a == [loan[l] EXCEPT !.state = "CANCELLED"]
      <4>1. Open(w, l, a, offer[l])
        BY <3>1 DEF Cancel
      <4>2. a.tier = loan[l].tier /\ a.request = loan[l].request
        BY <2>0 DEF Applications
      <4> HIDE DEF a
      <4> QED
        BY <4>1, <4>2
    <3>2. ASSUME NEW method \in Methods, Accept(w, l, method)
          PROVE  \E application, terms :
                   /\ Open(w, l, application, terms)
                   /\ application.tier = loan[l].tier
                   /\ application.request = loan[l].request
                   /\ terms.terms = offer[l].terms
      <4> DEFINE a == [loan[l] EXCEPT !.state = "OFFER_ACCEPTED"]
                 o == [offer[l] EXCEPT !.accepted = TRUE, !.at = now,
                                       !.method = method]
      <4>1. Open(w, l, a, o)
        BY <3>2 DEF Accept
      <4>2. a.tier = loan[l].tier /\ a.request = loan[l].request
        BY <2>0 DEF Applications
      <4>3. o.terms = offer[l].terms
        BY <2>0 DEF OffersOf
      <4> HIDE DEF a, o
      <4> QED
        BY <4>1, <4>2, <4>3
    <3> QED
      BY <1>3, <3>1, <3>2 DEF Requested
  <2>2. /\ UNCHANGED rowVars
        /\ newLoan'[w] = application /\ loadedLoan'[w] = loan[l]
        /\ newOffer'[w] = terms /\ loadedOffer'[w] = offer[l]
    BY <1>0, <2>1 DEF Open, ShapedBy
  <2>3. ASSUME NEW v \in Workers, v # w
        PROVE  /\ pc'[v] = pc[v] /\ newLoan'[v] = newLoan[v]
               /\ loadedLoan'[v] = loadedLoan[v]
               /\ newOffer'[v] = newOffer[v] /\ loadedOffer'[v] = loadedOffer[v]
    BY <1>0, <2>1, <2>3 DEF Open, ShapedBy
  <2>4. ASSUME NEW v \in Workers, pc'[v] = "commit"
        PROVE  /\ newLoan'[v].tier = loadedLoan'[v].tier
               /\ newLoan'[v].request = loadedLoan'[v].request
               /\ newOffer'[v].terms = loadedOffer'[v].terms
    <3>1. CASE v = w
      BY <2>1, <2>2, <3>1
    <3>2. CASE v # w
      BY <2>3, <2>4, <3>2 DEF TermsInv
    <3> QED
      BY <3>1, <3>2
  <2> QED
    BY <1>2, <2>2, <2>4 DEF TermsInv
<1>4. ASSUME NEW w \in Workers, Close(w), NEW v \in Workers, pc'[v] = "commit"
      PROVE  /\ newLoan'[v].tier = loadedLoan'[v].tier
             /\ newLoan'[v].request = loadedLoan'[v].request
             /\ newOffer'[v].terms = loadedOffer'[v].terms
  <2>1. CASE v = w
    BY <1>0, <1>4, <2>1, CloseKeeps
  <2>2. CASE v # w
    BY <1>0, <1>4, <2>2, CloseKeeps DEF TermsInv
  <2> QED
    BY <2>1, <2>2
<1>5. ASSUME NEW w \in Workers, Abandon(w)
      PROVE  TermsInv'
  <2>1. Close(w) /\ UNCHANGED rowVars
    BY <1>5 DEF Abandon
  <2> QED
    BY <1>2, <1>4, <2>1 DEF TermsInv
<1>6. ASSUME NEW w \in Workers, Commit(w)
      PROVE  TermsInv'
  <2>1. PICK l \in Loans : l = on[w]
    BY <1>0, <1>6, CommitWrites
  <2>2. /\ pc[w] = "commit" /\ Close(w)
        /\ loan' = [loan EXCEPT ![l] = Merge(loan[l], loadedLoan[w], newLoan[w])]
        /\ offer' = [offer EXCEPT ![l] = Merge(offer[l], loadedOffer[w], newOffer[w])]
    BY <1>6, <2>1 DEF Commit
  <2>3. /\ newLoan[w].tier = loadedLoan[w].tier
        /\ newLoan[w].request = loadedLoan[w].request
        /\ newOffer[w].terms = loadedOffer[w].terms
    BY <2>2 DEF TermsInv
  <2>4. /\ loan[l] \in Applications /\ loadedLoan[w] \in Applications
        /\ newLoan[w] \in Applications /\ offer[l] \in OffersOf(T)
        /\ loadedOffer[w] \in OffersOf(T) /\ newOffer[w] \in OffersOf(T)
    BY <1>0 DEF ShapedBy
  <2>5. /\ loan'[l].tier = loan[l].tier /\ loan'[l].request = loan[l].request
    <3>1. loan'[l] = Merge(loan[l], loadedLoan[w], newLoan[w])
      BY <1>0, <2>2 DEF ShapedBy
    <3> QED
      BY <2>3, <2>4, <3>1 DEF Merge, Applications
  <2>6. offer'[l].terms = offer[l].terms
    <3>1. offer'[l] = Merge(offer[l], loadedOffer[w], newOffer[w])
      BY <1>0, <2>2 DEF ShapedBy
    <3> QED
      BY <2>3, <2>4, <3>1, MergeOffer
  <2>7. \A m \in Loans \ {l} : loan'[m] = loan[m] /\ offer'[m] = offer[m]
    BY <1>0, <2>2 DEF ShapedBy
  <2>8. ASSUME NEW m \in Loans
        PROVE  Offered(m)' => SoundTerms(loan[m], offer[m].terms)'
    <3>1. /\ loan'[m].tier = loan[m].tier /\ loan'[m].request = loan[m].request
          /\ offer'[m].terms = offer[m].terms
      BY <2>5, <2>6, <2>7
    <3> QED
      BY <3>1 DEF TermsInv, Offered, SoundTerms
  <2> QED
    BY <1>4, <2>2, <2>8 DEF TermsInv
<1>7. CASE Tick \/ UNCHANGED vars
  BY <1>1, <1>7 DEF Tick, vars
<1>8. ASSUME NEW l \in Loans, NEW request \in Requests,
             NEW tier \in Answers \cup {"very_poor"}, Submit(l, request, tier)
      PROVE  TermsInv'
  BY <1>8, SubmitTerms
<1> QED
  BY <1>3, <1>5, <1>6, <1>7, <1>8 DEF Next, Requested

\* Every offer there ever is costs no more than 40% of the income, is within the
\* tier and the request and repays what is lent, for every table of tiers, any
\* answers of the scoring service and any requests that overlap.
THEOREM OffersAreSound == Spec => []OfferIsSound
<1>1. Spec => []OriginationInv
  BY InitHolds, NextKeeps, PTL DEF Spec
<1>2. Spec => []TermsInv
  BY <1>1, InitTermsInv, NextTermsInv, PTL DEF Spec
<1>3. TermsInv => OfferIsSound
  BY DEF TermsInv, SoundTerms, OfferIsSound, OfferWithinMeans, OfferWithinTier,
         OfferCoversPrincipal
<1> QED
  BY <1>2, <1>3, PTL
=============================================================================
