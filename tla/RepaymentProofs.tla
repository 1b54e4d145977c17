--------------------------- MODULE RepaymentProofs ---------------------------
(***************************************************************************)
(* Proofs about Repayment, for every schedule, set of payments and number  *)
(* of concurrent sessions.                                                 *)
(***************************************************************************)
EXTENDS RepaymentSerial, FiniteSetTheorems, TLAPS

-----------------------------------------------------------------------------
(* Operators                                                               *)

(* allocate(), for every payment and every balance: the portions are       *)
(* natural, never exceed their buckets, add up to the payment, and the     *)
(* principal is touched only once penalties and interest are cleared.      *)
THEOREM AllocationIsExact ==
    ASSUME NEW p \in Nat, NEW a \in Nat, NEW b \in Nat, NEW c \in Nat
    PROVE  LET t == Allocate(p, a, b, c)
           IN  /\ t \in Books
               /\ t.penalty <= a /\ t.interest <= b /\ t.principal <= c
               /\ t.penalty + t.interest + t.principal + t.over = p
               /\ t.principal > 0 => t.penalty = a /\ t.interest = b
               /\ t.over > 0 => t.principal = c
  BY DEF Allocate, Least, Books

LEMMA DailyPenaltyType ==
    ASSUME NEW p \in Nat
    PROVE  DailyPenalty(p) \in Nat
  BY DEF DailyPenalty

LEMMA ClassifyType ==
    ASSUME NEW d \in Nat, NEW s \in BOOLEAN
    PROVE  Classify(d, s) \in Statuses
  BY DEF Classify, Statuses

LEMMA MergeType ==
    ASSUME NEW r \in Accounts, NEW l \in Accounts, NEW n \in Accounts
    PROVE  Merge(r, l, n) \in Accounts
  BY DEF Merge, Accounts

\* Replacing columns of a row by values of their types gives a row.
LEMMA SweepColumns ==
    ASSUME NEW a \in Accounts, NEW d \in Nat, NEW c \in Nat, NEW s \in Statuses
    PROVE  [a EXCEPT !.late = d, !.penalty = @ + c, !.status = s] \in Accounts
<1>1. a.penalty + c \in Nat /\ s \in Statuses \cup {"ABSENT"}
  BY DEF Accounts
<1>. QED
  BY <1>1 DEF Accounts

LEMMA BalanceColumns ==
    ASSUME NEW a \in Accounts, NEW x \in Nat, NEW y \in Nat, NEW z \in Nat,
           x <= a.penalty, y <= a.interest, z <= a.principal
    PROVE  [a EXCEPT !.penalty = @ - x, !.interest = @ - y,
                     !.principal = @ - z] \in Accounts
<1>1. /\ a.penalty - x \in Nat /\ a.interest - y \in Nat
      /\ a.principal - z \in Nat
  BY DEF Accounts
<1>. QED
  BY <1>1 DEF Accounts

\* What a session may do to a committed row keeps it a row.
LEMMA SettleType ==
    ASSUME NEW a \in Accounts
    PROVE  Settle(a) \in Accounts
<1>1. Classify(a.late, a.principal = 0) \in Statuses
  BY ClassifyType DEF Accounts
<1>. QED
  BY <1>1 DEF Settle, Accounts, Statuses

LEMMA SweptType ==
    ASSUME NEW a \in Accounts, a.due <= Tenure, today \in Nat
    PROVE  /\ Swept(a) \in Accounts
           /\ Swept(a).principal = a.principal
           /\ Swept(a).paid = a.paid /\ Swept(a).due = a.due
           /\ Swept(a).status \in Statuses
           /\ Swept(a).penalty > 0 =>
                a.penalty > 0 \/ today > DueDay[a.due] + Grace
<1>. DEFINE days == IF today > DueDay[a.due] THEN today - DueDay[a.due] ELSE 0
            charge == IF days > Grace THEN DailyPenalty(a.principal) ELSE 0
<1>1. a.due \in 1 .. Tenure
  BY LoanAssumption DEF Accounts
<1>2. days \in Nat
  BY <1>1, ScheduleAssumption
<1>3. charge \in Nat
  BY DailyPenaltyType DEF Accounts
<1>4. Classify(days, a.principal = 0) \in Statuses
  BY <1>2, ClassifyType
<1>. DEFINE s == Classify(days, a.principal = 0)
<1>5. Swept(a) = [a EXCEPT !.late = days, !.penalty = @ + charge, !.status = s]
  BY DEF Swept
<1>6. charge > 0 => today > DueDay[a.due] + Grace
  BY <1>1, ScheduleAssumption, ThresholdsAssumption
<1>. HIDE DEF days, charge, s
<1>7. [a EXCEPT !.late = days, !.penalty = @ + charge, !.status = s] \in Accounts
  BY <1>2, <1>3, <1>4, SweepColumns DEF s
<1>8. Swept(a).principal = a.principal /\ Swept(a).paid = a.paid
      /\ Swept(a).due = a.due /\ Swept(a).status = s
      /\ Swept(a).penalty = a.penalty + charge
  BY <1>5 DEF Accounts
<1>9. a.penalty \in Nat
  BY DEF Accounts
<1>. QED
  BY <1>3, <1>4, <1>5, <1>6, <1>7, <1>8, <1>9 DEF s

LEMMA AllocatedType ==
    ASSUME NEW a \in Accounts, NEW p \in Nat
    PROVE  LET t == Allocate(p, a.penalty, a.interest, a.principal)
           IN  /\ t \in Books
               /\ t.principal <= a.principal
               /\ t.penalty <= a.penalty
               /\ [a EXCEPT !.penalty = @ - t.penalty,
                            !.interest = @ - t.interest,
                            !.principal = @ - t.principal] \in Accounts
<1>. DEFINE t == Allocate(p, a.penalty, a.interest, a.principal)
<1>1. /\ t \in Books
      /\ t.penalty <= a.penalty /\ t.interest <= a.interest
      /\ t.principal <= a.principal
  BY AllocationIsExact DEF Accounts
<1>. HIDE DEF t
<1>2. [a EXCEPT !.penalty = @ - t.penalty, !.interest = @ - t.interest,
                !.principal = @ - t.principal] \in Accounts
  <2>1. t.penalty \in Nat /\ t.interest \in Nat /\ t.principal \in Nat
    BY <1>1 DEF Books
  <2>. QED
    BY <1>1, <2>1, BalanceColumns
<1>. QED
  BY <1>1, <1>2 DEF t

LEMMA NoAccountType == NoAccount \in Accounts
  BY LoanAssumption DEF NoAccount, Accounts

LEMMA PortionsType ==
    ASSUME TypeOK, NEW w \in Workers, pay[w] \in Payments
    PROVE  Portions(w) \in Books
<1>1. AmountOf[pay[w]] \in Nat
  BY PaymentsAssumption
<1>. QED
  BY <1>1, AllocatedType DEF Portions, TypeOK

-----------------------------------------------------------------------------
(* Sums over finite sets. MapThenSumSet recurs over the subsets of its     *)
(* set, taking a chosen member out each time; what it computes is proved   *)
(* by looking at a smallest subset for which it would not.                 *)

SumOver(f, S) == MapThenSumSet(LAMBDA x : f[x], S)

Chosen(s) == CHOOSE x \in s : TRUE

\* The recursion behind the sum, on the subsets of a set.
Sums(g, f, S) ==
    g = [s \in SUBSET S |-> IF s = {} THEN 0
                            ELSE f[Chosen(s)] + g[s \ {Chosen(s)}]]

LEMMA SumOverIsRecursive ==
    ASSUME NEW f, NEW S
    PROVE  SumOver(f, S) = (CHOOSE g : Sums(g, f, S))[S]
  BY DEF SumOver, MapThenSumSet, MapThenFoldSet, Sums, Chosen

LEMMA ChosenIsMember ==
    ASSUME NEW s, s # {}
    PROVE  Chosen(s) \in s
  BY DEF Chosen

\* A family of subsets of a finite set has a minimal member.
LEMMA SmallestSubset ==
    ASSUME NEW S, IsFiniteSet(S), NEW B, B \subseteq SUBSET S, B # {}
    PROVE  \E s \in B : \A u \in B : u \subseteq s => u = s
<1>1. IsWellFoundedOn(StrictSubsetOrdering(S), FiniteSubsetsOf(S))
  BY FS_StrictSubsetOrderingWellFounded
<1>2. B \subseteq FiniteSubsetsOf(S)
  BY FS_FiniteSubsetsOfFinite
<1>3. \E s \in B : \A u \in B : ~(<<u, s>> \in StrictSubsetOrdering(S))
  BY <1>1, <1>2, WFMin
<1>4. PICK s \in B : \A u \in B : ~(<<u, s>> \in StrictSubsetOrdering(S))
  BY <1>3
<1>5. ASSUME NEW u \in B, u \subseteq s
      PROVE  u = s
  BY <1>4, <1>5 DEF StrictSubsetOrdering
<1>. QED
  BY <1>5

LEMMA SumsUnique ==
    ASSUME NEW f, NEW S, IsFiniteSet(S), NEW T, NEW g, NEW h,
           Sums(g, f, S), Sums(h, f, T), NEW r, r \subseteq S, r \subseteq T
    PROVE  g[r] = h[r]
<1>. DEFINE B == {s \in SUBSET S : s \subseteq T /\ g[s] # h[s]}
<1>. SUFFICES ASSUME B # {} PROVE FALSE
  OBVIOUS
<1>1. PICK s \in B : \A u \in B : u \subseteq s => u = s
  <2>. HIDE DEF B
  <2>1. B \subseteq SUBSET S
    BY DEF B
  <2>. QED
    BY <2>1, SmallestSubset
<1>2. /\ g[s] = IF s = {} THEN 0 ELSE f[Chosen(s)] + g[s \ {Chosen(s)}]
      /\ h[s] = IF s = {} THEN 0 ELSE f[Chosen(s)] + h[s \ {Chosen(s)}]
  BY DEF Sums
<1>3. s # {} /\ Chosen(s) \in s
  BY <1>2, ChosenIsMember
<1>4. g[s \ {Chosen(s)}] = h[s \ {Chosen(s)}]
  BY <1>1, <1>3
<1>. QED
  BY <1>2, <1>3, <1>4

LEMMA SumsExist ==
    ASSUME NEW f, NEW S, IsFiniteSet(S)
    PROVE  \E g : Sums(g, f, S)
<1>. DEFINE B == {U \in SUBSET S : ~\E g : Sums(g, f, U)}
<1>. SUFFICES ASSUME B # {} PROVE FALSE
  OBVIOUS
<1>1. PICK U \in B : \A u \in B : u \subseteq U => u = U
  <2>. HIDE DEF B
  <2>1. B \subseteq SUBSET S
    BY DEF B
  <2>. QED
    BY <2>1, SmallestSubset
<1>. DEFINE G(t) == CHOOSE g : Sums(g, f, t)
            Rest(s) == s \ {Chosen(s)}
            h == [s \in SUBSET U |-> IF s = {} THEN 0
                                     ELSE f[Chosen(s)] + G(Rest(s))[Rest(s)]]
<1>2. ASSUME NEW t, t \subseteq U, t # U
      PROVE  Sums(G(t), f, t) /\ IsFiniteSet(t)
  <2>1. \E g : Sums(g, f, t)
    BY <1>1, <1>2
  <2>2. IsFiniteSet(t)
    BY <1>2, FS_Subset
  <2>. QED
    BY <2>1, <2>2
<1>. HIDE DEF G
<1>3. ASSUME NEW s \in SUBSET U, s # {}
      PROVE  h[Rest(s)] = G(Rest(s))[Rest(s)]
  <2>1. Chosen(s) \in s
    BY <1>3, ChosenIsMember
  <2>. DEFINE t == Rest(s)
  <2>2. t \subseteq U /\ t # U
    BY <2>1
  <2>3. Sums(G(t), f, t) /\ IsFiniteSet(t)
    BY <1>2, <2>2
  <2>. HIDE DEF t
  <2>4. G(t)[t] = IF t = {} THEN 0 ELSE f[Chosen(t)] + G(t)[Rest(t)]
    BY <2>3 DEF Sums
  <2>5. h[t] = IF t = {} THEN 0 ELSE f[Chosen(t)] + G(Rest(t))[Rest(t)]
    BY <2>2
  <2>6. CASE t # {}
    <3>1. Chosen(t) \in t
      BY <2>6, ChosenIsMember
    <3>2. Rest(t) \subseteq t /\ Rest(t) \subseteq U /\ Rest(t) # U
      BY <2>2, <3>1
    <3>3. Sums(G(Rest(t)), f, Rest(t)) /\ IsFiniteSet(Rest(t))
      BY <1>2, <3>2
    <3>4. G(Rest(t))[Rest(t)] = G(t)[Rest(t)]
      <4>. HIDE DEF Rest
      <4>. QED
        BY <2>3, <3>2, <3>3, SumsUnique
    <3>. QED
      BY <2>4, <2>5, <2>6, <3>4 DEF t
  <2>. QED
    BY <2>4, <2>5, <2>6 DEF t
<1>4. h = [s \in SUBSET U |-> IF s = {} THEN 0
                              ELSE f[Chosen(s)] + h[s \ {Chosen(s)}]]
  <2>. DEFINE k == [s \in SUBSET U |-> IF s = {} THEN 0
                              ELSE f[Chosen(s)] + h[s \ {Chosen(s)}]]
  <2>1. ASSUME NEW s \in SUBSET U
        PROVE  h[s] = k[s]
    BY <1>3
  <2>. HIDE DEF G
  <2>. QED
    BY <2>1
<1>5. Sums(h, f, U)
  BY <1>4 DEF Sums
<1>. QED
  BY <1>5

LEMMA SumOverSums ==
    ASSUME NEW f, NEW S, IsFiniteSet(S)
    PROVE  \E g : Sums(g, f, S) /\ SumOver(f, S) = g[S]
  BY SumsExist, SumOverIsRecursive

LEMMA SumOverEmpty ==
    ASSUME NEW f
    PROVE  SumOver(f, {}) = 0
<1>1. PICK g : Sums(g, f, {}) /\ SumOver(f, {}) = g[{}]
  BY SumOverSums, FS_EmptySet
<1>. QED
  BY <1>1 DEF Sums

LEMMA SumOverChosen ==
    ASSUME NEW f, NEW S, IsFiniteSet(S), S # {}
    PROVE  /\ Chosen(S) \in S
           /\ SumOver(f, S) = f[Chosen(S)] + SumOver(f, S \ {Chosen(S)})
<1>1. Chosen(S) \in S
  BY ChosenIsMember
<1>. DEFINE T == S \ {Chosen(S)}
<1>2. IsFiniteSet(T)
  BY FS_RemoveElement
<1>3. PICK g : Sums(g, f, S) /\ SumOver(f, S) = g[S]
  BY SumOverSums
<1>4. PICK h : Sums(h, f, T) /\ SumOver(f, T) = h[T]
  BY <1>2, SumOverSums
<1>5. g[S] = f[Chosen(S)] + g[T]
  BY <1>3 DEF Sums
<1>6. g[T] = h[T]
  <2>1. T \subseteq S
    OBVIOUS
  <2>. HIDE DEF T
  <2>. QED
    BY <1>3, <1>4, <2>1, SumsUnique
<1>. QED
  BY <1>1, <1>3, <1>4, <1>5, <1>6

LEMMA SumOverType ==
    ASSUME NEW f, NEW S, IsFiniteSet(S), \A x \in S : f[x] \in Nat
    PROVE  SumOver(f, S) \in Nat
<1>. DEFINE B == {s \in SUBSET S : SumOver(f, s) \notin Nat}
<1>. SUFFICES ASSUME B # {} PROVE FALSE
  OBVIOUS
<1>1. PICK s \in B : \A u \in B : u \subseteq s => u = s
  <2>. HIDE DEF B
  <2>1. B \subseteq SUBSET S
    BY DEF B
  <2>. QED
    BY <2>1, SmallestSubset
<1>2. s # {} /\ IsFiniteSet(s) /\ s \subseteq S
  <2>1. s \subseteq S /\ SumOver(f, s) \notin Nat
    OBVIOUS
  <2>2. IsFiniteSet(s)
    BY <2>1, FS_Subset
  <2>. QED
    BY <2>1, <2>2, SumOverEmpty
<1>3. /\ Chosen(s) \in s
      /\ SumOver(f, s) = f[Chosen(s)] + SumOver(f, s \ {Chosen(s)})
  BY <1>2, SumOverChosen
<1>4. SumOver(f, s \ {Chosen(s)}) \in Nat
  BY <1>1, <1>2, <1>3
<1>. QED
  BY <1>2, <1>3, <1>4

\* The order does not matter: any member may be taken out.
LEMMA SumOverRemove ==
    ASSUME NEW f, NEW S, IsFiniteSet(S), \A x \in S : f[x] \in Nat,
           NEW y \in S
    PROVE  SumOver(f, S) = f[y] + SumOver(f, S \ {y})
<1>. DEFINE B == {s \in SUBSET S :
                    \E z \in s : SumOver(f, s) # f[z] + SumOver(f, s \ {z})}
<1>. SUFFICES ASSUME B # {} PROVE FALSE
  OBVIOUS
<1>1. PICK s \in B : \A u \in B : u \subseteq s => u = s
  <2>. HIDE DEF B
  <2>1. B \subseteq SUBSET S
    BY DEF B
  <2>. QED
    BY <2>1, SmallestSubset
<1>2. PICK z \in s : SumOver(f, s) # f[z] + SumOver(f, s \ {z})
  OBVIOUS
<1>3. IsFiniteSet(s) /\ s \subseteq S
  BY FS_Subset
<1>. DEFINE c == Chosen(s)
<1>4. c \in s /\ SumOver(f, s) = f[c] + SumOver(f, s \ {c})
  BY <1>2, <1>3, SumOverChosen
<1>. HIDE DEF c
<1>5. c # z
  BY <1>2, <1>4
<1>6. s \ {c} \notin B /\ s \ {z} \notin B
  BY <1>1, <1>4
<1>7. SumOver(f, s \ {c}) = f[z] + SumOver(f, (s \ {c}) \ {z})
  BY <1>2, <1>3, <1>5, <1>6
<1>8. SumOver(f, s \ {z}) = f[c] + SumOver(f, (s \ {z}) \ {c})
  BY <1>3, <1>4, <1>5, <1>6
<1>9. (s \ {c}) \ {z} = (s \ {z}) \ {c}
  OBVIOUS
<1>10. SumOver(f, (s \ {z}) \ {c}) \in Nat
  <2>1. IsFiniteSet((s \ {z}) \ {c})
    BY <1>3, FS_RemoveElement
  <2>. QED
    BY <1>3, <2>1, SumOverType
<1>11. f[c] \in Nat /\ f[z] \in Nat
  BY <1>2, <1>3, <1>4
<1>. DEFINE r == SumOver(f, (s \ {z}) \ {c})
<1>12. /\ SumOver(f, s) = f[c] + (f[z] + r)
       /\ f[z] + SumOver(f, s \ {z}) = f[z] + (f[c] + r)
  BY <1>4, <1>7, <1>8, <1>9
<1>13. f[c] + (f[z] + r) = f[z] + (f[c] + r)
  <2>1. r \in Nat
    BY <1>10
  <2>. HIDE DEF r
  <2>. QED
    BY <1>11, <2>1
<1>. QED
  BY <1>2, <1>12, <1>13

LEMMA SumOverAdd ==
    ASSUME NEW f, NEW S, IsFiniteSet(S), NEW y, y \notin S,
           \A x \in S \cup {y} : f[x] \in Nat
    PROVE  SumOver(f, S \cup {y}) = f[y] + SumOver(f, S)
<1>1. IsFiniteSet(S \cup {y}) /\ (S \cup {y}) \ {y} = S
  BY FS_AddElement
<1>. QED
  BY <1>1, SumOverRemove

-----------------------------------------------------------------------------
(* Types                                                                   *)

\* A session that handles a payment has one.
PaymentSteps == {"fetch", "pick", "advance", "flush"}
HasPayment == \A w \in Workers : pc[w] \in PaymentSteps => pay[w] \in Payments
TypeInv == TypeOK /\ HasPayment

LEMMA InitTypeInv == Init => TypeInv
  BY NoAccountType, LoanAssumption
  DEF Init, TypeInv, TypeOK, HasPayment, NoBooks, Books, Steps, PaymentSteps

LEMMA EndType ==
    ASSUME TypeInv, NEW w \in Workers, End(w)
    PROVE  /\ pc' \in [Workers -> Steps]
           /\ pay' \in [Workers -> Payments \cup {NoPayment}]
           /\ loaded' \in [Workers -> Accounts]
           /\ work' \in [Workers -> Accounts]
           /\ pick' \in [Workers -> 0 .. Tenure]
           /\ HasPayment'
  BY NoAccountType, LoanAssumption
  DEF TypeInv, TypeOK, End, HasPayment, Steps, PaymentSteps

LEMMA NextTypeInv == TypeInv /\ [Next]_vars => TypeInv'
<1>. SUFFICES ASSUME TypeInv, [Next]_vars
              PROVE  TypeInv'
  OBVIOUS
<1>. USE DEF TypeInv
<1>1. CASE Register
  <2>1. account' = [principal |-> Principal, interest |-> 0, penalty |-> 0,
                    paid |-> 0, due |-> 1, late |-> 0, status |-> "CURRENT"]
    BY <1>1 DEF Register, NoAccount
  <2>2. account' \in Accounts
    BY <2>1, LoanAssumption DEF Accounts, Statuses
  <2>. QED
    BY <1>1, <2>2 DEF Register, TypeOK, HasPayment, workerVars
<1>2. CASE Tick
  BY <1>2 DEF Tick, TypeOK, HasPayment, dbVars, workerVars
<1>3. ASSUME NEW w \in Workers, NEW p \in Payments, Receive(w, p)
      PROVE  TypeInv'
  BY <1>3 DEF Receive, TypeOK, HasPayment, Steps, dbVars
<1>4. ASSUME NEW w \in Workers, Fetch(w)
      PROVE  TypeInv'
  <2>. DEFINE t == Allocate(AmountOf[pay[w]], account.penalty,
                            account.interest, account.principal)
              a == [account EXCEPT !.penalty = @ - t.penalty,
                                   !.interest = @ - t.interest,
                                   !.principal = @ - t.principal]
  <2>1. pay[w] \in Payments /\ AmountOf[pay[w]] \in Nat
    BY <1>4, PaymentsAssumption DEF Fetch, HasPayment, PaymentSteps
  <2>2. a \in Accounts
    BY <2>1, AllocatedType DEF TypeOK
  <2>3. work' = [work EXCEPT ![w] = a]
    BY <1>4 DEF Fetch
  <2>4. pc' = [pc EXCEPT ![w] = "pick"] \/ pc' = [pc EXCEPT ![w] = "flush"]
    BY <1>4 DEF Fetch
  <2>5. loaded' = [loaded EXCEPT ![w] = account]
        /\ UNCHANGED <<dbVars, today, pay, pick>>
    BY <1>4 DEF Fetch
  <2>. HIDE DEF a
  <2>. QED
    BY <2>1, <2>2, <2>3, <2>4, <2>5
    DEF TypeOK, HasPayment, PaymentSteps, Steps, dbVars
<1>5. ASSUME NEW w \in Workers, Pick(w)
      PROVE  TypeInv'
  <2>1. PICK i \in 1 .. Tenure + 1 :
          IF i <= Tenure /\ AmountOf[pay[w]] >= TotalDue[i]
            THEN /\ pick' = [pick EXCEPT ![w] = i]
                 /\ work' = [work EXCEPT ![w].paid = @ + 1]
                 /\ pc' = [pc EXCEPT ![w] = "advance"]
            ELSE /\ pc' = [pc EXCEPT ![w] = "flush"]
                 /\ UNCHANGED <<pick, work>>
    BY <1>5 DEF Pick
  <2>2. pc[w] = "pick" /\ UNCHANGED <<dbVars, today, pay, loaded>>
    BY <1>5 DEF Pick
  <2>3. CASE i <= Tenure /\ AmountOf[pay[w]] >= TotalDue[i]
    <3>1. /\ i \in 0 .. Tenure
          /\ [work[w] EXCEPT !.paid = @ + 1] \in Accounts
      <4>1. work[w] \in Accounts /\ work[w].paid + 1 \in Nat
        BY DEF TypeOK, Accounts
      <4>2. [work[w] EXCEPT !.paid = @ + 1] \in Accounts
        BY <4>1 DEF Accounts
      <4>. QED
        BY <2>3, <4>2, LoanAssumption
    <3>2. /\ pick' = [pick EXCEPT ![w] = i]
          /\ work' = [work EXCEPT ![w] = [work[w] EXCEPT !.paid = @ + 1]]
          /\ pc' = [pc EXCEPT ![w] = "advance"]
      BY <2>1, <2>3
    <3>. QED
      BY <2>2, <3>1, <3>2 DEF TypeOK, HasPayment, PaymentSteps, Steps, dbVars
  <2>4. CASE ~(i <= Tenure /\ AmountOf[pay[w]] >= TotalDue[i])
    BY <2>1, <2>2, <2>4
    DEF TypeOK, HasPayment, PaymentSteps, Steps, dbVars
  <2>. QED
    BY <2>3, <2>4
<1>6. ASSUME NEW w \in Workers, Advance(w)
      PROVE  TypeInv'
  <2>1. PICK i \in 1 .. Tenure + 1 : work' = [work EXCEPT ![w].due = i]
    BY <1>6 DEF Advance
  <2>2. [work[w] EXCEPT !.due = i] \in Accounts
    BY DEF TypeOK, Accounts
  <2>3. work' = [work EXCEPT ![w] = [work[w] EXCEPT !.due = i]]
    BY <2>1
  <2>. QED
    BY <1>6, <2>2, <2>3
    DEF Advance, TypeOK, HasPayment, PaymentSteps, Steps, dbVars
<1>7. ASSUME NEW w \in Workers, Flush(w)
      PROVE  TypeInv'
  <2>1. pay[w] \in Payments
    BY <1>7 DEF Flush, HasPayment, PaymentSteps
  <2>2. account' \in Accounts
    BY <1>7, SettleType, MergeType DEF Flush, TypeOK
  <2>3. books' \in Books
    <3>1. Portions(w) \in Books /\ books \in Books
      BY <2>1, PortionsType DEF TypeOK
    <3>2. books' = [c \in DOMAIN books |-> books[c] + Portions(w)[c]]
      BY <1>7 DEF Flush
    <3>. HIDE DEF Portions
    <3>. QED
      BY <3>1, <3>2 DEF Books
  <2>4. /\ marked' = marked \cup ({pick[w]} \ {0})
        /\ refs' = refs \cup {pay[w]}
        /\ today' = today /\ End(w)
    BY <1>7 DEF Flush
  <2>5. pick[w] \in 0 .. Tenure
    BY DEF TypeOK
  <2>6. marked' \subseteq 1 .. Tenure /\ refs' \subseteq Payments
    <3>1. {pick[w]} \ {0} \subseteq 1 .. Tenure
      BY <2>5, LoanAssumption
    <3>. QED
      BY <2>1, <2>4, <3>1 DEF TypeOK
  <2>. QED
    BY <2>2, <2>3, <2>4, <2>6, EndType DEF TypeOK
<1>8. ASSUME NEW w \in Workers, SweepRead(w)
      PROVE  TypeInv'
  <2>1. Swept(account) \in Accounts
    BY <1>8, SweptType DEF SweepRead, TypeOK
  <2>. HIDE DEF Swept
  <2>. QED
    BY <1>8, <2>1
    DEF SweepRead, TypeOK, HasPayment, PaymentSteps, Steps, dbVars
<1>9. ASSUME NEW w \in Workers, SweepSave(w)
      PROVE  TypeInv'
  <2>1. account' \in Accounts
    BY <1>9, MergeType DEF SweepSave, TypeOK
  <2>. QED
    BY <1>9, <2>1, EndType DEF SweepSave, TypeOK
<1>10. ASSUME NEW w \in Workers, Abandon(w)
       PROVE  TypeInv'
  BY <1>10, EndType DEF Abandon, TypeOK, dbVars
<1>11. CASE UNCHANGED vars
  BY <1>11 DEF vars, dbVars, workerVars, TypeOK, HasPayment
<1>. QED
  BY <1>1, <1>2, <1>3, <1>4, <1>5, <1>6, <1>7, <1>8, <1>9, <1>10, <1>11
  DEF Next, PaymentStep, SweepStep

(* Every state of the service is well typed: no balance of an account or   *)
(* of a record is ever negative, whatever overlaps.                        *)
THEOREM TypeOKHolds == Spec => []TypeOK
<1>1. Spec => []TypeInv
  BY InitTypeInv, NextTypeInv, PTL DEF Spec
<1>2. TypeInv => TypeOK
  BY DEF TypeInv
<1>. QED
  BY <1>1, <1>2, PTL

-----------------------------------------------------------------------------
(* Facts about the steps                                                   *)

LEMMA MergeColumns ==
    ASSUME NEW r \in Accounts, NEW l \in Accounts, NEW n \in Accounts
    PROVE  LET m == Merge(r, l, n)
           IN  /\ m.principal = IF n.principal = l.principal THEN r.principal
                                                            ELSE n.principal
               /\ m.penalty = IF n.penalty = l.penalty THEN r.penalty
                                                       ELSE n.penalty
               /\ m.paid = IF n.paid = l.paid THEN r.paid ELSE n.paid
               /\ m.due = IF n.due = l.due THEN r.due ELSE n.due
               /\ m.status = IF n.status = l.status THEN r.status ELSE n.status
  BY DEF Merge, Accounts

LEMMA SettleColumns ==
    ASSUME NEW a \in Accounts
    PROVE  /\ Settle(a).principal = a.principal /\ Settle(a).penalty = a.penalty
           /\ Settle(a).paid = a.paid /\ Settle(a).due = a.due
           /\ Settle(a).status \in Statuses
<1>1. Classify(a.late, a.principal = 0) \in Statuses
  BY ClassifyType DEF Accounts
<1>. QED
  BY <1>1 DEF Settle, Accounts, Statuses

LEMMA FlushBooks ==
    ASSUME TypeInv, NEW w \in Workers, Flush(w)
    PROVE  /\ books'.principal = books.principal + Portions(w).principal
           /\ books'.penalty = books.penalty + Portions(w).penalty
           /\ Portions(w) \in Books
<1>1. pay[w] \in Payments
  BY DEF Flush, TypeInv, HasPayment, PaymentSteps
<1>2. Portions(w) \in Books /\ books \in Books
  BY <1>1, PortionsType DEF TypeInv, TypeOK
<1>3. books' = [c \in DOMAIN books |-> books[c] + Portions(w)[c]]
  BY DEF Flush
<1>. HIDE DEF Portions
<1>. QED
  BY <1>2, <1>3 DEF Books

\* The end of a session leaves the others where they are.
LEMMA EndOthers ==
    ASSUME TypeInv, NEW w \in Workers, End(w), NEW v \in Workers
    PROVE  /\ v = w => pc'[v] = "idle" /\ loaded'[v] = NoAccount
                       /\ work'[v] = NoAccount /\ pick'[v] = 0
           /\ v # w => /\ pc'[v] = pc[v] /\ pay'[v] = pay[v]
                       /\ loaded'[v] = loaded[v] /\ work'[v] = work[v]
                       /\ pick'[v] = pick[v]
  BY DEF End, TypeInv, TypeOK

-----------------------------------------------------------------------------
(* Balances                                                                *)

LoadedSteps == {"pick", "advance", "flush", "save"}

\* A session's copy of the principal was at least what the records left of
\* it when read, and the records only grow; the session takes from it just
\* the portion its own record will state.
SessionCredit(w) ==
    pc[w] \in LoadedSteps =>
        /\ Registered
        /\ work[w].status \in Statuses
        /\ loaded[w].principal + books.principal >= Principal
        /\ pc[w] = "save" => work[w].principal = loaded[w].principal
        /\ pc[w] # "save" =>
             work[w].principal = loaded[w].principal - Portions(w).principal

CreditInv == NeverOverCredited /\ \A w \in Workers : SessionCredit(w)

\* A session none of whose variables change keeps its promise when the
\* records grow and the account stays registered.
LEMMA IdleCredit ==
    ASSUME NEW v \in Workers, SessionCredit(v), TypeInv, TypeInv',
           pc'[v] = pc[v], pay'[v] = pay[v], loaded'[v] = loaded[v],
           work'[v] = work[v], Registered => Registered',
           books'.principal >= books.principal
    PROVE  SessionCredit(v)'
<1>1. /\ loaded[v].principal \in Nat /\ books.principal \in Nat
      /\ books'.principal \in Nat
  BY DEF TypeInv, TypeOK, Accounts, Books
<1>2. Portions(v)' = Portions(v)
  BY DEF Portions
<1>. QED
  BY <1>1, <1>2, LoanAssumption DEF SessionCredit

\* A merge of a session's row never takes more than its record states.
LEMMA MergeCredit ==
    ASSUME TypeInv, NEW w \in Workers, CreditInv, pc[w] \in LoadedSteps,
           NEW n \in Accounts, n.principal = work[w].principal,
           n.status \in Statuses, account' = Merge(account, loaded[w], n),
           NEW k \in Nat, books'.principal = books.principal + k,
           n.principal = loaded[w].principal - k
    PROVE  NeverOverCredited' /\ Registered'
<1>1. /\ account \in Accounts /\ loaded[w] \in Accounts
      /\ books.principal \in Nat
  BY DEF TypeInv, TypeOK, Books
<1>2. /\ Registered
      /\ loaded[w].principal + books.principal >= Principal
      /\ account.principal + books.principal >= Principal
  BY DEF CreditInv, SessionCredit, NeverOverCredited
<1>3. account'.principal = account.principal \/ account'.principal = n.principal
  BY <1>1, MergeColumns
<1>4. account'.status # "ABSENT"
  BY <1>1, <1>2, MergeColumns DEF Registered, Statuses
<1>5. account.principal \in Nat /\ loaded[w].principal \in Nat
  BY <1>1 DEF Accounts
<1>. QED
  BY <1>1, <1>2, <1>3, <1>4, <1>5, LoanAssumption
  DEF NeverOverCredited, Registered

LEMMA NextCreditInv ==
    TypeInv /\ TypeInv' /\ CreditInv /\ [Next]_vars => CreditInv'
<1>. SUFFICES ASSUME TypeInv, TypeInv', CreditInv, [Next]_vars
              PROVE  CreditInv'
  OBVIOUS
<1>0. /\ books.principal \in Nat /\ books'.principal \in Nat
      /\ account \in Accounts
  BY DEF TypeInv, TypeOK, Books
<1>1. CASE Register
  <2>1. account'.principal = Principal /\ Registered'
    BY <1>1 DEF Register, NoAccount, Registered
  <2>2. books' = books /\ UNCHANGED workerVars
    BY <1>1 DEF Register
  <2>3. NeverOverCredited'
    BY <1>0, <2>1, <2>2, LoanAssumption DEF NeverOverCredited
  <2>4. ASSUME NEW v \in Workers
        PROVE  SessionCredit(v)'
    BY <1>0, <2>1, <2>2, IdleCredit DEF CreditInv, workerVars
  <2>. QED
    BY <2>3, <2>4 DEF CreditInv
<1>2. CASE Tick \/ UNCHANGED vars
  <2>1. UNCHANGED <<dbVars, workerVars>>
    BY <1>2 DEF Tick, vars
  <2>2. ASSUME NEW v \in Workers
        PROVE  SessionCredit(v)'
    BY <1>0, <2>1, IdleCredit DEF CreditInv, dbVars, workerVars, Registered
  <2>. QED
    BY <2>1, <2>2 DEF CreditInv, NeverOverCredited, Registered, dbVars
<1>3. ASSUME NEW w \in Workers, NEW p \in Payments, Receive(w, p)
      PROVE  CreditInv'
  <2>1. UNCHANGED dbVars
    BY <1>3 DEF Receive
  <2>2. ASSUME NEW v \in Workers
        PROVE  SessionCredit(v)'
    <3>1. CASE v = w
      BY <1>3, <3>1 DEF Receive, SessionCredit, LoadedSteps, TypeInv, TypeOK
    <3>2. CASE v # w
      BY <1>0, <1>3, <2>1, <3>2, IdleCredit
      DEF Receive, CreditInv, dbVars, Registered, TypeInv, TypeOK
    <3>. QED
      BY <3>1, <3>2
  <2>. QED
    BY <2>1, <2>2 DEF CreditInv, NeverOverCredited, Registered, dbVars
<1>4. ASSUME NEW w \in Workers, Fetch(w)
      PROVE  CreditInv'
  <2>. DEFINE t == Allocate(AmountOf[pay[w]], account.penalty,
                            account.interest, account.principal)
              a == [account EXCEPT !.penalty = @ - t.penalty,
                                   !.interest = @ - t.interest,
                                   !.principal = @ - t.principal]
  <2>1. UNCHANGED <<dbVars, pay>>
    BY <1>4 DEF Fetch
  <2>2. /\ loaded'[w] = account /\ work'[w] = a
        /\ pc'[w] \in {"pick", "flush"}
        /\ account.status \in Statuses /\ Registered
    BY <1>0, <1>4 DEF Fetch, TypeInv, TypeOK, Accounts, Registered
  <2>3. a.principal = account.principal - t.principal /\ a.status = account.status
    BY <1>0 DEF Accounts
  <2>4. Portions(w)' = t
    BY <2>1, <2>2 DEF Portions
  <2>. HIDE DEF t, a
  <2>5. ASSUME NEW v \in Workers
        PROVE  SessionCredit(v)'
    <3>1. CASE v = w
      <4>1. account.principal + books.principal >= Principal
        BY <2>2 DEF CreditInv, NeverOverCredited
      <4>. QED
        BY <2>1, <2>2, <2>3, <2>4, <3>1, <4>1
        DEF SessionCredit, Registered, dbVars
    <3>2. CASE v # w
      BY <1>0, <1>4, <2>1, <3>2, IdleCredit
      DEF Fetch, CreditInv, dbVars, Registered, TypeInv, TypeOK
    <3>. QED
      BY <3>1, <3>2
  <2>. QED
    BY <2>1, <2>5 DEF CreditInv, NeverOverCredited, Registered, dbVars
<1>5. ASSUME NEW w \in Workers, Pick(w) \/ Advance(w)
      PROVE  CreditInv'
  <2>1. UNCHANGED <<dbVars, pay, loaded>>
    BY <1>5 DEF Pick, Advance
  <2>2. /\ pc[w] \in {"pick", "advance"} /\ pc'[w] \in {"advance", "flush"}
        /\ work'[w].principal = work[w].principal
        /\ work'[w].status = work[w].status
    BY <1>5 DEF Pick, Advance, TypeInv, TypeOK, Accounts
  <2>3. \A v \in Workers : v # w => pc'[v] = pc[v] /\ work'[v] = work[v]
    BY <1>5 DEF Pick, Advance, TypeInv, TypeOK
  <2>4. Portions(w)' = Portions(w)
    BY <2>1 DEF Portions
  <2>5. ASSUME NEW v \in Workers
        PROVE  SessionCredit(v)'
    <3>1. CASE v = w
      BY <2>1, <2>2, <2>4, <3>1
      DEF CreditInv, SessionCredit, LoadedSteps, Registered, dbVars
    <3>2. CASE v # w
      BY <1>0, <2>1, <2>3, <3>2, IdleCredit DEF CreditInv, dbVars, Registered
    <3>. QED
      BY <3>1, <3>2
  <2>. QED
    BY <2>1, <2>5 DEF CreditInv, NeverOverCredited, Registered, dbVars
<1>6. ASSUME NEW w \in Workers, Flush(w)
      PROVE  CreditInv'
  <2>1. /\ pc[w] = "flush" /\ work[w] \in Accounts /\ loaded[w] \in Accounts
        /\ account' = Merge(account, loaded[w], Settle(work[w])) /\ End(w)
    BY <1>6 DEF Flush, TypeInv, TypeOK
  <2>2. /\ books'.principal = books.principal + Portions(w).principal
        /\ Portions(w).principal \in Nat
    BY <1>6, FlushBooks DEF Books
  <2>3. /\ Settle(work[w]) \in Accounts
        /\ Settle(work[w]).principal = work[w].principal
        /\ Settle(work[w]).status \in Statuses
    BY <2>1, SettleType, SettleColumns
  <2>4. work[w].principal = loaded[w].principal - Portions(w).principal
    BY <2>1 DEF CreditInv, SessionCredit, LoadedSteps
  <2>. HIDE DEF Settle, Merge, Portions
  <2>5. NeverOverCredited' /\ Registered'
    BY <2>1, <2>2, <2>3, <2>4, MergeCredit DEF LoadedSteps
  <2>6. ASSUME NEW v \in Workers
        PROVE  SessionCredit(v)'
    <3>1. CASE v = w
      BY <2>1, <3>1, EndOthers DEF SessionCredit, LoadedSteps
    <3>2. CASE v # w
      BY <1>0, <2>1, <2>2, <2>5, <3>2, EndOthers, IdleCredit DEF CreditInv
    <3>. QED
      BY <3>1, <3>2
  <2>. QED
    BY <2>5, <2>6 DEF CreditInv
<1>7. ASSUME NEW w \in Workers, SweepRead(w)
      PROVE  CreditInv'
  <2>1. UNCHANGED <<dbVars, pay>>
    BY <1>7 DEF SweepRead
  <2>2. /\ loaded'[w] = account /\ work'[w] = Swept(account)
        /\ pc'[w] = "save" /\ Registered /\ account.due <= Tenure
        /\ today \in Nat
    BY <1>7 DEF SweepRead, TypeInv, TypeOK, Registered
  <2>3. /\ Swept(account).principal = account.principal
        /\ Swept(account).status \in Statuses
    BY <1>0, <2>2, SweptType
  <2>. HIDE DEF Swept
  <2>5. ASSUME NEW v \in Workers
        PROVE  SessionCredit(v)'
    <3>1. CASE v = w
      <4>1. account.principal + books.principal >= Principal
        BY <2>2 DEF CreditInv, NeverOverCredited
      <4>. QED
        BY <2>1, <2>2, <2>3, <3>1, <4>1
        DEF SessionCredit, Registered, dbVars
    <3>2. CASE v # w
      BY <1>0, <1>7, <2>1, <3>2, IdleCredit
      DEF SweepRead, CreditInv, dbVars, Registered, TypeInv, TypeOK
    <3>. QED
      BY <3>1, <3>2
  <2>. QED
    BY <2>1, <2>5 DEF CreditInv, NeverOverCredited, Registered, dbVars
<1>8. ASSUME NEW w \in Workers, SweepSave(w)
      PROVE  CreditInv'
  <2>1. /\ pc[w] = "save" /\ work[w] \in Accounts /\ books' = books
        /\ account' = Merge(account, loaded[w], work[w]) /\ End(w)
    BY <1>8 DEF SweepSave, TypeInv, TypeOK
  <2>2. /\ work[w].principal = loaded[w].principal - 0
        /\ work[w].status \in Statuses
    <3>1. work[w].principal = loaded[w].principal /\ work[w].status \in Statuses
      BY <2>1 DEF CreditInv, SessionCredit, LoadedSteps
    <3>2. loaded[w].principal \in Nat
      BY DEF TypeInv, TypeOK, Accounts
    <3>. QED
      BY <3>1, <3>2
  <2>3. books'.principal = books.principal + 0 /\ 0 \in Nat
    BY <1>0, <2>1
  <2>. HIDE DEF Merge
  <2>4. NeverOverCredited' /\ Registered'
    BY <2>1, <2>2, <2>3, MergeCredit DEF LoadedSteps
  <2>5. ASSUME NEW v \in Workers
        PROVE  SessionCredit(v)'
    <3>1. CASE v = w
      BY <2>1, <3>1, EndOthers DEF SessionCredit, LoadedSteps
    <3>2. CASE v # w
      BY <1>0, <2>1, <2>4, <3>2, EndOthers, IdleCredit DEF CreditInv
    <3>. QED
      BY <3>1, <3>2
  <2>. QED
    BY <2>4, <2>5 DEF CreditInv
<1>9. ASSUME NEW w \in Workers, Abandon(w)
      PROVE  CreditInv'
  <2>1. End(w) /\ UNCHANGED dbVars
    BY <1>9 DEF Abandon
  <2>2. ASSUME NEW v \in Workers
        PROVE  SessionCredit(v)'
    <3>1. CASE v = w
      BY <2>1, <3>1, EndOthers DEF SessionCredit, LoadedSteps
    <3>2. CASE v # w
      BY <1>0, <2>1, <3>2, EndOthers, IdleCredit DEF CreditInv, dbVars, Registered
    <3>. QED
      BY <3>1, <3>2
  <2>. QED
    BY <2>1, <2>2 DEF CreditInv, NeverOverCredited, Registered, dbVars
<1>. QED
  BY <1>1, <1>2, <1>3, <1>4, <1>5, <1>6, <1>7, <1>8, <1>9
  DEF Next, PaymentStep, SweepStep

LEMMA InitCreditInv == Init => CreditInv
  BY DEF Init, CreditInv, NeverOverCredited, SessionCredit, Registered,
         NoAccount, LoadedSteps

LEMMA TypeInvHolds == Spec => []TypeInv
  BY InitTypeInv, NextTypeInv, PTL DEF Spec

(* The principal never falls by more than the committed records account    *)
(* for, for any number of overlapping payments and sweeps of apply_payment *)
(* and run_delinquency_sweep: updates may be lost, but only in the         *)
(* lender's favour.                                                        *)
THEOREM CreditIsBacked == Spec => []NeverOverCredited
<1>1. Spec => []CreditInv
  BY InitCreditInv, NextCreditInv, TypeInvHolds, PTL DEF Spec
<1>2. CreditInv => NeverOverCredited
  BY DEF CreditInv
<1>. QED
  BY <1>1, <1>2, PTL

-----------------------------------------------------------------------------
(* The schedule                                                            *)

\* What a session read of the schedule, or will write about it, stays backed
\* by committed marks, but for the installment it is about to mark.
SessionBacked(w) ==
    /\ pc[w] \in LoadedSteps =>
        /\ 1 .. loaded[w].paid \subseteq marked
        /\ 1 .. loaded[w].due - 1 \subseteq marked
        /\ 1 .. work[w].due - 1 \subseteq marked
        /\ 1 .. pick[w] - 1 \subseteq marked
        /\ pick[w] = 0 => work[w].paid = loaded[w].paid
        /\ pick[w] # 0 => work[w].paid <= pick[w]
    /\ pc[w] \in {"idle", "fetch", "pick", "save"} => pick[w] = 0

ScheduleInv ==
    PaidInOrder /\ ProgressIsBacked /\ \A w \in Workers : SessionBacked(w)

LEMMA InitScheduleInv == Init => ScheduleInv
  BY DEF Init, ScheduleInv, PaidInOrder, ProgressIsBacked, SessionBacked,
         NoAccount, LoadedSteps

LEMMA IdleBacked ==
    ASSUME NEW v \in Workers, SessionBacked(v), marked \subseteq marked',
           pc'[v] = pc[v], loaded'[v] = loaded[v], work'[v] = work[v],
           pick'[v] = pick[v]
    PROVE  SessionBacked(v)'
  BY DEF SessionBacked

LEMMA EndBacked ==
    ASSUME TypeInv, ScheduleInv, NEW w \in Workers, End(w),
           marked \subseteq marked', NEW v \in Workers
    PROVE  SessionBacked(v)'
<1>1. CASE v = w
  BY <1>1, EndOthers DEF SessionBacked, LoadedSteps
<1>2. CASE v # w
  BY <1>2, EndOthers, IdleBacked DEF ScheduleInv
<1>. QED
  BY <1>1, <1>2

LEMMA NextScheduleInv == TypeInv /\ ScheduleInv /\ [Next]_vars => ScheduleInv'
<1>. SUFFICES ASSUME TypeInv, ScheduleInv, [Next]_vars
              PROVE  ScheduleInv'
  OBVIOUS
<1>0. account \in Accounts /\ marked \subseteq 1 .. Tenure
  BY DEF TypeInv, TypeOK
<1>1. CASE Register \/ Tick \/ UNCHANGED vars
  <2>1. UNCHANGED <<marked, workerVars>>
    BY <1>1 DEF Register, Tick, vars, dbVars
  <2>2. account' = account \/ (account'.paid = 0 /\ account'.due = 1)
    BY <1>1 DEF Register, Tick, vars, dbVars, NoAccount
  <2>3. ASSUME NEW v \in Workers
        PROVE  SessionBacked(v)'
    BY <2>1, IdleBacked DEF workerVars, ScheduleInv
  <2>. QED
    BY <2>1, <2>2, <2>3 DEF ScheduleInv, PaidInOrder, ProgressIsBacked
<1>2. ASSUME NEW w \in Workers,
             (\E p \in Payments : Receive(w, p)) \/ SweepRead(w) \/ Fetch(w)
      PROVE  ScheduleInv'
  <2>1. UNCHANGED <<dbVars, pick>>
    BY <1>2 DEF Receive, SweepRead, Fetch
  <2>2. CASE \E p \in Payments : Receive(w, p)
    <3>1. pc[w] = "idle" /\ pc'[w] = "fetch" /\ UNCHANGED <<loaded, work>>
          /\ \A v \in Workers : v # w => pc'[v] = pc[v]
      BY <2>2 DEF Receive, TypeInv, TypeOK
    <3>2. ASSUME NEW v \in Workers
          PROVE  SessionBacked(v)'
      <4>1. CASE v = w
        BY <2>1, <3>1, <4>1 DEF ScheduleInv, SessionBacked, LoadedSteps
      <4>2. CASE v # w
        BY <2>1, <3>1, <4>2, IdleBacked DEF ScheduleInv, dbVars
      <4>. QED
        BY <4>1, <4>2
    <3>. QED
      BY <2>1, <3>2 DEF ScheduleInv, PaidInOrder, ProgressIsBacked, dbVars
  <2>3. CASE SweepRead(w) \/ Fetch(w)
    <3>1. /\ pc[w] \in {"idle", "fetch"} /\ pc'[w] \in LoadedSteps
          /\ loaded'[w] = account
          /\ \A v \in Workers : v # w => /\ pc'[v] = pc[v]
                                        /\ loaded'[v] = loaded[v]
                                        /\ work'[v] = work[v]
      BY <2>3 DEF SweepRead, Fetch, TypeInv, TypeOK, LoadedSteps
    <3>2. work'[w].paid = account.paid /\ work'[w].due = account.due
      <4>1. CASE SweepRead(w)
        <5>1. work'[w] = Swept(account) /\ account.due <= Tenure /\ today \in Nat
          BY <4>1 DEF SweepRead, TypeInv, TypeOK
        <5>. QED
          BY <1>0, <5>1, SweptType
      <4>2. CASE Fetch(w)
        BY <1>0, <4>2 DEF Fetch, TypeInv, TypeOK, Accounts
      <4>. QED
        BY <2>3, <4>1, <4>2
    <3>3. pick[w] = 0
      BY <3>1 DEF ScheduleInv, SessionBacked
    <3>4. ASSUME NEW v \in Workers
          PROVE  SessionBacked(v)'
      <4>1. CASE v = w
        BY <2>1, <3>1, <3>2, <3>3, <4>1
        DEF ScheduleInv, ProgressIsBacked, SessionBacked, dbVars
      <4>2. CASE v # w
        BY <2>1, <3>1, <4>2, IdleBacked DEF ScheduleInv, dbVars
      <4>. QED
        BY <4>1, <4>2
    <3>. QED
      BY <2>1, <3>4 DEF ScheduleInv, PaidInOrder, ProgressIsBacked, dbVars
  <2>. QED
    BY <1>2, <2>2, <2>3
<1>3. ASSUME NEW w \in Workers, Pick(w)
      PROVE  ScheduleInv'
  <2>1. /\ pc[w] = "pick" /\ UNCHANGED <<dbVars, loaded>>
        /\ work[w] \in Accounts /\ loaded[w] \in Accounts
    BY <1>3 DEF Pick, TypeInv, TypeOK
  <2>2. PICK i \in 1 .. Tenure + 1 :
          /\ FirstUnpaid(i)
          /\ IF i <= Tenure /\ AmountOf[pay[w]] >= TotalDue[i]
               THEN /\ pick' = [pick EXCEPT ![w] = i]
                    /\ work' = [work EXCEPT ![w].paid = @ + 1]
                    /\ pc' = [pc EXCEPT ![w] = "advance"]
               ELSE /\ pc' = [pc EXCEPT ![w] = "flush"]
                    /\ UNCHANGED <<pick, work>>
    BY <1>3 DEF Pick
  <2>3. /\ pick[w] = 0 /\ work[w].paid = loaded[w].paid
        /\ 1 .. loaded[w].paid \subseteq marked
        /\ 1 .. loaded[w].due - 1 \subseteq marked
        /\ 1 .. work[w].due - 1 \subseteq marked
    BY <2>1 DEF ScheduleInv, SessionBacked, LoadedSteps
  <2>4. ASSUME NEW v \in Workers, v # w
        PROVE  SessionBacked(v)'
    <3>1. pc'[v] = pc[v] /\ work'[v] = work[v] /\ pick'[v] = pick[v]
      BY <2>2, <2>4 DEF TypeInv, TypeOK
    <3>. QED
      BY <2>1, <3>1, IdleBacked DEF ScheduleInv, dbVars
  <2>5. SessionBacked(w)'
    <3>1. CASE i <= Tenure /\ AmountOf[pay[w]] >= TotalDue[i]
      <4>1. /\ pick'[w] = i /\ pc'[w] = "advance"
            /\ work'[w].paid = work[w].paid + 1 /\ work'[w].due = work[w].due
        BY <2>1, <2>2, <3>1 DEF TypeInv, TypeOK, Accounts
      <4>2. loaded[w].paid \in Nat /\ i \in Nat
        BY <2>1, LoanAssumption DEF Accounts
      <4>3. i > loaded[w].paid
        BY <2>2, <2>3, <4>2, LoanAssumption DEF FirstUnpaid
      <4>4. work'[w].paid <= i /\ i # 0
        BY <2>3, <4>1, <4>2, <4>3
      <4>5. 1 .. i - 1 \subseteq marked
        BY <2>2 DEF FirstUnpaid
      <4>. QED
        BY <2>1, <2>3, <4>1, <4>4, <4>5 DEF SessionBacked, LoadedSteps, dbVars
    <3>2. CASE ~(i <= Tenure /\ AmountOf[pay[w]] >= TotalDue[i])
      <4>1. pc'[w] = "flush" /\ UNCHANGED <<pick, work>>
        BY <2>2, <3>2 DEF TypeInv, TypeOK
      <4>. QED
        BY <2>1, <2>3, <4>1 DEF SessionBacked, LoadedSteps, dbVars
    <3>. QED
      BY <3>1, <3>2
  <2>. QED
    BY <2>1, <2>4, <2>5 DEF ScheduleInv, PaidInOrder, ProgressIsBacked, dbVars
<1>4. ASSUME NEW w \in Workers, Advance(w)
      PROVE  ScheduleInv'
  <2>1. /\ pc[w] = "advance" /\ pc'[w] = "flush"
        /\ UNCHANGED <<dbVars, loaded, pick>>
        /\ \A v \in Workers : v # w => pc'[v] = pc[v] /\ work'[v] = work[v]
    BY <1>4 DEF Advance, TypeInv, TypeOK
  <2>2. PICK i \in 1 .. Tenure + 1 :
          FirstUnpaid(i) /\ work' = [work EXCEPT ![w].due = i]
    BY <1>4 DEF Advance
  <2>3. work'[w].due = i /\ work'[w].paid = work[w].paid
    BY <2>2 DEF TypeInv, TypeOK, Accounts
  <2>4. 1 .. i - 1 \subseteq marked
    BY <2>2 DEF FirstUnpaid
  <2>5. ASSUME NEW v \in Workers
        PROVE  SessionBacked(v)'
    <3>1. CASE v = w
      BY <2>1, <2>3, <2>4, <3>1 DEF ScheduleInv, SessionBacked, LoadedSteps, dbVars
    <3>2. CASE v # w
      BY <2>1, <3>2, IdleBacked DEF ScheduleInv, dbVars
    <3>. QED
      BY <3>1, <3>2
  <2>. QED
    BY <2>1, <2>5 DEF ScheduleInv, PaidInOrder, ProgressIsBacked, dbVars
<1>5. ASSUME NEW w \in Workers, Flush(w)
      PROVE  ScheduleInv'
  <2>1. /\ pc[w] = "flush" /\ work[w] \in Accounts /\ loaded[w] \in Accounts
        /\ account' = Merge(account, loaded[w], Settle(work[w])) /\ End(w)
        /\ marked' = marked \cup ({pick[w]} \ {0}) /\ pick[w] \in 0 .. Tenure
    BY <1>5 DEF Flush, TypeInv, TypeOK
  <2>2. /\ Settle(work[w]) \in Accounts
        /\ Settle(work[w]).paid = work[w].paid
        /\ Settle(work[w]).due = work[w].due
    BY <2>1, SettleType, SettleColumns
  <2>. HIDE DEF Settle, Merge
  <2>3. /\ account'.paid = account.paid \/ account'.paid = work[w].paid
        /\ account'.due = account.due \/ account'.due = work[w].due
    BY <1>0, <2>1, <2>2, MergeColumns
  <2>4. /\ 1 .. loaded[w].paid \subseteq marked
        /\ 1 .. work[w].due - 1 \subseteq marked
        /\ 1 .. pick[w] - 1 \subseteq marked
        /\ pick[w] = 0 => work[w].paid = loaded[w].paid
        /\ pick[w] # 0 => work[w].paid <= pick[w]
    BY <2>1 DEF ScheduleInv, SessionBacked, LoadedSteps
  <2>5. marked \subseteq marked'
    BY <2>1
  <2>6. pick[w] # 0 => 1 .. pick[w] \subseteq marked'
    BY <2>1, <2>4, LoanAssumption
  <2>7. PaidInOrder'
    BY <2>1, <2>5, <2>6 DEF ScheduleInv, PaidInOrder
  <2>8. 1 .. work[w].paid \subseteq marked'
    <3>1. work[w].paid \in Nat /\ pick[w] \in Nat
      BY <2>1, LoanAssumption DEF Accounts
    <3>. QED
      BY <2>4, <2>5, <2>6, <3>1
  <2>9. ProgressIsBacked'
    BY <2>3, <2>4, <2>5, <2>8 DEF ScheduleInv, ProgressIsBacked
  <2>. QED
    BY <2>1, <2>5, <2>7, <2>9, EndBacked DEF ScheduleInv
<1>6. ASSUME NEW w \in Workers, SweepSave(w)
      PROVE  ScheduleInv'
  <2>1. /\ pc[w] = "save" /\ work[w] \in Accounts /\ loaded[w] \in Accounts
        /\ account' = Merge(account, loaded[w], work[w]) /\ End(w)
        /\ marked' = marked
    BY <1>6 DEF SweepSave, TypeInv, TypeOK
  <2>. HIDE DEF Merge
  <2>2. /\ account'.paid = account.paid \/ account'.paid = work[w].paid
        /\ account'.due = account.due \/ account'.due = work[w].due
    BY <1>0, <2>1, MergeColumns
  <2>3. /\ 1 .. work[w].paid \subseteq marked
        /\ 1 .. work[w].due - 1 \subseteq marked
    BY <2>1 DEF ScheduleInv, SessionBacked, LoadedSteps
  <2>. QED
    BY <2>1, <2>2, <2>3, EndBacked DEF ScheduleInv, PaidInOrder, ProgressIsBacked
<1>7. ASSUME NEW w \in Workers, Abandon(w)
      PROVE  ScheduleInv'
  <2>1. End(w) /\ UNCHANGED dbVars
    BY <1>7 DEF Abandon
  <2>. QED
    BY <2>1, EndBacked DEF ScheduleInv, PaidInOrder, ProgressIsBacked, dbVars
<1>. QED
  BY <1>1, <1>2, <1>3, <1>4, <1>5, <1>6, <1>7 DEF Next, PaymentStep, SweepStep

LEMMA ScheduleInvHolds == Spec => []ScheduleInv
  BY InitScheduleInv, NextScheduleInv, TypeInvHolds, PTL DEF Spec

(* The schedule is always paid from the front, however many payments mark  *)
(* installments at once (apply_payment step 7).                            *)
THEOREM SchedulePaidInOrder == Spec => []PaidInOrder
<1>1. ScheduleInv => PaidInOrder
  BY DEF ScheduleInv
<1>. QED
  BY <1>1, ScheduleInvHolds, PTL

(* installments_paid and next_due_date never run ahead of the schedule,    *)
(* although sessions overwrite them from stale rows.                       *)
THEOREM ProgressNeverAhead == Spec => []ProgressIsBacked
<1>1. ScheduleInv => ProgressIsBacked
  BY DEF ScheduleInv
<1>. QED
  BY <1>1, ScheduleInvHolds, PTL

-----------------------------------------------------------------------------
(* Penalties                                                               *)

PastGrace == today > DueDay[1] + Grace

\* No copy of the account holds a penalty before the grace period is over.
SessionGrace(w) ==
    /\ loaded[w].penalty > 0 => PastGrace
    /\ work[w].penalty > 0 => PastGrace

PenaltyInv ==
    /\ account.penalty > 0 => PastGrace
    /\ books.penalty > 0 => PastGrace
    /\ \A w \in Workers : SessionGrace(w)

LEMMA InitPenaltyInv == Init => PenaltyInv
  BY DEF Init, PenaltyInv, SessionGrace, NoAccount, NoBooks

LEMMA IdleGrace ==
    ASSUME NEW v \in Workers, SessionGrace(v), today' = today,
           loaded'[v] = loaded[v], work'[v] = work[v]
    PROVE  SessionGrace(v)'
  BY DEF SessionGrace, PastGrace

LEMMA EndGrace ==
    ASSUME TypeInv, PenaltyInv, NEW w \in Workers, End(w), today' = today,
           NEW v \in Workers
    PROVE  SessionGrace(v)'
<1>1. CASE v = w
  BY <1>1, EndOthers DEF SessionGrace, NoAccount
<1>2. CASE v # w
  BY <1>2, EndOthers, IdleGrace DEF PenaltyInv
<1>. QED
  BY <1>1, <1>2

LEMMA NextPenaltyInv == TypeInv /\ PenaltyInv /\ [Next]_vars => PenaltyInv'
<1>. SUFFICES ASSUME TypeInv, PenaltyInv, [Next]_vars
              PROVE  PenaltyInv'
  OBVIOUS
<1>0. /\ account \in Accounts /\ books.penalty \in Nat /\ today \in Nat
      /\ DueDay[1] \in Nat
  BY ScheduleAssumption, LoanAssumption DEF TypeInv, TypeOK, Books
<1>1. CASE Register \/ Tick \/ UNCHANGED vars
  <2>1. UNCHANGED <<books, workerVars>> /\ (today' = today \/ today' = today + 1)
    BY <1>1 DEF Register, Tick, vars, dbVars
  <2>2. account' = account \/ account'.penalty = 0
    BY <1>1 DEF Register, Tick, vars, dbVars, NoAccount
  <2>3. PastGrace => PastGrace'
    BY <1>0, <2>1, ThresholdsAssumption DEF PastGrace
  <2>. QED
    BY <2>1, <2>2, <2>3 DEF PenaltyInv, SessionGrace, workerVars
<1>2. ASSUME NEW w \in Workers,
             \/ \E p \in Payments : Receive(w, p)
             \/ Pick(w) \/ Advance(w)
      PROVE  PenaltyInv'
  <2>1. UNCHANGED <<dbVars, today, loaded>>
    BY <1>2 DEF Receive, Pick, Advance
  <2>2. ASSUME NEW v \in Workers
        PROVE  work'[v].penalty = work[v].penalty
    BY <1>2 DEF Receive, Pick, Advance, TypeInv, TypeOK, Accounts
  <2>. QED
    BY <2>1, <2>2 DEF PenaltyInv, SessionGrace, PastGrace, dbVars
<1>3. ASSUME NEW w \in Workers, SweepRead(w) \/ Fetch(w)
      PROVE  PenaltyInv'
  <2>1. /\ UNCHANGED <<dbVars, today>> /\ loaded'[w] = account
        /\ \A v \in Workers : v # w => /\ loaded'[v] = loaded[v]
                                      /\ work'[v] = work[v]
    BY <1>3 DEF SweepRead, Fetch, TypeInv, TypeOK
  <2>2. work'[w].penalty > 0 => PastGrace
    <3>1. CASE SweepRead(w)
      <4>1. work'[w] = Swept(account) /\ account.due <= Tenure
        BY <3>1 DEF SweepRead, TypeInv, TypeOK
      <4>2. account.due \in 1 .. Tenure
        BY <1>0, <4>1, LoanAssumption DEF Accounts
      <4>3. DueDay[1] <= DueDay[account.due] /\ DueDay[account.due] \in Nat
        BY <4>2, ScheduleAssumption
      <4>4. work'[w].penalty > 0 =>
              account.penalty > 0 \/ today > DueDay[account.due] + Grace
        BY <1>0, <4>1, SweptType
      <4>. QED
        BY <1>0, <4>3, <4>4, ThresholdsAssumption DEF PenaltyInv, PastGrace
    <3>2. CASE Fetch(w)
      <4>. DEFINE t == Allocate(AmountOf[pay[w]], account.penalty,
                                account.interest, account.principal)
      <4>1. pay[w] \in Payments /\ AmountOf[pay[w]] \in Nat
        BY <3>2, PaymentsAssumption
        DEF Fetch, TypeInv, HasPayment, PaymentSteps
      <4>2. t.penalty \in Nat
        BY <1>0, <4>1, AllocatedType DEF Books
      <4>3. work'[w].penalty = account.penalty - t.penalty
        BY <1>0, <3>2 DEF Fetch, TypeInv, TypeOK, Accounts
      <4>4. account.penalty \in Nat
        BY <1>0 DEF Accounts
      <4>. HIDE DEF t
      <4>. QED
        BY <4>2, <4>3, <4>4 DEF PenaltyInv
    <3>. QED
      BY <1>3, <3>1, <3>2
  <2>3. ASSUME NEW v \in Workers
        PROVE  SessionGrace(v)'
    <3>1. CASE v = w
      BY <2>1, <2>2, <3>1 DEF PenaltyInv, SessionGrace, PastGrace
    <3>2. CASE v # w
      BY <2>1, <3>2, IdleGrace DEF PenaltyInv
    <3>. QED
      BY <3>1, <3>2
  <2>. QED
    BY <2>1, <2>3 DEF PenaltyInv, PastGrace, dbVars
<1>4. ASSUME NEW w \in Workers, Flush(w)
      PROVE  PenaltyInv'
  <2>1. /\ work[w] \in Accounts /\ loaded[w] \in Accounts
        /\ account' = Merge(account, loaded[w], Settle(work[w])) /\ End(w)
        /\ today' = today
        /\ pay[w] \in Payments
    BY <1>4 DEF Flush, TypeInv, TypeOK, HasPayment, PaymentSteps
  <2>2. /\ Settle(work[w]) \in Accounts
        /\ Settle(work[w]).penalty = work[w].penalty
    BY <2>1, SettleType, SettleColumns
  <2>. HIDE DEF Settle, Merge
  <2>3. account'.penalty = account.penalty \/ account'.penalty = work[w].penalty
    BY <1>0, <2>1, <2>2, MergeColumns
  <2>4. books'.penalty = books.penalty + Portions(w).penalty
        /\ Portions(w).penalty \in Nat
    BY <1>4, FlushBooks DEF Books
  <2>5. Portions(w).penalty <= loaded[w].penalty
    <3>1. AmountOf[pay[w]] \in Nat
      BY <2>1, PaymentsAssumption
    <3>. QED
      BY <2>1, <3>1, AllocatedType DEF Portions
  <2>. HIDE DEF Portions
  <2>6. loaded[w].penalty \in Nat
    BY <2>1 DEF Accounts
  <2>7. books'.penalty > 0 => PastGrace
    BY <1>0, <2>4, <2>5, <2>6 DEF PenaltyInv, SessionGrace
  <2>8. account'.penalty > 0 => PastGrace
    BY <2>3 DEF PenaltyInv, SessionGrace
  <2>. QED
    BY <2>1, <2>7, <2>8, EndGrace DEF PenaltyInv, PastGrace
<1>5. ASSUME NEW w \in Workers, SweepSave(w)
      PROVE  PenaltyInv'
  <2>1. /\ work[w] \in Accounts /\ loaded[w] \in Accounts
        /\ account' = Merge(account, loaded[w], work[w]) /\ End(w)
        /\ UNCHANGED <<books, today>>
    BY <1>5 DEF SweepSave, TypeInv, TypeOK
  <2>. HIDE DEF Merge
  <2>2. account'.penalty = account.penalty \/ account'.penalty = work[w].penalty
    BY <1>0, <2>1, MergeColumns
  <2>. QED
    BY <2>1, <2>2, EndGrace DEF PenaltyInv, SessionGrace, PastGrace
<1>6. ASSUME NEW w \in Workers, Abandon(w)
      PROVE  PenaltyInv'
  <2>1. End(w) /\ UNCHANGED <<dbVars, today>>
    BY <1>6 DEF Abandon
  <2>. QED
    BY <2>1, EndGrace DEF PenaltyInv, PastGrace, dbVars
<1>. QED
  BY <1>1, <1>2, <1>3, <1>4, <1>5, <1>6 DEF Next, PaymentStep, SweepStep

(* No penalty is owed or collected before the first installment is more    *)
(* than the grace period late, whatever stale rows sweeps and payments     *)
(* write back.                                                             *)
THEOREM GraceIsRespected == Spec => []NoPenaltyInGrace
<1>1. TypeInv /\ PenaltyInv => NoPenaltyInGrace
  <2>. SUFFICES ASSUME TypeInv, PenaltyInv, account.penalty + books.penalty > 0
                PROVE  PastGrace
    BY DEF NoPenaltyInGrace, PastGrace
  <2>1. account.penalty \in Nat /\ books.penalty \in Nat
    BY DEF TypeInv, TypeOK, Accounts, Books
  <2>. QED
    BY <2>1 DEF PenaltyInv
<1>2. Spec => []PenaltyInv
  BY InitPenaltyInv, NextPenaltyInv, TypeInvHolds, PTL DEF Spec
<1>. QED
  BY <1>1, <1>2, TypeInvHolds, PTL

-----------------------------------------------------------------------------
(* The books                                                               *)

\* What a flush books is the whole payment.
LEMMA FlushBooksAll ==
    ASSUME TypeInv, NEW w \in Workers, Flush(w)
    PROVE  /\ pay[w] \in Payments /\ pay[w] \notin refs
           /\ refs' = refs \cup {pay[w]}
           /\ books'.penalty + books'.interest + books'.principal + books'.over
                = AmountOf[pay[w]]
                  + (books.penalty + books.interest + books.principal + books.over)
<1>1. pay[w] \in Payments /\ pay[w] \notin refs /\ refs' = refs \cup {pay[w]}
  BY DEF Flush, TypeInv, HasPayment, PaymentSteps
<1>2. Portions(w) \in Books /\ books \in Books
  BY <1>1, PortionsType DEF TypeInv, TypeOK
<1>3. books' = [c \in DOMAIN books |-> books[c] + Portions(w)[c]]
  BY DEF Flush
<1>4. AmountOf[pay[w]] \in Nat
  BY <1>1, PaymentsAssumption
<1>5. Portions(w).penalty + Portions(w).interest + Portions(w).principal
        + Portions(w).over = AmountOf[pay[w]]
  <2>1. /\ loaded[w].penalty \in Nat /\ loaded[w].interest \in Nat
        /\ loaded[w].principal \in Nat
    BY DEF TypeInv, TypeOK, Accounts
  <2>. QED
    BY <1>4, <2>1 DEF Portions, Allocate, Least
<1>. DEFINE t == Portions(w)
<1>6. /\ books'.penalty = books.penalty + t.penalty
      /\ books'.interest = books.interest + t.interest
      /\ books'.principal = books.principal + t.principal
      /\ books'.over = books.over + t.over
      /\ t.penalty \in Nat /\ t.interest \in Nat /\ t.principal \in Nat
      /\ t.over \in Nat
      /\ books.penalty \in Nat /\ books.interest \in Nat
      /\ books.principal \in Nat /\ books.over \in Nat
  <2>. HIDE DEF Portions
  <2>. QED
    BY <1>2, <1>3 DEF Books
<1>. HIDE DEF t
<1>7. t.penalty + t.interest + t.principal + t.over = AmountOf[pay[w]]
  BY <1>5 DEF t
<1>. QED
  BY <1>1, <1>4, <1>6, <1>7

BookInv ==
    /\ books.penalty + books.interest + books.principal + books.over
         = SumOver(AmountOf, refs)
    /\ IsFiniteSet(refs)

LEMMA InitBookInv == Init => BookInv
<1>. SUFFICES ASSUME Init PROVE BookInv
  OBVIOUS
<1>1. SumOver(AmountOf, refs) = 0 /\ IsFiniteSet(refs)
  BY SumOverEmpty, FS_EmptySet DEF Init
<1>2. books.penalty + books.interest + books.principal + books.over = 0
  BY DEF Init, NoBooks
<1>. QED
  BY <1>1, <1>2 DEF BookInv

LEMMA NextBookInv == TypeInv /\ BookInv /\ [Next]_vars => BookInv'
<1>. SUFFICES ASSUME TypeInv, BookInv, [Next]_vars
              PROVE  BookInv'
  OBVIOUS
<1>1. CASE UNCHANGED <<refs, books>>
  BY <1>1 DEF BookInv
<1>2. ASSUME NEW w \in Workers, Flush(w)
      PROVE  BookInv'
  <2>1. /\ pay[w] \in Payments /\ pay[w] \notin refs
        /\ refs' = refs \cup {pay[w]}
        /\ books'.penalty + books'.interest + books'.principal + books'.over
             = AmountOf[pay[w]]
               + (books.penalty + books.interest + books.principal + books.over)
    BY <1>2, FlushBooksAll
  <2>2. IsFiniteSet(refs) /\ refs \subseteq Payments
    BY DEF BookInv, TypeInv, TypeOK
  <2>3. \A p \in refs \cup {pay[w]} : AmountOf[p] \in Nat
    BY <2>1, <2>2, PaymentsAssumption
  <2>4. SumOver(AmountOf, refs') = AmountOf[pay[w]] + SumOver(AmountOf, refs)
    BY <2>1, <2>2, <2>3, SumOverAdd
  <2>5. IsFiniteSet(refs')
    BY <2>1, <2>2, FS_AddElement
  <2>6. books'.penalty + books'.interest + books'.principal + books'.over
          = SumOver(AmountOf, refs')
    BY <2>1, <2>4 DEF BookInv
  <2>. QED
    BY <2>5, <2>6 DEF BookInv
<1>3. ASSUME NEW w \in Workers,
             \/ \E p \in Payments : Receive(w, p)
             \/ Fetch(w) \/ Pick(w) \/ Advance(w) \/ SweepRead(w)
             \/ SweepSave(w) \/ Abandon(w)
      PROVE  BookInv'
  BY <1>1, <1>3 DEF Receive, Fetch, Pick, Advance, SweepRead, SweepSave,
                    Abandon, dbVars
<1>4. CASE Register \/ Tick \/ UNCHANGED vars
  BY <1>1, <1>4 DEF Register, Tick, vars, dbVars
<1>. QED
  BY <1>2, <1>3, <1>4 DEF Next, PaymentStep, SweepStep

(* The records hold every payment once and in full, however many           *)
(* deliveries of its webhook pass the duplicate query together: the unique *)
(* reference lets one of them commit.                                      *)
THEOREM PaymentsBookedOnce == Spec => []BookedOnce
<1>1. Spec => []BookInv
  BY InitBookInv, NextBookInv, TypeInvHolds, PTL DEF Spec
<1>2. BookInv => BookedOnce
  BY DEF BookInv, BookedOnce, SumOver
<1>. QED
  BY <1>1, <1>2, PTL

-----------------------------------------------------------------------------
(* Sessions one at a time                                                  *)

\* The history only watches, so all that is proved of Spec is true here too.
LEMMA SerialIsSpec == SpecSerial => Spec
<1>1. InitSerial => Init
  BY DEF InitSerial
<1>2. [NextSerial]_<<vars, overlapped>> => [Next]_vars
  BY DEF NextSerial
<1>. QED
  BY <1>1, <1>2, PTL DEF SpecSerial, Spec

Alone == \A v, w \in Workers : pc[v] # "idle" /\ pc[w] # "idle" => v = w

\* What the row promises, that no interest is ever owed on it, and that
\* nothing is booked before it is there.
SerialAccount ==
    /\ BalancesMatchLedger /\ SettledOwesNothing /\ StatusMatchesDays
    /\ account.interest = 0
    /\ ~Registered => books.principal = 0

\* The one session under way read the row that is still there: what it will
\* write takes from the principal what its record states, and clears the
\* penalties first.
SerialSession(w) ==
    pc[w] \in LoadedSteps =>
        /\ Registered /\ account.principal > 0
        /\ loaded[w] = account
        /\ work[w].interest = 0
        /\ pc[w] = "save" =>
             /\ work[w].principal = account.principal
             /\ work[w].status = Classify(work[w].late, work[w].principal = 0)
        /\ pc[w] # "save" =>
             /\ work[w].late = account.late
             /\ work[w].principal = account.principal - Portions(w).principal
             /\ work[w].principal = 0 => work[w].penalty = 0

SerialInv ==
    ~overlapped => Alone /\ SerialAccount /\ \A w \in Workers : SerialSession(w)

LEMMA InitSerialInv == InitSerial => SerialInv
  BY DEF InitSerial, Init, SerialInv, Alone, SerialAccount, SerialSession,
         BalancesMatchLedger, SettledOwesNothing, StatusMatchesDays,
         Registered, NoAccount, NoBooks, LoadedSteps

\* Only a loan without principal is classified as settled.
LEMMA ClassifySettled ==
    ASSUME NEW d \in Nat, NEW s \in BOOLEAN
    PROVE  Classify(d, s) = "SETTLED" <=> s
  BY DEF Classify

\* A session that wrote over the row it read leaves just what it computed.
LEMMA MergeUnchanged ==
    ASSUME NEW r \in Accounts, NEW n \in Accounts
    PROVE  Merge(r, r, n) = n
<1>1. DOMAIN r = DOMAIN n
  BY DEF Accounts
<1>2. n = [c \in DOMAIN n |-> n[c]]
  BY DEF Accounts
<1>3. Merge(r, r, n) = [c \in DOMAIN r |-> n[c]]
  BY DEF Merge
<1>. QED
  BY <1>1, <1>2, <1>3

\* Settling a row whose penalties went before its principal.
LEMMA SettleSerial ==
    ASSUME NEW a \in Accounts, a.interest = 0, a.principal = 0 => a.penalty = 0
    PROVE  LET b == Settle(a)
           IN  /\ b.principal = a.principal /\ b.interest = 0
               /\ b.status = Classify(b.late, b.principal = 0)
               /\ b.status = "SETTLED" =>
                    b.principal = 0 /\ b.penalty = 0 /\ b.late = 0
<1>1. a.late \in Nat /\ a.principal \in Nat
  BY DEF Accounts
<1>2. CASE a.principal = 0
  <2>1. Settle(a) = [a EXCEPT !.status = "SETTLED", !.late = 0]
    BY <1>2 DEF Settle
  <2>2. Classify(0, TRUE) = "SETTLED"
    BY DEF Classify
  <2>. QED
    BY <1>2, <2>1, <2>2 DEF Accounts
<1>3. CASE a.principal # 0
  <2>1. Settle(a) = [a EXCEPT !.status = Classify(a.late, FALSE), !.late = @]
    BY <1>3 DEF Settle
  <2>2. Classify(a.late, FALSE) # "SETTLED"
    BY <1>1, ClassifySettled
  <2>. QED
    BY <1>3, <2>1, <2>2 DEF Accounts
<1>. QED
  BY <1>2, <1>3

\* A row swept keeps its balances but for penalties, and is classified anew.
LEMMA SweptSerial ==
    ASSUME NEW a \in Accounts, a.due <= Tenure, today \in Nat
    PROVE  /\ Swept(a).interest = a.interest
           /\ Swept(a).principal = a.principal
           /\ Swept(a).status = Classify(Swept(a).late, Swept(a).principal = 0)
<1>. DEFINE days == IF today > DueDay[a.due] THEN today - DueDay[a.due] ELSE 0
            charge == IF days > Grace THEN DailyPenalty(a.principal) ELSE 0
            s == Classify(days, a.principal = 0)
<1>1. Swept(a) = [a EXCEPT !.late = days, !.penalty = @ + charge, !.status = s]
  BY DEF Swept
<1>. HIDE DEF days, charge
<1>. QED
  BY <1>1 DEF Accounts

\* A payment takes no more interest than there is, and no principal before
\* the penalties are gone.
LEMMA AllocatedSerial ==
    ASSUME NEW a \in Accounts, NEW p \in Nat
    PROVE  LET t == Allocate(p, a.penalty, a.interest, a.principal)
           IN  /\ t \in Books /\ t.interest <= a.interest
               /\ t.principal > 0 => t.penalty = a.penalty
<1>. DEFINE t == Allocate(p, a.penalty, a.interest, a.principal)
<1>1. a.penalty \in Nat /\ a.interest \in Nat /\ a.principal \in Nat
  BY DEF Accounts
<1>2. t \in Books /\ t.interest <= a.interest
  BY <1>1, AllocationIsExact
<1>3. t.principal > 0 => t.penalty = a.penalty
  BY <1>1 DEF Allocate, Least
<1>. QED
  BY <1>2, <1>3

\* While sessions do not overlap, a step of one leaves every other idle.
LEMMA OthersIdle ==
    ASSUME TypeInv, Alone, NEW w \in Workers, NEW v \in Workers, v # w,
           \/ Alone' /\ pc'[w] # "idle"
           \/ pc[w] # "idle" /\ End(w)
    PROVE  SerialSession(v)'
<1>1. pc'[v] = "idle"
  <2>1. CASE Alone' /\ pc'[w] # "idle"
    BY <2>1 DEF Alone
  <2>2. CASE pc[w] # "idle" /\ End(w)
    BY <2>2, EndOthers DEF Alone
  <2>. QED
    BY <2>1, <2>2
<1>. QED
  BY <1>1 DEF SerialSession, LoadedSteps

\* The end of the only session leaves none under way.
LEMMA EndSerial ==
    ASSUME TypeInv, Alone, NEW w \in Workers, pc[w] # "idle", End(w)
    PROVE  \A v \in Workers : SerialSession(v)'
<1>1. ASSUME NEW v \in Workers
      PROVE  SerialSession(v)'
  <2>1. CASE v = w
    BY <2>1, EndOthers DEF SerialSession, LoadedSteps
  <2>2. CASE v # w
    BY <2>2, OthersIdle
  <2>. QED
    BY <2>1, <2>2
<1>. QED
  BY <1>1

\* The row a session ends with keeps the promises.
LEMMA WriteSerial ==
    ASSUME TypeInv, NEW n \in Accounts, account' = n, n.interest = 0,
           n.principal + books'.principal = Principal, n.status # "ABSENT",
           n.status = Classify(n.late, n.principal = 0),
           n.status = "SETTLED" => n.principal = 0 /\ n.penalty = 0 /\ n.late = 0
    PROVE  SerialAccount'
  BY DEF SerialAccount, BalancesMatchLedger, SettledOwesNothing,
         StatusMatchesDays, Registered

LEMMA NextSerialInv ==
    TypeInv /\ TypeInv' /\ SerialInv /\ [NextSerial]_<<vars, overlapped>>
        => SerialInv'
<1>. SUFFICES ASSUME TypeInv, TypeInv', SerialInv,
                     [NextSerial]_<<vars, overlapped>>, ~overlapped'
              PROVE  Alone' /\ SerialAccount' /\ \A w \in Workers : SerialSession(w)'
  BY DEF SerialInv
<1>1. CASE UNCHANGED <<vars, overlapped>>
  BY <1>1 DEF SerialInv, Alone, SerialAccount, SerialSession, Portions,
              BalancesMatchLedger, SettledOwesNothing, StatusMatchesDays,
              Registered, vars, dbVars, workerVars
<1>2. CASE NextSerial
  <2>1. /\ Next /\ Alone' /\ Alone /\ SerialAccount
        /\ \A w \in Workers : SerialSession(w)
    BY <1>2 DEF NextSerial, Busy, Alone, SerialInv
  <2>2. SUFFICES SerialAccount' /\ \A w \in Workers : SerialSession(w)'
    BY <2>1
  <2>3. /\ account \in Accounts /\ books.principal \in Nat /\ account.late \in Nat
        /\ account.principal \in Nat /\ account.penalty \in Nat
    BY DEF TypeInv, TypeOK, Books, Accounts
  <2>4. CASE Register
    <3>1. ASSUME NEW w \in Workers
          PROVE  SerialSession(w)'
      BY <2>1, <2>4 DEF Register, SerialSession, Registered, workerVars
    <3>2. account' = [NoAccount EXCEPT !.principal = Principal,
                                       !.status = "CURRENT"]
          /\ books' = books /\ books.principal = 0
      BY <2>1, <2>4 DEF Register, SerialAccount, Registered
    <3>3. /\ account'.principal = Principal /\ account'.interest = 0
          /\ account'.late = 0 /\ account'.status = "CURRENT"
      BY <3>2 DEF NoAccount
    <3>4. account'.principal # 0
      BY <3>3, LoanAssumption
    <3>5. account'.status = Classify(account'.late, account'.principal = 0)
      BY <3>3, <3>4, ThresholdsAssumption DEF Classify
    <3>6. SerialAccount'
      BY <3>2, <3>3, <3>5, LoanAssumption
      DEF SerialAccount, BalancesMatchLedger, SettledOwesNothing,
          StatusMatchesDays, Registered
    <3>. QED
      BY <3>1, <3>6
  <2>5. ASSUME UNCHANGED <<account, books>>
        PROVE  SerialAccount'
    BY <2>1, <2>5 DEF SerialAccount, BalancesMatchLedger, SettledOwesNothing,
                      StatusMatchesDays, Registered
  <2>6. CASE Tick
    <3>1. UNCHANGED <<dbVars, workerVars>>
      BY <2>6 DEF Tick
    <3>2. ASSUME NEW w \in Workers
          PROVE  SerialSession(w)'
      <4>1. SerialSession(w)
        BY <2>1
      <4>. QED
        BY <3>1, <4>1 DEF SerialSession, Portions, Registered, dbVars, workerVars
    <3>. QED
      BY <2>5, <3>1, <3>2 DEF dbVars
  <2>7. ASSUME NEW w \in Workers, NEW p \in Payments, Receive(w, p)
        PROVE  SerialAccount' /\ \A v \in Workers : SerialSession(v)'
    <3>1. pc'[w] = "fetch" /\ UNCHANGED dbVars
      BY <2>7 DEF Receive, TypeInv, TypeOK
    <3>2. ASSUME NEW v \in Workers
          PROVE  SerialSession(v)'
      <4>1. CASE v = w
        BY <3>1, <4>1 DEF SerialSession, LoadedSteps
      <4>2. CASE v # w
        BY <2>1, <3>1, <4>2, OthersIdle
      <4>. QED
        BY <4>1, <4>2
    <3>. QED
      BY <2>5, <3>1, <3>2 DEF dbVars
  <2>8. ASSUME NEW w \in Workers, Fetch(w)
        PROVE  SerialAccount' /\ \A v \in Workers : SerialSession(v)'
    <3>. DEFINE t == Allocate(AmountOf[pay[w]], account.penalty,
                              account.interest, account.principal)
                a == [account EXCEPT !.penalty = @ - t.penalty,
                                     !.interest = @ - t.interest,
                                     !.principal = @ - t.principal]
    <3>1. UNCHANGED <<dbVars, pay>> /\ account.status \notin Closed \cup {"ABSENT"}
      BY <2>8 DEF Fetch
    <3>2. /\ loaded'[w] = account /\ work'[w] = a
          /\ pc'[w] \in {"pick", "flush"}
      BY <2>8 DEF Fetch, TypeInv, TypeOK
    <3>3. /\ a.principal = account.principal - t.principal
          /\ a.interest = account.interest - t.interest
          /\ a.penalty = account.penalty - t.penalty
          /\ a.late = account.late
      BY <2>3 DEF Accounts
    <3>4. Portions(w)' = t
      BY <3>1, <3>2 DEF Portions, dbVars
    <3>5. pay[w] \in Payments /\ AmountOf[pay[w]] \in Nat
      BY <2>8, PaymentsAssumption DEF Fetch, TypeInv, HasPayment, PaymentSteps
    <3>6. /\ t \in Books /\ t.interest <= account.interest
          /\ t.principal > 0 => t.penalty = account.penalty
      BY <2>3, <3>5, AllocatedSerial
    <3>7. t.interest = 0 /\ account.interest = 0
      BY <2>1, <3>6 DEF SerialAccount, Books
    <3>8. Registered /\ account.principal > 0
      <4>1. account.status = Classify(account.late, account.principal = 0)
            /\ account.status # "SETTLED" /\ Registered
        BY <2>1, <3>1 DEF SerialAccount, StatusMatchesDays, Registered, Closed
      <4>2. account.principal # 0
        BY <2>3, <4>1, ClassifySettled
      <4>. QED
        BY <2>3, <4>1, <4>2
    <3>9. t.principal \in Nat /\ t.penalty \in Nat
      BY <3>6 DEF Books
    <3>. HIDE DEF t, a
    <3>10. a.principal = 0 => a.penalty = 0
      BY <2>3, <3>3, <3>6, <3>8, <3>9
    <3>11. ASSUME NEW v \in Workers
           PROVE  SerialSession(v)'
      <4>1. CASE v = w
        BY <3>1, <3>2, <3>3, <3>4, <3>7, <3>8, <3>10, <4>1
        DEF SerialSession, Registered, dbVars
      <4>2. CASE v # w
        BY <2>1, <3>2, <4>2, OthersIdle
      <4>. QED
        BY <4>1, <4>2
    <3>. QED
      BY <2>5, <3>1, <3>11 DEF dbVars
  <2>9. ASSUME NEW w \in Workers, Pick(w) \/ Advance(w)
        PROVE  SerialAccount' /\ \A v \in Workers : SerialSession(v)'
    <3>1. UNCHANGED <<dbVars, pay, loaded>>
      BY <2>9 DEF Pick, Advance
    <3>2. /\ pc[w] \in {"pick", "advance"} /\ pc'[w] \in {"advance", "flush"}
          /\ work'[w].principal = work[w].principal
          /\ work'[w].interest = work[w].interest
          /\ work'[w].penalty = work[w].penalty
          /\ work'[w].late = work[w].late
      BY <2>9 DEF Pick, Advance, TypeInv, TypeOK, Accounts
    <3>3. Portions(w)' = Portions(w)
      BY <3>1 DEF Portions
    <3>4. ASSUME NEW v \in Workers
          PROVE  SerialSession(v)'
      <4>1. CASE v = w
        BY <2>1, <3>1, <3>2, <3>3, <4>1
        DEF SerialSession, LoadedSteps, Registered, dbVars
      <4>2. CASE v # w
        BY <2>1, <3>2, <4>2, OthersIdle
      <4>. QED
        BY <4>1, <4>2
    <3>. QED
      BY <2>5, <3>1, <3>4 DEF dbVars
  <2>10. ASSUME NEW w \in Workers, Flush(w)
         PROVE  SerialAccount' /\ \A v \in Workers : SerialSession(v)'
    <3>1. /\ pc[w] = "flush" /\ work[w] \in Accounts /\ End(w)
          /\ account' = Merge(account, loaded[w], Settle(work[w]))
      BY <2>10 DEF Flush, TypeInv, TypeOK
    <3>2. /\ loaded[w] = account /\ work[w].interest = 0
          /\ work[w].principal = account.principal - Portions(w).principal
          /\ work[w].principal = 0 => work[w].penalty = 0
          /\ Registered
      BY <2>1, <3>1 DEF SerialSession, LoadedSteps
    <3>3. books'.principal = books.principal + Portions(w).principal
          /\ Portions(w).principal \in Nat
      BY <2>10, FlushBooks DEF Books
    <3>4. Settle(work[w]) \in Accounts
      BY <3>1, SettleType
    <3>5. account' = Settle(work[w])
      BY <2>3, <3>1, <3>2, <3>4, MergeUnchanged
    <3>6. /\ Settle(work[w]).status \in Statuses
          /\ Settle(work[w]).principal = work[w].principal
          /\ Settle(work[w]).interest = 0
          /\ Settle(work[w]).status =
               Classify(Settle(work[w]).late, Settle(work[w]).principal = 0)
          /\ Settle(work[w]).status = "SETTLED" =>
               /\ Settle(work[w]).principal = 0 /\ Settle(work[w]).penalty = 0
               /\ Settle(work[w]).late = 0
      BY <3>1, <3>2, SettleColumns, SettleSerial
    <3>7. account.principal + books.principal = Principal
      BY <2>1, <3>2 DEF SerialAccount, BalancesMatchLedger
    <3>. DEFINE k == Portions(w).principal
                n == Settle(work[w])
    <3>8. k \in Nat /\ n.principal = account.principal - k
          /\ books'.principal = books.principal + k
      BY <3>2, <3>3, <3>6
    <3>9. n.principal + books'.principal = Principal
      <4>. HIDE DEF k, n
      <4>. QED
        BY <2>3, <3>7, <3>8
    <3>10. n.status # "ABSENT"
      BY <3>6 DEF Statuses
    <3>11. SerialAccount'
      BY <3>4, <3>5, <3>6, <3>9, <3>10, WriteSerial
    <3>. QED
      BY <2>1, <3>1, <3>11, EndSerial
  <2>11. ASSUME NEW w \in Workers, SweepRead(w)
         PROVE  SerialAccount' /\ \A v \in Workers : SerialSession(v)'
    <3>1. UNCHANGED dbVars /\ account.status \notin Closed \cup {"ABSENT"}
          /\ account.due <= Tenure /\ today \in Nat
      BY <2>11 DEF SweepRead, TypeInv, TypeOK
    <3>2. /\ loaded'[w] = account /\ work'[w] = Swept(account)
          /\ pc'[w] = "save"
      BY <2>11 DEF SweepRead, TypeInv, TypeOK
    <3>3. Registered /\ account.principal > 0
      <4>1. account.status = Classify(account.late, account.principal = 0)
            /\ account.status # "SETTLED" /\ Registered
        BY <2>1, <3>1 DEF SerialAccount, StatusMatchesDays, Registered, Closed
      <4>2. account.principal # 0
        BY <2>3, <4>1, ClassifySettled
      <4>. QED
        BY <2>3, <4>1, <4>2
    <3>4. /\ Swept(account).interest = 0
          /\ Swept(account).principal = account.principal
          /\ Swept(account).status =
               Classify(Swept(account).late, Swept(account).principal = 0)
      BY <2>1, <2>3, <3>1, SweptSerial DEF SerialAccount
    <3>5. ASSUME NEW v \in Workers
          PROVE  SerialSession(v)'
      <4>1. CASE v = w
        BY <3>1, <3>2, <3>3, <3>4, <4>1 DEF SerialSession, Registered, dbVars
      <4>2. CASE v # w
        BY <2>1, <3>2, <4>2, OthersIdle
      <4>. QED
        BY <4>1, <4>2
    <3>. QED
      BY <2>5, <3>1, <3>5 DEF dbVars
  <2>12. ASSUME NEW w \in Workers, SweepSave(w)
         PROVE  SerialAccount' /\ \A v \in Workers : SerialSession(v)'
    <3>1. /\ pc[w] = "save" /\ work[w] \in Accounts /\ End(w) /\ books' = books
          /\ account' = Merge(account, loaded[w], work[w])
          /\ work[w].late \in Nat /\ work[w].principal \in Nat
      BY <2>12 DEF SweepSave, TypeInv, TypeOK, Accounts
    <3>2. /\ loaded[w] = account /\ work[w].interest = 0
          /\ work[w].principal = account.principal /\ account.principal > 0
          /\ work[w].status = Classify(work[w].late, work[w].principal = 0)
          /\ Registered
      BY <2>1, <3>1 DEF SerialSession, LoadedSteps
    <3>3. account' = work[w]
      BY <2>3, <3>1, <3>2, MergeUnchanged
    <3>4. account.principal + books.principal = Principal
      BY <2>1, <3>2 DEF SerialAccount, BalancesMatchLedger
    <3>5. work[w].status # "SETTLED" /\ work[w].status # "ABSENT"
      <4>1. work[w].principal # 0
        BY <2>3, <3>2
      <4>2. Classify(work[w].late, FALSE) # "SETTLED"
        BY <3>1, ClassifySettled
      <4>3. Classify(work[w].late, FALSE) \in Statuses
        BY <3>1, ClassifyType
      <4>. QED
        BY <3>2, <4>1, <4>2, <4>3 DEF Statuses
    <3>6. SerialAccount'
      BY <3>1, <3>2, <3>3, <3>4, <3>5, WriteSerial
    <3>. QED
      BY <2>1, <3>1, <3>6, EndSerial
  <2>13. ASSUME NEW w \in Workers, Abandon(w)
         PROVE  SerialAccount' /\ \A v \in Workers : SerialSession(v)'
    <3>1. pc[w] # "idle" /\ End(w) /\ UNCHANGED dbVars
      BY <2>13 DEF Abandon
    <3>. QED
      BY <2>1, <2>5, <3>1, EndSerial DEF dbVars
  <2>. QED
    BY <2>1, <2>4, <2>6, <2>7, <2>8, <2>9, <2>10, <2>11, <2>12, <2>13
    DEF Next, PaymentStep, SweepStep
<1>. QED
  BY <1>1, <1>2

(* As long as no two sessions overlap, the balance, the books and the      *)
(* status agree after every step of apply_payment and of the sweep, for    *)
(* every schedule and every sequence of payments, days and rollbacks.      *)
THEOREM SerialBooks == SpecSerial => []SerialBooksAgree
<1>1. SpecSerial => []TypeInv
  BY SerialIsSpec, TypeInvHolds
<1>2. SpecSerial => []SerialInv
  BY <1>1, InitSerialInv, NextSerialInv, PTL DEF SpecSerial
<1>3. SerialInv => SerialBooksAgree
  BY DEF SerialInv, SerialAccount, SerialBooksAgree
<1>. QED
  BY <1>2, <1>3, PTL

-----------------------------------------------------------------------------
(* Recursion over the naturals. That a recursive function is defined, and  *)
(* what it computes, is proved by looking at a least number for which it   *)
(* would not be so.                                                        *)

\* A set of naturals has a least member.
LEMMA SmallestNat ==
    ASSUME NEW T, T \subseteq Nat, T # {}
    PROVE  \E n \in T : \A m \in T : n <= m
<1>. DEFINE R == {ss \in Nat \X Nat : ss[1] < ss[2]}
<1>1. IsWellFoundedOn(R, Nat)
  BY NatLessThanWellFounded DEF OpToRel
<1>2. \E n \in T : \A m \in T : ~(<<m, n>> \in R)
  <2>. HIDE DEF R
  <2>. QED
    BY <1>1, WFMin
<1>3. PICK n \in T : \A m \in T : ~(<<m, n>> \in R)
  BY <1>2
<1>4. ASSUME NEW m \in T
      PROVE  n <= m
  <2>1. ~(<<m, n>> \in R) /\ m \in Nat /\ n \in Nat
    BY <1>3
  <2>. QED
    BY <2>1
<1>. QED
  BY <1>4

\* Induction, on a set of naturals.
LEMMA SetInduction ==
    ASSUME NEW S, 0 \in S, \A k \in Nat : k \in S => k + 1 \in S
    PROVE  \A k \in Nat : k \in S
<1>. DEFINE B == {k \in Nat : k \notin S}
<1>. SUFFICES ASSUME B # {} PROVE FALSE
  OBVIOUS
<1>1. PICK k \in B : \A j \in B : k <= j
  <2>. HIDE DEF B
  <2>1. B \subseteq Nat
    BY DEF B
  <2>. QED
    BY <2>1, SmallestNat
<1>2. k - 1 \in Nat /\ (k - 1) + 1 = k /\ ~(k <= k - 1)
  <2>1. k # 0
    OBVIOUS
  <2>. QED
    BY <2>1
<1>. QED
  BY <1>1, <1>2

\* f goes from start by the steps of next, up to n.
Runs(f, start, next, T, n) ==
    /\ f \in [0 .. n -> T] /\ f[0] = start
    /\ \A k \in 1 .. n : f[k] = next[k][f[k - 1]]

LEMMA RunsExist ==
    ASSUME NEW T, NEW start \in T, NEW next \in [Nat -> [T -> T]], NEW n \in Nat
    PROVE  \E f : Runs(f, start, next, T, n)
<1>. DEFINE B == {k \in Nat : ~\E f : Runs(f, start, next, T, k)}
<1>. SUFFICES ASSUME B # {} PROVE FALSE
  OBVIOUS
<1>1. PICK k \in B : \A j \in B : k <= j
  <2>. HIDE DEF B
  <2>1. B \subseteq Nat
    BY DEF B
  <2>. QED
    BY <2>1, SmallestNat
<1>2. k # 0
  <2>. DEFINE f == [i \in 0 .. 0 |-> start]
  <2>1. Runs(f, start, next, T, 0)
    BY DEF Runs
  <2>. QED
    BY <1>1, <2>1
<1>3. PICK f : Runs(f, start, next, T, k - 1)
  <2>1. k - 1 \in Nat /\ ~(k <= k - 1)
    BY <1>2
  <2>. QED
    BY <1>1, <2>1
<1>. DEFINE g == [i \in 0 .. k |-> IF i = k THEN next[k][f[k - 1]] ELSE f[i]]
<1>4. k - 1 \in 0 .. k - 1 /\ f[k - 1] \in T
  BY <1>2, <1>3 DEF Runs
<1>5. next[k][f[k - 1]] \in T
  BY <1>4
<1>6. Runs(g, start, next, T, k)
  <2>1. g \in [0 .. k -> T]
    BY <1>3, <1>5 DEF Runs
  <2>2. g[0] = start
    BY <1>2, <1>3 DEF Runs
  <2>3. ASSUME NEW i \in 1 .. k PROVE g[i] = next[i][g[i - 1]]
    <3>1. g[i - 1] = f[i - 1]
      BY <2>3
    <3>2. i # k => i \in 1 .. k - 1 /\ g[i] = f[i]
      BY <2>3
    <3>3. i = k => g[i] = next[k][f[k - 1]]
      BY <2>3
    <3>. HIDE DEF g
    <3>. QED
      BY <1>3, <3>1, <3>2, <3>3 DEF Runs
  <2>. HIDE DEF g
  <2>. QED
    BY <2>1, <2>2, <2>3 DEF Runs
<1>. QED
  BY <1>1, <1>6

LEMMA RunsAgree ==
    ASSUME NEW T, NEW start, NEW next, NEW m \in Nat, NEW n \in Nat, NEW f, NEW g,
           Runs(f, start, next, T, m), Runs(g, start, next, T, n),
           NEW k \in Nat, k <= m, k <= n
    PROVE  f[k] = g[k]
<1>. DEFINE B == {j \in Nat : j <= m /\ j <= n /\ f[j] # g[j]}
<1>. SUFFICES ASSUME B # {} PROVE FALSE
  OBVIOUS
<1>1. PICK j \in B : \A i \in B : j <= i
  <2>. HIDE DEF B
  <2>1. B \subseteq Nat
    BY DEF B
  <2>. QED
    BY <2>1, SmallestNat
<1>2. j # 0
  BY DEF Runs
<1>3. j \in 1 .. m /\ j \in 1 .. n /\ f[j - 1] = g[j - 1]
  BY <1>1, <1>2
<1>. QED
  BY <1>3 DEF Runs

\* f goes on without end.
Recurs(f, start, next, T) ==
    /\ f \in [Nat -> T] /\ f[0] = start
    /\ \A k \in Nat \ {0} : f[k] = next[k][f[k - 1]]

\* A recursion that stays in a set is defined on all naturals.
LEMMA RecursionExists ==
    ASSUME NEW T, NEW start \in T, NEW next \in [Nat -> [T -> T]]
    PROVE  \E f : Recurs(f, start, next, T)
<1>. DEFINE F(n) == CHOOSE f : Runs(f, start, next, T, n)
            h == [n \in Nat |-> F(n)[n]]
<1>1. ASSUME NEW n \in Nat PROVE Runs(F(n), start, next, T, n)
  BY RunsExist
<1>. HIDE DEF F
<1>2. h \in [Nat -> T] /\ h[0] = start
  BY <1>1 DEF Runs
<1>3. ASSUME NEW k \in Nat \ {0} PROVE h[k] = next[k][h[k - 1]]
  <2>1. h[k] = next[k][F(k)[k - 1]]
    BY <1>1 DEF Runs
  <2>2. k - 1 \in Nat /\ k - 1 <= k
    OBVIOUS
  <2>3. F(k)[k - 1] = F(k - 1)[k - 1]
    BY <1>1, <2>2, RunsAgree
  <2>. QED
    BY <2>1, <2>2, <2>3
<1>4. Recurs(h, start, next, T)
  <2>. HIDE DEF h
  <2>. QED
    BY <1>2, <1>3 DEF Recurs
<1>. QED
  BY <1>4

LEMMA PowerSteps ==
    ASSUME NEW base \in Nat \ {0}
    PROVE  /\ Power(base, 0) = 1
           /\ \A n \in Nat : /\ Power(base, n) \in Nat \ {0}
                             /\ Power(base, n + 1) = base * Power(base, n)
<1>. DEFINE IsPower(g) == g = [k \in Nat |-> IF k = 0 THEN 1 ELSE base * g[k - 1]]
            next == [n \in Nat |-> [x \in Nat |-> base * x]]
            p == CHOOSE g : IsPower(g)
<1>. HIDE DEF next
<1>1. PICK f : Recurs(f, 1, next, Nat)
  <2>1. next \in [Nat -> [Nat -> Nat]] /\ 1 \in Nat
    BY DEF next
  <2>. QED
    BY <2>1, RecursionExists
<1>2. IsPower(f)
  <2>0. f \in [Nat -> Nat]
    BY <1>1 DEF Recurs
  <2>1. ASSUME NEW k \in Nat PROVE f[k] = IF k = 0 THEN 1 ELSE base * f[k - 1]
    <3>1. CASE k = 0
      BY <1>1, <3>1 DEF Recurs
    <3>2. CASE k # 0
      <4>1. k - 1 \in Nat /\ f[k - 1] \in Nat
        BY <1>1, <3>2 DEF Recurs
      <4>2. f[k] = next[k][f[k - 1]]
        BY <1>1, <3>2 DEF Recurs
      <4>. QED
        BY <3>2, <4>1, <4>2 DEF next
    <3>. QED
      BY <3>1, <3>2
  <2>. QED
    BY <2>0, <2>1
<1>3. IsPower(p)
  BY <1>2
<1>4. \A n : Power(base, n) = p[n]
  BY DEF Power
<1>. HIDE DEF p
<1>5. p[0] = 1 /\ \A n \in Nat : p[n + 1] = base * p[n]
  <2>1. \A k \in Nat : p[k] = IF k = 0 THEN 1 ELSE base * p[k - 1]
    BY <1>3
  <2>2. ASSUME NEW n \in Nat PROVE p[n + 1] = base * p[n]
    <3>1. n + 1 \in Nat /\ n + 1 # 0 /\ (n + 1) - 1 = n
      OBVIOUS
    <3>. QED
      BY <2>1, <3>1
  <2>. QED
    BY <2>1, <2>2
<1>. DEFINE S == {k \in Nat : p[k] \in Nat \ {0}}
<1>6. \A k \in Nat : k \in S
  <2>1. 0 \in S
    BY <1>5
  <2>2. ASSUME NEW k \in Nat, k \in S PROVE k + 1 \in S
    <3>1. p[k + 1] = base * p[k]
      BY <1>5
    <3>2. \A x, y \in Nat \ {0} : x * y \in Nat \ {0}
      OBVIOUS
    <3>. QED
      BY <2>2, <3>1, <3>2
  <2>. HIDE DEF S
  <2>. QED
    BY <2>1, <2>2, SetInduction
<1>. QED
  BY <1>4, <1>5, <1>6

LEMMA PowersMultiply ==
    ASSUME NEW base \in Nat \ {0}, NEW j \in Nat, NEW n \in Nat
    PROVE  Power(base, j + n) = Power(base, j) * Power(base, n)
<1>. DEFINE S == {k \in Nat : Power(base, j + k) = Power(base, j) * Power(base, k)}
<1>1. 0 \in S
  <2>1. j + 0 = j /\ Power(base, j) \in Nat /\ Power(base, 0) = 1
    BY PowerSteps
  <2>. QED
    BY <2>1
<1>2. ASSUME NEW k \in Nat, k \in S PROVE k + 1 \in S
  <2>. DEFINE x == Power(base, j)  y == Power(base, k)  z == Power(base, j + k)
  <2>1. j + k \in Nat /\ j + (k + 1) = (j + k) + 1
    OBVIOUS
  <2>2. x \in Nat /\ y \in Nat /\ z \in Nat
    <3>. HIDE DEF S
    <3>. QED
      BY <2>1, PowerSteps
  <2>3. Power(base, j + (k + 1)) = base * z /\ Power(base, k + 1) = base * y
    BY <2>1, PowerSteps
  <2>4. z = x * y
    BY <1>2
  <2>. HIDE DEF x, y, z
  <2>5. base * z = x * (base * y)
    BY <2>2, <2>4
  <2>. QED
    BY <2>3, <2>5 DEF x
<1>. QED
  <2>. HIDE DEF S
  <2>1. n \in S
    BY <1>1, <1>2, SetInduction
  <2>. QED
    BY <2>1 DEF S

-----------------------------------------------------------------------------
(* Annuities. At the monthly rate (q - d) / d, a unit paid in each of k    *)
(* months grows to Annuity(d, q)[k] / d^(k - 1).                           *)

Annuities(g, d, q) ==
    /\ g \in [Nat -> Nat] /\ g[0] = 0
    /\ \A k \in Nat : g[k + 1] = d * g[k] + Power(q, k)

Annuity(d, q) == CHOOSE g : Annuities(g, d, q)

LEMMA AnnuityExists ==
    ASSUME NEW d \in Nat \ {0}, NEW q \in Nat \ {0}
    PROVE  Annuities(Annuity(d, q), d, q)
<1>. DEFINE next == [k \in Nat |-> [x \in Nat |-> IF k = 0 THEN 0
                                               ELSE d * x + Power(q, k - 1)]]
<1>1. ASSUME NEW k \in Nat, NEW x \in Nat PROVE next[k][x] \in Nat
  <2>1. CASE k = 0
    BY <2>1
  <2>2. CASE k # 0
    <3>1. k - 1 \in Nat
      BY <2>2
    <3>2. Power(q, k - 1) \in Nat
      BY <3>1, PowerSteps
    <3>. QED
      BY <2>2, <3>2
  <2>. QED
    BY <2>1, <2>2
<1>2. PICK f : Recurs(f, 0, next, Nat)
  <2>1. next \in [Nat -> [Nat -> Nat]]
    BY <1>1
  <2>. HIDE DEF next
  <2>. QED
    BY <2>1, RecursionExists
<1>3. f \in [Nat -> Nat] /\ f[0] = 0
  BY <1>2 DEF Recurs
<1>4. ASSUME NEW k \in Nat PROVE f[k + 1] = d * f[k] + Power(q, k)
  <2>1. k + 1 \in Nat \ {0} /\ (k + 1) - 1 = k
    OBVIOUS
  <2>2. f[k + 1] = next[k + 1][f[k]]
    <3>. HIDE DEF next
    <3>. QED
      BY <1>2, <2>1 DEF Recurs
  <2>. QED
    BY <1>3, <2>1, <2>2
<1>5. Annuities(f, d, q)
  BY <1>3, <1>4 DEF Annuities
<1>. QED
  BY <1>5 DEF Annuity

\* The annuity is the quotient of what a unit earns and the rate; it is not less
\* than a unit a month, and not more than that with the interest to the end.
LEMMA AnnuityBounds ==
    ASSUME NEW d \in Nat \ {0}, NEW m \in Nat, NEW n \in Nat
    PROVE  LET q == d + m
               g == Annuity(d, q)
           IN  /\ g[n] \in Nat /\ g[n + 1] \in Nat
               /\ g[n + 1] = d * g[n] + Power(q, n)
               /\ m * g[n] + Power(d, n) = Power(q, n)
               /\ (n + 1) * Power(d, n) <= g[n + 1]
               /\ g[n + 1] <= (n + 1) * Power(q, n)
               /\ Power(d, n) <= Power(q, n)
<1>. DEFINE q == d + m
            g == Annuity(d, q)
            S == {k \in Nat : /\ m * g[k] + Power(d, k) = Power(q, k)
                              /\ (k + 1) * Power(d, k) <= g[k + 1]
                              /\ g[k + 1] <= (k + 1) * Power(q, k)}
<1>1. q \in Nat \ {0} /\ d <= q
  OBVIOUS
<1>2. Annuities(g, d, q)
  BY <1>1, AnnuityExists
<1>. HIDE DEF g, q
<1>3. g[0] = 0 /\ \A k \in Nat : g[k] \in Nat /\ g[k + 1] = d * g[k] + Power(q, k)
  BY <1>2 DEF Annuities
<1>4. Power(d, 0) = 1 /\ Power(q, 0) = 1
  BY <1>1, PowerSteps
<1>5. 0 \in S
  <2>1. g[0 + 1] = d * g[0] + Power(q, 0)
    BY <1>3
  <2>2. g[0 + 1] = 1
    BY <1>3, <1>4, <2>1
  <2>3. m * g[0] + Power(d, 0) = Power(q, 0)
    BY <1>3, <1>4
  <2>4. (0 + 1) * Power(d, 0) <= g[0 + 1] /\ g[0 + 1] <= (0 + 1) * Power(q, 0)
    BY <1>4, <2>2
  <2>. QED
    BY <2>3, <2>4
<1>6. ASSUME NEW k \in Nat, k \in S PROVE k + 1 \in S
  <2>. DEFINE x == g[k]  y == g[k + 1]  u == Power(d, k)  v == Power(q, k)
  <2>1. /\ x \in Nat /\ y \in Nat /\ u \in Nat /\ v \in Nat
        /\ y = d * x + v
    <3>1. k + 1 \in Nat
      OBVIOUS
    <3>2. x \in Nat /\ y \in Nat /\ y = d * x + v
      BY <1>3, <3>1
    <3>3. u \in Nat /\ v \in Nat
      BY <1>1, PowerSteps
    <3>. QED
      BY <3>2, <3>3
  <2>2. Power(d, k + 1) = d * u /\ Power(q, k + 1) = q * v
    BY <1>1, PowerSteps
  <2>3. g[(k + 1) + 1] = d * y + q * v
    <3>1. k + 1 \in Nat
      OBVIOUS
    <3>. QED
      BY <1>3, <2>2, <3>1
  <2>4. m * x + u = v /\ y <= (k + 1) * v /\ (k + 1) * u <= y
    BY <1>6
  <2>. HIDE DEF x, y, u, v
  <2>5. m * y + d * u = q * v
    <3>1. m * y + d * u = d * (m * x + u) + m * v
      BY <2>1
    <3>2. q * v = d * v + m * v
      BY <2>1 DEF q
    <3>. QED
      BY <2>4, <3>1, <3>2
  <2>6. d * y + q * v <= ((k + 1) + 1) * (q * v)
    <3>1. d * y <= q * ((k + 1) * v)
      <4>1. d * y <= q * y
        BY <1>1, <2>1
      <4>2. q * y <= q * ((k + 1) * v)
        <5>. DEFINE z == (k + 1) * v
        <5>1. z \in Nat /\ y <= z
          BY <2>1, <2>4
        <5>. HIDE DEF z
        <5>2. q * y <= q * z
          BY <1>1, <2>1, <5>1
        <5>. QED
          BY <5>2 DEF z
      <4>. DEFINE a == d * y  b == q * y  c == q * ((k + 1) * v)
      <4>3. a \in Nat /\ b \in Nat /\ c \in Nat
        BY <1>1, <2>1
      <4>. HIDE DEF a, b, c
      <4>4. a <= b /\ b <= c
        BY <4>1, <4>2 DEF a, b, c
      <4>5. a <= c
        BY <4>3, <4>4
      <4>. QED
        BY <4>5 DEF a, c
    <3>2. ((k + 1) + 1) * (q * v) = q * ((k + 1) * v) + q * v
      BY <1>1, <2>1
    <3>3. q * v \in Nat /\ d * y \in Nat /\ q * ((k + 1) * v) \in Nat
      BY <1>1, <2>1
    <3>. DEFINE a == q * v  b == d * y  c == q * ((k + 1) * v)
    <3>. HIDE DEF a, b, c
    <3>4. b + a <= c + a
      BY <3>1, <3>3 DEF a, b, c
    <3>. QED
      BY <3>2, <3>4 DEF a, b, c
  <2>7. ((k + 1) + 1) * (d * u) <= d * y + q * v
    <3>1. d * ((k + 1) * u) <= d * y
      <4>. DEFINE z == (k + 1) * u
      <4>1. z \in Nat /\ z <= y
        BY <2>1, <2>4
      <4>. HIDE DEF z
      <4>2. d * z <= d * y
        BY <2>1, <4>1
      <4>. QED
        BY <4>2 DEF z
    <3>2. d * u <= q * v
      <4>. DEFINE a == m * y  b == d * u
      <4>1. a \in Nat /\ b \in Nat
        BY <2>1
      <4>. HIDE DEF a, b
      <4>2. a + b = q * v
        BY <2>5 DEF a, b
      <4>. QED
        BY <4>1, <4>2 DEF b
    <3>3. ((k + 1) + 1) * (d * u) = d * ((k + 1) * u) + d * u
      BY <2>1
    <3>. DEFINE a == d * ((k + 1) * u)  b == d * y  c == d * u  e == q * v
    <3>4. a \in Nat /\ b \in Nat /\ c \in Nat /\ e \in Nat
      BY <1>1, <2>1
    <3>. HIDE DEF a, b, c, e
    <3>5. a + c <= b + e
      BY <3>1, <3>2, <3>4 DEF a, b, c, e
    <3>. QED
      BY <3>3, <3>5 DEF a, b, c, e
  <2>. QED
    BY <2>2, <2>3, <2>5, <2>6, <2>7 DEF y
<1>7. n \in S
  <2>. HIDE DEF S
  <2>. QED
    BY <1>5, <1>6, SetInduction
<1>8. Power(d, n) \in Nat /\ Power(q, n) \in Nat
  BY <1>1, PowerSteps
<1>9. g[n] \in Nat /\ g[n + 1] \in Nat /\ g[n + 1] = d * g[n] + Power(q, n)
  <2>1. n + 1 \in Nat
    OBVIOUS
  <2>. QED
    BY <1>3, <2>1
<1>10. Power(d, n) <= Power(q, n)
  <2>1. m * g[n] + Power(d, n) = Power(q, n)
    BY <1>7
  <2>2. m * g[n] \in Nat
    BY <1>9
  <2>. QED
    BY <1>8, <2>1, <2>2
<1>. QED
  BY <1>7, <1>9, <1>10 DEF g, q

LEMMA AnnuityQuotient ==
    ASSUME NEW d \in Nat \ {0}, NEW m \in Nat, NEW n \in Nat
    PROVE  /\ Annuity(d, d + m)[n] \in Nat
           /\ m * Annuity(d, d + m)[n] + Power(d, n) = Power(d + m, n)
  BY AnnuityBounds

-----------------------------------------------------------------------------
(* The monthly installment                                                 *)

LEMMA CeilDivBounds ==
    ASSUME NEW a \in Nat, NEW b \in Nat \ {0}
    PROVE  /\ CeilDiv(a, b) \in Nat
           /\ a <= CeilDiv(a, b) * b /\ CeilDiv(a, b) * b < a + b
<1>. DEFINE c == a + b - 1
<1>1. c \in Nat
  OBVIOUS
<1>. HIDE DEF c
<1>2. c \div b \in Nat /\ (c \div b) * b <= c /\ c < (c \div b) * b + b
  BY <1>1
<1>3. (c \div b) * b \in Nat
  BY <1>2
<1>. QED
  BY <1>2, <1>3 DEF c, CeilDiv

LEMMA Cancel ==
    ASSUME NEW m \in Nat \ {0}, NEW x \in Int, NEW y \in Int
    PROVE  /\ m * x <= m * y => x <= y
           /\ m * x < m * y => x < y
<1>1. ASSUME x > y PROVE m * x > m * y
  <2>1. PICK z \in Nat \ {0} : x = y + z
    <3>1. x - y \in Nat \ {0} /\ x = y + (x - y)
      BY <1>1
    <3>. QED
      BY <3>1
  <2>2. m * x = m * y + m * z
    BY <2>1
  <2>3. m * z > 0
    BY <2>1
  <2>. QED
    BY <2>2, <2>3
<1>2. m * x \in Int /\ m * y \in Int
  OBVIOUS
<1>3. x = y => m * x = m * y
  OBVIOUS
<1>. DEFINE a == m * x  b == m * y
<1>. HIDE DEF a, b
<1>4. a \in Int /\ b \in Int /\ (x > y => a > b) /\ (x = y => a = b)
  BY <1>1, <1>2, <1>3 DEF a, b
<1>5. (a <= b => x <= y) /\ (a < b => x < y)
  BY <1>4
<1>. QED
  BY <1>5 DEF a, b

\* The installments of n months are worth the loan, and a unit less each is not.
LEMMA InstallmentFits ==
    ASSUME NEW P \in Nat, NEW rate \in [num : Nat, den : Nat \ {0}],
           NEW n \in Nat \ {0}
    PROVE  LET d == rate.den  q == rate.den + rate.num
               g == Annuity(d, q)
               M == MonthlyInstallment(P, rate, n)
           IN  /\ M \in Nat
               /\ P * Power(q, n) <= M * (d * g[n])
               /\ M * (d * g[n]) < P * Power(q, n) + d * g[n]
<1>. DEFINE d == rate.den  m == rate.num  q == rate.den + rate.num
            g == Annuity(d, q)
            M == MonthlyInstallment(P, rate, n)
            G == g[n]  u == Power(d, n)  v == Power(q, n)
<1>1. d \in Nat \ {0} /\ m \in Nat /\ q \in Nat \ {0} /\ q = d + m
  OBVIOUS
<1>2. n - 1 \in Nat /\ (n - 1) + 1 = n
  OBVIOUS
<1>. HIDE DEF d, m, q, g
<1>3. /\ G \in Nat /\ m * G + u = v
      /\ n * Power(d, n - 1) <= G /\ G <= n * Power(q, n - 1)
  <2>1. G \in Nat /\ m * G + u = v
    <3>1. n \in Nat
      OBVIOUS
    <3>2. g = Annuity(d, d + m) /\ q = d + m
      BY <1>1 DEF g
    <3>4. d \in Nat \ {0} /\ m \in Nat
      BY <1>1
    <3>5. \A k \in Nat : Annuity(d, d + m)[k] \in Nat
      BY <3>4, AnnuityQuotient
    <3>6. \A k \in Nat : m * Annuity(d, d + m)[k] + Power(d, k) = Power(d + m, k)
      BY <3>4, AnnuityQuotient
    <3>3. /\ Annuity(d, d + m)[n] \in Nat
          /\ m * Annuity(d, d + m)[n] + Power(d, n) = Power(d + m, n)
      BY <3>1, <3>5, <3>6
    <3>. QED
      BY <3>2, <3>3
  <2>. DEFINE k == n - 1
  <2>2. k \in Nat /\ k + 1 = n
    BY <1>2
  <2>. HIDE DEF k
  <2>3. (k + 1) * Power(d, k) <= g[k + 1] /\ g[k + 1] <= (k + 1) * Power(q, k)
    BY <1>1, <2>2, AnnuityBounds DEF g
  <2>. QED
    BY <2>1, <2>2, <2>3 DEF k
<1>4. /\ u \in Nat \ {0} /\ v \in Nat \ {0}
      /\ Power(d, n - 1) \in Nat \ {0} /\ u = d * Power(d, n - 1)
  BY <1>1, <1>2, PowerSteps
<1>5. G > 0
  <2>. DEFINE w == Power(d, n - 1)
  <2>. HIDE DEF w
  <2>1. w \in Nat \ {0} /\ n * w <= G
    BY <1>3, <1>4 DEF w
  <2>2. n * w > 0
    BY <2>1
  <2>. QED
    BY <1>3, <2>1, <2>2
<1>6. CASE m = 0
  <2>. DEFINE w == Power(d, n - 1)
  <2>1. M = CeilDiv(P, n)
    BY <1>6 DEF MonthlyInstallment, m
  <2>2. M \in Nat /\ P <= M * n /\ M * n < P + n
    BY <2>1, CeilDivBounds
  <2>3. q = d /\ v = u
    BY <1>1, <1>6
  <2>4. G = n * w /\ w \in Nat \ {0} /\ v = d * w
    BY <1>3, <1>4, <2>3
  <2>. HIDE DEF M, G, u, v, w
  <2>5. P * v = (d * w) * P /\ M * (d * G) = (d * w) * (M * n)
        /\ d * G = (d * w) * n
    BY <1>1, <2>2, <2>4
  <2>. DEFINE z == d * w  a == M * n
  <2>6. z \in Nat \ {0} /\ a \in Nat
    BY <1>1, <2>2, <2>4
  <2>. HIDE DEF z, a
  <2>7. z * P <= z * a
    BY <2>2, <2>6 DEF a
  <2>8. z * a < z * (P + n) /\ z * (P + n) = z * P + z * n
    BY <2>2, <2>6 DEF a
  <2>. QED
    BY <2>2, <2>5, <2>7, <2>8 DEF M, G, v, z, a, d, m, q, g
<1>7. CASE m # 0
  <2>. DEFINE a == (P * m) * v  b == d * (m * G)
  <2>1. v - u = m * G
    <3>. DEFINE w == m * G
    <3>1. w \in Nat
      BY <1>1, <1>3
    <3>. HIDE DEF w
    <3>2. w + u = v
      BY <1>3 DEF w
    <3>3. v - u = w
      BY <1>4, <3>1, <3>2
    <3>. QED
      BY <3>3 DEF w
  <2>2. M = CeilDiv(a, b)
    BY <1>7, <2>1 DEF MonthlyInstallment, d, m, q
  <2>. HIDE DEF M, G, u, v
  <2>3. a \in Nat /\ b \in Nat \ {0}
    <3>1. m * G \in Nat \ {0}
      BY <1>1, <1>3, <1>5, <1>7
    <3>2. d * (m * G) \in Nat \ {0}
      <4>. DEFINE w == m * G
      <4>. HIDE DEF w
      <4>1. w \in Nat \ {0}
        BY <3>1 DEF w
      <4>2. d * w \in Nat \ {0}
        BY <1>1, <4>1
      <4>. QED
        BY <4>2 DEF w
    <3>3. (P * m) * v \in Nat
      BY <1>1, <1>4
    <3>. QED
      BY <3>2, <3>3
  <2>4. M \in Nat /\ a <= M * b /\ M * b < a + b
    <3>. HIDE DEF a, b
    <3>. QED
      BY <2>2, <2>3, CeilDivBounds
  <2>. DEFINE x == P * v  y == M * (d * G)  z == d * G
  <2>5. x \in Nat /\ y \in Nat /\ z \in Nat
    BY <1>1, <1>3, <1>4, <2>4
  <2>6. a = m * x /\ b = m * z /\ M * b = m * y
    BY <1>1, <1>3, <1>4, <2>4
  <2>. HIDE DEF a, b, x, y, z
  <2>7. m * x <= m * y /\ m * y < m * x + m * z
    BY <2>4, <2>6
  <2>8. m * x + m * z = m * (x + z) /\ x + z \in Nat
    BY <1>1, <2>5
  <2>9. x <= y /\ y < x + z
    BY <1>1, <1>7, <2>5, <2>7, <2>8, Cancel
  <2>. QED
    BY <2>4, <2>9 DEF M, G, v, x, y, z, d, m, q, g
<1>. QED
  BY <1>6, <1>7

-----------------------------------------------------------------------------
(* Arithmetic of a schedule. D, x, y, z, c, w, a, v and G stand for powers *)
(* and annuities, so that the lemmas are about numbers only.               *)

LEMMA Monotone ==
    ASSUME NEW k \in Nat, NEW x \in Int, NEW y \in Int, x <= y
    PROVE  k * x <= k * y /\ k * x \in Int /\ k * y \in Int
<1>1. PICK z \in Nat : y = x + z
  <2>1. y - x \in Nat /\ y = x + (y - x)
    OBVIOUS
  <2>. QED
    BY <2>1
<1>2. k * y = k * x + k * z /\ k * z \in Nat /\ k * x \in Int
  BY <1>1
<1>. DEFINE a == k * x  b == k * y  c == k * z
<1>. HIDE DEF a, b, c
<1>3. b = a + c /\ c \in Nat /\ a \in Int
  BY <1>2 DEF a, b, c
<1>. QED
  BY <1>3 DEF a, b

LEMMA Positive ==
    ASSUME NEW k \in Nat, NEW x \in Int, k * x > 0
    PROVE  x > 0
<1>1. ASSUME x <= 0 PROVE FALSE
  <2>1. k * x <= k * 0
    BY <1>1, Monotone
  <2>2. k * 0 = 0
    OBVIOUS
  <2>. QED
    BY <2>1, <2>2
<1>. QED
  BY <1>1

\* A row as an installment M meets it: o is owed, with t of interest; D, y, z and c
\* are the factors of the months past and to come, and e the error so far.
Underway(d, m, M, o, t, r, D, y, z, c, a, v, G, e) ==
    /\ d \in Nat \ {0} /\ m \in Nat /\ M \in Nat /\ o \in Nat /\ t \in Nat
    /\ r \in 0 .. d - 1 /\ d * t = m * o + r
    /\ D \in Nat \ {0} /\ y \in Nat /\ z \in Nat \ {0} /\ c \in Nat
    /\ a \in Nat /\ v \in Nat \ {0} /\ G \in Nat /\ e \in Int
    /\ e = M * (d * y) - z * o /\ m * y + c = z /\ D * c = a /\ m * G + a = v
    /\ D * e >= (d - 1) * (D * y - G)

\* The installment is more than the interest.
LEMMA PaysInterest ==
    ASSUME NEW d, NEW m, NEW M, NEW o, NEW t, NEW r, NEW D, NEW y, NEW z, NEW c,
           NEW a, NEW v, NEW G, NEW e,
           Underway(d, m, M, o, t, r, D, y, z, c, a, v, G, e), v <= M * a
    PROVE  t < M
<1>0. /\ d \in Nat \ {0} /\ m \in Nat /\ M \in Nat /\ o \in Nat /\ t \in Nat
      /\ r \in 0 .. d - 1 /\ d * t = m * o + r
      /\ D \in Nat \ {0} /\ y \in Nat /\ z \in Nat \ {0} /\ c \in Nat
      /\ a \in Nat /\ v \in Nat \ {0} /\ G \in Nat /\ e \in Int
      /\ e = M * (d * y) - z * o /\ m * y + c = z /\ D * c = a /\ m * G + a = v
      /\ D * e >= (d - 1) * (D * y - G)
  BY DEF Underway
<1>. USE <1>0
<1>. DEFINE K == D * z  s == D * e  h == D * y  b == d - 1
<1>1. K \in Nat /\ s \in Int /\ h \in Nat /\ b \in Nat
  OBVIOUS
<1>2. K * (d * (M - t)) = d * (M * a) + m * s - K * r
  <2>1. d * (M - t) = d * M - m * o - r
    OBVIOUS
  <2>2. z * (d * M - m * o - r) = d * (M * c) + m * e - z * r
    <3>1. z * (d * M - m * o - r) = z * (d * M) - m * (z * o) - z * r
      OBVIOUS
    <3>2. z * o = M * (d * y) - e
      OBVIOUS
    <3>3. z * (d * M) = (m * y + c) * (d * M)
      OBVIOUS
    <3>4. (m * y + c) * (d * M) - m * (M * (d * y) - e) = d * (M * c) + m * e
      OBVIOUS
    <3>. QED
      BY <3>1, <3>2, <3>3, <3>4
  <2>3. D * (d * (M * c) + m * e - z * r) = d * (M * (D * c)) + m * (D * e) - (D * z) * r
    OBVIOUS
  <2>4. K * (d * (M - t)) = D * (z * (d * M - m * o - r))
    BY <2>1
  <2>. QED
    BY <2>2, <2>3, <2>4
<1>3. m * s >= b * (K - v)
  <2>1. m * (b * (h - G)) <= m * s
    <3>1. b * (h - G) \in Int /\ b * (h - G) <= s
      BY <1>1
    <3>. HIDE DEF b, h, s
    <3>. QED
      BY <1>1, <3>1, Monotone
  <2>2. m * h = K - a
    <3>1. m * (D * y) = D * (m * y + c) - D * c
      OBVIOUS
    <3>. QED
      BY <3>1
  <2>3. m * G = v - a
    OBVIOUS
  <2>4. m * (b * (h - G)) = b * (m * h - m * G)
    BY <1>1
  <2>5. m * h - m * G = K - v
    <3>. HIDE DEF h, K
    <3>. DEFINE i == m * h  j == m * G
    <3>1. i \in Int /\ j \in Int /\ i = K - a /\ j = v - a
      BY <1>1, <2>2, <2>3
    <3>. HIDE DEF i, j
    <3>2. i - j = K - v
      BY <1>1, <3>1
    <3>. QED
      BY <3>2 DEF i, j
  <2>. QED
    BY <2>1, <2>4, <2>5
<1>4. K * r <= K * b
  <2>. HIDE DEF K
  <2>. QED
    BY <1>1, Monotone
<1>5. d * v <= d * (M * a)
  <2>1. M * a \in Nat
    OBVIOUS
  <2>. DEFINE i == M * a
  <2>. HIDE DEF i
  <2>2. i \in Nat /\ v <= i
    BY <2>1 DEF i
  <2>. QED
    BY <2>2, Monotone DEF i
<1>6. K * (d * (M - t)) > 0
  <2>. DEFINE i == d * (M * a)  j == m * s  k == K * r  l == K * b  n == b * v
  <2>1. i \in Nat /\ j \in Int /\ k \in Nat /\ l \in Nat /\ n \in Nat
    BY <1>1
  <2>2. b * (K - v) = l - n /\ d * v = n + v
    BY <1>1
  <2>. HIDE DEF i, j, k, l, n, K, b, s
  <2>3. i + j - k > 0
    <3>1. j >= l - n /\ k <= l /\ n + v <= i
      BY <1>3, <1>4, <1>5, <2>2 DEF i, j, k, l
    <3>. QED
      BY <2>1, <3>1
  <2>. QED
    BY <1>2, <2>3 DEF i, j, k
<1>7. d * (M - t) > 0
  <2>1. d * (M - t) \in Int
    OBVIOUS
  <2>. DEFINE i == d * (M - t)
  <2>. HIDE DEF i, K
  <2>2. K * i > 0 /\ i \in Int
    BY <1>6, <2>1 DEF i
  <2>3. i > 0
    BY <1>1, <2>2, Positive
  <2>. QED
    BY <2>3 DEF i
<1>8. M - t > 0
  <2>1. M - t \in Int
    OBVIOUS
  <2>. QED
    BY <1>7, <2>1, Positive
<1>. QED
  BY <1>8

\* The installment does not exceed what is owed.
LEMMA StaysOpen ==
    ASSUME NEW d \in Nat \ {0}, NEW m \in Nat, NEW M \in Nat, NEW o \in Nat,
           NEW t \in Nat, NEW r \in Nat, d * t = m * o + r,
           NEW D \in Nat \ {0}, NEW x \in Nat, NEW p \in Nat \ {0},
           NEW w \in Nat, NEW G \in Nat, NEW e \in Int,
           e = M * (d * (d * x + p)) - ((d + m) * p) * o,
           D * e < d * G, w <= D * (d * x), G <= M * w
    PROVE  M <= o + t
<1>. DEFINE K == D * p  f == (d + m) * o - d * M
<1>1. K \in Nat \ {0} /\ f \in Int
  OBVIOUS
<1>2. K * f = d * (M * (D * (d * x))) - D * e
  <2>1. p * f = M * (d * (d * x)) - e
    OBVIOUS
  <2>2. D * (M * (d * (d * x)) - e) = d * (M * (D * (d * x))) - D * e
    OBVIOUS
  <2>3. K * f = D * (p * f)
    BY <1>1
  <2>. QED
    BY <2>1, <2>2, <2>3
<1>3. d * G <= d * (M * (D * (d * x)))
  <2>. DEFINE i == D * (d * x)  j == M * w  k == M * i
  <2>1. i \in Nat /\ j \in Nat /\ w <= i /\ G <= j
    OBVIOUS
  <2>. HIDE DEF i
  <2>2. j <= k /\ k \in Int
    BY <2>1, Monotone
  <2>. HIDE DEF j, k
  <2>3. G <= k
    BY <2>1, <2>2
  <2>4. d * G <= d * k
    BY <2>2, <2>3, Monotone
  <2>. QED
    BY <2>4 DEF i, k
<1>4. K * f > 0
  <2>. DEFINE i == d * G  j == d * (M * (D * (d * x)))  k == D * e
  <2>1. i \in Int /\ j \in Int /\ k \in Int
    OBVIOUS
  <2>. HIDE DEF i, j, k
  <2>2. i <= j /\ k < i
    BY <1>3 DEF i, j, k
  <2>3. j - k > 0
    BY <2>1, <2>2
  <2>. QED
    BY <1>2, <2>3 DEF j, k
<1>5. f > 0
  <2>. HIDE DEF K, f
  <2>. QED
    BY <1>1, <1>4, Positive
<1>6. d * (o + t - M) = f + r
  OBVIOUS
<1>7. o + t - M > 0
  <2>. DEFINE i == o + t - M
  <2>1. i \in Int
    OBVIOUS
  <2>. HIDE DEF i, f
  <2>2. d * i > 0
    BY <1>1, <1>5, <1>6 DEF i
  <2>3. i > 0
    BY <2>1, <2>2, Positive
  <2>. QED
    BY <2>3 DEF i
<1>. QED
  BY <1>7

\* The errors of the rows: no month adds more than a rounding.
LEMMA ErrorStays ==
    ASSUME NEW d \in Nat \ {0}, NEW m \in Nat, NEW M \in Nat, NEW o \in Nat,
           NEW t \in Nat, NEW r \in 0 .. d - 1, d * t = m * o + r,
           NEW D \in Nat \ {0}, NEW x \in Nat, NEW p \in Nat \ {0},
           NEW G \in Nat, NEW e \in Int, NEW f \in Int,
           e = M * (d * (d * x + p)) - ((d + m) * p) * o,
           f = M * (d * x) - p * (o + t - M),
           D * e < d * G, D * e >= (d - 1) * (D * (d * x + p) - G)
    PROVE  /\ (D * d) * f < d * G
           /\ (D * d) * f >= (d - 1) * ((D * d) * x - G)
<1>. DEFINE K == D * p  b == d - 1
<1>1. K \in Nat \ {0} /\ b \in Nat /\ r <= b
  OBVIOUS
<1>2. d * f = e - p * r
  <2>1. d * f = M * (d * (d * x)) - p * (d * o + d * t - d * M)
    OBVIOUS
  <2>2. d * o + d * t - d * M = (d + m) * o + r - d * M
    OBVIOUS
  <2>3. M * (d * (d * x)) - p * ((d + m) * o + r - d * M) = e - p * r
    OBVIOUS
  <2>. QED
    BY <2>1, <2>2, <2>3
<1>3. (D * d) * f = D * e - K * r
  <2>1. (D * d) * f = D * (d * f) /\ D * (e - p * r) = D * e - K * r
    OBVIOUS
  <2>. QED
    BY <1>2, <2>1
<1>4. K * r <= K * b /\ K * r \in Nat /\ K * b \in Nat
  <2>. HIDE DEF K, b
  <2>. QED
    BY <1>1, Monotone
<1>5. b * (D * (d * x + p) - G) = b * ((D * d) * x - G) + K * b
  OBVIOUS
<1>. DEFINE i == D * e  j == K * r  k == K * b  n == b * ((D * d) * x - G)
            g == (D * d) * f  h == d * G
<1>6. i \in Int /\ n \in Int /\ j \in Nat /\ k \in Nat /\ h \in Nat
  BY <1>1, <1>4
<1>7. g = i - j /\ j <= k /\ i < h /\ i >= n + k
  <2>1. i >= b * (D * (d * x + p) - G)
    OBVIOUS
  <2>. QED
    BY <1>3, <1>4, <1>5, <2>1
<1>. HIDE DEF i, j, k, n, g, h
<1>8. g < h /\ g >= n
  BY <1>6, <1>7
<1>. QED
  BY <1>8 DEF g, h, n, b

\* What the last row differs by.
LEMMA LastDiffers ==
    ASSUME NEW d \in Nat \ {0}, NEW m \in Nat, NEW M \in Nat, NEW o \in Nat,
           NEW t \in Nat, NEW r \in 0 .. d - 1, d * t = m * o + r,
           NEW D \in Nat \ {0}, NEW G \in Nat \ {0}, NEW e \in Int,
           e = M * d - (d + m) * o,
           D * e < d * G, D * e >= (d - 1) * (D - G)
    PROVE  -G < (o + t - M) * D /\ (o + t - M) * D < G
<1>. DEFINE drift == o + t - M  b == d - 1
<1>1. drift \in Int /\ b \in Nat /\ r <= b
  OBVIOUS
<1>2. d * drift = r - e
  OBVIOUS
<1>3. d * (drift * D) = D * r - D * e
  <2>1. d * (drift * D) = D * (d * drift) /\ D * (r - e) = D * r - D * e
    BY <1>1
  <2>. QED
    BY <1>2, <2>1
<1>4. D * r <= D * b
  BY <1>1, Monotone
<1>5. b * (D - G) = D * b - b * G /\ d * G = b * G + G
  OBVIOUS
<1>. DEFINE z == drift * D  i == D * e  j == D * r  k == D * b  n == b * G
<1>6. z \in Int /\ i \in Int /\ j \in Nat /\ k \in Nat /\ n \in Nat
  BY <1>1
<1>7. d * z = j - i /\ j <= k /\ i < n + G /\ i >= k - n
  BY <1>3, <1>4, <1>5
<1>. HIDE DEF drift, z, i, j, k, n
<1>8. d * z < n + G /\ -(n + G) < d * z
  BY <1>6, <1>7
<1>9. d * G = n + G
  BY <1>5 DEF n
<1>10. d * (G - z) > 0 /\ d * (z + G) > 0
  <2>1. d * (G - z) = d * G - d * z /\ d * (z + G) = d * z + d * G
    BY <1>6
  <2>. DEFINE dz == d * z  dg == d * G
  <2>2. dz \in Int /\ dg \in Int
    BY <1>6
  <2>. HIDE DEF dz, dg
  <2>3. dg - dz > 0 /\ dz + dg > 0
    BY <1>6, <1>8, <1>9, <2>2 DEF dz, dg
  <2>. QED
    BY <2>1, <2>3 DEF dz, dg
<1>11. G - z \in Int /\ z + G \in Int
  BY <1>6
<1>12. G - z > 0 /\ z + G > 0
  BY <1>10, <1>11, Positive
<1>13. -G < z /\ z < G
  BY <1>6, <1>12
<1>. QED
  BY <1>13 DEF z, drift

-----------------------------------------------------------------------------
(* The rows of a schedule                                                  *)

Rows == [opening : Nat, interest : Nat, principal : Nat, total : Nat, closing : Nat]

\* What is owed once i rows are paid.
Left(rows, P, i) == IF i = 0 THEN P ELSE rows[i].closing

LEMMA RowFacts ==
    ASSUME NEW o \in Nat, NEW t \in Nat, NEW M \in Nat, NEW last \in BOOLEAN
    PROVE  LET row == Row(o, t, M, last)
           IN  /\ row \in Rows /\ row.total = row.principal + row.interest
               /\ row.opening = o /\ row.interest = t
               /\ o <= row.principal + row.closing
               /\ last => row.principal = o /\ row.closing = 0
               /\ ~last /\ t < M /\ M <= o + t =>
                    row.principal = M - t /\ row.closing = o + t - M
<1>1. CASE last \/ M <= t
  BY <1>1 DEF Row, Rows
<1>2. CASE ~(last \/ M <= t)
  <2>1. M - t \in Nat
    BY <1>2
  <2>. QED
    BY <1>2, <2>1 DEF Row, Rows
<1>. QED
  BY <1>1, <1>2

LEMMA InterestBounds ==
    ASSUME NEW o \in Nat, NEW rate \in [num : Nat, den : Nat \ {0}]
    PROVE  /\ Interest(o, rate) \in Nat
           /\ \E r \in 0 .. rate.den - 1 :
                rate.den * Interest(o, rate) = rate.num * o + r
<1>. DEFINE d == rate.den  m == rate.num  t == Interest(o, rate)  a == o * m
<1>1. d \in Nat \ {0} /\ m \in Nat
  OBVIOUS
<1>2. a \in Nat /\ a = m * o
  BY <1>1
<1>3. t \in Nat /\ a <= t * d /\ t * d < a + d
  <2>1. t = CeilDiv(a, d)
    BY DEF Interest
  <2>. HIDE DEF a, t, d, m
  <2>. QED
    BY <1>1, <1>2, <2>1, CeilDivBounds
<1>. HIDE DEF t, a, d, m
<1>4. d * t - a \in 0 .. d - 1 /\ d * t = m * o + (d * t - a)
  <2>. DEFINE i == t * d
  <2>1. i \in Nat /\ d * t = i
    BY <1>1, <1>3
  <2>. HIDE DEF i
  <2>. QED
    BY <1>1, <1>2, <1>3, <2>1 DEF i
<1>. QED
  BY <1>3, <1>4 DEF t, d, m

\* Each row opens with what the one before it left.
IsRows(rows, M, P, rate, n) ==
    /\ M \in Nat /\ DOMAIN rows = 1 .. n
    /\ Left(rows, P, 0) = P
    /\ \A i \in 1 .. n :
         LET o == Left(rows, P, i - 1)
         IN  /\ o \in Nat
             /\ rows[i] = Row(o, Interest(o, rate), M, i = n)
             /\ rows[i] \in Rows
             /\ Left(rows, P, i) = rows[i].closing

\* The recursion of the schedule is one that has a solution.
LEMMA ScheduleRows ==
    ASSUME NEW P \in Nat, NEW rate \in [num : Nat, den : Nat \ {0}],
           NEW n \in Nat \ {0}
    PROVE  IsRows(Schedule(P, rate, n), MonthlyInstallment(P, rate, n), P, rate, n)
<1>. DEFINE M == MonthlyInstallment(P, rate, n)
            step(o, i) == Row(o, Interest(o, rate), M, i = n)
            IsSchedule(row) ==
                row = [i \in 1 .. n |->
                         LET opening == IF i = 1 THEN P ELSE row[i - 1].closing
                         IN  Row(opening, Interest(opening, rate), M, i = n)]
            rows == CHOOSE row : IsSchedule(row)
            next == [k \in Nat |-> [x \in Rows |-> step(x.closing, k)]]
            start == [opening |-> 0, interest |-> 0, principal |-> 0, total |-> 0,
                      closing |-> P]
<1>1. Schedule(P, rate, n) = rows
  BY DEF Schedule
<1>2. M \in Nat
  BY InstallmentFits
<1>. HIDE DEF M
<1>3. \A o \in Nat, i \in Nat : step(o, i) \in Rows
  <2>1. ASSUME NEW o \in Nat, NEW i \in Nat PROVE step(o, i) \in Rows
    <3>1. Interest(o, rate) \in Nat
      BY InterestBounds
    <3>2. (i = n) \in BOOLEAN
      OBVIOUS
    <3>. QED
      BY <1>2, <3>1, <3>2, RowFacts
  <2>. QED
    BY <2>1
<1>. HIDE DEF step
<1>4. PICK f : Recurs(f, start, next, Rows)
  <2>1. start \in Rows
    BY DEF Rows
  <2>2. next \in [Nat -> [Rows -> Rows]]
    <3>1. \A x \in Rows : x.closing \in Nat
      BY DEF Rows
    <3>. QED
      BY <1>3, <3>1
  <2>. HIDE DEF start, next
  <2>. QED
    BY <2>1, <2>2, RecursionExists
<1>. DEFINE g == [i \in 1 .. n |-> f[i]]
<1>5. IsSchedule(g)
  <2>1. ASSUME NEW i \in 1 .. n
        PROVE  g[i] = step(IF i = 1 THEN P ELSE g[i - 1].closing, i)
    <3>1. f[i] = next[i][f[i - 1]] /\ i - 1 \in Nat
      BY <1>4 DEF Recurs
    <3>2. f[i - 1] \in Rows /\ f[0] = start
      BY <1>4, <3>1 DEF Recurs
    <3>3. f[i] = step(f[i - 1].closing, i)
      BY <3>1, <3>2
    <3>4. f[i - 1].closing = IF i = 1 THEN P ELSE g[i - 1].closing
      <4>1. CASE i = 1
        BY <3>2, <4>1
      <4>2. CASE i # 1
        BY <4>2
      <4>. QED
        BY <4>1, <4>2
    <3>. QED
      BY <3>3, <3>4
  <2>2. g = [i \in 1 .. n |-> step(IF i = 1 THEN P ELSE g[i - 1].closing, i)]
    BY <2>1
  <2>. QED
    BY <2>2 DEF step
<1>6. IsSchedule(rows)
  BY <1>5
<1>. HIDE DEF rows
<1>7. DOMAIN rows = 1 .. n
  BY <1>6
<1>8. \A i \in 1 .. n : rows[i] = step(Left(rows, P, i - 1), i)
  <2>1. ASSUME NEW i \in 1 .. n PROVE rows[i] = step(Left(rows, P, i - 1), i)
    <3>1. rows[i] = step(IF i = 1 THEN P ELSE rows[i - 1].closing, i)
      BY <1>6 DEF step
    <3>2. (IF i = 1 THEN P ELSE rows[i - 1].closing) = Left(rows, P, i - 1)
      BY DEF Left
    <3>. QED
      BY <3>1, <3>2
  <2>. QED
    BY <2>1
<1>. DEFINE S == {k \in Nat : k < n => Left(rows, P, k) \in Nat}
<1>9. \A k \in Nat : k \in S
  <2>1. 0 \in S
    BY DEF Left
  <2>2. ASSUME NEW k \in Nat, k \in S PROVE k + 1 \in S
    <3>. SUFFICES ASSUME k + 1 < n PROVE Left(rows, P, k + 1) \in Nat
      OBVIOUS
    <3>1. k + 1 \in 1 .. n /\ k + 1 \in Nat /\ (k + 1) - 1 = k
      OBVIOUS
    <3>2. rows[k + 1] = step(Left(rows, P, k), k + 1)
      BY <1>8, <3>1
    <3>3. rows[k + 1] \in Rows
      BY <1>3, <2>2, <3>1, <3>2
    <3>. QED
      BY <3>1, <3>3 DEF Left, Rows
  <2>. HIDE DEF S
  <2>. QED
    BY <2>1, <2>2, SetInduction
<1>10. ASSUME NEW i \in 1 .. n
       PROVE  /\ Left(rows, P, i - 1) \in Nat
              /\ rows[i] = step(Left(rows, P, i - 1), i)
              /\ rows[i] \in Rows
              /\ Left(rows, P, i) = rows[i].closing
  <2>1. i - 1 \in Nat /\ i - 1 < n /\ i # 0
    OBVIOUS
  <2>2. Left(rows, P, i - 1) \in Nat
    BY <1>9, <2>1
  <2>3. Left(rows, P, i) = rows[i].closing
    BY <2>1 DEF Left
  <2>. QED
    BY <1>3, <1>8, <2>2, <2>3
<1>11. Left(rows, P, 0) = P
  BY DEF Left
<1>. QED
  BY <1>1, <1>2, <1>7, <1>10, <1>11 DEF IsRows, M, step

-----------------------------------------------------------------------------
(* What the rows add up to                                                 *)

LEMMA SumPrefix ==
    ASSUME NEW f, NEW k \in Nat, \A i \in 1 .. k + 1 : f[i] \in Nat
    PROVE  /\ SumOver(f, 1 .. k) \in Nat
           /\ SumOver(f, 1 .. k + 1) = f[k + 1] + SumOver(f, 1 .. k)
<1>1. IsFiniteSet(1 .. k)
  <2>1. 1 \in Int /\ k \in Int
    OBVIOUS
  <2>. QED
    BY <2>1, FS_Interval
<1>2. /\ k + 1 \notin 1 .. k /\ (1 .. k) \cup {k + 1} = 1 .. k + 1
      /\ \A i \in 1 .. k : f[i] \in Nat
  OBVIOUS
<1>3. SumOver(f, 1 .. k) \in Nat
  BY <1>1, <1>2, SumOverType
<1>4. \A i \in (1 .. k) \cup {k + 1} : f[i] \in Nat
  BY <1>2
<1>5. SumOver(f, (1 .. k) \cup {k + 1}) = f[k + 1] + SumOver(f, 1 .. k)
  BY <1>1, <1>2, <1>4, SumOverAdd
<1>. QED
  BY <1>2, <1>3, <1>5

LEMMA SumNone ==
    ASSUME NEW f
    PROVE  SumOver(f, 1 .. 0) = 0
<1>1. 1 .. 0 = {}
  OBVIOUS
<1>. QED
  BY <1>1, SumOverEmpty

\* What is repaid is the principal parts and the interest.
LEMMA RepayableAddsUp ==
    ASSUME NEW rows, NEW n \in Nat, DOMAIN rows = 1 .. n,
           \A i \in 1 .. n : /\ rows[i] \in Rows
                             /\ rows[i].total = rows[i].principal + rows[i].interest
    PROVE  TotalRepayable(rows) = TotalPrincipal(rows) + TotalInterest(rows)
<1>. DEFINE f == [i \in DOMAIN rows |-> rows[i].interest]
            g == [i \in DOMAIN rows |-> rows[i].total]
            h == [i \in DOMAIN rows |-> rows[i].principal]
            S == {k \in Nat : k <= n =>
                    SumOver(g, 1 .. k) = SumOver(h, 1 .. k) + SumOver(f, 1 .. k)}
<1>1. \A i \in 1 .. n : /\ f[i] \in Nat /\ g[i] \in Nat /\ h[i] \in Nat
                        /\ g[i] = h[i] + f[i]
  BY DEF Rows
<1>2. /\ DOMAIN f = 1 .. n /\ DOMAIN g = 1 .. n /\ DOMAIN h = 1 .. n
  OBVIOUS
<1>3. /\ TotalInterest(rows) = SumOver(f, 1 .. n)
      /\ TotalRepayable(rows) = SumOver(g, 1 .. n)
      /\ TotalPrincipal(rows) = SumOver(h, 1 .. n)
  BY <1>2 DEF TotalInterest, TotalRepayable, TotalPrincipal, Total, SumOver
<1>. HIDE DEF f, g, h
<1>4. 0 \in S
  <2>1. SumOver(g, 1 .. 0) = 0 /\ SumOver(h, 1 .. 0) = 0 /\ SumOver(f, 1 .. 0) = 0
    BY SumNone
  <2>. QED
    BY <2>1
<1>5. ASSUME NEW k \in Nat, k \in S PROVE k + 1 \in S
  <2>. SUFFICES ASSUME k + 1 <= n
       PROVE SumOver(g, 1 .. k + 1) = SumOver(h, 1 .. k + 1) + SumOver(f, 1 .. k + 1)
    OBVIOUS
  <2>1. k + 1 \in 1 .. n /\ \A i \in 1 .. k + 1 : i \in 1 .. n
    OBVIOUS
  <2>2. \A i \in 1 .. k + 1 : f[i] \in Nat /\ g[i] \in Nat /\ h[i] \in Nat
    BY <1>1, <2>1
  <2>3. /\ SumOver(f, 1 .. k) \in Nat
        /\ SumOver(f, 1 .. k + 1) = f[k + 1] + SumOver(f, 1 .. k)
    BY <2>2, SumPrefix
  <2>4. /\ SumOver(g, 1 .. k) \in Nat
        /\ SumOver(g, 1 .. k + 1) = g[k + 1] + SumOver(g, 1 .. k)
    BY <2>2, SumPrefix
  <2>5. /\ SumOver(h, 1 .. k) \in Nat
        /\ SumOver(h, 1 .. k + 1) = h[k + 1] + SumOver(h, 1 .. k)
    BY <2>2, SumPrefix
  <2>6. SumOver(g, 1 .. k) = SumOver(h, 1 .. k) + SumOver(f, 1 .. k)
    BY <1>5
  <2>7. g[k + 1] = h[k + 1] + f[k + 1] /\ h[k + 1] \in Nat /\ f[k + 1] \in Nat
    BY <1>1, <2>1
  <2>. QED
    BY <2>3, <2>4, <2>5, <2>6, <2>7
<1>. HIDE DEF S
<1>6. n \in S
  BY <1>4, <1>5, SetInduction
<1>7. n <= n
  OBVIOUS
<1>. QED
  BY <1>3, <1>6, <1>7 DEF S

\* The principal of the first k rows.
Repaid(rows, k) == SumOver([i \in DOMAIN rows |-> rows[i].principal], 1 .. k)

LEMMA RepaidSteps ==
    ASSUME NEW rows, NEW n \in Nat, DOMAIN rows = 1 .. n,
           \A i \in 1 .. n : rows[i] \in Rows
    PROVE  /\ Repaid(rows, 0) = 0 /\ TotalPrincipal(rows) = Repaid(rows, n)
           /\ \A k \in Nat : k < n =>
                /\ Repaid(rows, k) \in Nat
                /\ Repaid(rows, k + 1) = Repaid(rows, k) + rows[k + 1].principal
<1>. DEFINE h == [i \in DOMAIN rows |-> rows[i].principal]
<1>1. DOMAIN h = 1 .. n /\ \A i \in 1 .. n : h[i] = rows[i].principal /\ h[i] \in Nat
  BY DEF Rows
<1>2. TotalPrincipal(rows) = Repaid(rows, n)
  BY DEF TotalPrincipal, Total, SumOver, Repaid
<1>3. Repaid(rows, 0) = 0
  BY SumNone DEF Repaid
<1>4. \A k : Repaid(rows, k) = SumOver(h, 1 .. k)
  BY DEF Repaid
<1>. HIDE DEF h
<1>5. ASSUME NEW k \in Nat, k < n
      PROVE  /\ Repaid(rows, k) \in Nat
             /\ Repaid(rows, k + 1) = Repaid(rows, k) + rows[k + 1].principal
  <2>1. k + 1 \in 1 .. n /\ \A i \in 1 .. k + 1 : i \in 1 .. n
    BY <1>5
  <2>2. \A i \in 1 .. k + 1 : h[i] \in Nat
    BY <1>1, <2>1
  <2>3. /\ SumOver(h, 1 .. k) \in Nat
        /\ SumOver(h, 1 .. k + 1) = h[k + 1] + SumOver(h, 1 .. k)
    BY <2>2, SumPrefix
  <2>. QED
    BY <1>1, <1>4, <2>1, <2>3
<1>. QED
  BY <1>2, <1>3, <1>5

-----------------------------------------------------------------------------
(* Every schedule ends at zero and repays the loan                         *)

LEMMA ScheduleRepays ==
    ASSUME NEW P \in Nat, NEW rate \in [num : Nat, den : Nat \ {0}],
           NEW n \in Nat \ {0}
    PROVE  LET rows == Schedule(P, rate, n)
           IN  /\ rows[n].closing = 0
               /\ TotalPrincipal(rows) >= P
               /\ TotalRepayable(rows) = TotalPrincipal(rows) + TotalInterest(rows)
<1>. DEFINE rows == Schedule(P, rate, n)
            M == MonthlyInstallment(P, rate, n)
            S == {k \in Nat : k <= n => Repaid(rows, k) + Left(rows, P, k) >= P}
<1>1. /\ M \in Nat /\ DOMAIN rows = 1 .. n /\ Left(rows, P, 0) = P
      /\ \A i \in 1 .. n :
           LET o == Left(rows, P, i - 1)
           IN  /\ o \in Nat
               /\ rows[i] = Row(o, Interest(o, rate), M, i = n)
               /\ rows[i] \in Rows
               /\ Left(rows, P, i) = rows[i].closing
  BY ScheduleRows DEF IsRows
<1>. HIDE DEF rows, M
<1>2. ASSUME NEW i \in 1 .. n
      PROVE  /\ rows[i].total = rows[i].principal + rows[i].interest
             /\ rows[i].principal \in Nat /\ rows[i].closing \in Nat
             /\ Left(rows, P, i - 1) <= rows[i].principal + rows[i].closing
             /\ i = n => rows[i].closing = 0
  <2>. DEFINE o == Left(rows, P, i - 1)
  <2>1. o \in Nat /\ Interest(o, rate) \in Nat /\ (i = n) \in BOOLEAN
    BY <1>1, InterestBounds
  <2>2. rows[i] = Row(o, Interest(o, rate), M, i = n) /\ rows[i] \in Rows
    BY <1>1
  <2>. DEFINE t == Interest(o, rate)  last == i = n  row == Row(o, t, M, last)
  <2>. HIDE DEF o, t, last
  <2>4. /\ row.total = row.principal + row.interest
        /\ o <= row.principal + row.closing
        /\ last => row.closing = 0
    <3>1. o \in Nat /\ t \in Nat /\ last \in BOOLEAN
      BY <2>1 DEF o, t, last
    <3>2. M \in Nat
      BY <1>1
    <3>. HIDE DEF row
    <3>3. /\ row.total = row.principal + row.interest
          /\ o <= row.principal + row.closing
          /\ last => row.principal = o /\ row.closing = 0
      BY <3>1, <3>2, RowFacts DEF row
    <3>. QED
      BY <3>3
  <2>5. rows[i] = row
    BY <2>2 DEF o, t, last
  <2>. HIDE DEF row
  <2>3. /\ rows[i].total = rows[i].principal + rows[i].interest
        /\ o <= rows[i].principal + rows[i].closing
        /\ i = n => rows[i].closing = 0
    BY <2>4, <2>5 DEF last
  <2>. QED
    BY <2>2, <2>3 DEF Rows, o
<1>3. /\ Repaid(rows, 0) = 0 /\ TotalPrincipal(rows) = Repaid(rows, n)
      /\ \A k \in Nat : k < n =>
           /\ Repaid(rows, k) \in Nat
           /\ Repaid(rows, k + 1) = Repaid(rows, k) + rows[k + 1].principal
  <2>1. n \in Nat /\ \A i \in 1 .. n : rows[i] \in Rows
    BY <1>1
  <2>. QED
    BY <1>1, <2>1, RepaidSteps
<1>4. 0 \in S
  BY <1>1, <1>3
<1>5. ASSUME NEW k \in Nat, k \in S PROVE k + 1 \in S
  <2>. SUFFICES ASSUME k + 1 <= n
       PROVE Repaid(rows, k + 1) + Left(rows, P, k + 1) >= P
    OBVIOUS
  <2>1. k + 1 \in 1 .. n /\ (k + 1) - 1 = k /\ k < n
    OBVIOUS
  <2>2. /\ rows[k + 1].principal \in Nat /\ rows[k + 1].closing \in Nat
        /\ Left(rows, P, k) <= rows[k + 1].principal + rows[k + 1].closing
    BY <1>2, <2>1
  <2>3. Left(rows, P, k) \in Nat /\ Left(rows, P, k + 1) = rows[k + 1].closing
    BY <1>1, <2>1
  <2>4. /\ Repaid(rows, k) \in Nat
        /\ Repaid(rows, k + 1) = Repaid(rows, k) + rows[k + 1].principal
    BY <1>3, <2>1
  <2>5. Repaid(rows, k) + Left(rows, P, k) >= P
    BY <1>5, <2>1
  <2>. QED
    BY <2>2, <2>3, <2>4, <2>5
<1>6. n \in S
  <2>. HIDE DEF S
  <2>. QED
    BY <1>4, <1>5, SetInduction
<1>7. rows[n].closing = 0 /\ Left(rows, P, n) = 0
  <2>1. n \in 1 .. n
    OBVIOUS
  <2>. QED
    BY <1>1, <1>2, <2>1
<1>8. TotalPrincipal(rows) >= P
  <2>1. PICK k \in Nat : k + 1 = n /\ k < n
    <3>1. n - 1 \in Nat /\ (n - 1) + 1 = n /\ n - 1 < n
      OBVIOUS
    <3>. QED
      BY <3>1
  <2>2. Repaid(rows, n) \in Nat
    <3>1. n \in 1 .. n
      OBVIOUS
    <3>2. rows[n].principal \in Nat
      BY <1>2, <3>1
    <3>3. Repaid(rows, k) \in Nat /\ Repaid(rows, k + 1) = Repaid(rows, k) + rows[k + 1].principal
      BY <1>3, <2>1
    <3>4. Repaid(rows, n) = Repaid(rows, k) + rows[n].principal
      BY <2>1, <3>3
    <3>. QED
      BY <3>2, <3>3, <3>4
  <2>3. n <= n => Repaid(rows, n) + Left(rows, P, n) >= P
    BY <1>6
  <2>. HIDE DEF S
  <2>. QED
    BY <1>3, <1>7, <2>2, <2>3
<1>9. TotalRepayable(rows) = TotalPrincipal(rows) + TotalInterest(rows)
  BY <1>1, <1>2, RepayableAddsUp
<1>. QED
  BY <1>7, <1>8, <1>9 DEF rows

-----------------------------------------------------------------------------
(* A loan that is not small is repaid exactly                              *)

\* The installment of such a loan, against its interest and its growth.
LEMMA InstallmentIsLarge ==
    ASSUME NEW d \in Nat \ {0}, NEW P \in Nat, NEW M \in Nat, NEW n \in Nat \ {0},
           NEW G \in Nat \ {0}, NEW grown \in Nat, NEW w \in Nat, NEW v \in Nat,
           d * G <= n * v, G <= grown, P * v <= M * (d * G), n * grown <= P * w
    PROVE  G <= M * w /\ v <= M * (d * w)
<1>. DEFINE h == d * G  i == M * w  j == P * v  k == n * grown  l == P * w
<1>1. /\ h \in Nat \ {0} /\ i \in Nat /\ j \in Nat /\ k \in Nat /\ l \in Nat
      /\ v * l = w * j /\ w * (M * h) = h * i
  OBVIOUS
<1>2. v * k <= v * l /\ w * j <= w * (M * h)
  <2>1. k <= l /\ j <= M * h /\ M * h \in Int
    BY <1>1
  <2>. HIDE DEF h, j, k, l
  <2>. QED
    BY <1>1, <2>1, Monotone
<1>3. v * k <= h * i
  <2>. DEFINE a == v * k  b == v * l  c == w * j  e == w * (M * h)
  <2>1. a \in Int /\ b \in Int /\ c \in Int /\ e \in Int /\ b = c /\ e = h * i
    BY <1>1
  <2>. HIDE DEF a, b, c, e, h, i, j, k, l
  <2>2. a <= b /\ c <= e
    BY <1>2 DEF a, b, c, e
  <2>3. a <= e
    BY <2>1, <2>2
  <2>. QED
    BY <2>1, <2>3 DEF a
<1>4. h * G <= h * i
  <2>. DEFINE a == n * v
  <2>1. a \in Nat /\ h <= a /\ v * k = grown * a
    BY <1>1
  <2>. HIDE DEF a, h, k
  <2>2. G * h <= G * a /\ a * G <= a * grown
    BY <1>1, <2>1, Monotone
  <2>3. G * h = h * G /\ G * a = a * G /\ a * grown = grown * a
    BY <1>1, <2>1
  <2>. DEFINE b == h * G  c == a * G  e == grown * a  f == h * i
  <2>4. b \in Int /\ c \in Int /\ e \in Int /\ f \in Int
    BY <1>1, <2>1
  <2>. HIDE DEF b, c, e, f
  <2>5. b <= c /\ c <= e /\ e <= f
    BY <1>3, <2>1, <2>2, <2>3 DEF b, c, e, f
  <2>6. b <= f
    BY <2>4, <2>5
  <2>. QED
    BY <2>6 DEF b, f
<1>5. G <= i
  <2>. HIDE DEF h, i
  <2>. QED
    BY <1>1, <1>4, Cancel
<1>6. G * v <= G * (d * i)
  <2>. DEFINE a == G * v  b == v * k  c == h * i
  <2>1. a <= b
    <3>1. G <= k
      <4>1. grown <= n * grown
        OBVIOUS
      <4>. HIDE DEF k
      <4>2. grown <= k
        BY <4>1 DEF k
      <4>. QED
        BY <1>1, <4>2
    <3>. HIDE DEF k
    <3>2. v * G <= v * k
      BY <1>1, <3>1, Monotone
    <3>3. v * G = G * v
      OBVIOUS
    <3>. QED
      BY <3>2, <3>3
  <2>2. c = G * (d * i)
    BY <1>1
  <2>3. a \in Int /\ b \in Int /\ c \in Int
    BY <1>1
  <2>. HIDE DEF a, b, c, h, i, k
  <2>4. b <= c
    BY <1>3 DEF b, c
  <2>5. a <= c
    BY <2>1, <2>3, <2>4
  <2>. QED
    BY <2>2, <2>5 DEF a
<1>7. v <= d * i
  <2>1. d * i \in Nat
    BY <1>1
  <2>. DEFINE a == d * i
  <2>. HIDE DEF a, h, i
  <2>2. G * v <= G * a /\ a \in Int
    BY <1>6, <2>1 DEF a
  <2>3. v <= a
    BY <2>2, Cancel
  <2>. QED
    BY <2>3 DEF a
<1>8. d * i = M * (d * w)
  OBVIOUS
<1>. QED
  BY <1>5, <1>7, <1>8

IsAnnuity(g, d, m, q) ==
    d \in Nat \ {0} /\ m \in Nat /\ q = d + m /\ g = Annuity(d, q)

LEMMA AnnuityFacts ==
    ASSUME NEW g, NEW d, NEW m, NEW q, IsAnnuity(g, d, m, q), NEW i \in Nat
    PROVE  /\ g[i] \in Nat /\ g[i + 1] \in Nat /\ g[i + 1] = d * g[i] + Power(q, i)
           /\ m * g[i] + Power(d, i) = Power(q, i)
           /\ (i + 1) * Power(d, i) <= g[i + 1]
           /\ g[i + 1] <= (i + 1) * Power(q, i)
<1>0. d \in Nat \ {0} /\ m \in Nat /\ q = d + m /\ g = Annuity(d, d + m)
  BY DEF IsAnnuity
<1>1. /\ Annuity(d, d + m)[i] \in Nat /\ Annuity(d, d + m)[i + 1] \in Nat
      /\ Annuity(d, d + m)[i + 1] = d * Annuity(d, d + m)[i] + Power(d + m, i)
      /\ m * Annuity(d, d + m)[i] + Power(d, i) = Power(d + m, i)
      /\ (i + 1) * Power(d, i) <= Annuity(d, d + m)[i + 1]
      /\ Annuity(d, d + m)[i + 1] <= (i + 1) * Power(d + m, i)
  BY <1>0, AnnuityBounds, Zenon
<1>. QED
  BY <1>0, <1>1

\* The factors of the rows: with i months of n - k to come after the next one.
Span(g, d, m, q, n, k, j, s, h) ==
    /\ IsAnnuity(g, d, m, q)
    /\ n \in Nat \ {0} /\ k \in Nat /\ j \in Nat /\ s \in Nat /\ h \in Nat
    /\ s = j + 1 /\ k + s = n /\ h + 1 = n

LEMMA Factors ==
    ASSUME NEW g, NEW d, NEW m, NEW q, NEW n, NEW k, NEW j, NEW s, NEW h,
           Span(g, d, m, q, n, k, j, s, h)
    PROVE  /\ g[j] \in Nat /\ g[s] \in Nat
           /\ Power(q, j) \in Nat \ {0} /\ Power(q, n) \in Nat \ {0}
           /\ Power(d, k) \in Nat \ {0} /\ Power(d, s) \in Nat
           /\ Power(d, h) \in Nat
           /\ g[s] = d * g[j] + Power(q, j) /\ Power(q, s) = q * Power(q, j)
           /\ m * g[s] + Power(d, s) = Power(q, s)
           /\ m * g[n] + Power(d, n) = Power(q, n)
           /\ Power(d, k) * Power(d, s) = Power(d, n)
           /\ Power(d, n) = d * Power(d, h)
           /\ Power(d, k + 1) = Power(d, k) * d
           /\ j > 0 => Power(d, h) <= Power(d, k) * (d * g[j])
<1>1. /\ q \in Nat \ {0} /\ k + 1 \in Nat /\ n = h + 1 /\ h = k + j
      /\ s \in Nat /\ n \in Nat \ {0} /\ d \in Nat \ {0} /\ m \in Nat /\ h \in Nat
      /\ k \in Nat /\ j \in Nat /\ s = j + 1 /\ k + s = n
      /\ IsAnnuity(g, d, m, q)
  BY DEF Span, IsAnnuity
<1>. USE <1>1
<1>2. /\ Power(q, j) \in Nat \ {0} /\ Power(q, n) \in Nat \ {0}
      /\ Power(d, k) \in Nat \ {0} /\ Power(d, s) \in Nat
      /\ Power(d, h) \in Nat
  BY <1>1, PowerSteps
<1>3. Power(q, s) = q * Power(q, j) /\ Power(d, n) = d * Power(d, h)
  BY <1>1, PowerSteps
<1>4. Power(d, k + 1) = Power(d, k) * d
  <2>1. Power(d, k + 1) = d * Power(d, k)
    BY PowerSteps
  <2>. DEFINE x == Power(d, k)
  <2>. HIDE DEF x
  <2>2. d * x = x * d
    BY <1>2 DEF x
  <2>. QED
    BY <2>1, <2>2 DEF x
<1>5. Power(d, k) * Power(d, s) = Power(d, n)
  BY <1>1, PowersMultiply
<1>6. g[j] \in Nat /\ g[s] \in Nat /\ g[s] = d * g[j] + Power(q, j)
  BY AnnuityFacts
<1>7. m * g[s] + Power(d, s) = Power(q, s) /\ m * g[n] + Power(d, n) = Power(q, n)
  BY AnnuityFacts
<1>8. ASSUME j > 0 PROVE Power(d, h) <= Power(d, k) * (d * g[j])
  <2>1. PICK i \in Nat : j = i + 1
    <3>1. j - 1 \in Nat /\ j = (j - 1) + 1
      BY <1>8
    <3>. QED
      BY <3>1
  <2>. DEFINE x == g[j]  u == Power(d, i)  D == Power(d, k)
  <2>2. x \in Nat /\ u \in Nat /\ D \in Nat
    BY <1>2, <1>6, PowerSteps
  <2>3. (i + 1) * u <= x
    BY <2>1, AnnuityFacts
  <2>4. Power(d, h) = D * (d * u)
    <3>1. Power(d, h) = D * Power(d, j)
      BY <1>1, PowersMultiply
    <3>2. Power(d, j) = d * u
      BY <2>1, PowerSteps
    <3>. QED
      BY <3>1, <3>2
  <2>. HIDE DEF x, u, D
  <2>5. u <= x
    <3>1. (i + 1) * u = i * u + u /\ i * u \in Nat
      BY <2>2
    <3>. DEFINE b == i * u
    <3>. HIDE DEF b
    <3>2. b \in Nat /\ b + u <= x
      BY <2>3, <3>1 DEF b
    <3>. QED
      BY <2>2, <3>2
  <2>6. d * u <= d * x /\ d * u \in Int /\ d * x \in Int
    BY <2>2, <2>5, Monotone
  <2>. DEFINE b == d * u  c == d * x
  <2>. HIDE DEF b, c
  <2>7. D * b <= D * c
    BY <2>2, <2>6, Monotone DEF b, c
  <2>. QED
    BY <2>4, <2>7 DEF b, c, x, D
<1>. QED
  BY <1>2, <1>3, <1>4, <1>5, <1>6, <1>7, <1>8

\* What the installments to come pay too much, when o is owed and j + 1 are left.
Error(M, d, m, j, o) ==
    M * (d * Annuity(d, d + m)[j + 1]) - Power(d + m, j + 1) * o

\* k rows into a schedule of n the error is bounded.
OnTrack(M, d, m, n, k, o) ==
    \A j \in Nat : k + (j + 1) = n =>
        LET G == Annuity(d, d + m)[n]
        IN  /\ Power(d, k) * Error(M, d, m, j, o) < d * G
            /\ Power(d, k) * Error(M, d, m, j, o)
                 >= (d - 1) * (Power(d, k) * Annuity(d, d + m)[j + 1] - G)

LEMMA RowsStayOnTrack ==
    ASSUME NEW d \in Nat \ {0}, NEW m \in Nat, NEW M \in Nat, NEW n \in Nat \ {0},
           NEW k \in Nat, k + 1 < n, NEW o \in Nat, NEW t \in Nat,
           NEW r \in 0 .. d - 1, d * t = m * o + r, OnTrack(M, d, m, n, k, o),
           Annuity(d, d + m)[n] \in Nat,
           Annuity(d, d + m)[n] <= M * Power(d, n - 1),
           Power(d + m, n) <= M * (d * Power(d, n - 1))
    PROVE  t < M /\ M <= o + t /\ OnTrack(M, d, m, n, k + 1, o + t - M)
<1>. DEFINE q == d + m
            g == Annuity(d, q)
<1>1. PICK j \in Nat : k + (j + 1) = n /\ j > 0
  <2>1. (n - k) - 1 \in Nat /\ k + (((n - k) - 1) + 1) = n /\ (n - k) - 1 > 0
    OBVIOUS
  <2>. QED
    BY <2>1
<1>. DEFINE i1 == j + 1  h == n - 1
            G == g[n]  x == g[j]  y == g[i1]  p == Power(q, j)  z == Power(q, i1)
            c == Power(d, i1)  D == Power(d, k)  a == Power(d, n)  v == Power(q, n)
            w == Power(d, h)  e == Error(M, d, m, j, o)
<1>2. /\ x \in Nat /\ y \in Nat /\ p \in Nat \ {0} /\ v \in Nat \ {0}
      /\ D \in Nat \ {0} /\ c \in Nat /\ w \in Nat
      /\ y = d * x + p /\ z = (d + m) * p /\ m * y + c = z /\ m * G + a = v
      /\ D * c = a /\ a = d * w /\ Power(d, k + 1) = D * d
      /\ w <= D * (d * x)
  <2>1. i1 \in Nat /\ i1 = j + 1 /\ k + i1 = n /\ h \in Nat /\ h + 1 = n
    BY <1>1
  <2>2. q = d + m /\ Span(g, d, m, q, n, k, j, i1, h)
    BY <1>1, <2>1 DEF Span, IsAnnuity
  <2>. HIDE DEF i1, h, q, g
  <2>3. /\ x \in Nat /\ y \in Nat /\ p \in Nat \ {0} /\ v \in Nat \ {0}
        /\ D \in Nat \ {0} /\ c \in Nat /\ w \in Nat
    BY <2>2, Factors
  <2>4. y = d * x + p /\ z = q * p /\ m * y + c = z /\ m * G + a = v
    BY <2>2, Factors
  <2>5. D * c = a /\ a = d * w /\ Power(d, k + 1) = D * d
    BY <2>2, Factors
  <2>6. w <= D * (d * x)
    BY <1>1, <2>2, Factors
  <2>. QED
    BY <2>2, <2>3, <2>4, <2>5, <2>6
<1>3. D * e < d * G /\ D * e >= (d - 1) * (D * y - G)
  BY <1>1 DEF OnTrack
<1>4. e = M * (d * y) - z * o
  BY DEF Error
<1>5. G \in Nat /\ G <= M * w /\ v <= M * a
  BY <1>2
<1>. DEFINE s == o + t - M
            f == M * (d * x) - p * s
<1>6. ASSUME \A i \in Nat : (k + 1) + (i + 1) = n =>
               /\ i + 1 = j
               /\ Power(d, k + 1) * (M * (d * x) - p * s) < d * G
               /\ Power(d, k + 1) * (M * (d * x) - p * s)
                    >= (d - 1) * (Power(d, k + 1) * x - G)
      PROVE  OnTrack(M, d, m, n, k + 1, o + t - M)
  BY <1>6 DEF OnTrack, Error
<1>. HIDE DEF G, x, y, p, z, c, D, a, v, w, e, q, g, i1, h
<1>7. e \in Int /\ a \in Nat /\ z \in Nat \ {0}
  <2>1. z \in Nat
    BY <1>2
  <2>2. M * (d * y) \in Int /\ z * o \in Int /\ d * w \in Nat
    BY <1>2, <2>1
  <2>3. z # 0
    <3>1. (d + m) * p > 0
      BY <1>2
    <3>. QED
      BY <1>2, <3>1
  <2>. QED
    BY <1>2, <1>4, <2>1, <2>2, <2>3
<1>8. t < M
  <2>1. Underway(d, m, M, o, t, r, D, y, z, c, a, v, G, e)
    BY <1>2, <1>3, <1>4, <1>5, <1>7 DEF Underway
  <2>. QED
    BY <1>5, <2>1, PaysInterest
<1>9. e = M * (d * (d * x + p)) - ((d + m) * p) * o
  BY <1>2, <1>4
<1>10. M <= o + t
  BY <1>2, <1>3, <1>5, <1>7, <1>9, StaysOpen, SMTT(60)
<1>11. s \in Nat /\ f \in Int
  BY <1>2, <1>10
<1>12. D * e >= (d - 1) * (D * (d * x + p) - G)
  BY <1>2, <1>3
<1>13. /\ (D * d) * f < d * G
       /\ (D * d) * f >= (d - 1) * ((D * d) * x - G)
  BY <1>2, <1>3, <1>5, <1>7, <1>9, <1>11, <1>12, ErrorStays
<1>14. \A i \in Nat : (k + 1) + (i + 1) = n => i + 1 = j
  BY <1>1
<1>15. OnTrack(M, d, m, n, k + 1, o + t - M)
  <2>1. Power(d, k + 1) = D * d
    BY <1>2
  <2>. HIDE DEF f, s
  <2>2. /\ Power(d, k + 1) * f < d * G
        /\ Power(d, k + 1) * f >= (d - 1) * (Power(d, k + 1) * x - G)
    BY <1>13, <2>1
  <2>. QED
    BY <1>6, <1>14, <2>2 DEF f, s
<1>. QED
  BY <1>8, <1>10, <1>15

\* A schedule starts on track.
LEMMA StartsOnTrack ==
    ASSUME NEW g, NEW d, NEW m, NEW q, IsAnnuity(g, d, m, q), NEW n \in Nat \ {0},
           NEW M \in Nat, NEW P \in Nat, P * Power(q, n) <= M * (d * g[n]),
           M * (d * g[n]) < P * Power(q, n) + d * g[n]
    PROVE  OnTrack(M, d, m, n, 0, P)
<1>. DEFINE G == g[n]  v == Power(q, n)  a == M * (d * G)  b == P * v  c == d * G
<1>1. d \in Nat \ {0} /\ m \in Nat /\ q = d + m /\ g = Annuity(d, q)
  BY DEF IsAnnuity
<1>2. G \in Nat /\ v \in Nat /\ Power(d, 0) = 1
  <2>1. n \in Nat /\ q \in Nat \ {0}
    BY <1>1
  <2>. QED
    BY <1>1, <2>1, AnnuityFacts, PowerSteps
<1>3. ASSUME NEW j \in Nat, 0 + (j + 1) = n
      PROVE  /\ Power(d, 0) * Error(M, d, m, j, P) < d * G
             /\ Power(d, 0) * Error(M, d, m, j, P) >= (d - 1) * (Power(d, 0) * G - G)
             /\ Annuity(d, d + m)[j + 1] = G
  <2>1. j + 1 = n
    BY <1>3
  <2>2. Error(M, d, m, j, P) = a - v * P
    BY <1>1, <2>1 DEF Error
  <2>3. v * P = b
    BY <1>2
  <2>4. a \in Nat /\ b \in Nat /\ c \in Nat
    BY <1>1, <1>2
  <2>. HIDE DEF a, b, c, G, v
  <2>5. b <= a /\ a < b + c
    BY DEF a, b, c, G, v
  <2>6. Error(M, d, m, j, P) \in Nat /\ Error(M, d, m, j, P) < c
    BY <2>2, <2>3, <2>4, <2>5
  <2>7. (d - 1) * (1 * G - G) = 0
    BY <1>1, <1>2
  <2>. DEFINE f == Error(M, d, m, j, P)
  <2>. HIDE DEF f
  <2>8. 1 * f < c /\ 1 * f >= 0
    BY <2>6 DEF f
  <2>9. Annuity(d, d + m)[j + 1] = G
    BY <1>1, <2>1 DEF G
  <2>. QED
    BY <1>2, <2>7, <2>8, <2>9 DEF c, f
<1>4. Annuity(d, d + m)[n] = G
  BY <1>1
<1>. HIDE DEF G
<1>. QED
  BY <1>3, <1>4 DEF OnTrack

\* The installment of a loan that is not small.
LEMMA InstallmentOfLargeLoan ==
    ASSUME NEW g, NEW d, NEW m, NEW q, IsAnnuity(g, d, m, q), NEW n \in Nat \ {0},
           NEW M \in Nat, NEW P \in Nat, P * Power(q, n) <= M * (d * g[n]),
           P * Power(d, n - 1) >= n * (n * Power(q, n - 1))
    PROVE  /\ g[n] \in Nat \ {0} /\ g[n] <= n * Power(q, n - 1)
           /\ g[n] <= M * Power(d, n - 1)
           /\ Power(q, n) <= M * (d * Power(d, n - 1))
<1>. DEFINE h == n - 1
            G == g[n]  w == Power(d, h)  p == Power(q, h)  v == Power(q, n)
            grown == n * p
<1>1. /\ d \in Nat \ {0} /\ m \in Nat /\ q = d + m /\ q \in Nat \ {0}
      /\ h \in Nat /\ n = h + 1
  BY DEF IsAnnuity
<1>. HIDE DEF h
<1>2. /\ w \in Nat \ {0} /\ p \in Nat \ {0} /\ v = q * p
  BY <1>1, PowerSteps
<1>3. G \in Nat /\ n * w <= G /\ G <= grown
  BY <1>1, AnnuityFacts
<1>. HIDE DEF G, w, p, v
<1>4. G > 0
  <2>. DEFINE z == n * w
  <2>1. z \in Nat /\ z > 0
    BY <1>2
  <2>2. z <= G /\ G \in Nat
    BY <1>3
  <2>. HIDE DEF z
  <2>. QED
    BY <2>1, <2>2
<1>5. v \in Nat /\ grown \in Nat
  BY <1>1, <1>2
<1>6. d * G <= n * v
  <2>1. n * v = q * grown
    BY <1>1, <1>2
  <2>2. d * G <= d * grown /\ grown * d <= grown * q
    <3>. HIDE DEF grown
    <3>1. d <= q /\ d \in Int /\ q \in Int /\ G \in Int
      BY <1>1, <1>3
    <3>. QED
      BY <1>1, <1>3, <1>5, <3>1, Monotone
  <2>3. grown * d = d * grown /\ grown * q = q * grown
    BY <1>1, <1>5
  <2>. DEFINE i == d * G  j == d * grown  k == q * grown
  <2>4. i \in Nat /\ j \in Nat /\ k \in Nat
    BY <1>1, <1>3, <1>5
  <2>. HIDE DEF i, j, k, grown
  <2>5. i <= j /\ j <= k
    BY <2>2, <2>3 DEF i, j, k
  <2>6. i <= k
    BY <2>4, <2>5
  <2>. QED
    BY <2>1, <2>6 DEF i, k
<1>7. P * v <= M * (d * G) /\ n * grown <= P * w
  <2>1. n * grown <= P * w
    BY DEF w, p, h
  <2>. QED
    BY <2>1 DEF G, v
<1>8. G <= M * w /\ v <= M * (d * w)
  <2>. HIDE DEF grown
  <2>1. G \in Nat \ {0} /\ w \in Nat
    BY <1>2, <1>3, <1>4
  <2>. QED
    BY <1>1, <1>3, <1>5, <1>6, <1>7, <2>1, InstallmentIsLarge
<1>. QED
  BY <1>3, <1>4, <1>8 DEF G, w, p, v, h

\* A row before the last, while the schedule is on track.
LEMMA RowOnTrack ==
    ASSUME NEW rate \in [num : Nat, den : Nat \ {0}], NEW n \in Nat \ {0},
           NEW k \in Nat, k + 1 < n, NEW o \in Nat, NEW M \in Nat,
           NEW last \in BOOLEAN, ~last, NEW g,
           IsAnnuity(g, rate.den, rate.num, rate.den + rate.num),
           OnTrack(M, rate.den, rate.num, n, k, o), g[n] \in Nat,
           g[n] <= M * Power(rate.den, n - 1),
           Power(rate.den + rate.num, n) <= M * (rate.den * Power(rate.den, n - 1))
    PROVE  LET row == Row(o, Interest(o, rate), M, last)
           IN  /\ row.principal + row.closing = o
               /\ OnTrack(M, rate.den, rate.num, n, k + 1, row.closing)
<1>. DEFINE d == rate.den  m == rate.num  t == Interest(o, rate)
            row == Row(o, t, M, last)
<1>1. d \in Nat \ {0} /\ m \in Nat
  OBVIOUS
<1>2. t \in Nat /\ \E r \in 0 .. d - 1 : d * t = m * o + r
  BY InterestBounds
<1>3. PICK r \in 0 .. d - 1 : d * t = m * o + r
  BY <1>2
<1>4. /\ OnTrack(M, d, m, n, k, o) /\ Annuity(d, d + m)[n] \in Nat
      /\ Annuity(d, d + m)[n] <= M * Power(d, n - 1)
      /\ Power(d + m, n) <= M * (d * Power(d, n - 1))
  BY DEF IsAnnuity
<1>. HIDE DEF d, m, t
<1>5. t < M /\ M <= o + t /\ OnTrack(M, d, m, n, k + 1, o + t - M)
  BY <1>1, <1>2, <1>3, <1>4, RowsStayOnTrack
<1>6. row.principal = M - t /\ row.closing = o + t - M
  BY <1>2, <1>5, RowFacts
<1>. HIDE DEF row
<1>7. row.principal + row.closing = o
  BY <1>2, <1>6
<1>. QED
  BY <1>5, <1>6, <1>7 DEF row, t, d, m

\* How the last row of a schedule on track differs from the others.
LEMMA LastRowOnTrack ==
    ASSUME NEW rate \in [num : Nat, den : Nat \ {0}], NEW n \in Nat \ {0},
           NEW k \in Nat, k + 1 = n, NEW o \in Nat, NEW M \in Nat, NEW g,
           IsAnnuity(g, rate.den, rate.num, rate.den + rate.num),
           OnTrack(M, rate.den, rate.num, n, k, o), g[n] \in Nat \ {0}
    PROVE  LET drift == o + Interest(o, rate) - M
           IN  /\ drift \in Int
               /\ -g[n] < drift * Power(rate.den, k)
               /\ drift * Power(rate.den, k) < g[n]
<1>. DEFINE d == rate.den  m == rate.num  t == Interest(o, rate)  q == d + m
            G == g[n]  D == Power(d, k)
            e == Error(M, d, m, 0, o)
<1>1. d \in Nat \ {0} /\ m \in Nat /\ q \in Nat \ {0} /\ G \in Nat \ {0}
      /\ D \in Nat \ {0} /\ IsAnnuity(g, d, m, q) /\ q = d + m
      /\ OnTrack(M, d, m, n, k, o)
  <2>1. d \in Nat \ {0} /\ m \in Nat /\ q = d + m /\ G \in Nat \ {0}
        /\ IsAnnuity(g, d, m, q) /\ OnTrack(M, d, m, n, k, o)
    OBVIOUS
  <2>. HIDE DEF d, m, q, G
  <2>2. q \in Nat \ {0}
    BY <2>1
  <2>. QED
    BY <2>1, <2>2, PowerSteps
<1>2. t \in Nat /\ \E r \in 0 .. d - 1 : d * t = m * o + r
  BY InterestBounds
<1>3. PICK r \in 0 .. d - 1 : d * t = m * o + r
  BY <1>2
<1>. HIDE DEF d, m, t, q
<1>5. Power(d, 0) = 1 /\ Power(q, 0) = 1 /\ Power(q, 0 + 1) = q
  <2>1. Power(d, 0) = 1 /\ Power(q, 0) = 1
    BY <1>1, PowerSteps
  <2>2. Power(q, 0 + 1) = q * Power(q, 0)
    BY <1>1, PowerSteps
  <2>3. q * 1 = q
    BY <1>1
  <2>. QED
    BY <2>1, <2>2, <2>3
<1>6. g[0 + 1] = 1 /\ g = Annuity(d, d + m)
  <2>1. /\ g[0 + 1] \in Nat /\ (0 + 1) * Power(d, 0) <= g[0 + 1]
        /\ g[0 + 1] <= (0 + 1) * Power(q, 0)
    BY <1>1, AnnuityFacts
  <2>2. g = Annuity(d, d + m)
    BY <1>1 DEF IsAnnuity
  <2>. QED
    BY <1>5, <2>1, <2>2
<1>7. e = M * d - (d + m) * o
  <2>1. e = M * (d * g[0 + 1]) - Power(q, 0 + 1) * o
    BY <1>1, <1>6 DEF Error
  <2>2. d * 1 = d
    BY <1>1
  <2>. QED
    BY <1>1, <1>5, <1>6, <2>1, <2>2
<1>8. D * e < d * G /\ D * e >= (d - 1) * (D - G)
  <2>1. 0 \in Nat /\ k + (0 + 1) = n
    OBVIOUS
  <2>2. /\ D * e < d * Annuity(d, d + m)[n]
        /\ D * e >= (d - 1) * (D * Annuity(d, d + m)[0 + 1] - Annuity(d, d + m)[n])
    BY <1>1, <2>1 DEF OnTrack
  <2>3. D * 1 = D
    BY <1>1
  <2>. HIDE DEF D, e
  <2>. QED
    BY <1>6, <2>2, <2>3
<1>. HIDE DEF D, e, G
<1>9. e \in Int
  BY <1>1, <1>7
<1>10. -G < (o + t - M) * D /\ (o + t - M) * D < G
  BY <1>1, <1>2, <1>3, <1>7, <1>8, <1>9, LastDiffers
<1>11. o + t - M \in Int
  BY <1>2
<1>. QED
  BY <1>10, <1>11 DEF t, d, m, G, D

LEMMA ScheduleIsExact ==
    ASSUME NEW P \in Nat, NEW rate \in [num : Nat, den : Nat \ {0}],
           NEW n \in Nat \ {0},
           P * Power(rate.den, n - 1)
             >= n * (n * Power(rate.den + rate.num, n - 1))
    PROVE  LET rows == Schedule(P, rate, n)
               drift == rows[n].total - MonthlyInstallment(P, rate, n)
               unit == Power(rate.den, n - 1)
               grown == n * Power(rate.den + rate.num, n - 1)
           IN  /\ TotalPrincipal(rows) = P
               /\ -grown < drift * unit /\ drift * unit < grown
<1>0. IsRows(Schedule(P, rate, n), MonthlyInstallment(P, rate, n), P, rate, n)
  BY ScheduleRows
<1>. DEFINE d == rate.den  m == rate.num  q == d + m  g == Annuity(d, q)
            rows == Schedule(P, rate, n)
            M == MonthlyInstallment(P, rate, n)
            o(k) == Left(rows, P, k)
            S == {k \in Nat : k < n => /\ OnTrack(M, d, m, n, k, o(k))
                                       /\ Repaid(rows, k) + o(k) = P}
<1>1. /\ M \in Nat /\ DOMAIN rows = 1 .. n /\ o(0) = P
      /\ \A i \in 1 .. n :
           /\ o(i - 1) \in Nat
           /\ rows[i] = Row(o(i - 1), Interest(o(i - 1), rate), M, i = n)
           /\ rows[i] \in Rows /\ o(i) = rows[i].closing
  <2>. HIDE DEF rows, M
  <2>. QED
    BY <1>0 DEF IsRows, rows, M
<1>2. IsAnnuity(g, d, m, q)
  BY DEF IsAnnuity
<1>3. P * Power(q, n) <= M * (d * g[n]) /\ M * (d * g[n]) < P * Power(q, n) + d * g[n]
  BY InstallmentFits
<1>. HIDE DEF rows, M, g
<1>4. /\ g[n] \in Nat \ {0} /\ g[n] <= n * Power(q, n - 1)
      /\ g[n] <= M * Power(d, n - 1)
      /\ Power(q, n) <= M * (d * Power(d, n - 1))
  <2>1. P * Power(d, n - 1) >= n * (n * Power(q, n - 1))
    OBVIOUS
  <2>. HIDE DEF d, m, q
  <2>. QED
    BY <1>1, <1>2, <1>3, <2>1, InstallmentOfLargeLoan
<1>5. /\ Repaid(rows, 0) = 0 /\ TotalPrincipal(rows) = Repaid(rows, n)
      /\ \A k \in Nat : k < n =>
           /\ Repaid(rows, k) \in Nat
           /\ Repaid(rows, k + 1) = Repaid(rows, k) + rows[k + 1].principal
  <2>1. n \in Nat /\ \A i \in 1 .. n : rows[i] \in Rows
    BY <1>1
  <2>. QED
    BY <1>1, <2>1, RepaidSteps
<1>6. \A i \in 1 .. n : rows[i].principal \in Nat /\ rows[i].closing \in Nat
  BY <1>1 DEF Rows
<1>7. 0 \in S
  <2>1. OnTrack(M, d, m, n, 0, P)
    <3>. HIDE DEF d, m, q
    <3>. QED
      BY <1>1, <1>2, <1>3, StartsOnTrack
  <2>. HIDE DEF d, m
  <2>. QED
    BY <1>1, <1>5, <2>1
<1>8. ASSUME NEW k \in Nat, k \in S PROVE k + 1 \in S
  <2>. SUFFICES ASSUME k + 1 < n
       PROVE  /\ OnTrack(M, d, m, n, k + 1, o(k + 1))
              /\ Repaid(rows, k + 1) + o(k + 1) = P
    OBVIOUS
  <2>1. k + 1 \in 1 .. n /\ (k + 1) - 1 = k /\ k < n /\ k + 1 # n
    OBVIOUS
  <2>2. OnTrack(M, d, m, n, k, o(k)) /\ Repaid(rows, k) + o(k) = P
    BY <1>8, <2>1
  <2>. DEFINE last == k + 1 = n
              row == Row(o(k), Interest(o(k), rate), M, last)
  <2>3. last \in BOOLEAN /\ ~last
    BY <2>1
  <2>4. o(k) \in Nat /\ rows[k + 1] = row /\ o(k + 1) = rows[k + 1].closing
    BY <1>1, <2>1
  <2>. HIDE DEF last, o
  <2>5. row.principal + row.closing = o(k) /\ OnTrack(M, d, m, n, k + 1, row.closing)
    <3>1. /\ M \in Nat /\ k \in Nat /\ o(k) \in Nat
          /\ g[n] \in Nat /\ g[n] <= M * Power(d, n - 1)
      BY <1>1, <1>4, <2>4
    <3>. QED
      BY <1>2, <1>4, <2>2, <2>3, <3>1, RowOnTrack
  <2>. HIDE DEF row
  <2>6. rows[k + 1].principal \in Nat /\ rows[k + 1].closing \in Nat
    BY <1>6, <2>1
  <2>7. Repaid(rows, k) \in Nat
        /\ Repaid(rows, k + 1) = Repaid(rows, k) + rows[k + 1].principal
    BY <1>5, <2>1
  <2>8. Repaid(rows, k + 1) + o(k + 1) = P
    BY <2>2, <2>4, <2>5, <2>6, <2>7
  <2>. QED
    BY <2>4, <2>5, <2>8
<1>9. PICK k \in Nat : k + 1 = n /\ k < n /\ n - 1 = k
  <2>1. n - 1 \in Nat /\ (n - 1) + 1 = n /\ n - 1 < n
    OBVIOUS
  <2>. QED
    BY <2>1
<1>10. k \in S
  <2>. HIDE DEF S
  <2>. QED
    BY <1>7, <1>8, SetInduction
<1>11. OnTrack(M, d, m, n, k, o(k)) /\ Repaid(rows, k) + o(k) = P
  BY <1>9, <1>10
<1>. DEFINE t == Interest(o(k), rate)
            drift == rows[n].total - M
<1>12. o(k) \in Nat /\ rows[n].principal = o(k) /\ rows[n].total = o(k) + t
  <2>1. n \in 1 .. n
    OBVIOUS
  <2>2. rows[n] = Row(o(k), t, M, n = n) /\ o(k) \in Nat
    BY <1>1, <1>9, <2>1
  <2>. QED
    BY <2>2 DEF Row
<1>. HIDE DEF o
<1>13. /\ drift \in Int
       /\ -g[n] < drift * Power(d, k) /\ drift * Power(d, k) < g[n]
  <2>1. M \in Nat /\ k \in Nat /\ k + 1 = n /\ o(k) \in Nat /\ g[n] \in Nat \ {0}
    BY <1>1, <1>4, <1>9, <1>12
  <2>2. /\ o(k) + t - M \in Int /\ -g[n] < (o(k) + t - M) * Power(d, k)
        /\ (o(k) + t - M) * Power(d, k) < g[n]
    BY <1>2, <1>11, <2>1, LastRowOnTrack
  <2>3. drift = o(k) + t - M
    <3>1. t \in Nat
      BY <1>12, InterestBounds
    <3>. HIDE DEF t
    <3>. QED
      BY <1>12, <2>1, <3>1
  <2>. HIDE DEF drift, t
  <2>. QED
    BY <2>2, <2>3
<1>. HIDE DEF t
<1>14. TotalPrincipal(rows) = P
  <2>1. Repaid(rows, k) \in Nat
        /\ Repaid(rows, k + 1) = Repaid(rows, k) + rows[k + 1].principal
    BY <1>5, <1>9
  <2>2. Repaid(rows, n) = Repaid(rows, k) + rows[n].principal
    BY <1>9, <2>1
  <2>. QED
    BY <1>5, <1>11, <1>12, <2>2
<1>. DEFINE grown == n * Power(q, n - 1)
<1>15. -grown < drift * Power(d, n - 1) /\ drift * Power(d, n - 1) < grown
  <2>. DEFINE z == drift * Power(d, k)
  <2>1. Power(d, k) \in Nat /\ Power(q, n - 1) \in Nat
    <3>1. d \in Nat \ {0} /\ q \in Nat \ {0} /\ n - 1 \in Nat
      BY <1>9
    <3>. HIDE DEF d, q
    <3>. QED
      BY <1>9, <3>1, PowerSteps
  <2>2. z \in Int /\ grown \in Nat
    BY <1>13, <2>1
  <2>3. -g[n] < z /\ z < g[n] /\ g[n] <= grown /\ g[n] \in Nat
    BY <1>4, <1>13
  <2>4. z = drift * Power(d, n - 1)
    BY <1>9
  <2>. HIDE DEF z, grown, drift
  <2>5. -grown < z /\ z < grown
    BY <2>2, <2>3
  <2>. QED
    BY <2>4, <2>5
<1>. QED
  BY <1>14, <1>15 DEF rows, M

-----------------------------------------------------------------------------
(* Due dates                                                               *)

IsDate(date) == date \in [year : Nat, month : 1 .. 12, day : 1 .. 31]

LEMMA DivideByTwelve ==
    ASSUME NEW a \in Nat
    PROVE  /\ a \div 12 \in Nat /\ a % 12 \in 0 .. 11
           /\ a = 12 * (a \div 12) + (a % 12)
  OBVIOUS

\* A date some months on is in that month, on its day or on the last one.
LEMMA MonthsOn ==
    ASSUME NEW date, IsDate(date), NEW i \in Nat
    PROVE  LET due == AddMonths(date, i)
           IN  /\ due.year \in Nat /\ due.month \in 1 .. 12
               /\ 12 * due.year + due.month = 12 * date.year + date.month + i
               /\ due.day = date.day
                    \/ (due.day < date.day /\ due.day = LastDay(due.year, due.month))
<1>. DEFINE a == date.month - 1 + i
            year == date.year + a \div 12
            next == (a % 12) + 1
            due == AddMonths(date, i)
            last == LastDay(year, next)
<1>1. date.year \in Nat /\ date.month \in 1 .. 12 /\ date.day \in 1 .. 31
  BY DEF IsDate
<1>2. a \in Nat
  BY <1>1
<1>3. due.year = year /\ due.month = next
      /\ due.day = IF date.day <= last THEN date.day ELSE last
  BY DEF AddMonths
<1>. HIDE DEF due, last
<1>4. /\ a \div 12 \in Nat /\ a % 12 \in 0 .. 11
      /\ a = 12 * (a \div 12) + (a % 12)
  <2>. HIDE DEF a
  <2>. QED
    BY <1>2, DivideByTwelve
<1>5. year \in Nat /\ next \in 1 .. 12 /\ 12 * year + next = 12 * date.year + date.month + i
  <2>. DEFINE b == a \div 12  c == a % 12
  <2>1. b \in Nat /\ c \in 0 .. 11 /\ date.month - 1 + i = 12 * b + c
    BY <1>4
  <2>2. year = date.year + b /\ next = c + 1
    OBVIOUS
  <2>. HIDE DEF b, c, year, next
  <2>. QED
    BY <1>1, <2>1, <2>2
<1>6. last \in Nat
  BY DEF last, LastDay
<1>7. due.day = date.day \/ (due.day < date.day /\ due.day = last)
  BY <1>1, <1>3, <1>6
<1>. HIDE DEF year, next
<1>. QED
  BY <1>3, <1>5, <1>7 DEF due, last

LEMMA DueDatesMonthly ==
    ASSUME NEW first, IsDate(first), NEW i \in Nat \ {0}
    PROVE  LET due == DueDate(first, i)
               next == DueDate(first, i + 1)
           IN  /\ 12 * next.year + next.month = 12 * due.year + due.month + 1
               /\ due.day = first.day
                    \/ (due.day < first.day /\ due.day = LastDay(due.year, due.month))
<1>. DEFINE due == AddMonths(first, i - 1)  next == AddMonths(first, i)
<1>1. i - 1 \in Nat /\ i \in Nat /\ (i + 1) - 1 = i
  OBVIOUS
<1>2. /\ due.year \in Nat /\ due.month \in 1 .. 12
      /\ 12 * due.year + due.month = 12 * first.year + first.month + (i - 1)
      /\ due.day = first.day
           \/ (due.day < first.day /\ due.day = LastDay(due.year, due.month))
  BY <1>1, MonthsOn
<1>3. /\ next.year \in Nat /\ next.month \in 1 .. 12
      /\ 12 * next.year + next.month = 12 * first.year + first.month + i
  BY <1>1, MonthsOn
<1>4. first.year \in Nat /\ first.month \in 1 .. 12
  BY DEF IsDate
<1>5. DueDate(first, i) = due /\ DueDate(first, i + 1) = next
  BY <1>1 DEF DueDate
<1>. HIDE DEF due, next
<1>. QED
  BY <1>2, <1>3, <1>4, <1>5

-----------------------------------------------------------------------------
(* The schedule the service saves                                          *)

LEMMA EveryScheduleSound == RowsSound
<1>. SUFFICES ASSUME NEW P \in Principals, NEW rate \in Rates, NEW n \in Months
     PROVE  LET rows == Schedule(P, rate, n)
                drift == rows[n].total - MonthlyInstallment(P, rate, n)
                unit == Power(rate.den, n - 1)
                grown == n * Power(rate.den + rate.num, n - 1)
            IN  /\ rows[n].closing = 0
                /\ TotalPrincipal(rows) >= P
                /\ TotalRepayable(rows) = TotalPrincipal(rows) + TotalInterest(rows)
                /\ P * unit >= n * grown =>
                     /\ TotalPrincipal(rows) = P
                     /\ -grown < drift * unit /\ drift * unit < grown
  BY DEF RowsSound
<1>1. P \in Nat /\ rate \in [num : Nat, den : Nat \ {0}] /\ n \in Nat \ {0}
  BY TermsAssumption
<1>2. LET rows == Schedule(P, rate, n)
      IN  /\ rows[n].closing = 0
          /\ TotalPrincipal(rows) >= P
          /\ TotalRepayable(rows) = TotalPrincipal(rows) + TotalInterest(rows)
  BY <1>1, ScheduleRepays
<1>3. ASSUME P * Power(rate.den, n - 1)
               >= n * (n * Power(rate.den + rate.num, n - 1))
      PROVE  LET rows == Schedule(P, rate, n)
                 drift == rows[n].total - MonthlyInstallment(P, rate, n)
                 unit == Power(rate.den, n - 1)
                 grown == n * Power(rate.den + rate.num, n - 1)
             IN  /\ TotalPrincipal(rows) = P
                 /\ -grown < drift * unit /\ drift * unit < grown
  BY <1>1, <1>3, ScheduleIsExact
<1>. QED
  BY <1>2, <1>3

LEMMA EveryDueDateSound == DatesSound
<1>. SUFFICES ASSUME NEW first \in FirstDates, NEW i \in 1 .. 24
     PROVE  LET due == DueDate(first, i)
                next == DueDate(first, i + 1)
            IN  /\ 12 * next.year + next.month = 12 * due.year + due.month + 1
                /\ due.day = first.day
                     \/ (due.day < first.day /\ due.day = LastDay(due.year, due.month))
  BY DEF DatesSound
<1>1. IsDate(first) /\ i \in Nat \ {0}
  BY TermsAssumption DEF IsDate
<1>. QED
  BY <1>1, DueDatesMonthly

(* Whatever the loan, the rate and the tenure, the schedule saved for an   *)
(* account is paid to zero by its last row and asks for at least the       *)
(* principal; when the loan is not small it asks for exactly the           *)
(* principal, and its last row is within a grown unit a month of the       *)
(* others. Its dates are a month apart.                                    *)
THEOREM SchedulesAreSound == SpecSerial => []ScheduleSound
<1>1. ScheduleSound
  BY EveryScheduleSound, EveryDueDateSound DEF ScheduleSound
<1>. QED
  BY <1>1, PTL
=============================================================================
