--------------------------- MODULE ScoringProofs ---------------------------
(***************************************************************************)
(* Proofs about Scoring, for every number of peers, entries, rows and       *)
(* batch size, and about the rules, for all signals.                       *)
(***************************************************************************)
EXTENDS ScoringProps, FiniteSetTheorems, TLAPS

-----------------------------------------------------------------------------
(* What a commit does to the table                                         *)

\* A set of natural numbers that is not empty has a least element.
LEMMA LeastExists ==
    ASSUME NEW S \in SUBSET Nat, S # {}
    PROVE  \E m \in S : \A k \in S : m <= k
<1>. DEFINE T == {0 .. k : k \in S}
<1>1. T \subseteq FiniteSubsetsOf(Nat) /\ T # {}
  <2>1. ASSUME NEW k \in S PROVE 0 .. k \in FiniteSubsetsOf(Nat)
    <3>1. IsFiniteSet(0 .. k)
      BY FS_Interval
    <3>2. 0 .. k \in SUBSET Nat
      OBVIOUS
    <3>. QED
      BY <3>1, <3>2 DEF FiniteSubsetsOf
  <2>. QED
    BY <2>1
<1>2. PICK x \in T : \A y \in T : <<y, x>> \notin StrictSubsetOrdering(Nat)
  <2>1. IsWellFoundedOn(StrictSubsetOrdering(Nat), FiniteSubsetsOf(Nat))
    BY FS_StrictSubsetOrderingWellFounded
  <2>. QED
    BY <1>1, <2>1, WFMin
<1>3. PICK m \in S : x = 0 .. m
  BY <1>2
<1>4. ASSUME NEW k \in S, k < m PROVE FALSE
  <2>1. 0 .. k \subseteq 0 .. m /\ m \in 0 .. m /\ m \notin 0 .. k
    BY <1>4
  <2>2. 0 .. k \in SUBSET Nat /\ 0 .. m \in SUBSET Nat
    OBVIOUS
  <2>3. <<0 .. k, 0 .. m>> \in StrictSubsetOrdering(Nat)
    BY <2>1, <2>2 DEF StrictSubsetOrdering
  <2>4. 0 .. k \in T
    OBVIOUS
  <2>. QED
    BY <1>2, <1>3, <2>3, <2>4
<1>. QED
  BY <1>4

Scores == [status : Statuses, message : Messages \cup {NoMessage}]

\* Table t is the one of before with a new score of session s for message m:
\* one row that was absent, and the scores the session has read stale.
Extended(t, s, outcome, m) ==
    /\ t \in [Rows -> Scores]
    /\ \E new \in Rows :
         /\ score[new].status = "absent"
         /\ t[new] = [status |-> outcome, message |-> m]
         /\ \A r \in Rows \ {new} :
              /\ t[r].message = score[r].message
              /\ t[r].status = IF r \in prior[s] THEN "stale" ELSE score[r].status

LEMMA TableShape ==
    ASSUME TypeOK, NEW s \in Sessions, NEW m \in Messages \cup {NoMessage},
           NEW outcome \in {"computed", "failed"}, Existing # Rows
    PROVE  Extended(Table(s, outcome, m), s, outcome, m)
<1>. DEFINE free == Rows \ Existing
<1>1. free \in SUBSET Nat /\ free # {}
  BY BoundsAssumption DEF Rows, Existing
<1>2. PICK new \in free : \A r \in free : new <= r
  BY <1>1, LeastExists
<1>3. \A r \in free : r # new => ~(r <= new)
  BY <1>1, <1>2
<1>4. score[new].status = "absent"
  BY <1>2 DEF Existing, With
<1>5. \A r \in Rows : (r \notin Existing /\ \A q \in Rows \ Existing : r <= q) <=> r = new
  BY <1>2, <1>3
<1>6. Table(s, outcome, m) =
        [r \in Rows |-> IF r = new THEN [status |-> outcome, message |-> m]
                        ELSE IF r \in prior[s] THEN [score[r] EXCEPT !.status = "stale"]
                        ELSE score[r]]
  BY <1>5 DEF Table
<1>7. \A r \in Rows : score[r] \in Scores
  BY DEF TypeOK, Scores
<1>8. /\ [status |-> outcome, message |-> m] \in Scores
      /\ \A r \in Rows : [score[r] EXCEPT !.status = "stale"] \in Scores
  BY <1>7 DEF Scores, Statuses
<1>9. Table(s, outcome, m) \in [Rows -> Scores]
  BY <1>6, <1>7, <1>8
<1>10. \A r \in Rows \ {new} :
         /\ Table(s, outcome, m)[r].message = score[r].message
         /\ Table(s, outcome, m)[r].status =
              IF r \in prior[s] THEN "stale" ELSE score[r].status
  <2>. TAKE r \in Rows \ {new}
  <2>1. /\ [score[r] EXCEPT !.status = "stale"].message = score[r].message
        /\ [score[r] EXCEPT !.status = "stale"].status = "stale"
    BY <1>7 DEF Scores
  <2>. QED
    BY <1>6, <2>1
<1>. QED
  BY <1>2, <1>4, <1>6, <1>9, <1>10 DEF Extended

LEMMA PersistShape ==
    ASSUME TypeOK, NEW s \in Sessions, NEW m \in Messages \cup {NoMessage},
           Persist(s, m)
    PROVE  \E outcome \in {"computed", "failed"} : Extended(score', s, outcome, m)
<1>1. PICK outcome \in {"computed", "failed"} : score' = Table(s, outcome, m)
  BY DEF Persist
<1>2. Existing # Rows
  BY DEF Persist
<1>3. Extended(Table(s, outcome, m), s, outcome, m)
  BY <1>2, TableShape
<1>. QED
  BY <1>1, <1>3

-----------------------------------------------------------------------------
(* Types                                                                   *)

LEMMA InitType == Init => TypeOK
<1>. SUFFICES ASSUME Init PROVE TypeOK
  OBVIOUS
<1>1. NoRow \in [status : Statuses, message : Messages \cup {NoMessage}]
  BY DEF NoRow, Statuses
<1>2. step \in [Sessions -> Steps] /\ step[Consumer] = "idle"
  BY DEF Init, Steps, Sessions
<1>3. entry \in Seq(Kinds) /\ Len(entry) = 0
  BY DEF Init
<1>4. score \in [Rows -> [status : Statuses, message : Messages \cup {NoMessage}]]
  BY <1>1 DEF Init
<1>5. prior \in [Sessions -> SUBSET Rows]
  BY DEF Init
<1>6. /\ upto \in 1 .. Len(entry) + 1 /\ at \in 1 .. upto
      /\ acked \subseteq 1 .. at - 1 /\ left \subseteq 1 .. at - 1
  BY <1>3 DEF Init
<1>7. overlapped \in BOOLEAN
  BY DEF Init
<1>. QED
  BY <1>2, <1>3, <1>4, <1>5, <1>6, <1>7, BoundsAssumption DEF TypeOK

\* The entry the consumer is at is an entry of the stream.
LEMMA AtIsEntry ==
    ASSUME TypeOK, at < upto
    PROVE  at \in Messages /\ at \in 1 .. Len(entry) /\ entry[at] \in Kinds
  BY BoundsAssumption DEF TypeOK, Messages

LEMMA ReadType ==
    ASSUME TypeOK, NEW s \in Sessions, Read(s)
    PROVE  /\ prior' \in [Sessions -> SUBSET Rows]
           /\ step' \in [Sessions -> Steps]
           /\ overlapped' \in BOOLEAN
           /\ step'[s] = "scoring" /\ \A t \in Sessions \ {s} : step'[t] = step[t]
  BY DEF TypeOK, Read, With, Steps

LEMMA EndType ==
    ASSUME TypeOK, NEW s \in Sessions, End(s)
    PROVE  /\ prior' \in [Sessions -> SUBSET Rows]
           /\ step' \in [Sessions -> Steps]
           /\ step'[s] = "idle" /\ \A t \in Sessions \ {s} : step'[t] = step[t]
  BY DEF TypeOK, End, Steps

LEMMA NextType == TypeOK /\ [Next]_vars => TypeOK'
<1>. SUFFICES ASSUME TypeOK, [Next]_vars PROVE TypeOK'
  OBVIOUS
<1>. USE BoundsAssumption
<1>0. Consumer \in Sessions /\ \A s \in Peers : s \in Sessions /\ s # Consumer
  BY DEF Sessions
<1>1. ASSUME NEW s \in Peers, PeerHandle(s) PROVE TypeOK'
  BY <1>0, <1>1, ReadType DEF PeerHandle, streamVars, TypeOK
<1>2. ASSUME NEW s \in Peers, PeerHandled(s) PROVE TypeOK'
  <2>1. score' \in [Rows -> Scores]
    BY <1>0, <1>2, PersistShape DEF PeerHandled, Extended
  <2>. QED
    BY <1>0, <1>2, <2>1, EndType DEF PeerHandled, streamVars, TypeOK, Scores
<1>3. ASSUME NEW s \in Peers, PeerFails(s) PROVE TypeOK'
  BY <1>0, <1>3, EndType DEF PeerFails, streamVars, TypeOK
<1>4. ASSUME NEW kind \in Kinds, Publish(kind) PROVE TypeOK'
  BY <1>4 DEF Publish, TypeOK
<1>5. CASE Deliver
  BY <1>5 DEF Deliver, TypeOK
<1>6. CASE Handle
  BY <1>0, <1>6, ReadType DEF Handle, streamVars, TypeOK
<1>7. CASE Skip
  BY <1>7 DEF Skip, TypeOK
<1>8. CASE Handled
  <2>1. at < upto
    BY <1>8 DEF Handled, Persist, TypeOK
  <2>2. score' \in [Rows -> Scores]
    BY <1>0, <1>8, <2>1, AtIsEntry, PersistShape DEF Handled, Extended
  <2>. QED
    BY <1>0, <1>8, <2>1, <2>2 DEF Handled, streamVars, TypeOK, Scores, Steps
<1>9. CASE Ack
  <2>1. at < upto
    BY <1>9 DEF Ack, TypeOK
  <2>. QED
    BY <1>0, <1>9, <2>1, EndType DEF Ack, TypeOK
<1>10. CASE Abandon
  BY <1>0, <1>10, EndType DEF Abandon, TypeOK
<1>11. CASE Crash
  BY <1>0, <1>11, EndType DEF Crash, TypeOK
<1>12. CASE UNCHANGED vars
  BY <1>12 DEF vars, streamVars, TypeOK
<1>. QED
  BY <1>1, <1>2, <1>3, <1>4, <1>5, <1>6, <1>7, <1>8, <1>9, <1>10, <1>11, <1>12
     DEF Next

\* Every variable keeps its type.
THEOREM TypeOKHolds == Spec => []TypeOK
  BY InitType, NextType, PTL DEF Spec

\* The steps that leave the table alone, and the two that add a score.
LEMMA ScoreSteps ==
    ASSUME TypeOK, [Next]_vars
    PROVE  \/ score' = score
           \/ \E s \in Sessions, m \in Messages \cup {NoMessage},
                 outcome \in {"computed", "failed"} :
                Extended(score', s, outcome, m)
<1>0. Consumer \in Sessions /\ \A s \in Peers : s \in Sessions
  BY DEF Sessions
<1>1. ASSUME NEW s \in Peers, PeerHandled(s)
      PROVE  \E outcome \in {"computed", "failed"} :
                Extended(score', s, outcome, NoMessage)
  BY <1>0, <1>1, PersistShape DEF PeerHandled
<1>2. ASSUME Handled
      PROVE  /\ at \in Messages
             /\ \E outcome \in {"computed", "failed"} :
                   Extended(score', Consumer, outcome, at)
  <2>1. at < upto
    BY <1>2 DEF Handled, Persist, TypeOK
  <2>. QED
    BY <1>0, <1>2, <2>1, AtIsEntry, PersistShape DEF Handled
<1>3. \/ score' = score
      \/ Handled
      \/ \E s \in Peers : PeerHandled(s)
  BY DEF Next, vars, PeerHandle, PeerFails, Publish, Deliver, Handle, Skip, Ack, Abandon, Crash
<1>. QED
  BY <1>0, <1>1, <1>2, <1>3

-----------------------------------------------------------------------------
(* A score is kept                                                         *)

\* Only the record of a failed computation takes a customer's last score away,
\* however many sessions overlap, fail and die.
THEOREM AScoreIsKept == Spec => KeepsAScore
<1>. DEFINE Kept ==
        With("computed") # {} /\ With("computed")' = {} =>
           \E r \in Rows : score[r].status = "absent" /\ score'[r].status = "failed"
<1>1. TypeOK /\ [Next]_vars => [Kept]_vars
  <2>. SUFFICES ASSUME TypeOK, [Next]_vars, With("computed") # {},
                       With("computed")' = {}
                PROVE  \E r \in Rows :
                          score[r].status = "absent" /\ score'[r].status = "failed"
    OBVIOUS
  <2>1. score' # score
    BY DEF With
  <2>2. PICK s \in Sessions, m \in Messages \cup {NoMessage},
             outcome \in {"computed", "failed"} : Extended(score', s, outcome, m)
    BY <2>1, ScoreSteps
  <2>3. PICK new \in Rows :
           score[new].status = "absent"
           /\ score'[new] = [status |-> outcome, message |-> m]
    BY <2>2 DEF Extended
  <2>4. score'[new].status = outcome
    BY <2>3
  <2>5. outcome # "computed"
    BY <2>4 DEF With
  <2>. QED
    BY <2>3, <2>4, <2>5
<1>. QED
  BY <1>1, InitType, NextType, PTL DEF Spec, KeepsAScore

-----------------------------------------------------------------------------
(* One current score                                                       *)

\* As long as no two sessions have overlapped, the one that is scoring has read
\* the current score, and there is no second one.
OneInv ==
    ~overlapped =>
        /\ \A r, q \in With("computed") : r = q
        /\ \A s \in Sessions : step[s] = "scoring" =>
              /\ prior[s] = With("computed")
              /\ \A t \in Sessions \ {s} : step[t] # "scoring"

LEMMA OneInit == Init => OneInv
  BY DEF Init, OneInv, With, NoRow

\* The table with a new score, of a session that had read the current ones, has
\* no current score but the new one.
LEMMA OneExtended ==
    ASSUME TypeOK, NEW s \in Sessions, NEW m, NEW outcome \in {"computed", "failed"},
           Extended(score', s, outcome, m), prior[s] = With("computed")
    PROVE  \A r, q \in With("computed")' : r = q
<1>1. PICK new \in Rows :
        \A r \in Rows \ {new} :
            score'[r].status = IF r \in prior[s] THEN "stale" ELSE score[r].status
  BY DEF Extended
<1>2. \A r \in Rows \ {new} : score'[r].status # "computed"
  BY <1>1 DEF With
<1>. QED
  BY <1>2 DEF With

LEMMA OneNext == TypeOK /\ OneInv /\ [Next]_vars => OneInv'
<1>. SUFFICES ASSUME TypeOK, OneInv, [Next]_vars, ~overlapped' PROVE OneInv'
  BY DEF OneInv
<1>0. Consumer \in Sessions /\ \A s \in Peers : s \in Sessions /\ s # Consumer
  BY BoundsAssumption DEF Sessions
<1>1. ASSUME NEW s \in Sessions, Read(s), score' = score PROVE OneInv'
  <2>1. ~overlapped /\ \A t \in Sessions \ {s} : step[t] # "scoring"
    BY <1>1 DEF Read, TypeOK
  <2>2. /\ prior'[s] = With("computed") /\ With("computed")' = With("computed")
        /\ \A t \in Sessions \ {s} : step'[t] # "scoring"
    BY <1>1, <2>1 DEF Read, With, TypeOK
  <2>. QED
    BY <2>1, <2>2 DEF OneInv
<1>2. ASSUME NEW s \in Sessions, NEW m \in Messages \cup {NoMessage}, Persist(s, m),
             UNCHANGED overlapped, step'[s] # "scoring",
             \A t \in Sessions \ {s} : step'[t] = step[t]
      PROVE  OneInv'
  <2>1. PICK outcome \in {"computed", "failed"} : Extended(score', s, outcome, m)
    BY <1>2, PersistShape
  <2>2. prior[s] = With("computed") /\ \A t \in Sessions : step'[t] # "scoring"
    BY <1>2 DEF Persist, OneInv
  <2>3. \A r, q \in With("computed")' : r = q
    BY <2>1, <2>2, OneExtended
  <2>. QED
    BY <2>2, <2>3 DEF OneInv
<1>3. ASSUME UNCHANGED <<score, overlapped>>,
             \A t \in Sessions :
                \/ step'[t] = "idle"
                \/ step'[t] = step[t] /\ prior'[t] = prior[t]
      PROVE  OneInv'
  BY <1>3 DEF OneInv, With
<1>4. ASSUME NEW s \in Peers, PeerHandle(s) PROVE OneInv'
  BY <1>0, <1>1, <1>4 DEF PeerHandle
<1>5. ASSUME NEW s \in Peers, PeerHandled(s) PROVE OneInv'
  BY <1>0, <1>2, <1>5, EndType DEF PeerHandled
<1>6. CASE Handle
  BY <1>0, <1>1, <1>6 DEF Handle
<1>7. CASE Handled
  <2>1. at \in Messages
    BY <1>7, AtIsEntry DEF Handled, Persist, TypeOK
  <2>2. step'[Consumer] = "acking" /\ \A t \in Sessions \ {Consumer} : step'[t] = step[t]
    BY <1>0, <1>7 DEF Handled, TypeOK
  <2>. QED
    BY <1>0, <1>2, <1>7, <2>1, <2>2 DEF Handled
<1>8. ASSUME NEW s \in Sessions, End(s), UNCHANGED <<score, overlapped>> PROVE OneInv'
  <2>1. \A t \in Sessions :
            \/ step'[t] = "idle"
            \/ step'[t] = step[t] /\ prior'[t] = prior[t]
    BY <1>8 DEF End, TypeOK
  <2>. QED
    BY <1>3, <1>8, <2>1
<1>9. CASE \/ Ack \/ Abandon \/ Crash
           \/ \E s \in Peers : PeerFails(s)
  BY <1>0, <1>8, <1>9 DEF Ack, Abandon, Crash, PeerFails
<1>10. CASE \/ \E kind \in Kinds : Publish(kind)
            \/ Deliver \/ Skip \/ UNCHANGED vars
  BY <1>3, <1>10 DEF Publish, Deliver, Skip, vars
<1>. QED
  BY <1>4, <1>5, <1>6, <1>7, <1>9, <1>10 DEF Next

\* A customer has one current score at most until two sessions overlap.
THEOREM OneScoreIsCurrent == Spec => []OneCurrentScore
<1>1. OneInv => OneCurrentScore
  <2>. SUFFICES ASSUME OneInv, ~overlapped PROVE Cardinality(With("computed")) <= 1
    BY DEF OneCurrentScore
  <2>1. CASE With("computed") = {}
    BY <2>1, FS_EmptySet
  <2>2. CASE With("computed") # {}
    <3>1. PICK r \in With("computed") : With("computed") = {r}
      BY <2>2 DEF OneInv
    <3>2. Cardinality({r}) = 1
      BY FS_Singleton, Zenon
    <3>3. Cardinality(With("computed")) = 1
      BY <3>1, <3>2
    <3>. QED
      BY <3>3
  <2>. QED
    BY <2>1, <2>2
<1>. QED
  BY <1>1, InitType, NextType, OneInit, OneNext, PTL DEF Spec

-----------------------------------------------------------------------------
(* Acknowledged entries                                                    *)

\* A score of the entry the consumer is at exists exactly between the commit
\* and XACK, and there is none of a later entry.
AckInv ==
    /\ AckedIsScored
    /\ \A r \in Rows :
         /\ score[r].message <= at
         /\ score[r].message = at => step[Consumer] = "acking"
         /\ score[r].status = "absent" => score[r].message = NoMessage
    /\ step[Consumer] = "acking" => \E r \in Rows : score[r].message = at

LEMMA AckInit == Init => AckInv
  BY DEF Init, AckInv, AckedIsScored, NoRow, NoMessage, Sessions

\* A new score takes no message of another row away.
LEMMA AckExtended ==
    ASSUME TypeOK, AckInv, NEW s, NEW m \in Messages \cup {NoMessage},
           NEW outcome \in {"computed", "failed"}, Extended(score', s, outcome, m)
    PROVE  \E new \in Rows :
             /\ score[new].message = NoMessage
             /\ score'[new].message = m /\ score'[new].status # "absent"
             /\ \A r \in Rows \ {new} :
                  /\ score'[r].message = score[r].message
                  /\ score'[r].status = "absent" => score[r].status = "absent"
  BY DEF Extended, AckInv

LEMMA AckNext == TypeOK /\ AckInv /\ [Next]_vars => AckInv'
<1>. SUFFICES ASSUME TypeOK, AckInv, [Next]_vars PROVE AckInv'
  OBVIOUS
<1>. USE DEF NoMessage
<1>0. Consumer \in Sessions /\ \A s \in Peers : s \in Sessions /\ s # Consumer
  BY BoundsAssumption DEF Sessions
<1>a. /\ at \in Nat \ {0} /\ upto \in Nat /\ at <= upto
      /\ \A m \in acked : m \in Nat \ {0} /\ m < at /\ m <= Len(entry)
      /\ \A r \in Rows : score[r].message \in Nat
  BY DEF TypeOK, Messages
<1>1. ASSUME UNCHANGED <<entry, at, acked, score>>, step'[Consumer] = step[Consumer]
      PROVE  AckInv'
  BY <1>1 DEF AckInv, AckedIsScored
<1>2. ASSUME NEW s \in Peers, PeerHandled(s) PROVE AckInv'
  <2>1. PICK outcome \in {"computed", "failed"} : Extended(score', s, outcome, NoMessage)
    BY <1>0, <1>2, PersistShape DEF PeerHandled
  <2>2. PICK new \in Rows :
             /\ score[new].message = NoMessage
             /\ score'[new].message = NoMessage /\ score'[new].status # "absent"
             /\ \A r \in Rows \ {new} :
                  /\ score'[r].message = score[r].message
                  /\ score'[r].status = "absent" => score[r].status = "absent"
    BY <2>1, AckExtended
  <2>3. \A r \in Rows : score'[r].message = score[r].message
    BY <2>2
  <2>4. step'[Consumer] = step[Consumer] /\ UNCHANGED <<entry, at, acked>>
    BY <1>0, <1>2, EndType DEF PeerHandled, streamVars
  <2>5. AckedIsScored'
    BY <2>3, <2>4 DEF AckInv, AckedIsScored
  <2>. QED
    BY <2>2, <2>3, <2>4, <2>5 DEF AckInv
<1>3. CASE Handled
  <2>1. at \in Messages /\ step[Consumer] = "scoring"
    BY <1>3, AtIsEntry DEF Handled, Persist, TypeOK
  <2>2. PICK outcome \in {"computed", "failed"} : Extended(score', Consumer, outcome, at)
    BY <1>0, <1>3, <2>1, PersistShape DEF Handled
  <2>3. PICK new \in Rows :
             /\ score[new].message = NoMessage
             /\ score'[new].message = at /\ score'[new].status # "absent"
             /\ \A r \in Rows \ {new} :
                  /\ score'[r].message = score[r].message
                  /\ score'[r].status = "absent" => score[r].status = "absent"
    BY <2>1, <2>2, AckExtended
  <2>4. step'[Consumer] = "acking" /\ UNCHANGED <<entry, at, acked>>
    BY <1>0, <1>3 DEF Handled, streamVars, TypeOK
  <2>5. \A r \in Rows : score[r].message < at
    BY <1>a, <2>1 DEF AckInv
  <2>6. \A m \in acked : entry[m] = "approved" =>
            \E r \in Rows : score'[r].message = m
    <3>. SUFFICES ASSUME NEW m \in acked, entry[m] = "approved"
                  PROVE  \E r \in Rows : score'[r].message = m
      OBVIOUS
    <3>1. PICK r \in Rows : score[r].message = m
      BY DEF AckInv, AckedIsScored
    <3>2. r # new
      BY <1>a, <2>3, <3>1
    <3>. QED
      BY <2>3, <3>1, <3>2
  <2>7. \A r, q \in Rows :
            score'[r].message = score'[q].message /\ r # q => score'[r].message = NoMessage
    <3>. SUFFICES ASSUME NEW r \in Rows, NEW q \in Rows, r # q,
                         score'[r].message = score'[q].message
                  PROVE  score'[r].message = NoMessage
      OBVIOUS
    <3>1. \A t \in Rows \ {new} : score'[t].message = score[t].message
                                  /\ score[t].message # at
      BY <1>a, <2>3, <2>5
    <3>2. r # new /\ q # new
      BY <2>3, <3>1
    <3>. QED
      BY <3>1, <3>2 DEF AckInv, AckedIsScored
  <2>8. AckedIsScored'
    BY <2>4, <2>6, <2>7 DEF AckedIsScored
  <2>. QED
    BY <1>a, <2>3, <2>4, <2>5, <2>8 DEF AckInv
<1>4. ASSUME NEW s \in Peers, PeerHandle(s) \/ PeerFails(s) PROVE AckInv'
  <2>1. step'[Consumer] = step[Consumer]
    BY <1>0, <1>4, ReadType, EndType DEF PeerHandle, PeerFails
  <2>. QED
    BY <1>1, <1>4, <2>1 DEF PeerHandle, PeerFails, streamVars
<1>5. ASSUME NEW kind \in Kinds, Publish(kind) PROVE AckInv'
  <2>1. \A m \in acked : entry'[m] = entry[m]
    BY <1>a, <1>5 DEF Publish, TypeOK
  <2>2. AckedIsScored'
    BY <1>5, <2>1 DEF Publish, AckInv, AckedIsScored
  <2>. QED
    BY <1>5, <2>2 DEF Publish, AckInv
<1>6. CASE Handle
  <2>1. step[Consumer] = "idle" /\ step'[Consumer] = "scoring"
    BY <1>0, <1>6, ReadType DEF Handle
  <2>. QED
    BY <1>6, <2>1 DEF Handle, streamVars, AckInv, AckedIsScored
<1>7. CASE Skip
  <2>1. AckedIsScored'
    BY <1>7 DEF Skip, AckInv, AckedIsScored
  <2>2. at' = at + 1 /\ UNCHANGED <<score, step>> /\ step[Consumer] = "idle"
    BY <1>7 DEF Skip
  <2>. QED
    BY <1>a, <2>1, <2>2 DEF AckInv
<1>8. CASE Ack
  <2>1. step[Consumer] = "acking" /\ step'[Consumer] = "idle"
        /\ at' = at + 1 /\ acked' = acked \cup {at} /\ UNCHANGED <<entry, score>>
    BY <1>0, <1>8, EndType DEF Ack
  <2>2. AckedIsScored'
    BY <2>1 DEF AckInv, AckedIsScored
  <2>. QED
    BY <1>a, <2>1, <2>2 DEF AckInv
<1>9. ASSUME Abandon \/ Crash PROVE AckInv'
  <2>1. step'[Consumer] = "idle" /\ UNCHANGED <<entry, acked, score>>
    BY <1>0, <1>9, EndType DEF Abandon, Crash
  <2>2. at' \in Nat /\ at < at'
    BY <1>a, <1>9 DEF Abandon, Crash
  <2>3. AckedIsScored'
    BY <2>1 DEF AckInv, AckedIsScored
  <2>. QED
    BY <1>a, <2>1, <2>2, <2>3 DEF AckInv
<1>10. CASE Deliver \/ UNCHANGED vars
  BY <1>1, <1>10 DEF Deliver, vars, streamVars
<1>. QED
  BY <1>2, <1>3, <1>4, <1>5, <1>6, <1>7, <1>8, <1>9, <1>10 DEF Next

\* Whatever errors and crashes meet the consumer, an acknowledged approval has
\* its score, and no entry has two.
THEOREM AcknowledgedIsScored == Spec => []AckedIsScored
<1>1. AckInv => AckedIsScored
  BY DEF AckInv
<1>. QED
  BY <1>1, InitType, NextType, AckInit, AckNext, PTL DEF Spec

-----------------------------------------------------------------------------
(* Refinement                                                              *)

LEMMA MailInitially == Init => Box!MailInit
<1>. SUFFICES ASSUME Init PROVE Mail = [m \in Messages |-> "absent"]
  BY DEF Box!MailInit
<1>1. acked = {} /\ left = {} /\ Len(entry) = 0
  BY DEF Init
<1>2. \A m \in Messages : m > Len(entry) /\ m \notin acked /\ m \notin left
  BY <1>1, BoundsAssumption DEF Messages
<1>. QED
  BY <1>2 DEF Mail

\* The entries of a set go from one state of the mailbox to another; the others
\* stay where they are.
LEMMA MailMoves ==
    ASSUME NEW M \in SUBSET Messages, NEW from, NEW to,
           \/ from = "absent" /\ to = "waiting"
           \/ from = "waiting" /\ to = "taken"
           \/ from = "taken" /\ to = "acked"
           \/ from = "taken" /\ to = "left",
           \A m \in M : Mail[m] = from /\ Mail'[m] = to,
           \A m \in Messages \ M : Mail'[m] = Mail[m]
    PROVE  Box!MailNext
<1>. DEFINE new == [m \in Messages |-> IF m \in M THEN to ELSE Mail[m]]
<1>1. Mail' = new
  <2>1. \A m \in Messages : Mail'[m] = new[m]
    OBVIOUS
  <2>2. \E f : Mail' = [m \in Messages |-> f[m]]
    BY DEF Mail
  <2>. QED
    BY <2>1, <2>2
<1>2. Box!Move(M, from, to)
  BY <1>1 DEF Box!Move
<1>. QED
  BY <1>2 DEF Box!MailNext

LEMMA MailSteps == TypeOK /\ [Next]_vars => [Box!MailNext]_Mail
<1>. SUFFICES ASSUME TypeOK, [Next]_vars PROVE Box!MailNext \/ Mail' = Mail
  OBVIOUS
<1>a. /\ at \in Nat \ {0} /\ upto \in Nat \ {0} /\ at <= upto
      /\ Len(entry) \in Nat /\ upto <= Len(entry) + 1 /\ Len(entry) <= MaxMessages
      /\ \A m \in acked \cup left : m \in Nat \ {0} /\ m < at
  BY DEF TypeOK
<1>. USE <1>a, BoundsAssumption DEF Messages
<1>1. ASSUME NEW kind \in Kinds, Publish(kind) PROVE Box!MailNext
  <2>. DEFINE M == {Len(entry) + 1}
  <2>1. Len(entry') = Len(entry) + 1 /\ M \subseteq Messages
    BY <1>1 DEF Publish, TypeOK
  <2>2. \A m \in M : Mail[m] = "absent" /\ Mail'[m] = "waiting"
    <3>. SUFFICES ASSUME NEW m \in M
                  PROVE  Mail[m] = "absent" /\ Mail'[m] = "waiting"
      OBVIOUS
    <3>1. m \notin acked \cup left /\ m > Len(entry) /\ m >= upto
      OBVIOUS
    <3>2. /\ m \notin acked' \cup left' /\ ~(m > Len(entry')) /\ m >= upto'
      BY <1>1, <2>1, <3>1 DEF Publish
    <3>. QED
      BY <2>1, <3>1, <3>2 DEF Mail
  <2>3. \A m \in Messages \ M : Mail'[m] = Mail[m]
    BY <1>1, <2>1 DEF Publish, Mail
  <2>. HIDE DEF M
  <2>. QED
    BY <2>1, <2>2, <2>3, MailMoves
<1>2. CASE Deliver
  <2>. DEFINE M == upto .. upto' - 1
  <2>1. upto' \in Nat /\ upto < upto' /\ upto' <= Len(entry) + 1 /\ M \subseteq Messages
    BY <1>2 DEF Deliver
  <2>2. \A m \in M : Mail[m] = "waiting" /\ Mail'[m] = "taken"
    BY <1>2, <2>1 DEF Deliver, Mail
  <2>3. \A m \in Messages \ M : Mail'[m] = Mail[m]
    BY <1>2, <2>1 DEF Deliver, Mail
  <2>. HIDE DEF M
  <2>. QED
    BY <2>1, <2>2, <2>3, MailMoves
<1>3. CASE Skip \/ Ack
  <2>. DEFINE M == {at}
  <2>1. /\ at < upto /\ acked' = acked \cup M /\ UNCHANGED <<entry, upto, left>>
        /\ M \subseteq Messages
    BY <1>3 DEF Skip, Ack, TypeOK
  <2>2. \A m \in M : Mail[m] = "taken" /\ Mail'[m] = "acked"
    BY <2>1 DEF Mail
  <2>3. \A m \in Messages \ M : Mail'[m] = Mail[m]
    BY <2>1 DEF Mail
  <2>. HIDE DEF M
  <2>. QED
    BY <2>1, <2>2, <2>3, MailMoves
<1>4. CASE Abandon \/ Crash
  <2>1. PICK n \in Nat : n = at'
    BY <1>4 DEF Abandon, Crash
  <2>. DEFINE M == at .. n - 1
  <2>2. /\ at < n /\ n <= upto /\ left' = left \cup M
        /\ UNCHANGED <<entry, upto, acked>> /\ M \subseteq Messages
    <3>1. CASE Abandon
      <4>1. n = at + 1 /\ M = {at}
        BY <2>1, <3>1 DEF Abandon
      <4>. QED
        BY <3>1, <4>1 DEF Abandon
    <3>2. CASE Crash
      BY <2>1, <3>2 DEF Crash
    <3>. QED
      BY <1>4, <3>1, <3>2
  <2>3. \A m \in M : Mail[m] = "taken" /\ Mail'[m] = "left"
    <3>. SUFFICES ASSUME NEW m \in M PROVE Mail[m] = "taken" /\ Mail'[m] = "left"
      OBVIOUS
    <3>1. m \in Messages /\ m >= at /\ m < upto /\ m <= Len(entry)
      BY <2>2
    <3>2. m \notin acked \cup left /\ m \in left'
      BY <2>2, <3>1
    <3>. QED
      BY <2>2, <3>1, <3>2 DEF Mail
  <2>4. \A m \in Messages \ M : Mail'[m] = Mail[m]
    BY <2>2 DEF Mail
  <2>. HIDE DEF M
  <2>. QED
    BY <2>2, <2>3, <2>4, MailMoves
<1>5. CASE UNCHANGED <<entry, upto, acked, left>>
  BY <1>5 DEF Mail
<1>. QED
  BY <1>1, <1>2, <1>3, <1>4, <1>5
     DEF Next, vars, streamVars, PeerHandle, PeerHandled, PeerFails, Handle, Handled

\* The consumer implements the mailbox: no entry is taken twice, and one that is
\* acknowledged or abandoned stays so.
THEOREM ConsumerIsMailbox == Spec => ImplementsMailbox
  BY MailInitially, MailSteps, InitType, NextType, PTL
     DEF Spec, ImplementsMailbox, Box!MailSpec

-----------------------------------------------------------------------------
(* Sums over finite sets. MapThenSumSet recurs over the subsets of its set, *)
(* taking a chosen member out each time; what it computes is proved by      *)
(* looking at a smallest subset for which it would not.                     *)

Chosen(s) == CHOOSE x \in s : TRUE

\* The recursion behind the sum, on the subsets of a set.
Sums(g, f, S) ==
    g = [s \in SUBSET S |-> IF s = {} THEN 0
                            ELSE f[Chosen(s)] + g[s \ {Chosen(s)}]]

LEMMA ChosenIsMember ==
    ASSUME NEW s, s # {}
    PROVE  Chosen(s) \in s
  BY DEF Chosen

\* A family of subsets of a finite set has a minimal member.
LEMMA SmallestSubset ==
    ASSUME NEW S, IsFiniteSet(S), NEW B, B \subseteq SUBSET S, B # {}
    PROVE  \E s \in B : \A u \in B : u \subseteq s => u = s
<1>1. IsWellFoundedOn(StrictSubsetOrdering(S), FiniteSubsetsOf(S))
  BY FS_StrictSubsetOrderingWellFounded
<1>2. B \subseteq FiniteSubsetsOf(S)
  BY FS_FiniteSubsetsOfFinite
<1>3. \E s \in B : \A u \in B : ~(<<u, s>> \in StrictSubsetOrdering(S))
  BY <1>1, <1>2, WFMin
<1>4. PICK s \in B : \A u \in B : ~(<<u, s>> \in StrictSubsetOrdering(S))
  BY <1>3
<1>5. ASSUME NEW u \in B, u \subseteq s
      PROVE  u = s
  BY <1>4, <1>5 DEF StrictSubsetOrdering
<1>. QED
  BY <1>5

LEMMA SumsUnique ==
    ASSUME NEW f, NEW S, IsFiniteSet(S), NEW T, NEW g, NEW h,
           Sums(g, f, S), Sums(h, f, T), NEW r, r \subseteq S, r \subseteq T
    PROVE  g[r] = h[r]
<1>. DEFINE B == {s \in SUBSET S : s \subseteq T /\ g[s] # h[s]}
<1>. SUFFICES ASSUME B # {} PROVE FALSE
  OBVIOUS
<1>1. PICK s \in B : \A u \in B : u \subseteq s => u = s
  <2>. HIDE DEF B
  <2>1. B \subseteq SUBSET S
    BY DEF B
  <2>. QED
    BY <2>1, SmallestSubset
<1>2. /\ g[s] = IF s = {} THEN 0 ELSE f[Chosen(s)] + g[s \ {Chosen(s)}]
      /\ h[s] = IF s = {} THEN 0 ELSE f[Chosen(s)] + h[s \ {Chosen(s)}]
  BY DEF Sums
<1>3. s # {} /\ Chosen(s) \in s
  BY <1>2, ChosenIsMember
<1>4. g[s \ {Chosen(s)}] = h[s \ {Chosen(s)}]
  BY <1>1, <1>3
<1>. QED
  BY <1>2, <1>3, <1>4

LEMMA SumsExist ==
    ASSUME NEW f, NEW S, IsFiniteSet(S)
    PROVE  \E g : Sums(g, f, S)
<1>. DEFINE B == {U \in SUBSET S : ~\E g : Sums(g, f, U)}
<1>. SUFFICES ASSUME B # {} PROVE FALSE
  OBVIOUS
<1>1. PICK U \in B : \A u \in B : u \subseteq U => u = U
  <2>. HIDE DEF B
  <2>1. B \subseteq SUBSET S
    BY DEF B
  <2>. QED
    BY <2>1, SmallestSubset
<1>. DEFINE G(t) == CHOOSE g : Sums(g, f, t)
            Rest(s) == s \ {Chosen(s)}
            h == [s \in SUBSET U |-> IF s = {} THEN 0
                                     ELSE f[Chosen(s)] + G(Rest(s))[Rest(s)]]
<1>2. ASSUME NEW t, t \subseteq U, t # U
      PROVE  Sums(G(t), f, t) /\ IsFiniteSet(t)
  <2>1. \E g : Sums(g, f, t)
    BY <1>1, <1>2
  <2>2. IsFiniteSet(t)
    BY <1>2, FS_Subset
  <2>. QED
    BY <2>1, <2>2
<1>. HIDE DEF G
<1>3. ASSUME NEW s \in SUBSET U, s # {}
      PROVE  h[Rest(s)] = G(Rest(s))[Rest(s)]
  <2>1. Chosen(s) \in s
    BY <1>3, ChosenIsMember
  <2>. DEFINE t == Rest(s)
  <2>2. t \subseteq U /\ t # U
    BY <2>1
  <2>3. Sums(G(t), f, t) /\ IsFiniteSet(t)
    BY <1>2, <2>2
  <2>. HIDE DEF t
  <2>4. G(t)[t] = IF t = {} THEN 0 ELSE f[Chosen(t)] + G(t)[Rest(t)]
    BY <2>3 DEF Sums
  <2>5. h[t] = IF t = {} THEN 0 ELSE f[Chosen(t)] + G(Rest(t))[Rest(t)]
    BY <2>2
  <2>6. CASE t # {}
    <3>1. Chosen(t) \in t
      BY <2>6, ChosenIsMember
    <3>2. Rest(t) \subseteq t /\ Rest(t) \subseteq U /\ Rest(t) # U
      BY <2>2, <3>1
    <3>3. Sums(G(Rest(t)), f, Rest(t)) /\ IsFiniteSet(Rest(t))
      BY <1>2, <3>2
    <3>4. G(Rest(t))[Rest(t)] = G(t)[Rest(t)]
      <4>. HIDE DEF Rest
      <4>. QED
        BY <2>3, <3>2, <3>3, SumsUnique
    <3>. QED
      BY <2>4, <2>5, <2>6, <3>4 DEF t
  <2>. QED
    BY <2>4, <2>5, <2>6 DEF t
<1>4. h = [s \in SUBSET U |-> IF s = {} THEN 0
                              ELSE f[Chosen(s)] + h[s \ {Chosen(s)}]]
  <2>. DEFINE k == [s \in SUBSET U |-> IF s = {} THEN 0
                              ELSE f[Chosen(s)] + h[s \ {Chosen(s)}]]
  <2>1. ASSUME NEW s \in SUBSET U
        PROVE  h[s] = k[s]
    BY <1>3
  <2>. HIDE DEF G
  <2>. QED
    BY <2>1
<1>5. Sums(h, f, U)
  BY <1>4 DEF Sums
<1>. QED
  BY <1>5


LEMMA TotalIsRecursive ==
    ASSUME NEW f, IsFiniteSet(DOMAIN f)
    PROVE  \E g : Sums(g, f, DOMAIN f) /\ Total(f) = g[DOMAIN f]
<1>1. Total(f) = (CHOOSE g : Sums(g, f, DOMAIN f))[DOMAIN f]
  BY DEF Total, MapThenSumSet, MapThenFoldSet, Sums, Chosen
<1>. QED
  BY <1>1, SumsExist

\* A sum of greater values is greater.
LEMMA TotalGrows ==
    ASSUME NEW S, IsFiniteSet(S), NEW f \in [S -> Int], NEW h \in [S -> Int],
           \A x \in S : f[x] <= h[x]
    PROVE  Total(f) \in Int /\ Total(h) \in Int /\ Total(f) <= Total(h)
<1>1. PICK t : Sums(t, f, S) /\ Total(f) = t[S]
  BY TotalIsRecursive
<1>2. PICK u : Sums(u, h, S) /\ Total(h) = u[S]
  BY TotalIsRecursive
<1>. DEFINE B == {s \in SUBSET S : ~(t[s] \in Int /\ u[s] \in Int /\ t[s] <= u[s])}
<1>3. ASSUME B # {} PROVE FALSE
  <2>1. PICK s \in B : \A r \in B : r \subseteq s => r = s
    <3>. HIDE DEF B
    <3>1. B \subseteq SUBSET S
      BY DEF B
    <3>. QED
      BY <1>3, <3>1, SmallestSubset
  <2>2. /\ t[s] = IF s = {} THEN 0 ELSE f[Chosen(s)] + t[s \ {Chosen(s)}]
        /\ u[s] = IF s = {} THEN 0 ELSE h[Chosen(s)] + u[s \ {Chosen(s)}]
    BY <1>1, <1>2 DEF Sums
  <2>3. s # {} /\ Chosen(s) \in s
    BY <2>2, ChosenIsMember
  <2>. DEFINE r == s \ {Chosen(s)}
  <2>4. t[r] \in Int /\ u[r] \in Int /\ t[r] <= u[r]
    BY <2>1, <2>3
  <2>. QED
    BY <2>2, <2>3, <2>4
<1>. QED
  BY <1>1, <1>2, <1>3

LEMMA TotalIsNatural ==
    ASSUME NEW S, IsFiniteSet(S), NEW f \in [S -> Nat]
    PROVE  Total(f) \in Nat
<1>1. PICK u : Sums(u, f, S) /\ Total(f) = u[S]
  BY TotalIsRecursive
<1>. DEFINE B == {s \in SUBSET S : u[s] \notin Nat}
<1>2. ASSUME B # {} PROVE FALSE
  <2>1. PICK s \in B : \A r \in B : r \subseteq s => r = s
    <3>. HIDE DEF B
    <3>1. B \subseteq SUBSET S
      BY DEF B
    <3>. QED
      BY <1>2, <3>1, SmallestSubset
  <2>2. u[s] = IF s = {} THEN 0 ELSE f[Chosen(s)] + u[s \ {Chosen(s)}]
    BY <1>1 DEF Sums
  <2>3. s # {} /\ Chosen(s) \in s
    BY <2>2, ChosenIsMember
  <2>4. u[s \ {Chosen(s)}] \in Nat
    BY <2>1, <2>3
  <2>. QED
    BY <2>2, <2>3, <2>4
<1>. QED
  BY <1>1, <1>2

-----------------------------------------------------------------------------
(* The scale                                                               *)

LEMMA Division ==
    ASSUME NEW n \in Nat, NEW d \in Nat \ {0}
    PROVE  /\ n \div d \in Nat /\ n % d \in 0 .. d - 1
           /\ n = d * (n \div d) + (n % d)
  OBVIOUS

LEMMA RoundGrows ==
    ASSUME NEW m \in Nat, NEW n \in Nat, m <= n, NEW d \in Nat \ {0}
    PROVE  /\ Round(m, d) \in Nat /\ Round(n, d) \in Nat
           /\ Round(m, d) <= Round(n, d)
           /\ m \div d <= n \div d
           /\ n \div d <= Round(n, d) /\ Round(m, d) <= m \div d + 1
<1>. DEFINE q == m \div d  r == m % d  t == n \div d  u == n % d
<1>1. q \in Nat /\ r \in 0 .. d - 1 /\ m = d * q + r
  BY Division
<1>2. t \in Nat /\ u \in 0 .. d - 1 /\ n = d * t + u
  BY Division
<1>3. Round(m, d) = IF 2 * r > d \/ (2 * r = d /\ q % 2 = 1) THEN q + 1 ELSE q
  BY DEF Round
<1>4. Round(n, d) = IF 2 * u > d \/ (2 * u = d /\ t % 2 = 1) THEN t + 1 ELSE t
  BY DEF Round
<1>. HIDE DEF q, r, t, u
<1>5. q <= t
  <2>1. ASSUME q > t PROVE FALSE
    <3>1. d * q >= d * (t + 1)
      BY <1>1, <1>2, <2>1
    <3>2. d * (t + 1) = d * t + d
      BY <1>2
    <3>3. d * q \in Nat /\ d * t \in Nat
      BY <1>1, <1>2
    <3>. DEFINE x == d * q  y == d * t
    <3>. HIDE DEF x, y
    <3>4. x >= y + d /\ m = x + r /\ n = y + u /\ x \in Nat /\ y \in Nat
      BY <1>1, <1>2, <3>1, <3>2, <3>3 DEF x, y
    <3>. QED
      BY <1>1, <1>2, <3>4
  <2>. QED
    BY <1>1, <1>2, <2>1
<1>6. CASE q = t
  <2>1. r <= u
    <3>. DEFINE x == d * q
    <3>1. x \in Nat /\ m = x + r /\ n = x + u
      BY <1>1, <1>2, <1>6
    <3>. HIDE DEF x
    <3>. QED
      BY <1>1, <1>2, <3>1
  <2>. QED
    BY <1>1, <1>2, <1>3, <1>4, <1>6, <2>1 DEF q, t
<1>7. CASE q < t
  BY <1>1, <1>2, <1>3, <1>4, <1>7 DEF q, t
<1>. QED
  BY <1>1, <1>2, <1>5, <1>6, <1>7

Share(c, p) ==
    IF <<c, p>> \in FloatsUp THEN (c * 550) \div p + 1 ELSE Round(c * 550, p)

LEMMA ShareGrows ==
    ASSUME NEW a \in Nat, NEW b \in Nat, a <= b, NEW p \in Nat \ {0}
    PROVE  Share(a, p) \in Nat /\ Share(b, p) \in Nat /\ Share(a, p) <= Share(b, p)
<1>. DEFINE m == a * 550  n == b * 550
<1>1. m \in Nat /\ n \in Nat /\ m <= n
  OBVIOUS
<1>2. /\ Round(m, p) \in Nat /\ Round(n, p) \in Nat
      /\ Round(m, p) <= Round(n, p) /\ m \div p <= n \div p
      /\ n \div p <= Round(n, p) /\ Round(m, p) <= m \div p + 1
      /\ m \div p \in Nat /\ n \div p \in Nat
  <2>. HIDE DEF m, n
  <2>. QED
    BY <1>1, RoundGrows, Division
<1>3. CASE <<a, p>> \in FloatsUp
  <2>1. p = 100 /\ a \in {7, 69}
    BY <1>3 DEF FloatsUp
  <2>2. CASE a = b
    BY <1>2, <1>3, <2>2 DEF Share
  <2>3. CASE a < b
    <3>1. m \div p + 1 <= n \div p
      BY <2>1, <2>3
    <3>. QED
      BY <1>2, <1>3, <3>1 DEF Share
  <2>. QED
    BY <2>2, <2>3
<1>4. CASE <<a, p>> \notin FloatsUp
  BY <1>2, <1>4 DEF Share
<1>. QED
  BY <1>3, <1>4

LEMMA ScaleGrows ==
    ASSUME NEW a \in Int, NEW b \in Int, a <= b, NEW p \in Nat \ {0}
    PROVE  /\ Scale(a, p) <= Scale(b, p)
           /\ ScoreMin <= Scale(a, p) /\ Scale(a, p) \in Int /\ Scale(b, p) \in Int
<1>. DEFINE c == Greatest(0, Least(a, p))  d == Greatest(0, Least(b, p))
<1>1. c \in Nat /\ d \in Nat /\ c <= d
  BY DEF Greatest, Least
<1>2. /\ Scale(a, p) = Greatest(ScoreMin, Least(ScoreMax, ScoreMin + Share(c, p)))
      /\ Scale(b, p) = Greatest(ScoreMin, Least(ScoreMax, ScoreMin + Share(d, p)))
  BY DEF Scale, Share, ScoreMin, ScoreMax
<1>. HIDE DEF c, d
<1>3. Share(c, p) \in Nat /\ Share(d, p) \in Nat /\ Share(c, p) <= Share(d, p)
  BY <1>1, ShareGrows
<1>. QED
  BY <1>2, <1>3 DEF Greatest, Least, ScoreMin, ScoreMax

-----------------------------------------------------------------------------
(* The rules                                                               *)

\* Factor f is no better than g, out of the same points.
NoBetter(f, g) ==
    /\ f \in Int \X Nat /\ g \in Int \X Nat
    /\ f[2] = g[2] /\ f[1] <= g[1]

LEMMA StatusesRanked ==
    /\ Rank("rejected") = 1 /\ Rank("expired") = 2 /\ Rank("pending") = 3
    /\ Rank("initiated") = 4 /\ Rank("in_review") = 5 /\ Rank("approved") = 6
<1>1. /\ DOMAIN StatusOrder = 1 .. 6
      /\ StatusOrder[1] = "rejected" /\ StatusOrder[2] = "expired"
      /\ StatusOrder[3] = "pending" /\ StatusOrder[4] = "initiated"
      /\ StatusOrder[5] = "in_review" /\ StatusOrder[6] = "approved"
  BY DEF StatusOrder
<1>2. \A i, j \in 1 .. 6 : StatusOrder[i] = StatusOrder[j] => i = j
  BY <1>1
<1>3. ASSUME NEW i \in 1 .. 6 PROVE Rank(StatusOrder[i]) = i
  BY <1>1, <1>2 DEF Rank
<1>. QED
  BY <1>1, <1>3

LEMMA StatusNoBetter ==
    ASSUME NEW w \in KycSignals, NEW b \in KycSignals, WorseKyc(w, b)
    PROVE  NoBetter(KycStatus(w), KycStatus(b))
<1>. DEFINE S == {"approved", "in_review", "initiated", "pending", "expired",
                  "rejected"}
            P(s) == Points(StatusPoints, s, 0)
<1>1. /\ P("approved") = 35 /\ P("in_review") = 18 /\ P("initiated") = 10
      /\ P("pending") = 5 /\ P("expired") = -10 /\ P("rejected") = -40
  BY DEF Points, StatusPoints
<1>. HIDE DEF P
<1>2. ASSUME NEW s \in S, NEW t \in S, Rank(s) <= Rank(t) PROVE P(s) <= P(t)
  BY <1>1, <1>2, StatusesRanked
<1>3. CASE NoSignal \in {w, b}
  BY <1>3 DEF WorseKyc, KycStatus, None, NoBetter
<1>4. CASE NoSignal \notin {w, b}
  <2>1. w.status \in S /\ b.status \in S
    BY <1>4, SignalsAssumption DEF SignalsAssumption
  <2>2. P(w.status) <= P(b.status) /\ P(w.status) \in Int /\ P(b.status) \in Int
    <3>1. Rank(w.status) <= Rank(b.status)
      <4>1. CASE w = b
        <5>1. Rank(b.status) \in Int
          BY <2>1, StatusesRanked
        <5>. QED
          BY <4>1, <5>1
      <4>. QED
        BY <4>1 DEF WorseKyc
    <3>2. \A s \in S : P(s) \in Int
      BY <1>1
    <3>. QED
      BY <1>2, <2>1, <3>1, <3>2
  <2>3. KycStatus(w) = <<P(w.status), 35>> /\ KycStatus(b) = <<P(b.status), 35>>
    BY <1>4 DEF KycStatus, P
  <2>. QED
    BY <2>2, <2>3 DEF NoBetter
<1>. QED
  BY <1>3, <1>4

\* The points for a risk.
RiskPoints(risk) == IF risk = 95 THEN 1 ELSE Round(10 * (100 - risk), 100)

LEMMA RiskNoBetter ==
    ASSUME NEW w \in KycSignals, NEW b \in KycSignals, WorseKyc(w, b)
    PROVE  NoBetter(KycRisk(w), KycRisk(b))
<1>1. ASSUME NEW r \in 0 .. 100, NEW q \in 0 .. 100, r >= q
      PROVE  RiskPoints(r) \in Int /\ RiskPoints(q) \in Int
             /\ RiskPoints(r) <= RiskPoints(q)
  <2>. DEFINE m == 10 * (100 - r)  n == 10 * (100 - q)
  <2>1. m \in Nat /\ n \in Nat /\ m <= n /\ 100 \in Nat \ {0}
    BY <1>1
  <2>2. Round(m, 100) \in Nat /\ Round(n, 100) \in Nat
        /\ Round(m, 100) <= Round(n, 100)
    <3>. HIDE DEF m, n
    <3>. QED
      BY <2>1, RoundGrows
  <2>3. CASE r = 95
    <3>1. q = 95 \/ n >= 60
      BY <1>1, <2>3
    <3>2. q # 95 => Round(n, 100) >= 1
      <4>. HIDE DEF n
      <4>. QED
        BY <2>1, <3>1 DEF Round
    <3>. QED
      BY <2>2, <2>3, <3>2 DEF RiskPoints
  <2>4. CASE r # 95 /\ q = 95
    <3>1. m <= 50
      BY <1>1, <2>4
    <3>2. Round(m, 100) <= 1
      <4>. HIDE DEF m
      <4>. QED
        BY <2>1, <3>1 DEF Round
    <3>. QED
      BY <2>2, <2>4, <3>2 DEF RiskPoints
  <2>5. CASE r # 95 /\ q # 95
    BY <2>2, <2>5 DEF RiskPoints
  <2>. QED
    BY <2>3, <2>4, <2>5
<1>2. CASE NoSignal \in {w, b}
  BY <1>2 DEF WorseKyc, KycRisk, None, NoBetter
<1>3. CASE NoSignal \notin {w, b}
  <2>1. w.risk \in {NoSignal} \cup 0 .. 100 /\ b.risk \in {NoSignal} \cup 0 .. 100
    BY <1>3, SignalsAssumption DEF SignalsAssumption
  <2>2. CASE NoSignal \in {w.risk, b.risk}
    BY <1>3, <2>2 DEF WorseKyc, KycRisk, None, NoBetter
  <2>3. CASE NoSignal \notin {w.risk, b.risk}
    <3>1. /\ w.risk \in 0 .. 100 /\ b.risk \in 0 .. 100 /\ w.risk >= b.risk
      BY <1>3, <2>1, <2>3 DEF WorseKyc
    <3>2. /\ KycRisk(w) = <<RiskPoints(w.risk), 10>>
          /\ KycRisk(b) = <<RiskPoints(b.risk), 10>>
      BY <1>3, <2>3 DEF KycRisk, RiskPoints
    <3>3. /\ RiskPoints(w.risk) \in Int /\ RiskPoints(b.risk) \in Int
          /\ RiskPoints(w.risk) <= RiskPoints(b.risk)
      BY <1>1, <3>1
    <3>. QED
      BY <3>2, <3>3 DEF NoBetter
  <2>. QED
    BY <2>2, <2>3
<1>. QED
  BY <1>2, <1>3

LEMMA FlagNoBetter ==
    ASSUME NEW w \in KycSignals, NEW b \in KycSignals, WorseKyc(w, b)
    PROVE  NoBetter(PepFlag(w), PepFlag(b))
  BY SignalsAssumption DEF SignalsAssumption, WorseKyc, PepFlag, None, NoBetter

LEMMA DocumentsNoBetter ==
    ASSUME NEW w \in KycSignals, NEW b \in KycSignals, WorseKyc(w, b)
    PROVE  NoBetter(IdentityDocuments(w), IdentityDocuments(b))
<1>1. CASE b = NoSignal \/ b.documents = << >>
  BY <1>1 DEF WorseKyc, IdentityDocuments, None, NoBetter
<1>2. CASE ~(b = NoSignal \/ b.documents = << >>)
  <2>. DEFINE d == b.documents
              f == [i \in DOMAIN d |-> Points(DocumentPoints, d[i], 2)]
  <2>1. IdentityDocuments(w) = IdentityDocuments(b)
    BY <1>2 DEF WorseKyc, IdentityDocuments
  <2>2. IdentityDocuments(b) = <<Least(Total(f), 25), 25>>
    BY <1>2 DEF IdentityDocuments
  <2>3. d \in Seq(STRING)
    BY <1>2, SignalsAssumption DEF SignalsAssumption
  <2>4. IsFiniteSet(DOMAIN d)
    BY <2>3, FS_Interval
  <2>5. ASSUME NEW s PROVE Points(DocumentPoints, s, 2) \in Int
    BY DEF Points, DocumentPoints
  <2>6. f \in [DOMAIN d -> Int]
    <3>. HIDE DEF d
    <3>. QED
      BY <2>5
  <2>7. Total(f) \in Int
    <3>1. \A i \in DOMAIN d : f[i] <= f[i]
      <4>. HIDE DEF f
      <4>. QED
        BY <2>6
    <3>. HIDE DEF d, f
    <3>. QED
      BY <2>4, <2>6, <3>1, TotalGrows
  <2>. HIDE DEF f
  <2>. QED
    BY <2>1, <2>2, <2>7 DEF NoBetter, Least
<1>. QED
  BY <1>1, <1>2

\* Incomes that WorseIncome compares differ in the income only.
LEMMA IncomesCompared ==
    ASSUME NEW w \in IncomeSignals, NEW b \in IncomeSignals, WorseIncome(w, b), w # b
    PROVE  /\ NoSignal \notin {w, b} /\ NoSignal \notin {w.income, b.income}
           /\ w.income \in Nat /\ b.income \in Nat /\ w.income <= b.income
           /\ w.employment = b.employment /\ w.months = b.months
           /\ w.businessMonths = b.businessMonths
  BY SignalsAssumption DEF SignalsAssumption, WorseIncome

LEMMA EmploymentNoBetter ==
    ASSUME NEW w \in IncomeSignals, NEW b \in IncomeSignals, WorseIncome(w, b)
    PROVE  /\ NoBetter(EmploymentType(w), EmploymentType(b))
           /\ NoBetter(EmploymentTenure(w), EmploymentTenure(b))
<1>1. EmploymentType(w) = EmploymentType(b)
  <2>1. CASE w # b
    BY <2>1, IncomesCompared DEF EmploymentType
  <2>. QED
    BY <2>1
<1>2. EmploymentTenure(w) = EmploymentTenure(b)
  <2>1. CASE w # b
    BY <2>1, IncomesCompared DEF EmploymentTenure, Tenure
  <2>. QED
    BY <2>1
<1>3. EmploymentType(b) \in Int \X Nat
  <2>1. ASSUME NEW s PROVE Points(EmploymentPoints, s, 0) \in Int
    BY DEF Points, EmploymentPoints
  <2>. QED
    BY <2>1 DEF EmploymentType, None
<1>4. EmploymentTenure(b) \in Int \X Nat
  <2>1. CASE b = NoSignal \/ Tenure(b) = NoSignal
    BY <2>1 DEF EmploymentTenure, None
  <2>2. CASE ~(b = NoSignal \/ Tenure(b) = NoSignal)
    <3>1. Tenure(b) \in Nat
      BY <2>2, SignalsAssumption DEF SignalsAssumption, Tenure
    <3>2. PICK months \in Nat : months = Tenure(b)
      BY <3>1
    <3>3. EmploymentTenure(b) =
            <<CASE months < 6 -> 1
                [] months \in 6 .. 11 -> 3
                [] months \in 12 .. 23 -> 5
                [] months \in 24 .. 47 -> 7
                [] OTHER -> 8, 8>>
      BY <2>2, <3>2 DEF EmploymentTenure
    <3>. QED
      BY <3>3
  <2>. QED
    BY <2>1, <2>2
<1>. QED
  BY <1>1, <1>2, <1>3, <1>4 DEF NoBetter

LEMMA SufficiencyNoBetter ==
    ASSUME NEW w \in IncomeSignals, NEW b \in IncomeSignals, WorseIncome(w, b),
           NEW a \in Amounts, NEW q \in Amounts,
           a = q \/ (NoSignal \notin {a, q} /\ a >= q)
    PROVE  NoBetter(IncomeSufficiency(w, a), IncomeSufficiency(b, q))
<1>1. CASE b = NoSignal \/ b.income = NoSignal
  BY <1>1 DEF WorseIncome, IncomeSufficiency, None, NoBetter
<1>2. CASE ~(b = NoSignal \/ b.income = NoSignal)
  <2>1. /\ w # NoSignal /\ w.income # NoSignal
        /\ w.income \in Nat /\ b.income \in Nat /\ w.income <= b.income
    <3>1. b.income \in Nat
      BY <1>2, SignalsAssumption DEF SignalsAssumption
    <3>. QED
      BY <1>2, <3>1, IncomesCompared
  <2>2. CASE NoSignal \in {a, q}
    BY <1>2, <2>1, <2>2 DEF IncomeSufficiency, NoBetter
  <2>3. CASE NoSignal \notin {a, q}
    <3>1. a \in Nat /\ q \in Nat /\ a >= q
      BY <2>3, SignalsAssumption DEF SignalsAssumption
    <3>2. ASSUME NEW p \in Nat, WithinDti(a, w.income, p)
          PROVE  WithinDti(q, b.income, p)
      <4>1. /\ w.income > 0 /\ 100 * a <= (p * 12) * w.income
        BY <3>2 DEF WithinDti
      <4>2. (p * 12) * w.income <= (p * 12) * b.income
        BY <2>1
      <4>3. 100 * q <= (p * 12) * b.income
        <5>. DEFINE x == (p * 12) * w.income  y == (p * 12) * b.income
        <5>1. x \in Nat /\ y \in Nat
          BY <2>1
        <5>. HIDE DEF x, y
        <5>2. 100 * a <= x /\ x <= y
          BY <4>1, <4>2 DEF x, y
        <5>3. 100 * q <= y
          BY <3>1, <5>1, <5>2
        <5>. QED
          BY <5>3 DEF y
      <4>. QED
        BY <2>1, <4>1, <4>3 DEF WithinDti
    <3>. DEFINE W(p) == WithinDti(a, w.income, p)  B(p) == WithinDti(q, b.income, p)
                V(P(_)) == IF P(20) THEN 5 ELSE IF P(30) THEN 4
                           ELSE IF P(40) THEN 2 ELSE IF P(55) THEN 0 ELSE -5
    <3>3. \A p \in {20, 30, 40, 55} : W(p) => B(p)
      BY <3>2
    <3>4. /\ IncomeSufficiency(w, a) = <<V(W), 5>>
          /\ IncomeSufficiency(b, q) = <<V(B), 5>>
      BY <1>2, <2>1, <2>3 DEF IncomeSufficiency
    <3>. HIDE DEF W, B
    <3>. QED
      BY <3>3, <3>4 DEF NoBetter
  <2>. QED
    BY <2>2, <2>3
<1>. QED
  BY <1>1, <1>2

LEMMA TrackNoBetter ==
    ASSUME NEW w \in RepaymentSignals, NEW b \in RepaymentSignals, WorseRepayment(w, b)
    PROVE  NoBetter(TrackRecord(w), TrackRecord(b))
<1>1. CASE ~HasHistory(b) \/ b.payments = 0
  BY <1>1 DEF WorseRepayment, HasHistory, TrackRecord, None, NoBetter
<1>2. CASE ~(~HasHistory(b) \/ b.payments = 0)
  <2>1. /\ HasHistory(w) /\ w.payments = b.payments /\ b.payments \in Nat
        /\ w.onTime \in Nat /\ b.onTime \in Nat /\ w.onTime <= b.onTime
    BY <1>2, SignalsAssumption DEF SignalsAssumption, WorseRepayment, HasHistory
  <2>. DEFINE n == b.payments
              W(p) == 100 * w.onTime >= p * n  B(p) == 100 * b.onTime >= p * n
  <2>2. \A p \in {97, 90, 80, 70} : W(p) => B(p)
    BY <2>1
  <2>3. /\ TrackRecord(w) = <<IF W(97) THEN 8 ELSE IF W(90) THEN 6
                              ELSE IF W(80) THEN 3 ELSE IF W(70) THEN 1 ELSE -3, 8>>
        /\ TrackRecord(b) = <<IF B(97) THEN 8 ELSE IF B(90) THEN 6
                              ELSE IF B(80) THEN 3 ELSE IF B(70) THEN 1 ELSE -3, 8>>
    BY <1>2, <2>1 DEF TrackRecord
  <2>. HIDE DEF W, B
  <2>. QED
    BY <2>2, <2>3 DEF NoBetter
<1>. QED
  BY <1>1, <1>2

LEMMA LapsesNoBetter ==
    ASSUME NEW w \in RepaymentSignals, NEW b \in RepaymentSignals, WorseRepayment(w, b)
    PROVE  /\ NoBetter(Defaults(w), Defaults(b))
           /\ NoBetter(DaysPastDue(w), DaysPastDue(b))
<1>1. CASE ~HasHistory(b)
  BY <1>1 DEF WorseRepayment, HasHistory, Defaults, DaysPastDue, None, NoBetter
<1>2. CASE HasHistory(b)
  <2>1. /\ HasHistory(w)
        /\ w.defaults \in Nat /\ b.defaults \in Nat /\ w.defaults >= b.defaults
        /\ w.pastDue \in Nat /\ b.pastDue \in Nat /\ w.pastDue >= b.pastDue
    BY <1>2, SignalsAssumption DEF SignalsAssumption, WorseRepayment, HasHistory
  <2>2. NoBetter(Defaults(w), Defaults(b))
    BY <1>2, <2>1 DEF Defaults, NoBetter
  <2>3. PICK x \in Nat, y \in Nat : x = w.pastDue /\ y = b.pastDue /\ x >= y
    BY <2>1
  <2>4. DaysPastDue(w) =
          <<CASE x = 0 -> 3
              [] x \in 1 .. 14 -> 1
              [] x \in 15 .. 29 -> 0
              [] x \in 30 .. 59 -> -3
              [] x \in 60 .. 89 -> -5
              [] OTHER -> -8, 3>>
    BY <2>1, <2>3 DEF DaysPastDue
  <2>5. DaysPastDue(b) =
          <<CASE y = 0 -> 3
              [] y \in 1 .. 14 -> 1
              [] y \in 15 .. 29 -> 0
              [] y \in 30 .. 59 -> -3
              [] y \in 60 .. 89 -> -5
              [] OTHER -> -8, 3>>
    BY <1>2, <2>3 DEF DaysPastDue
  <2>6. NoBetter(DaysPastDue(w), DaysPastDue(b))
    BY <2>3, <2>4, <2>5 DEF NoBetter
  <2>. QED
    BY <2>2, <2>6
<1>. QED
  BY <1>1, <1>2

-----------------------------------------------------------------------------
(* The score                                                               *)

\* What a factor adds to the points awarded.
Counted(f) == IF f[2] > 0 \/ f[1] < 0 THEN f[1] ELSE 0
Stopped(kyc) == kyc # NoSignal /\ kyc.sanctioned

\* Ten rules of which none awards more give a score that is not higher.
LEMMA ScoreNoBetter ==
    ASSUME NEW k, NEW i, NEW r, NEW a, NEW l, NEW j, NEW s, NEW q,
           \A n \in 1 .. 10 : NoBetter(Factors(k, i, r, a)[n], Factors(l, j, s, q)[n]),
           Stopped(l) => Stopped(k)
    PROVE  Score(k, i, r, a) <= Score(l, j, s, q)
<1>. DEFINE f == Factors(k, i, r, a)  g == Factors(l, j, s, q)
            af == [n \in 1 .. 10 |-> Counted(f[n])]
            ag == [n \in 1 .. 10 |-> Counted(g[n])]
            pf == [n \in 1 .. 10 |-> f[n][2]]
            pg == [n \in 1 .. 10 |-> g[n][2]]
<1>1. DOMAIN f = 1 .. 10 /\ DOMAIN g = 1 .. 10
  BY DEF Factors
<1>2. Score(k, i, r, a) = IF Stopped(k) \/ Total(pf) = 0 THEN ScoreMin
                          ELSE Scale(Total(af), Total(pf))
  BY <1>1 DEF Score, Stopped, Counted
<1>3. Score(l, j, s, q) = IF Stopped(l) \/ Total(pg) = 0 THEN ScoreMin
                          ELSE Scale(Total(ag), Total(pg))
  BY <1>1 DEF Score, Stopped, Counted
<1>4. \A n \in 1 .. 10 : NoBetter(f[n], g[n])
  OBVIOUS
<1>. HIDE DEF f, g
<1>5. pf = pg /\ pf \in [1 .. 10 -> Nat]
  BY <1>4 DEF NoBetter
<1>6. /\ af \in [1 .. 10 -> Int] /\ ag \in [1 .. 10 -> Int]
      /\ \A n \in 1 .. 10 : af[n] <= ag[n]
  BY <1>4 DEF NoBetter, Counted
<1>. HIDE DEF af, ag, pf, pg
<1>7. IsFiniteSet(1 .. 10)
  <2>1. 1 \in Int /\ 10 \in Int
    OBVIOUS
  <2>. QED
    BY <2>1, FS_Interval
<1>8. Total(af) \in Int /\ Total(ag) \in Int /\ Total(af) <= Total(ag)
  BY <1>6, <1>7, TotalGrows
<1>9. Total(pf) \in Nat
  BY <1>5, <1>7, TotalIsNatural
<1>10. CASE Stopped(l) \/ Total(pf) = 0
  BY <1>2, <1>3, <1>5, <1>10 DEF ScoreMin
<1>11. CASE ~(Stopped(l) \/ Total(pf) = 0)
  <2>1. /\ Scale(Total(af), Total(pf)) <= Scale(Total(ag), Total(pf))
        /\ ScoreMin <= Scale(Total(af), Total(pf))
        /\ Scale(Total(af), Total(pf)) \in Int /\ Scale(Total(ag), Total(pf)) \in Int
    BY <1>8, <1>9, <1>11, ScaleGrows
  <2>. QED
    BY <1>2, <1>3, <1>5, <1>11, <2>1 DEF ScoreMin
<1>. QED
  BY <1>10, <1>11

LEMMA WorseScoresLower ==
    ASSUME NEW k \in KycSignals, NEW l \in KycSignals, WorseKyc(k, l),
           NEW i \in IncomeSignals, NEW j \in IncomeSignals, WorseIncome(i, j),
           NEW r \in RepaymentSignals, NEW s \in RepaymentSignals, WorseRepayment(r, s),
           NEW a \in Amounts, NEW q \in Amounts,
           a = q \/ (NoSignal \notin {a, q} /\ a >= q)
    PROVE  Score(k, i, r, a) <= Score(l, j, s, q)
<1>1. /\ NoBetter(KycStatus(k), KycStatus(l)) /\ NoBetter(KycRisk(k), KycRisk(l))
      /\ NoBetter(PepFlag(k), PepFlag(l))
      /\ NoBetter(IdentityDocuments(k), IdentityDocuments(l))
  BY StatusNoBetter, RiskNoBetter, FlagNoBetter, DocumentsNoBetter
<1>2. /\ NoBetter(EmploymentType(i), EmploymentType(j))
      /\ NoBetter(EmploymentTenure(i), EmploymentTenure(j))
      /\ NoBetter(IncomeSufficiency(i, a), IncomeSufficiency(j, q))
  BY EmploymentNoBetter, SufficiencyNoBetter
<1>3. /\ NoBetter(TrackRecord(r), TrackRecord(s)) /\ NoBetter(Defaults(r), Defaults(s))
      /\ NoBetter(DaysPastDue(r), DaysPastDue(s))
  BY TrackNoBetter, LapsesNoBetter
<1>4. ASSUME NEW n \in 1 .. 10
      PROVE  NoBetter(Factors(k, i, r, a)[n], Factors(l, j, s, q)[n])
  BY <1>1, <1>2, <1>3 DEF Factors
<1>5. Stopped(l) => Stopped(k)
  BY DEF Stopped, WorseKyc
<1>. QED
  BY <1>4, <1>5, ScoreNoBetter

\* A customer is never scored higher for a worse signal, for any signals as the
\* schemas describe them, any amounts, and however many sessions are under way.
THEOREM WorseNeverScoresHigher == Spec => []WorseIsNotBetter
<1>1. ScoreIsMonotone
  <2>. SUFFICES ASSUME NEW kyc \in KycSignals, NEW income \in IncomeSignals,
                       NEW repayment \in RepaymentSignals, NEW requested \in Amounts
       PROVE  /\ \A w \in KycSignals : WorseKyc(w, kyc) =>
                    Score(w, income, repayment, requested)
                      <= Score(kyc, income, repayment, requested)
              /\ \A w \in IncomeSignals : WorseIncome(w, income) =>
                    Score(kyc, w, repayment, requested)
                      <= Score(kyc, income, repayment, requested)
              /\ \A w \in RepaymentSignals : WorseRepayment(w, repayment) =>
                    Score(kyc, income, w, requested)
                      <= Score(kyc, income, repayment, requested)
              /\ \A a \in Amounts : NoSignal \notin {a, requested} /\ a >= requested =>
                    Score(kyc, income, repayment, a)
                      <= Score(kyc, income, repayment, requested)
    BY DEF ScoreIsMonotone
  <2>1. /\ WorseKyc(kyc, kyc) /\ WorseIncome(income, income)
        /\ WorseRepayment(repayment, repayment)
    BY DEF WorseKyc, WorseIncome, WorseRepayment
  <2>. QED
    BY <2>1, WorseScoresLower
<1>2. WorseIsNotBetter
  BY <1>1 DEF WorseIsNotBetter
<1>. QED
  BY <1>2, PTL
=============================================================================
