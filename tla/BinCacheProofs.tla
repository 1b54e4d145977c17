--------------------------- MODULE BinCacheProofs ---------------------------
(***************************************************************************)
(* Proofs about BinCache, for every period, number of lookups under way,   *)
(* set of cards and set of policies.                                       *)
(***************************************************************************)
EXTENDS BinCacheProps, TLAPS

\* The answer of a judged card is one the type invariant allows.
LEMMA JudgeType ==
    ASSUME NEW info \in Infos, Judge(info)
    PROVE  /\ answer' \in [info : Infos, policy : Policies, allowed : BOOLEAN]
           /\ answer'.info = info
<1>1. PICK policy \in Policies :
        answer' = [info |-> info, policy |-> policy,
                   allowed |-> Permits(policy, info)]
  BY DEF Judge
<1>2. Permits(policy, info) \in BOOLEAN
  BY DEF Permits
<1>. QED
  BY <1>1, <1>2

LEMMA OlderType ==
    ASSUME NEW m \in Nat, NEW n \in 0 .. m
    PROVE  Older(n, m) \in 0 .. m
  BY DEF Older

-----------------------------------------------------------------------------
(* Types                                                                   *)

LEMMA InitType == Init => TypeOK
<1>. SUFFICES ASSUME Init PROVE TypeOK
  OBVIOUS
<1>1. unsaid \in [Infos -> 0 .. Long]
  BY TtlAssumption DEF Init, Long
<1>. QED
  BY <1>1 DEF Init, TypeOK

LEMMA NextType == TypeOK /\ [Next]_vars => TypeOK'
<1>. SUFFICES ASSUME TypeOK, [Next]_vars PROVE TypeOK'
  OBVIOUS
<1>. USE TtlAssumption
<1>1. CASE HitCache
  <2>1. cached.info \in Infos
    BY <1>1 DEF HitCache, TypeOK
  <2>. QED
    BY <1>1, <2>1, JudgeType DEF HitCache, TypeOK
<1>2. CASE HitRow
  <2>1. row.info \in Infos
    BY <1>2 DEF HitRow, RowFresh, TypeOK
  <2>2. cached' \in [info : Infos, left : 1 .. Ttl]
    BY <1>2, <2>1 DEF HitRow
  <2>. QED
    BY <1>2, <2>1, <2>2, JudgeType DEF HitRow, TypeOK
<1>3. CASE Tick
  <2>1. unsaid' \in [Infos -> 0 .. Long]
    <3>1. \A i \in Infos : Older(unsaid[i], Long) \in 0 .. Long /\ 0 \in 0 .. Long
      BY OlderType DEF Long, TypeOK
    <3>. QED
      BY <1>3, <3>1 DEF Tick
  <2>2. row' \in [info : Infos, age : 0 .. Ttl + 1] \cup {Nothing}
    <3>1. CASE row = Nothing
      BY <1>3, <3>1 DEF Tick
    <3>2. CASE row # Nothing
      <4>1. Older(row.age, Ttl + 1) \in 0 .. Ttl + 1
        BY <3>2, OlderType DEF TypeOK
      <4>. QED
        BY <1>3, <3>2, <4>1 DEF Tick, TypeOK
    <3>. QED
      BY <3>1, <3>2
  <2>3. cached' \in [info : Infos, left : 1 .. Ttl] \cup {Nothing}
    BY <1>3 DEF Tick, TypeOK
  <2>. QED
    BY <1>3, <2>1, <2>2, <2>3 DEF Tick, TypeOK
<1>4. ASSUME NEW s \in Sessions, Fetch(s) PROVE TypeOK'
  BY <1>4 DEF Fetch, TypeOK
<1>5. ASSUME NEW s \in Sessions, Store(s) PROVE TypeOK'
  <2>1. fetched[s] \in Infos
    BY <1>5 DEF Store, TypeOK
  <2>2. /\ cached' \in [info : Infos, left : 1 .. Ttl]
        /\ row' \in [info : Infos, age : 0 .. Ttl + 1] \cup {Nothing}
    BY <1>5, <2>1 DEF Store, TypeOK
  <2>. QED
    BY <1>5, <2>1, <2>2, JudgeType DEF Store, TypeOK
<1>6. ASSUME NEW s \in Sessions, StoreFails(s) PROVE TypeOK'
  BY <1>6 DEF StoreFails, TypeOK
<1>7. CASE UNCHANGED vars
  BY <1>7 DEF vars, TypeOK
<1>. QED
  BY <1>1, <1>2, <1>3, <1>4, <1>5, <1>6, <1>7 DEF Next

-----------------------------------------------------------------------------
(* Answers                                                                 *)

\* What is kept is never older than its age or its remaining time says, so an
\* answer taken from it is recent.
RecentInv == TypeOK /\ EntriesAreRecent /\ AnswerIsRecent

LEMMA InitRecent == Init => RecentInv
  BY InitType DEF Init, RecentInv, EntriesAreRecent, AnswerIsRecent

LEMMA NextRecent == RecentInv /\ [Next]_vars => RecentInv'
<1>. SUFFICES ASSUME RecentInv, [Next]_vars
              PROVE  EntriesAreRecent' /\ AnswerIsRecent'
  BY NextType DEF RecentInv
<1>. USE TtlAssumption DEF RecentInv
<1>1. CASE HitCache
  <2>1. cached.info \in Infos /\ unsaid[cached.info] < Long
    BY <1>1 DEF HitCache, TypeOK, EntriesAreRecent, Long
  <2>2. EntriesAreRecent'
    BY <1>1 DEF HitCache, EntriesAreRecent
  <2>. QED
    BY <1>1, <2>1, <2>2, JudgeType DEF HitCache, AnswerIsRecent
<1>2. CASE HitRow
  <2>1. row.info \in Infos /\ unsaid[row.info] \in 0 .. Ttl
    BY <1>2 DEF HitRow, RowFresh, TypeOK, EntriesAreRecent
  <2>2. EntriesAreRecent'
    BY <1>2, <2>1 DEF HitRow, EntriesAreRecent, Long
  <2>. QED
    BY <1>2, <2>1, <2>2, JudgeType DEF HitRow, AnswerIsRecent, Long
<1>3. CASE Tick
  <2>1. \A i \in Infos : /\ unsaid[i] \in 0 .. Long
                         /\ unsaid'[i] <= unsaid[i] + 1
                         /\ unsaid'[i] \in 0 .. Long
    BY <1>3, NextType DEF Tick, TypeOK, Older, Long
  <2>2. unsaid'[provider'] = 0
    BY <1>3 DEF Tick
  <2>3. row' # Nothing /\ row'.age <= Ttl => unsaid'[row'.info] <= row'.age
    <3>. SUFFICES ASSUME row' # Nothing, row'.age <= Ttl
                  PROVE  unsaid'[row'.info] <= row'.age
      OBVIOUS
    <3>1. row # Nothing /\ row.info \in Infos /\ row.age \in 0 .. Ttl + 1
      BY <1>3 DEF Tick, TypeOK
    <3>2. row'.info = row.info /\ row'.age = Older(row.age, Ttl + 1)
      BY <1>3, <3>1 DEF Tick, TypeOK
    <3>3. row'.age = row.age + 1 /\ row.age <= Ttl
      BY <3>1, <3>2 DEF Older
    <3>. QED
      BY <2>1, <3>1, <3>2, <3>3 DEF EntriesAreRecent
  <2>4. cached' # Nothing => unsaid'[cached'.info] + cached'.left <= Long
    <3>. SUFFICES ASSUME cached' # Nothing
                  PROVE  unsaid'[cached'.info] + cached'.left <= Long
      OBVIOUS
    <3>1. cached # Nothing /\ cached.info \in Infos /\ cached.left \in 1 .. Ttl
      BY <1>3 DEF Tick, TypeOK
    <3>2. cached'.info = cached.info /\ cached'.left = cached.left - 1
      BY <1>3, <3>1 DEF Tick, TypeOK
    <3>. QED
      BY <2>1, <3>1, <3>2 DEF EntriesAreRecent, Long
  <2>5. \A s \in Sessions : fetched'[s] = Nothing
    BY <1>3 DEF Tick
  <2>6. answer' = Nothing
    BY <1>3 DEF Tick
  <2>. QED
    BY <2>2, <2>3, <2>4, <2>5, <2>6 DEF EntriesAreRecent, AnswerIsRecent
<1>4. ASSUME NEW s \in Sessions, Fetch(s) PROVE EntriesAreRecent' /\ AnswerIsRecent'
  BY <1>4 DEF Fetch, TypeOK, EntriesAreRecent, AnswerIsRecent
<1>5. ASSUME NEW s \in Sessions, Store(s) PROVE EntriesAreRecent' /\ AnswerIsRecent'
  <2>1. fetched[s] \in Infos /\ unsaid[fetched[s]] = 0
    BY <1>5 DEF Store, TypeOK, EntriesAreRecent
  <2>2. EntriesAreRecent'
    BY <1>5, <2>1 DEF Store, TypeOK, EntriesAreRecent, Long
  <2>. QED
    BY <1>5, <2>1, <2>2, JudgeType DEF Store, AnswerIsRecent, Long
<1>6. ASSUME NEW s \in Sessions, StoreFails(s)
      PROVE  EntriesAreRecent' /\ AnswerIsRecent'
  BY <1>6 DEF StoreFails, TypeOK, EntriesAreRecent, AnswerIsRecent
<1>7. CASE UNCHANGED vars
  BY <1>7 DEF vars, EntriesAreRecent, AnswerIsRecent
<1>. QED
  BY <1>1, <1>2, <1>3, <1>4, <1>5, <1>6, <1>7 DEF Next

\* Every variable keeps its type.
THEOREM TypeOKHolds == Spec => []TypeOK
  BY InitType, NextType, PTL DEF Spec

\* Whatever lookups overlap and fail, an answer rests on what the provider said
\* less than two periods ago, although a row near its end is cached anew.
THEOREM AnswersAreRecent == Spec => []AnswerIsRecent
<1>1. RecentInv => AnswerIsRecent
  BY DEF RecentInv
<1>. QED
  BY <1>1, InitRecent, NextRecent, PTL DEF Spec
=============================================================================
