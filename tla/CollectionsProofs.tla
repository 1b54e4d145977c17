-------------------------- MODULE CollectionsProofs --------------------------
(***************************************************************************)
(* Theorems about the collections service, for any sets of loans, agents   *)
(* and sessions, any case limit and any calendar.                          *)
(*                                                                         *)
(* Everything rests on what an open session holds (SessionInv): it means   *)
(* to commit a state its transition table allows after the one it read, so *)
(* the commit always writes the column `state', and the counter it holds   *)
(* is within the limit.                                                    *)
(***************************************************************************)
EXTENDS CollectionsProps, FiniteSetTheorems, TLAPS

SessionOf(w) ==
    /\ pc[w] # "idle" =>
        /\ loan[w] \in Loans
        /\ work[w].state \in States
        /\ work[w].state \in Transitions(loaded[w].state)
    /\ agent[w] # Nobody => load[w] \in 0 .. MaxCases

SessionInv == TypeOK /\ CountWithinLimit /\ \A w \in Workers : SessionOf(w)

\* What a session that has just read a case and passed its check may hold.
Starts(w, l, new) ==
    /\ new \in Cases /\ new.state \in States
    /\ new.state \in Transitions(cases[l].state)

\* No state leads to itself, and every target is a state of a row.
LEMMA TransitionMoves ==
    ASSUME NEW s, NEW t \in Transitions(s)
    PROVE  t # s /\ t \in States
BY DEF Transitions, Terminal, States

-----------------------------------------------------------------------------
(* Each operation opens a session that may start, or changes no session.   *)

LEMMA OpenKeeps ==
    ASSUME SessionInv, NEW w \in Workers, NEW l \in Loans, NEW new, NEW next,
           next \in Steps \ {"idle"}, Starts(w, l, new), Open(w, l, new, next),
           overdue' \subseteq Loans
    PROVE  SessionInv'
<1>1. TypeOK'
  BY DEF SessionInv, TypeOK, Open, Starts, Steps, rowVars, streamVars
<1>2. CountWithinLimit'
  BY DEF SessionInv, CountWithinLimit, Open, rowVars
<1>3. ASSUME NEW v \in Workers PROVE SessionOf(v)'
  <2>1. CASE v = w
    BY <2>1, SessionInv, l \in Loans
    DEF SessionInv, TypeOK, SessionOf, Open, Starts
  <2>2. CASE v # w
    <3>1. SessionOf(v)
      BY DEF SessionInv
    <3>2. /\ pc'[v] = pc[v] /\ loan'[v] = loan[v] /\ work'[v] = work[v]
          /\ loaded'[v] = loaded[v] /\ agent'[v] = agent[v] /\ load'[v] = load[v]
      BY <2>2 DEF SessionInv, TypeOK, Open
    <3> QED
      BY <3>1, <3>2 DEF SessionOf
  <2> QED
    BY <2>1, <2>2
<1> QED
  BY <1>1, <1>2, <1>3 DEF SessionInv

\* What each first step means for the agent of the case.
Kind(l, new, next) ==
    \/ next = "pick" /\ new.agent = cases[l].agent /\ new.state \notin Terminal
    \/ next = "decrement" /\ new.agent = cases[l].agent /\ new.state \in Terminal
    \/ next = "commit" /\ new.agent \in ByHand \cup {cases[l].agent}

\* An operation on case l by session w is the start of a session, or the sweep
\* passing over a case.
OpensSession(w, l) ==
    \E new, next : /\ next \in Steps \ {"idle"}
                   /\ Starts(w, l, new)
                   /\ Open(w, l, new, next) /\ Kind(l, new, next)
                   /\ new.state = "BROKEN_PROMISE" => l \in overdue \ overdue'
PassesOver ==
    UNCHANGED <<rowVars, streamVars, today, sessionVars, overlapped>>

\* What any operation does, as far as these proofs are concerned.
StartsOrPasses(w, l) ==
    /\ OpensSession(w, l) \/ PassesOver
    /\ overdue' \subseteq overdue

LEMMA OperationShape ==
    ASSUME SessionInv, NEW w \in Workers, NEW l \in Loans, Operation(w, l)
    PROVE  StartsOrPasses(w, l)
<1> SUFFICES /\ OpensSession(w, l) \/ PassesOver
             /\ overdue' \subseteq overdue
  BY DEF StartsOrPasses
<1>0. cases[l] \in Cases
  BY DEF SessionInv, TypeOK
<1>c. /\ cases[l].state \in States \cup {"ABSENT"}
      /\ cases[l].agent \in Agents \cup ByHand \cup {Nobody}
      /\ cases[l].promise \in Nat
  BY <1>0 DEF Cases
<1>1. ASSUME NEW s \in States, May(l, s)
      PROVE  /\ Starts(w, l, [cases[l] EXCEPT !.state = s])
             /\ [cases[l] EXCEPT !.state = s].state = s
             /\ [cases[l] EXCEPT !.state = s].agent = cases[l].agent
  BY <1>0, <1>c, <1>1 DEF Starts, Cases, May
<1>2. CASE AssignAuto(w, l)
  <2>1. /\ Starts(w, l, [cases[l] EXCEPT !.state = "AGENT_ASSIGNED"])
        /\ [cases[l] EXCEPT !.state = "AGENT_ASSIGNED"].state = "AGENT_ASSIGNED"
        /\ [cases[l] EXCEPT !.state = "AGENT_ASSIGNED"].agent = cases[l].agent
    BY <1>1, <1>2 DEF AssignAuto, May, States
  <2> QED
    BY <1>2, <2>1 DEF AssignAuto, May, OpensSession, Steps, Kind, Terminal
<1>3. CASE \E a \in ByHand : AssignByHand(w, l, a)
  <2>1. PICK a \in ByHand : AssignByHand(w, l, a)
    BY <1>3
  <2>2. /\ Starts(w, l, [cases[l] EXCEPT !.state = "AGENT_ASSIGNED", !.agent = a])
        /\ [cases[l] EXCEPT !.state = "AGENT_ASSIGNED", !.agent = a].state
             = "AGENT_ASSIGNED"
        /\ [cases[l] EXCEPT !.state = "AGENT_ASSIGNED", !.agent = a].agent = a
    <3> DEFINE first == [cases[l] EXCEPT !.state = "AGENT_ASSIGNED"]
    <3>1. Starts(w, l, first) /\ first.state = "AGENT_ASSIGNED"
      BY <1>1, <2>1 DEF AssignByHand, May, States
    <3>2. [cases[l] EXCEPT !.state = "AGENT_ASSIGNED", !.agent = a]
            = [first EXCEPT !.agent = a]
      BY <1>0 DEF Cases
    <3>3. first \in Cases /\ [first EXCEPT !.agent = a] \in Cases
          /\ [first EXCEPT !.agent = a].state = first.state
          /\ [first EXCEPT !.agent = a].agent = a
      <4> HIDE DEF first
      <4> QED
        BY <3>1 DEF Starts, Cases
    <3> QED
      BY <3>1, <3>2, <3>3 DEF Starts
  <2> QED
    <3> DEFINE new == [cases[l] EXCEPT !.state = "AGENT_ASSIGNED", !.agent = a]
    <3>1. Starts(w, l, new) /\ new.state = "AGENT_ASSIGNED" /\ new.agent = a
      BY <2>2
    <3>2. Open(w, l, new, "commit") /\ overdue' = overdue
      BY <2>1 DEF AssignByHand
    <3> HIDE DEF new
    <3> QED
      BY <3>1, <3>2 DEF OpensSession, Steps, Kind, Terminal
<1>4. CASE \E day \in PromiseDays : RecordPromise(w, l, day)
  <2>1. PICK day \in PromiseDays : RecordPromise(w, l, day)
    BY <1>4
  <2>2. /\ Starts(w, l, [cases[l] EXCEPT !.state = "PROMISE_TO_PAY", !.promise = day])
        /\ [cases[l] EXCEPT !.state = "PROMISE_TO_PAY", !.promise = day].state
             = "PROMISE_TO_PAY"
        /\ [cases[l] EXCEPT !.state = "PROMISE_TO_PAY", !.promise = day].agent
             = cases[l].agent
    <3> DEFINE first == [cases[l] EXCEPT !.state = "PROMISE_TO_PAY"]
    <3>1. /\ Starts(w, l, first) /\ first.state = "PROMISE_TO_PAY"
          /\ first.agent = cases[l].agent
      BY <1>1, <2>1 DEF RecordPromise, May, States
    <3>2. [cases[l] EXCEPT !.state = "PROMISE_TO_PAY", !.promise = day]
            = [first EXCEPT !.promise = day]
      BY <1>0 DEF Cases
    <3>3. first \in Cases /\ [first EXCEPT !.promise = day] \in Cases
          /\ [first EXCEPT !.promise = day].state = first.state
          /\ [first EXCEPT !.promise = day].agent = first.agent
      <4> HIDE DEF first
      <4> QED
        BY <3>1, BoundsAssumption DEF Starts, Cases, BoundsAssumption
    <3> QED
      BY <3>1, <3>2, <3>3 DEF Starts
  <2> QED
    <3> DEFINE new == [cases[l] EXCEPT !.state = "PROMISE_TO_PAY", !.promise = day]
    <3>1. /\ Starts(w, l, new) /\ new.state = "PROMISE_TO_PAY"
          /\ new.agent = cases[l].agent
      BY <2>2
    <3>2. Open(w, l, new, "commit") /\ overdue' = overdue
      BY <2>1 DEF RecordPromise
    <3> HIDE DEF new
    <3> QED
      BY <3>1, <3>2 DEF OpensSession, Steps, Kind, Terminal
<1>5. ASSUME ReferToLegal(w, l)
      PROVE  OpensSession(w, l) /\ overdue' = overdue
  <2>1. /\ Starts(w, l, [cases[l] EXCEPT !.state = "LEGAL"])
        /\ [cases[l] EXCEPT !.state = "LEGAL"].state = "LEGAL"
        /\ [cases[l] EXCEPT !.state = "LEGAL"].agent = cases[l].agent
    BY <1>1, <1>5 DEF ReferToLegal, May, States
  <2> QED
    BY <1>5, <2>1 DEF ReferToLegal, May, OpensSession, Steps, Kind, Terminal
<1>6. CASE \E outcome \in Terminal : Resolve(w, l, outcome)
  <2>1. PICK outcome \in Terminal : Resolve(w, l, outcome)
    BY <1>6
  <2>2. /\ Starts(w, l, [cases[l] EXCEPT !.state = outcome])
        /\ [cases[l] EXCEPT !.state = outcome].state = outcome
        /\ [cases[l] EXCEPT !.state = outcome].agent = cases[l].agent
    BY <1>1, <2>1 DEF Resolve, May, States, Terminal
  <2> QED
    BY <2>1, <2>2 DEF Resolve, May, OpensSession, Steps, Kind, Terminal
<1>7. CASE \E dpd \in Dpds : Escalate(w, l, dpd)
  <2>1. AssignAuto(w, l) \/ ReferToLegal(w, l)
    BY <1>7 DEF Escalate
  <2> QED
    BY <1>2, <1>5, <2>1
<1>8. CASE MarkBroken(w, l)
  <2>1. overdue' \subseteq overdue
    BY <1>8 DEF MarkBroken
  <2>2. CASE May(l, "BROKEN_PROMISE")
    <3>1. /\ Starts(w, l, [cases[l] EXCEPT !.state = "BROKEN_PROMISE"])
          /\ [cases[l] EXCEPT !.state = "BROKEN_PROMISE"].state = "BROKEN_PROMISE"
          /\ [cases[l] EXCEPT !.state = "BROKEN_PROMISE"].agent = cases[l].agent
      BY <1>1, <2>2 DEF States
    <3> QED
      BY <1>8, <2>1, <2>2, <3>1 DEF MarkBroken, May, OpensSession, Steps, Kind, Terminal
  <2>3. CASE ~May(l, "BROKEN_PROMISE")
    BY <1>8, <2>1, <2>3 DEF MarkBroken, May, PassesOver
  <2> QED
    BY <2>2, <2>3
<1>9. CASE ReferToLegal(w, l)
  BY <1>5, <1>9
<1> QED
  BY <1>2, <1>3, <1>4, <1>6, <1>7, <1>8, <1>9 DEF Operation

-----------------------------------------------------------------------------
(* The steps of an open session.                                           *)

LEMMA PickKeeps ==
    ASSUME SessionInv, NEW w \in Workers, Pick(w)
    PROVE  SessionInv'
<1> PICK a \in Agents :
        /\ Available(a)
        /\ agent' = [agent EXCEPT ![w] = a]
        /\ load' = [load EXCEPT ![w] = count[a] + 1]
        /\ work' = [work EXCEPT ![w].agent = a]
  BY DEF Pick
<1>0. /\ pc[w] = "pick" /\ pc' = [pc EXCEPT ![w] = "commit"]
      /\ UNCHANGED <<rowVars, streamVars, overdue, today, loan, loaded, overlapped>>
  BY DEF Pick
<1>1. count[a] + 1 \in 0 .. MaxCases
  BY BoundsAssumption DEF SessionInv, TypeOK, Available, BoundsAssumption
<1>2. /\ work[w] \in Cases /\ work'[w] \in Cases
      /\ work'[w].state = work[w].state
  BY ZenonT(30) DEF SessionInv, TypeOK, Cases
<1>3. TypeOK'
  <2>1. work' \in [Workers -> Cases]
    BY <1>2 DEF SessionInv, TypeOK
  <2>2. /\ pc' \in [Workers -> Steps]
        /\ agent' \in [Workers -> Agents \cup {Nobody}]
        /\ load' \in [Workers -> Int]
    BY <1>0, <1>1 DEF SessionInv, TypeOK, Steps
  <2> QED
    BY <1>0, <2>1, <2>2 DEF SessionInv, TypeOK, rowVars, streamVars
<1>4. CountWithinLimit'
  BY <1>0 DEF SessionInv, CountWithinLimit, rowVars
<1>5. ASSUME NEW v \in Workers PROVE SessionOf(v)'
  <2>1. CASE v = w
    <3>1. load'[w] = count[a] + 1
      BY DEF SessionInv, TypeOK
    <3> QED
      BY <1>0, <1>1, <1>2, <2>1, <3>1 DEF SessionInv, SessionOf
  <2>2. CASE v # w
    <3>1. /\ pc'[v] = pc[v] /\ work'[v] = work[v]
          /\ agent'[v] = agent[v] /\ load'[v] = load[v]
      BY <1>0, <2>2 DEF SessionInv, TypeOK
    <3> QED
      BY <1>0, <3>1 DEF SessionInv, SessionOf
  <2> QED
    BY <2>1, <2>2
<1> QED
  BY <1>3, <1>4, <1>5 DEF SessionInv

LEMMA DecrementKeeps ==
    ASSUME SessionInv, NEW w \in Workers, Decrement(w)
    PROVE  SessionInv'
<1>0. /\ pc[w] = "decrement" /\ pc' = [pc EXCEPT ![w] = "commit"]
      /\ UNCHANGED <<rowVars, streamVars, overdue, today, loan, loaded, work,
                     overlapped>>
  BY DEF Decrement
<1>1. TypeOK'
  BY <1>0 DEF Decrement, SessionInv, TypeOK, Steps, rowVars, streamVars
<1>2. CountWithinLimit'
  BY <1>0 DEF SessionInv, CountWithinLimit, rowVars
<1>3. ASSUME NEW v \in Workers PROVE SessionOf(v)'
  <2>1. CASE v = w
    <3> DEFINE a == loaded[w].agent
    <3>1. CASE a \in Agents /\ count[a] > 0
      <4>1. count[a] \in Nat /\ count[a] <= MaxCases
        BY <3>1 DEF SessionInv, TypeOK, CountWithinLimit
      <4>2. load'[w] = count[a] - 1
        BY <3>1 DEF Decrement, SessionInv, TypeOK
      <4>3. load'[w] \in 0 .. MaxCases
        <5> DEFINE n == count[a]
        <5>1. n \in Nat /\ n <= MaxCases /\ n > 0
          BY <3>1, <4>1
        <5>2. MaxCases \in Nat
          BY BoundsAssumption DEF BoundsAssumption
        <5> HIDE DEF n
        <5>3. n - 1 \in 0 .. MaxCases
          BY <5>1, <5>2
        <5> QED
          BY <4>2, <5>3 DEF n
      <4> QED
        BY <1>0, <2>1, <4>3 DEF SessionInv, SessionOf
    <3>2. CASE ~(a \in Agents /\ count[a] > 0)
      <4>1. agent' = agent /\ load' = load
        BY <3>2 DEF Decrement
      <4> QED
        BY <1>0, <2>1, <4>1 DEF SessionInv, SessionOf
    <3> QED
      BY <3>1, <3>2
  <2>2. CASE v # w
    <3>1. pc'[v] = pc[v] /\ agent'[v] = agent[v] /\ load'[v] = load[v]
      BY <1>0, <2>2 DEF SessionInv, TypeOK, Decrement
    <3> QED
      BY <1>0, <3>1 DEF SessionInv, SessionOf
  <2> QED
    BY <2>1, <2>2
<1> QED
  BY <1>1, <1>2, <1>3 DEF SessionInv

\* Ending a session keeps what the others hold.
LEMMA CloseKeeps ==
    ASSUME SessionInv, NEW w \in Workers, Close(w), NEW v \in Workers
    PROVE  SessionOf(v)'
<1>1. CASE v = w
  BY <1>1 DEF SessionInv, TypeOK, SessionOf, Close
<1>2. CASE v # w
  <2>1. /\ pc'[v] = pc[v] /\ loan'[v] = loan[v] /\ work'[v] = work[v]
        /\ loaded'[v] = loaded[v] /\ agent'[v] = agent[v] /\ load'[v] = load[v]
    BY <1>2 DEF SessionInv, TypeOK, Close
  <2> QED
    BY <2>1 DEF SessionInv, SessionOf
<1> QED
  BY <1>1, <1>2

LEMMA CloseTypes ==
    ASSUME TypeOK, NEW w \in Workers, Close(w)
    PROVE  /\ pc' \in [Workers -> Steps]
           /\ loan' \in [Workers -> Loans \cup {Nobody}]
           /\ loaded' \in [Workers -> Cases]
           /\ work' \in [Workers -> Cases]
           /\ agent' \in [Workers -> Agents \cup {Nobody}]
           /\ load' \in [Workers -> Int]
BY DEF TypeOK, Close, Steps, NoCase, Cases

\* A session commits the state it meant to, whatever the row has become.
LEMMA CommitWrites ==
    ASSUME SessionInv, NEW w \in Workers, Commit(w)
    PROVE  /\ loan[w] \in Loans
           /\ cases' \in [Loans -> Cases]
           /\ cases'[loan[w]].state = work[w].state
           /\ logged' \in [Loans -> States]
           /\ logged'[loan[w]] = work[w].state
           /\ \A l \in Loans \ {loan[w]} : cases'[l] = cases[l] /\ logged'[l] = logged[l]
<1>1. /\ loan[w] \in Loans /\ work[w].state \in States
      /\ work[w].state \in Transitions(loaded[w].state)
  BY DEF SessionInv, SessionOf, Commit
<1>2. cases[loan[w]] \in Cases /\ loaded[w] \in Cases /\ work[w] \in Cases
  BY <1>1 DEF SessionInv, TypeOK
<1>3. work[w].state # loaded[w].state
  BY <1>1, TransitionMoves
<1> DEFINE row == Merge(cases[loan[w]], loaded[w], work[w])
<1>4. row \in Cases /\ row.state = work[w].state
  BY <1>2, <1>3 DEF Merge, Cases
<1>5. cases' = [cases EXCEPT ![loan[w]] = row]
      /\ logged' = [logged EXCEPT ![loan[w]] = work[w].state]
  BY DEF Commit
<1> HIDE DEF row
<1> QED
  BY <1>1, <1>4, <1>5 DEF SessionInv, TypeOK

LEMMA CommitKeeps ==
    ASSUME SessionInv, NEW w \in Workers, Commit(w)
    PROVE  SessionInv'
<1>1. cases' \in [Loans -> Cases] /\ logged' \in [Loans -> States]
  BY CommitWrites
<1>2. /\ Close(w)
      /\ UNCHANGED <<streamVars, overdue, today, overlapped>>
      /\ count' = IF agent[w] = Nobody THEN count
                  ELSE [count EXCEPT ![agent[w]] = load[w]]
  BY DEF Commit
<1>3. agent[w] # Nobody => agent[w] \in Agents /\ load[w] \in 0 .. MaxCases
  BY DEF SessionInv, TypeOK, SessionOf
<1>4. count' \in [Agents -> Nat] /\ CountWithinLimit'
  <2>1. count \in [Agents -> Nat] /\ CountWithinLimit
    BY DEF SessionInv, TypeOK
  <2>2. CASE agent[w] = Nobody
    BY <1>2, <2>1, <2>2 DEF CountWithinLimit
  <2>3. CASE agent[w] # Nobody
    <3>1. load[w] \in Nat /\ load[w] <= MaxCases /\ agent[w] \in Agents
      BY <1>3, <2>3, BoundsAssumption DEF BoundsAssumption
    <3>2. count' = [count EXCEPT ![agent[w]] = load[w]]
      BY <1>2, <2>3
    <3> QED
      BY <2>1, <3>1, <3>2 DEF CountWithinLimit
  <2> QED
    BY <2>2, <2>3
<1>5. TypeOK'
  BY <1>1, <1>2, <1>4, CloseTypes DEF SessionInv, TypeOK, streamVars
<1> QED
  BY <1>2, <1>4, <1>5, CloseKeeps DEF SessionInv

LEMMA AbandonKeeps ==
    ASSUME SessionInv, NEW w \in Workers, Abandon(w)
    PROVE  SessionInv'
<1>1. /\ Close(w)
      /\ UNCHANGED <<rowVars, streamVars, overdue, today, overlapped>>
  BY DEF Abandon
<1>2. TypeOK' /\ CountWithinLimit'
  BY <1>1, CloseTypes DEF SessionInv, TypeOK, CountWithinLimit, rowVars, streamVars
<1> QED
  BY <1>1, <1>2, CloseKeeps DEF SessionInv

\* Steps that leave the rows and the sessions alone: the stream, the list of
\* the sweep, the calendar.
LEMMA QuietKeeps ==
    ASSUME SessionInv, UNCHANGED <<rowVars, sessionVars, overlapped>>,
           unread' \subseteq Loans, acked' \subseteq Loans,
           overdue' \subseteq Loans, today' \in Nat
    PROVE  SessionInv'
BY DEF SessionInv, TypeOK, CountWithinLimit, SessionOf, rowVars, sessionVars

\* The quiet steps of Next.
Quiet == \/ \E l \in Loans : OpenCase(l)
         \/ ListOverdue
         \/ Tick

LEMMA QuietShape ==
    ASSUME SessionInv, Quiet
    PROVE  /\ UNCHANGED <<rowVars, sessionVars, overlapped>>
           /\ unread' \subseteq Loans /\ acked' \subseteq Loans
           /\ overdue' \subseteq Loans /\ today' \in Nat
           /\ overdue' = overdue \/ ListOverdue
           /\ today' >= today
<1>0. /\ unread \subseteq Loans /\ acked \subseteq Loans /\ overdue \subseteq Loans
      /\ today \in Nat
  BY DEF SessionInv, TypeOK
<1>1. CASE \E l \in Loans : OpenCase(l)
  BY <1>0, <1>1 DEF OpenCase
<1>2. CASE ListOverdue
  BY <1>0, <1>2 DEF ListOverdue, streamVars
<1>3. CASE Tick
  BY <1>0, <1>3 DEF Tick, streamVars
<1> QED
  BY <1>1, <1>2, <1>3 DEF Quiet

LEMMA NextKeeps ==
    ASSUME SessionInv, [Next]_vars
    PROVE  SessionInv'
<1>1. CASE Quiet
  BY <1>1, QuietShape, QuietKeeps
<1>2. ASSUME NEW w \in Workers, Session(w)
      PROVE  SessionInv'
  BY <1>2, PickKeeps, DecrementKeeps, CommitKeeps, AbandonKeeps DEF Session
<1>3. ASSUME NEW w \in Workers, NEW l \in Loans, Operation(w, l)
      PROVE  SessionInv'
  <2>1. StartsOrPasses(w, l)
    BY <1>3, OperationShape
  <2>2. overdue' \subseteq Loans
    BY <2>1 DEF StartsOrPasses, SessionInv, TypeOK
  <2>3. CASE OpensSession(w, l)
    BY <2>2, <2>3, OpenKeeps DEF OpensSession
  <2>4. CASE PassesOver
    BY <2>2, <2>4 DEF PassesOver, SessionInv, TypeOK, CountWithinLimit, SessionOf,
                      rowVars, streamVars, sessionVars
  <2> QED
    BY <2>1, <2>3, <2>4 DEF StartsOrPasses
<1>4. CASE UNCHANGED vars
  BY <1>4 DEF vars, SessionInv, TypeOK, CountWithinLimit, SessionOf,
              rowVars, streamVars, sessionVars
<1> QED
  BY <1>1, <1>2, <1>3, <1>4 DEF Next, Quiet

LEMMA InitHolds ==
    ASSUME Init
    PROVE  SessionInv
<1>1. TypeOK
  <2>1. NoCase \in Cases /\ NewCase \in Cases
    BY DEF NoCase, NewCase, Cases, States
  <2>2. cases \in [Loans -> Cases] /\ logged \in [Loans -> States]
    BY <2>1 DEF Init, States
  <2>3. count \in [Agents -> Nat] /\ today \in Nat /\ load \in [Workers -> Int]
    BY DEF Init
  <2>4. /\ pc \in [Workers -> Steps]
        /\ loan \in [Workers -> Loans \cup {Nobody}]
        /\ loaded \in [Workers -> Cases] /\ work \in [Workers -> Cases]
        /\ agent \in [Workers -> Agents \cup {Nobody}]
    BY <2>1 DEF Init, Steps
  <2> QED
    BY <2>2, <2>3, <2>4, SetsAssumption DEF Init, TypeOK, SetsAssumption
<1>2. CountWithinLimit
  BY BoundsAssumption DEF Init, CountWithinLimit, BoundsAssumption
<1> QED
  BY <1>1, <1>2 DEF SessionInv, SessionOf, Init

THEOREM SessionsHold == Spec => []SessionInv
BY InitHolds, NextKeeps, PTL DEF Spec

\* The type invariant, for every instance: counters are never negative, no row
\* is given a state that is not one.
THEOREM TypeOKHolds == Spec => []TypeOK
<1>1. SessionInv => TypeOK
  BY DEF SessionInv
<1> QED
  BY <1>1, SessionsHold, PTL

\* active_case_count never passes max_cases_per_agent, for any number of
\* sessions that choose an agent by counts the others change.
THEOREM CountStaysWithinLimit == Spec => []CountWithinLimit
<1>1. SessionInv => CountWithinLimit
  BY DEF SessionInv
<1> QED
  BY <1>1, SessionsHold, PTL

-----------------------------------------------------------------------------
(* The log. No step but a commit writes a case or its log.                 *)

LEMMA OnlyCommitsWrite ==
    ASSUME SessionInv, [Next]_vars
    PROVE  UNCHANGED <<cases, logged>> \/ \E w \in Workers : Commit(w)
<1>1. CASE Quiet
  BY <1>1, QuietShape DEF rowVars
<1>2. ASSUME NEW w \in Workers, Session(w), ~Commit(w)
      PROVE  UNCHANGED <<cases, logged>>
  BY <1>2 DEF Session, Pick, Decrement, Abandon, rowVars
<1>3. ASSUME NEW w \in Workers, NEW l \in Loans, Operation(w, l)
      PROVE  UNCHANGED <<cases, logged>>
  BY <1>3, OperationShape DEF StartsOrPasses, OpensSession, Open, PassesOver, rowVars
<1>4. CASE UNCHANGED vars
  BY <1>4 DEF vars, rowVars
<1> QED
  BY <1>1, <1>2, <1>3, <1>4 DEF Next, Quiet

LogInv == SessionInv /\ StateIsLogged

\* The activity committed last on a case tells its state, for any number of
\* sessions over the same case: a session always commits the state it means to
\* reach, because it differs from the one it read, and logs it with it.
THEOREM StateLogged == Spec => []StateIsLogged
<1>1. Init => LogInv
  <2> SUFFICES ASSUME Init PROVE LogInv
    OBVIOUS
  <2>1. StateIsLogged
    BY SetsAssumption DEF Init, StateIsLogged, NewCase, NoCase, SetsAssumption
  <2> QED
    BY <2>1, InitHolds DEF LogInv
<1>2. LogInv /\ [Next]_vars => LogInv'
  <2> SUFFICES ASSUME LogInv, [Next]_vars PROVE StateIsLogged'
    BY NextKeeps DEF LogInv
  <2>1. CASE UNCHANGED <<cases, logged>>
    BY <2>1 DEF LogInv, StateIsLogged
  <2>2. ASSUME NEW w \in Workers, Commit(w)
        PROVE  StateIsLogged'
    BY <2>2, CommitWrites, SetsAssumption DEF LogInv, StateIsLogged, SetsAssumption
  <2> QED
    BY <2>1, <2>2, OnlyCommitsWrite DEF LogInv
<1>3. LogInv => StateIsLogged
  BY DEF LogInv
<1> QED
  BY <1>1, <1>2, <1>3, PTL DEF Spec

-----------------------------------------------------------------------------
(* Transitions. While no two sessions overlap, what a session read is      *)
(* still the row, and what the sweep listed has either kept its promise    *)
(* date or been recovered.                                                 *)

IsOpen(w) == pc[w] # "idle"
Breaks(w) == IsOpen(w) /\ work[w].state = "BROKEN_PROMISE"
IsDue(l) == cases[l].promise < today

Listed(l) == \/ cases[l].state = "RECOVERED"
             \/ cases[l].state = "PROMISE_TO_PAY" /\ IsDue(l)

AloneInv ==
    ~overlapped =>
        /\ \A v, w \in Workers : IsOpen(v) /\ IsOpen(w) => v = w
        /\ \A w \in Workers : IsOpen(w) => loaded[w] = cases[loan[w]]
        /\ \A w \in Workers : Breaks(w) => loan[w] \notin overdue /\ IsDue(loan[w])
        /\ \A l \in overdue : Listed(l)

DueInv == SessionInv /\ AloneInv

\* Out of a promise there are two ways, out of a recovery none.
LEMMA WaysOut ==
    ASSUME NEW s
    PROVE  /\ Transitions("RECOVERED") = {}
           /\ Transitions("PROMISE_TO_PAY") = {"RECOVERED", "BROKEN_PROMISE"}
           /\ "BROKEN_PROMISE" \in Transitions(s) => s = "PROMISE_TO_PAY"
BY DEF Transitions, Terminal

LEMMA QuietAlone ==
    ASSUME DueInv, Quiet
    PROVE  AloneInv'
<1>1. /\ UNCHANGED <<rowVars, sessionVars, overlapped>>
      /\ overdue' = overdue \/ ListOverdue
      /\ today' >= today
  BY QuietShape DEF DueInv
<1>2. \A l \in Loans : IsDue(l) => IsDue(l)'
  <2> TAKE l \in Loans
  <2>1. cases[l].promise \in Nat /\ today \in Nat /\ today' \in Nat
    BY QuietShape DEF DueInv, SessionInv, TypeOK, Cases
  <2> QED
    BY <1>1, <2>1 DEF IsDue, rowVars
<1>3. SUFFICES ASSUME ~overlapped' PROVE AloneInv!2'
  BY DEF AloneInv
<1>4. AloneInv!2
  BY <1>1, <1>3 DEF DueInv, AloneInv
<1>5. \A w \in Workers : /\ IsOpen(w)' = IsOpen(w) /\ Breaks(w)' = Breaks(w)
                         /\ IsOpen(w) => loan[w] \in Loans
  BY <1>1 DEF IsOpen, Breaks, sessionVars, DueInv, SessionInv, SessionOf
<1>6. overdue \subseteq Loans
  BY DEF DueInv, SessionInv, TypeOK
<1>7. CASE overdue' = overdue
  BY <1>1, <1>2, <1>4, <1>5, <1>6, <1>7 DEF Listed, rowVars, sessionVars, Breaks
<1>8. CASE ListOverdue
  <2>1. \A w \in Workers : ~Breaks(w)
    BY <1>8 DEF ListOverdue, SweepOver, Breaks
  <2>2. \A l \in overdue' : Listed(l)'
    BY <1>1, <1>8 DEF ListOverdue, Listed, IsDue, rowVars
  <2> QED
    BY <1>1, <1>4, <1>5, <2>1, <2>2 DEF rowVars, sessionVars
<1> QED
  BY <1>1, <1>7, <1>8

LEMMA OpenAlone ==
    ASSUME DueInv, NEW w \in Workers, NEW l \in Loans, OpensSession(w, l),
           overdue' \subseteq overdue
    PROVE  AloneInv'
<1>1. PICK new, next :
        /\ next # "idle"
        /\ Starts(w, l, new)
        /\ Open(w, l, new, next)
        /\ new.state = "BROKEN_PROMISE" => l \in overdue \ overdue'
  BY DEF OpensSession
<1>2. SUFFICES ASSUME ~overlapped' PROVE AloneInv!2'
  BY DEF AloneInv
<1>3. ~overlapped /\ \A v \in Workers : pc[v] = "idle"
  BY <1>1, <1>2 DEF Open
<1>4. AloneInv!2
  BY <1>3 DEF DueInv, AloneInv
<1>5. cases' = cases /\ today' = today
  BY <1>1 DEF Open, rowVars
<1>6. \A v \in Workers : IsOpen(v)' => v = w
  BY <1>1, <1>3 DEF Open, IsOpen, DueInv, SessionInv, TypeOK
<1>7. loan'[w] = l /\ loaded'[w] = cases[l] /\ work'[w] = new
  BY <1>1 DEF Open, DueInv, SessionInv, TypeOK
<1>8. new.state = "BROKEN_PROMISE" => IsDue(l)
  BY <1>1, <1>4, WaysOut DEF Starts, Listed
<1>9. \A m \in overdue' : Listed(m)'
  BY <1>4, <1>5 DEF Listed, IsDue
<1>10. Breaks(w)' => loan'[w] \notin overdue' /\ IsDue(l)'
  BY <1>1, <1>5, <1>7, <1>8 DEF Breaks, IsDue
<1> QED
  BY <1>5, <1>6, <1>7, <1>9, <1>10 DEF Breaks

LEMMA CommitAlone ==
    ASSUME DueInv, NEW w \in Workers, Commit(w)
    PROVE  AloneInv'
<1>1. SUFFICES ASSUME ~overlapped' PROVE AloneInv!2'
  BY DEF AloneInv
<1>2. /\ Close(w) /\ IsOpen(w)
      /\ overlapped' = overlapped /\ overdue' = overdue /\ today' = today
  BY DEF Commit, IsOpen
<1>3. AloneInv!2
  BY <1>1, <1>2 DEF DueInv, AloneInv
<1>4. \A v \in Workers : ~IsOpen(v)'
  BY <1>2, <1>3 DEF Close, IsOpen, DueInv, SessionInv, TypeOK
<1>5. ASSUME NEW l \in overdue PROVE Listed(l)'
  <2>1. l \in Loans /\ Listed(l)
    BY <1>3 DEF DueInv, SessionInv, TypeOK
  <2>2. CASE l # loan[w]
    BY <1>2, <2>1, <2>2, CommitWrites DEF Listed, IsDue, DueInv
  <2>3. CASE l = loan[w]
    <3>1. work[w].state \in Transitions(cases[l].state)
      BY <1>2, <1>3, <2>3 DEF DueInv, SessionInv, SessionOf, IsOpen
    <3>2. work[w].state # "BROKEN_PROMISE"
      BY <1>2, <1>3, <2>3 DEF Breaks
    <3>3. work[w].state = "RECOVERED"
      BY <2>1, <3>1, <3>2, WaysOut DEF Listed
    <3> QED
      BY <2>3, <3>3, CommitWrites DEF Listed, DueInv
  <2> QED
    BY <2>2, <2>3
<1> QED
  BY <1>2, <1>4, <1>5 DEF Breaks

\* The other steps of a session: the case, its list and the dates stay.
LEMMA SessionAlone ==
    ASSUME DueInv, NEW w \in Workers, Pick(w) \/ Decrement(w) \/ Abandon(w)
    PROVE  AloneInv'
<1>1. /\ IsOpen(w)
      /\ UNCHANGED <<cases, overdue, today, overlapped>>
  BY DEF Pick, Decrement, Abandon, IsOpen, rowVars
<1>2. ASSUME NEW v \in Workers, IsOpen(v)'
      PROVE  /\ IsOpen(v) /\ loan'[v] = loan[v] /\ loaded'[v] = loaded[v]
             /\ work'[v].state = work[v].state
  <2>1. CASE Abandon(w)
    BY <1>2, <2>1 DEF Abandon, Close, IsOpen, DueInv, SessionInv, TypeOK
  <2>2. CASE Decrement(w)
    BY <1>1, <1>2, <2>2 DEF Decrement, IsOpen, DueInv, SessionInv, TypeOK
  <2>3. CASE Pick(w)
    <3>1. PICK a \in Agents : work' = [work EXCEPT ![w].agent = a]
      BY <2>3 DEF Pick
    <3>2. work[w] \in Cases /\ work \in [Workers -> Cases]
      BY DEF DueInv, SessionInv, TypeOK
    <3>3. work'[v].state = work[v].state
      BY <3>1, <3>2 DEF Cases
    <3> QED
      BY <1>1, <1>2, <2>3, <3>3 DEF Pick, IsOpen, DueInv, SessionInv, TypeOK
  <2> QED
    BY <2>1, <2>2, <2>3
<1> QED
  BY <1>1, <1>2 DEF AloneInv, DueInv, Breaks, Listed, IsDue

LEMMA NextAlone ==
    ASSUME DueInv, [Next]_vars
    PROVE  DueInv'
<1> SUFFICES AloneInv'
  BY NextKeeps DEF DueInv
<1>1. CASE Quiet
  BY <1>1, QuietAlone
<1>2. ASSUME NEW w \in Workers, Session(w)
      PROVE  AloneInv'
  BY <1>2, CommitAlone, SessionAlone DEF Session
<1>3. ASSUME NEW w \in Workers, NEW l \in Loans, Operation(w, l)
      PROVE  AloneInv'
  <2>1. StartsOrPasses(w, l)
    BY <1>3, OperationShape DEF DueInv
  <2>2. CASE OpensSession(w, l)
    BY <2>1, <2>2, OpenAlone DEF StartsOrPasses
  <2>3. CASE PassesOver
    BY <2>1, <2>3 DEF StartsOrPasses, PassesOver, AloneInv, DueInv, IsOpen, Breaks,
                      Listed, IsDue, rowVars, sessionVars
  <2> QED
    BY <2>1, <2>2, <2>3 DEF StartsOrPasses
<1>4. CASE UNCHANGED vars
  BY <1>4 DEF vars, rowVars, sessionVars, DueInv, AloneInv, IsOpen, Breaks, Listed,
              IsDue
<1> QED
  BY <1>1, <1>2, <1>3, <1>4 DEF Next, Quiet

\* As long as sessions do not overlap, every committed change of a case is a step
\* of the transition table, and none is marked BROKEN_PROMISE before the date of
\* its promise has passed, for any list the sweep made.
THEOREM CasesKeepToTheTable == Spec => TransitionsStand
<1> DEFINE Stands == \A l \in Loans :
        /\ cases'[l].state # cases[l].state
        /\ ~overlapped
        => /\ cases'[l].state \in Transitions(cases[l].state)
           /\ cases'[l].state = "BROKEN_PROMISE" => cases[l].promise < today
<1>1. Init => DueInv
  BY ZenonT(30), InitHolds DEF DueInv, AloneInv, IsOpen, Breaks, Init
<1>2. DueInv /\ [Next]_vars => DueInv'
  BY NextAlone
<1>3. DueInv /\ [Next]_vars => [Stands]_vars
  <2> SUFFICES ASSUME DueInv, [Next]_vars, NEW l \in Loans,
                      cases'[l].state # cases[l].state, ~overlapped
               PROVE  /\ cases'[l].state \in Transitions(cases[l].state)
                      /\ cases'[l].state = "BROKEN_PROMISE" => IsDue(l)
    BY DEF IsDue
  <2>1. PICK w \in Workers : Commit(w)
    BY OnlyCommitsWrite DEF DueInv
  <2>2. l = loan[w] /\ cases'[l].state = work[w].state /\ IsOpen(w)
    BY <2>1, CommitWrites DEF DueInv, Commit, IsOpen
  <2>3. loaded[w] = cases[l] /\ (Breaks(w) => IsDue(l))
    BY <2>2 DEF DueInv, AloneInv
  <2> QED
    BY <2>2, <2>3 DEF DueInv, SessionInv, SessionOf, IsOpen, Breaks
<1> QED
  BY <1>1, <1>2, <1>3, PTL DEF Spec, TransitionsStand

-----------------------------------------------------------------------------
(* The load of an agent. The counter a session holds is one off the row's, *)
(* in the direction its commit moves the open cases of that agent.         *)

Held(w) ==
    /\ pc[w] # "commit" => agent[w] = Nobody
    /\ pc[w] = "pick" => work[w].state \notin Terminal
    /\ pc[w] = "decrement" =>
           work[w].agent = loaded[w].agent /\ work[w].state \in Terminal
    /\ pc[w] = "commit" /\ agent[w] = Nobody =>
           work[w].agent \in ByHand \cup {loaded[w].agent}
    /\ agent[w] # Nobody =>
           /\ work[w].agent = agent[w]
           /\ work[w].state \in Terminal => loaded[w].agent = agent[w]

CountIsFresh(w) ==
    agent[w] # Nobody =>
        load[w] = IF work[w].state \in Terminal THEN count[agent[w]] - 1
                                                 ELSE count[agent[w]] + 1

CountCovers(a) == Cardinality(CasesOf(a)) <= count[a]

LoadInv ==
    /\ DueInv
    /\ \A w \in Workers : Held(w)
    /\ ~overlapped => /\ \A w \in Workers : CountIsFresh(w)
                      /\ \A a \in Agents \ ByHand : CountCovers(a)

LEMMA OpenHeld ==
    ASSUME LoadInv, NEW w \in Workers, NEW l \in Loans, OpensSession(w, l),
           overdue' \subseteq overdue
    PROVE  LoadInv'
<1>1. PICK new, next :
        /\ next \in Steps \ {"idle"}
        /\ Open(w, l, new, next)
        /\ Kind(l, new, next)
  BY DEF OpensSession
<1>2. DueInv'
  <2>1. SessionInv'
    BY OpenKeeps DEF OpensSession, LoadInv, DueInv, SessionInv, TypeOK
  <2> QED
    BY <2>1, OpenAlone DEF DueInv, LoadInv
<1>3. /\ pc[w] = "idle" /\ cases' = cases /\ count' = count
      /\ agent' = agent /\ load' = load
      /\ ~overlapped' => ~overlapped
      /\ pc'[w] = next /\ work'[w] = new /\ loaded'[w] = cases[l]
      /\ \A v \in Workers \ {w} : /\ pc'[v] = pc[v] /\ work'[v] = work[v]
                                 /\ loaded'[v] = loaded[v]
  BY <1>1 DEF Open, LoadInv, DueInv, SessionInv, TypeOK, rowVars
<1>4. agent[w] = Nobody
  BY <1>3 DEF LoadInv, Held
<1>5. Held(w)'
  BY <1>1, <1>3, <1>4 DEF Held, Kind
<1>6. \A v \in Workers \ {w} : Held(v)'
  BY <1>3 DEF Held, LoadInv
<1>7. \A a \in Agents : CountCovers(a)' = CountCovers(a)
  BY <1>3 DEF CountCovers, CasesOf
<1>8. ASSUME ~overlapped', NEW v \in Workers
      PROVE  CountIsFresh(v)'
  BY <1>3, <1>4, <1>8 DEF CountIsFresh, LoadInv
<1> QED
  BY <1>2, <1>3, <1>5, <1>6, <1>7, <1>8 DEF LoadInv

LEMMA PickHeld ==
    ASSUME LoadInv, NEW w \in Workers, Pick(w)
    PROVE  LoadInv'
<1>1. PICK a \in Agents :
        /\ agent' = [agent EXCEPT ![w] = a]
        /\ load' = [load EXCEPT ![w] = count[a] + 1]
        /\ work' = [work EXCEPT ![w].agent = a]
  BY DEF Pick
<1>2. DueInv'
  BY PickKeeps, SessionAlone DEF LoadInv, DueInv
<1>3. work[w] \in Cases /\ work \in [Workers -> Cases]
  BY DEF LoadInv, DueInv, SessionInv, TypeOK
<1>4. work'[w].agent = a /\ work'[w].state = work[w].state
  BY <1>1, <1>3 DEF Cases
<1>5. /\ pc[w] = "pick" /\ pc'[w] = "commit" /\ agent'[w] = a
      /\ load'[w] = count[a] + 1
      /\ cases' = cases /\ count' = count /\ loaded' = loaded
      /\ overlapped' = overlapped
      /\ \A v \in Workers \ {w} : /\ pc'[v] = pc[v] /\ work'[v] = work[v]
                                 /\ agent'[v] = agent[v] /\ load'[v] = load[v]
  BY <1>1 DEF Pick, LoadInv, DueInv, SessionInv, TypeOK, rowVars
<1>6. work[w].state \notin Terminal /\ a # Nobody
  BY <1>5, SetsAssumption DEF LoadInv, Held, SetsAssumption
<1>7. Held(w)' /\ CountIsFresh(w)'
  BY <1>4, <1>5, <1>6 DEF Held, CountIsFresh
<1>8. \A v \in Workers \ {w} : Held(v)' /\ (~overlapped' => CountIsFresh(v)')
  BY <1>5 DEF Held, CountIsFresh, LoadInv
<1>9. \A b \in Agents : CountCovers(b)' = CountCovers(b)
  BY <1>5 DEF CountCovers, CasesOf
<1> QED
  BY <1>2, <1>5, <1>7, <1>8, <1>9 DEF LoadInv

LEMMA DecrementHeld ==
    ASSUME LoadInv, NEW w \in Workers, Decrement(w)
    PROVE  LoadInv'
<1>2. DueInv'
  BY DecrementKeeps, SessionAlone DEF LoadInv, DueInv
<1>5. /\ pc[w] = "decrement" /\ pc'[w] = "commit"
      /\ cases' = cases /\ count' = count /\ loaded' = loaded /\ work' = work
      /\ overlapped' = overlapped
      /\ \A v \in Workers \ {w} : /\ pc'[v] = pc[v]
                                 /\ agent'[v] = agent[v] /\ load'[v] = load[v]
  BY DEF Decrement, LoadInv, DueInv, SessionInv, TypeOK, rowVars
<1>6. /\ work[w].state \in Terminal /\ agent[w] = Nobody
      /\ work[w].agent = loaded[w].agent
  BY <1>5 DEF LoadInv, Held
<1>7. Held(w)' /\ CountIsFresh(w)'
  <2>1. CASE agent'[w] = Nobody
    BY <1>5, <1>6, <2>1 DEF Held, CountIsFresh
  <2>2. CASE agent'[w] # Nobody
    <3>1. agent'[w] = loaded[w].agent /\ load'[w] = count[loaded[w].agent] - 1
      BY <1>6, <2>2 DEF Decrement, LoadInv, DueInv, SessionInv, TypeOK
    <3> QED
      BY <1>5, <1>6, <3>1 DEF Held, CountIsFresh
  <2> QED
    BY <2>1, <2>2
<1>8. \A v \in Workers \ {w} : Held(v)' /\ (~overlapped' => CountIsFresh(v)')
  BY <1>5 DEF Held, CountIsFresh, LoadInv
<1>9. \A b \in Agents : CountCovers(b)' = CountCovers(b)
  BY <1>5 DEF CountCovers, CasesOf
<1> QED
  BY <1>2, <1>5, <1>7, <1>8, <1>9 DEF LoadInv

LEMMA CloseHeld ==
    ASSUME LoadInv, NEW w \in Workers, Close(w)
    PROVE  /\ \A v \in Workers : Held(v)'
           /\ \A v \in Workers : agent'[v] # Nobody => v # w /\ agent[v] # Nobody
<1>1. Held(w)' /\ agent'[w] = Nobody
  BY DEF Close, Held, LoadInv, DueInv, SessionInv, TypeOK
<1>2. ASSUME NEW v \in Workers, v # w
      PROVE  Held(v)' /\ agent'[v] = agent[v]
  <2>1. /\ pc'[v] = pc[v] /\ work'[v] = work[v] /\ loaded'[v] = loaded[v]
        /\ agent'[v] = agent[v]
    BY <1>2 DEF Close, LoadInv, DueInv, SessionInv, TypeOK
  <2> QED
    BY <2>1 DEF Held, LoadInv
<1> QED
  BY <1>1, <1>2

\* A commit without overlap moves the open cases of an agent and its counter
\* the same way, or takes cases from an agent it does not count.
LEMMA CommitCovers ==
    ASSUME LoadInv, NEW w \in Workers, Commit(w), ~overlapped,
           NEW a \in Agents \ ByHand
    PROVE  CountCovers(a)'
<1> DEFINE l == loan[w]  S == CasesOf(a)  T == CasesOf(a)'
<1>1. /\ loaded[w] = cases[l] /\ Held(w) /\ CountIsFresh(w) /\ CountCovers(a)
      /\ pc[w] = "commit"
  BY DEF LoadInv, DueInv, AloneInv, IsOpen, Commit
<1>2. /\ l \in Loans /\ cases'[l].state = work[w].state
      /\ \A m \in Loans \ {l} : cases'[m] = cases[m]
  BY CommitWrites DEF LoadInv, DueInv
<1>3. cases'[l].agent = work[w].agent
  <2>1. cases[l] \in Cases /\ work[w] \in Cases /\ cases \in [Loans -> Cases]
    BY <1>2 DEF LoadInv, DueInv, SessionInv, TypeOK
  <2>2. Merge(cases[l], cases[l], work[w]).agent = work[w].agent
    BY <2>1 DEF Merge, Cases
  <2>3. cases' = [cases EXCEPT ![l] = Merge(cases[l], cases[l], work[w])]
    BY <1>1 DEF Commit
  <2> HIDE DEF l
  <2> QED
    BY <1>2, <2>1, <2>2, <2>3
<1>4. cases[l].state \notin Terminal
  <2>1. work[w].state \in Transitions(cases[l].state)
    BY <1>1 DEF LoadInv, DueInv, SessionInv, SessionOf
  <2> QED
    BY <2>1 DEF Transitions, Terminal
<1>5. /\ S \subseteq Loans /\ T \subseteq Loans
      /\ \A m \in Loans \ {l} : m \in T <=> m \in S
      /\ l \in T <=> work[w].agent = a /\ work[w].state \notin Terminal
      /\ l \in S <=> cases[l].agent = a
  BY <1>2, <1>3, <1>4 DEF CasesOf
<1>6. /\ IsFiniteSet(S) /\ IsFiniteSet(T)
      /\ Cardinality(S) \in Nat /\ Cardinality(T) \in Nat
  BY <1>5, SetsAssumption, FS_Subset, FS_CardinalityType DEF SetsAssumption
<1>7. count[a] \in Nat /\ Cardinality(S) <= count[a]
  BY <1>1 DEF CountCovers, LoadInv, DueInv, SessionInv, TypeOK
<1>8. a # Nobody
  BY SetsAssumption DEF SetsAssumption
<1> HIDE DEF S, T, l
<1>9. CASE agent[w] = a
  <2>1. count'[a] = load[w]
    BY <1>8, <1>9 DEF Commit, LoadInv, DueInv, SessionInv, TypeOK
  <2>2. CASE work[w].state \in Terminal
    <3>1. l \in S /\ T = S \ {l}
      BY <1>1, <1>5, <1>8, <1>9, <2>2 DEF Held
    <3>2. Cardinality(T) = Cardinality(S) - 1
      BY <1>6, <3>1, FS_RemoveElement
    <3>3. load[w] = count[a] - 1
      BY <1>1, <1>8, <1>9, <2>2 DEF CountIsFresh
    <3>4. Cardinality(T) <= count'[a]
      BY <1>6, <1>7, <2>1, <3>2, <3>3
    <3> QED
      BY <3>4 DEF CountCovers, T
  <2>3. CASE work[w].state \notin Terminal
    <3>1. T \subseteq S \cup {l}
      BY <1>5
    <3>2. Cardinality(T) <= Cardinality(S \cup {l}) /\ Cardinality(S \cup {l}) \in Nat
      BY <1>6, <3>1, FS_AddElement, FS_Subset, FS_CardinalityType
    <3>3. Cardinality(S \cup {l}) <= Cardinality(S) + 1
      <4>1. \/ Cardinality(S \cup {l}) = Cardinality(S)
            \/ Cardinality(S \cup {l}) = Cardinality(S) + 1
        BY <1>6, FS_AddElement
      <4> QED
        BY <1>6, <4>1
    <3>4. load[w] = count[a] + 1
      BY <1>1, <1>8, <1>9, <2>3 DEF CountIsFresh
    <3>5. Cardinality(T) <= count'[a]
      BY <1>6, <1>7, <2>1, <3>2, <3>3, <3>4
    <3> QED
      BY <3>5 DEF CountCovers, T
  <2> QED
    BY <2>2, <2>3
<1>10. CASE agent[w] # a
  <2>1. count'[a] = count[a]
    BY <1>10 DEF Commit, LoadInv, DueInv, SessionInv, TypeOK
  <2>2. T \subseteq S
    BY <1>1, <1>5, <1>10 DEF Held
  <2>3. Cardinality(T) <= Cardinality(S)
    BY <1>6, <2>2, FS_Subset
  <2>4. Cardinality(T) <= count'[a]
    BY <1>6, <1>7, <2>1, <2>3
  <2> QED
    BY <2>4 DEF CountCovers, T
<1> QED
  BY <1>9, <1>10

LEMMA CommitHeld ==
    ASSUME LoadInv, NEW w \in Workers, Commit(w)
    PROVE  LoadInv'
<1>1. DueInv'
  BY CommitKeeps, CommitAlone DEF LoadInv, DueInv
<1>2. Close(w) /\ overlapped' = overlapped /\ pc[w] = "commit"
  BY DEF Commit
<1>3. \A v \in Workers : Held(v)'
  BY <1>2, CloseHeld
<1>4. ASSUME ~overlapped, NEW v \in Workers
      PROVE  agent'[v] = Nobody
  <2>1. v = w \/ pc[v] = "idle"
    BY <1>2, <1>4 DEF LoadInv, DueInv, AloneInv, IsOpen
  <2> QED
    BY <1>2, <2>1, CloseHeld DEF LoadInv, Held
<1> QED
  BY <1>1, <1>2, <1>3, <1>4, CommitCovers DEF LoadInv, CountIsFresh

LEMMA AbandonHeld ==
    ASSUME LoadInv, NEW w \in Workers, Abandon(w)
    PROVE  LoadInv'
<1>1. DueInv'
  BY AbandonKeeps, SessionAlone DEF LoadInv, DueInv
<1>2. /\ Close(w) /\ overlapped' = overlapped /\ cases' = cases /\ count' = count
      /\ pc[w] # "idle"
  BY DEF Abandon, rowVars
<1>3. \A v \in Workers : Held(v)'
  BY <1>2, CloseHeld
<1>4. ASSUME ~overlapped, NEW v \in Workers
      PROVE  agent'[v] = Nobody
  <2>1. v = w \/ pc[v] = "idle"
    BY <1>2, <1>4 DEF LoadInv, DueInv, AloneInv, IsOpen
  <2> QED
    BY <1>2, <2>1, CloseHeld DEF LoadInv, Held
<1>5. \A b \in Agents : CountCovers(b)' = CountCovers(b)
  BY <1>2 DEF CountCovers, CasesOf
<1> QED
  BY <1>1, <1>2, <1>3, <1>4, <1>5 DEF LoadInv, CountIsFresh

\* Steps that leave the cases, the counters and the sessions alone.
LEMMA SameHeld ==
    ASSUME LoadInv, DueInv', UNCHANGED <<rowVars, sessionVars, overlapped>>
    PROVE  LoadInv'
<1>1. \A w \in Workers : Held(w)' = Held(w) /\ CountIsFresh(w)' = CountIsFresh(w)
  BY DEF Held, CountIsFresh, rowVars, sessionVars
<1>2. \A a \in Agents : CountCovers(a)' = CountCovers(a)
  BY DEF CountCovers, CasesOf, rowVars
<1> QED
  BY <1>1, <1>2 DEF LoadInv

LEMMA NextHeld ==
    ASSUME LoadInv, [Next]_vars
    PROVE  LoadInv'
<1>0. DueInv'
  BY NextAlone DEF LoadInv
<1>1. CASE Quiet
  BY <1>0, <1>1, QuietShape, SameHeld DEF LoadInv, DueInv
<1>2. ASSUME NEW w \in Workers, Session(w)
      PROVE  LoadInv'
  BY <1>2, PickHeld, DecrementHeld, CommitHeld, AbandonHeld DEF Session
<1>3. ASSUME NEW w \in Workers, NEW l \in Loans, Operation(w, l)
      PROVE  LoadInv'
  <2>1. StartsOrPasses(w, l)
    BY <1>3, OperationShape DEF LoadInv, DueInv
  <2>2. CASE OpensSession(w, l)
    BY <2>1, <2>2, OpenHeld DEF StartsOrPasses
  <2>3. CASE PassesOver
    BY <1>0, <2>3, SameHeld DEF PassesOver
  <2> QED
    BY <2>1, <2>2, <2>3 DEF StartsOrPasses
<1>4. CASE UNCHANGED vars
  BY <1>0, <1>4, SameHeld DEF vars
<1> QED
  BY <1>1, <1>2, <1>3, <1>4 DEF Next, Quiet

LEMMA InitHeld ==
    ASSUME Init
    PROVE  LoadInv
<1>1. DueInv
  BY InitHolds DEF DueInv, AloneInv, IsOpen, Breaks, Init
<1>2. \A w \in Workers : Held(w) /\ CountIsFresh(w)
  BY DEF Init, Held, CountIsFresh
<1>3. ASSUME NEW a \in Agents
      PROVE  CountCovers(a)
  <2>1. CasesOf(a) = {}
    BY SetsAssumption DEF Init, CasesOf, NewCase, NoCase, SetsAssumption
  <2> QED
    BY <2>1, FS_EmptySet DEF CountCovers, Init
<1> QED
  BY <1>1, <1>2, <1>3 DEF LoadInv

\* No agent is given more than max_cases_per_agent: the counter under any
\* overlap, the open cases as long as sessions do not overlap, for any number
\* of cases, agents and sessions.
THEOREM LoadsStayBounded == Spec => []LoadsBounded
<1>1. LoadInv => LoadsBounded
  <2> SUFFICES ASSUME LoadInv PROVE LoadsBounded
    OBVIOUS
  <2>1. CountWithinLimit
    BY DEF LoadInv, DueInv, SessionInv
  <2>2. ASSUME ~overlapped, NEW a \in Agents \ ByHand
        PROVE  /\ Cardinality(CasesOf(a)) <= count[a]
               /\ Cardinality(CasesOf(a)) <= MaxCases
    <3>1. IsFiniteSet(CasesOf(a)) /\ Cardinality(CasesOf(a)) \in Nat
      <4>1. CasesOf(a) \subseteq Loans
        BY DEF CasesOf
      <4> QED
        BY <4>1, SetsAssumption, FS_Subset, FS_CardinalityType DEF SetsAssumption
    <3>2. Cardinality(CasesOf(a)) <= count[a]
      BY <2>2 DEF LoadInv, CountCovers
    <3>3. count[a] \in Nat /\ count[a] <= MaxCases /\ MaxCases \in Nat
      BY <2>1, BoundsAssumption
      DEF LoadInv, DueInv, SessionInv, TypeOK, CountWithinLimit, BoundsAssumption
    <3> QED
      BY <3>1, <3>2, <3>3
  <2> QED
    BY <2>1, <2>2 DEF LoadsBounded, LoadWithinLimit
<1> QED
  BY <1>1, InitHeld, NextHeld, PTL DEF Spec
=============================================================================
