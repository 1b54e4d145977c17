----------------------------- MODULE Collections -----------------------------
(***************************************************************************)
(* The collections service: cases of defaulted loans, the agents they are  *)
(* assigned to, the log of activities, the consumer of loan.defaulted and  *)
(* the two daily sweeps.                                                   *)
(*                                                                         *)
(* Every operation is one session: it reads the case without a lock,       *)
(* checks the transition on what it read, reads an agent when it needs one *)
(* and commits. Autoflush is off and the commit writes the columns that    *)
(* differ from the row as it was read.                                     *)
(*                                                                         *)
(* open_case() logs the activity with the id of a case that has none       *)
(* before the flush, and the log's case_id is NOT NULL: its commit fails.  *)
(* The cases of this model are those a data load put in the table.         *)
(***************************************************************************)
EXTENDS Integers, FiniteSets

CONSTANTS
    Loans,       \* defaulted loans
    Loaded,      \* the loans with a row in collection_cases
    Messages,    \* the loans whose loan.defaulted message is on the stream
    Agents,      \* the active rows of collection_agents
    ByHand,      \* the agent ids a caller of assign_agent() may name: it
                 \* takes any, of an agent with a row or without
    MaxCases,    \* max_cases_per_agent
    Dpds,        \* days past due a sweep may be given
    PromiseDays, \* the dates promises are made for
    MaxDay,      \* the calendar stops here
    Workers,     \* concurrent sessions
    Nobody       \* NULL: no agent, no loan

ASSUME SetsAssumption ==
    /\ IsFiniteSet(Loans) /\ Loaded \subseteq Loans /\ Messages \subseteq Loans
    /\ Nobody \notin Loans \cup Agents \cup ByHand
ASSUME BoundsAssumption ==
    /\ MaxCases \in Nat /\ MaxDay \in Nat
    /\ Dpds \subseteq 0 .. 9999 /\ PromiseDays \subseteq Nat

-----------------------------------------------------------------------------
(* The state machine and the escalation ladder                             *)

States == {"OPEN", "AGENT_ASSIGNED", "PROMISE_TO_PAY", "BROKEN_PROMISE",
           "LEGAL", "RECOVERED", "WRITTEN_OFF"}
Terminal == {"RECOVERED", "WRITTEN_OFF"}

\* _TRANSITIONS: what transition() lets through.
Transitions(s) ==
    CASE s = "OPEN" -> {"AGENT_ASSIGNED", "PROMISE_TO_PAY", "LEGAL"} \cup Terminal
      [] s = "AGENT_ASSIGNED" -> {"PROMISE_TO_PAY", "LEGAL"} \cup Terminal
      [] s = "PROMISE_TO_PAY" -> {"RECOVERED", "BROKEN_PROMISE"}
      [] s = "BROKEN_PROMISE" -> {"AGENT_ASSIGNED", "LEGAL", "WRITTEN_OFF"}
      [] s = "LEGAL" -> Terminal
      [] OTHER -> {}

\* evaluate(): the rule of the ladder the days past due fall on.
Evaluate(dpd) ==
    CASE dpd <= 30 -> "AUTO_OUTREACH"
      [] dpd \in 31 .. 60 -> "AGENT_REQUIRED"
      [] dpd \in 61 .. 89 -> "LEGAL_NOTICE"
      [] OTHER -> "WRITE_OFF_READY"

-----------------------------------------------------------------------------
(* Rows                                                                    *)

\* A collection_cases row: `promise' is promise_to_pay_date, in days. Of the
\* other columns, days_past_due and resolved_at among them, no operation reads
\* what it has not just been given.
Cases == [state : States \cup {"ABSENT"}, agent : Agents \cup ByHand \cup {Nobody},
          promise : Nat]
NoCase == [state |-> "ABSENT", agent |-> Nobody, promise |-> 0]
NewCase == [NoCase EXCEPT !.state = "OPEN"]

\* The columns a session changed, written over the newest committed row.
Merge(row, loaded, new) ==
    [c \in DOMAIN row |-> IF new[c] = loaded[c] THEN row[c] ELSE new[c]]

-----------------------------------------------------------------------------
VARIABLES
    cases,    \* collection_cases, by loan
    logged,   \* to_state of the activity committed last on each case
    count,    \* active_case_count of each agent
    unread, acked,   \* loan.defaulted messages not delivered, acknowledged
    overdue,  \* the loans the broken-promise sweep has still to visit
    today,
    pc, loan, loaded, work,   \* the sessions: step, case, row read and changed
    agent, load,              \* agent row the session holds, count it read
    overlapped   \* history: two sessions were once open at the same time

rowVars == <<cases, logged, count>>
streamVars == <<unread, acked>>
sessionVars == <<pc, loan, loaded, work, agent, load>>
vars == <<rowVars, streamVars, overdue, today, sessionVars, overlapped>>

Steps == {"idle", "pick", "decrement", "commit"}

TypeOK ==
    /\ cases \in [Loans -> Cases]
    /\ logged \in [Loans -> States]
    /\ count \in [Agents -> Nat]
    /\ unread \subseteq Loans /\ acked \subseteq Loans
    /\ overdue \subseteq Loans
    /\ today \in Nat
    /\ pc \in [Workers -> Steps]
    /\ loan \in [Workers -> Loans \cup {Nobody}]
    /\ loaded \in [Workers -> Cases]
    /\ work \in [Workers -> Cases]
    /\ agent \in [Workers -> Agents \cup {Nobody}]
    /\ load \in [Workers -> Int]
    /\ overlapped \in BOOLEAN

Init ==
    /\ cases = [l \in Loans |-> IF l \in Loaded THEN NewCase ELSE NoCase]
    /\ logged = [l \in Loans |-> "OPEN"]
    /\ count = [a \in Agents |-> 0]
    /\ unread = Messages /\ acked = {}
    /\ overdue = {}
    /\ today = 1
    /\ pc = [w \in Workers |-> "idle"]
    /\ loan = [w \in Workers |-> Nobody]
    /\ loaded = [w \in Workers |-> NoCase]
    /\ work = [w \in Workers |-> NoCase]
    /\ agent = [w \in Workers |-> Nobody]
    /\ load = [w \in Workers |-> 0]
    /\ overlapped = FALSE

-----------------------------------------------------------------------------
(* The consumer of loan.events                                             *)

\* open_case() for a message: an existing case is returned and the message
\* acknowledged; otherwise the commit fails, the message stays pending, with
\* any of the messages read in the same batch, and pending ones are not read.
OpenCase(l) ==
    /\ l \in unread
    /\ IF cases[l].state # "ABSENT"
         THEN acked' = acked \cup {l} /\ unread' = unread \ {l}
         ELSE /\ UNCHANGED acked
              /\ \E rest \in SUBSET unread : unread' = unread \ (rest \cup {l})
    /\ UNCHANGED <<rowVars, overdue, today, sessionVars, overlapped>>

-----------------------------------------------------------------------------
(* Sessions                                                                *)

\* Session w has read case l and means to commit `new'; next is its next step.
Open(w, l, new, next) ==
    /\ pc[w] = "idle"
    /\ pc' = [pc EXCEPT ![w] = next]
    /\ loan' = [loan EXCEPT ![w] = l]
    /\ loaded' = [loaded EXCEPT ![w] = cases[l]]
    /\ work' = [work EXCEPT ![w] = new]
    /\ overlapped' = (overlapped \/ \E v \in Workers : pc[v] # "idle")
    /\ UNCHANGED <<rowVars, streamVars, today, agent, load>>

Close(w) ==
    /\ pc' = [pc EXCEPT ![w] = "idle"]
    /\ loan' = [loan EXCEPT ![w] = Nobody]
    /\ loaded' = [loaded EXCEPT ![w] = NoCase]
    /\ work' = [work EXCEPT ![w] = NoCase]
    /\ agent' = [agent EXCEPT ![w] = Nobody]
    /\ load' = [load EXCEPT ![w] = 0]

\* The transition check on the case as read.
May(l, target) == target \in Transitions(cases[l].state)

\* assign_agent() without an agent_id.
AssignAuto(w, l) ==
    /\ May(l, "AGENT_ASSIGNED")
    /\ Open(w, l, [cases[l] EXCEPT !.state = "AGENT_ASSIGNED"], "pick")
    /\ UNCHANGED overdue

\* assign_agent() with an agent_id: no agent row is read.
AssignByHand(w, l, a) ==
    /\ May(l, "AGENT_ASSIGNED")
    /\ Open(w, l, [cases[l] EXCEPT !.state = "AGENT_ASSIGNED", !.agent = a],
            "commit")
    /\ UNCHANGED overdue

RecordPromise(w, l, day) ==
    /\ May(l, "PROMISE_TO_PAY")
    /\ Open(w, l, [cases[l] EXCEPT !.state = "PROMISE_TO_PAY", !.promise = day],
            "commit")
    /\ UNCHANGED overdue

ReferToLegal(w, l) ==
    /\ May(l, "LEGAL")
    /\ Open(w, l, [cases[l] EXCEPT !.state = "LEGAL"], "commit")
    /\ UNCHANGED overdue

\* record_recovery() and write_off().
Resolve(w, l, outcome) ==
    /\ May(l, outcome)
    /\ Open(w, l, [cases[l] EXCEPT !.state = outcome],
            IF cases[l].agent = Nobody THEN "commit" ELSE "decrement")
    /\ UNCHANGED overdue

\* Mutant: the days past due and the new state are saved first, the
\* assignment follows.
EscalateSavesState(w, l, dpd) ==
    /\ Evaluate(dpd) = "AGENT_REQUIRED" /\ cases[l].state = "OPEN"
    /\ pc[w] = "idle"
    /\ cases' = [cases EXCEPT ![l].state = "AGENT_ASSIGNED"]
    /\ UNCHANGED <<logged, count, streamVars, overdue, today, sessionVars,
                   overlapped>>
\* escalate_if_needed(): the days past due are saved in a commit of their own;
\* the assignment or referral that follows finds the case this session has
\* already read and decides on that. Other outcomes change no state.
Escalate(w, l, dpd) ==
    \/ /\ Evaluate(dpd) = "AGENT_REQUIRED" /\ cases[l].state = "OPEN"
       /\ AssignAuto(w, l)
    \/ /\ Evaluate(dpd) = "LEGAL_NOTICE"
       /\ cases[l].state \in {"OPEN", "AGENT_ASSIGNED", "BROKEN_PROMISE"}
       /\ ReferToLegal(w, l)

-----------------------------------------------------------------------------
(* check_broken_promises(): a list, then a session per case; one sweep at  *)
(* a time.                                                                 *)

SweepOver == overdue = {} /\ \A w \in Workers : work[w].state # "BROKEN_PROMISE"

\* Mutant: a promise is broken on its very day.
ListOverdueToday ==
    /\ SweepOver
    /\ overdue' = {l \in Loans : /\ cases[l].state = "PROMISE_TO_PAY"
                                 /\ cases[l].promise <= today}
    /\ UNCHANGED <<rowVars, streamVars, today, sessionVars, overlapped>>
ListOverdue ==
    /\ SweepOver
    /\ overdue' = {l \in Loans : /\ cases[l].state = "PROMISE_TO_PAY"
                                 /\ cases[l].promise < today}
    /\ UNCHANGED <<rowVars, streamVars, today, sessionVars, overlapped>>

\* mark_broken_promise(): the state is read again, the date is not; a case in
\* another state is passed over.
MarkBroken(w, l) ==
    /\ l \in overdue /\ \A v \in Workers : work[v].state # "BROKEN_PROMISE"
    /\ overdue' = overdue \ {l}
    /\ IF May(l, "BROKEN_PROMISE")
         THEN Open(w, l, [cases[l] EXCEPT !.state = "BROKEN_PROMISE"], "commit")
         ELSE UNCHANGED <<rowVars, streamVars, today, sessionVars, overlapped>>

-----------------------------------------------------------------------------
(* The agent's row and the commit                                          *)

Available(a) == count[a] < MaxCases

\* Mutant: the assignment is not counted.
PickUncounted(w) ==
    /\ pc[w] = "pick"
    /\ \E a \in Agents : Available(a) /\ work' = [work EXCEPT ![w].agent = a]
    /\ pc' = [pc EXCEPT ![w] = "commit"]
    /\ UNCHANGED <<rowVars, streamVars, overdue, today, loan, loaded, agent, load,
                   overlapped>>
\* _pick_available_agent(): the least loaded one below the limit; without one
\* the operation raises (Abandon).
Pick(w) ==
    /\ pc[w] = "pick"
    /\ \E a \in Agents :
        /\ Available(a)
        /\ \A b \in Agents : Available(b) => count[a] <= count[b]
        /\ agent' = [agent EXCEPT ![w] = a]
        /\ load' = [load EXCEPT ![w] = count[a] + 1]
        /\ work' = [work EXCEPT ![w].agent = a]
    /\ pc' = [pc EXCEPT ![w] = "commit"]
    /\ UNCHANGED <<rowVars, streamVars, overdue, today, loan, loaded, overlapped>>

\* _decrement_agent_caseload(): of the agent's row, if there is one.
Decrement(w) ==
    /\ pc[w] = "decrement"
    /\ IF loaded[w].agent \in Agents /\ count[loaded[w].agent] > 0
         THEN /\ agent' = [agent EXCEPT ![w] = loaded[w].agent]
              /\ load' = [load EXCEPT ![w] = count[loaded[w].agent] - 1]
         ELSE UNCHANGED <<agent, load>>
    /\ pc' = [pc EXCEPT ![w] = "commit"]
    /\ UNCHANGED <<rowVars, streamVars, overdue, today, loan, loaded, work,
                   overlapped>>

\* The case, the agent's counter and the activity in one transaction. (The table
\* dates an activity by the start of its transaction, func.now(): of sessions that
\* overlap, the one that commits last need not have the newest date.)
Commit(w) ==
    /\ pc[w] = "commit"
    /\ cases' = [cases EXCEPT ![loan[w]] = Merge(@, loaded[w], work[w])]
    /\ logged' = [logged EXCEPT ![loan[w]] = work[w].state]
    /\ count' = IF agent[w] = Nobody THEN count
                ELSE [count EXCEPT ![agent[w]] = load[w]]
    /\ Close(w)
    /\ UNCHANGED <<streamVars, overdue, today, overlapped>>

\* No agent is free, or the connection is lost: nothing is written.
Abandon(w) ==
    /\ pc[w] # "idle"
    /\ Close(w)
    /\ UNCHANGED <<rowVars, streamVars, overdue, today, overlapped>>

Tick ==
    /\ today < MaxDay
    /\ today' = today + 1
    /\ UNCHANGED <<rowVars, streamVars, overdue, sessionVars, overlapped>>

Operation(w, l) ==
    \/ AssignAuto(w, l)
    \/ \E a \in ByHand : AssignByHand(w, l, a)
    \/ \E day \in PromiseDays : RecordPromise(w, l, day)
    \/ ReferToLegal(w, l)
    \/ \E outcome \in Terminal : Resolve(w, l, outcome)
    \/ \E dpd \in Dpds : Escalate(w, l, dpd)
    \/ MarkBroken(w, l)

Session(w) == Pick(w) \/ Decrement(w) \/ Commit(w) \/ Abandon(w)

Next ==
    \/ \E l \in Loans : OpenCase(l)
    \/ ListOverdue
    \/ Tick
    \/ \E w \in Workers : Session(w) \/ \E l \in Loans : Operation(w, l)

Spec == Init /\ [][Next]_vars
=============================================================================
