-------------------------- MODULE CollectionsProps --------------------------
(* What the collections service promises of its cases and its agents.      *)
EXTENDS Collections

\* The open cases assigned to an agent.
CasesOf(a) == {l \in Loans : cases[l].agent = a /\ cases[l].state \notin Terminal}

\* However sessions overlap and whatever fails, the state of a case is what the
\* activity committed last on it tells: no transition is committed without its
\* activity, no half of an escalation is, and no commit logs a state it does not
\* write. That is the order of the commits, not of created_at, which agrees with
\* it only as long as sessions do not overlap.
StateIsLogged ==
    \A l \in Loaded : logged[l] = cases[l].state

\* active_case_count stays within 0 .. max_cases_per_agent, whatever counts
\* the overlapping assignments and resolutions read.
CountWithinLimit ==
    \A a \in Agents : count[a] <= MaxCases

\* As long as sessions do not overlap, an agent nobody assigns by hand never
\* has more open cases than max_cases_per_agent: the counter it is chosen by
\* is never below its open cases.
LoadWithinLimit ==
    ~overlapped => \A a \in Agents \ ByHand :
        /\ Cardinality(CasesOf(a)) <= count[a]
        /\ Cardinality(CasesOf(a)) <= MaxCases

\* No agent is given more than max_cases_per_agent: the counter never goes above
\* it under any overlap, and without overlap no agent has more cases than that.
LoadsBounded == CountWithinLimit /\ LoadWithinLimit

\* As long as sessions do not overlap, a case only takes steps of the transition
\* table, so a resolved one stays resolved, although each operation checks the
\* state long before it commits another; and it becomes BROKEN_PROMISE only when
\* the date of its promise has passed, although the sweep checks the date when
\* it lists the case and not when it marks it.
TransitionsStand ==
    [][\A l \in Loans :
        /\ cases'[l].state # cases[l].state
        /\ ~overlapped
        => /\ cases'[l].state \in Transitions(cases[l].state)
           /\ cases'[l].state = "BROKEN_PROMISE" => cases[l].promise < today]_vars
=============================================================================
