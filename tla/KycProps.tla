------------------------------ MODULE KycProps ------------------------------
(* What the KYC service promises of its verifications and their events.    *)
EXTENDS Kyc, FiniteSets

TypeOK ==
    /\ record \in [Verifications -> Records]
    /\ document \in [Verifications -> DocumentStatuses]
    /\ \A task \in queue : task.id \in Existing
    /\ told \in [Verifications -> SUBSET {"approved", "rejected"}]
    /\ decided \in [Verifications -> SUBSET {"approved", "rejected"}]
    /\ \A w \in Workers : job[w].step \in Steps
    /\ edited \in BOOLEAN /\ reopened \in BOOLEAN

\* As long as the jobs of a verification do not overlap, what the record says
\* of a decision is what one answer of the provider said: status and sanctions
\* flag of the same one. A task and a webhook that overlap write one column
\* each.
RecordIsOneVerdict ==
    ~overlapped => \A v \in Verifications :
        record[v].status \in {"approved", "rejected"} =>
            [status |-> record[v].status, sanctioned |-> record[v].sanctioned]
                \in verdicts[v]

\* As long as the jobs of a verification do not overlap, the personal data of
\* an approved verification are not changed.
ApprovedIsNotEdited == ~overlapped => ~edited

\* What was decided is what was checked.
ApprovedAsChecked == RecordIsOneVerdict /\ ApprovedIsNotEdited

\* A customer has a second active verification only if two requests for one
\* overlapped or a late answer approved one that was closed; the next request
\* for one then fails, because the check expects one row at most.
OneActiveVerification ==
    ~overlapped /\ ~reopened => Cardinality(Active) <= 1

\* Whatever overlaps, dies and is run again, an event is sent only of a decision
\* the record has been committed with: a job that writes only the columns that
\* differ from what it read, which another has written since, queues its event
\* after its commit. (When the event is sent the record may already say something
\* else.)
EventsAreFounded ==
    [][\A v \in Verifications : told'[v] \ told[v] \subseteq decided[v]]_vars
=============================================================================
