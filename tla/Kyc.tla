-------------------------------- MODULE Kyc --------------------------------
(***************************************************************************)
(* The KYC service, for one customer: verifications opened over HTTP,      *)
(* identity and document checks run as Celery tasks, the provider's        *)
(* webhooks, corrections by the customer, the expiry task and the events   *)
(* on lendkit:kyc:events. A job is one request or one task, with its own   *)
(* database session: what it read it keeps while it waits for a provider,  *)
(* and its commit writes the columns it changed.                           *)
(*                                                                         *)
(* A queued task is delivered at least once: it leaves the queue when it   *)
(* ends, and a worker that dies leaves it there or, as Celery does when    *)
(* only the child process is lost, drops it.                               *)
(***************************************************************************)
EXTENDS Integers

CONSTANTS
    Workers,           \* jobs that may run at the same time
    Levels,            \* requested levels: "standard" (or basic), "enhanced"
    Answers,           \* what the identity provider may say: status, sanctioned
    MaxVerifications,  \* bound on the verifications opened
    MaxDocuments,      \* bound on the verifications that get a document
    MaxRetries         \* of an identity check

Verifications == 1 .. MaxVerifications
Unknown == 0   \* no verification

ASSUME AnswersAssumption ==
    /\ Answers \subseteq [status : {"approved", "rejected"}, sanctioned : BOOLEAN]
    /\ Levels \subseteq {"standard", "enhanced"}
ASSUME BoundsAssumption ==
    /\ MaxVerifications \in Nat
    /\ MaxDocuments \in Nat /\ MaxRetries \in Nat

-----------------------------------------------------------------------------
Statuses == {"initiated", "approved", "rejected", "expired"}
Closed == {"rejected", "expired"}   \* those initiate_kyc() does not count

\* ref: a reference of the provider is stored.
Records == [status : Statuses \cup {"absent"}, ref : BOOLEAN, sanctioned : BOOLEAN]
NoRecord == [status |-> "absent", ref |-> FALSE, sanctioned |-> FALSE]

DocumentStatuses == {"absent", "submitted", "verified", "rejected"}

IdentityTask(v, tries) == [task |-> "identity", id |-> v, tries |-> tries]
DocumentTask(v) == [task |-> "document", id |-> v]
EventTask(v, status) == [task |-> "event", id |-> v, status |-> status]
NoTask == [task |-> "none"]

\* A job at a step that holds nothing yet.
Job(step, v, row, task) ==
    [step |-> step, id |-> v, copy |-> row, new |-> row, task |-> task]
NoJob == Job("idle", Unknown, NoRecord, NoTask)

Steps == {"idle", "opening", "calling", "saving", "announcing", "editing",
          "uploading"}

VARIABLES
    record,    \* kyc_verifications
    document,  \* kyc_documents: the last document of each verification
    queue,     \* tasks queued and not ended
    told,      \* what the stream has been told of each verification
    job,       \* what each worker is doing
    decided,   \* history: the decisions each verification was committed with
    overlapped,\* history: two jobs of one verification, or two openings, met
    \* and, as long as they have not,
    verdicts,  \* history: the provider's answers on each verification
    reopened,  \* history: a closed verification was approved
    edited     \* history: an approved verification was corrected

rowVars == <<record, document, decided, reopened, edited>>
vars == <<rowVars, queue, told, job, verdicts, overlapped>>

Existing == {v \in Verifications : record[v].status # "absent"}
Active == {v \in Existing : record[v].status \notin Closed}

Init ==
    /\ record = [v \in Verifications |-> NoRecord]
    /\ document = [v \in Verifications |-> "absent"]
    /\ queue = {}
    /\ told = [v \in Verifications |-> {}]
    /\ decided = [v \in Verifications |-> {}]
    /\ job = [w \in Workers |-> NoJob]
    /\ verdicts = [v \in Verifications |-> {}]
    /\ reopened = FALSE
    /\ edited = FALSE
    /\ overlapped = FALSE

-----------------------------------------------------------------------------
(* Jobs and commits                                                        *)

\* The steps at which a job relies on a row it has read.
Holding == Steps \ {"idle", "announcing"}

Meets(w, v) == \E u \in Workers \ {w} : job[u].step \in Holding /\ job[u].id = v

Begin(w, j) ==
    /\ job[w].step = "idle"
    /\ job' = [job EXCEPT ![w] = j]
    /\ overlapped' = (overlapped \/ Meets(w, j.id))

GoTo(w, step) == job' = [job EXCEPT ![w].step = step]
End(w) == job' = [job EXCEPT ![w] = NoJob]

\* Mutant: the sanctions flag is taken from the answer to the first check.
MergeKeepsFlag(row, copy, new) ==
    [f \in DOMAIN row |-> IF f # "sanctioned" /\ new[f] # copy[f]
                            THEN new[f] ELSE row[f]]
\* The UPDATE of a flush sets the columns the session changed.
Merge(row, copy, new) ==
    [f \in DOMAIN row |-> IF new[f] # copy[f] THEN new[f] ELSE row[f]]

\* The commit of job w.
Write(w) ==
    LET v == job[w].id
        row == Merge(record[v], job[w].copy, job[w].new)
    IN  /\ record' = [record EXCEPT ![v] = row]
        /\ decided' = [decided EXCEPT ![v] = @ \cup {row.status}]
        /\ reopened' = (reopened \/ (~overlapped /\ record[v].status \in Closed
                                     /\ row.status = "approved"))
        /\ UNCHANGED <<document, edited>>

Hear(v, answer) ==
    verdicts' = IF overlapped THEN verdicts
                ELSE [verdicts EXCEPT ![v] = @ \cup {answer}]

-----------------------------------------------------------------------------
(* Requests                                                                *)

\* Mutant: only approved verifications keep a new one from being opened.
OpenBesideInitiated(w) ==
    /\ \A v \in Existing : record[v].status # "approved"
    /\ Begin(w, Job("opening", Unknown, NoRecord, NoTask))
    /\ UNCHANGED <<rowVars, queue, told, verdicts>>
\* initiate_kyc() up to its check; otherwise it answers 409.
Open(w) ==
    /\ Active = {}
    /\ Begin(w, Job("opening", Unknown, NoRecord, NoTask))
    /\ UNCHANGED <<rowVars, queue, told, verdicts>>

\* A background task queues a Celery task after the answer, unless the process
\* dies first.
QueueOrLose(task) == queue' = queue \cup {task} \/ UNCHANGED queue

\* The rest of it. The identity check of an enhanced verification is queued by
\* nobody.
Opened(w) ==
    /\ job[w].step = "opening"
    /\ \E v \in Verifications \ Existing :   \* bound of the model
         /\ \A u \in Verifications \ Existing : v <= u
         /\ record' = [record EXCEPT ![v].status = "initiated"]
         /\ \/ "standard" \in Levels /\ QueueOrLose(IdentityTask(v, 0))
            \/ "enhanced" \in Levels /\ UNCHANGED queue
    /\ End(w)
    /\ UNCHANGED <<document, decided, reopened, edited, told, verdicts, overlapped>>

\* update_kyc(): personal data, which the check may or may not have seen.
Edit(w, v) ==
    /\ record[v].status \in {"initiated", "rejected"}
    /\ Begin(w, Job("editing", v, record[v], NoTask))
    /\ UNCHANGED <<rowVars, queue, told, verdicts>>

Edited(w) ==
    /\ job[w].step = "editing"
    /\ edited' = (edited \/ (~overlapped
                              /\ record[job[w].id].status = "approved"))
    /\ End(w)
    /\ UNCHANGED <<record, document, decided, reopened, queue, told, verdicts,
                   overlapped>>

\* upload_document() up to the upload of the images.
Upload(w, v) ==
    /\ record[v].status = "initiated"
    /\ document[v] = "absent" /\ v <= MaxDocuments   \* bound of the model
    /\ Begin(w, Job("uploading", v, record[v], NoTask))
    /\ UNCHANGED <<rowVars, queue, told, verdicts>>

Uploaded(w) ==
    /\ job[w].step = "uploading"
    /\ document' = [document EXCEPT ![job[w].id] = "submitted"]
    /\ QueueOrLose(DocumentTask(job[w].id))
    /\ End(w)
    /\ UNCHANGED <<record, decided, reopened, edited, told, verdicts, overlapped>>

\* handle_webhook(): the provider speaks of the reference the row carries; a
\* webhook with one it does not carry yet, or not any more, changes nothing.
Webhook(w, v, answer) ==
    /\ record[v].ref
    /\ Begin(w, [Job("saving", v, record[v], NoTask) EXCEPT
                   !.new = [status |-> answer.status, ref |-> TRUE,
                            sanctioned |-> answer.sanctioned]])
    /\ Hear(v, answer)
    /\ UNCHANGED <<rowVars, queue, told>>

-----------------------------------------------------------------------------
(* Tasks                                                                   *)

Running(task) == \E w \in Workers : job[w].task = task

\* A worker takes a task nobody is at.
CheckIdentity(w, task) ==
    /\ task \in queue /\ task.task = "identity" /\ ~Running(task)
    /\ Begin(w, Job("calling", task.id, record[task.id], task))
    /\ UNCHANGED <<rowVars, queue, told, verdicts>>

\* Mutant: the event is queued with the answer, before the commit.
CallAnnounces(w, answer) ==
    /\ job[w].step = "calling"
    /\ job' = [job EXCEPT ![w].step = "saving",
                          ![w].new = [status |-> answer.status, ref |-> TRUE,
                                      sanctioned |-> answer.sanctioned]]
    /\ Hear(job[w].id, answer)
    /\ queue' = queue \cup {EventTask(job[w].id, answer.status)}
    /\ UNCHANGED <<rowVars, told, overlapped>>
\* The provider answers the identity check.
Call(w, answer) ==
    /\ job[w].step = "calling"
    /\ job' = [job EXCEPT ![w].step = "saving",
                          ![w].new = [status |-> answer.status, ref |-> TRUE,
                                      sanctioned |-> answer.sanctioned]]
    /\ Hear(job[w].id, answer)
    /\ UNCHANGED <<rowVars, queue, told, overlapped>>

\* The provider fails: the task is queued again, or given up.
Retry(w) ==
    /\ job[w].step = "calling"
    /\ LET task == job[w].task IN
       queue' = (queue \ {task}) \cup
                (IF task.tries < MaxRetries THEN {[task EXCEPT !.tries = @ + 1]}
                 ELSE {})
    /\ End(w)
    /\ UNCHANGED <<rowVars, told, verdicts, overlapped>>

\* The record is written; a webhook tells nobody.
Save(w) ==
    /\ job[w].step = "saving"
    /\ Write(w)
    /\ IF job[w].task = NoTask THEN End(w) ELSE GoTo(w, "announcing")
    /\ UNCHANGED <<queue, told, verdicts, overlapped>>

\* The end of run_identity_check(): the event is queued as a task of its own.
Announce(w) ==
    /\ job[w].step = "announcing"
    /\ queue' = (queue \ {job[w].task})
                    \cup {EventTask(job[w].id, job[w].new.status)}
    /\ End(w)
    /\ UNCHANGED <<rowVars, told, verdicts, overlapped>>

\* emit_kyc_event(), whatever the record says by then: a failed XADD is logged
\* and forgotten, a worker that dies leaves the task to be run again.
Emit(task) ==
    /\ task \in queue /\ task.task = "event"
    /\ \/ /\ told' = [told EXCEPT ![task.id] = @ \cup {task.status}]
          /\ queue' = queue \ {task} \/ UNCHANGED queue
       \/ /\ queue' = queue \ {task}
          /\ UNCHANGED told
    /\ UNCHANGED <<rowVars, job, verdicts, overlapped>>

\* run_document_verify(); nothing but this task writes the document it reads.
\* It may fail and be queued again, which is no step here, or be given up.
CheckDocument(task) ==
    /\ task \in queue /\ task.task = "document"
    /\ \/ \E s \in {"verified", "rejected"} :
            document' = [document EXCEPT ![task.id] = s]
       \/ UNCHANGED document
    /\ queue' = queue \ {task}
    /\ UNCHANGED <<record, decided, reopened, edited, told, job, verdicts, overlapped>>

\* expire_stale_kyc(): one UPDATE of what nobody decided in 90 days, the oldest
\* first. beat names a task that does not exist: somebody calls this one.
Expire(last) ==
    LET stale == {v \in Verifications :
                    v <= last /\ record[v].status = "initiated"}
    IN  /\ stale # {}
        /\ record' = [v \in Verifications |->
                        IF v \in stale THEN [record[v] EXCEPT !.status = "expired"]
                        ELSE record[v]]
        /\ overlapped' = (overlapped \/ \E w \in Workers :
                            job[w].step \in Holding /\ job[w].id \in stale)
        /\ UNCHANGED <<document, decided, reopened, edited, queue, told, job, verdicts>>

\* The job's process dies.
Crash(w) ==
    /\ job[w].step # "idle"
    /\ End(w)
    /\ \/ UNCHANGED queue
       \/ queue' = queue \ {job[w].task}
    /\ UNCHANGED <<rowVars, told, verdicts, overlapped>>

-----------------------------------------------------------------------------
Request(w) ==
    \/ Open(w) \/ Opened(w) \/ Edited(w) \/ Uploaded(w)
    \/ \E v \in Verifications :
         \/ Edit(w, v)
         \/ Upload(w, v)
         \/ \E answer \in Answers : Webhook(w, v, answer)

Task(w) ==
    \/ \E task \in queue : CheckIdentity(w, task)
    \/ \E answer \in Answers : Call(w, answer)
    \/ Retry(w) \/ Save(w) \/ Announce(w)

Next ==
    \/ \E w \in Workers : Request(w) \/ Task(w) \/ Crash(w)
    \/ \E task \in queue : CheckDocument(task) \/ Emit(task)
    \/ \E last \in Verifications : Expire(last)

Spec == Init /\ [][Next]_vars
=============================================================================
