------------------------------ MODULE KycProofs ------------------------------
(***************************************************************************)
(* Theorems about the KYC service, for any number of verifications, jobs,  *)
(* retries and documents and any answers of the provider.                  *)
(*                                                                         *)
(* They rest on what a job holds while no two jobs of a verification have  *)
(* overlapped (AloneInv): the row it read is still the row, what it means  *)
(* to write is one answer of the provider, and a request that is opening a *)
(* verification has found no active one. What the events tell rests on an  *)
(* invariant that needs no such assumption (EventInv).                     *)
(***************************************************************************)
EXTENDS KycProps, FiniteSetTheorems, TLAPS

IdentityTasks == [task : {"identity"}, id : Verifications, tries : Nat]
DocumentTasks == [task : {"document"}, id : Verifications]
EventTasks == [task : {"event"}, id : Verifications,
               status : {"approved", "rejected"}]
Tasks == IdentityTasks \cup DocumentTasks \cup EventTasks

Jobs == [step : Steps, id : Verifications \cup {Unknown}, copy : Records,
         new : Records, task : Tasks \cup {NoTask}]

\* What a job holds at each of its steps.
Holds(j) ==
    /\ j \in Jobs
    /\ j.step = "opening" => j.id = Unknown
    /\ j.step \in Steps \ {"idle", "opening"} => j.id \in Existing
    /\ j.step = "calling" => j.task \in IdentityTasks /\ j.task.id = j.id
    /\ j.step \in {"saving", "announcing"} => j.new.status \in {"approved", "rejected"}

Shaped ==
    /\ record \in [Verifications -> Records]
    /\ \A v \in Verifications : record[v].ref => v \in Existing
    /\ queue \subseteq Tasks /\ \A task \in queue : task.id \in Existing
    /\ DOMAIN job = Workers /\ \A w \in Workers : Holds(job[w])
    /\ job \in [Workers -> Jobs]
    /\ verdicts \in [Verifications -> SUBSET Answers]
    /\ overlapped \in BOOLEAN /\ edited \in BOOLEAN /\ reopened \in BOOLEAN

VerdictOf(row) == [status |-> row.status, sanctioned |-> row.sanctioned]

\* What a job relies on is still so.
Fresh(j) ==
    /\ j.step \in {"calling", "saving", "editing"} => j.copy = record[j.id]
    /\ j.step = "saving" => VerdictOf(j.new) \in verdicts[j.id]
    /\ j.step = "editing" => j.copy.status # "approved"

Apart == \A v, w \in Workers :
    job[v].step \in Holding /\ job[w].step \in Holding /\ job[v].id = job[w].id => v = w

Decided == \A v \in Verifications :
    record[v].status \in {"approved", "rejected"} => VerdictOf(record[v]) \in verdicts[v]

Single ==
    /\ \A u, v \in Active : u = v
    /\ \A w \in Workers : job[w].step = "opening" => Active = {}

AloneInv ==
    /\ Apart
    /\ \A w \in Workers : Fresh(job[w])
    /\ Decided
    /\ ~edited
    /\ ~reopened => Single

KycInv == Shaped /\ (~overlapped => AloneInv)

LEMMA NoJobHolds == Holds(NoJob) /\ Fresh(NoJob) /\ NoJob.step = "idle"
  BY DEF NoJob, Job, Holds, Jobs, Fresh, Records, Statuses, Steps, Holding, NoRecord

LEMMA InitHolds ==
    ASSUME Init
    PROVE  KycInv
<1>1. NoRecord \in Records /\ NoRecord.status = "absent" /\ NoRecord.ref = FALSE
  BY DEF NoRecord, Records
<1>2. Shaped
  BY <1>1, NoJobHolds DEF Init, Shaped, Holds
<1>3. Apart /\ \A w \in Workers : Fresh(job[w])
  BY NoJobHolds DEF Init, Apart, Holding
<1>4. Decided
  BY <1>1 DEF Init, Decided
<1>5. Single
  BY <1>1, NoJobHolds DEF Init, Single, Active, Existing
<1> QED
  BY <1>2, <1>3, <1>4, <1>5 DEF Init, KycInv, AloneInv

\* What exists and what is active follows from the records.
LEMMA SameRecords ==
    ASSUME record' = record
    PROVE  Existing' = Existing /\ Active' = Active
BY DEF Existing, Active

-----------------------------------------------------------------------------
(* A job that starts, on the row as it is.                                 *)

LEMMA BeginKeeps ==
    ASSUME KycInv, NEW w \in Workers, NEW j, Begin(w, j),
           Holds(j), j.step \in Holding,
           UNCHANGED <<record, queue, edited, reopened>>,
           verdicts' \in [Verifications -> SUBSET Answers],
           ~overlapped => \A v \in Verifications : verdicts[v] \subseteq verdicts'[v],
           ~overlapped => Fresh(j)',
           j.step = "opening" => Active = {}
    PROVE  KycInv'
<1>1. /\ job[w].step = "idle" /\ job' = [job EXCEPT ![w] = j]
      /\ overlapped' = (overlapped \/ Meets(w, j.id))
  BY DEF Begin
<1>2. /\ job'[w] = j /\ \A v \in Workers \ {w} : job'[v] = job[v]
      /\ job' \in [Workers -> Jobs]
  BY <1>1 DEF KycInv, Shaped, Holds
<1>3. ASSUME NEW v \in Workers PROVE Holds(job[v])'
  <2>1. Existing' = Existing
    BY SameRecords
  <2>2. CASE v = w
    BY <1>2, <2>1, <2>2 DEF Holds
  <2>3. CASE v # w
    BY <1>2, <2>1, <2>3 DEF KycInv, Shaped, Holds
  <2> QED
    BY <2>2, <2>3
<1>4. Shaped'
  BY <1>1, <1>2, <1>3, SameRecords DEF KycInv, Shaped
<1>5. ASSUME ~overlapped' PROVE AloneInv'
  <2>1. ~overlapped /\ AloneInv
    BY <1>1, <1>5 DEF KycInv
  <2>2. Apart'
    BY <1>1, <1>2, <1>5, <2>1 DEF AloneInv, Apart, Meets
  <2>3. \A v \in Workers \ {w} : Fresh(job[v])'
    <3> TAKE v \in Workers \ {w}
    <3>1. Fresh(job[v]) /\ Holds(job[v]) /\ job'[v] = job[v]
      BY <1>2, <2>1 DEF AloneInv, KycInv, Shaped
    <3> QED
      BY <1>2, <2>1, <3>1 DEF Fresh, Holds, Holding, Steps, Existing
  <2>4. \A v \in Workers : Fresh(job[v])'
    BY <1>2, <2>1, <2>3
  <2>5. Decided'
    BY <2>1 DEF AloneInv, Decided
  <2>6. ~reopened' => Single'
    BY <1>2, <2>1, SameRecords DEF AloneInv, Single, Holding
  <2> QED
    BY <2>1, <2>2, <2>4, <2>5, <2>6 DEF AloneInv
<1> QED
  BY <1>4, <1>5 DEF KycInv

\* A job with what it read, as the code starts it.
LEMMA JobShape ==
    ASSUME KycInv, NEW step \in {"calling", "editing", "uploading", "saving"},
           NEW v \in Existing, NEW task \in Tasks \cup {NoTask}
    PROVE  LET j == Job(step, v, record[v], task) IN
           /\ j \in Jobs /\ j.step = step /\ j.id = v
           /\ j.copy = record[v] /\ j.new = record[v] /\ j.task = task
<1>1. v \in Verifications /\ record[v] \in Records
  BY DEF KycInv, Shaped, Existing
<1> QED
  BY <1>1 DEF Job, Jobs, Steps

\* A job that starts and hears of no answer.
LEMMA SilentBegin ==
    ASSUME KycInv, NEW w \in Workers, NEW j, Begin(w, j),
           Holds(j), j.step \in Holding,
           UNCHANGED <<rowVars, queue, told, verdicts>>,
           Fresh(j)', j.step = "opening" => Active = {}
    PROVE  KycInv'
<1>1. /\ UNCHANGED <<record, queue, edited, reopened>>
      /\ verdicts' \in [Verifications -> SUBSET Answers]
      /\ ~overlapped => \A v \in Verifications : verdicts[v] \subseteq verdicts'[v]
  BY DEF rowVars, KycInv, Shaped
<1> QED
  BY <1>1, BeginKeeps

LEMMA OpenKeeps ==
    ASSUME KycInv, NEW w \in Workers, Open(w)
    PROVE  KycInv'
<1>1. PICK j : j = Job("opening", Unknown, NoRecord, NoTask)
  OBVIOUS
<1>2. Begin(w, j) /\ Active = {} /\ UNCHANGED <<rowVars, queue, told, verdicts>>
  BY <1>1 DEF Open
<1>3. j \in Jobs /\ j.step = "opening" /\ j.id = Unknown
  BY <1>1 DEF Job, Jobs, Steps, Records, NoRecord
<1>4. Holds(j) /\ j.step \in Holding /\ Fresh(j)'
  BY <1>3 DEF Holds, Holding, Steps, Fresh
<1> QED
  BY <1>2, <1>3, <1>4, SilentBegin

LEMMA EditKeeps ==
    ASSUME KycInv, NEW w \in Workers, NEW v \in Verifications, Edit(w, v)
    PROVE  KycInv'
<1>1. PICK j : j = Job("editing", v, record[v], NoTask)
  OBVIOUS
<1>2. /\ Begin(w, j) /\ UNCHANGED <<rowVars, queue, told, verdicts>>
      /\ record[v].status \in {"initiated", "rejected"}
  BY <1>1 DEF Edit
<1>3. v \in Existing
  BY <1>2 DEF Existing
<1>4. j \in Jobs /\ j.step = "editing" /\ j.id = v /\ j.copy = record[v]
  BY <1>1, <1>3, JobShape
<1>5. Holds(j) /\ j.step \in Holding
  BY <1>3, <1>4 DEF Holds, Holding, Steps
<1>6. Fresh(j)'
  BY <1>2, <1>4 DEF Fresh, rowVars
<1> QED
  BY <1>2, <1>4, <1>5, <1>6, SilentBegin

LEMMA UploadKeeps ==
    ASSUME KycInv, NEW w \in Workers, NEW v \in Verifications, Upload(w, v)
    PROVE  KycInv'
<1>1. PICK j : j = Job("uploading", v, record[v], NoTask)
  OBVIOUS
<1>2. /\ Begin(w, j) /\ UNCHANGED <<rowVars, queue, told, verdicts>>
      /\ record[v].status = "initiated"
  BY <1>1 DEF Upload
<1>3. v \in Existing
  BY <1>2 DEF Existing
<1>4. j \in Jobs /\ j.step = "uploading" /\ j.id = v
  BY <1>1, <1>3, JobShape
<1>5. Holds(j) /\ j.step \in Holding /\ Fresh(j)'
  BY <1>3, <1>4 DEF Holds, Holding, Steps, Fresh
<1> QED
  BY <1>2, <1>4, <1>5, SilentBegin

LEMMA CheckIdentityKeeps ==
    ASSUME KycInv, NEW w \in Workers, NEW task \in queue, CheckIdentity(w, task)
    PROVE  KycInv'
<1>1. PICK j : j = Job("calling", task.id, record[task.id], task)
  OBVIOUS
<1>2. /\ Begin(w, j) /\ UNCHANGED <<rowVars, queue, told, verdicts>>
      /\ task.task = "identity"
  BY <1>1 DEF CheckIdentity
<1>3. task.id \in Existing /\ task \in IdentityTasks
  BY <1>2 DEF KycInv, Shaped, Tasks, DocumentTasks, EventTasks
<1>4. /\ j \in Jobs /\ j.step = "calling" /\ j.id = task.id
      /\ j.copy = record[task.id] /\ j.task = task
  BY <1>1, <1>3, JobShape DEF Tasks
<1>5. Holds(j) /\ j.step \in Holding
  BY <1>3, <1>4 DEF Holds, Holding, Steps
<1>6. Fresh(j)'
  BY <1>2, <1>4 DEF Fresh, rowVars
<1> QED
  BY <1>2, <1>4, <1>5, <1>6, SilentBegin

\* The row a provider's answer is written as.
Answered(answer) ==
    [status |-> answer.status, ref |-> TRUE, sanctioned |-> answer.sanctioned]

LEMMA AnswerShape ==
    ASSUME NEW answer \in Answers
    PROVE  /\ Answered(answer) \in Records
           /\ Answered(answer).status \in {"approved", "rejected"}
           /\ VerdictOf(Answered(answer)) = answer
<1>1. answer \in [status : {"approved", "rejected"}, sanctioned : BOOLEAN]
  BY AnswersAssumption DEF AnswersAssumption
<1> QED
  BY <1>1 DEF Answered, VerdictOf, Records, Statuses

LEMMA HearShape ==
    ASSUME KycInv, NEW v \in Verifications, NEW answer \in Answers, Hear(v, answer)
    PROVE  /\ verdicts' \in [Verifications -> SUBSET Answers]
           /\ \A u \in Verifications : verdicts[u] \subseteq verdicts'[u]
           /\ ~overlapped => answer \in verdicts'[v]
BY DEF Hear, KycInv, Shaped

LEMMA WebhookKeeps ==
    ASSUME KycInv, NEW w \in Workers, NEW v \in Verifications, NEW answer \in Answers,
           Webhook(w, v, answer)
    PROVE  KycInv'
<1>1. PICK first : first = Job("saving", v, record[v], NoTask)
  OBVIOUS
<1>2. PICK j : j = [first EXCEPT !.new = Answered(answer)]
  OBVIOUS
<1>3. /\ Begin(w, j) /\ UNCHANGED <<rowVars, queue, told>> /\ Hear(v, answer)
      /\ v \in Existing
  BY <1>1, <1>2 DEF Webhook, Answered, KycInv, Shaped, Existing
<1>4. /\ first \in Jobs /\ first.step = "saving" /\ first.id = v
      /\ first.copy = record[v]
  BY <1>1, <1>3, JobShape
<1>5. /\ j \in Jobs /\ j.step = "saving" /\ j.id = v /\ j.copy = record[v]
      /\ j.new = Answered(answer)
  BY <1>2, <1>4, AnswerShape DEF Jobs
<1>6. UNCHANGED <<record, queue, edited, reopened>>
  BY <1>3 DEF rowVars
<1>7. Holds(j) /\ j.step \in Holding /\ j.step # "opening"
  BY <1>3, <1>5, AnswerShape DEF Holds, Holding, Steps
<1>8. /\ verdicts' \in [Verifications -> SUBSET Answers]
      /\ ~overlapped => \A u \in Verifications : verdicts[u] \subseteq verdicts'[u]
      /\ ~overlapped => answer \in verdicts'[v]
  BY <1>3, HearShape
<1>9. ~overlapped => Fresh(j)'
  BY <1>5, <1>6, <1>8, AnswerShape DEF Fresh
<1> QED
  BY <1>3, <1>6, <1>7, <1>8, <1>9, BeginKeeps
-----------------------------------------------------------------------------
(* A job that ends, and a job that gets its answer.                        *)

LEMMA EndKeeps ==
    ASSUME KycInv, NEW w \in Workers, End(w),
           UNCHANGED <<record, verdicts, overlapped, reopened>>,
           queue' \subseteq Tasks, \A task \in queue' : task.id \in Existing,
           edited' \in BOOLEAN, ~overlapped => ~edited'
    PROVE  KycInv'
<1>1. /\ job'[w] = NoJob /\ \A v \in Workers \ {w} : job'[v] = job[v]
      /\ DOMAIN job' = Workers /\ job' \in [Workers -> Jobs]
  BY NoJobHolds DEF End, KycInv, Shaped, Holds
<1>2. Existing' = Existing /\ Active' = Active
  BY SameRecords
<1>3. ASSUME NEW v \in Workers PROVE Holds(job[v])'
  <2>1. CASE v = w
    BY <1>1, <2>1 DEF NoJob, Job, Holds, Jobs, Records, Statuses, Steps, Holding,
                      NoRecord
  <2>2. CASE v # w
    BY <1>1, <1>2, <2>2 DEF KycInv, Shaped, Holds
  <2> QED
    BY <2>1, <2>2
<1>4. Shaped'
  BY <1>1, <1>2, <1>3 DEF KycInv, Shaped
<1>5. ASSUME ~overlapped' PROVE AloneInv'
  <2>1. AloneInv
    BY <1>5 DEF KycInv
  <2>2. Apart'
    BY <1>1, <2>1, NoJobHolds DEF AloneInv, Apart, Holding
  <2>3. \A v \in Workers : Fresh(job[v])'
    <3> TAKE v \in Workers
    <3>1. CASE v = w
      BY <1>1, <3>1, NoJobHolds DEF Fresh
    <3>2. CASE v # w
      BY <1>1, <2>1, <3>2 DEF AloneInv, Fresh
    <3> QED
      BY <3>1, <3>2
  <2>4. Decided'
    BY <2>1 DEF AloneInv, Decided
  <2>5. ~reopened' => Single'
    BY <1>1, <1>2, <2>1, NoJobHolds DEF AloneInv, Single
  <2> QED
    BY <1>5, <2>2, <2>3, <2>4, <2>5 DEF AloneInv
<1> QED
  BY <1>4, <1>5 DEF KycInv

LEMMA EditedKeeps ==
    ASSUME KycInv, NEW w \in Workers, Edited(w)
    PROVE  KycInv'
<1>1. /\ End(w) /\ UNCHANGED <<record, verdicts, overlapped, reopened, queue, told>>
      /\ edited' = (edited \/ (~overlapped /\ record[job[w].id].status = "approved"))
      /\ job[w].step = "editing"
  BY DEF Edited
<1>2. ~overlapped => record[job[w].id].status # "approved" /\ ~edited
  BY <1>1 DEF KycInv, AloneInv, Fresh
<1>3. edited' \in BOOLEAN /\ (~overlapped => ~edited')
  BY <1>1, <1>2 DEF KycInv, Shaped
<1> QED
  BY <1>1, <1>3, EndKeeps DEF KycInv, Shaped

\* A task that is queued, or lost.
LEMMA UploadedKeeps ==
    ASSUME KycInv, NEW w \in Workers, Uploaded(w)
    PROVE  KycInv'
<1>1. /\ End(w) /\ job[w].step = "uploading"
      /\ UNCHANGED <<record, verdicts, overlapped, reopened, edited, told>>
      /\ queue' \subseteq queue \cup {DocumentTask(job[w].id)}
  BY DEF Uploaded, QueueOrLose
<1>2. job[w].id \in Existing
  BY <1>1 DEF KycInv, Shaped, Holds, Holding, Steps
<1>3. DocumentTask(job[w].id) \in Tasks /\ DocumentTask(job[w].id).id = job[w].id
  BY <1>2 DEF DocumentTask, Tasks, DocumentTasks, Existing
<1>4. queue' \subseteq Tasks /\ \A task \in queue' : task.id \in Existing
  BY <1>1, <1>2, <1>3 DEF KycInv, Shaped
<1>5. edited' \in BOOLEAN /\ (~overlapped => ~edited')
  BY <1>1 DEF KycInv, Shaped, AloneInv
<1> QED
  BY <1>1, <1>4, <1>5, EndKeeps

LEMMA RetryKeeps ==
    ASSUME KycInv, NEW w \in Workers, Retry(w)
    PROVE  KycInv'
<1>1. PICK task : task = job[w].task
  OBVIOUS
<1>2. /\ End(w) /\ job[w].step = "calling"
      /\ UNCHANGED <<rowVars, told, verdicts, overlapped>>
      /\ \/ queue' = queue \ {task}
         \/ queue' = (queue \ {task}) \cup {[task EXCEPT !.tries = @ + 1]}
  BY <1>1 DEF Retry
<1>3. task \in IdentityTasks /\ task.id = job[w].id /\ job[w].id \in Existing
  BY <1>1, <1>2 DEF KycInv, Shaped, Holds, Holding, Steps
<1>4. [task EXCEPT !.tries = @ + 1] \in Tasks
      /\ [task EXCEPT !.tries = @ + 1].id = task.id
  BY <1>3 DEF IdentityTasks, Tasks
<1>5. queue' \subseteq Tasks /\ \A t \in queue' : t.id \in Existing
  BY <1>2, <1>3, <1>4 DEF KycInv, Shaped
<1>6. edited' \in BOOLEAN /\ (~overlapped => ~edited')
  BY <1>2 DEF KycInv, Shaped, AloneInv, rowVars
<1> QED
  BY <1>2, <1>5, <1>6, EndKeeps DEF rowVars, KycInv, Shaped

LEMMA AnnounceKeeps ==
    ASSUME KycInv, NEW w \in Workers, Announce(w)
    PROVE  KycInv'
<1>1. PICK task : task = EventTask(job[w].id, job[w].new.status)
  OBVIOUS
<1>2. /\ End(w) /\ job[w].step = "announcing"
      /\ UNCHANGED <<rowVars, verdicts, overlapped>>
      /\ queue' \subseteq queue \cup {task}
  BY <1>1 DEF Announce
<1>3. /\ job[w].new.status \in {"approved", "rejected"}
      /\ job[w].id \in Existing /\ job[w].id \in Verifications
  BY <1>2 DEF KycInv, Shaped, Holds, Steps, Existing
<1>4. task \in Tasks /\ task.id \in Existing
  BY <1>1, <1>3 DEF EventTask, EventTasks, Tasks
<1>5. queue' \subseteq Tasks /\ \A t \in queue' : t.id \in Existing
  BY <1>2, <1>4 DEF KycInv, Shaped
<1>6. edited' \in BOOLEAN /\ (~overlapped => ~edited')
  BY <1>2 DEF KycInv, Shaped, AloneInv, rowVars
<1> QED
  BY <1>2, <1>5, <1>6, EndKeeps DEF rowVars

LEMMA CrashKeeps ==
    ASSUME KycInv, NEW w \in Workers, Crash(w)
    PROVE  KycInv'
<1>1. /\ End(w) /\ UNCHANGED <<rowVars, told, verdicts, overlapped>>
      /\ queue' \subseteq queue
  BY DEF Crash
<1>2. queue' \subseteq Tasks /\ \A t \in queue' : t.id \in Existing
  BY <1>1 DEF KycInv, Shaped
<1>3. edited' \in BOOLEAN /\ (~overlapped => ~edited')
  BY <1>1 DEF KycInv, Shaped, AloneInv, rowVars
<1> QED
  BY <1>1, <1>2, <1>3, EndKeeps DEF rowVars
-----------------------------------------------------------------------------
(* Steps that write a record.                                              *)

LEMMA CallKeeps ==
    ASSUME KycInv, NEW w \in Workers, NEW answer \in Answers, Call(w, answer)
    PROVE  KycInv'
<1>1. PICK old : old = job[w]
  OBVIOUS
<1>2. PICK mid : mid = [old EXCEPT !.step = "saving"]
  OBVIOUS
<1>3. PICK j : j = [mid EXCEPT !.new = Answered(answer)]
  OBVIOUS
<1>4. /\ old \in Jobs /\ old.step = "calling" /\ Holds(old) /\ old.id \in Existing
      /\ Hear(old.id, answer) /\ UNCHANGED <<rowVars, queue, told, overlapped>>
  BY <1>1 DEF Call, KycInv, Shaped, Holds, Holding, Steps
<1>5. mid \in Jobs /\ mid.step = "saving" /\ mid.id = old.id /\ mid.copy = old.copy
  BY <1>2, <1>4 DEF Jobs, Steps
<1>6. /\ j \in Jobs /\ j.step = "saving" /\ j.id = old.id /\ j.copy = old.copy
      /\ j.new = Answered(answer)
  BY <1>3, <1>5, AnswerShape DEF Jobs
<1>7. job' = [job EXCEPT ![w] = j]
  <2>1. job' = [job EXCEPT ![w] = [[job[w] EXCEPT !.step = "saving"]
                                     EXCEPT !.new = Answered(answer)]]
    BY DEF Call, Answered
  <2> QED
    BY <1>1, <1>2, <1>3, <2>1
<1>8. /\ job'[w] = j /\ \A v \in Workers \ {w} : job'[v] = job[v]
      /\ DOMAIN job' = Workers /\ job' \in [Workers -> Jobs]
  BY <1>6, <1>7 DEF KycInv, Shaped, Holds
<1>9. /\ verdicts' \in [Verifications -> SUBSET Answers]
      /\ \A u \in Verifications : verdicts[u] \subseteq verdicts'[u]
      /\ ~overlapped => answer \in verdicts'[old.id]
  BY <1>4, HearShape DEF Existing
<1>10. record' = record /\ Existing' = Existing /\ Active' = Active
  BY <1>4, SameRecords DEF rowVars
<1>11. ASSUME NEW v \in Workers PROVE Holds(job[v])'
  <2>1. CASE v = w
    BY <1>4, <1>6, <1>8, <1>10, <2>1, AnswerShape DEF Holds, Holding, Steps
  <2>2. CASE v # w
    BY <1>8, <1>10, <2>2 DEF KycInv, Shaped, Holds
  <2> QED
    BY <2>1, <2>2
<1>12. Shaped'
  BY <1>4, <1>8, <1>9, <1>10, <1>11 DEF KycInv, Shaped, rowVars
<1>13. ASSUME ~overlapped' PROVE AloneInv'
  <2>1. ~overlapped /\ AloneInv
    BY <1>4, <1>13 DEF KycInv
  <2>2. Apart'
    BY <1>1, <1>4, <1>6, <1>8, <2>1 DEF AloneInv, Apart, Holding, Steps
  <2>3. Fresh(job[w])'
    <3>1. old.copy = record[old.id]
      BY <1>1, <1>4, <2>1 DEF AloneInv, Fresh
    <3> QED
      BY <1>6, <1>8, <1>9, <1>10, <2>1, <3>1, AnswerShape DEF Fresh
  <2>4. \A v \in Workers \ {w} : Fresh(job[v])'
    <3> TAKE v \in Workers \ {w}
    <3>1. Fresh(job[v]) /\ Holds(job[v]) /\ job'[v] = job[v]
      BY <1>8, <2>1 DEF AloneInv, KycInv, Shaped
    <3> QED
      BY <1>9, <1>10, <3>1 DEF Fresh, Holds, Holding, Steps, Existing
  <2>5. Decided'
    BY <1>9, <1>10, <2>1 DEF AloneInv, Decided
  <2>6. ~reopened' => Single'
    BY <1>4, <1>6, <1>8, <1>10, <2>1 DEF AloneInv, Single, rowVars
  <2>7. ~edited'
    BY <1>4, <2>1 DEF AloneInv, rowVars
  <2> QED
    BY <2>2, <2>3, <2>4, <2>5, <2>6, <2>7 DEF AloneInv
<1> QED
  BY <1>12, <1>13 DEF KycInv

LEMMA OpenedKeeps ==
    ASSUME KycInv, NEW w \in Workers, Opened(w)
    PROVE  KycInv'
<1>1. PICK v \in Verifications \ Existing :
        /\ record' = [record EXCEPT ![v].status = "initiated"]
        /\ queue' \subseteq queue \cup {IdentityTask(v, 0)}
  BY DEF Opened, QueueOrLose
<1>2. /\ job[w].step = "opening" /\ End(w)
      /\ UNCHANGED <<reopened, edited, verdicts, overlapped>>
  BY DEF Opened
<1>3. PICK row : row = [record[v] EXCEPT !.status = "initiated"]
  OBVIOUS
<1>4. row \in Records /\ row.status = "initiated"
  BY <1>3 DEF KycInv, Shaped, Records, Statuses
<1>5. /\ record' \in [Verifications -> Records] /\ record'[v] = row
      /\ \A u \in Verifications \ {v} : record'[u] = record[u]
  BY <1>1, <1>3, <1>4 DEF KycInv, Shaped
<1>6. Existing' = Existing \cup {v}
  BY <1>4, <1>5 DEF Existing
<1>7. Active' = Active \cup {v}
  <2>1. v \in Verifications \ Existing /\ row.status \notin Closed
    BY <1>4 DEF Closed
  <2>2. \A x : x \in Active' <=> x \in Existing' /\ record'[x].status \notin Closed
    BY DEF Active, Closed
  <2>3. \A x \in Existing : x # v /\ record'[x] = record[x]
    BY <1>5, <2>1 DEF Existing
  <2>4. \A x : x \in Active' <=> x \in Active \cup {v}
    BY <1>5, <1>6, <2>1, <2>2, <2>3 DEF Active
  <2> QED
    BY <2>4
<1>8. /\ job'[w] = NoJob /\ \A u \in Workers \ {w} : job'[u] = job[u]
      /\ DOMAIN job' = Workers /\ job' \in [Workers -> Jobs]
  BY <1>2, NoJobHolds DEF End, KycInv, Shaped, Holds
<1>9. ASSUME NEW u \in Workers PROVE Holds(job[u])'
  <2>1. CASE u = w
    BY <1>8, <2>1 DEF NoJob, Job, Holds, Jobs, Records, Statuses, Steps, Holding,
                      NoRecord
  <2>2. CASE u # w
    BY <1>6, <1>8, <2>2 DEF KycInv, Shaped, Holds
  <2> QED
    BY <2>1, <2>2
<1>10. queue' \subseteq Tasks /\ \A t \in queue' : t.id \in Existing'
  <2>1. IdentityTask(v, 0) \in Tasks /\ IdentityTask(v, 0).id = v
    BY DEF IdentityTask, Tasks, IdentityTasks
  <2> QED
    BY <1>1, <1>6, <2>1 DEF KycInv, Shaped
<1>11. Shaped'
  BY <1>2, <1>5, <1>6, <1>8, <1>9, <1>10 DEF KycInv, Shaped
<1>12. ASSUME ~overlapped' PROVE AloneInv'
  <2>1. ~overlapped /\ AloneInv
    BY <1>2, <1>12 DEF KycInv
  <2>2. Apart'
    BY <1>8, <2>1, NoJobHolds DEF AloneInv, Apart, Holding
  <2>3. \A u \in Workers : Fresh(job[u])'
    <3> TAKE u \in Workers
    <3>1. CASE u = w
      BY <1>8, <3>1, NoJobHolds DEF Fresh
    <3>2. CASE u # w
      <4>1. Fresh(job[u]) /\ Holds(job[u]) /\ job'[u] = job[u]
        BY <1>8, <2>1, <3>2 DEF AloneInv, KycInv, Shaped
      <4> QED
        BY <1>2, <1>5, <4>1 DEF Fresh, Holds, Holding, Steps, Existing
    <3> QED
      BY <3>1, <3>2
  <2>4. Decided'
    BY <1>2, <1>4, <1>5, <2>1 DEF AloneInv, Decided
  <2>5. ASSUME ~reopened PROVE Single'
    <3>1. Active = {}
      BY <1>2, <2>1, <2>5 DEF AloneInv, Single
    <3>2. \A u \in Workers : job'[u].step # "opening"
      <4> TAKE u \in Workers
      <4>1. CASE u = w
        BY <1>8, <4>1, NoJobHolds
      <4>2. CASE u # w
        BY <1>2, <1>8, <2>1, <4>2 DEF AloneInv, Apart, Holding, Steps, KycInv, Shaped, Holds
      <4> QED
        BY <4>1, <4>2
    <3> QED
      BY <1>7, <3>1, <3>2 DEF Single
  <2> QED
    BY <1>2, <2>1, <2>2, <2>3, <2>4, <2>5 DEF AloneInv
<1> QED
  BY <1>11, <1>12 DEF KycInv
\* The commit of a job whose row nobody wrote since it was read.
LEMMA WriteIsNew ==
    ASSUME NEW row \in Records, NEW copy \in Records, NEW new \in Records
    PROVE  /\ Merge(row, copy, new) \in Records
           /\ Merge(row, copy, new).status \in {row.status, new.status}
           /\ row = copy => Merge(row, copy, new) = new
<1>1. DOMAIN row = {"status", "ref", "sanctioned"}
  BY DEF Records
<1>2. PICK out : out = Merge(row, copy, new)
  OBVIOUS
<1>3. /\ out = [f \in {"status", "ref", "sanctioned"} |->
                   IF new[f] # copy[f] THEN new[f] ELSE row[f]]
  BY <1>1, <1>2 DEF Merge
<1>4. /\ out.status = IF new.status # copy.status THEN new.status ELSE row.status
      /\ out.ref = IF new.ref # copy.ref THEN new.ref ELSE row.ref
      /\ out.sanctioned = IF new.sanctioned # copy.sanctioned THEN new.sanctioned
                                                             ELSE row.sanctioned
  BY <1>3
<1>5. out = [status |-> out.status, ref |-> out.ref, sanctioned |-> out.sanctioned]
  BY <1>3
<1>6. out \in Records
  BY <1>4, <1>5 DEF Records
<1>7. row = copy => out = new
  BY <1>4, <1>5 DEF Records
<1> QED
  BY <1>2, <1>4, <1>6, <1>7

LEMMA SaveKeeps ==
    ASSUME KycInv, NEW w \in Workers, Save(w)
    PROVE  KycInv'
<1>1. PICK old : old = job[w]
  OBVIOUS
<1>2. PICK v : v = old.id
  OBVIOUS
<1>3. PICK row : row = Merge(record[v], old.copy, old.new)
  OBVIOUS
<1>4. /\ old \in Jobs /\ old.step = "saving" /\ Holds(old) /\ v \in Existing
      /\ v \in Verifications /\ record[v] \in Records
      /\ UNCHANGED <<queue, verdicts, overlapped>>
  BY <1>1, <1>2 DEF Save, KycInv, Shaped, Holds, Holding, Steps, Existing
<1>5. /\ record' = [record EXCEPT ![v] = row] /\ edited' = edited
      /\ reopened' = (reopened \/ (~overlapped /\ record[v].status \in Closed
                                     /\ row.status = "approved"))
  BY <1>1, <1>2, <1>3 DEF Save, Write
<1>6. /\ row \in Records /\ row.status \in {record[v].status, old.new.status}
      /\ record[v] = old.copy => row = old.new
  BY <1>3, <1>4, WriteIsNew DEF Jobs
<1>7. /\ record' \in [Verifications -> Records] /\ record'[v] = row
      /\ \A u \in Verifications \ {v} : record'[u] = record[u]
  BY <1>4, <1>5, <1>6 DEF KycInv, Shaped
<1>8. row.status # "absent"
  BY <1>4, <1>6 DEF Existing, Holds
<1>9. Existing' = Existing
  <2>1. \A u \in Verifications : record'[u].status # "absent"
                                   <=> record[u].status # "absent"
    BY <1>4, <1>7, <1>8 DEF Existing
  <2> QED
    BY <2>1 DEF Existing
<1>10. PICK j : j = IF old.task = NoTask THEN NoJob ELSE [old EXCEPT !.step = "announcing"]
  OBVIOUS
<1>11. j \in Jobs /\ Holds(j)'
  <2>1. CASE old.task = NoTask
    BY <1>10, <2>1 DEF NoJob, Job, Holds, Jobs, Records, Statuses, Steps, Holding,
                       NoRecord
  <2>2. CASE old.task # NoTask
    <3>1. /\ j \in Jobs /\ j.step = "announcing" /\ j.id = v /\ j.new = old.new
      BY <1>2, <1>4, <1>10, <2>2 DEF Jobs, Steps
    <3> QED
      BY <1>4, <1>9, <3>1 DEF Holds, Holding, Steps
  <2> QED
    BY <2>1, <2>2
<1>12. /\ job'[w] = j /\ \A u \in Workers \ {w} : job'[u] = job[u]
       /\ DOMAIN job' = Workers /\ job' \in [Workers -> Jobs]
  <2>1. job' = [job EXCEPT ![w] = j]
    BY <1>1, <1>10 DEF Save, End, GoTo
  <2> QED
    BY <1>11, <2>1 DEF KycInv, Shaped
<1>13. ASSUME NEW u \in Workers PROVE Holds(job[u])'
  <2>1. CASE u = w
    BY <1>11, <1>12, <2>1 DEF Holds
  <2>2. CASE u # w
    BY <1>9, <1>12, <2>2 DEF KycInv, Shaped, Holds
  <2> QED
    BY <2>1, <2>2
<1>14. Shaped'
  BY <1>4, <1>5, <1>7, <1>9, <1>12, <1>13 DEF KycInv, Shaped
<1>15. ASSUME ~overlapped' PROVE AloneInv'
  <2>1. ~overlapped /\ AloneInv
    BY <1>4, <1>15 DEF KycInv
  <2>2. row = old.new /\ VerdictOf(row) \in verdicts[v]
    BY <1>1, <1>2, <1>4, <1>6, <2>1 DEF AloneInv, Fresh
  <2>3. j.step \in {"idle", "announcing"} /\ (j.step # "idle" => j.id = v /\ j.new = old.new)
    <3>1. CASE old.task = NoTask
      BY <1>10, <3>1, NoJobHolds
    <3>2. CASE old.task # NoTask
      BY <1>2, <1>4, <1>10, <3>2 DEF Jobs
    <3> QED
      BY <3>1, <3>2
  <2>4. Apart'
    BY <1>1, <1>2, <1>4, <1>12, <2>1, <2>3 DEF AloneInv, Apart, Holding, Steps
  <2>5. \A u \in Workers : Fresh(job[u])'
    <3> TAKE u \in Workers
    <3>1. CASE u = w
      BY <1>7, <1>12, <2>2, <2>3, <3>1 DEF Fresh
    <3>2. CASE u # w
      <4>1. Fresh(job[u]) /\ Holds(job[u]) /\ job'[u] = job[u]
        BY <1>12, <2>1, <3>2 DEF AloneInv, KycInv, Shaped
      <4>2. job[u].step \in Holding => job[u].id # v
        BY <1>1, <1>2, <1>4, <2>1, <3>2 DEF AloneInv, Apart, Holding, Steps
      <4> QED
        BY <1>4, <1>7, <4>1, <4>2 DEF Fresh, Holds, Holding, Steps, Existing
    <3> QED
      BY <3>1, <3>2
  <2>6. Decided'
    BY <1>4, <1>7, <2>1, <2>2 DEF AloneInv, Decided
  <2>7. ASSUME ~reopened' PROVE Single'
    <3>1. Active' \subseteq Active
      <4>1. ~(record[v].status \in Closed /\ row.status = "approved")
        BY <1>5, <2>1, <2>7
      <4>2. row.status \in {"approved", "rejected"}
        BY <1>4, <2>2 DEF Holds
      <4>3. row.status \notin Closed => record[v].status \notin Closed
        BY <4>1, <4>2 DEF Closed
      <4>4. \A u \in Existing : record'[u].status \notin Closed
                                  => record[u].status \notin Closed
        BY <1>7, <4>3 DEF Existing
      <4> QED
        BY <1>9, <4>4 DEF Active, Closed
    <3>2. \A u \in Workers : job'[u].step = "opening" => job[u].step = "opening"
      BY <1>12, <2>3
    <3>3. Single
      BY <1>5, <2>1, <2>7 DEF AloneInv
    <3> QED
      BY <3>1, <3>2, <3>3 DEF Single
  <2> QED
    BY <1>5, <2>1, <2>4, <2>5, <2>6, <2>7 DEF AloneInv
<1> QED
  BY <1>14, <1>15 DEF KycInv

\* The tasks no session of the model runs.
LEMMA QueueTaskKeeps ==
    ASSUME KycInv, NEW task \in queue, CheckDocument(task) \/ Emit(task)
    PROVE  KycInv'
<1>1. /\ UNCHANGED <<record, reopened, edited, job, verdicts, overlapped>>
      /\ queue' \subseteq queue
  BY DEF CheckDocument, Emit, rowVars
<1>2. Existing' = Existing /\ Active' = Active
  BY <1>1, SameRecords
<1>3. \A u \in Workers : Holds(job[u])'
  BY <1>1, <1>2 DEF KycInv, Shaped, Holds
<1>4. Shaped'
  BY <1>1, <1>2, <1>3 DEF KycInv, Shaped
<1>5. AloneInv => AloneInv'
  BY <1>1, <1>2 DEF AloneInv, Apart, Fresh, Decided, Single
<1> QED
  BY <1>1, <1>4, <1>5 DEF KycInv

LEMMA ExpireKeeps ==
    ASSUME KycInv, NEW last \in Verifications, Expire(last)
    PROVE  KycInv'
<1>1. PICK stale : stale = {v \in Verifications :
                              v <= last /\ record[v].status = "initiated"}
  OBVIOUS
<1>2. /\ record' = [v \in Verifications |->
                      IF v \in stale THEN [record[v] EXCEPT !.status = "expired"]
                      ELSE record[v]]
      /\ overlapped' = (overlapped \/ \E w \in Workers :
                          job[w].step \in Holding /\ job[w].id \in stale)
      /\ UNCHANGED <<document, reopened, edited, queue, job, verdicts>>
  BY <1>1 DEF Expire
<1>3. ASSUME NEW v \in Verifications
      PROVE  /\ record'[v] \in Records
             /\ record'[v].status # "absent" <=> record[v].status # "absent"
             /\ record'[v].ref = record[v].ref
             /\ v \in stale => record'[v].status = "expired"
             /\ v \notin stale => record'[v] = record[v]
  <2>1. record[v] \in Records
    BY DEF KycInv, Shaped
  <2>2. CASE v \in stale
    <3>1. record'[v] = [record[v] EXCEPT !.status = "expired"]
      BY <1>2, <2>2
    <3>2. record[v].status = "initiated"
      BY <1>1, <2>2
    <3> QED
      BY <2>1, <2>2, <3>1, <3>2 DEF Records, Statuses
  <2>3. CASE v \notin stale
    BY <1>2, <2>1, <2>3
  <2> QED
    BY <2>2, <2>3
<1>4. record' \in [Verifications -> Records] /\ Existing' = Existing
  <2>1. record' \in [Verifications -> Records]
    BY <1>2, <1>3
  <2> QED
    BY <1>3, <2>1 DEF Existing
<1>5. \A u \in Workers : Holds(job[u])'
  BY <1>2, <1>4 DEF KycInv, Shaped, Holds
<1>6. Shaped'
  BY <1>2, <1>3, <1>4, <1>5 DEF KycInv, Shaped
<1>7. ASSUME ~overlapped' PROVE AloneInv'
  <2>1. ~overlapped /\ AloneInv
    BY <1>2, <1>7 DEF KycInv
  <2>2. Apart'
    BY <1>2, <2>1 DEF AloneInv, Apart
  <2>3. \A u \in Workers : Fresh(job[u])'
    <3> TAKE u \in Workers
    <3>1. Fresh(job[u]) /\ Holds(job[u]) /\ job'[u] = job[u]
      BY <1>2, <2>1 DEF AloneInv, KycInv, Shaped
    <3>2. job[u].step \in Holding => job[u].id \notin stale
      BY <1>2, <1>7
    <3>3. job[u].step \in Holding \ {"opening"} => record'[job[u].id] = record[job[u].id]
      BY <1>3, <3>1, <3>2 DEF Holds, Holding, Steps, Existing
    <3> QED
      BY <1>2, <3>1, <3>3 DEF Fresh, Holding, Steps
  <2>4. Decided'
    <3> SUFFICES ASSUME NEW v \in Verifications,
                        record'[v].status \in {"approved", "rejected"}
                 PROVE  VerdictOf(record'[v]) \in verdicts'[v]
      BY DEF Decided, VerdictOf
    <3>1. record'[v] = record[v]
      BY <1>3
    <3> QED
      BY <1>2, <2>1, <3>1 DEF AloneInv, Decided
  <2>5. ~reopened' => Single'
    <3>1. Active' \subseteq Active
      <4>1. \A v \in Existing : record'[v].status \notin Closed
                                => record[v].status \notin Closed
        BY <1>3 DEF Existing, Closed
      <4> QED
        BY <1>4, <4>1 DEF Active, Closed
    <3> QED
      BY <1>2, <2>1, <3>1 DEF AloneInv, Single
  <2> QED
    BY <1>2, <2>1, <2>2, <2>3, <2>4, <2>5 DEF AloneInv
<1> QED
  BY <1>6, <1>7 DEF KycInv

LEMMA StutterKeeps ==
    ASSUME KycInv, UNCHANGED vars
    PROVE  KycInv'
<1>1. UNCHANGED <<record, queue, job, verdicts, overlapped, reopened, edited>>
  BY DEF vars, rowVars
<1>2. Existing' = Existing /\ Active' = Active
  BY <1>1, SameRecords
<1>3. \A u \in Workers : Holds(job[u])'
  BY <1>1, <1>2 DEF KycInv, Shaped, Holds
<1>4. Shaped'
  BY <1>1, <1>2, <1>3 DEF KycInv, Shaped
<1>5. AloneInv => AloneInv'
  BY <1>1, <1>2 DEF AloneInv, Apart, Fresh, Decided, Single
<1> QED
  BY <1>1, <1>4, <1>5 DEF KycInv

LEMMA RequestKeeps ==
    ASSUME KycInv, NEW w \in Workers, Request(w)
    PROVE  KycInv'
<1>1. CASE Open(w)
  BY <1>1, OpenKeeps
<1>2. CASE Opened(w)
  BY <1>2, OpenedKeeps
<1>3. CASE Edited(w)
  BY <1>3, EditedKeeps
<1>4. CASE Uploaded(w)
  BY <1>4, UploadedKeeps
<1>5. CASE \E v \in Verifications : Edit(w, v)
  BY <1>5, EditKeeps
<1>6. CASE \E v \in Verifications : Upload(w, v)
  BY <1>6, UploadKeeps
<1>7. CASE \E v \in Verifications : \E answer \in Answers : Webhook(w, v, answer)
  BY <1>7, WebhookKeeps
<1> QED
  BY <1>1, <1>2, <1>3, <1>4, <1>5, <1>6, <1>7 DEF Request

LEMMA NextKeeps ==
    ASSUME KycInv, [Next]_vars
    PROVE  KycInv'
<1>1. ASSUME NEW w \in Workers, Request(w) PROVE KycInv'
  BY <1>1, RequestKeeps
<1>2. ASSUME NEW w \in Workers, Task(w) PROVE KycInv'
  <2>1. CASE \E task \in queue : CheckIdentity(w, task)
    BY <2>1, CheckIdentityKeeps
  <2>2. CASE \E answer \in Answers : Call(w, answer)
    BY <2>2, CallKeeps
  <2>3. CASE Retry(w)
    BY <2>3, RetryKeeps
  <2>4. CASE Save(w)
    BY <2>4, SaveKeeps
  <2>5. CASE Announce(w)
    BY <2>5, AnnounceKeeps
  <2> QED
    BY <1>2, <2>1, <2>2, <2>3, <2>4, <2>5 DEF Task
<1>3. ASSUME NEW w \in Workers, Crash(w) PROVE KycInv'
  BY <1>3, CrashKeeps
<1>4. ASSUME NEW task \in queue, CheckDocument(task) \/ Emit(task) PROVE KycInv'
  BY <1>4, QueueTaskKeeps
<1>5. ASSUME NEW last \in Verifications, Expire(last) PROVE KycInv'
  BY <1>5, ExpireKeeps
<1>6. CASE UNCHANGED vars
  BY <1>6, StutterKeeps
<1> QED
  BY <1>1, <1>2, <1>3, <1>4, <1>5, <1>6 DEF Next

LEMMA InvHolds == Spec => []KycInv
<1>1. Init => KycInv
  BY InitHolds
<1>2. KycInv /\ [Next]_vars => KycInv'
  BY NextKeeps
<1> QED
  BY <1>1, <1>2, PTL DEF Spec

-----------------------------------------------------------------------------
(* What the service promises                                               *)

\* As long as the jobs of a verification do not overlap, what its record says
\* of a decision is one answer of the provider, and an approved one is not
\* edited: a job holds the row as it is until it commits (run_identity_check(),
\* handle_webhook(), update_kyc()).
THEOREM ApprovalIsWhatWasChecked == Spec => []ApprovedAsChecked
<1>1. KycInv => ApprovedAsChecked
  BY DEF KycInv, AloneInv, Decided, VerdictOf, ApprovedAsChecked, RecordIsOneVerdict,
         ApprovedIsNotEdited
<1> QED
  BY <1>1, InvHolds, PTL

\* Unless two requests for a verification overlapped or a late answer approved a
\* closed one, a customer has one active verification at most (initiate_kyc()).
THEOREM OneIsActive == Spec => []OneActiveVerification
<1>1. KycInv => OneActiveVerification
  <2> SUFFICES ASSUME KycInv, ~overlapped, ~reopened
               PROVE  Cardinality(Active) <= 1
    BY DEF OneActiveVerification
  <2>1. \A u, v \in Active : u = v
    BY DEF KycInv, AloneInv, Single
  <2>2. CASE Active = {}
    BY <2>2, FS_EmptySet
  <2>3. CASE Active # {}
    <3>1. PICK v : Active = {v}
      BY <2>1, <2>3
    <3>2. Cardinality(Active) = 1
      BY <3>1, FS_Singleton, Zenon
    <3> QED
      BY <3>2
  <2> QED
    BY <2>2, <2>3
<1> QED
  BY <1>1, InvHolds, PTL

-----------------------------------------------------------------------------
(* The events                                                              *)

\* What a job has read, and what it will have announced, was decided; so was
\* what the queued events tell. None of it depends on who overlaps.
Known(j) ==
    /\ j.step \in {"calling", "saving"} /\ j.copy.status \in {"approved", "rejected"}
         => j.copy.status \in decided[j.id]
    /\ j.step = "announcing" => j.new.status \in decided[j.id]

\* What the stream has been told was decided.
Founded == \A v \in Verifications : told[v] \subseteq decided[v]

EventInv ==
    /\ decided \in [Verifications -> SUBSET (Statuses \cup {"absent"})]
    /\ told \in [Verifications -> SUBSET {"approved", "rejected"}]
    /\ \A v \in Verifications :
         record[v].status \in {"approved", "rejected"} => record[v].status \in decided[v]
    /\ \A w \in Workers : Known(job[w])
    /\ \A task \in queue : task.task = "event" => task.status \in decided[task.id]
    /\ Founded

LEMMA InitFounded ==
    ASSUME Init
    PROVE  EventInv
BY NoJobHolds DEF Init, EventInv, Known, Founded, NoRecord

\* A step that decides nothing and tells nothing, queues no event and leaves
\* every job with what it knows.
LEMMA QuietKeeps ==
    ASSUME EventInv, UNCHANGED <<decided, told>>,
           \A v \in Verifications : record'[v].status \in {"approved", "rejected"}
                                       => record'[v].status = record[v].status,
           \A w \in Workers : Known(job[w])',
           \A task \in queue' : task.task = "event" => task \in queue
    PROVE  EventInv'
BY DEF EventInv, Founded

\* What the other jobs know stays known when one changes.
LEMMA OthersKnow ==
    ASSUME KycInv, EventInv, NEW w \in Workers, NEW j, job' = [job EXCEPT ![w] = j],
           decided' = decided, Known(j)'
    PROVE  \A u \in Workers : Known(job[u])'
<1> TAKE u \in Workers
<1>1. DOMAIN job = Workers
  BY DEF KycInv, Shaped
<1>2. CASE u = w
  BY <1>1, <1>2 DEF Known
<1>3. CASE u # w
  <2>1. job'[u] = job[u] /\ Known(job[u])
    BY <1>1, <1>3 DEF EventInv
  <2> QED
    BY <2>1 DEF Known
<1> QED
  BY <1>2, <1>3

LEMMA BeginFounded ==
    ASSUME KycInv, EventInv, NEW w \in Workers, NEW j, Begin(w, j),
           j.step # "announcing",
           j.step \in {"calling", "saving"} =>
               j.id \in Verifications /\ j.copy = record[j.id],
           UNCHANGED <<record, decided, told, queue>>
    PROVE  EventInv'
<1>1. Known(j)'
  BY DEF Known, EventInv
<1>2. \A u \in Workers : Known(job[u])'
  BY <1>1, OthersKnow DEF Begin
<1> QED
  BY <1>2, QuietKeeps

LEMMA EndFounded ==
    ASSUME KycInv, EventInv, NEW w \in Workers, End(w), UNCHANGED <<decided, told>>,
           \A v \in Verifications : record'[v].status \in {"approved", "rejected"}
                                       => record'[v].status = record[v].status,
           \A task \in queue' : task.task = "event" => task \in queue
    PROVE  EventInv'
<1>1. Known(NoJob)'
  BY NoJobHolds DEF Known
<1>2. \A u \in Workers : Known(job[u])'
  BY <1>1, OthersKnow DEF End
<1> QED
  BY <1>2, QuietKeeps

LEMMA RequestFounded ==
    ASSUME KycInv, EventInv, NEW w \in Workers, Request(w)
    PROVE  EventInv'
<1>1. CASE Open(w)
  BY <1>1, BeginFounded DEF Open, Job, rowVars
<1>2. CASE Opened(w)
  <2>1. PICK v \in Verifications \ Existing :
          /\ record' = [record EXCEPT ![v].status = "initiated"]
          /\ queue' \subseteq queue \cup {IdentityTask(v, 0)}
    BY <1>2 DEF Opened, QueueOrLose
  <2>2. End(w) /\ UNCHANGED <<decided, told>>
    BY <1>2 DEF Opened
  <2>3. \A u \in Verifications : record'[u].status \in {"approved", "rejected"}
                                     => record'[u].status = record[u].status
    BY <2>1 DEF KycInv, Shaped, Records
  <2>4. \A task \in queue' : task.task = "event" => task \in queue
    BY <2>1 DEF IdentityTask
  <2> QED
    BY <2>2, <2>3, <2>4, EndFounded
<1>3. CASE Edited(w)
  BY <1>3, EndFounded DEF Edited
<1>4. CASE Uploaded(w)
  <2>1. End(w) /\ UNCHANGED <<record, decided, told>>
        /\ queue' \subseteq queue \cup {DocumentTask(job[w].id)}
    BY <1>4 DEF Uploaded, QueueOrLose
  <2>2. \A task \in queue' : task.task = "event" => task \in queue
    BY <2>1 DEF DocumentTask
  <2> QED
    BY <2>1, <2>2, EndFounded
<1>5. CASE \E v \in Verifications : Edit(w, v)
  BY <1>5, BeginFounded DEF Edit, Job, rowVars
<1>6. CASE \E v \in Verifications : Upload(w, v)
  BY <1>6, BeginFounded DEF Upload, Job, rowVars
<1>7. CASE \E v \in Verifications : \E answer \in Answers : Webhook(w, v, answer)
  <2>1. PICK v \in Verifications, answer \in Answers : Webhook(w, v, answer)
    BY <1>7
  <2>2. PICK first : first = Job("saving", v, record[v], NoTask)
    OBVIOUS
  <2>3. PICK j : j = [first EXCEPT !.new = Answered(answer)]
    OBVIOUS
  <2>4. Begin(w, j) /\ UNCHANGED <<record, decided, told, queue>>
    BY <2>1, <2>2, <2>3 DEF Webhook, Answered, rowVars
  <2>5. j.step = "saving" /\ j.id = v /\ j.copy = record[v]
    BY <2>2, <2>3 DEF Job
  <2> QED
    BY <2>4, <2>5, BeginFounded
<1> QED
  BY <1>1, <1>2, <1>3, <1>4, <1>5, <1>6, <1>7 DEF Request

\* The commit: what it decides is what the event will tell, or was decided
\* before the job read the row.
LEMMA SaveFounded ==
    ASSUME KycInv, EventInv, NEW w \in Workers, Save(w)
    PROVE  EventInv'
<1>1. PICK old : old = job[w]
  OBVIOUS
<1>2. PICK v : v = old.id
  OBVIOUS
<1>3. PICK row : row = Merge(record[v], old.copy, old.new)
  OBVIOUS
<1>4. /\ old \in Jobs /\ old.step = "saving" /\ Holds(old) /\ v \in Verifications
      /\ record[v] \in Records /\ Known(old)
      /\ UNCHANGED <<queue, told>>
  BY <1>1, <1>2 DEF Save, KycInv, Shaped, Holds, Steps, Existing, EventInv
<1>5. /\ record' = [record EXCEPT ![v] = row]
      /\ decided' = [decided EXCEPT ![v] = @ \cup {row.status}]
  BY <1>1, <1>2, <1>3 DEF Save, Write
<1>6. /\ row \in Records
      /\ row.status = IF old.new.status # old.copy.status THEN old.new.status
                                                        ELSE record[v].status
  BY <1>3, <1>4 DEF Merge, Jobs, Records
<1>7. /\ decided' \in [Verifications -> SUBSET (Statuses \cup {"absent"})]
      /\ \A u \in Verifications : decided[u] \subseteq decided'[u]
      /\ row.status \in decided'[v]
  BY <1>4, <1>5, <1>6 DEF EventInv, Records
<1>8. \A u \in Verifications :
        record'[u].status \in {"approved", "rejected"} => record'[u].status \in decided'[u]
  BY <1>4, <1>5, <1>7 DEF EventInv, KycInv, Shaped
<1>9. old.new.status \in decided'[v]
  BY <1>2, <1>4, <1>6, <1>7 DEF Holds, Known
<1>10. PICK j : j = IF old.task = NoTask THEN NoJob ELSE [old EXCEPT !.step = "announcing"]
  OBVIOUS
<1>11. job' = [job EXCEPT ![w] = j]
  BY <1>1, <1>10 DEF Save, End, GoTo
<1>12. j.step = "announcing" => j.id = v /\ j.new = old.new
  BY <1>2, <1>4, <1>10, NoJobHolds DEF Jobs
<1>13. j.step \in {"idle", "announcing"}
  BY <1>4, <1>10, NoJobHolds DEF Jobs
<1>14. \A u \in Workers : Known(job[u])'
  <2> TAKE u \in Workers
  <2>1. CASE u = w
    BY <1>9, <1>11, <1>12, <1>13, <2>1 DEF Known, KycInv, Shaped
  <2>2. CASE u # w
    <3>1. job'[u] = job[u] /\ Known(job[u]) /\ Holds(job[u])
      BY <1>11, <2>2 DEF EventInv, KycInv, Shaped
    <3>2. job[u].step \in {"calling", "saving", "announcing"} => job[u].id \in Verifications
      BY <3>1 DEF Holds, Steps, Existing
    <3> QED
      BY <1>7, <3>1, <3>2 DEF Known
  <2> QED
    BY <2>1, <2>2
<1>15. \A task \in queue' : task.task = "event" => task.status \in decided'[task.id]
  <2>1. \A task \in queue : task.id \in Verifications
    BY DEF KycInv, Shaped, Existing
  <2> QED
    BY <1>4, <1>7, <2>1 DEF EventInv
<1> QED
  BY <1>4, <1>7, <1>8, <1>14, <1>15 DEF EventInv, Founded

LEMMA TaskFounded ==
    ASSUME KycInv, EventInv, NEW w \in Workers, Task(w)
    PROVE  EventInv'
<1>1. CASE \E task \in queue : CheckIdentity(w, task)
  <2>1. PICK task \in queue : CheckIdentity(w, task)
    BY <1>1
  <2>2. task.id \in Verifications
    BY DEF KycInv, Shaped, Existing
  <2> QED
    BY <2>1, <2>2, BeginFounded DEF CheckIdentity, Job, rowVars
<1>2. CASE \E answer \in Answers : Call(w, answer)
  <2>1. PICK answer \in Answers : Call(w, answer)
    BY <1>2
  <2>2. PICK mid : mid = [job[w] EXCEPT !.step = "saving"]
    OBVIOUS
  <2>3. PICK j : j = [mid EXCEPT !.new = Answered(answer)]
    OBVIOUS
  <2>4. /\ UNCHANGED <<record, decided, told, queue>> /\ job[w].step = "calling"
        /\ job[w] \in Jobs /\ Known(job[w])
    BY <2>1 DEF Call, rowVars, KycInv, Shaped, Holds, EventInv
  <2>5. job' = [job EXCEPT ![w] = j]
    <3>1. job' = [job EXCEPT ![w] = [[job[w] EXCEPT !.step = "saving"]
                                       EXCEPT !.new = Answered(answer)]]
      BY <2>1 DEF Call, Answered
    <3> QED
      BY <2>2, <2>3, <3>1
  <2>6. j.step = "saving" /\ j.id = job[w].id /\ j.copy = job[w].copy
    <3>1. mid.step = "saving" /\ mid.id = job[w].id /\ mid.copy = job[w].copy
          /\ mid \in Jobs
      BY <2>2, <2>4 DEF Jobs, Steps
    <3> QED
      BY <2>3, <3>1 DEF Jobs
  <2>7. Known(j)'
    BY <2>4, <2>6 DEF Known
  <2>8. \A u \in Workers : Known(job[u])'
    BY <2>4, <2>5, <2>7, OthersKnow
  <2> QED
    BY <2>4, <2>8, QuietKeeps
<1>3. CASE Retry(w)
  <2>1. /\ End(w) /\ job[w].step = "calling"
        /\ UNCHANGED <<record, decided, told>>
        /\ \/ queue' = queue \ {job[w].task}
           \/ queue' = (queue \ {job[w].task})
                          \cup {[job[w].task EXCEPT !.tries = @ + 1]}
    BY <1>3 DEF Retry, rowVars
  <2>2. [job[w].task EXCEPT !.tries = @ + 1].task = "identity"
    BY <2>1 DEF KycInv, Shaped, Holds, IdentityTasks
  <2> QED
    BY <2>1, <2>2, EndFounded
<1>4. CASE Save(w)
  BY <1>4, SaveFounded
<1>5. CASE Announce(w)
  <2>1. PICK task : task = EventTask(job[w].id, job[w].new.status)
    OBVIOUS
  <2>2. /\ End(w) /\ job[w].step = "announcing"
        /\ UNCHANGED <<record, decided, told>>
        /\ queue' \subseteq queue \cup {task}
    BY <1>5, <2>1 DEF Announce, rowVars
  <2>3. task.status \in decided[task.id]
    BY <2>1, <2>2 DEF EventTask, EventInv, Known
  <2>4. Known(NoJob)'
    BY NoJobHolds DEF Known
  <2>5. \A u \in Workers : Known(job[u])'
    BY <2>2, <2>4, OthersKnow DEF End
  <2> QED
    BY <2>2, <2>3, <2>5 DEF EventInv, Founded
<1> QED
  BY <1>1, <1>2, <1>3, <1>4, <1>5 DEF Task

LEMMA EmitFounded ==
    ASSUME KycInv, EventInv, NEW task \in queue, Emit(task)
    PROVE  EventInv'
<1>1. /\ UNCHANGED <<record, decided, job>> /\ queue' \subseteq queue
      /\ told' = told \/ told' = [told EXCEPT ![task.id] = @ \cup {task.status}]
      /\ task.task = "event"
  BY DEF Emit, rowVars
<1>2. /\ task.status \in decided[task.id] /\ task.status \in {"approved", "rejected"}
      /\ task.id \in Verifications
  BY <1>1 DEF EventInv, KycInv, Shaped, Tasks, IdentityTasks, DocumentTasks, EventTasks
<1>3. told' \in [Verifications -> SUBSET {"approved", "rejected"}]
      /\ \A v \in Verifications : told'[v] \subseteq decided[v]
  BY <1>1, <1>2 DEF EventInv, Founded
<1>4. \A u \in Workers : Known(job[u])'
  BY <1>1 DEF EventInv, Known
<1> QED
  BY <1>1, <1>3, <1>4 DEF EventInv, Founded

LEMMA NextFounded ==
    ASSUME KycInv, EventInv, [Next]_vars
    PROVE  EventInv'
<1>1. ASSUME NEW w \in Workers, Request(w) PROVE EventInv'
  BY <1>1, RequestFounded
<1>2. ASSUME NEW w \in Workers, Task(w) PROVE EventInv'
  BY <1>2, TaskFounded
<1>3. ASSUME NEW w \in Workers, Crash(w) PROVE EventInv'
  BY <1>3, EndFounded DEF Crash, rowVars
<1>4. ASSUME NEW task \in queue, CheckDocument(task) PROVE EventInv'
  BY <1>4 DEF CheckDocument, EventInv, Founded, Known
<1>5. ASSUME NEW task \in queue, Emit(task) PROVE EventInv'
  BY <1>5, EmitFounded
<1>6. ASSUME NEW last \in Verifications, Expire(last) PROVE EventInv'
  <2>1. UNCHANGED <<decided, told, queue, job>>
    BY <1>6 DEF Expire
  <2>2. \A v \in Verifications : record'[v].status \in {"approved", "rejected"}
                                     => record'[v].status = record[v].status
    <3> TAKE v \in Verifications
    <3>1. record[v] \in Records
      BY DEF KycInv, Shaped
    <3>2. record'[v] = record[v] \/ record'[v] = [record[v] EXCEPT !.status = "expired"]
      BY <1>6 DEF Expire
    <3> QED
      BY <3>1, <3>2 DEF Records
  <2>3. \A u \in Workers : Known(job[u])'
    BY <2>1 DEF EventInv, Known
  <2> QED
    BY <2>1, <2>2, <2>3, QuietKeeps
<1>7. CASE UNCHANGED vars
  BY <1>7 DEF vars, rowVars, EventInv, Founded, Known
<1> QED
  BY <1>1, <1>2, <1>3, <1>4, <1>5, <1>6, <1>7 DEF Next

\* Whatever overlaps, dies or is run again, an event tells a decision the record
\* of its verification had: run_identity_check() commits before it queues the
\* event, and a column its commit leaves alone because the job read the same
\* value already carried that decision.
THEOREM EventsTellDecisions == Spec => EventsAreFounded
<1> DEFINE Sends == \A v \in Verifications : told'[v] \ told[v] \subseteq decided[v]
<1>1. Init => KycInv /\ EventInv
  BY InitHolds, InitFounded
<1>2. KycInv /\ EventInv /\ [Next]_vars => (KycInv /\ EventInv)'
  BY NextKeeps, NextFounded
<1>3. KycInv /\ EventInv /\ [Next]_vars => [Sends]_vars
  <2> SUFFICES ASSUME KycInv, EventInv, [Next]_vars
               PROVE  Sends
    OBVIOUS
  <2>1. CASE UNCHANGED told
    BY <2>1
  <2>2. ASSUME NEW task \in queue, Emit(task) PROVE Sends
    <3>1. UNCHANGED decided
      BY <2>2 DEF Emit, rowVars
    <3>2. EventInv'
      BY <2>2, EmitFounded
    <3> QED
      BY <3>1, <3>2 DEF EventInv, Founded
  <2>3. UNCHANGED told \/ \E task \in queue : Emit(task)
    BY DEF Next, Request, Task, Open, Opened, Edit, Edited, Upload, Uploaded, Webhook,
           CheckIdentity, Call, Retry, Save, Announce, CheckDocument, Expire, Crash,
           vars
  <2> QED
    BY <2>1, <2>2, <2>3
<1>4. (Spec => [][Sends]_vars) => (Spec => EventsAreFounded)
  BY DEF EventsAreFounded
<1> HIDE DEF Sends
<1> QED
  BY <1>1, <1>2, <1>3, <1>4, PTL DEF Spec
=============================================================================
