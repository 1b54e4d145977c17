------------------------------ MODULE Scoring ------------------------------
(***************************************************************************)
(* The credit-scoring service, for one customer: approvals on the KYC      *)
(* stream are scored, each in a session of its own that reads the current  *)
(* scores, makes them stale and adds its own in one transaction. Every     *)
(* process of the service runs a consumer of the same group: one is        *)
(* modelled with the entries that are delivered to it, the others (the     *)
(* peers) by the sessions in which they score approvals of this customer.  *)
(*                                                                         *)
(* POST /scores commits nothing: its response reads the factors of the new *)
(* row, which were never loaded, before the commit, and raises.            *)
(*                                                                         *)
(* The consumer scores entries of the form its documentation describes     *)
(* ("approved"). What the KYC service writes has the event inside a field  *)
(* "data" and none of the identifiers, so to the consumer it is "other",   *)
(* as is every event but an approval.                                      *)
(***************************************************************************)
EXTENDS Integers, Sequences, FiniteSets

CONSTANTS
    Peers,        \* consumers of the other processes of the service
    BatchSize,    \* kyc_batch_size
    MaxMessages,  \* bound on the entries of the stream
    MaxScores     \* bound on the rows of credit_scores

Consumer == "consumer"
Sessions == Peers \cup {Consumer}
Messages == 1 .. MaxMessages
NoMessage == 0
Rows == 1 .. MaxScores

ASSUME BoundsAssumption ==
    /\ BatchSize \in Nat \ {0} /\ MaxMessages \in Nat /\ MaxScores \in Nat
    /\ Consumer \notin Peers

Kinds == {"approved", "other"}
\* PENDING is written and overwritten in one transaction.
Statuses == {"absent", "computed", "failed", "stale"}
NoRow == [status |-> "absent", message |-> NoMessage]

VARIABLES
    entry,     \* what the stream has for this consumer
    upto,      \* the first entry that has not been delivered
    at,        \* the first delivered entry the consumer has not dealt with
    acked,     \* acknowledged entries
    left,      \* entries delivered and abandoned: nothing reads them again
    score,     \* credit_scores, and the message each row was computed for
    prior,     \* the current scores a session has read
    step,      \* what each session is about to do
    overlapped \* history: two sessions were under way at the same time

streamVars == <<entry, upto, at, acked, left>>
vars == <<streamVars, score, prior, step, overlapped>>

Steps == {"idle", "scoring", "acking"}

TypeOK ==
    /\ entry \in Seq(Kinds) /\ Len(entry) <= MaxMessages
    /\ upto \in 1 .. Len(entry) + 1 /\ at \in 1 .. upto
    /\ acked \subseteq 1 .. at - 1 /\ left \subseteq 1 .. at - 1
    /\ score \in [Rows -> [status : Statuses, message : Messages \cup {NoMessage}]]
    /\ prior \in [Sessions -> SUBSET Rows]
    /\ step \in [Sessions -> Steps]
    /\ overlapped \in BOOLEAN
    /\ step[Consumer] # "idle" => at < upto

Init ==
    /\ entry = << >>
    /\ upto = 1 /\ at = 1
    /\ acked = {} /\ left = {}
    /\ score = [r \in Rows |-> NoRow]
    /\ prior = [s \in Sessions |-> {}]
    /\ step = [s \in Sessions |-> "idle"]
    /\ overlapped = FALSE

With(status) == {r \in Rows : score[r].status = status}
Existing == Rows \ With("absent")

-----------------------------------------------------------------------------
(* request_score()                                                         *)

\* The session reads the current scores of the customer.
Read(s) ==
    /\ prior' = [prior EXCEPT ![s] = With("computed")]
    /\ step' = [step EXCEPT ![s] = "scoring"]
    /\ overlapped' = (overlapped \/ \E t \in Sessions \ {s} : step[t] = "scoring")

\* Mutant: the scores the session has read stay current.
TableBeside(s, outcome, message) ==
    [r \in Rows |->
        IF r \notin Existing /\ \A q \in Rows \ Existing : r <= q
          THEN [status |-> outcome, message |-> message]
        ELSE score[r]]
\* The table after session s adds a row of some outcome for a message.
Table(s, outcome, message) ==
    [r \in Rows |->
        IF r \notin Existing /\ \A q \in Rows \ Existing : r <= q
          THEN [status |-> outcome, message |-> message]
        ELSE IF r \in prior[s] THEN [score[r] EXCEPT !.status = "stale"]
        ELSE score[r]]

\* Mutant: a failed computation is rolled back, but for its stale marks.
PersistStaleFirst(s, message) ==
    /\ step[s] = "scoring"
    /\ Existing # Rows
    /\ \/ \E outcome \in {"computed", "failed"} :
            score' = Table(s, outcome, message)
       \/ score' = [r \in Rows |-> IF r \in prior[s]
                                     THEN [score[r] EXCEPT !.status = "stale"]
                                     ELSE score[r]]
\* The engine, the rows and the commit. The engine may fail: the new row says
\* so, and the scores that were current are stale all the same.
Persist(s, message) ==
    /\ step[s] = "scoring"
    /\ Existing # Rows   \* bound of the model
    /\ \E outcome \in {"computed", "failed"} :
         score' = Table(s, outcome, message)

End(s) ==
    /\ step' = [step EXCEPT ![s] = "idle"]
    /\ prior' = [prior EXCEPT ![s] = {}]

\* A peer has an approval of the customer.
PeerHandle(s) ==
    /\ s \in Peers /\ step[s] = "idle"
    /\ Read(s)
    /\ UNCHANGED <<streamVars, score>>

PeerHandled(s) ==
    /\ s \in Peers
    /\ Persist(s, NoMessage)
    /\ End(s)
    /\ UNCHANGED <<streamVars, overlapped>>

\* It ends without its commit: an error, or the process dies.
PeerFails(s) ==
    /\ s \in Peers /\ step[s] # "idle"
    /\ End(s)
    /\ UNCHANGED <<streamVars, score, overlapped>>

-----------------------------------------------------------------------------
(* The consumer                                                            *)

\* An entry is written to the stream.
Publish(kind) ==
    /\ Len(entry) < MaxMessages   \* bound of the model
    /\ entry' = Append(entry, kind)
    /\ UNCHANGED <<upto, at, acked, left, score, prior, step, overlapped>>

\* XREADGROUP with `>', once the last batch is done.
Deliver ==
    /\ at = upto /\ upto <= Len(entry)
    /\ upto' = IF upto + BatchSize <= Len(entry) THEN upto + BatchSize
               ELSE Len(entry) + 1
    /\ UNCHANGED <<entry, at, acked, left, score, prior, step, overlapped>>

\* _handle_event() up to the computation, for an approval.
Handle ==
    /\ at < upto /\ step[Consumer] = "idle"
    /\ entry[at] = "approved"
    /\ Read(Consumer)
    /\ UNCHANGED <<streamVars, score>>

\* Any other entry is acknowledged at once.
Skip ==
    /\ at < upto /\ step[Consumer] = "idle"
    /\ entry[at] # "approved"
    /\ acked' = acked \cup {at}
    /\ at' = at + 1
    /\ UNCHANGED <<entry, upto, left, score, prior, step, overlapped>>

\* Mutant: the entry is acknowledged before the commit.
HandledAckFirst ==
    /\ step[Consumer] = "scoring"
    /\ acked' = acked \cup {at} /\ at' = at + 1
    /\ \/ Persist(Consumer, at)
       \/ UNCHANGED score
    /\ End(Consumer)
    /\ UNCHANGED <<entry, upto, left, overlapped>>
\* The commit.
Handled ==
    /\ Persist(Consumer, at)
    /\ step' = [step EXCEPT ![Consumer] = "acking"]
    /\ prior' = [prior EXCEPT ![Consumer] = {}]
    /\ UNCHANGED <<streamVars, overlapped>>

\* XACK.
Ack ==
    /\ step[Consumer] = "acking"
    /\ acked' = acked \cup {at}
    /\ at' = at + 1
    /\ End(Consumer)
    /\ UNCHANGED <<entry, upto, left, score, overlapped>>

\* An error while one entry is dealt with: it is not acknowledged, and the next
\* one has its turn.
Abandon ==
    /\ at < upto
    /\ left' = left \cup {at}
    /\ at' = at + 1
    /\ End(Consumer)
    /\ UNCHANGED <<entry, upto, acked, score, overlapped>>

\* Mutant: the batch is delivered again.
CrashRedelivers ==
    /\ at < upto
    /\ upto' = at
    /\ End(Consumer)
    /\ UNCHANGED <<entry, at, acked, left, score, overlapped>>
\* The consumer dies with a batch.
Crash ==
    /\ at < upto
    /\ left' = left \cup (at .. upto - 1)
    /\ at' = upto
    /\ End(Consumer)
    /\ UNCHANGED <<entry, upto, acked, score, overlapped>>

Next ==
    \/ \E s \in Peers : PeerHandle(s) \/ PeerHandled(s) \/ PeerFails(s)
    \/ \E kind \in Kinds : Publish(kind)
    \/ Deliver \/ Handle \/ Skip \/ Handled \/ Ack \/ Abandon \/ Crash

Spec == Init /\ [][Next]_vars
=============================================================================
