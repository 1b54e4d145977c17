------------------------------- MODULE MCKyc -------------------------------
(* Instances of Kyc for TLC.                                               *)
EXTENDS KycProps, TLC

\* A clean approval and a rejection over sanctions.
MCAnswers ==
    {[status |-> "approved", sanctioned |-> FALSE],
     [status |-> "rejected", sanctioned |-> TRUE]}

WorkerSymmetry == Permutations(Workers)

\* Of a document only whether there is one, and not what the stream was told: no
\* other step reads the rest. (What a step tells it is decided by the queue.) The
\* histories that stop when jobs overlap matter until then.
RecordView ==
    <<record, decided, job, overlapped,
      IF overlapped THEN <<>> ELSE <<reopened, edited, verdicts>>,
      {task \in queue : task.task # "document"},
      {v \in Verifications : document[v] # "absent"}>>
=============================================================================
