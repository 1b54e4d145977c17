--------------------------- MODULE MCDisbursement ---------------------------
(* Instances of Disbursement for TLC. *)
EXTENDS DisbursementProps, TLC

\* Workers are interchangeable; no liveness property is checked with it.
WorkerSymmetry == Permutations(Workers)
=============================================================================
