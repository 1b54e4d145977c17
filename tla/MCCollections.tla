---------------------------- MODULE MCCollections ----------------------------
(* Instances of Collections for TLC.                                        *)
EXTENDS CollectionsProps, TLC

\* Workers are interchangeable, and so are the cases in the table.
CaseSymmetry == Permutations(Workers) \cup Permutations(Loaded)

\* The stream apart: no other step reads or writes it, OpenCase writes nothing
\* else, and no property mentions it.
CaseView == <<rowVars, overdue, today, sessionVars, overlapped>>
=============================================================================
