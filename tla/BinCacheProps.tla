---------------------------- MODULE BinCacheProps ----------------------------
(* What the card lookups promise.                                          *)
EXTENDS BinCache

\* An answer rests on what the provider said less than two periods ago: a row at
\* the end of its period is put into Redis for another one, and no further.
AnswerIsRecent == answer # Nothing => unsaid[answer.info] < Long

\* The bound that keeps it so: what is kept leaves an answer enough time.
EntriesAreRecent ==
    /\ unsaid[provider] = 0
    /\ row # Nothing /\ row.age <= Ttl => unsaid[row.info] <= row.age
    /\ cached # Nothing => unsaid[cached.info] + cached.left <= Long
    /\ \A s \in Sessions : fetched[s] # Nothing => unsaid[fetched[s]] = 0
=============================================================================
