------------------------------ MODULE BinCache ------------------------------
(***************************************************************************)
(* The card lookups of the KYC service, for one card: what the provider    *)
(* says of it is kept for a period in Redis and in a row of bin_records,   *)
(* and a card is accepted or refused by it. A lookup that fails gives no   *)
(* answer: the request ends with an error (bin_info has no default).       *)
(*                                                                         *)
(* Time is counted in ticks. A lookup takes seconds and the period is a    *)
(* day, so no time passes while a lookup is under way.                     *)
(***************************************************************************)
EXTENDS Integers

CONSTANTS
    Sessions,  \* lookups that may be under way at the same time
    Cards,     \* what the provider may say: brand, country, prepaid
    Policies,  \* brands, countries (empty: any), noPrepaid, noInternational
    Nothing,   \* a field the provider does not know; no row, entry or answer
    Ttl        \* bin_cache_ttl, in ticks

\* A card the provider does not know (404) is kept like any other.
Unknown == [brand |-> Nothing, country |-> Nothing, prepaid |-> FALSE]
Infos == Cards \cup {Unknown}

Long == 2 * Ttl   \* this many ticks or more

ASSUME TtlAssumption == Ttl \in Nat \ {0}

VARIABLES
    provider,  \* what the provider says now
    unsaid,    \* history: the ticks since the provider said each thing, up to Long
    row,       \* the row, and the ticks since it was written, up to Ttl + 1
    cached,    \* the entry in Redis, and the ticks it has left
    fetched,   \* what each lookup that found neither has fetched
    answer     \* history: the last answer of this tick

vars == <<provider, unsaid, row, cached, fetched, answer>>

TypeOK ==
    /\ provider \in Infos
    /\ unsaid \in [Infos -> 0 .. Long]
    /\ row \in [info : Infos, age : 0 .. Ttl + 1] \cup {Nothing}
    /\ cached \in [info : Infos, left : 1 .. Ttl] \cup {Nothing}
    /\ fetched \in [Sessions -> Infos \cup {Nothing}]
    /\ answer \in [info : Infos, policy : Policies, allowed : BOOLEAN] \cup {Nothing}

Init ==
    /\ provider \in Infos
    /\ unsaid = [i \in Infos |-> IF i = provider THEN 0 ELSE Long]
    /\ row = Nothing /\ cached = Nothing
    /\ fetched = [s \in Sessions |-> Nothing]
    /\ answer = Nothing

-----------------------------------------------------------------------------
(* validate()                                                              *)

\* A field the provider does not know is no reason to refuse, and every known
\* country is one when international cards are.
Permits(policy, info) ==
    /\ policy.noPrepaid => ~info.prepaid
    /\ policy.brands = {} \/ info.brand \in policy.brands \cup {Nothing}
    /\ policy.noInternational => info.country = Nothing
    /\ policy.countries = {} \/ info.country \in policy.countries \cup {Nothing}

\* What was found is judged by some policy.
Judge(info) ==
    \E policy \in Policies :
        answer' = [info |-> info, policy |-> policy, allowed |-> Permits(policy, info)]

-----------------------------------------------------------------------------
(* lookup()                                                                *)

\* ~ _is_expired()
RowFresh == row # Nothing /\ row.age <= Ttl

\* A hit in Redis.
HitCache ==
    /\ cached # Nothing
    /\ Judge(cached.info)
    /\ UNCHANGED <<provider, unsaid, row, cached, fetched>>

\* A hit in the database goes to Redis, for a whole period.
HitRow ==
    /\ cached = Nothing /\ RowFresh
    /\ cached' = [info |-> row.info, left |-> Ttl]
    /\ Judge(row.info)
    /\ UNCHANGED <<provider, unsaid, row, fetched>>

\* Neither: the provider is asked. When it fails nothing changes.
Fetch(s) ==
    /\ fetched[s] = Nothing
    /\ cached = Nothing /\ ~RowFresh
    /\ fetched' = [fetched EXCEPT ![s] = provider]
    /\ UNCHANGED <<provider, unsaid, row, cached, answer>>

\* The row is written, then the entry, and the row is committed or not.
Store(s) ==
    /\ fetched[s] # Nothing
    /\ cached' = [info |-> fetched[s], left |-> Ttl]
    /\ \/ row' = [info |-> fetched[s], age |-> 0]
       \/ UNCHANGED row
    /\ Judge(fetched[s])
    /\ fetched' = [fetched EXCEPT ![s] = Nothing]
    /\ UNCHANGED <<provider, unsaid>>

\* The row cannot be written: of two lookups that insert it one raises.
StoreFails(s) ==
    /\ fetched[s] # Nothing
    /\ fetched' = [fetched EXCEPT ![s] = Nothing]
    /\ UNCHANGED <<provider, unsaid, row, cached, answer>>

-----------------------------------------------------------------------------

Older(age, most) == IF age < most THEN age + 1 ELSE most

\* Mutant: an entry of Redis is kept one period more.
TickKeepsEntry ==
    /\ fetched = [s \in Sessions |-> Nothing]
    /\ provider' \in Infos
    /\ unsaid' = [i \in Infos |-> IF i = provider' THEN 0 ELSE Older(unsaid[i], Long)]
    /\ row' = IF row = Nothing THEN Nothing ELSE [row EXCEPT !.age = Older(@, Ttl + 1)]
    /\ UNCHANGED cached
    /\ answer' = Nothing
    /\ UNCHANGED fetched
\* A tick: the provider may say something else from now on.
Tick ==
    /\ fetched = [s \in Sessions |-> Nothing]
    /\ provider' \in Infos
    /\ unsaid' = [i \in Infos |-> IF i = provider' THEN 0 ELSE Older(unsaid[i], Long)]
    /\ row' = IF row = Nothing THEN Nothing ELSE [row EXCEPT !.age = Older(@, Ttl + 1)]
    /\ cached' = IF cached = Nothing \/ cached.left = 1 THEN Nothing
                 ELSE [cached EXCEPT !.left = @ - 1]
    /\ answer' = Nothing
    /\ UNCHANGED fetched

Next ==
    \/ HitCache \/ HitRow \/ Tick
    \/ \E s \in Sessions : Fetch(s) \/ Store(s) \/ StoreFails(s)

Spec == Init /\ [][Next]_vars
=============================================================================
