----------------------------- MODULE MCBinCache -----------------------------
(* A small instance of the card lookups.                                   *)
EXTENDS BinCacheProps

MCCards ==
    {[brand |-> "verve", country |-> "NG", prepaid |-> FALSE],
     [brand |-> "visa", country |-> "GH", prepaid |-> TRUE]}

\* Any card, the cards of one brand and no prepaid ones, domestic cards.
MCPolicies ==
    {[brands |-> {}, countries |-> {}, noPrepaid |-> FALSE, noInternational |-> FALSE],
     [brands |-> {"verve"}, countries |-> {}, noPrepaid |-> TRUE, noInternational |-> FALSE],
     [brands |-> {}, countries |-> {"GH"}, noPrepaid |-> FALSE, noInternational |-> FALSE],
     [brands |-> {}, countries |-> {}, noPrepaid |-> FALSE, noInternational |-> TRUE]}
=============================================================================
