---------------------------- MODULE MCRateLimit -----------------------------
(* One rule; two with different windows, the second with room for more than one call or    *)
(* none; a rule without limit or window beside patterns.                                   *)
EXTENDS RateLimit

Rate(limit, window) == [kind |-> "rate", limit |-> limit, window |-> window]
Pattern(kind) == [kind |-> kind, limit |-> 0, window |-> 0]

SomeRuleSets ==
    {<<Rate(2, 3), Pattern("soft_block"), Pattern("hard_stop")>>,
     <<Rate(3, 4), Rate(2, 1)>>,
     <<Rate(2, 2), Rate(1, 3)>>,
     <<Rate(1, 0), Rate(0, 1), Pattern("hard_stop")>>,
     <<Pattern("soft_block")>>}
=============================================================================
