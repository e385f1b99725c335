---------------------------- MODULE MCCloudSync ----------------------------
(* Finite instances of CloudSync for TLC. *)
EXTENDS CloudSync

\* One rule is in byoc_rules.yaml, the other one exists on the dashboard only.
RuleRank == [local_rule |-> 1, team_rule |-> 2]

\* The scanner goes by SCAN_ACTION_MODE's value, or secrets_block_mode says otherwise.
AnyBlockMode ==
    {st \in [Settings -> {Default, "other"}] :
        \A s \in Settings \ {"scanner"} : st[s] = Default}
=============================================================================
