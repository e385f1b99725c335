SPECIFICATION FairSpec
CONSTANTS
    Names = {"local_rule", "team_rule"}
    LocalNames = {"local_rule"}
    Rank <- RuleRank
    Bodies = {"b"}
    Editors = {1, 2}
    Serves = {TRUE, FALSE}
    Starts <- AnyBlockMode
    MaxEdits = 2
    MaxFaults = 2
INVARIANT TypeOK
INVARIANT LocalRuleKept
INVARIANT ActiveIsMerge
INVARIANT TrailExplainsOverrides
PROPERTY RulesConverge
PROPERTY SettingsConverge
