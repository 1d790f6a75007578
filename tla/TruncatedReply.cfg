\* Two cleanse passes, a call of Anthropic each.
CONSTANTS
    ClaudeModels <- MCClaude
    OllamaTags <- MCTags
    Rows = {"check", "other"}
    CheckRows = {"check"}
    Categories = {"rent"}
    Configs <- MCConfigs
    Passes = {1, 2}
    Wishes = {{"cleanse"}}
    Price = 1
    Cap = 1
    MaxEdits = 1
    MaxChanges = 1
    EditMidRun = FALSE
    ChangeMidRun = FALSE
SPECIFICATION EnrichSpec
INVARIANTS BilledMeansBooked
CHECK_DEADLOCK FALSE
