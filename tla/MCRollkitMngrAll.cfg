CONSTANTS
    Keys = {"a", "b", "c", "d", "e", "x", "y"}
    InitValidators <- Five
    InitPower <- Powers
    Lists <- MCLists
    Targets <- MCTargets
    IBCSmoothingFactor = 3
    IBCChoices = {TRUE, FALSE}
    PreBlockerChoices = {TRUE, FALSE}
    MaxHeight = 8
    MaxRequests = 2
SPECIFICATION FairSpec
INVARIANTS SlicesCoverTheSet RefusalsExplained NoRemovalGetsThrough
    LevelDuringMigration  PanicsOnlyOnShortLists
 
\* The chain stops for the migration, or the horizon is reached.
CHECK_DEADLOCK FALSE
