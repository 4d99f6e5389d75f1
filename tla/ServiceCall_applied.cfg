SPECIFICATION FairSpec
CONSTANTS
    Calls = {rescue}
    Emergencies = {rescue}
    MaxWords = 3
    MaxDeaths = 0
PROPERTY EmergencyApplied
CHECK_DEADLOCK FALSE
