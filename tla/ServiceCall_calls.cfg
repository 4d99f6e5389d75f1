SPECIFICATION FairSpec
CONSTANTS
    Calls = {unlock, rescue, again}
    Emergencies = {rescue, again}
    MaxWords = 3
    MaxDeaths = 1
INVARIANTS
    EverydayOnce
PROPERTY EmergencyReaches
CHECK_DEADLOCK FALSE
