SPECIFICATION HouseFairSpec
CONSTANTS
    Statuses = {"Open", "Close", "Middle"}
    MaxSmokecount = 3
    MaxVisits = 2
    Scenarios <- MCScenarios
INVARIANTS
    ModalHasReason
    KnockerLives
    NotOlder
PROPERTIES
    ModalCloses
    DialogFollows
    
    VisitRecorded
CHECK_DEADLOCK FALSE
