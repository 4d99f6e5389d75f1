SPECIFICATION FairSpec
CONSTANTS
    MaxId = 3
    MaxNotify = 3
    NoIndex = 99
    Commands <- MCCommands
    Events <- MCEvents
    Filters <- MCFilters
    Scenarios <- MCScenarios
INVARIANTS
    InOnePlace
    NoLostWakeup
    AnswersOwn
    
PROPERTIES
    
    QuietAfterUnref
    ImplementsMgmtService
    EveryRequestEnds
CHECK_DEADLOCK FALSE
