SPECIFICATION FairSpec
CONSTANTS
    Users = {ann, bob}
    NoUser = NoUser
    Services = {"Motor", "Alarm", "Notification"}
    Todos = {"Unlock", "AlarmOff"}
    MaxCommands = 2
    MaxDrops = 1
    MaxCrashes = 1
    MaxFaults = 1
    MaxBeats = 0
PROPERTIES
    MailboxDrains
    CleanIsDone
CHECK_DEADLOCK FALSE
