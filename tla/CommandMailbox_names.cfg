SPECIFICATION Spec
CONSTANTS
    Users = {ann, bob}
    NoUser = NoUser
    Services = {"Motor", "Alarm", "Notification"}
    Todos = {"Unlock"}
    MaxCommands = 2
    MaxDrops = 0
    MaxCrashes = 0
    MaxFaults = 0
    MaxBeats = 0
INVARIANTS
    LogNamesSender
CHECK_DEADLOCK FALSE
