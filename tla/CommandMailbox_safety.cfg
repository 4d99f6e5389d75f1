SPECIFICATION Spec
CONSTANTS
    Users = {ann, bob}
    NoUser = NoUser
    Services = {"Motor", "Alarm", "Notification"}
    Todos = {"Emergency", "AlarmOff"}
    MaxCommands = 2
    MaxDrops = 1
    MaxCrashes = 1
    MaxFaults = 1
    MaxBeats = 1
SYMMETRY Sym
INVARIANTS
    DoneInOrder
    CleanNeverWiped
    EffectsMatch
CHECK_DEADLOCK FALSE
