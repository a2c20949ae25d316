SPECIFICATION Spec
CONSTANTS
    Modes = {"live", "one_host"}
    MaxStep = 3
    MaxDrop = 1
    Burst = 2
    MaxTry = 2
    EventCap = 1
    Deadline = 2
    InitialBackoff = 1
    MaxBackoff = 2
    MaxDial = 1
    Oversleep = 1
INVARIANT ReferencesStayValid
