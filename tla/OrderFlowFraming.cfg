\* One order, and an end-of-day pass beside the handlers of the next call.
SPECIFICATION Spec
CONSTANTS
    Explicit = {}
    Long = {}
    Stem = t1
    Kinds = {"day"}
    Logins = {"right"}
    MaxCall = 2
    MaxConn = 1
    Instrument = {}
    QuoteShapes = {}
    MaxBeat = 0
    MaxInactivate = 1
INVARIANTS FramesIntact
