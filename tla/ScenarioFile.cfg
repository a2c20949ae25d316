\* Files of three steps of any protocol.  A file that is refused or read ends the run.
SPECIFICATION Spec
CONSTANTS
    MaxStep = 3
    Token = {"a", "b"}
INVARIANTS
    PassedNamesAreFresh
    ArgumentsReachHandler
CHECK_DEADLOCK FALSE
