\* Scenarios of three steps of either protocol, over the mock or live, with one
\* connection of the FIX client lost.
SPECIFICATION FairSpec
CONSTANTS
    Modes = {"mock", "one_host"}
    MaxStep = 3
    MaxDrop = 1
    Burst = 2
    MaxTry = 2
    EventCap = 1
    Deadline = 2
    InitialBackoff = 1
    MaxBackoff = 2
    MaxDial = 1
    Oversleep = 1
INVARIANTS
    FixTypeOK
    ActiveMeansLoggedOn
    OneBreadcrumb
    OnlyAnyIsMisled
    DuplicateRejected
    CancelNamesOrder
    AttemptsInBudget
    AnswersAddUp
    TokenOnceAnywhere
PROPERTIES
    LogoutTakesEffect
    ScenarioEnds
