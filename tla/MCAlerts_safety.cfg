\* The proportions of the rules: intervals of 30 seconds, a delay of 2.
SPECIFICATION Spec
CONSTANTS
    Operations <- TwoOperations
    Errors <- OneError
    MaxEvents = 4
    Window <- CoarseWindows
    Hold = 2
INVARIANTS
    TypeOK
    AlertHasCause
    OutageIsReported
