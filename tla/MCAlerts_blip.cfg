\* The windows and the delay of the rules.
SPECIFICATION Spec
CONSTANTS
    Operations <- OneOperation
    Errors <- OneError
    MaxEvents = 2
    Window <- RuleWindows
    Hold = 4
INVARIANTS
    SingleBlipNeverFires
