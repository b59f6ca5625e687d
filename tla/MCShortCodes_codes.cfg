\* An alphabet of three, ids of up to five digits, the limits of the code.
SPECIFICATION Spec
CONSTANTS
    Base = 3
    MaxId = 85
    Lengths <- CodeLengths
    Days <- DaysSent
    Hops <- HopsSent
    MinLength = 4
    MaxLength = 10
    MinSetting = 4
    MaxSetting = 10
    MaxDays = 3650
    CodeWidth = 10
    ClientWidth = 64
    AddressLength = 45
INVARIANTS
    CodecCounts
    DecodesNothingElse
    Interchangeable
    AcceptedFits
CHECK_DEADLOCK FALSE
