SPECIFICATION Spec
CONSTANTS
    MaxNum = 2
    MaxStack = 9
    LocktimeThreshold = 500
    MaxMoney = 1000
    MaxWeight = 1200
    MaxHeaders = 2
    MaxInventory = 2
    MaxAddr = 2
    MaxPayload = 700
    Now <- MCNow
    Magic <- MCMagic
    AllowedMagic <- MCAllowedMagic
    Scenarios <- MCScenarios
INVARIANTS
    DeliveredAsSent
    ConditionalsAgree
    SynonymsAgree
    OnlyAuthorisedSpends
    NoOutputSpentTwice
    HonestSpendsAccepted
CHECK_DEADLOCK FALSE
