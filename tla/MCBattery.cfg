SPECIFICATION Spec
CONSTANTS
    WholeSamples <- OneWhole
    PackSamples <- MCPacks
    MaxAge = 1
    ClockMax = 3
INVARIANTS
    TypeOK
    FreshWins
    StaleGivesWay
    ChargeExplained
