SPECIFICATION Spec
CONSTANTS
    WholeSamples <- OneWhole
    PackSamples <- OnePack
    MaxAge = 1
    ClockMax = 3
INVARIANT
    FreshIsReceived
