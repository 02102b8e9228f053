SPECIFICATION FairSpec
CONSTANTS
    Attempts = 2
    UsbWaitPolls = 2
    NegotiateTimeout = 2
INVARIANTS
    TypeOK
    VerdictsTrue
PROPERTIES
    
    KeepsTrying
\* The script ends when its psdkd was stopped.
CHECK_DEADLOCK FALSE
