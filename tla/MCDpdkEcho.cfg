CONSTANTS
    NumMbufs = 12
    RxDesc = 3
    TxDesc = 3
    BurstSize = 2
    Foreign = 2
    MaxRx = 3
SPECIFICATION FairSpec
INVARIANTS
    MbufsConserved
    DropsAreForeign
    RefillNeverFails
PROPERTY
    StopsOnSignal
CHECK_DEADLOCK FALSE
