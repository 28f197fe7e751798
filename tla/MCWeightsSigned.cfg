CONSTANTS
    None = None
    H = 2
    D = 2
    Lanes = 2
    Bits = 2
    Loads <- MCLoads
    Told <- MCTold
    Aimed <- MCAimed
    Stray <- MCStray
    Inputs <- MCInputs
SPECIFICATION Spec
INVARIANTS
    SignedWeights
CHECK_DEADLOCK FALSE
