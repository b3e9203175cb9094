SPECIFICATION Spec
CONSTANTS
    Environments <- MCEnvironments
    MaxGeneration = 2
CHECK_DEADLOCK FALSE
INVARIANTS TypeOK ServesOnlyReady WholeCredentials OutcomesAreTrue
