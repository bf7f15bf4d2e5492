CONSTANTS
    Words = 3
    Ticks = 4
    MaxTries = 3
SPECIFICATION Spec
INVARIANTS
    SuccessMeansConfigured
    HealthySucceeds
PROPERTIES
    ProgramReturns
CHECK_DEADLOCK FALSE
