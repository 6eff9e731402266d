CONSTANTS
    Settling = 3
    Grace = 1
    Deadline = 6
    Lag = 3
    Attempts = 2
SPECIFICATION FairSpec
INVARIANTS SuccessIsReal HealthyCallsSucceed CyclesCutPower
PROPERTIES CallsEnd
