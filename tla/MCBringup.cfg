CONSTANTS
    MaxAttempts = 3
SPECIFICATION BringupSpec
INVARIANTS StateIsEarned
PROPERTIES RungsInOrder
