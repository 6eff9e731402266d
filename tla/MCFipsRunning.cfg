CONSTANTS
    MaxAttempts = 1
SPECIFICATION BringupSpec
PROPERTIES FipsTrueMeansRunning
