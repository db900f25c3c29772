CONSTANTS
    MaxEvents = 2
SPECIFICATION EnvironmentSpec
PROPERTIES CompleteEvidenceOnly
CHECK_DEADLOCK FALSE
