SPECIFICATION Spec
CONSTANTS
    MaxTime = 2
    Calls <- MCCalls
    Levels <- MCLevels
INVARIANTS
    TimingTypeOK
    LastTimes
PROPERTIES
    ExactlyTheViolations
