SPECIFICATION Spec
CONSTANTS
    Minor <- MinorModules
    Major <- MajorModules
    Registered <- Hooks
    MaxCalls = 3
INVARIANTS RecordedDone NodeLife
CHECK_DEADLOCK FALSE
