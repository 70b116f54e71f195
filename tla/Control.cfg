SPECIFICATION Spec
CONSTANTS
    FilterType <- Types
    Writes <- SomeWrites
    Target <- SomeTargets
    Address <- SomeAddresses
    MaxWrites = 3
INVARIANTS FilterExact ListsExact
PROPERTIES TargetRule
CHECK_DEADLOCK FALSE
