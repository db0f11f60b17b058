CONSTANT MaxFaults = 3

SPECIFICATION Spec

INVARIANTS
    TypeOK
    OnlyKnownCrashes
    AcknowledgedIsStored
    KeysComeFirst
