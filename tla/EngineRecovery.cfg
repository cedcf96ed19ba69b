SPECIFICATION Spec
CONSTANTS
    LastRank = 2
    Operators = {op}
    Unit = Unit
    Nobody = Nobody
    MaxMishaps = 4
INVARIANTS
    TypeOK
    ArmedPassedGate
    RecoveredIsOwnHead
PROPERTIES
    BootUndisturbed
    WorldRecovers
