SPECIFICATION Spec
CONSTANTS
    r1 = r1
    r2 = r2
    Replicas = {r1, r2}
    Allowances <- MCAllowances
    ConfiguredReplicas = 2
    Demands <- MCDemands
    TTL = 3
    FloorPercent = 10
    Unit = 128
    Interval = 1
    FallbackAfterFailures = 3
    MaxTime = 6
    MaxEvents = 3
SYMMETRY ReplicaSymmetry
INVARIANTS
    TypeOK
    SharesSumToOne
    StaleShareExpires
    SettledWithinAllowance
