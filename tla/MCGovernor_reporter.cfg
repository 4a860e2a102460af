SPECIFICATION Spec
CONSTANTS
    r1 = r1
    r2 = r2
    Streams = {r1, r2}
    Minute = 4
    SafetyMarginPercent = 10
    ReservePercent = 30
    Targets <- MCTargets
    Allowances <- MCAllowances
    Replicas = 2
    Unlimited = 9
    Policies <- MCPolicies
    Inputs <- MCDemandInputs
    Snapshots = {}
    Responses <- MCResponses
    FallbackAfterFailures = 3
    MaxTime = 0
    MaxFailures = 4
INVARIANTS
    TypeOK
    DemandConserved
    CapacityWithinAllowance
    EvenSplitWhenCutOff
PROPERTIES
    ImplementsAdmission
