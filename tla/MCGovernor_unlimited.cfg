SPECIFICATION Spec
CONSTANTS
    r1 = r1
    r2 = r2
    r3 = r3
    Streams = {r1, r2, r3}
    Minute = 2
    SafetyMarginPercent = 10
    ReservePercent = 30
    Targets <- MCTargets
    Allowances <- MCAllowances
    Replicas = 2
    Unlimited = 36
    Policies <- MCPolicies
    Inputs <- MCUnmeteredInputs
    Snapshots = {}
    Responses <- MCOneResponse
    FallbackAfterFailures = 3
    MaxTime = 1
    MaxFailures = 0
INVARIANT
    UnlimitedNeverRunsOut
