SPECIFICATION Spec
CONSTANTS
    DefaultRequestTokensEstimate = 3
    ApiVersions <- MCApiVersions
    Streams = {s1, s2}
    RawConfigs <- MCRawConfigs
    Requests <- MCRequests
    MaxInt = 31
    MaxTokenEstimate = 7
SYMMETRY StreamSymmetry
INVARIANTS
    TypeOK
    AcceptedMeansGoverned
    ChargedWhereSent
    HostServesRegion
    UpstreamHeadersTrusted
    EstimateCoversBody
