SPECIFICATION Spec
CONSTANTS
    DefaultRequestTokensEstimate = 1000
    RawConfigs <- MCRawConfigs
    QuotaInfos <- MCQuotaInfos
    Levels <- MCLevels
    UsagePer <- MCUsagePer
    Families <- MCFamilies
    MaxChanges = 2
    MaxFaults = 2
INVARIANTS
    TypeOK
    AllowanceIsOrgQuota
PROPERTIES
    OrgUsageWasTrue
    LimitsAsReported
    UnlimitedNeverFull
    ConvergesToUsage
